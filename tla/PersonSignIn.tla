---------------------------- MODULE PersonSignIn ----------------------------
(***************************************************************************)
(* Signing in by mail.  A browser asks for a mail and keeps the secret of  *)
(* that request, its PKCE challenge, in cookies; the mail carries a link   *)
(* back to the callback and a one-time code; either gives the browser the  *)
(* cookies of a session.  The identities signed in to are Provisioning's,  *)
(* and provisioning goes on meanwhile.                                     *)
(* Source: modules/identity, transport/person-auth-http-handlers.ts and    *)
(* what it calls.  The provider's mails are modelled from how it is used.  *)
(*                                                                         *)
(* A handler, with its call to the provider, is one step: it reads nothing *)
(* but its request.  Its answer reaches the browser later, in any order    *)
(* with others, or never.  A request refused without Set-Cookie changes    *)
(* nothing.  Refreshing a session is module PersonSession.                 *)
(***************************************************************************)
EXTENDS Provisioning

CONSTANTS
  Browser,
  Challenge, \* what the PKCE generator makes: verifier and state are one
  Kept       \* what a cookie is set to by a response that leaves it out

VARIABLES
  asks,     \* the browser and the email each challenge was made for, or None
  mails,    \* of each challenge the mail, [id, live], or None
  browsers, \* each browser's cookies: pkce and session, or None
  answers   \* HTTP responses under way, with what their Set-Cookie sets

signInVars == <<asks, mails, browsers, answers>>

ASSUME ChallengeAssumption ==
  /\ None \notin Browser \cup Challenge
  /\ None \notin [browser: Browser, email: Email]
  /\ Kept \notin Challenge \cup {None}

Session == [by: {"LINK", "CODE"}, challenge: Challenge, id: Id]

SignInTypeOK ==
  /\ asks \in [Challenge -> [browser: Browser, email: Email] \cup {None}]
  /\ mails \in [Challenge -> [id: Id, live: BOOLEAN] \cup {None}]
  /\ browsers \in [Browser -> [pkce: Challenge \cup {None},
                               session: Session \cup {None}]]
  /\ answers \subseteq [browser: Browser, pkce: Challenge \cup {None, Kept},
                        session: Session \cup {None, Kept}]

SignInInit ==
  /\ asks = [c \in Challenge |-> None]
  /\ mails = [c \in Challenge |-> None]
  /\ browsers = [b \in Browser |-> [pkce |-> None, session |-> None]]
  /\ answers = {}

Respond(b, pkce, session) ==
  answers' = answers \cup {[browser |-> b, pkce |-> pkce, session |-> session]}

IdentitiesOf(email) == {i \in Id : identities[i] = email}

(* handleBeginPersonAuth.  The challenge's cookies are set whatever the    *)
(* provider answers; it mails only to an identity it has, and a mail may   *)
(* be under way though the provider's answer was lost.                     *)
Ask(b, email, c) ==
  /\ asks[c] = None
  /\ asks' = [asks EXCEPT ![c] = [browser |-> b, email |-> email]]
  /\ Respond(b, c, Kept)
  /\ UNCHANGED browsers

AskAndMail(b, email, c) ==
  /\ Ask(b, email, c)
  /\ \E i \in IdentitiesOf(email) :
       mails' = [mails EXCEPT ![c] = [id |-> i, live |-> TRUE]]

(* No such identity (create_user is false), too many mails, or no answer.  *)
AskInVain(b, email, c) ==
  /\ Ask(b, email, c)
  /\ UNCHANGED mails

(* A mail is good for one sign-in, by link or by code, of an identity that *)
(* is still there.                                                         *)
IsGood(c) == mails[c].live /\ identities[mails[c].id] # None

UseUp(c) == mails' = [mails EXCEPT ![c].live = FALSE]

SignedIn(by, c) == [by |-> by, challenge |-> c, id |-> mails[c].id]

(* Mutant: the verifier is kept by the server, under the state.            *)
FoundByState(b, c) == c

(* Mutant: the cookies are SameSite=Strict, and links in mails lack them.  *)
WithheldFromLinks(b, c) == None

(* The challenge that comes with a link's request.                         *)
Presented(b, c) == browsers[b].pkce

(* handlePersonAuthCallback: the state and then, at the provider, the      *)
(* verifier have to be those of the mail's challenge.                      *)
FollowLink(b, c) ==
  /\ mails[c] # None /\ IsGood(c)
  /\ Presented(b, c) = c
  /\ UseUp(c)
  /\ Respond(b, None, SignedIn("LINK", c))
  /\ UNCHANGED <<asks, browsers>>

(* Its every other outcome clears the challenge, whichever it is, whether  *)
(* the provider took the link or never heard of it.                        *)
FollowInVain(b, c) ==
  /\ \/ mails[c] # None /\ UseUp(c)
     \/ UNCHANGED mails
  /\ Respond(b, None, Kept)
  /\ UNCHANGED <<asks, browsers>>

(* handleVerifyPersonOtp: any challenge will do.                           *)
EnterCode(b, c) ==
  /\ mails[c] # None /\ IsGood(c)
  /\ browsers[b].pkce # None
  /\ UseUp(c)
  /\ Respond(b, None, SignedIn("CODE", c))
  /\ UNCHANGED <<asks, browsers>>

(* The provider took the code, and its answer was lost or malformed.       *)
EnterInVain(b, c) ==
  /\ mails[c] # None /\ IsGood(c)
  /\ browsers[b].pkce # None
  /\ UseUp(c)
  /\ UNCHANGED <<asks, browsers, answers>>

(* handleLogoutPersonSession: whatever the provider answers.               *)
LogOut(b) ==
  /\ Respond(b, None, None)
  /\ UNCHANGED <<asks, mails, browsers>>

Set(old, new) == IF new = Kept THEN old ELSE new

Deliver(answer) ==
  /\ answers' = answers \ {answer}
  /\ browsers' = [browsers EXCEPT
       ![answer.browser] = [pkce |-> Set(@.pkce, answer.pkce),
                            session |-> Set(@.session, answer.session)]]
  /\ UNCHANGED <<asks, mails>>

LoseAnswer(answer) ==
  /\ answers' = answers \ {answer}
  /\ UNCHANGED <<asks, mails, browsers>>

(* Max-Age: ten minutes after it was set the challenge is gone.            *)
Expire(b) ==
  /\ browsers[b].pkce # None
  /\ browsers' = [browsers EXCEPT ![b].pkce = None]
  /\ UNCHANGED <<asks, mails, answers>>

SignIn ==
  /\ \E b \in Browser :
       \/ \E c \in Challenge :
            \/ \E email \in Email :
                 AskAndMail(b, email, c) \/ AskInVain(b, email, c)
            \/ FollowLink(b, c) \/ FollowInVain(b, c)
            \/ EnterCode(b, c) \/ EnterInVain(b, c)
       \/ LogOut(b) \/ Expire(b)
  /\ UNCHANGED vars

Answer ==
  /\ \E answer \in answers : Deliver(answer) \/ LoseAnswer(answer)
  /\ UNCHANGED vars

SignInNext == SignIn \/ Answer \/ (Next /\ UNCHANGED signInVars)

SignInSpec ==
  Init /\ SignInInit /\ [][SignInNext]_<<vars, signInVars>>
----------------------------------------------------------------------------
(* Mutant: a token that verifies is enough.                                *)
AuthenticatesAnyToken(id) == TRUE

(* authenticatePersonSession, for an account that is ACTIVE.  The token    *)
(* itself is verified without asking the provider.                         *)
Authenticates(id) == id \in people

(* A link signs in only the browser that asked for it: a mail opened in    *)
(* another one, or a link left over from an earlier request, changes no    *)
(* session, in whatever order answers come.                                *)
LinksStayInTheirBrowser ==
  \A b \in Browser :
    LET session == browsers[b].session
    IN  session # None /\ session.by = "LINK"
          => asks[session.challenge].browser = b

(* A session that gets past authentication is that of the email the mail   *)
(* was asked for, and of a person provisioned as a whole: an identity left *)
(* behind or deleted by a failed run may sign in and still gets nothing.   *)
(* Of deleted ones this is so as long as no answer to COMMIT is lost, for  *)
(* otherwise a run deletes the identity of a person who is there to stay.  *)
AccessIsProvisioned ==
  \A b \in Browser :
    LET session == browsers[b].session
    IN  session # None /\ Authenticates(session.id)
          => identities[session.id] = asks[session.challenge].email
=============================================================================
