---------------------------- MODULE PersonSession ----------------------------
(***************************************************************************)
(* The session of a person in one browser tab: PersonSessionRecovery and   *)
(* the console that uses it, the session cookies, and the server's routes  *)
(* for sign-in, refresh, logout and protected requests.                    *)
(* Source: control-plane/src/app/person-session-recovery.ts,               *)
(* web-console.tsx, modules/identity/transport/person-auth-http-handlers.ts*)
(*                                                                         *)
(* JavaScript runs to completion: an action of the tab is one turn of its  *)
(* event loop, with all the promise callbacks the turn releases.  A fetch  *)
(* sends the cookies of its moment; cookies a response sets are in the jar *)
(* before the turn that handles the response, so those are two actions.    *)
(* The console's load of the device list stands for its protected requests:*)
(* all go through recovery.fetch and look at the session again before they *)
(* use a response, and once more when they have read its body.             *)
(*                                                                         *)
(* The jar holds both tokens of one person or none; whether they are still *)
(* good is the identity provider's choice at every use.                    *)
(***************************************************************************)
EXTENDS Naturals

CONSTANTS
  Person,
  Call,       \* slots for protected requests of the console
  None,
  MaxSession, \* bound on generation at a logout or an accepted sign-in
  MaxRefresh  \* bound on the successful refreshes of a run

VARIABLES
  jar,         \* whose session cookies the browser holds, or None
  generation,  \* sessionGeneration
  rotations,   \* refreshGeneration
  signedOut,   \* signedOut
  refresh,     \* refreshInFlight with its request, or None
  calls,       \* the protected requests under way
  signIn,      \* the verification of a one-time code under way, or None
  logout,      \* the last logout, or None
  authenticated, \* the console's authenticated: TRUE, FALSE or null
  shown,       \* the device list on the page, or None
  account      \* whose session the tab is in: who signed in last

tabVars == <<generation, rotations, signedOut>>
pageVars == <<authenticated, shown>>
vars == <<jar, tabVars, refresh, calls, signIn, logout, pageVars, account>>

ASSUME SessionAssumption ==
  None \notin Person /\ None \notin [who: Person, accepted: BOOLEAN]

Holder == Person \cup {None}
Status == {"OK", "UNAUTHORIZED", "ERROR"}
RefreshOutcome == {"TOKENS", "REJECTED", "UNAVAILABLE"}

Idle == [phase |-> "idle", session |-> 0, rotation |-> 0, who |-> None,
         retried |-> FALSE, aborted |-> FALSE]

CallRow ==
  [phase: {"idle", "sent", "waiting", "reading"}, session: Nat, rotation: Nat,
   who: Holder, retried: BOOLEAN, aborted: BOOLEAN]

TypeOK ==
  /\ jar \in Holder
  /\ generation \in Nat /\ rotations \in Nat /\ signedOut \in BOOLEAN
  /\ refresh = None \/
     refresh \in [session: Nat, who: Holder,
                  outcome: RefreshOutcome \cup {None}]
  /\ calls \in [Call -> CallRow]
  /\ signIn = None \/ signIn \in [who: Person, accepted: BOOLEAN]
  /\ logout = None \/
     logout \in [session: Nat, phase: {"waiting", "sent", "answered", "lost"}]
  /\ authenticated \in {"TRUE", "FALSE", "null"}
  /\ shown = None \/ shown \in [who: Person, session: Nat]
  /\ account \in Holder

(* The page is opened, with or without cookies of an earlier visit, and    *)
(* loads its data.                                                         *)
Init ==
  /\ jar \in Holder
  /\ generation = 0 /\ rotations = 0 /\ signedOut = FALSE
  /\ refresh = None
  /\ \E first \in Call :
       calls = [c \in Call |->
                  IF c = first THEN [Idle EXCEPT !.phase = "sent", !.who = jar]
                               ELSE Idle]
  /\ signIn = None /\ logout = None
  /\ authenticated = "null" /\ shown = None
  /\ account = jar
----------------------------------------------------------------------------
(* PersonSessionRecovery and the console's use of it.                      *)

(* Mutant: any session will do, as long as there is one.                   *)
IsActive(session) == ~signedOut

IsCurrent(session) == ~signedOut /\ session = generation

(* recovery.fetch: a new request, with the cookies of this moment.         *)
Sent(session, cookies) ==
  [phase |-> "sent", session |-> session, rotation |-> rotations,
   who |-> cookies, retried |-> FALSE, aborted |-> FALSE]

Retried(c, cookies) ==
  [calls[c] EXCEPT !.phase = "sent", !.who = cookies, !.retried = TRUE]

(* clearProtectedData: the page forgets everything of the person.          *)
ClearPage == authenticated' = "FALSE" /\ shown' = None

(* endSession; rejectSession also, unless the session has already ended.   *)
EndSession ==
  /\ signedOut' = TRUE
  /\ generation' = generation + 1
  /\ UNCHANGED rotations

RejectSession == EndSession /\ ClearPage

(* What the console does when recovery.fetch returned status for a request *)
(* of this session, before it reads a body.                                *)
PageAfter(session, status) ==
  IF ~IsCurrent(session) THEN UNCHANGED pageVars
  ELSE CASE status = "OK"           -> UNCHANGED pageVars
         [] status = "UNAUTHORIZED" -> ClearPage
         [] status = "ERROR"        -> /\ authenticated' = "null"
                                       /\ UNCHANGED shown

(* Something the person does with what the page shows loads it again.      *)
StartCall(c) ==
  /\ calls[c].phase = "idle"
  /\ authenticated = "TRUE" \/ shown # None
  /\ calls' = [calls EXCEPT ![c] = Sent(generation, jar)]
  /\ UNCHANGED <<jar, tabVars, refresh, signIn, logout, pageVars, account>>

(* A server that sees no access token refuses; otherwise it depends on the *)
(* token and the service.                                                  *)
Answers(cookies) == IF cookies = None THEN {"UNAUTHORIZED", "ERROR"} ELSE Status

(* recovery.fetch returns this response to the console.                    *)
Return(c, status) ==
  /\ PageAfter(calls[c].session, status)
  /\ calls' =
       [calls EXCEPT ![c] =
          IF status = "OK" /\ IsCurrent(calls[c].session)
            THEN [@ EXCEPT !.phase = "reading"] ELSE Idle]

(* The first response: returned as it is, unless it is a 401 a refresh of  *)
(* the same session may cure.                                              *)
AnswerFirst(c, status) ==
  /\ calls[c].phase = "sent" /\ ~calls[c].retried
  /\ status \in Answers(calls[c].who)
  /\ IF status # "UNAUTHORIZED" \/ ~IsCurrent(calls[c].session)
       THEN Return(c, status) /\ UNCHANGED refresh
     ELSE IF calls[c].rotation # rotations
       THEN /\ calls' = [calls EXCEPT ![c] = Retried(c, jar)]
            /\ UNCHANGED <<refresh, pageVars>>
     ELSE /\ calls' = [calls EXCEPT ![c].phase = "waiting"]
          /\ refresh' = IF refresh # None THEN refresh
                        ELSE [session |-> generation, who |-> jar,
                              outcome |-> None]
          /\ UNCHANGED pageVars
  /\ UNCHANGED <<jar, tabVars, signIn, logout, account>>

(* The response to the one retry: a second 401 ends the session.           *)
AnswerRetry(c, status) ==
  /\ calls[c].phase = "sent" /\ calls[c].retried
  /\ status \in Answers(calls[c].who)
  /\ IF status = "UNAUTHORIZED" /\ IsCurrent(calls[c].session)
       THEN /\ RejectSession
            /\ calls' = [calls EXCEPT ![c] = Idle]
       ELSE Return(c, status) /\ UNCHANGED tabVars
  /\ UNCHANGED <<jar, refresh, signIn, logout, account>>

(* Mutant: the session is not looked at again after the body was read.     *)
ReadBodyUnchecked(c, complete) ==
  /\ calls[c].phase = "reading"
  /\ IF complete
       THEN /\ authenticated' = "TRUE"
            /\ shown' = [who |-> calls[c].who, session |-> generation]
       ELSE authenticated' = "null" /\ UNCHANGED shown
  /\ calls' = [calls EXCEPT ![c] = Idle]
  /\ UNCHANGED <<jar, tabVars, refresh, signIn, logout, account>>

(* readCurrentPersonJson: the body arrives, or does not.                   *)
ReadBody(c, complete) ==
  /\ calls[c].phase = "reading"
  /\ IF ~IsCurrent(calls[c].session) THEN UNCHANGED pageVars
     ELSE IF complete
       THEN /\ authenticated' = "TRUE"
            /\ shown' = [who |-> calls[c].who, session |-> generation]
       ELSE authenticated' = "null" /\ UNCHANGED shown
  /\ calls' = [calls EXCEPT ![c] = Idle]
  /\ UNCHANGED <<jar, tabVars, refresh, signIn, logout, account>>

(* The console withdraws a request.  While it waits for a refresh only the *)
(* signal is remembered.                                                   *)
Abort(c) ==
  /\ calls[c].phase # "idle" /\ ~calls[c].aborted
  /\ IF calls[c].phase = "waiting"
       THEN /\ calls' = [calls EXCEPT ![c].aborted = TRUE]
            /\ UNCHANGED pageVars
       ELSE /\ calls' = [calls EXCEPT ![c] = Idle]
            /\ PageAfter(calls[c].session, "ERROR")
  /\ UNCHANGED <<jar, tabVars, refresh, signIn, logout, account>>

(* Mutant: everything that was not rejected is retried.                    *)
CuredUnlessRejected(c) ==
  /\ refresh.outcome # "REJECTED"
  /\ IsCurrent(refresh.session)
  /\ IsCurrent(calls[c].session)
  /\ ~calls[c].aborted

(* A waiting call that the refresh cured is sent once more.                *)
Cured(c) ==
  /\ refresh.outcome = "TOKENS"
  /\ IsCurrent(refresh.session)
  /\ IsCurrent(calls[c].session)
  /\ ~calls[c].aborted

(* Mutant: the logout is forgotten when the refresh settles.               *)
FinishRefreshOnly ==
  /\ refresh # None /\ refresh.outcome # None
  /\ LET current == IsCurrent(refresh.session)
     IN  /\ rotations' = IF current /\ refresh.outcome = "TOKENS"
                           THEN rotations + 1 ELSE rotations
         /\ UNCHANGED <<generation, signedOut>>
         /\ calls' = [c \in Call |->
                        IF calls[c].phase # "waiting" THEN calls[c]
                        ELSE IF Cured(c) THEN Retried(c, jar) ELSE Idle]
  /\ refresh' = None
  /\ UNCHANGED <<pageVars, logout, jar, signIn, account>>

(* The response to the refresh is handled: refreshInFlight is cleared, the *)
(* calls that wait for it are retried or get their 401 back, and a logout  *)
(* that waits for it is sent.  A refresh of an earlier session is ignored; *)
(* one that is rejected ends the session.                                  *)
FinishRefresh ==
  /\ refresh # None /\ refresh.outcome # None
  /\ LET waiting  == {c \in Call : calls[c].phase = "waiting"}
         current  == IsCurrent(refresh.session)
     IN  /\ IF current /\ refresh.outcome = "REJECTED"
              THEN RejectSession
              ELSE /\ rotations' = IF current /\ refresh.outcome = "TOKENS"
                                     THEN rotations + 1 ELSE rotations
                   /\ UNCHANGED <<generation, signedOut>>
                   /\ IF \E c \in waiting :
                           IsCurrent(calls[c].session) /\ ~Cured(c)
                        THEN ClearPage ELSE UNCHANGED pageVars
         /\ calls' = [c \in Call |->
                        IF c \notin waiting THEN calls[c]
                        ELSE IF Cured(c) THEN Retried(c, jar) ELSE Idle]
  /\ refresh' = None
  /\ logout' = IF logout # None /\ logout.phase = "waiting"
                 THEN [logout EXCEPT !.phase = "sent"] ELSE logout
  /\ UNCHANGED <<jar, signIn, account>>

(* Mutant: logout does not wait for the refresh.                           *)
ClickLogoutAtOnce ==
  /\ authenticated = "TRUE"
  /\ logout # None => logout.phase \in {"answered", "lost"}
  /\ generation < MaxSession
  /\ EndSession /\ ClearPage
  /\ logout' = [session |-> generation + 1, phase |-> "sent"]
  /\ UNCHANGED <<jar, refresh, calls, signIn, account>>

(* The person clicks logout, which the page offers while authenticated.    *)
(* One logout is under way at a time: a second one, after a sign-in that   *)
(* overtook a first one still waiting for its refresh, is left out.        *)
ClickLogout ==
  /\ authenticated = "TRUE"
  /\ logout # None => logout.phase \in {"answered", "lost"}
  /\ generation < MaxSession
  /\ EndSession /\ ClearPage
  /\ logout' = [session |-> generation + 1,
                phase |-> IF refresh = None THEN "sent" ELSE "waiting"]
  /\ UNCHANGED <<jar, refresh, calls, signIn, account>>

(* The person enters a one-time code, which the page asks for unless it is *)
(* authenticated.  An older submission that ends re-enables the form.      *)
ClickSignIn(person) ==
  /\ authenticated # "TRUE"
  /\ signIn = None
  /\ signIn' = [who |-> person, accepted |-> FALSE]
  /\ UNCHANGED <<jar, tabVars, refresh, calls, logout, pageVars, account>>

(* verifyOtp goes on: a new session, whose data is loaded at once.         *)
FinishSignIn(c) ==
  /\ signIn # None /\ signIn.accepted
  /\ calls[c].phase = "idle"
  /\ signedOut' = FALSE
  /\ generation' = generation + 1
  /\ calls' = [calls EXCEPT ![c] = Sent(generation + 1, jar)]
  /\ signIn' = None
  /\ account' = signIn.who
  /\ UNCHANGED <<jar, rotations, refresh, logout, pageVars>>
----------------------------------------------------------------------------
(* The routes under /api/person/v1/auth, and the cookies they set.         *)

(* Without a refresh token the route refuses and clears the cookies; a     *)
(* response that does not arrive leaves them alone.                        *)
AnswerRefresh(outcome) ==
  /\ refresh # None /\ refresh.outcome = None
  /\ outcome = "TOKENS" => refresh.who # None /\ rotations < MaxRefresh
  /\ jar' = CASE outcome = "TOKENS"      -> refresh.who
              [] outcome = "REJECTED"    -> None
              [] outcome = "UNAVAILABLE" -> jar
  /\ refresh' = [refresh EXCEPT !.outcome = outcome]
  /\ UNCHANGED <<tabVars, calls, signIn, logout, pageVars, account>>

(* The cookies are cleared whatever the provider answers.                  *)
AnswerLogout ==
  /\ logout # None /\ logout.phase = "sent"
  /\ \/ /\ jar' = None
        /\ logout' = [logout EXCEPT !.phase = "answered"]
     \/ /\ logout' = [logout EXCEPT !.phase = "lost"]
        /\ UNCHANGED jar
  /\ UNCHANGED <<tabVars, refresh, calls, signIn, pageVars, account>>

AnswerSignIn ==
  /\ signIn # None /\ ~signIn.accepted
  /\ \/ /\ generation < MaxSession
        /\ jar' = signIn.who
        /\ signIn' = [signIn EXCEPT !.accepted = TRUE]
     \/ /\ signIn' = None
        /\ UNCHANGED jar
  /\ UNCHANGED <<tabVars, refresh, calls, logout, pageVars, account>>
----------------------------------------------------------------------------
Requests ==
  \E c \in Call :
    \/ StartCall(c)
    \/ \E status \in Status : AnswerFirst(c, status) \/ AnswerRetry(c, status)
    \/ \E complete \in BOOLEAN : ReadBody(c, complete)
    \/ Abort(c)

Refreshing ==
  FinishRefresh \/ \E outcome \in RefreshOutcome : AnswerRefresh(outcome)

LeavingOrEntering ==
  \/ ClickLogout \/ AnswerLogout \/ AnswerSignIn
  \/ \E person \in Person : ClickSignIn(person)
  \/ \E c \in Call : FinishSignIn(c)

Next == Requests \/ Refreshing \/ LeavingOrEntering

Spec == Init /\ [][Next]_vars

(* A fetch settles in the end, with a response or a network error, and the *)
(* event loop gets to every callback.                                      *)
Fairness ==
  /\ \A c \in Call :
       /\ WF_vars(\E status \in Status :
                     AnswerFirst(c, status) \/ AnswerRetry(c, status))
       /\ WF_vars(\E complete \in BOOLEAN : ReadBody(c, complete))
  /\ WF_vars(Refreshing)
  /\ WF_vars(AnswerLogout)

FairSpec == Spec /\ Fairness
----------------------------------------------------------------------------
(* An ended session leaves nothing on the page, whatever responses and     *)
(* bodies of its requests are still to come.                               *)
EndedSessionShowsNothing ==
  signedOut => shown = None /\ authenticated = "FALSE"

(* Once a logout is answered the browser holds no session, until a sign-in *)
(* begins: no refresh that was under way brings one back, because logout   *)
(* waited for it.                                                          *)
SignedOutStaysOut ==
  /\ logout # None /\ logout.phase = "answered"
  /\ logout.session = generation
  /\ signIn = None
  => jar = None

(* A request is sent a second time only after a refresh succeeded that was *)
(* newer than its first sending, in the session it began in.               *)
RetriesFollowRotation ==
  [][\A c \in Call :
       ~calls[c].retried /\ calls'[c].retried
       => /\ calls[c].rotation < rotations'
          /\ IsCurrent(calls[c].session)]_vars

(* What a request of this session has put on the page is the data of the   *)
(* person who signed in to it.  Of a list that was there before nothing is *)
(* said: that is PageIsTheAccounts.                                        *)
LoadedDataIsTheAccounts ==
  shown # None /\ shown.session = generation => shown.who = account

(* Whatever the page shows is the data of the person who signed in last.   *)
(* The code does not keep this, not even for a person who is patient: a    *)
(* load that fails leaves the list of devices where it is, and a sign-in   *)
(* clears nothing.                                                         *)
PageIsTheAccounts == shown # None => shown.who = account

(* Every protected request comes to an end, waiting for a refresh or not,  *)
(* and so does a logout.                                                   *)
EverythingSettles ==
  /\ \A c \in Call : calls[c].phase # "idle" ~> calls[c].phase = "idle"
  /\ (logout # None /\ logout.phase = "waiting")
       ~> (logout # None /\ logout.phase \in {"answered", "lost"})
=============================================================================
