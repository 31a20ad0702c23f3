-------------------------- MODULE PersonSignInProofs --------------------------
(***************************************************************************)
(* What signing in by mail and provisioning keep true, for any runs,       *)
(* emails, identifiers, browsers and challenges, whichever answers are     *)
(* lost.  Only AccessIsEarned needs the answers to COMMIT.                 *)
(***************************************************************************)
EXTENDS PersonSignIn, TLAPS

(* What is known of a run, and of the identifier it was given.             *)
RunIsSound(r) ==
  LET run == runs[r]
  IN  /\ run.phase \in {"creating", "inserting"} => run.email \in Email
      /\ run.phase = "creating" => run.id = None
      /\ run.phase \in {"inserting", "undoing", "done"} => run.id # None
      /\ run.id # None => run.id \in issued
      /\ run.phase = "inserting" => identities[run.id] = run.email
      /\ run.phase = "inserting" => run.id \notin people

RunsAreSound == \A r \in Run : RunIsSound(r)

(* No identifier is given to two runs.                                     *)
IdsAreOwn ==
  \A r, q \in Run : runs[r].id = runs[q].id /\ runs[r].id # None => r = q

IdentitiesAreIssued == \A i \in Id : identities[i] # None => i \in issued

(* As long as the answer to COMMIT is not lost, a run deletes nobody's     *)
(* identity but that of a person who never came to be.                     *)
PeopleAreWhole ==
  "COMMIT" \notin Lossy =>
    /\ PeopleHaveIdentities
    /\ \A r \in Run : runs[r].phase = "undoing" => runs[r].id \notin people

ProvisioningInv ==
  /\ TypeOK
  /\ RunsAreSound
  /\ IdsAreOwn
  /\ IdentitiesAreIssued
  /\ StrandedIsKnown
  /\ DoneIsWhole
  /\ PeopleAreWhole

(* At first no run has begun and nobody exists.                            *)
LEMMA ProvisioningInit == Init => ProvisioningInv
BY ProvisioningAssumption
DEF Init, ProvisioningInv, TypeOK, Phase, RunsAreSound, RunIsSound, IdsAreOwn,
    IdentitiesAreIssued, StrandedIsKnown, DoneIsWhole, PeopleAreWhole,
    PeopleHaveIdentities

(* A run that starts has no identity yet.                                  *)
LEMMA StartKeepsInv ==
  ASSUME ProvisioningInv, NEW r \in Run, NEW email \in Email, Start(r, email)
  PROVE  ProvisioningInv'
<1>. USE ProvisioningAssumption
         DEF ProvisioningInv, TypeOK, Phase, Start
<1>1. TypeOK'
  OBVIOUS
<1>2. RunsAreSound' /\ IdsAreOwn'
  BY DEF RunsAreSound, RunIsSound, IdsAreOwn
<1>3. IdentitiesAreIssued' /\ PeopleAreWhole'
  BY DEF IdentitiesAreIssued, PeopleAreWhole, PeopleHaveIdentities
<1>4. StrandedIsKnown'
  BY DEF StrandedIsKnown
<1>5. DoneIsWhole'
  BY DEF DoneIsWhole
<1>. QED  BY <1>1, <1>2, <1>3, <1>4, <1>5

(* The identity the provider creates is new, and its run works on it.      *)
LEMMA CreateKeepsInv ==
  ASSUME ProvisioningInv, NEW r \in Run, Create(r)
  PROVE  ProvisioningInv'
<1>. USE ProvisioningAssumption
         DEF ProvisioningInv, TypeOK, Phase, Become
<1>1. CASE Become(r, "failed") /\ UNCHANGED <<identities, issued, unheard>>
  <2>1. UNCHANGED <<people, reported>> /\ runs[r].phase = "creating"
    BY DEF Create
  <2>2. TypeOK'
    BY <1>1, <2>1
  <2>3. RunsAreSound' /\ IdsAreOwn'
    BY <1>1, <2>1 DEF RunsAreSound, RunIsSound, IdsAreOwn
  <2>4. IdentitiesAreIssued' /\ PeopleAreWhole'
    BY <1>1, <2>1 DEF IdentitiesAreIssued, PeopleAreWhole, PeopleHaveIdentities
  <2>5. StrandedIsKnown' /\ DoneIsWhole'
    BY <1>1, <2>1 DEF StrandedIsKnown, DoneIsWhole
  <2>. QED  BY <2>2, <2>3, <2>4, <2>5
<1>2. ASSUME NEW id \in Id \ issued,
             identities' = [identities EXCEPT ![id] = runs[r].email],
             issued' = issued \cup {id},
             \/ /\ runs' = [runs EXCEPT ![r].phase = "inserting", ![r].id = id]
                /\ UNCHANGED unheard
             \/ /\ Become(r, "failed")
                /\ unheard' = unheard \cup {id}
      PROVE  ProvisioningInv'
  <2>1. /\ UNCHANGED <<people, reported>>
        /\ runs[r].phase = "creating" /\ runs[r].id = None
        /\ runs[r].email \in Email
    BY DEF Create, RunsAreSound, RunIsSound
  <2>2. TypeOK'
    BY <1>2, <2>1
  <2>3. RunsAreSound'
    BY <1>2, <2>1 DEF RunsAreSound, RunIsSound
  <2>4. IdsAreOwn'
    BY <1>2, <2>1 DEF RunsAreSound, RunIsSound, IdsAreOwn
  <2>5. IdentitiesAreIssued' /\ PeopleAreWhole'
    BY <1>2, <2>1 DEF IdentitiesAreIssued, PeopleAreWhole, PeopleHaveIdentities
  <2>6. StrandedIsKnown'
    BY <1>2, <2>1 DEF StrandedIsKnown
  <2>7. DoneIsWhole'
    BY <1>2, <2>1 DEF DoneIsWhole, RunsAreSound, RunIsSound
  <2>. QED  BY <2>2, <2>3, <2>4, <2>5, <2>6, <2>7
<1>. QED  BY <1>1, <1>2 DEF Create

(* The person is committed with the identity, or the run turns to undoing. *)
LEMMA InsertKeepsInv ==
  ASSUME ProvisioningInv, NEW r \in Run, Insert(r)
  PROVE  ProvisioningInv'
<1>. USE ProvisioningAssumption
         DEF ProvisioningInv, TypeOK, Phase, Become, Insert
<1>1. /\ runs[r].phase = "inserting" /\ runs[r].email \in Email
      /\ runs[r].id \in issued /\ runs[r].id # None
      /\ identities[runs[r].id] = runs[r].email
  BY DEF RunsAreSound, RunIsSound
<1>2. TypeOK'
  BY <1>1
<1>3. RunsAreSound' /\ IdsAreOwn'
  BY <1>1 DEF RunsAreSound, RunIsSound, IdsAreOwn
<1>4. IdentitiesAreIssued'
  BY <1>1 DEF IdentitiesAreIssued
<1>5. ASSUME "COMMIT" \notin Lossy PROVE PeopleAreWhole'
  <2>1. PeopleHaveIdentities'
    BY <1>1, <1>5, ProvisioningAssumption DEF PeopleAreWhole, PeopleHaveIdentities
  <2>2. ASSUME NEW q \in Run, runs'[q].phase = "undoing"
        PROVE  runs'[q].id \notin people'
    <3>1. CASE q = r
      BY <1>1, <1>5, <2>2, <3>1 DEF RunsAreSound, RunIsSound
    <3>2. CASE q # r
      BY <1>1, <1>5, <2>2, <3>2 DEF IdsAreOwn, PeopleAreWhole
    <3>. QED  BY <3>1, <3>2
  <2>. QED  BY <2>1, <2>2 DEF PeopleAreWhole
<1>6. StrandedIsKnown'
  BY <1>1 DEF StrandedIsKnown
<1>7. DoneIsWhole'
  BY <1>1 DEF DoneIsWhole
<1>8. PeopleAreWhole'
  BY <1>5 DEF PeopleAreWhole
<1>. QED  BY <1>2, <1>3, <1>4, <1>6, <1>7, <1>8

(* An identity that is not undone is reported.                             *)
LEMMA UndoKeepsInv ==
  ASSUME ProvisioningInv, NEW r \in Run, Undo(r)
  PROVE  ProvisioningInv'
<1>. USE ProvisioningAssumption
         DEF ProvisioningInv, TypeOK, Phase, Become, Undo
<1>1. /\ runs[r].phase = "undoing"
      /\ runs[r].id \in issued /\ runs[r].id # None
      /\ "COMMIT" \notin Lossy => runs[r].id \notin people
  BY DEF RunsAreSound, RunIsSound, PeopleAreWhole
<1>2. TypeOK'
  BY <1>1
<1>3. RunsAreSound' /\ IdsAreOwn'
  BY <1>1 DEF RunsAreSound, RunIsSound, IdsAreOwn
<1>4. IdentitiesAreIssued' /\ PeopleAreWhole'
  BY <1>1 DEF IdentitiesAreIssued, PeopleAreWhole, PeopleHaveIdentities
<1>5. StrandedIsKnown'
  BY <1>1 DEF StrandedIsKnown
<1>6. DoneIsWhole'
  BY <1>1 DEF DoneIsWhole, IdsAreOwn
<1>. QED  BY <1>2, <1>3, <1>4, <1>5, <1>6

(* A killed run is never heard of again.                                   *)
LEMMA KillKeepsInv ==
  ASSUME ProvisioningInv, NEW r \in Run, Kill(r)
  PROVE  ProvisioningInv'
<1>. USE ProvisioningAssumption
         DEF ProvisioningInv, TypeOK, Phase, Become, Kill
<1>1. runs[r].id # None => runs[r].id \in issued
  BY DEF RunsAreSound, RunIsSound
<1>2. TypeOK'
  BY <1>1
<1>3. RunsAreSound' /\ IdsAreOwn'
  BY <1>1 DEF RunsAreSound, RunIsSound, IdsAreOwn
<1>4. IdentitiesAreIssued' /\ PeopleAreWhole'
  BY <1>1 DEF IdentitiesAreIssued, PeopleAreWhole, PeopleHaveIdentities
<1>5. StrandedIsKnown'
  BY <1>1 DEF StrandedIsKnown
<1>6. DoneIsWhole'
  BY <1>1 DEF DoneIsWhole
<1>. QED  BY <1>2, <1>3, <1>4, <1>5, <1>6

(* Every step of a provisioning run keeps the invariant.                   *)
LEMMA ProvisioningStep ==
  ASSUME ProvisioningInv, [Next]_vars
  PROVE  ProvisioningInv'
<1>1. CASE UNCHANGED vars
  BY <1>1 DEF vars, ProvisioningInv, TypeOK, RunsAreSound, RunIsSound,
     IdsAreOwn, IdentitiesAreIssued, StrandedIsKnown, DoneIsWhole,
     PeopleAreWhole, PeopleHaveIdentities
<1>2. CASE Next
  BY <1>2, StartKeepsInv, CreateKeepsInv, InsertKeepsInv, UndoKeepsInv,
     KillKeepsInv DEF Next
<1>. QED  BY <1>1, <1>2
----------------------------------------------------------------------------
(* A challenge that was made for this browser.                             *)
IsOwnChallenge(c, b) == asks[c] # None /\ asks[c].browser = b

(* The identity is that of the email the challenge was made for, or gone.  *)
IsIdentityOf(id, c) ==
  /\ asks[c] # None
  /\ id \in issued
  /\ identities[id] \in {None, asks[c].email}

IsOwnSession(session, b) ==
  /\ IsIdentityOf(session.id, session.challenge)
  /\ session.by = "LINK" => asks[session.challenge].browser = b

MailsGoToTheirAsker ==
  \A c \in Challenge : mails[c] # None => IsIdentityOf(mails[c].id, c)

CookiesAreOwn ==
  \A b \in Browser :
    /\ browsers[b].pkce # None => IsOwnChallenge(browsers[b].pkce, b)
    /\ browsers[b].session # None => IsOwnSession(browsers[b].session, b)

AnswersAreOwn ==
  \A a \in answers :
    /\ a.pkce \notin {None, Kept} => IsOwnChallenge(a.pkce, a.browser)
    /\ a.session \notin {None, Kept} => IsOwnSession(a.session, a.browser)

SignInInv ==
  /\ SignInTypeOK
  /\ MailsGoToTheirAsker
  /\ CookiesAreOwn
  /\ AnswersAreOwn

(* At first no mail is sent and no browser holds a cookie.                 *)
LEMMA SignInInitially == SignInInit => SignInInv
BY ChallengeAssumption
DEF SignInInit, SignInInv, SignInTypeOK, MailsGoToTheirAsker, CookiesAreOwn,
    AnswersAreOwn

(* Identifiers are never given again, and an identity is only ever lost.   *)
LEMMA IdentitiesStay ==
  ASSUME ProvisioningInv, Next
  PROVE  /\ issued \subseteq issued'
         /\ \A i \in issued : identities'[i] \in {identities[i], None}
<1>. USE DEF ProvisioningInv, TypeOK
<1>1. ASSUME NEW r \in Run, NEW email \in Email, Start(r, email)
      PROVE  UNCHANGED <<issued, identities>>
  BY <1>1 DEF Start
<1>2. ASSUME NEW r \in Run, Create(r)
      PROVE  /\ issued \subseteq issued'
             /\ \A i \in issued : identities'[i] = identities[i]
  BY <1>2 DEF Create
<1>3. ASSUME NEW r \in Run, Insert(r) \/ Kill(r)
      PROVE  UNCHANGED <<issued, identities>>
  BY <1>3 DEF Insert, Kill
<1>4. ASSUME NEW r \in Run, Undo(r)
      PROVE  /\ issued = issued'
             /\ \A i \in issued : identities'[i] \in {identities[i], None}
  BY <1>4 DEF Undo
<1>. QED  BY <1>1, <1>2, <1>3, <1>4 DEF Next

(* Provisioning reissues no identifier, so sessions stay their own.        *)
LEMMA ProvisioningKeepsSignIn ==
  ASSUME ProvisioningInv, SignInInv, Next, UNCHANGED signInVars
  PROVE  SignInInv'
<1>. USE DEF signInVars
<1>1. ASSUME NEW id, NEW c, IsIdentityOf(id, c)
      PROVE  IsIdentityOf(id, c)'
  BY <1>1, IdentitiesStay DEF IsIdentityOf
<1>2. SignInTypeOK'
  BY DEF SignInInv, SignInTypeOK, Session
<1>3. MailsGoToTheirAsker'
  BY <1>1 DEF SignInInv, MailsGoToTheirAsker
<1>4. ASSUME NEW s, NEW b, IsOwnSession(s, b)
      PROVE  IsOwnSession(s, b)'
  BY <1>1, <1>4 DEF IsOwnSession
<1>5. CookiesAreOwn' /\ AnswersAreOwn'
  BY <1>4 DEF SignInInv, CookiesAreOwn, AnswersAreOwn, IsOwnChallenge
<1>. QED  BY <1>2, <1>3, <1>5 DEF SignInInv

(* A challenge that was not asked for yet is nobody's.                     *)
LEMMA AskKeepsSignIn ==
  ASSUME ProvisioningInv, SignInInv, UNCHANGED vars,
         NEW b \in Browser, NEW email \in Email, NEW c \in Challenge,
         AskAndMail(b, email, c) \/ AskInVain(b, email, c)
  PROVE  SignInInv'
<1>. USE ProvisioningAssumption, ChallengeAssumption
         DEF vars, SignInInv
<1>1. /\ asks[c] = None
      /\ asks' = [asks EXCEPT ![c] = [browser |-> b, email |-> email]]
      /\ answers' = answers \cup
                      {[browser |-> b, pkce |-> c, session |-> Kept]}
      /\ UNCHANGED <<browsers, issued, identities>>
  BY DEF AskAndMail, AskInVain, Ask, Respond
<1>2. \/ mails' = mails
      \/ \E i \in Id : /\ identities[i] = email
                       /\ mails' = [mails EXCEPT ![c] = [id |-> i, live |-> TRUE]]
  BY DEF AskAndMail, AskInVain, IdentitiesOf
<1>3. SignInTypeOK'
  <2>1. mails' \in [Challenge -> [id : Id, live : BOOLEAN] \cup {None}]
    <3>1. mails \in [Challenge -> [id : Id, live : BOOLEAN] \cup {None}]
      BY DEF SignInTypeOK
    <3>2. CASE mails' = mails
      BY <3>1, <3>2
    <3>3. ASSUME NEW i \in Id,
                 mails' = [mails EXCEPT ![c] = [id |-> i, live |-> TRUE]]
          PROVE  mails' \in [Challenge -> [id : Id, live : BOOLEAN] \cup {None}]
      BY <3>1, <3>3
    <3>. QED  BY <1>2, <3>2, <3>3
  <2>2. asks' \in [Challenge -> [browser : Browser, email : Email] \cup {None}]
    BY <1>1 DEF SignInTypeOK
  <2>3. browsers' = browsers
    BY <1>1
  <2>4. answers' \subseteq [browser : Browser, pkce : Challenge \cup {None, Kept},
                            session : Session \cup {None, Kept}]
    BY <1>1 DEF SignInTypeOK
  <2>. QED  BY <2>1, <2>2, <2>3, <2>4 DEF SignInTypeOK
<1>4. ASSUME NEW id, NEW x \in Challenge, IsIdentityOf(id, x)
      PROVE  IsIdentityOf(id, x)'
  BY <1>1, <1>4 DEF IsIdentityOf, SignInTypeOK
<1>5. ASSUME NEW x \in Challenge, NEW y, IsOwnChallenge(x, y)
      PROVE  IsOwnChallenge(x, y)'
  BY <1>1, <1>5 DEF IsOwnChallenge, SignInTypeOK
<1>6. ASSUME NEW s \in Session, NEW y, IsOwnSession(s, y)
      PROVE  IsOwnSession(s, y)'
  <2>1. s.challenge \in Challenge /\ asks[s.challenge] # None
    BY <1>6 DEF Session, IsOwnSession, IsIdentityOf
  <2>2. asks'[s.challenge] = asks[s.challenge]
    BY <1>1, <2>1 DEF SignInTypeOK
  <2>. QED  BY <1>4, <1>6, <2>1, <2>2 DEF IsOwnSession
<1>7. MailsGoToTheirAsker'
  <2>1. ASSUME NEW i \in Id, identities[i] = email
        PROVE  IsIdentityOf(i, c)'
    BY <1>1, <2>1 DEF IsIdentityOf, ProvisioningInv, IdentitiesAreIssued,
       SignInTypeOK
  <2>2. CASE mails' = mails
    BY <1>4, <2>2 DEF MailsGoToTheirAsker
  <2>3. ASSUME NEW i \in Id, identities[i] = email,
               mails' = [mails EXCEPT ![c] = [id |-> i, live |-> TRUE]]
        PROVE  MailsGoToTheirAsker'
    <3>1. mails'[c].id = i
      BY <2>3 DEF SignInTypeOK
    <3>2. ASSUME NEW x \in Challenge, x # c
          PROVE  mails'[x] = mails[x]
      BY <2>3, <3>2 DEF SignInTypeOK
    <3>3. IsIdentityOf(i, c)'
      BY <2>1, <2>3
    <3>4. ASSUME NEW x \in Challenge, mails'[x] # None
          PROVE  (IsIdentityOf(mails[x].id, x))'
      <4>1. CASE x = c
        BY <3>1, <3>3, <4>1 DEF IsIdentityOf
      <4>2. CASE x # c
        <5>1. IsIdentityOf(mails[x].id, x)
          BY <3>2, <3>4, <4>2 DEF MailsGoToTheirAsker
        <5>. QED  BY <1>4, <3>2, <4>2, <5>1 DEF IsIdentityOf
      <4>. QED  BY <4>1, <4>2
    <3>. QED  BY <3>4 DEF MailsGoToTheirAsker
  <2>. QED  BY <1>2, <2>2, <2>3
<1>8. CookiesAreOwn'
  BY <1>1, <1>5, <1>6 DEF CookiesAreOwn, SignInTypeOK
<1>9. AnswersAreOwn'
  <2>1. IsOwnChallenge(c, b)'
    BY <1>1 DEF IsOwnChallenge, SignInTypeOK
  <2>2. ASSUME NEW a \in answers
        PROVE  /\ a.pkce \notin {None, Kept} => IsOwnChallenge(a.pkce, a.browser)'
               /\ a.session \notin {None, Kept} => IsOwnSession(a.session, a.browser)'
    BY <1>5, <1>6 DEF AnswersAreOwn, SignInTypeOK
  <2>. QED  BY <1>1, <2>1, <2>2 DEF AnswersAreOwn
<1>. QED  BY <1>3, <1>7, <1>8, <1>9

(* A mail that is used up, with whatever answer: what the answer sets has  *)
(* to be the browser's own.                                                *)
LEMMA AnswerKeepsSignIn ==
  ASSUME SignInInv, UNCHANGED <<vars, asks, browsers>>,
         NEW b \in Browser, NEW session \in Session \cup {None, Kept},
         session \notin {None, Kept} => IsOwnSession(session, b),
         \/ UNCHANGED mails
         \/ \E c \in Challenge : mails[c] # None /\ UseUp(c),
         answers' \in {answers,
           answers \cup {[browser |-> b, pkce |-> None, session |-> session]}}
  PROVE  SignInInv'
<1>. USE DEF SignInInv, vars
<1>1. SignInTypeOK'
  <2>1. mails' \in [Challenge -> [id : Id, live : BOOLEAN] \cup {None}]
    BY DEF SignInTypeOK, UseUp
  <2>. QED  BY <2>1 DEF SignInTypeOK
<1>2. MailsGoToTheirAsker'
  BY DEF MailsGoToTheirAsker, IsIdentityOf, UseUp, SignInTypeOK
<1>3. CookiesAreOwn'
  BY DEF CookiesAreOwn, IsOwnChallenge, IsOwnSession, IsIdentityOf
<1>4. AnswersAreOwn'
  BY DEF AnswersAreOwn, IsOwnChallenge, IsOwnSession, IsIdentityOf
<1>. QED  BY <1>1, <1>2, <1>3, <1>4

(* A link followed earns a session in the browser of its challenge.        *)
LEMMA FollowKeepsSignIn ==
  ASSUME SignInInv, UNCHANGED vars, NEW b \in Browser, NEW c \in Challenge,
         FollowLink(b, c) \/ FollowInVain(b, c)
  PROVE  SignInInv'
<1>1. CASE FollowLink(b, c)
  <2>1. SignedIn("LINK", c) \in Session
    BY <1>1 DEF FollowLink, SignedIn, Session, SignInInv, SignInTypeOK
  <2>2. IsOwnSession(SignedIn("LINK", c), b)
    BY <1>1, ChallengeAssumption
    DEF FollowLink, Presented, SignedIn, IsOwnSession, IsOwnChallenge,
        SignInInv, MailsGoToTheirAsker, CookiesAreOwn
  <2>. QED  BY <1>1, <2>1, <2>2, AnswerKeepsSignIn DEF FollowLink, Respond
<1>2. CASE FollowInVain(b, c)
  BY <1>2, AnswerKeepsSignIn DEF FollowInVain, Respond
<1>. QED  BY <1>1, <1>2

(* So does a code entered.                                                 *)
LEMMA CodeKeepsSignIn ==
  ASSUME SignInInv, UNCHANGED vars, NEW b \in Browser, NEW c \in Challenge,
         EnterCode(b, c) \/ EnterInVain(b, c)
  PROVE  SignInInv'
<1>1. CASE EnterCode(b, c)
  <2>1. SignedIn("CODE", c) \in Session
    BY <1>1 DEF EnterCode, SignedIn, Session, SignInInv, SignInTypeOK
  <2>2. IsOwnSession(SignedIn("CODE", c), b)
    BY <1>1 DEF EnterCode, SignedIn, IsOwnSession, SignInInv,
       MailsGoToTheirAsker
  <2>. QED  BY <1>1, <2>1, <2>2, AnswerKeepsSignIn DEF EnterCode, Respond
<1>2. CASE EnterInVain(b, c)
  BY <1>2, AnswerKeepsSignIn DEF EnterInVain
<1>. QED  BY <1>1, <1>2

(* Logging out only clears cookies.                                        *)
LEMMA LogOutKeepsSignIn ==
  ASSUME SignInInv, UNCHANGED vars, NEW b \in Browser, LogOut(b)
  PROVE  SignInInv'
BY AnswerKeepsSignIn DEF LogOut, Respond

(* Answers arrive or are lost, cookies expire.                             *)
LEMMA BrowserKeepsSignIn ==
  ASSUME SignInInv, UNCHANGED vars,
         \/ \E answer \in answers : Deliver(answer) \/ LoseAnswer(answer)
         \/ \E b \in Browser : Expire(b)
  PROVE  SignInInv'
<1>. USE ChallengeAssumption DEF SignInInv, vars
<1>1. ASSUME NEW answer \in answers, Deliver(answer)
      PROVE  SignInInv'
  <2>1. SignInTypeOK'
    BY <1>1 DEF Deliver, Set, SignInTypeOK
  <2>2. MailsGoToTheirAsker' /\ AnswersAreOwn'
    BY <1>1 DEF Deliver, MailsGoToTheirAsker, AnswersAreOwn, IsOwnChallenge,
       IsOwnSession, IsIdentityOf
  <2>3. CookiesAreOwn'
    <3>1. ASSUME NEW b \in Browser, b # answer.browser
          PROVE  browsers'[b] = browsers[b]
      BY <1>1, <3>1 DEF Deliver, SignInTypeOK
    <3>2. LET b == answer.browser
          IN  /\ b \in Browser
              /\ browsers'[b].pkce = Set(browsers[b].pkce, answer.pkce)
              /\ browsers'[b].session = Set(browsers[b].session, answer.session)
      BY <1>1 DEF Deliver, SignInTypeOK
    <3>3. UNCHANGED <<asks, issued, identities>>
      BY <1>1 DEF Deliver
    <3>. QED  BY <3>1, <3>2, <3>3 DEF Set, CookiesAreOwn, AnswersAreOwn,
              IsOwnChallenge, IsOwnSession, IsIdentityOf
  <2>. QED  BY <2>1, <2>2, <2>3
<1>2. ASSUME NEW answer \in answers, LoseAnswer(answer)
      PROVE  SignInInv'
  BY <1>2 DEF LoseAnswer, SignInTypeOK, MailsGoToTheirAsker, CookiesAreOwn,
     AnswersAreOwn, IsOwnChallenge, IsOwnSession, IsIdentityOf
<1>3. ASSUME NEW b \in Browser, Expire(b)
      PROVE  SignInInv'
  BY <1>3 DEF Expire, SignInTypeOK, MailsGoToTheirAsker, CookiesAreOwn,
     AnswersAreOwn, IsOwnChallenge, IsOwnSession, IsIdentityOf
<1>. QED  BY <1>1, <1>2, <1>3

----------------------------------------------------------------------------
AccountsInv == ProvisioningInv /\ SignInInv

(* Every step keeps the invariant of accounts.                             *)
LEMMA AccountsStep ==
  ASSUME AccountsInv, [SignInNext]_<<vars, signInVars>>
  PROVE  AccountsInv'
<1>. USE DEF AccountsInv
<1>1. CASE SignIn
  <2>1. UNCHANGED vars
    BY <1>1 DEF SignIn
  <2>2. SignInInv'
    BY <1>1, <2>1, AskKeepsSignIn, FollowKeepsSignIn, CodeKeepsSignIn,
       LogOutKeepsSignIn, BrowserKeepsSignIn DEF SignIn
  <2>. QED  BY <2>1, <2>2, ProvisioningStep
<1>2. CASE Answer
  BY <1>2, BrowserKeepsSignIn, ProvisioningStep DEF Answer
<1>3. CASE Next /\ UNCHANGED signInVars
  BY <1>3, ProvisioningStep, ProvisioningKeepsSignIn
<1>4. CASE UNCHANGED <<vars, signInVars>>
  <2>1. SignInInv'
    BY <1>4 DEF vars, signInVars, SignInInv, SignInTypeOK, Session,
       MailsGoToTheirAsker, CookiesAreOwn, AnswersAreOwn, IsOwnChallenge,
       IsOwnSession, IsIdentityOf
  <2>. QED  BY <1>4, <2>1, ProvisioningStep
<1>. QED  BY <1>1, <1>2, <1>3, <1>4 DEF SignInNext

(* The invariant of provisioning and signing in by mail, of which the next *)
(* theorems are consequences: mails, cookies and answers under way belong  *)
(* to the browser and the email their challenge was made for.              *)
THEOREM AccountsAreSound == SignInSpec => []AccountsInv
<1>1. Init /\ SignInInit => AccountsInv
  BY ProvisioningInit, SignInInitially DEF AccountsInv
<1>2. AccountsInv /\ [SignInNext]_<<vars, signInVars>> => AccountsInv'
  BY AccountsStep
<1>. QED  BY <1>1, <1>2, PTL DEF SignInSpec

(* However mails, requests and answers overtake each other, a link signs   *)
(* in no browser but the one that asked for it.                            *)
THEOREM LinksAreBound == SignInSpec => []LinksStayInTheirBrowser
<1>1. AccountsInv => LinksStayInTheirBrowser
  BY DEF AccountsInv, SignInInv, CookiesAreOwn, IsOwnSession,
     LinksStayInTheirBrowser
<1>. QED  BY <1>1, AccountsAreSound, PTL

(* Whoever is let in is a person provisioned as a whole, under the email   *)
(* the mail was asked for, whatever provisioning runs do meanwhile.        *)
THEOREM AccessIsEarned ==
  ASSUME "COMMIT" \notin Lossy
  PROVE  SignInSpec => []AccessIsProvisioned
<1>1. AccountsInv => AccessIsProvisioned
  BY DEF AccountsInv, ProvisioningInv, TypeOK, PeopleAreWhole,
     PeopleHaveIdentities, SignInInv, SignInTypeOK, Session, CookiesAreOwn, IsOwnSession, IsIdentityOf,
     AccessIsProvisioned, Authenticates
<1>. QED  BY <1>1, AccountsAreSound, PTL

(* No failed or killed run strands an identity in silence: one without a   *)
(* person is in some run's hands, or was reported, or nobody heard of it.  *)
THEOREM NobodyIsStrandedUnknown == SignInSpec => []StrandedIsKnown
<1>1. AccountsInv => StrandedIsKnown
  BY DEF AccountsInv, ProvisioningInv
<1>. QED  BY <1>1, AccountsAreSound, PTL

(* A run that reports success has provisioned a whole person.              *)
THEOREM SuccessIsWhole == SignInSpec => []DoneIsWhole
<1>1. AccountsInv => DoneIsWhole
  BY DEF AccountsInv, ProvisioningInv
<1>. QED  BY <1>1, AccountsAreSound, PTL
===============================================================================
