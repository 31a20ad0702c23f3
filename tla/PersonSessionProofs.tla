------------------------- MODULE PersonSessionProofs -------------------------
(***************************************************************************)
(* What holds of PersonSession for any people, any number of requests and  *)
(* any bounds: an ended session shows nothing, a logout that was answered  *)
(* is not undone, only a refresh that succeeded has a request sent a       *)
(* second time, and a patient person sees nobody else's data.              *)
(* MCPersonSession says what patience is; nothing else of it plays a part. *)
(***************************************************************************)
EXTENDS MCPersonSession, TLAPS

(* A body is read of a response to somebody's cookies.                     *)
BodiesAreSomeones ==
  \A c \in Call : calls[c].phase = "reading" => calls[c].who # None

Typed == TypeOK /\ BodiesAreSomeones

(* The last logout has ended a session; as long as no other has begun, the *)
(* tab is signed out.  Once the logout is sent there is no refresh to come *)
(* back, and once it is answered only a sign-in brings cookies.            *)
LogoutIsFinal ==
  logout # None =>
    /\ logout.session <= generation
    /\ logout.session = generation =>
         /\ signedOut
         /\ logout.phase # "waiting" => refresh = None
         /\ logout.phase = "answered" /\ (signIn # None => ~signIn.accepted)
              => jar = None

(* No request has seen a rotation that is still to come.                   *)
RotationsPast == \A c \in Call : calls[c].rotation <= rotations

SessionInv == Typed /\ EndedSessionShowsNothing /\ LogoutIsFinal /\ RotationsPast
----------------------------------------------------------------------------
(* Every action keeps the types, and reads only bodies of OK responses to  *)
(* somebody's cookies.                                                     *)
LEMMA ReturnType ==
  ASSUME Typed, NEW c \in Call, NEW status \in Status, Return(c, status),
         status = "OK" => calls[c].who # None
  PROVE  /\ calls' \in [Call -> CallRow]
         /\ BodiesAreSomeones'
         /\ authenticated' \in {"TRUE", "FALSE", "null"}
         /\ shown' = shown \/ shown' = None
<1>1. calls' \in [Call -> CallRow] /\ BodiesAreSomeones'
  BY DEF Typed, TypeOK, BodiesAreSomeones, Return, Idle, CallRow, Holder
<1>2. authenticated' \in {"TRUE", "FALSE", "null"} /\ (shown' = shown \/ shown' = None)
  BY DEF Typed, TypeOK, Return, PageAfter, ClearPage, pageVars, Status
<1> QED
  BY <1>1, <1>2

(* A row of calls is replaced by one that is not reading.                  *)
LEMMA SetCall ==
  ASSUME Typed, NEW c \in Call, NEW row \in CallRow, row.phase # "reading",
         calls' = [calls EXCEPT ![c] = row]
  PROVE  calls' \in [Call -> CallRow] /\ BodiesAreSomeones'
BY DEF Typed, TypeOK, BodiesAreSomeones

(* A repeated request is a request under way that saw the same rotation.   *)
LEMMA RetriedType ==
  ASSUME Typed, NEW c \in Call
  PROVE  /\ Retried(c, jar) \in CallRow
         /\ Retried(c, jar).phase = "sent"
         /\ Retried(c, jar).rotation = calls[c].rotation
         /\ Retried(c, jar).session = calls[c].session
<1>1. calls[c] \in CallRow /\ jar \in Holder
  BY DEF Typed, TypeOK
<1> QED
  BY <1>1 DEF Retried, CallRow

(* Requests and their answers keep the types.                              *)
LEMMA RequestsType ==
  ASSUME Typed, Requests
  PROVE  Typed'
<1> USE DEF Typed
<1>1. ASSUME NEW c \in Call, StartCall(c) PROVE Typed'
  BY <1>1 DEF StartCall, Sent, TypeOK, BodiesAreSomeones, CallRow, Holder,
              tabVars, pageVars
<1>2. ASSUME NEW c \in Call, NEW status \in Status, AnswerFirst(c, status)
      PROVE  Typed'
  <2>1. refresh' = None \/
        refresh' \in [session: Nat, who: Holder, outcome: RefreshOutcome \cup {None}]
    BY <1>2 DEF AnswerFirst, TypeOK
  <2>2. CASE Return(c, status)
    <3>1. status = "OK" => calls[c].who # None
      BY <1>2 DEF AnswerFirst, Answers
    <3> QED
      BY <1>2, <2>1, <2>2, <3>1, ReturnType DEF AnswerFirst, TypeOK, tabVars
  <2>3. CASE ~Return(c, status)
    <3>1. UNCHANGED pageVars
      BY <1>2, <2>3 DEF AnswerFirst
    <3>2. calls' \in [Call -> CallRow] /\ BodiesAreSomeones'
      <4>1. CASE calls' = [calls EXCEPT ![c] = Retried(c, jar)]
        BY <4>1, RetriedType, SetCall
      <4>2. CASE calls' = [calls EXCEPT ![c].phase = "waiting"]
        <5> DEFINE row == [calls[c] EXCEPT !.phase = "waiting"]
        <5>1. row \in CallRow /\ row.phase # "reading"
          BY DEF TypeOK, CallRow
        <5>2. calls' = [calls EXCEPT ![c] = row]
          BY <4>2
        <5> QED
          BY <5>1, <5>2, SetCall
      <4> QED
        BY <1>2, <2>3, <4>1, <4>2 DEF AnswerFirst
    <3> QED
      BY <1>2, <2>1, <3>1, <3>2 DEF AnswerFirst, TypeOK, tabVars, pageVars
  <2> QED
    BY <2>2, <2>3
<1>3. ASSUME NEW c \in Call, NEW status \in Status, AnswerRetry(c, status)
      PROVE  Typed'
  <2>1. CASE Return(c, status) /\ UNCHANGED tabVars
    <3>1. status = "OK" => calls[c].who # None
      BY <1>3 DEF AnswerRetry, Answers
    <3> QED
      BY <1>3, <2>1, <3>1, ReturnType DEF AnswerRetry, TypeOK, tabVars
  <2>2. CASE RejectSession /\ calls' = [calls EXCEPT ![c] = Idle]
    BY <1>3, <2>2 DEF AnswerRetry, RejectSession, EndSession, ClearPage, TypeOK,
                      BodiesAreSomeones, CallRow, Holder, Idle
  <2> QED
    BY <1>3, <2>1, <2>2 DEF AnswerRetry
<1>4. ASSUME NEW c \in Call, NEW complete \in BOOLEAN, ReadBody(c, complete)
      PROVE  Typed'
  <2>1. calls' \in [Call -> CallRow] /\ BodiesAreSomeones'
    BY <1>4 DEF ReadBody, TypeOK, BodiesAreSomeones, Idle, CallRow, Holder
  <2>2. calls[c] \in CallRow /\ calls[c].who \in Person
    BY <1>4 DEF ReadBody, TypeOK, BodiesAreSomeones, CallRow, Holder
  <2>3. /\ authenticated' \in {"TRUE", "FALSE", "null"}
        /\ shown' = None \/ shown' \in [who: Person, session: Nat]
    BY <1>4, <2>2 DEF ReadBody, TypeOK, pageVars
  <2> QED
    BY <1>4, <2>1, <2>3 DEF ReadBody, TypeOK, tabVars
<1>5. ASSUME NEW c \in Call, Abort(c) PROVE Typed'
  <2>1. calls' \in [Call -> CallRow] /\ BodiesAreSomeones'
    <3>1. CASE calls[c].phase = "waiting"
      <4> DEFINE row == [calls[c] EXCEPT !.aborted = TRUE]
      <4>1. row \in CallRow /\ row.phase # "reading"
        BY <3>1 DEF TypeOK, CallRow
      <4>2. calls' = [calls EXCEPT ![c] = row]
        BY <1>5, <3>1 DEF Abort
      <4> QED
        BY <4>1, <4>2, SetCall
    <3>2. CASE calls[c].phase # "waiting"
      BY <1>5, <3>2, SetCall DEF Abort, Idle, CallRow, Holder
    <3> QED
      BY <3>1, <3>2
  <2>2. authenticated' \in {"TRUE", "FALSE", "null"} /\ shown' = shown
    BY <1>5 DEF Abort, PageAfter, TypeOK, pageVars
  <2> QED
    BY <1>5, <2>1, <2>2 DEF Abort, TypeOK, tabVars
<1> QED
  BY <1>1, <1>2, <1>3, <1>4, <1>5 DEF Requests

(* So does refreshing the session.                                         *)
LEMMA RefreshingType ==
  ASSUME Typed, Refreshing
  PROVE  Typed'
<1> USE DEF Typed
<1>1. CASE FinishRefresh
  <2>1. calls' \in [Call -> CallRow] /\ BodiesAreSomeones'
    <3>1. Idle \in CallRow /\ Idle.phase = "idle"
      BY DEF Idle, CallRow, Holder
    <3>2. calls' = [c \in Call |->
                      IF calls[c].phase # "waiting" THEN calls[c]
                      ELSE IF Cured(c) THEN Retried(c, jar) ELSE Idle]
      BY <1>1 DEF FinishRefresh
    <3>3. calls' \in [Call -> CallRow]
      BY <3>1, <3>2, RetriedType DEF TypeOK
    <3>4. BodiesAreSomeones'
      BY <3>1, <3>2, RetriedType DEF BodiesAreSomeones
    <3> QED
      BY <3>3, <3>4
  <2>2. /\ generation' \in Nat /\ rotations' \in Nat /\ signedOut' \in BOOLEAN
        /\ authenticated' \in {"TRUE", "FALSE", "null"}
        /\ shown' = shown \/ shown' = None
    <3>1. CASE RejectSession
      BY <1>1, <3>1 DEF RejectSession, EndSession, ClearPage, TypeOK
    <3>2. CASE ~RejectSession
      BY <1>1, <3>2 DEF FinishRefresh, ClearPage, TypeOK, pageVars
    <3> QED
      BY <3>1, <3>2
  <2>3. logout' = None \/
        logout' \in [session: Nat, phase: {"waiting", "sent", "answered", "lost"}]
    BY <1>1 DEF FinishRefresh, TypeOK
  <2> QED
    BY <1>1, <2>1, <2>2, <2>3 DEF FinishRefresh, TypeOK
<1>2. ASSUME NEW outcome \in RefreshOutcome, AnswerRefresh(outcome)
      PROVE  Typed'
  <2>1. jar' \in Holder
    BY <1>2 DEF AnswerRefresh, TypeOK, Holder, RefreshOutcome
  <2>2. refresh' \in [session: Nat, who: Holder, outcome: RefreshOutcome \cup {None}]
    BY <1>2 DEF AnswerRefresh, TypeOK
  <2> QED
    BY <1>2, <2>1, <2>2 DEF AnswerRefresh, TypeOK, BodiesAreSomeones, tabVars, pageVars
<1> QED
  BY <1>1, <1>2 DEF Refreshing

(* So do logging out and signing in.                                       *)
LEMMA LeavingOrEnteringType ==
  ASSUME Typed, LeavingOrEntering
  PROVE  Typed'
<1> USE DEF Typed, TypeOK, BodiesAreSomeones
<1>1. CASE ClickLogout
  BY <1>1 DEF ClickLogout, EndSession, ClearPage
<1>2. CASE AnswerLogout
  BY <1>2 DEF AnswerLogout, Holder, tabVars, pageVars
<1>3. CASE AnswerSignIn
  BY <1>3 DEF AnswerSignIn, Holder, tabVars, pageVars
<1>4. ASSUME NEW person \in Person, ClickSignIn(person) PROVE Typed'
  BY <1>4 DEF ClickSignIn, tabVars, pageVars
<1>5. ASSUME NEW c \in Call, FinishSignIn(c) PROVE Typed'
  <2>1. /\ Sent(generation + 1, jar) \in CallRow
        /\ Sent(generation + 1, jar).phase # "reading"
    BY DEF Sent, CallRow
  <2>2. calls' \in [Call -> CallRow] /\ BodiesAreSomeones'
    BY <1>5, <2>1, SetCall DEF FinishSignIn
  <2>3. account' \in Holder
    <3>1. signIn \in [who: Person, accepted: BOOLEAN]
      BY <1>5 DEF FinishSignIn
    <3> QED
      BY <1>5, <3>1 DEF FinishSignIn, Holder
  <2>4. generation' \in Nat
    BY <1>5 DEF FinishSignIn
  <2>5. signedOut' \in BOOLEAN
    BY <1>5, Zenon DEF FinishSignIn
  <2> QED
    BY <1>5, <2>2, <2>3, <2>4, <2>5 DEF FinishSignIn, pageVars
<1> QED
  BY <1>1, <1>2, <1>3, <1>4, <1>5 DEF LeavingOrEntering
----------------------------------------------------------------------------
(* The rest of the invariant, action by action.                            *)
LEMMA RequestsKeep ==
  ASSUME SessionInv, Requests, Typed'
  PROVE  SessionInv'
<1> USE DEF Typed, TypeOK
<1>1. ASSUME NEW c \in Call, StartCall(c) PROVE SessionInv'
  <2>1. EndedSessionShowsNothing' /\ LogoutIsFinal'
    BY <1>1 DEF SessionInv, StartCall, EndedSessionShowsNothing, LogoutIsFinal,
                tabVars, pageVars
  <2>2. RotationsPast'
    BY <1>1 DEF SessionInv, StartCall, Sent, RotationsPast, CallRow, tabVars
  <2> QED
    BY <2>1, <2>2 DEF SessionInv
<1>2. ASSUME NEW c \in Call, NEW status \in Status, AnswerFirst(c, status)
      PROVE  SessionInv'
  <2>1. EndedSessionShowsNothing'
    BY <1>2 DEF SessionInv, AnswerFirst, Return, PageAfter, IsCurrent, ClearPage,
                EndedSessionShowsNothing, tabVars, pageVars, Status
  <2>2. LogoutIsFinal'
    BY <1>2 DEF SessionInv, AnswerFirst, IsCurrent, LogoutIsFinal, tabVars
  <2>3. RotationsPast'
    <3>1. \A d \in Call : calls'[d].rotation = calls[d].rotation \/ calls'[d] = Idle
      BY <1>2, RetriedType DEF SessionInv, AnswerFirst, Return, CallRow
    <3>2. rotations' = rotations
      BY <1>2 DEF AnswerFirst, tabVars
    <3> QED
      BY <3>1, <3>2 DEF SessionInv, RotationsPast, Idle
  <2> QED
    BY <2>1, <2>2, <2>3 DEF SessionInv
<1>3. ASSUME NEW c \in Call, NEW status \in Status, AnswerRetry(c, status)
      PROVE  SessionInv'
  <2>1. EndedSessionShowsNothing'
    BY <1>3 DEF SessionInv, AnswerRetry, RejectSession, Return, PageAfter, IsCurrent,
                ClearPage, EndedSessionShowsNothing, tabVars, pageVars, Status
  <2>2. LogoutIsFinal'
    BY <1>3 DEF SessionInv, AnswerRetry, RejectSession, EndSession, IsCurrent,
                LogoutIsFinal, tabVars
  <2>3. RotationsPast'
    <3>1. \A d \in Call : calls'[d].rotation = calls[d].rotation \/ calls'[d] = Idle
      BY <1>3 DEF AnswerRetry, Return, CallRow
    <3>2. rotations' = rotations
      BY <1>3 DEF AnswerRetry, RejectSession, EndSession, tabVars
    <3> QED
      BY <3>1, <3>2 DEF SessionInv, RotationsPast, Idle
  <2> QED
    BY <2>1, <2>2, <2>3 DEF SessionInv
<1>4. ASSUME NEW c \in Call, NEW complete \in BOOLEAN, ReadBody(c, complete)
      PROVE  SessionInv'
  <2>1. EndedSessionShowsNothing' /\ LogoutIsFinal'
    BY <1>4 DEF SessionInv, ReadBody, IsCurrent, EndedSessionShowsNothing,
                LogoutIsFinal, tabVars, pageVars
  <2>2. RotationsPast'
    BY <1>4 DEF SessionInv, ReadBody, RotationsPast, Idle, tabVars
  <2> QED
    BY <2>1, <2>2 DEF SessionInv
<1>5. ASSUME NEW c \in Call, Abort(c) PROVE SessionInv'
  <2>1. EndedSessionShowsNothing' /\ LogoutIsFinal'
    BY <1>5 DEF SessionInv, Abort, PageAfter, IsCurrent, EndedSessionShowsNothing,
                LogoutIsFinal, tabVars, pageVars
  <2>2. RotationsPast'
    <3>1. \A d \in Call : calls'[d].rotation = calls[d].rotation \/ calls'[d] = Idle
      BY <1>5 DEF Abort, CallRow
    <3> QED
      BY <1>5, <3>1 DEF SessionInv, Abort, RotationsPast, Idle, tabVars
  <2> QED
    BY <2>1, <2>2 DEF SessionInv
<1> QED
  BY <1>1, <1>2, <1>3, <1>4, <1>5 DEF Requests

(* Refreshing keeps the invariant.                                         *)
LEMMA RefreshingKeeps ==
  ASSUME SessionInv, Refreshing, Typed'
  PROVE  SessionInv'
<1> USE DEF Typed, TypeOK
<1>1. CASE FinishRefresh
  <2>1. EndedSessionShowsNothing'
    BY <1>1 DEF SessionInv, FinishRefresh, RejectSession, EndSession, ClearPage,
                IsCurrent, EndedSessionShowsNothing, pageVars
  <2>2. LogoutIsFinal'
    BY <1>1 DEF SessionInv, FinishRefresh, RejectSession, EndSession, IsCurrent,
                LogoutIsFinal
  <2>3. RotationsPast'
    <3>1. \A d \in Call : calls'[d].rotation = calls[d].rotation \/ calls'[d] = Idle
      BY <1>1, RetriedType DEF SessionInv, FinishRefresh
    <3>2. rotations <= rotations'
      BY <1>1 DEF SessionInv, FinishRefresh, RejectSession, EndSession
    <3>3. \A d \in Call : calls[d].rotation \in Nat
      BY DEF SessionInv, CallRow
    <3> QED
      BY <3>1, <3>2, <3>3 DEF SessionInv, RotationsPast, Idle
  <2> QED
    BY <2>1, <2>2, <2>3 DEF SessionInv
<1>2. ASSUME NEW outcome \in RefreshOutcome, AnswerRefresh(outcome)
      PROVE  SessionInv'
  <2>1. EndedSessionShowsNothing' /\ RotationsPast'
    BY <1>2 DEF SessionInv, AnswerRefresh, EndedSessionShowsNothing, RotationsPast,
                tabVars, pageVars
  <2>2. LogoutIsFinal'
    BY <1>2 DEF SessionInv, AnswerRefresh, LogoutIsFinal, tabVars
  <2> QED
    BY <2>1, <2>2 DEF SessionInv
<1> QED
  BY <1>1, <1>2 DEF Refreshing

(* So do logging out and signing in.                                       *)
LEMMA LeavingOrEnteringKeeps ==
  ASSUME SessionInv, LeavingOrEntering, Typed'
  PROVE  SessionInv'
<1> USE DEF Typed, TypeOK
<1>1. CASE ClickLogout
  <2>1. EndedSessionShowsNothing' /\ RotationsPast'
    BY <1>1 DEF SessionInv, ClickLogout, EndSession, ClearPage,
                EndedSessionShowsNothing, RotationsPast
  <2>2. LogoutIsFinal'
    BY <1>1 DEF SessionInv, ClickLogout, EndSession, LogoutIsFinal
  <2> QED
    BY <2>1, <2>2 DEF SessionInv
<1>2. CASE AnswerLogout
  BY <1>2 DEF SessionInv, AnswerLogout, EndedSessionShowsNothing, RotationsPast,
              LogoutIsFinal, tabVars, pageVars
<1>3. CASE AnswerSignIn
  <2>1. EndedSessionShowsNothing' /\ RotationsPast'
    BY <1>3 DEF SessionInv, AnswerSignIn, EndedSessionShowsNothing, RotationsPast,
                tabVars, pageVars
  <2>2. CASE signIn' = None /\ UNCHANGED jar
    <3>1. /\ logout' = logout /\ generation' = generation
          /\ signedOut' = signedOut /\ refresh' = refresh
      BY <1>3 DEF AnswerSignIn, tabVars
    <3>2. signIn # None => ~signIn.accepted
      BY <1>3 DEF AnswerSignIn
    <3>3. LogoutIsFinal'
      BY <2>2, <3>1, <3>2 DEF SessionInv, LogoutIsFinal
    <3> QED
      BY <2>1, <3>3 DEF SessionInv
  <2>3. CASE signIn' = [signIn EXCEPT !.accepted = TRUE]
    <3>1. signIn \in [who: Person, accepted: BOOLEAN]
      BY <1>3 DEF SessionInv, AnswerSignIn
    <3>2. signIn' \in [who: Person, accepted: BOOLEAN] /\ signIn'.accepted
      BY <2>3, <3>1
    <3>3. signIn' # None
      BY <3>2, SessionAssumption
    <3> QED
      BY <1>3, <2>1, <3>2, <3>3 DEF SessionInv, AnswerSignIn, LogoutIsFinal, tabVars
  <2> QED
    BY <1>3, <2>1, <2>2, <2>3 DEF SessionInv, AnswerSignIn
<1>4. ASSUME NEW person \in Person, ClickSignIn(person) PROVE SessionInv'
  BY <1>4 DEF SessionInv, ClickSignIn, EndedSessionShowsNothing, RotationsPast,
              LogoutIsFinal, tabVars, pageVars
<1>5. ASSUME NEW c \in Call, FinishSignIn(c) PROVE SessionInv'
  <2>1. EndedSessionShowsNothing' /\ LogoutIsFinal'
    BY <1>5 DEF SessionInv, FinishSignIn, EndedSessionShowsNothing, LogoutIsFinal
  <2>2. RotationsPast'
    BY <1>5 DEF SessionInv, FinishSignIn, Sent, RotationsPast, CallRow
  <2> QED
    BY <2>1, <2>2 DEF SessionInv
<1> QED
  BY <1>1, <1>2, <1>3, <1>4, <1>5 DEF LeavingOrEntering

(* At first a page has asked for what it shows, and nothing has ended.     *)
LEMMA SessionInvInit == Init => SessionInv
<1>1. Init => Typed
  <2> SUFFICES ASSUME Init PROVE Typed
    OBVIOUS
  <2>1. PICK first \in Call :
          calls = [c \in Call |->
                     IF c = first THEN [Idle EXCEPT !.phase = "sent", !.who = jar]
                                  ELSE Idle]
    BY DEF Init
  <2>2. /\ Idle \in CallRow /\ Idle.phase = "idle"
        /\ [Idle EXCEPT !.phase = "sent", !.who = jar] \in CallRow
        /\ [Idle EXCEPT !.phase = "sent", !.who = jar].phase = "sent"
    BY DEF Init, Idle, CallRow, Holder
  <2>3. calls \in [Call -> CallRow] /\ BodiesAreSomeones
    BY <2>1, <2>2 DEF BodiesAreSomeones
  <2> QED
    BY <2>3 DEF Init, Typed, TypeOK, Holder
<1>2. Init => EndedSessionShowsNothing /\ LogoutIsFinal
  BY DEF Init, EndedSessionShowsNothing, LogoutIsFinal
<1>3. Init => RotationsPast
  BY DEF Init, RotationsPast, Idle
<1> QED
  BY <1>1, <1>2, <1>3 DEF SessionInv

(* Every step of the browser and the server keeps the invariant.           *)
LEMMA SessionInvNext == SessionInv /\ [Next]_vars => SessionInv'
<1> SUFFICES ASSUME SessionInv, [Next]_vars PROVE SessionInv'
  OBVIOUS
<1>1. CASE Next
  <2>1. Typed'
    BY <1>1, RequestsType, RefreshingType, LeavingOrEnteringType DEF Next, SessionInv
  <2> QED
    BY <1>1, <2>1, RequestsKeep, RefreshingKeeps, LeavingOrEnteringKeeps DEF Next
<1>2. CASE UNCHANGED vars
  BY <1>2 DEF vars, tabVars, pageVars, SessionInv, Typed, TypeOK, BodiesAreSomeones,
              EndedSessionShowsNothing, LogoutIsFinal, RotationsPast
<1> QED
  BY <1>1, <1>2
----------------------------------------------------------------------------
(* The invariant of the browser session: types, what an ended session      *)
(* shows, what a logout leaves, and the rotations requests have seen.      *)
THEOREM SessionIsInductive == Spec => []SessionInv
  BY SessionInvInit, SessionInvNext, PTL DEF Spec

(* Every variable of the browser session keeps its type.                   *)
THEOREM SessionTypeCorrect == Spec => []TypeOK
<1>1. SessionInv => TypeOK
  BY DEF SessionInv, Typed
<1> QED
  BY <1>1, SessionIsInductive, PTL

(* Whatever responses and bodies are still to come, the page of an ended   *)
(* session shows nothing of the person (clearProtectedData, isCurrent).    *)
THEOREM NothingIsShownAfterTheEnd == Spec => []EndedSessionShowsNothing
<1>1. SessionInv => EndedSessionShowsNothing
  BY DEF SessionInv
<1> QED
  BY <1>1, SessionIsInductive, PTL

(* A logout that waited for the refresh under way and was answered leaves  *)
(* no cookies behind until somebody signs in (endSession, logout).         *)
THEOREM LogoutStands == Spec => []SignedOutStaysOut
<1>1. SessionInv => SignedOutStaysOut
  BY DEF SessionInv, LogoutIsFinal, SignedOutStaysOut
<1> QED
  BY <1>1, SessionIsInductive, PTL

(* A request is repeated only after a newer refresh succeeded in its own   *)
(* session (PersonSessionRecovery.fetch).                                  *)
THEOREM RetriesAreEarned == Spec => RetriesFollowRotation
<1> DEFINE Earned ==
      \A c \in Call :
        ~calls[c].retried /\ calls'[c].retried
        => /\ calls[c].rotation < rotations'
           /\ IsCurrent(calls[c].session)
<1>1. SessionInv /\ [Next]_vars => [Earned]_vars
  <2> SUFFICES ASSUME SessionInv, Next, NEW d \in Call,
                      ~calls[d].retried, calls'[d].retried
               PROVE  /\ calls[d].rotation < rotations'
                      /\ IsCurrent(calls[d].session)
    OBVIOUS
  <2> USE DEF SessionInv, Typed, TypeOK, RotationsPast
  <2>1. calls[d] \in CallRow /\ calls[d].rotation \in Nat /\ calls[d].rotation <= rotations
    BY DEF CallRow
  <2>2. ~Idle.retried
    BY DEF Idle
  <2>3. CASE \E c \in Call, status \in Status : AnswerFirst(c, status)
    BY <2>1, <2>2, <2>3 DEF AnswerFirst, Return, tabVars, CallRow
  <2>4. CASE FinishRefresh
    <3>1. calls[d].phase = "waiting" /\ Cured(d)
      BY <2>2, <2>4 DEF FinishRefresh
    <3>2. rotations' = rotations + 1
      BY <2>4, <3>1 DEF FinishRefresh, Cured
    <3> QED
      BY <2>1, <3>1, <3>2 DEF Cured
  <2>5. CASE \E c \in Call : StartCall(c) \/ FinishSignIn(c)
    BY <2>5 DEF StartCall, FinishSignIn, Sent
  <2>6. CASE \E c \in Call, status \in Status : AnswerRetry(c, status)
    BY <2>2, <2>6 DEF AnswerRetry, Return, CallRow
  <2>7. CASE \E c \in Call, complete \in BOOLEAN : ReadBody(c, complete)
    BY <2>2, <2>7 DEF ReadBody
  <2>8. CASE \E c \in Call : Abort(c)
    BY <2>2, <2>8 DEF Abort, CallRow
  <2>9. CASE calls' = calls
    BY <2>9
  <2> QED
    BY <2>3, <2>4, <2>5, <2>6, <2>7, <2>8, <2>9
       DEF Next, Requests, Refreshing, LeavingOrEntering, AnswerRefresh,
           ClickLogout, AnswerLogout, AnswerSignIn, ClickSignIn
<1> QED
  BY <1>1, SessionIsInductive, PTL DEF Spec, RetriesFollowRotation
----------------------------------------------------------------------------
(* A patient person, any number of people and requests.  Cookies and       *)
(* refreshes are the account's, or nobody's; only while a sign-in that was *)
(* accepted is being handled may the cookies already be another's, and     *)
(* nothing else happens then.  Requests of the session were sent with the  *)
(* account's cookies, and no session is still to come.                     *)

PatientSpec ==
  /\ Init /\ patient \in BOOLEAN
  /\ [][Next /\ WithPatience /\ UNCHANGED patient]_<<vars, patient>>

CookiesAreOwn ==
  /\ IF signIn # None /\ signIn.accepted THEN jar = signIn.who
                                         ELSE jar \in {account, None}
  /\ signIn # None => refresh = None
  /\ refresh # None => refresh.who \in {account, None}

CallIsOwn(call) ==
  /\ call.session <= generation
  /\ call.session = generation => call.who \in {account, None}

ShownIsPast == shown # None => shown.session <= generation

OwnInv ==
  /\ CookiesAreOwn
  /\ \A c \in Call : CallIsOwn(calls[c])
  /\ ShownIsPast
  /\ LoadedDataIsTheAccounts

(* Every request is under way as it was, or sent again with the account's  *)
(* cookies, or over; no session begins but to end the last one.            *)
CallsGoOn ==
  /\ generation' \in {generation, generation + 1}
  /\ \A c \in Call :
       \/ calls'[c].session = calls[c].session /\ calls'[c].who = calls[c].who
       \/ /\ calls'[c].session \in {calls[c].session, generation}
          /\ calls'[c].who = jar
       \/ calls'[c] = Idle

(* So no request of the session carries anybody else's cookies.            *)
LEMMA CallsStayOwn ==
  ASSUME Typed, OwnInv, CallsGoOn, jar \in {account, None}, UNCHANGED account
  PROVE  \A c \in Call : CallIsOwn(calls[c])'
<1>. SUFFICES ASSUME NEW c \in Call PROVE CallIsOwn(calls[c])'
  OBVIOUS
<1>1. /\ generation \in Nat /\ calls[c].session \in Nat
      /\ generation' = generation \/ generation' = generation + 1
      /\ CallIsOwn(calls[c])
  BY DEF Typed, TypeOK, CallRow, CallsGoOn, OwnInv
<1>2. CASE calls'[c].session = calls[c].session /\ calls'[c].who = calls[c].who
  BY <1>1, <1>2 DEF CallIsOwn
<1>3. CASE calls'[c] = Idle
  BY <1>1, <1>3 DEF CallIsOwn, Idle
<1>4. CASE calls'[c].session \in {calls[c].session, generation} /\ calls'[c].who = jar
  BY <1>1, <1>4 DEF CallIsOwn
<1>. QED
  BY <1>2, <1>3, <1>4 DEF CallsGoOn

(* What is shown stays, goes, or is the body of a request of the session.  *)
LEMMA ShownStaysOwn ==
  ASSUME Typed, OwnInv, UNCHANGED account,
         generation' \in {generation, generation + 1},
         \/ shown' \in {shown, None}
         \/ \E c \in Call :
              /\ shown' = [who |-> calls[c].who, session |-> generation]
              /\ calls[c].session = generation /\ calls[c].who # None
  PROVE  ShownIsPast' /\ LoadedDataIsTheAccounts'
<1>1. generation \in Nat /\ (shown # None => shown.session \in Nat)
  BY DEF Typed, TypeOK
<1>2. CASE shown' = None
  BY <1>2 DEF ShownIsPast, LoadedDataIsTheAccounts
<1>3. CASE shown' = shown
  BY <1>1, <1>3 DEF OwnInv, ShownIsPast, LoadedDataIsTheAccounts
<1>4. ASSUME NEW c \in Call,
             shown' = [who |-> calls[c].who, session |-> generation],
             calls[c].session = generation, calls[c].who # None
      PROVE  ShownIsPast' /\ LoadedDataIsTheAccounts'
  <2>1. calls[c].who = account
    BY <1>4 DEF OwnInv, CallIsOwn
  <2>2. shown'.session = generation /\ shown'.who = account
    BY <1>4, <2>1
  <2>. QED
    BY <1>1, <2>2 DEF ShownIsPast, LoadedDataIsTheAccounts
<1>. QED
  BY <1>2, <1>3, <1>4

(* Requests and their answers show only what is the account's.             *)
LEMMA RequestsStayOwn ==
  ASSUME Typed, OwnInv, Requests, signIn = None
  PROVE  OwnInv'
<1>1. jar \in {account, None} /\ UNCHANGED <<jar, account, signIn>>
  BY DEF OwnInv, CookiesAreOwn, Requests, StartCall, AnswerFirst, AnswerRetry,
     ReadBody, Abort
<1>2. ASSUME NEW c \in Call, NEW row,
             calls' = [calls EXCEPT ![c] = row],
             generation' \in {generation, generation + 1},
             \/ row = Idle
             \/ row.session = calls[c].session /\ row.who = calls[c].who
             \/ row.session \in {calls[c].session, generation} /\ row.who = jar
      PROVE  CallsGoOn
  BY <1>2 DEF CallsGoOn, Typed, TypeOK
<1>3. generation \in Nat /\ \A c \in Call : calls[c] \in CallRow
  BY DEF Typed, TypeOK
<1>4. CallsGoOn
  <2>1. ASSUME NEW c \in Call, StartCall(c) PROVE CallsGoOn
    BY <1>2, <1>3, <2>1 DEF StartCall, Sent, tabVars
  <2>2. ASSUME NEW c \in Call, NEW status, Return(c, status), UNCHANGED generation
        PROVE  CallsGoOn
    <3>. DEFINE row == IF status = "OK" /\ IsCurrent(calls[c].session)
                         THEN [calls[c] EXCEPT !.phase = "reading"] ELSE Idle
    <3>1. /\ calls' = [calls EXCEPT ![c] = row]
          /\ \/ row = Idle
             \/ row.session = calls[c].session /\ row.who = calls[c].who
      BY <1>3, <2>2 DEF Return, CallRow, Typed, TypeOK
    <3>. HIDE DEF row
    <3>. QED
      BY <1>2, <2>2, <3>1
  <2>3. ASSUME NEW c \in Call, NEW status \in Status, AnswerFirst(c, status)
        PROVE  CallsGoOn
    <3>1. UNCHANGED generation
      BY <2>3 DEF AnswerFirst, tabVars
    <3>2. CASE Return(c, status)
      BY <2>2, <3>1, <3>2
    <3>3. CASE calls' = [calls EXCEPT ![c] = Retried(c, jar)] 
      <4>1. Retried(c, jar).session = calls[c].session /\ Retried(c, jar).who = jar
        BY <1>3 DEF Retried, CallRow
      <4>. QED
        BY <1>2, <3>1, <3>3, <4>1
    <3>4. CASE calls' = [calls EXCEPT ![c].phase = "waiting"]
      <4>. DEFINE row == [calls[c] EXCEPT !.phase = "waiting"]
      <4>1. /\ calls' = [calls EXCEPT ![c] = row]
            /\ row.session = calls[c].session /\ row.who = calls[c].who
        BY <1>3, <3>4 DEF CallRow
      <4>. HIDE DEF row
      <4>. QED
        BY <1>2, <3>1, <4>1
    <3>. QED
      BY <2>3, <3>2, <3>3, <3>4 DEF AnswerFirst
  <2>4. ASSUME NEW c \in Call, NEW status \in Status, AnswerRetry(c, status)
        PROVE  CallsGoOn
    <3>1. CASE calls' = [calls EXCEPT ![c] = Idle] /\ RejectSession
      BY <1>2, <3>1 DEF RejectSession, EndSession
    <3>2. CASE Return(c, status) /\ UNCHANGED tabVars
      BY <2>2, <3>2 DEF tabVars
    <3>. QED
      BY <2>4, <3>1, <3>2 DEF AnswerRetry
  <2>5. ASSUME NEW c \in Call, NEW complete \in BOOLEAN, ReadBody(c, complete)
        PROVE  CallsGoOn
    BY <1>2, <2>5 DEF ReadBody, tabVars
  <2>6. ASSUME NEW c \in Call, Abort(c) PROVE CallsGoOn
    <3>. DEFINE row == [calls[c] EXCEPT !.aborted = TRUE]
    <3>1. /\ row.session = calls[c].session /\ row.who = calls[c].who
          /\ \/ calls' = [calls EXCEPT ![c] = row]
             \/ calls' = [calls EXCEPT ![c] = Idle]
      BY <1>3, <2>6 DEF Abort, CallRow
    <3>2. UNCHANGED generation
      BY <2>6 DEF Abort, tabVars
    <3>. HIDE DEF row
    <3>. QED
      BY <1>2, <3>1, <3>2
  <2>. QED
    BY <2>1, <2>3, <2>4, <2>5, <2>6 DEF Requests
<1>5. CookiesAreOwn'
  <2>1. \/ refresh' = refresh
        \/ refresh' = [session |-> generation, who |-> jar, outcome |-> None]
    BY DEF Requests, StartCall, AnswerFirst, AnswerRetry, ReadBody, Abort
  <2>2. refresh' # None => refresh'.who \in {account, None}
    BY <1>1, <2>1 DEF OwnInv, CookiesAreOwn
  <2>. QED
    BY <1>1, <2>2 DEF CookiesAreOwn
<1>6. \/ shown' \in {shown, None}
      \/ \E c \in Call :
           /\ shown' = [who |-> calls[c].who, session |-> generation]
           /\ calls[c].session = generation /\ calls[c].who # None
  <2>1. ASSUME NEW c \in Call, NEW complete \in BOOLEAN, ReadBody(c, complete),
               ~(shown' \in {shown, None})
        PROVE  /\ shown' = [who |-> calls[c].who, session |-> generation]
               /\ calls[c].session = generation /\ calls[c].who # None
    BY <2>1 DEF ReadBody, IsCurrent, pageVars, Typed, BodiesAreSomeones
  <2>2. ASSUME NEW c \in Call, NEW status \in Status,
               AnswerFirst(c, status) \/ AnswerRetry(c, status)
        PROVE  shown' \in {shown, None}
    BY <2>2 DEF AnswerFirst, AnswerRetry, Return, PageAfter, RejectSession, ClearPage,
       pageVars, Status
  <2>3. ASSUME NEW c \in Call, StartCall(c) \/ Abort(c)
        PROVE  shown' \in {shown, None}
    BY <2>3 DEF StartCall, Abort, PageAfter, ClearPage, pageVars
  <2>. QED
    BY <2>1, <2>2, <2>3 DEF Requests
<1>7. generation' \in {generation, generation + 1}
  BY <1>4 DEF CallsGoOn
<1>. QED
  BY <1>1, <1>4, <1>5, <1>6, <1>7, CallsStayOwn, ShownStaysOwn DEF OwnInv

(* A refresh brings back the cookies it was sent with, which are the       *)
(* account's, or none.                                                     *)
LEMMA RefreshingStaysOwn ==
  ASSUME Typed, OwnInv, Refreshing, signIn = None
  PROVE  OwnInv'
<1>1. jar \in {account, None} /\ UNCHANGED <<account, signIn>>
  BY DEF OwnInv, CookiesAreOwn, Refreshing, FinishRefresh, AnswerRefresh
<1>2. generation \in Nat /\ \A c \in Call : calls[c] \in CallRow
  BY DEF Typed, TypeOK
<1>3. CASE FinishRefresh
  <2>1. generation' \in {generation, generation + 1} /\ shown' \in {shown, None}
    BY <1>3 DEF FinishRefresh, RejectSession, EndSession, ClearPage, pageVars
  <2>2. ASSUME NEW c \in Call
        PROVE  Retried(c, jar).session = calls[c].session /\ Retried(c, jar).who = jar
    BY <1>2, <2>2 DEF Retried, CallRow
  <2>3. CallsGoOn
    BY <1>3, <2>1, <2>2 DEF FinishRefresh, CallsGoOn
  <2>4. CookiesAreOwn'
    BY <1>1, <1>3 DEF FinishRefresh, CookiesAreOwn
  <2>. QED
    BY <1>1, <2>1, <2>3, <2>4, CallsStayOwn, ShownStaysOwn DEF OwnInv
<1>4. ASSUME NEW outcome \in RefreshOutcome, AnswerRefresh(outcome) PROVE OwnInv'
  <2>1. UNCHANGED <<generation, calls, shown>>
    BY <1>4 DEF AnswerRefresh, tabVars, pageVars
  <2>2. CallsGoOn
    BY <2>1 DEF CallsGoOn
  <2>3. CookiesAreOwn'
    <3>1. refresh # None /\ refresh.who \in {account, None}
      BY <1>4 DEF AnswerRefresh, OwnInv, CookiesAreOwn
    <3>2. jar' \in {refresh.who, None, jar}
      BY <1>4 DEF AnswerRefresh, RefreshOutcome
    <3>3. refresh'.who = refresh.who
      BY <1>4, <3>1 DEF AnswerRefresh, Typed, TypeOK
    <3>. QED
      BY <1>1, <3>1, <3>2, <3>3 DEF CookiesAreOwn
  <2>. QED
    BY <1>1, <2>1, <2>2, <2>3, CallsStayOwn, ShownStaysOwn DEF OwnInv
<1>. QED
  BY <1>3, <1>4 DEF Refreshing

(* A sign-in begins at rest, and ends with the cookies of its person and a *)
(* new session; nothing of a former one is of that session.                *)
LEMMA LeavingOrEnteringStaysOwn ==
  ASSUME Typed, OwnInv, LeavingOrEntering, patient, WithPatience
  PROVE  OwnInv'
<1>. USE SessionAssumption
<1>1. generation \in Nat
  BY DEF Typed, TypeOK
<1>2. CASE ClickLogout
  <2>1. signIn = None /\ UNCHANGED <<jar, refresh, signIn, account, calls>>
    BY <1>2 DEF ClickLogout, WithPatience
  <2>2. generation' = generation + 1 /\ shown' = None
    BY <1>2 DEF ClickLogout, EndSession, ClearPage
  <2>3. CookiesAreOwn' /\ jar \in {account, None}
    BY <2>1 DEF OwnInv, CookiesAreOwn
  <2>4. CallsGoOn
    BY <2>1, <2>2 DEF CallsGoOn
  <2>. QED
    BY <2>1, <2>2, <2>3, <2>4, CallsStayOwn, ShownStaysOwn DEF OwnInv
<1>3. CASE AnswerLogout
  <2>1. /\ signIn = None /\ jar' \in {jar, None}
        /\ UNCHANGED <<refresh, signIn, account, calls, generation, shown>>
    BY <1>3 DEF AnswerLogout, WithPatience, tabVars, pageVars
  <2>2. CookiesAreOwn' /\ jar \in {account, None}
    BY <2>1 DEF OwnInv, CookiesAreOwn
  <2>3. CallsGoOn
    BY <2>1 DEF CallsGoOn
  <2>. QED
    BY <2>1, <2>2, <2>3, CallsStayOwn, ShownStaysOwn DEF OwnInv
<1>4. CASE AnswerSignIn
  <2>1. /\ signIn # None /\ ~signIn.accepted
        /\ UNCHANGED <<refresh, account, calls, generation, shown>>
    BY <1>4 DEF AnswerSignIn, tabVars, pageVars
  <2>2. CookiesAreOwn'
    <3>1. refresh = None /\ jar \in {account, None}
      BY <2>1 DEF OwnInv, CookiesAreOwn
    <3>2. CASE signIn' = None /\ UNCHANGED jar
      BY <2>1, <3>1, <3>2 DEF CookiesAreOwn
    <3>3. CASE jar' = signIn.who /\ signIn' = [signIn EXCEPT !.accepted = TRUE]
      <4>1. signIn \in [who: Person, accepted: BOOLEAN]
        BY <2>1 DEF Typed, TypeOK
      <4>2. /\ signIn' \in [who: Person, accepted: BOOLEAN]
            /\ signIn'.accepted /\ signIn'.who = signIn.who
        BY <3>3, <4>1
      <4>. QED
        BY <2>1, <3>1, <3>3, <4>2 DEF CookiesAreOwn
    <3>. QED
      BY <1>4, <3>2, <3>3 DEF AnswerSignIn
  <2>. QED
    BY <2>1, <2>2 DEF OwnInv, CallIsOwn, ShownIsPast, LoadedDataIsTheAccounts
<1>5. ASSUME NEW person \in Person, ClickSignIn(person) PROVE OwnInv'
  <2>1. /\ UNCHANGED <<jar, refresh, account, calls, generation, shown>>
        /\ signIn = None /\ signIn' = [who |-> person, accepted |-> FALSE]
    BY <1>5 DEF ClickSignIn, tabVars, pageVars
  <2>2. signIn' # None
    <3>1. signIn' \in [who: Person, accepted: BOOLEAN]
      BY <2>1
    <3>. QED  BY <3>1
  <2>3. refresh = None
    BY <2>1, <2>2 DEF WithPatience, AtRest
  <2>. QED
    BY <2>1, <2>3
       DEF OwnInv, CookiesAreOwn, CallIsOwn, ShownIsPast, LoadedDataIsTheAccounts
<1>6. ASSUME NEW c \in Call, FinishSignIn(c) PROVE OwnInv'
  <2>1. /\ signIn # None /\ signIn.accepted /\ signIn' = None
        /\ account' = signIn.who /\ generation' = generation + 1
        /\ calls' = [calls EXCEPT ![c] = Sent(generation + 1, jar)]
        /\ UNCHANGED <<jar, refresh, shown>>
    BY <1>6 DEF FinishSignIn, pageVars
  <2>2. ASSUME NEW d \in Call PROVE CallIsOwn(calls[d])'
    <3>1. /\ calls[d] \in CallRow /\ calls[d].session \in Nat
          /\ CallIsOwn(calls[d]) /\ jar = signIn.who
      BY <2>1 DEF Typed, TypeOK, CallRow, OwnInv, CookiesAreOwn
    <3>2. CASE d = c
      <4>1. calls'[d] = Sent(generation + 1, jar)
        BY <2>1, <3>2 DEF Typed, TypeOK
      <4>. QED
        BY <1>1, <2>1, <3>1, <4>1 DEF Sent, CallIsOwn
    <3>3. CASE d # c
      <4>1. calls'[d] = calls[d]
        BY <2>1, <3>3 DEF Typed, TypeOK
      <4>. QED
        BY <1>1, <2>1, <3>1, <4>1 DEF CallIsOwn
    <3>. QED
      BY <3>2, <3>3
  <2>3. CookiesAreOwn'
    BY <2>1 DEF OwnInv, CookiesAreOwn
  <2>4. ShownIsPast' /\ LoadedDataIsTheAccounts'
    <3>1. shown # None => shown.session \in Nat /\ shown.session <= generation
      BY DEF Typed, TypeOK, OwnInv, ShownIsPast
    <3>. QED
      BY <1>1, <2>1, <3>1 DEF ShownIsPast, LoadedDataIsTheAccounts
  <2>. QED
    BY <2>2, <2>3, <2>4 DEF OwnInv
<1>. QED
  BY <1>2, <1>3, <1>4, <1>5, <1>6 DEF LeavingOrEntering

(* Every step that patience allows keeps everything the account's.         *)
LEMMA OwnStep ==
  ASSUME Typed, OwnInv, patient, [Next /\ WithPatience /\ UNCHANGED patient]_<<vars, patient>>
  PROVE  OwnInv'
<1>1. CASE UNCHANGED vars
  BY <1>1 DEF vars, tabVars, pageVars, OwnInv, CookiesAreOwn, CallIsOwn, ShownIsPast,
     LoadedDataIsTheAccounts
<1>2. CASE Next /\ WithPatience
  <2>1. Requests \/ Refreshing => signIn' = signIn
    BY DEF Requests, StartCall, AnswerFirst, AnswerRetry, ReadBody, Abort,
       Refreshing, FinishRefresh, AnswerRefresh
  <2>2. Requests \/ Refreshing => signIn = None
    BY <1>2, <2>1 DEF WithPatience
  <2>. QED
    BY <1>2, <2>2, RequestsStayOwn, RefreshingStaysOwn, LeavingOrEnteringStaysOwn
       DEF Next
<1>. QED
  BY <1>1, <1>2

(* What is loaded in a patient person's session is the data of the account *)
(* that signed in to it, however requests and refreshes of former sessions *)
(* come back.  A list that was on the page before is not spoken of.        *)
THEOREM PatienceLoadsOwnData == PatientSpec => []PatientLoadsOwnData
<1>. DEFINE Inv == SessionInv /\ (patient => OwnInv)
<1>1. Init /\ patient \in BOOLEAN => Inv
  <2>. SUFFICES ASSUME Init PROVE OwnInv
    BY SessionInvInit
  <2>1. ASSUME NEW c \in Call PROVE CallIsOwn(calls[c])
    BY DEF Init, Idle, CallIsOwn
  <2>. QED
    BY <2>1 DEF Init, OwnInv, CookiesAreOwn, ShownIsPast, LoadedDataIsTheAccounts
<1>2. Inv /\ [Next /\ WithPatience /\ UNCHANGED patient]_<<vars, patient>> => Inv'
  BY SessionInvNext, OwnStep DEF SessionInv
<1>3. Inv => PatientLoadsOwnData
  BY DEF OwnInv, PatientLoadsOwnData
<1>. QED
  BY <1>1, <1>2, <1>3, PTL DEF PatientSpec
=============================================================================
