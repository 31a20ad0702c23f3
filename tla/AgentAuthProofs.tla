-------------------------- MODULE AgentAuthProofs ---------------------------
(***************************************************************************)
(* What the control plane may believe of an agent: no signed request is    *)
(* let through twice, for any devices, nonces and timestamps, any number   *)
(* of handlers, and any skew, retention and duration that leave room for   *)
(* each other (ReplayAssumption).                                          *)
(***************************************************************************)
EXTENDS AgentAuth, TLAPS

(* A handler's clock is behind, but never by more than MaxDuration.        *)
HandlersAreRecent ==
  \A h \in Handler : handlers[h].phase # "free" =>
    /\ handlers[h].now <= clock
    /\ clock <= handlers[h].now + MaxDuration

(* A request that has been authenticated was in time by that clock.        *)
AuthenticatedInSkew ==
  \A h \in Handler : handlers[h].phase = "authenticated" =>
    InSkew(handlers[h].request, handlers[h].now)

(* The row of an accepted request stands as long as anyone may still       *)
(* authenticate the request.                                               *)
Stands(r, row) ==
  /\ row.device = r.device /\ row.nonce = r.nonce
  /\ r.timestamp + Retention <= row.expiresAt + MaximumClockSkew

AcceptedIsRemembered ==
  \A r \in Request : accepted[r] > 0 =>
    \/ clock > r.timestamp + MaximumClockSkew + MaxDuration
    \/ \E row \in nonces : Stands(r, row)

ReplayInv ==
  /\ TypeOK
  /\ HandlersAreRecent
  /\ AuthenticatedInSkew
  /\ AcceptedIsRemembered
  /\ AcceptedOnce
----------------------------------------------------------------------------
(* Nothing has been let through and every handler is free.                 *)
LEMMA ReplayInvInit == Init => ReplayInv
BY DEF Init, ReplayInv, TypeOK, HandlersAreRecent, AuthenticatedInSkew,
       AcceptedIsRemembered, AcceptedOnce, Free

(* Consuming is the only step that counts a request or removes a row.      *)
LEMMA ConsumeKeeps ==
  ASSUME ReplayInv, NEW h \in Handler, Consume(h)
  PROVE  ReplayInv'
<1> DEFINE request == handlers[h].request
           now == handlers[h].now
           kept == Remembered(request.device, now)
<1> USE ReplayAssumption DEF ReplayInv
<1>1. /\ request \in Request /\ now \in Nat /\ clock \in Nat
      /\ now <= clock /\ clock <= now + MaxDuration
      /\ InSkew(request, now)
      /\ request.timestamp \in Nat
  BY DEF Consume, TypeOK, HandlersAreRecent, AuthenticatedInSkew, Request
<1>2. kept \subseteq nonces
  BY DEF Remembered
<1>3. NewRow(request, now) \in Row /\ Stands(request, NewRow(request, now))
  BY <1>1 DEF NewRow, Row, Request, Stands, InSkew
<1>4. \A r \in Request : accepted[r] > 0 =>
        \/ clock > r.timestamp + MaximumClockSkew + MaxDuration
        \/ \E row \in kept : Stands(r, row)
  <2> SUFFICES ASSUME NEW r \in Request,
                      NEW row \in nonces, Stands(r, row), row \notin kept
               PROVE  clock > r.timestamp + MaximumClockSkew + MaxDuration
    BY DEF AcceptedIsRemembered
  <2>1. row.expiresAt <= now /\ row.expiresAt \in Nat /\ r.timestamp \in Nat
    BY DEF Remembered, TypeOK, Row, Request
  <2> QED
    BY <1>1, <2>1 DEF Stands
<1>5. /\ clock' = clock /\ ready' = ready
      /\ handlers' = [handlers EXCEPT ![h] = Free]
  BY DEF Consume
<1>6. HandlersAreRecent' /\ AuthenticatedInSkew'
  BY <1>5 DEF HandlersAreRecent, AuthenticatedInSkew, Free, TypeOK, InSkew
<1>7. CASE nonces' = kept /\ accepted' = accepted
  <2>1. TypeOK'
    BY <1>2, <1>5, <1>7 DEF TypeOK, Free
  <2> QED
    BY <1>4, <1>5, <1>6, <1>7, <2>1 DEF AcceptedIsRemembered, AcceptedOnce
<1>8. CASE /\ nonces' = kept \cup {NewRow(request, now)}
           /\ accepted' = [accepted EXCEPT ![request] = @ + 1]
           /\ \A row \in kept :
                ~(row.device = request.device /\ row.nonce = request.nonce)
  <2>1. TypeOK'
    BY <1>1, <1>2, <1>3, <1>5, <1>8 DEF TypeOK, Free
  <2>2. accepted[request] = 0
    <3>1. ~ clock > request.timestamp + MaximumClockSkew + MaxDuration
      BY <1>1 DEF InSkew
    <3>2. ~ accepted[request] > 0
      BY <1>1, <1>4, <1>8, <3>1 DEF Stands
    <3> QED
      BY <1>1, <3>2 DEF TypeOK
  <2>3. AcceptedOnce'
    BY <1>1, <1>8, <2>2 DEF AcceptedOnce, TypeOK
  <2>4. AcceptedIsRemembered'
    <3> SUFFICES ASSUME NEW r \in Request, accepted'[r] > 0
                 PROVE  \/ clock > r.timestamp + MaximumClockSkew + MaxDuration
                        \/ \E row \in nonces' : Stands(r, row)
      BY <1>5 DEF AcceptedIsRemembered, Stands
    <3>1. CASE r = request
      BY <1>3, <1>8, <3>1
    <3>2. CASE r # request
      <4>1. accepted[r] > 0
        BY <1>1, <1>8, <3>2 DEF TypeOK
      <4> QED
        BY <1>4, <1>8, <4>1
    <3> QED
      BY <3>1, <3>2
  <2> QED
    BY <1>6, <2>1, <2>3, <2>4
<1> QED
  BY <1>7, <1>8 DEF Consume

(* Whatever a handler does, or the clock, rows outlive their requests.     *)
LEMMA ReplayInvNext == ReplayInv /\ [Next]_vars => ReplayInv'
<1> SUFFICES ASSUME ReplayInv, [Next]_vars PROVE ReplayInv'
  OBVIOUS
<1> USE ReplayAssumption DEF ReplayInv
<1>1. ASSUME NEW h \in Handler, NEW request \in Request, Receive(h, request)
      PROVE  ReplayInv'
  <2>1. TypeOK'
    BY <1>1 DEF Receive, TypeOK
  <2>2. HandlersAreRecent' /\ AuthenticatedInSkew'
    BY <1>1 DEF Receive, TypeOK, HandlersAreRecent, AuthenticatedInSkew, InSkew
  <2> QED
    BY <1>1, <2>1, <2>2 DEF Receive, AcceptedIsRemembered, AcceptedOnce, Stands
<1>2. ASSUME NEW h \in Handler, Authenticate(h) PROVE ReplayInv'
  <2> DEFINE next == [handlers[h] EXCEPT !.phase = "authenticated"]
  <2>1. handlers[h].phase = "parsed"
    BY <1>2 DEF Authenticate
  <2>2. /\ next.phase = "authenticated" /\ next.request = handlers[h].request
        /\ next.now = handlers[h].now
        /\ next \in [phase: {"free", "parsed", "authenticated"},
                     request: Request \cup {None}, now: Nat]
    BY <2>1 DEF TypeOK
  <2>3. \/ handlers' = [handlers EXCEPT ![h] = next]
           /\ InSkew(handlers[h].request, handlers[h].now)
        \/ handlers' = [handlers EXCEPT ![h] = Free]
    BY <1>2 DEF Authenticate
  <2>4. /\ clock' = clock /\ ready' = ready /\ nonces' = nonces
        /\ accepted' = accepted
    BY <1>2 DEF Authenticate
  <2> HIDE DEF next
  <2>5. TypeOK'
    BY <2>1, <2>2, <2>3, <2>4 DEF TypeOK, Free
  <2>6. HandlersAreRecent' /\ AuthenticatedInSkew'
    BY <2>1, <2>2, <2>3, <2>4
       DEF TypeOK, Free, HandlersAreRecent, AuthenticatedInSkew, InSkew
  <2> QED
    BY <2>4, <2>5, <2>6 DEF AcceptedIsRemembered, AcceptedOnce, Stands
<1>3. ASSUME NEW h \in Handler, Consume(h) PROVE ReplayInv'
  BY <1>3, ConsumeKeeps
<1>4. ASSUME NEW h \in Handler, GiveUp(h) PROVE ReplayInv'
  BY <1>4 DEF GiveUp, TypeOK, Free, HandlersAreRecent, AuthenticatedInSkew, InSkew,
              AcceptedIsRemembered, AcceptedOnce, Stands
<1>5. ASSUME NEW devices \in SUBSET Device, SetReady(devices) PROVE ReplayInv'
  BY <1>5 DEF SetReady, TypeOK, HandlersAreRecent, AuthenticatedInSkew, InSkew,
              AcceptedIsRemembered, AcceptedOnce, Stands
<1>6. CASE Tick
  <2>1. TypeOK'
    BY <1>6 DEF Tick, TypeOK
  <2>2. HandlersAreRecent' /\ AuthenticatedInSkew'
    BY <1>6 DEF Tick, TypeOK, HandlersAreRecent, AuthenticatedInSkew, InSkew
  <2>3. AcceptedIsRemembered'
    <3>1. clock \in Nat /\ clock' = clock + 1 /\ nonces' = nonces /\ accepted' = accepted
      BY <1>6 DEF Tick, TypeOK
    <3>2. \A r \in Request : r.timestamp \in Nat
      BY DEF Request
    <3> QED
      BY <3>1, <3>2 DEF AcceptedIsRemembered, Stands
  <2> QED
    BY <1>6, <2>1, <2>2, <2>3 DEF Tick, AcceptedOnce
<1>7. CASE UNCHANGED vars
  BY <1>7 DEF vars, TypeOK, HandlersAreRecent, AuthenticatedInSkew, InSkew,
              AcceptedIsRemembered, AcceptedOnce, Stands
<1> QED
  BY <1>1, <1>2, <1>3, <1>4, <1>5, <1>6, <1>7 DEF Next, Handle
----------------------------------------------------------------------------
(* Rows outlive the time in which their request is accepted: the invariant *)
(* of authenticateAgentRequest and consumeNonce together.                  *)
THEOREM ReplayIsInductive == Spec => []ReplayInv
  BY ReplayInvInit, ReplayInvNext, PTL DEF Spec

(* A signed request is let through at most once, however often, late or    *)
(* concurrently it is delivered.                                           *)
THEOREM NoReplay == Spec => []AcceptedOnce
<1>1. ReplayInv => AcceptedOnce
  BY DEF ReplayInv
<1> QED
  BY <1>1, ReplayIsInductive, PTL

(* A request takes effect within the skew of its timestamp, plus the time  *)
(* its handler took.                                                       *)
THEOREM NothingStale == Spec => AcceptedInTime
<1> DEFINE InTime ==
      \A r \in Request :
        accepted'[r] > accepted[r]
        => /\ clock <= r.timestamp + MaximumClockSkew + MaxDuration
           /\ r.timestamp <= clock + MaximumClockSkew
<1>1. ReplayInv /\ [Next]_vars => [InTime]_vars
  <2> SUFFICES ASSUME ReplayInv, Next, NEW r \in Request, accepted'[r] > accepted[r]
               PROVE  /\ clock <= r.timestamp + MaximumClockSkew + MaxDuration
                      /\ r.timestamp <= clock + MaximumClockSkew
    OBVIOUS
  <2>1. accepted[r] \in Nat
    BY DEF ReplayInv, TypeOK
  <2>2. PICK h \in Handler : Consume(h)
    BY <2>1 DEF Next, Handle, Receive, Authenticate, GiveUp, SetReady, Tick
  <2>3. r = handlers[h].request
    BY <2>1, <2>2 DEF Consume, ReplayInv, TypeOK
  <2>4. InSkew(r, handlers[h].now)
    BY <2>2, <2>3 DEF Consume, ReplayInv, AuthenticatedInSkew
  <2>5. /\ handlers[h].now \in Nat /\ clock \in Nat
        /\ handlers[h].now <= clock /\ clock <= handlers[h].now + MaxDuration
    BY <2>2 DEF Consume, ReplayInv, TypeOK, HandlersAreRecent
  <2>6. r.timestamp \in Nat
    BY ReplayAssumption DEF Request
  <2> QED
    BY <2>4, <2>5, <2>6, ReplayAssumption DEF InSkew
<1> QED
  BY <1>1, ReplayIsInductive, PTL DEF Spec, AcceptedInTime
=============================================================================
