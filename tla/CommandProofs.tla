---------------------------- MODULE CommandProofs ----------------------------
(***************************************************************************)
(* What stays true of ControlPlane's commands, for every number of people, *)
(* devices, commands and handlers: their lifecycle, the requests and the   *)
(* source commands they answer to, the cooldown between them and the       *)
(* quotas that count them.                                                 *)
(***************************************************************************)
EXTENDS ControlPlaneProofs, FiniteSetTheorems

(* A path the protocol lets a command take from this status on.            *)
Follows(from, path) ==
  /\ path \in Seq(LifecycleState) /\ path # << >>
  /\ CanTransition(from, path[1])
  /\ \A i \in 1..(Len(path) - 1) : CanTransition(path[i], path[i + 1])

(* Outstanding commands go on, together, along an allowed path.            *)
Continues(ids, status, path) ==
  /\ ids \subseteq DOMAIN commands
  /\ \A id \in ids : IsOutstanding(id) /\ Follows(commands[id].status, path)
  /\ path[Len(path)] = status
  /\ \E now \in Nat : Advance(ids, status, path, now)

(* A lifecycle that goes on along an allowed path is a lifecycle, and ends *)
(* where that path does.                                                   *)
LEMMA LifecycleGoesOn ==
  ASSUME NEW path \in Seq(LifecycleState), IsLifecycle(path),
         NEW more, Follows(path[Len(path)], more)
  PROVE  /\ IsLifecycle(path \o more)
         /\ (path \o more)[Len(path \o more)] = more[Len(more)]
<1>1. more \in Seq(LifecycleState) /\ Len(path) \in Nat \ {0}
      /\ Len(more) \in Nat \ {0}
  BY DEF Follows, IsLifecycle
<1>2. /\ Len(path \o more) = Len(path) + Len(more)
      /\ \A i \in 1..Len(path) : (path \o more)[i] = path[i]
      /\ \A i \in 1..Len(more) : (path \o more)[Len(path) + i] = more[i]
  BY <1>1
<1>3. (path \o more)[Len(path \o more)] = more[Len(more)]
  BY <1>1, <1>2
<1>4. (path \o more)[1] = "REQUESTED" /\ path \o more # << >>
  BY <1>1, <1>2 DEF IsLifecycle
<1>5. ASSUME NEW i \in 1..(Len(path \o more) - 1)
      PROVE  CanTransition((path \o more)[i], (path \o more)[i + 1])
  <2>1. CASE i < Len(path)
    BY <1>1, <1>2, <2>1 DEF IsLifecycle
  <2>2. CASE i = Len(path)
    <3>1. (path \o more)[i] = path[Len(path)] /\ (path \o more)[i + 1] = more[1]
      BY <1>1, <1>2, <2>2
    <3>. QED
      BY <3>1 DEF Follows
  <2>3. CASE i > Len(path)
    <3>. DEFINE j == i - Len(path)
    <3>1. /\ j \in 1..(Len(more) - 1)
          /\ (path \o more)[i] = more[j] /\ (path \o more)[i + 1] = more[j + 1]
      BY <1>1, <1>2, <2>3
    <3>. QED
      BY <3>1 DEF Follows
  <2>. QED
    BY <1>1, <2>1, <2>2, <2>3
<1>. QED
  BY <1>3, <1>4, <1>5 DEF IsLifecycle

(* The paths the handlers append.                                          *)
LEMMA CancelFollows ==
  ASSUME NEW from \in Outstanding
  PROVE  /\ Follows(from, <<"CANCELLED">>)
         /\ Follows(from, <<"EXPIRED">>)
BY DEF Follows, Outstanding, CanTransition, Transitions, LifecycleState

(* A poll hands a queued command out.                                      *)
LEMMA DispatchFollows ==
  Follows("QUEUED", <<"DISPATCHED">>)
BY DEF Follows, CanTransition, Transitions, LifecycleState

(* An attempt that did not end well goes through the same states.          *)
LEMMA AttemptFollows ==
  ASSUME NEW last \in {"FAILED", "OUTCOME_UNKNOWN"}
  PROVE  LET path == <<"DELIVERED", "ATTEMPTED", last>>
         IN  Follows("DISPATCHED", path) /\ path[Len(path)] = last
<1>. DEFINE path == <<"DELIVERED", "ATTEMPTED", last>>
<1>1. /\ Len(path) = 3
      /\ path[1] = "DELIVERED" /\ path[2] = "ATTEMPTED" /\ path[3] = last
      /\ path \in Seq(LifecycleState) /\ path # << >>
  BY DEF LifecycleState
<1>. HIDE DEF path
<1>2. /\ CanTransition("DISPATCHED", "DELIVERED")
      /\ CanTransition("DELIVERED", "ATTEMPTED")
      /\ CanTransition("ATTEMPTED", last)
  BY DEF CanTransition, Transitions
<1>3. \A i \in 1..(Len(path) - 1) : i = 1 \/ i = 2
  BY <1>1
<1>4. \A i \in 1..(Len(path) - 1) : CanTransition(path[i], path[i + 1])
  BY <1>1, <1>2, <1>3
<1>5. Follows("DISPATCHED", path) /\ path[Len(path)] = last
  BY <1>1, <1>2, <1>4 DEF Follows
<1>. QED
  BY <1>5 DEF path

(* The path appended for a result ends in the status it stands for.        *)
LEMMA ResultFollows ==
  ASSUME NEW result \in ResultCode
  PROVE  /\ Follows("DISPATCHED", ResultPath(result))
         /\ ResultPath(result)[Len(ResultPath(result))] = ResultStatusOf(result)
         /\ ResultStatusOf(result) \in ResultStatus
<1>1. CASE result = "REFUSED"
  <2>1. ResultPath(result) = <<"DELIVERED", "REJECTED_BY_AGENT">>
    BY <1>1 DEF ResultPath
  <2>. QED
    BY <1>1, <2>1 DEF Follows, CanTransition, Transitions, LifecycleState,
       ResultStatusOf, ResultStatus
<1>2. CASE result = "COMMAND_ACCEPTED"
  <2>1. ResultPath(result) = <<"DELIVERED", "ATTEMPTED", "OUTCOME_UNKNOWN">>
    BY <1>2 DEF ResultPath
  <2>2. ResultStatusOf(result) = "OUTCOME_UNKNOWN"
    BY <1>2 DEF ResultStatusOf
  <2>. QED
    BY <2>1, <2>2, AttemptFollows DEF ResultStatus
<1>3. CASE result = "DRIVE_ERROR"
  <2>1. ResultPath(result) = <<"DELIVERED", "ATTEMPTED", "FAILED">>
    BY <1>3 DEF ResultPath
  <2>2. ResultStatusOf(result) = "FAILED"
    BY <1>3 DEF ResultStatusOf
  <2>. QED
    BY <2>1, <2>2, AttemptFollows DEF ResultStatus
<1>. QED
  BY <1>1, <1>2, <1>3 DEF ResultCode
----------------------------------------------------------------------------
(* What each handler does to the commands and the results.                 *)

(* Cancelling what is outstanding, however it is selected.                 *)
LEMMA CancelsContinue ==
  ASSUME NEW ids \in SUBSET DOMAIN commands, NEW now \in Nat,
         \A id \in ids : IsOutstanding(id),
         Advance(ids, "CANCELLED", <<"CANCELLED">>, now)
  PROVE  Continues(ids, "CANCELLED", <<"CANCELLED">>)
BY CancelFollows DEF Continues, IsOutstanding

(* What is cancelled between people was outstanding.                       *)
LEMMA CancelBetweenContinues ==
  ASSUME NEW pairs, NEW now \in Nat, CancelBetween(pairs, now)
  PROVE  \E ids : Continues(ids, "CANCELLED", <<"CANCELLED">>)
<1>. DEFINE ids == {id \in DOMAIN commands :
                      /\ IsOutstanding(id)
                      /\ <<commands[id].actor, commands[id].recipient>> \in pairs}
<1>1. Advance(ids, "CANCELLED", <<"CANCELLED">>, now)
  BY DEF CancelBetween
<1>2. ids \in SUBSET DOMAIN commands /\ \A id \in ids : IsOutstanding(id)
  OBVIOUS
<1>. HIDE DEF ids
<1>. QED
  BY <1>1, <1>2, CancelsContinue

(* The steps a command may take once it was queued: no handler touches it, *)
(* several are ended or one is handed out without a result, or one result  *)
(* is stored with the end it implies.                                      *)
NothingHappens == UNCHANGED <<commandVars, results>>

GoesOn ==
  /\ \E status \in CommandStatus \ ResultStatus :
       \E ids, path : Continues(ids, status, path)
  /\ UNCHANGED results

IsReported ==
  \E id \in DOMAIN commands, observation \in Observation :
    /\ commands[id].status = "DISPATCHED"
    /\ Continues({id}, ResultStatusOf(observation.result),
                 ResultPath(observation.result))
    /\ results' = Put(results, id, observation)

(* Cancelling stores no result.                                            *)
LEMMA CancelGoesOn ==
  ASSUME NEW ids, Continues(ids, "CANCELLED", <<"CANCELLED">>),
         UNCHANGED results
  PROVE  GoesOn
BY DEF GoesOn, CommandStatus, ResultStatus

(* An agent's request hands out, ends or reports commands.                 *)
LEMMA AgentGoesOn ==
  ASSUME TypeOK, Agent
  PROVE  NothingHappens \/ GoesOn \/ IsReported
<1>1. PICK device \in Device, key \in KeyId, nonce \in Nonce, now \in Recent :
        \/ Poll(device, key, nonce, now)
        \/ \E id \in DOMAIN commands, observation \in Observation :
             IngestResult(device, key, nonce, id, observation, now)
        \/ RefuseAgentRequest(device, key, nonce, now)
  BY DEF Agent
<1>0. now \in Nat
  BY RecentType DEF TypeOK
<1>2. ASSUME NEW id \in Oldest(device), HandOut(id, device, now),
             UNCHANGED results
      PROVE  NothingHappens \/ GoesOn
  <2>1. id \in DOMAIN commands /\ IsOutstanding(id)
    BY DEF Oldest, OutstandingFor
  <2>2. ASSUME NEW status \in {"EXPIRED", "CANCELLED"},
               Advance({id}, status, <<status>>, now)
        PROVE  GoesOn
    <3>1. Follows(commands[id].status, <<status>>)
      BY <2>1, CancelFollows DEF IsOutstanding
    <3>2. Continues({id}, status, <<status>>)
      BY <1>0, <2>1, <2>2, <3>1 DEF Continues
    <3>. QED
      BY <1>2, <3>2 DEF GoesOn, CommandStatus, ResultStatus
  <2>3. CASE /\ commands[id].status = "QUEUED"
             /\ Advance({id}, "DISPATCHED", <<"DISPATCHED">>, now)
    <3>1. Continues({id}, "DISPATCHED", <<"DISPATCHED">>)
      BY <1>0, <2>1, <2>3, DispatchFollows DEF Continues
    <3>. QED
      BY <1>2, <3>1 DEF GoesOn, CommandStatus, ResultStatus, Outstanding
  <2>. QED
    BY <1>2, <2>2, <2>3 DEF HandOut, NothingHappens
<1>3. ASSUME NEW id \in DOMAIN commands, NEW observation \in Observation,
             IngestResult(device, key, nonce, id, observation, now)
      PROVE  NothingHappens \/ IsReported
  <2>1. CASE AwaitsResult(id, device)
    <3>1. commands[id].status = "DISPATCHED"
      BY <2>1 DEF AwaitsResult
    <3>2. observation.result \in ResultCode
      BY TransportAssumption
    <3>3. Continues({id}, ResultStatusOf(observation.result),
                    ResultPath(observation.result))
      BY <1>0, <1>3, <2>1, <3>1, <3>2, ResultFollows
         DEF IngestResult, Continues, IsOutstanding, Outstanding
    <3>. QED
      BY <1>3, <2>1, <3>1, <3>3 DEF IngestResult, IsReported
  <2>2. CASE ~AwaitsResult(id, device)
    BY <1>3, <2>2 DEF IngestResult, NothingHappens
  <2>. QED
    BY <2>1, <2>2
<1>. QED
  BY <1>1, <1>2, <1>3 DEF Poll, RefuseAgentRequest, NothingHappens

(* Whatever is not an eject request takes one of these steps.              *)
LEMMA HandlersGoOn ==
  ASSUME TypeOK, [Next]_vars, ~Eject
  PROVE  /\ NothingHappens \/ GoesOn \/ IsReported
         /\ UNCHANGED requests
<1>0. \A now \in Recent : now \in Nat
  BY RecentType DEF TypeOK
<1>1. CASE UNCHANGED <<commandVars, results, requests>>
  BY <1>1 DEF NothingHappens
<1>2. ASSUME NEW now \in Recent, NEW pairs, CancelBetween(pairs, now),
             UNCHANGED <<results, requests>>
      PROVE  GoesOn
  BY <1>0, <1>2, CancelBetweenContinues, CancelGoesOn
<1>3. CASE Pause
  BY <1>1, <1>2, <1>3 DEF Pause, SetPaused, transportVars
<1>4. CASE Grant
  BY <1>1, <1>2, <1>4 DEF Grant, GiveGrant, RevokeGrant, transportVars
<1>5. CASE Relationship
  <2>1. PICK now \in Recent, removed \in SUBSET DOMAIN invitations :
          \/ \E person \in Person, code \in Code :
               \/ CreateInvitation(person, code, now, removed)
               \/ AcceptInvitation(person, code, now, removed)
               \/ RefuseAcceptance(person, code, now, removed)
          \/ \E person \in Person : RefuseInvitation(person, now, removed)
          \/ CleanupInvitations(now, removed)
    BY <1>5 DEF Relationship
  <2>2. UNCHANGED commandVars
    BY <2>1 DEF CreateInvitation, AcceptInvitation, RefuseAcceptance,
       RefuseInvitation, CleanupInvitations
  <2>. QED
    BY <1>1, <1>5, <2>2 DEF Relationship, transportVars
<1>6. CASE Disconnect
  BY <1>1, <1>2, <1>6 DEF Disconnect, DisconnectRelationship, transportVars
<1>7. CASE Enroll
  BY <1>1, <1>7 DEF Enroll, CreateEnrollmentOf, EnrollAgent,
     CreateEnrollment, ConsumeEnrollment, transportVars
<1>8. CASE Revoke
  <2>1. PICK device \in Device, now \in Recent : CancelForDevice(device, now)
    BY <1>8 DEF Revoke, RevokeDevice
  <2>2. Continues(OutstandingFor(device), "CANCELLED", <<"CANCELLED">>)
    BY <1>0, <2>1, CancelsContinue DEF CancelForDevice, OutstandingFor
  <2>. QED
    BY <1>8, <2>2, CancelGoesOn DEF Revoke, transportVars
<1>9. CASE Agent
  BY <1>9, AgentGoesOn DEF Agent
<1>10. CASE OperateAccounts \/ OperateDevices \/ Time
  BY <1>1, <1>10 DEF OperateAccounts, OperateDevices, CompleteSetup,
     SetAvailable, Time, transportVars
<1>11. CASE UNCHANGED vars
  BY <1>1, <1>11 DEF vars, transportVars
<1>. QED
  BY <1>3, <1>4, <1>5, <1>6, <1>7, <1>8, <1>9, <1>10, <1>11 DEF Next

(* An eject request issues, or is answered from its record.                *)
LEMMA EjectIssues ==
  ASSUME TypeOK, Eject
  PROVE  \/ \E actor \in Person, key \in Key, recipient \in Person,
               replyTo \in Id \cup {None}, id \in Id, now \in Nat, began \in Nat :
              Issue(actor, key, recipient, replyTo, id, now, began)
         \/ \E actor \in Person, key \in Key, recipient \in Person,
               began \in Nat :
              AnswerFromRecord(actor, key, recipient, began)
<1>1. PICK route \in Route, key \in Key, now \in Recent :
        \E began \in BeganAfter(now) :
          \/ \E replyTo \in Reply, id \in Id :
               Issue(route[1], key, route[2], replyTo, id, now, began)
          \/ AnswerFromRecord(route[1], key, route[2], began)
  BY DEF Eject
<1>2. /\ route[1] \in Person /\ route[2] \in Person
      /\ Reply \subseteq Id \cup {None}
  BY RouteAssumption
<1>3. now \in Nat /\ BeganAfter(now) \subseteq Nat
  BY RecentType DEF TypeOK
<1>. QED
  BY <1>1, <1>2, <1>3

(* An issued request is new and leaves a command or a rejection.           *)
LEMMA IssueIsNew ==
  ASSUME TypeOK, NEW actor, NEW key, NEW recipient, NEW replyTo, NEW id,
         NEW now, NEW began,
         Issue(actor, key, recipient, replyTo, id, now, began)
  PROVE  /\ id \notin DOMAIN events /\ id \notin DOMAIN commands
         /\ id \notin DOMAIN results
         /\ <<actor, key>> \notin DOMAIN requests
         /\ recipient \in DOMAIN policies
         /\ LET decision == AuthorizeEject(Facts(actor, recipient, replyTo, now,
                                                 began), now)
            IN  \/ /\ decision = "AUTHORIZED"
                   /\ \E device \in EligibleDevices(recipient) :
                        RecordQueued(actor, key, recipient, replyTo, id, now,
                                     began, device)
                \/ RecordRejection(actor, key, recipient, replyTo, id, now,
                                   began, decision)
<1>1. /\ id \notin DOMAIN events /\ <<actor, key>> \notin DOMAIN requests
      /\ recipient \in DOMAIN policies
  BY DEF Issue, IsNewRequest
<1>2. id \notin DOMAIN commands /\ id \notin DOMAIN results
  BY <1>1 DEF TypeOK, CommandsTypeOK, TransportTypeOK
<1>. QED
  BY <1>1, <1>2 DEF Issue

(* A rejection leaves the commands as they were.                           *)
LEMMA RejectionAddsNone ==
  ASSUME NEW actor, NEW key, NEW recipient, NEW replyTo, NEW id, NEW now,
         NEW began, NEW reason, id \notin DOMAIN events,
         RecordRejection(actor, key, recipient, replyTo, id, now, began, reason)
  PROVE  /\ UNCHANGED commands
         /\ DOMAIN events' = DOMAIN events \cup {id}
         /\ events'[id].path = <<"REQUESTED", "REJECTED">>
         /\ \A old \in DOMAIN events : events'[old] = events[old]
BY DEF RecordRejection, Put
----------------------------------------------------------------------------
(* The lifecycle: what is stored of a command follows the protocol, and    *)
(* agrees with its status and its result.                                  *)

HistoryInv == TypeOK /\ LifecycleConforms /\ ResultsMatchStatus

(* The paths a new request starts with.                                    *)
LEMMA NewPathsConform ==
  /\ IsLifecycle(<<"REQUESTED", "AUTHORIZED", "QUEUED">>)
  /\ IsLifecycle(<<"REQUESTED", "REJECTED">>)
<1>1. /\ CanTransition("REQUESTED", "AUTHORIZED")
      /\ CanTransition("AUTHORIZED", "QUEUED")
      /\ CanTransition("REQUESTED", "REJECTED")
  BY DEF CanTransition, Transitions
<1>2. ASSUME NEW path, path = <<"REQUESTED", "AUTHORIZED", "QUEUED">>
      PROVE  IsLifecycle(path)
  <2>1. /\ Len(path) = 3 /\ path # << >>
        /\ path[1] = "REQUESTED" /\ path[2] = "AUTHORIZED" /\ path[3] = "QUEUED"
    BY <1>2
  <2>2. \A i \in 1..(Len(path) - 1) : i = 1 \/ i = 2
    BY <2>1
  <2>. QED
    BY <1>1, <2>1, <2>2 DEF IsLifecycle
<1>3. IsLifecycle(<<"REQUESTED", "REJECTED">>)
  BY <1>1 DEF IsLifecycle
<1>. QED
  BY <1>2, <1>3

(* Going on along an allowed path keeps every history a lifecycle.         *)
LEMMA ContinuesConforms ==
  ASSUME HistoryInv, NEW ids, NEW status, NEW path, Continues(ids, status, path)
  PROVE  LifecycleConforms'
<1>1. PICK now : Advance(ids, status, path, now)
  BY DEF Continues
<1>2. /\ DOMAIN commands' = DOMAIN commands /\ DOMAIN events' = DOMAIN events
      /\ \A id \in DOMAIN events \ ids : events'[id] = events[id]
      /\ \A id \in DOMAIN commands \ ids : commands'[id] = commands[id]
      /\ \A id \in DOMAIN events \cap ids :
           events'[id].path = events[id].path \o path
  BY <1>1 DEF Advance
<1>3. \A id \in DOMAIN commands \cap ids : commands'[id].status = status
  <2>1. \A id \in DOMAIN commands : commands[id] \in CommandRow
    BY DEF HistoryInv, TypeOK, CommandsTypeOK
  <2>. QED
    BY <1>1, <2>1 DEF Advance, CommandRow
<1>4. ASSUME NEW id \in DOMAIN events \cap ids
      PROVE  /\ IsLifecycle(events'[id].path)
             /\ id \in DOMAIN commands
             /\ commands'[id].status = events'[id].path[Len(events'[id].path)]
  <2>. DEFINE old == events[id].path
  <2>1. id \in DOMAIN commands
    BY DEF Continues
  <2>2. /\ IsLifecycle(old) /\ old \in Seq(LifecycleState)
        /\ commands[id].status = old[Len(old)]
    BY <2>1 DEF HistoryInv, LifecycleConforms, TypeOK, CommandsTypeOK, EventRow
  <2>3. Follows(old[Len(old)], path) /\ path[Len(path)] = status
    BY <2>2 DEF Continues
  <2>. HIDE DEF old
  <2>4. IsLifecycle(old \o path) /\ (old \o path)[Len(old \o path)] = status
    BY <2>2, <2>3, LifecycleGoesOn
  <2>. QED
    BY <1>2, <1>3, <2>1, <2>4 DEF old
<1>5. ASSUME NEW id \in DOMAIN events'
      PROVE  /\ IsLifecycle(events'[id].path)
             /\ id \in DOMAIN commands'
                  => commands'[id].status = events'[id].path[Len(events'[id].path)]
             /\ id \notin DOMAIN commands'
                  => events'[id].path = <<"REQUESTED", "REJECTED">>
  <2>1. CASE id \in ids
    BY <1>2, <1>4, <2>1
  <2>2. CASE id \notin ids
    BY <1>2, <2>2 DEF HistoryInv, LifecycleConforms
  <2>. QED
    BY <2>1, <2>2
<1>. QED
  BY <1>5 DEF LifecycleConforms

(* What goes on was outstanding, so had no result; a result is stored with *)
(* the status it implies.                                                  *)
LEMMA ContinuesMatches ==
  ASSUME HistoryInv, NEW ids, NEW status, NEW path, Continues(ids, status, path),
         \/ status \notin ResultStatus /\ UNCHANGED results
         \/ \E id, observation : /\ ids = {id}
                                 /\ observation.result \in ResultCode
                                 /\ status = ResultStatusOf(observation.result)
                                 /\ results' = Put(results, id, observation)
  PROVE  ResultsMatchStatus'
<1>1. PICK now : Advance(ids, status, path, now)
  BY DEF Continues
<1>2. \A id \in DOMAIN commands : commands[id] \in CommandRow
  BY DEF HistoryInv, TypeOK, CommandsTypeOK
<1>3. /\ DOMAIN commands' = DOMAIN commands
      /\ \A id \in DOMAIN commands \ ids : commands'[id].status = commands[id].status
      /\ \A id \in DOMAIN commands \cap ids : commands'[id].status = status
  BY <1>1, <1>2 DEF Advance, CommandRow
<1>4. \A id \in ids : id \notin DOMAIN results
  <2>1. \A code \in ResultCode : ResultStatusOf(code) \notin Outstanding
    BY DEF ResultCode, ResultStatusOf, Outstanding
  <2>2. \A id \in DOMAIN results : results[id].result \in ResultCode
    BY TransportAssumption DEF HistoryInv, TypeOK, TransportTypeOK
  <2>. QED
    BY <2>1, <2>2 DEF Continues, HistoryInv, ResultsMatchStatus, IsOutstanding
<1>5. CASE status \notin ResultStatus /\ UNCHANGED results
  BY <1>3, <1>4, <1>5 DEF HistoryInv, ResultsMatchStatus
<1>6. ASSUME NEW id, NEW observation, ids = {id},
             observation.result \in ResultCode,
             status = ResultStatusOf(observation.result),
             results' = Put(results, id, observation)
      PROVE  ResultsMatchStatus'
  <2>1. /\ DOMAIN results' = DOMAIN results \cup {id}
        /\ results'[id] = observation
        /\ \A old \in DOMAIN results : old # id => results'[old] = results[old]
    BY <1>6 DEF Put
  <2>2. ASSUME NEW c \in DOMAIN commands
        PROVE  IF c \in DOMAIN results'
                 THEN commands'[c].status = ResultStatusOf(results'[c].result)
                 ELSE commands'[c].status \notin ResultStatus
    BY <1>3, <1>6, <2>1 DEF HistoryInv, ResultsMatchStatus
  <2>. QED
    BY <1>3, <2>2 DEF ResultsMatchStatus
<1>. QED
  BY <1>5, <1>6

(* A new command begins its history; the old ones keep theirs.             *)
LEMMA IssueKeepsHistory ==
  ASSUME HistoryInv, UNCHANGED results, NEW actor, NEW key, NEW recipient,
         NEW replyTo, NEW id, NEW now, NEW began,
         Issue(actor, key, recipient, replyTo, id, now, began)
  PROVE  LifecycleConforms' /\ ResultsMatchStatus'
<1>1. id \notin DOMAIN events /\ id \notin DOMAIN commands /\ id \notin DOMAIN results
  BY IssueIsNew DEF HistoryInv
<1>2. ASSUME NEW device,
             RecordQueued(actor, key, recipient, replyTo, id, now, began, device)
      PROVE  LifecycleConforms' /\ ResultsMatchStatus'
  <2>. DEFINE new == <<"REQUESTED", "AUTHORIZED", "QUEUED">>
  <2>1. IsLifecycle(new) /\ new[Len(new)] = "QUEUED"
    BY NewPathsConform
  <2>2. /\ DOMAIN commands' = DOMAIN commands \cup {id}
        /\ DOMAIN events' = DOMAIN events \cup {id}
        /\ commands'[id].status = "QUEUED" /\ events'[id].path = new
        /\ \A old \in DOMAIN commands : commands'[old] = commands[old]
        /\ \A old \in DOMAIN events : events'[old] = events[old]
    BY <1>1, <1>2 DEF RecordQueued, Put
  <2>. HIDE DEF new
  <2>3. LifecycleConforms'
    BY <1>1, <2>1, <2>2 DEF HistoryInv, LifecycleConforms
  <2>4. ResultsMatchStatus'
    BY <1>1, <2>2 DEF HistoryInv, ResultsMatchStatus, ResultStatus
  <2>. QED
    BY <2>3, <2>4
<1>3. ASSUME NEW reason,
             RecordRejection(actor, key, recipient, replyTo, id, now, began, reason)
      PROVE  LifecycleConforms' /\ ResultsMatchStatus'
  <2>1. /\ UNCHANGED commands
        /\ DOMAIN events' = DOMAIN events \cup {id}
        /\ events'[id].path = <<"REQUESTED", "REJECTED">>
        /\ \A old \in DOMAIN events : events'[old] = events[old]
    BY <1>1, <1>3, RejectionAddsNone
  <2>2. LifecycleConforms'
    BY <1>1, <2>1, NewPathsConform DEF HistoryInv, LifecycleConforms
  <2>3. ResultsMatchStatus'
    BY <2>1 DEF HistoryInv, ResultsMatchStatus
  <2>. QED
    BY <2>2, <2>3
<1>. QED
  BY <1>2, <1>3, IssueIsNew DEF HistoryInv

(* Every handler keeps histories legal and results beside their status.    *)
LEMMA HistoryStep == HistoryInv /\ [Next]_vars => HistoryInv'
<1>. SUFFICES ASSUME HistoryInv, [Next]_vars PROVE HistoryInv'
  OBVIOUS
<1>1. TypeOK'
  BY StepType DEF HistoryInv
<1>2. CASE Eject
  <2>1. UNCHANGED results
    BY <1>2 DEF Eject, transportVars
  <2>2. CASE UNCHANGED commandVars
    BY <1>1, <2>1, <2>2 DEF HistoryInv, LifecycleConforms, ResultsMatchStatus,
       commandVars
  <2>. QED
    BY <1>1, <1>2, <2>1, <2>2, EjectIssues, IssueKeepsHistory
       DEF HistoryInv, AnswerFromRecord
<1>3. CASE NothingHappens
  BY <1>1, <1>3 DEF HistoryInv, LifecycleConforms, ResultsMatchStatus,
     NothingHappens, commandVars
<1>4. CASE GoesOn
  BY <1>1, <1>4, ContinuesConforms, ContinuesMatches DEF HistoryInv, GoesOn
<1>5. CASE IsReported
  <2>1. \A observation \in Observation : observation.result \in ResultCode
    BY TransportAssumption
  <2>2. PICK id \in DOMAIN commands, observation \in Observation :
          /\ Continues({id}, ResultStatusOf(observation.result),
                       ResultPath(observation.result))
          /\ results' = Put(results, id, observation)
    BY <1>5 DEF IsReported
  <2>3. LifecycleConforms'
    BY <2>2, ContinuesConforms
  <2>4. ResultsMatchStatus'
    BY <2>1, <2>2, ContinuesMatches
  <2>. QED
    BY <1>1, <2>3, <2>4 DEF HistoryInv
<1>. QED
  BY <1>2, <1>3, <1>4, <1>5, HandlersGoOn DEF HistoryInv

(* At first there is no command.                                           *)
LEMMA HistoryInit == Init => HistoryInv
BY InitType DEF HistoryInv, Init, CommandsInit, LifecycleConforms,
   ResultsMatchStatus

(* The invariant of event histories and results, of which the next         *)
(* theorems are consequences, in every reachable state.                    *)
THEOREM HistoryIsInductive == Spec => []HistoryInv
<1>. QED
  BY HistoryInit, HistoryStep, PTL DEF Spec

(* Whatever handlers interleave, what is stored of a request is a          *)
(* lifecycle of the protocol and ends in its command's status.             *)
THEOREM HistoriesFollowTheProtocol == Spec => []LifecycleConforms
<1>1. HistoryInv => LifecycleConforms
  BY DEF HistoryInv
<1>. QED
  BY <1>1, HistoryIsInductive, PTL

(* A result is stored for exactly the commands whose status says so.       *)
THEOREM ResultsAreTruthful == Spec => []ResultsMatchStatus
<1>1. HistoryInv => ResultsMatchStatus
  BY DEF HistoryInv
<1>. QED
  BY <1>1, HistoryIsInductive, PTL

(* No handler, however late, changes a command that ended or its history.  *)
THEOREM EndedStaysEnded == Spec => EndedIsFinal
<1>. DEFINE Untouched(id) == commands'[id] = commands[id] /\ events'[id] = events[id]
            Final == \A id \in DOMAIN commands : ~IsOutstanding(id) => Untouched(id)
<1>1. ASSUME TypeOK, [Next]_vars PROVE Final
  <2>1. CASE Eject
    <3>1. ASSUME NEW actor, NEW key, NEW recipient, NEW replyTo, NEW id,
                 NEW now, NEW began,
                 Issue(actor, key, recipient, replyTo, id, now, began)
          PROVE  Final
      <4>1. /\ id \notin DOMAIN commands /\ id \notin DOMAIN events
            /\ DOMAIN commands \subseteq DOMAIN events
        BY <1>1, <3>1, IssueIsNew DEF TypeOK, CommandsTypeOK
      <4>2. ASSUME NEW device, RecordQueued(actor, key, recipient, replyTo, id,
                                            now, began, device)
            PROVE  Final
        BY <4>1, <4>2 DEF RecordQueued, Put
      <4>3. ASSUME NEW reason, RecordRejection(actor, key, recipient, replyTo,
                                               id, now, began, reason)
            PROVE  Final
        BY <4>1, <4>3 DEF RecordRejection, Put
      <4>. HIDE DEF Final
      <4>. QED
        BY <3>1, <4>2, <4>3 DEF Issue
    <3>2. CASE UNCHANGED commandVars
      BY <3>2 DEF commandVars
    <3>. HIDE DEF Final
    <3>. QED
      BY <1>1, <2>1, <3>1, <3>2, EjectIssues DEF AnswerFromRecord
  <2>2. CASE NothingHappens
    BY <2>2 DEF NothingHappens, commandVars
  <2>3. ASSUME NEW ids, NEW status, NEW path, Continues(ids, status, path)
        PROVE  Final
    BY <1>1, <2>3 DEF Continues, Advance, TypeOK, CommandsTypeOK
  <2>. HIDE DEF Final
  <2>. QED
    BY <1>1, <2>1, <2>2, <2>3, HandlersGoOn DEF GoesOn, IsReported
<1>2. TypeOK /\ [Next]_vars
        => [\A id \in DOMAIN commands :
              ~IsOutstanding(id) => /\ commands'[id] = commands[id]
                                    /\ events'[id] = events[id]]_vars
  BY <1>1
<1>. QED
  BY <1>2, TypeCorrect, PTL DEF Spec, EndedIsFinal
----------------------------------------------------------------------------
(* Requests: one command, or one rejection, to each.                       *)

(* A request's identifier is used up: its events are stored.               *)
RequestsAreRecorded ==
  \A slot \in DOMAIN requests : requests[slot].id \in DOMAIN events

RequestInv == TypeOK /\ OneCommandPerRequest /\ RequestsAreRecorded

(* Nothing but an eject request records events under a new identifier.     *)
LEMMA HandlersKeepIds ==
  ASSUME TypeOK, [Next]_vars, ~Eject
  PROVE  DOMAIN events' = DOMAIN events
<1>1. ASSUME NEW ids, NEW status, NEW path, Continues(ids, status, path)
      PROVE  DOMAIN events' = DOMAIN events
  BY <1>1 DEF Continues, Advance
<1>. QED
  BY <1>1, HandlersGoOn DEF GoesOn, IsReported, NothingHappens, commandVars

(* The request a command answers to.                                       *)
AnswersTo(id, slot) ==
  /\ requests[slot].id = id
  /\ requests[slot].outcome = "QUEUED"
  /\ slot[1] = commands[id].actor
  /\ requests[slot].recipient = commands[id].recipient
  /\ requests[slot].replyTo = commands[id].replyTo

(* A command that stays as it was still answers to its request.            *)
LEMMA OldAnswers ==
  ASSUME OneCommandPerRequest, NEW id \in DOMAIN commands,
         commands'[id] = commands[id],
         \A a \in DOMAIN requests :
           a \in DOMAIN requests' /\ requests'[a] = requests[a]
  PROVE  \E a \in DOMAIN requests' : AnswersTo(id, a)'
<1>1. PICK a \in DOMAIN requests : AnswersTo(id, a)
  BY DEF OneCommandPerRequest, AnswersTo
<1>2. AnswersTo(id, a)'
  BY <1>1 DEF AnswersTo
<1>. QED
  BY <1>2

(* A request that was not known records itself with its one command.       *)
LEMMA IssueKeepsRequests ==
  ASSUME RequestInv, NEW actor, NEW key, NEW recipient,
         NEW replyTo, NEW id, NEW now, NEW began,
         Issue(actor, key, recipient, replyTo, id, now, began)
  PROVE  OneCommandPerRequest' /\ RequestsAreRecorded'
<1>. DEFINE slot == <<actor, key>>
<1>1. /\ id \notin DOMAIN events /\ id \notin DOMAIN commands
      /\ slot \notin DOMAIN requests
  BY IssueIsNew DEF RequestInv
<1>2. ASSUME NEW outcome,
             RecordRequest(actor, key, recipient, replyTo, outcome, id),
             DOMAIN events' = DOMAIN events \cup {id}
      PROVE  /\ \A a, b \in DOMAIN requests' :
                  requests'[a].id = requests'[b].id => a = b
             /\ RequestsAreRecorded'
             /\ \A a \in DOMAIN requests :
                  a \in DOMAIN requests' /\ requests'[a] = requests[a]
             /\ slot \in DOMAIN requests'
             /\ requests'[slot] = [recipient |-> recipient, replyTo |-> replyTo,
                                   outcome |-> outcome, id |-> id]
  <2>1. /\ DOMAIN requests' = DOMAIN requests \cup {slot}
        /\ requests'[slot] = [recipient |-> recipient, replyTo |-> replyTo,
                              outcome |-> outcome, id |-> id]
        /\ \A a \in DOMAIN requests : requests'[a] = requests[a]
    BY <1>1, <1>2 DEF RecordRequest, Put
  <2>. HIDE DEF slot
  <2>2. \A a \in DOMAIN requests : requests[a].id # id
    BY <1>1 DEF RequestInv, RequestsAreRecorded
  <2>. QED
    BY <1>1, <1>2, <2>1, <2>2
       DEF RequestInv, OneCommandPerRequest, RequestsAreRecorded
<1>3. ASSUME NEW device,
             RecordQueued(actor, key, recipient, replyTo, id, now, began, device)
      PROVE  OneCommandPerRequest' /\ RequestsAreRecorded'
  <2>1. /\ DOMAIN commands' = DOMAIN commands \cup {id}
        /\ \A old \in DOMAIN commands : commands'[old] = commands[old]
        /\ commands'[id].actor = actor /\ commands'[id].recipient = recipient
        /\ commands'[id].replyTo = replyTo
        /\ DOMAIN events' = DOMAIN events \cup {id}
        /\ RecordRequest(actor, key, recipient, replyTo, "QUEUED", id)
    BY <1>1, <1>3 DEF RecordQueued, Put
  <2>2. slot[1] = actor
    OBVIOUS
  <2>. HIDE DEF slot
  <2>3. /\ \A a, b \in DOMAIN requests' :
             requests'[a].id = requests'[b].id => a = b
        /\ RequestsAreRecorded'
        /\ slot \in DOMAIN requests'
        /\ requests'[slot] = [recipient |-> recipient, replyTo |-> replyTo,
                              outcome |-> "QUEUED", id |-> id]
        /\ \A a \in DOMAIN requests :
             a \in DOMAIN requests' /\ requests'[a] = requests[a]
    BY <1>2, <2>1
  <2>4. AnswersTo(id, slot)'
    BY <2>1, <2>2, <2>3 DEF AnswersTo
  <2>5. \A old \in DOMAIN commands :
          \E a \in DOMAIN requests' : AnswersTo(old, a)'
    BY <2>1, <2>3, OldAnswers DEF RequestInv
  <2>6. \A c \in DOMAIN commands' : \E a \in DOMAIN requests' : AnswersTo(c, a)'
    BY <2>1, <2>3, <2>4, <2>5
  <2>. QED
    BY <2>3, <2>6 DEF OneCommandPerRequest, AnswersTo
<1>4. ASSUME NEW reason,
             RecordRejection(actor, key, recipient, replyTo, id, now, began, reason)
      PROVE  OneCommandPerRequest' /\ RequestsAreRecorded'
  <2>1. /\ UNCHANGED commands
        /\ DOMAIN events' = DOMAIN events \cup {id}
        /\ RecordRequest(actor, key, recipient, replyTo, reason, id)
    BY <1>4 DEF RecordRejection, Put
  <2>. HIDE DEF slot
  <2>2. /\ \A a, b \in DOMAIN requests' :
             requests'[a].id = requests'[b].id => a = b
        /\ RequestsAreRecorded'
        /\ \A a \in DOMAIN requests :
             a \in DOMAIN requests' /\ requests'[a] = requests[a]
    BY <1>2, <2>1
  <2>3. \A c \in DOMAIN commands' : \E a \in DOMAIN requests' : AnswersTo(c, a)'
    BY <2>1, <2>2, OldAnswers DEF RequestInv
  <2>. QED
    BY <2>2, <2>3 DEF OneCommandPerRequest, AnswersTo
<1>. QED
  BY <1>3, <1>4 DEF Issue

(* Every handler keeps one command per request.                            *)
LEMMA RequestStep == RequestInv /\ [Next]_vars => RequestInv'
<1>. SUFFICES ASSUME RequestInv, [Next]_vars PROVE RequestInv'
  OBVIOUS
<1>1. TypeOK'
  BY StepType DEF RequestInv
<1>2. CASE Eject
  <2>1. CASE UNCHANGED <<requests, commandVars>>
    BY <1>1, <2>1 DEF RequestInv, OneCommandPerRequest, RequestsAreRecorded,
       commandVars
  <2>. QED
    BY <1>1, <1>2, <2>1, EjectIssues, IssueKeepsRequests
       DEF RequestInv, AnswerFromRecord
<1>3. CASE ~Eject
  <2>1. UNCHANGED requests /\ DOMAIN events' = DOMAIN events
    BY <1>3, HandlersGoOn, HandlersKeepIds DEF RequestInv
  <2>2. CommandsOnlySettle
    BY <1>3, HandlersSettle DEF RequestInv
  <2>. QED
    BY <1>1, <2>1, <2>2 DEF RequestInv, OneCommandPerRequest,
       RequestsAreRecorded, CommandsOnlySettle
<1>. QED
  BY <1>2, <1>3

(* At first there is no request.                                           *)
LEMMA RequestInit == Init => RequestInv
BY InitType DEF RequestInv, Init, CommandsInit, RequestsInit,
   OneCommandPerRequest, RequestsAreRecorded

(* A request that is retried, however often and under whatever races,      *)
(* never has a second command, and no command is without its request.      *)
THEOREM RequestsAreIdempotent == Spec => []OneCommandPerRequest
<1>1. RequestInv => OneCommandPerRequest
  BY DEF RequestInv
<1>. QED
  BY <1>1, RequestInit, RequestStep, PTL DEF Spec
----------------------------------------------------------------------------
(* Eject backs: a command earns one, for its recipient, at most.           *)

ReplyInv == TypeOK /\ EjectBackIsOnce

(* Only issuing replies, to a command that has no reply yet.               *)
LEMMA ReplyStep == ReplyInv /\ [Next]_vars => ReplyInv'
<1>. SUFFICES ASSUME ReplyInv, [Next]_vars PROVE ReplyInv'
  OBVIOUS
<1>1. TypeOK'
  BY StepType DEF ReplyInv
<1>2. CASE CommandsOnlySettle
  BY <1>1, <1>2 DEF ReplyInv, EjectBackIsOnce, CommandsOnlySettle
<1>3. ASSUME NEW actor, NEW key, NEW recipient, NEW replyTo, NEW id,
             NEW now, NEW began,
             Issue(actor, key, recipient, replyTo, id, now, began)
      PROVE  ReplyInv'
  <2>. DEFINE facts == Facts(actor, recipient, replyTo, now, began)
  <2>1. id \notin DOMAIN commands
    BY <1>3, IssueIsNew DEF ReplyInv
  <2>2. ASSUME AuthorizeEject(facts, now) = "AUTHORIZED",
               NEW device,
               RecordQueued(actor, key, recipient, replyTo, id, now, began, device)
        PROVE  ReplyInv'
    <3>1. /\ DOMAIN commands' = DOMAIN commands \cup {id}
          /\ \A old \in DOMAIN commands : commands'[old] = commands[old]
          /\ commands'[id].actor = actor /\ commands'[id].recipient = recipient
          /\ commands'[id].replyTo = replyTo
      BY <2>1, <2>2 DEF RecordQueued, Put
    <3>2. replyTo # None => EjectBackValid(actor, recipient, replyTo)
      <4>1. HasAccess(facts)
        BY <2>2, AuthorizedMeans
      <4>2. /\ facts.ejectBack = (replyTo # None)
            /\ facts.ejectBackValid = EjectBackValid(actor, recipient, replyTo)
        BY DEF Facts
      <4>. HIDE DEF facts
      <4>. QED
        BY <4>1, <4>2 DEF HasAccess
    <3>. HIDE DEF facts
    <3>. QED
      BY <1>1, <2>1, <3>1, <3>2 DEF ReplyInv, EjectBackIsOnce, EjectBackValid
  <2>3. CASE UNCHANGED commands
    BY <1>2, <2>3 DEF CommandsOnlySettle
  <2>. HIDE DEF facts
  <2>. QED
    BY <1>3, <2>2, <2>3 DEF Issue, RecordRejection, facts
<1>4. CASE Eject
  BY <1>2, <1>3, <1>4, EjectIssues, UnchangedSettles DEF ReplyInv, AnswerFromRecord
<1>. QED
  BY <1>2, <1>4, HandlersSettle DEF ReplyInv

(* At first there is no command to reply to.                               *)
LEMMA ReplyInit == Init => ReplyInv
BY InitType DEF ReplyInv, Init, CommandsInit, EjectBackIsOnce

(* Whatever eject requests interleave, no command is replied to twice, and *)
(* only its recipient replies, to its actor.                               *)
THEOREM RepliesAreEarnedOnce == Spec => []EjectBackIsOnce
<1>1. ReplyInv => EjectBackIsOnce
  BY DEF ReplyInv
<1>. QED
  BY <1>1, ReplyInit, ReplyStep, PTL DEF Spec
----------------------------------------------------------------------------
(* Cooldown and quotas.                                                    *)

(* The rows behind every command: its windows reach past its issue time,   *)
(* and the cooldown it started is still on record.                         *)
RowsCoverCommands ==
  \A id \in DOMAIN commands :
    LET row    == commands[id]
        theirs == recipientState[row.recipient]
        mine   == senderState[row.actor]
    IN  /\ row.recipient \in DOMAIN recipientState
        /\ row.actor \in DOMAIN senderState
        /\ row.issuedAt < theirs.window + Hour
        /\ row.issuedAt < mine.window + Hour
        /\ row.issuedAt + policies[row.recipient].cooldown
             <= theirs.cooldownUntil

(* Only a recipient with a policy, hence a ceiling, has accepted anything. *)
CountedHavePolicies ==
  \A p \in DOMAIN recipientState :
    recipientState[p].accepted > 0 => p \in DOMAIN policies

MeteredInv ==
  /\ TypeOK
  /\ RecipientsHavePolicies
  /\ IsFiniteSet(DOMAIN commands)
  /\ RowsCoverCommands
  /\ CountedHavePolicies
  /\ CooldownSeparates
  /\ QuotasHold

(* Rows already there stay, and a new one has counted nothing.             *)
RowsStay ==
  /\ \A p \in DOMAIN recipientState :
       p \in DOMAIN recipientState' /\ recipientState'[p] = recipientState[p]
  /\ \A p \in DOMAIN recipientState' \ DOMAIN recipientState :
       recipientState'[p].accepted = 0
  /\ \A p \in DOMAIN senderState :
       p \in DOMAIN senderState' /\ senderState'[p] = senderState[p]
  /\ \A p \in DOMAIN senderState' \ DOMAIN senderState :
       senderState'[p].accepted = 0

(* A policy, once there, keeps its limits.                                 *)
PoliciesStay ==
  \A p \in DOMAIN policies :
    /\ p \in DOMAIN policies'
    /\ policies'[p].cooldown = policies[p].cooldown
    /\ policies'[p].hourlyLimit = policies[p].hourlyLimit

(* Ensuring that rows of the exposure state exist changes none that does.  *)
LEMMA EnsureKeepsRows ==
  ASSUME NEW recipient, NEW at, EnsureRecipientState(recipient, at),
         \/ UNCHANGED senderState
         \/ \E actor, now : senderState' = PutIfAbsent(senderState, actor,
                                                       NewSenderState(now))
  PROVE  RowsStay
<1>1. /\ \A p \in DOMAIN recipientState :
           p \in DOMAIN recipientState' /\ recipientState'[p] = recipientState[p]
      /\ \A p \in DOMAIN recipientState' \ DOMAIN recipientState :
           recipientState'[p].accepted = 0
  BY DEF EnsureRecipientState, PutIfAbsent, Put, NewRecipientState
<1>2. ASSUME NEW actor, NEW now,
             senderState' = PutIfAbsent(senderState, actor, NewSenderState(now))
      PROVE  /\ \A p \in DOMAIN senderState :
                  p \in DOMAIN senderState' /\ senderState'[p] = senderState[p]
             /\ \A p \in DOMAIN senderState' \ DOMAIN senderState :
                  senderState'[p].accepted = 0
  BY <1>2 DEF PutIfAbsent, Put, NewSenderState
<1>. QED
  BY <1>1, <1>2 DEF RowsStay

(* A policy made by default replaces none.                                 *)
LEMMA DefaultsKeepPolicies ==
  ASSUME NEW recipient, policies' = PutIfAbsent(policies, recipient, DefaultPolicy)
  PROVE  PoliciesStay
BY DEF PoliciesStay, PutIfAbsent, Put

(* Pausing changes no limit.                                               *)
LEMMA PauseKeepsPolicies ==
  ASSUME TypeOK, NEW recipient, NEW paused,
         policies' = Put(policies, recipient,
                         [PutIfAbsent(policies, recipient, DefaultPolicy)[recipient]
                            EXCEPT !.paused = paused])
  PROVE  PoliciesStay
<1>. DEFINE old == PutIfAbsent(policies, recipient, DefaultPolicy)[recipient]
<1>1. recipient \in DOMAIN policies
        => old = policies[recipient] /\ old \in PolicyRow
  BY DEF PutIfAbsent, TypeOK, PermissionsTypeOK
<1>. HIDE DEF old
<1>2. /\ DOMAIN policies' = DOMAIN policies \cup {recipient}
      /\ policies'[recipient] = [old EXCEPT !.paused = paused]
      /\ \A p \in DOMAIN policies \ {recipient} : policies'[p] = policies[p]
  BY DEF Put, old
<1>. QED
  BY <1>1, <1>2 DEF PoliciesStay, PolicyRow

(* No handler but an eject request touches a counter, a cooldown or a      *)
(* limit.                                                                  *)
LEMMA HandlersKeepRows ==
  ASSUME TypeOK, [Next]_vars, ~Eject
  PROVE  RowsStay /\ PoliciesStay
<1>1. ASSUME UNCHANGED exposureVars PROVE RowsStay
  BY <1>1 DEF exposureVars, RowsStay
<1>2. ASSUME UNCHANGED policies PROVE PoliciesStay
  BY <1>2 DEF PoliciesStay
<1>3. CASE Pause
  BY <1>3, EnsureKeepsRows, PauseKeepsPolicies DEF Pause, SetPaused
<1>4. CASE Grant
  BY <1>4, EnsureKeepsRows, DefaultsKeepPolicies DEF Grant, GiveGrant, RevokeGrant
<1>5. CASE Relationship
  <2>1. PICK now \in Recent, removed \in SUBSET DOMAIN invitations :
          \/ \E person \in Person, code \in Code :
               \/ CreateInvitation(person, code, now, removed)
               \/ AcceptInvitation(person, code, now, removed)
               \/ RefuseAcceptance(person, code, now, removed)
          \/ \E person \in Person : RefuseInvitation(person, now, removed)
          \/ CleanupInvitations(now, removed)
    BY <1>5 DEF Relationship
  <2>2. UNCHANGED <<policies, exposureVars>>
    BY <2>1 DEF CreateInvitation, AcceptInvitation, RefuseAcceptance,
       RefuseInvitation, CleanupInvitations
  <2>. QED
    BY <1>1, <1>2, <2>2
<1>6. CASE Disconnect
  <2>1. PICK person, other, now : DisconnectRelationship(person, other, now)
    BY <1>6 DEF Disconnect
  <2>2. RowsStay
    BY <2>1 DEF DisconnectRelationship, RowsStay, PutIfAbsent, Put,
       NewRecipientState
  <2>. QED
    BY <1>2, <2>1, <2>2 DEF DisconnectRelationship
<1>7. CASE Enroll \/ Revoke \/ Agent \/ OperateAccounts \/ OperateDevices \/ Time
  BY <1>1, <1>2, <1>7 DEF Enroll, Revoke, Agent, OperateAccounts,
     OperateDevices, Time, permissionVars
<1>8. CASE UNCHANGED vars
  BY <1>1, <1>2, <1>8 DEF vars, permissionVars
<1>. QED
  BY <1>3, <1>4, <1>5, <1>6, <1>7, <1>8 DEF Next

(* The commands a counter meters.                                          *)
Received(p, since) ==
  {id \in DOMAIN commands : commands[id].recipient = p /\ commands[id].issuedAt >= since}
Sent(p, since) ==
  {id \in DOMAIN commands : commands[id].actor = p /\ commands[id].issuedAt >= since}

RecipientQuota(p) ==
  /\ Cardinality(Received(p, recipientState[p].window)) <= recipientState[p].accepted
  /\ recipientState[p].accepted > 0 => recipientState[p].accepted <= Ceiling(p)
SenderQuota(p) ==
  /\ Cardinality(Sent(p, senderState[p].window)) <= senderState[p].accepted
  /\ senderState[p].accepted <= SenderLimit

PersonalQuotas ==
  /\ \A p \in DOMAIN recipientState : RecipientQuota(p)
  /\ \A p \in DOMAIN senderState : SenderQuota(p)

(* The quotas hold if they hold of every single person.                    *)
LEMMA QuotasArePersonal == QuotasHold <=> PersonalQuotas
BY DEF QuotasHold, PersonalQuotas, RecipientQuota, SenderQuota, Received, Sent

(* Where no command is added and rows and limits stay, the counts hold.    *)
LEMMA SettleKeepsMetered ==
  ASSUME MeteredInv, TypeOK', RecipientsHavePolicies', CommandsOnlySettle,
         RowsStay, PoliciesStay
  PROVE  MeteredInv'
<1>1. IsFiniteSet(DOMAIN commands')
  BY DEF MeteredInv, CommandsOnlySettle
<1>2. RowsCoverCommands'
  BY DEF MeteredInv, RowsCoverCommands, RecipientsHavePolicies,
         CommandsOnlySettle, RowsStay, PoliciesStay
<1>3. CountedHavePolicies'
  BY DEF MeteredInv, CountedHavePolicies, RowsStay, PoliciesStay
<1>4. CooldownSeparates'
  BY DEF MeteredInv, CooldownSeparates, RecipientsHavePolicies,
         CommandsOnlySettle, PoliciesStay
<1>5. \A p, since : /\ Received(p, since)' = Received(p, since)
                    /\ Sent(p, since)' = Sent(p, since)
  BY DEF CommandsOnlySettle, Received, Sent
<1>6. ASSUME NEW p \in DOMAIN recipientState' PROVE RecipientQuota(p)'
  <2>1. CASE p \in DOMAIN recipientState
    <3>1. recipientState'[p] = recipientState[p]
      BY <2>1 DEF RowsStay
    <3>2. RecipientQuota(p)
      BY <2>1, QuotasArePersonal DEF MeteredInv, PersonalQuotas
    <3>3. recipientState[p].accepted > 0 => Ceiling(p)' = Ceiling(p)
      BY <2>1 DEF MeteredInv, CountedHavePolicies, PoliciesStay, Ceiling
    <3>. QED
      BY <1>5, <3>1, <3>2, <3>3 DEF RecipientQuota
  <2>2. CASE p \notin DOMAIN recipientState
    <3>1. recipientState'[p].accepted = 0
      BY <2>2 DEF RowsStay
    <3>2. \A since : Received(p, since) = {}
      BY <2>2 DEF Received, MeteredInv, RowsCoverCommands
    <3>3. Cardinality(Received(p, recipientState[p].window)') = 0
      BY <1>5, <3>2, FS_EmptySet
    <3>. QED
      BY <3>1, <3>3 DEF RecipientQuota
  <2>. QED
    BY <2>1, <2>2
<1>7. ASSUME NEW p \in DOMAIN senderState' PROVE SenderQuota(p)'
  <2>1. CASE p \in DOMAIN senderState
    <3>1. senderState'[p] = senderState[p]
      BY <2>1 DEF RowsStay
    <3>2. SenderQuota(p)
      BY <2>1, QuotasArePersonal DEF MeteredInv, PersonalQuotas
    <3>. QED
      BY <1>5, <3>1, <3>2 DEF SenderQuota
  <2>2. CASE p \notin DOMAIN senderState
    <3>1. senderState'[p].accepted = 0
      BY <2>2 DEF RowsStay
    <3>2. \A since : Sent(p, since) = {}
      BY <2>2 DEF Sent, MeteredInv, RowsCoverCommands
    <3>3. Cardinality(Sent(p, senderState[p].window)') = 0
      BY <1>5, <3>2, FS_EmptySet
    <3>. QED
      BY <3>1, <3>3, HourAssumption DEF SenderQuota
  <2>. QED
    BY <2>1, <2>2
<1>8. QuotasHold'
  <2>1. PersonalQuotas'
    BY <1>6, <1>7 DEF PersonalQuotas
  <2>. QED
    BY <2>1, QuotasArePersonal, PTL
<1>. QED
  BY <1>1, <1>2, <1>3, <1>4, <1>8 DEF MeteredInv

(* A counter of the commands S, issued at these times.                     *)
CountsIn(S, at, window, accepted) ==
  /\ Cardinality({c \in S : at[c] >= window}) <= accepted
  /\ \A c \in S : at[c] < window + Hour

(* The same with a new command counted, whether the counter can tell that  *)
(* it was issued in the window or not.                                     *)
CountsNew(S, at, new, now, window, accepted) ==
  /\ \A T : T \subseteq {c \in S : at[c] >= window} \cup {new}
              => Cardinality(T) <= accepted
  /\ \A c \in S : at[c] < window + Hour
  /\ now < window + Hour

(* What CountAccepted makes of a window and its count.                     *)
Counted(window, accepted, now, window2, accepted2) ==
  /\ window2 \in Nat /\ accepted2 \in Nat
  /\ IF window + Hour <= now
       THEN window2 = now /\ accepted2 = 1
       ELSE window2 = window /\ accepted2 = accepted + 1

(* A counter that covers the commands of its window covers one more after  *)
(* counting it, also where the window starts again.                        *)
LEMMA CountingOneMore ==
  ASSUME NEW S, IsFiniteSet(S), NEW at \in [S -> Nat], NEW new, NEW now \in Nat,
         NEW window \in Nat, NEW accepted \in Nat, NEW window2, NEW accepted2,
         CountsIn(S, at, window, accepted),
         Counted(window, accepted, now, window2, accepted2)
  PROVE  CountsNew(S, at, new, now, window2, accepted2)
<1>. USE DEF CountsIn, Counted
<1>. DEFINE Since(w) == {c \in S : at[c] >= w}
<1>0. Hour \in Nat \ {0}
  BY HourAssumption
<1>1. \A w : IsFiniteSet(Since(w))
  BY FS_Subset
<1>2. Cardinality(Since(window2)) + 1 <= accepted2
  <2>1. CASE window + Hour <= now
    <3>1. Since(window2) = {}
      BY <1>0, <2>1
    <3>2. Cardinality(Since(window2)) = 0
      BY <3>1, FS_EmptySet
    <3>. HIDE DEF Since
    <3>. QED
      BY <2>1, <3>2
  <2>2. CASE ~(window + Hour <= now)
    <3>1. Cardinality(Since(window)) \in Nat
      BY <1>1, FS_CardinalityType
    <3>2. Cardinality(Since(window)) <= accepted
      OBVIOUS
    <3>. HIDE DEF Since
    <3>. QED
      BY <2>2, <3>1, <3>2
  <2>. QED
    BY <2>1, <2>2
<1>3. ASSUME NEW T, T \subseteq Since(window2) \cup {new}
      PROVE  Cardinality(T) <= accepted2
  <2>. DEFINE U == Since(window2)
  <2>1. IsFiniteSet(U) /\ Cardinality(U) + 1 <= accepted2 /\ T \subseteq U \cup {new}
    BY <1>1, <1>2, <1>3
  <2>. HIDE DEF U
  <2>2. Cardinality(U) \in Nat
    BY <2>1, FS_CardinalityType
  <2>3. /\ IsFiniteSet(U \cup {new})
        /\ Cardinality(U \cup {new}) = IF new \in U THEN Cardinality(U)
                                                    ELSE Cardinality(U) + 1
    BY <2>1, FS_AddElement, Zenon
  <2>4. Cardinality(T) <= Cardinality(U \cup {new}) /\ IsFiniteSet(T)
    BY <2>1, <2>3, FS_Subset
  <2>5. Cardinality(T) \in Nat /\ Cardinality(U \cup {new}) \in Nat
    BY <2>3, <2>4, FS_CardinalityType
  <2>. QED
    BY <2>1, <2>2, <2>3, <2>4, <2>5
<1>4. (\A c \in S : at[c] < window2 + Hour) /\ now < window2 + Hour
  BY <1>0
<1>. QED
  BY <1>3, <1>4 DEF CountsNew

(* What an authorized request met: the cooldown, and both limits.          *)
LEMMA AuthorizedIsMetered ==
  ASSUME NEW facts, NEW now, AuthorizeEject(facts, now) = "AUTHORIZED"
  PROVE  /\ ~(now < facts.cooldownUntil)
         /\ ~(facts.recipientAccepted >= EffectiveExposureLimit(facts.exposureCeilings))
         /\ ~(facts.senderAccepted >= facts.senderLimit)
BY DEF AuthorizeEject

(* The effective limit is one of the ceilings, and none is lower.          *)
LEMMA LimitIsLowest ==
  ASSUME NEW c, c.recipientSelected \in Nat, c.planEntitlement \in Nat,
         c.physicalSafety \in Nat
  PROVE  /\ EffectiveExposureLimit(c) \in Nat
         /\ EffectiveExposureLimit(c) <= c.recipientSelected
         /\ EffectiveExposureLimit(c) <= c.planEntitlement
         /\ EffectiveExposureLimit(c) <= c.physicalSafety
<1>. DEFINE values == {c.recipientSelected, c.planEntitlement, c.physicalSafety}
<1>1. \E v \in values : \A w \in values : v <= w
  BY SMT
<1>2. /\ EffectiveExposureLimit(c) \in values
      /\ \A w \in values : EffectiveExposureLimit(c) <= w
  BY <1>1, Zenon DEF EffectiveExposureLimit
<1>. QED
  BY <1>2

(* The rows an issuing transaction finds or makes, and what it leaves.     *)
TheirRow(recipient, began) ==
  PutIfAbsent(recipientState, recipient, NewRecipientState(began))[recipient]
MyRow(actor, now) ==
  PutIfAbsent(senderState, actor, NewSenderState(now))[actor]

(* The rows are typed, those that exist as they are, others at zero.       *)
LEMMA RowsFound ==
  ASSUME TypeOK, NEW actor, NEW recipient, NEW now \in Nat, NEW began \in Nat
  PROVE  /\ TheirRow(recipient, began) \in [window: Nat, accepted: Nat,
                                            cooldownUntil: Nat]
         /\ MyRow(actor, now) \in [window: Nat, accepted: Nat]
         /\ recipient \in DOMAIN recipientState
              => TheirRow(recipient, began) = recipientState[recipient]
         /\ recipient \notin DOMAIN recipientState
              => TheirRow(recipient, began).accepted = 0
         /\ actor \in DOMAIN senderState => MyRow(actor, now) = senderState[actor]
         /\ actor \notin DOMAIN senderState => MyRow(actor, now).accepted = 0
<1>1. /\ TheirRow(recipient, began) \in [window: Nat, accepted: Nat,
                                         cooldownUntil: Nat]
      /\ recipient \in DOMAIN recipientState
           => TheirRow(recipient, began) = recipientState[recipient]
      /\ recipient \notin DOMAIN recipientState
           => TheirRow(recipient, began).accepted = 0
  BY DEF TheirRow, PutIfAbsent, Put, NewRecipientState, TypeOK, ExposureTypeOK
<1>2. /\ MyRow(actor, now) \in [window: Nat, accepted: Nat]
      /\ actor \in DOMAIN senderState => MyRow(actor, now) = senderState[actor]
      /\ actor \notin DOMAIN senderState => MyRow(actor, now).accepted = 0
  BY DEF MyRow, PutIfAbsent, Put, NewSenderState, TypeOK, ExposureTypeOK
<1>. QED
  BY <1>1, <1>2

(* Counting in a row: the window it is left with, and the count.           *)
LEMMA CountedRow ==
  ASSUME NEW row \in [window: Nat, accepted: Nat, cooldownUntil: Nat]
                       \cup [window: Nat, accepted: Nat],
         NEW now \in Nat
  PROVE  LET counted == CountAccepted(row, now)
         IN  Counted(row.window, row.accepted, now, counted.window, counted.accepted)
BY HourAssumption DEF CountAccepted, WindowOver, Counted

(* Starting the cooldown leaves the count alone and sets its end.          *)
LEMMA CooledRow ==
  ASSUME NEW row \in [window: Nat, accepted: Nat, cooldownUntil: Nat],
         NEW now \in Nat, NEW cooldown \in Nat
  PROVE  LET counted == CountAccepted(row, now)
             cooled  == StartCooldown(counted, now, cooldown)
         IN  /\ cooled.window = counted.window
             /\ cooled.accepted = counted.accepted
             /\ cooled.cooldownUntil = now + cooldown
BY DEF CountAccepted, StartCooldown

(* What a queued command leaves in the tables, when it is authorized.      *)
Authorized(actor, recipient, replyTo, id, now, began) ==
  /\ id \notin DOMAIN commands
  /\ recipient \in DOMAIN policies
  /\ AuthorizeEject(Facts(actor, recipient, replyTo, now, began), now) = "AUTHORIZED"
  /\ UNCHANGED policies

(* The recipient's row counts the new command, and stays below the ceiling.*)
LEMMA QueueCountsReceived ==
  ASSUME MeteredInv, NEW actor, NEW key, NEW recipient, NEW replyTo, NEW id,
         NEW now \in Nat, NEW began \in Nat, NEW device,
         Authorized(actor, recipient, replyTo, id, now, began),
         RecordQueued(actor, key, recipient, replyTo, id, now, began, device)
  PROVE  /\ \A p \in DOMAIN recipientState' : RecipientQuota(p)'
         /\ \A c \in DOMAIN commands' :
              /\ commands'[c].recipient \in DOMAIN recipientState'
              /\ commands'[c].issuedAt
                   < recipientState'[commands'[c].recipient].window + Hour
<1>. DEFINE theirs == TheirRow(recipient, began)
            after  == recipientState'[recipient]
            S      == {c \in DOMAIN commands : commands[c].recipient = recipient}
            at     == [c \in S |-> commands[c].issuedAt]
<1>1. /\ DOMAIN commands' = DOMAIN commands \cup {id}
      /\ \A c \in DOMAIN commands : commands'[c] = commands[c]
      /\ commands'[id].recipient = recipient /\ commands'[id].issuedAt = now
  BY DEF RecordQueued, Put, Authorized
<1>2. /\ DOMAIN recipientState' = DOMAIN recipientState \cup {recipient}
      /\ \A p \in DOMAIN recipientState \ {recipient} :
           recipientState'[p] = recipientState[p]
      /\ after = StartCooldown(CountAccepted(theirs, now), now,
                               policies[recipient].cooldown)
  BY DEF RecordQueued, Put, TheirRow
<1>3. theirs \in [window: Nat, accepted: Nat, cooldownUntil: Nat]
  BY RowsFound DEF MeteredInv
<1>4. Counted(theirs.window, theirs.accepted, now, after.window, after.accepted)
  <2>1. policies[recipient].cooldown \in Nat
    BY DEF Authorized, MeteredInv, TypeOK, PermissionsTypeOK, PolicyRow
  <2>. DEFINE counted == CountAccepted(theirs, now)
  <2>. HIDE DEF theirs, after, S, at
  <2>2. after.window = counted.window /\ after.accepted = counted.accepted
    BY <1>2, <1>3, <2>1, CooledRow
  <2>3. Counted(theirs.window, theirs.accepted, now, counted.window, counted.accepted)
    BY <1>3, CountedRow
  <2>. HIDE DEF counted
  <2>. QED
    BY <2>2, <2>3
<1>5. IsFiniteSet(S) /\ at \in [S -> Nat]
  <2>1. \A c \in DOMAIN commands : commands[c].issuedAt \in Nat
    BY DEF MeteredInv, TypeOK, CommandsTypeOK, CommandRow
  <2>2. S \in SUBSET DOMAIN commands
    OBVIOUS
  <2>3. IsFiniteSet(S)
    BY <2>2, FS_Subset DEF MeteredInv
  <2>. QED
    BY <2>1, <2>3
<1>6. Cardinality({c \in S : at[c] >= theirs.window}) <= theirs.accepted
  <2>1. {c \in S : at[c] >= theirs.window} = Received(recipient, theirs.window)
    BY DEF Received
  <2>2. CASE recipient \in DOMAIN recipientState
    <3>1. theirs = recipientState[recipient]
      BY <2>2, RowsFound DEF MeteredInv
    <3>2. RecipientQuota(recipient)
      BY <2>2, QuotasArePersonal DEF MeteredInv, PersonalQuotas
    <3>. HIDE DEF theirs, S, at
    <3>. QED
      BY <2>1, <3>1, <3>2 DEF RecipientQuota
  <2>3. CASE recipient \notin DOMAIN recipientState
    <3>1. {c \in S : at[c] >= theirs.window} = {}
      BY <2>3 DEF MeteredInv, RowsCoverCommands
    <3>2. theirs.accepted = 0
      BY <2>3, RowsFound DEF MeteredInv
    <3>3. Cardinality({c \in S : at[c] >= theirs.window}) = 0
      BY <3>1, FS_EmptySet
    <3>. HIDE DEF theirs, S, at
    <3>. QED
      BY <3>2, <3>3
  <2>. QED
    BY <2>2, <2>3
<1>7. \A c \in S : at[c] < theirs.window + Hour
  <2>1. \A c \in S : /\ recipient \in DOMAIN recipientState
                     /\ commands[c].issuedAt < recipientState[recipient].window + Hour
    BY DEF MeteredInv, RowsCoverCommands
  <2>2. recipient \in DOMAIN recipientState => theirs = recipientState[recipient]
    BY RowsFound DEF MeteredInv
  <2>. HIDE DEF theirs
  <2>. QED
    BY <2>1, <2>2
<1>8. CountsNew(S, at, id, now, after.window, after.accepted)
  <2>1. theirs.window \in Nat /\ theirs.accepted \in Nat
    BY <1>3
  <2>2. CountsIn(S, at, theirs.window, theirs.accepted)
    BY <1>6, <1>7, Zenon DEF CountsIn
  <2>. HIDE DEF theirs, after, S, at
  <2>. QED
    BY <1>4, <1>5, <2>1, <2>2, CountingOneMore
<1>9. \A w : Received(recipient, w)' \subseteq {c \in S : at[c] >= w} \cup {id}
  BY <1>1 DEF Received
<1>10. after.accepted <= Ceiling(recipient)'
  <2>. DEFINE facts == Facts(actor, recipient, replyTo, now, began)
              c     == facts.exposureCeilings
  <2>1. /\ ~(facts.recipientAccepted >= EffectiveExposureLimit(c))
        /\ facts.recipientAccepted = AcceptedInWindow(theirs, now)
    <3>1. facts.recipientAccepted = AcceptedInWindow(theirs, now)
      BY DEF Facts, TheirRow
    <3>. HIDE DEF facts, theirs
    <3>. QED
      BY <3>1, AuthorizedIsMetered DEF Authorized, facts
  <2>2. /\ c.recipientSelected = policies[recipient].hourlyLimit
        /\ c.planEntitlement = IF now < PlanUntil[recipient]
                                 THEN PlanCeiling[recipient] ELSE 0
        /\ c.physicalSafety = PhysicalCeiling
        /\ c = [recipientSelected |-> policies[recipient].hourlyLimit,
                planEntitlement |-> IF now < PlanUntil[recipient]
                                      THEN PlanCeiling[recipient] ELSE 0,
                physicalSafety |-> PhysicalCeiling]
    BY DEF Facts
  <2>. HIDE DEF facts, c, theirs, after, S, at
  <2>3. /\ recipient \in Person
        /\ policies[recipient].hourlyLimit \in Nat
    BY DEF Authorized, MeteredInv, TypeOK, PermissionsTypeOK, PolicyRow
  <2>4. /\ c.recipientSelected \in Nat /\ c.planEntitlement \in Nat
        /\ c.physicalSafety \in Nat
    BY <2>2, <2>3, IssuanceAssumption
  <2>5. EffectiveExposureLimit(c) \in Nat /\ EffectiveExposureLimit(c) <= c.planEntitlement
    BY <2>4, LimitIsLowest
  <2>6. AcceptedInWindow(theirs, now) \in Nat
    BY <1>3 DEF AcceptedInWindow
  <2>7. now < PlanUntil[recipient]
    BY <2>1, <2>2, <2>5, <2>6
  <2>8. Ceiling(recipient)' = EffectiveExposureLimit(c)
    BY <2>2, <2>7 DEF Ceiling, Authorized
  <2>9. after.accepted = AcceptedInWindow(theirs, now) + 1
    BY <1>3, <1>4 DEF AcceptedInWindow, WindowOver, Counted
  <2>. QED
    BY <2>1, <2>5, <2>6, <2>8, <2>9
<1>11. ASSUME NEW p \in DOMAIN recipientState' PROVE RecipientQuota(p)'
  <2>1. CASE p = recipient
    <3>1. \A w : w = after.window
                   => Cardinality(Received(recipient, w)') <= after.accepted
      <4>. HIDE DEF after, S, at
      <4>. QED
        BY <1>8, <1>9 DEF CountsNew
    <3>. QED
      BY <1>10, <2>1, <3>1 DEF RecipientQuota
  <2>2. CASE p # recipient
    <3>1. p \in DOMAIN recipientState /\ recipientState'[p] = recipientState[p]
      BY <1>2, <2>2
    <3>2. \A since : Received(p, since)' = Received(p, since)
      BY <1>1, <2>2 DEF Received
    <3>3. Ceiling(p)' = Ceiling(p)
      BY DEF Ceiling, Authorized
    <3>4. RecipientQuota(p)
      BY <3>1, QuotasArePersonal DEF MeteredInv, PersonalQuotas
    <3>. QED
      BY <3>1, <3>2, <3>3, <3>4 DEF RecipientQuota
  <2>. QED
    BY <2>1, <2>2
<1>12. ASSUME NEW c \in DOMAIN commands'
       PROVE  /\ commands'[c].recipient \in DOMAIN recipientState'
              /\ commands'[c].issuedAt
                   < recipientState'[commands'[c].recipient].window + Hour
  <2>1. CASE commands'[c].recipient = recipient
    BY <1>1, <1>2, <1>8, <2>1 DEF CountsNew
  <2>2. CASE commands'[c].recipient # recipient
    BY <1>1, <1>2, <2>2 DEF MeteredInv, RowsCoverCommands
  <2>. QED
    BY <2>1, <2>2
<1>. QED
  BY <1>11, <1>12

(* The sender's row counts it too, and stays below the sender's limit.     *)
LEMMA QueueCountsSent ==
  ASSUME MeteredInv, NEW actor, NEW key, NEW recipient, NEW replyTo, NEW id,
         NEW now \in Nat, NEW began \in Nat, NEW device,
         Authorized(actor, recipient, replyTo, id, now, began),
         RecordQueued(actor, key, recipient, replyTo, id, now, began, device)
  PROVE  /\ \A p \in DOMAIN senderState' : SenderQuota(p)'
         /\ \A c \in DOMAIN commands' :
              /\ commands'[c].actor \in DOMAIN senderState'
              /\ commands'[c].issuedAt
                   < senderState'[commands'[c].actor].window + Hour
<1>. DEFINE mine  == MyRow(actor, now)
            after == senderState'[actor]
            S     == {c \in DOMAIN commands : commands[c].actor = actor}
            at    == [c \in S |-> commands[c].issuedAt]
<1>1. /\ DOMAIN commands' = DOMAIN commands \cup {id}
      /\ \A c \in DOMAIN commands : commands'[c] = commands[c]
      /\ commands'[id].actor = actor /\ commands'[id].issuedAt = now
  BY DEF RecordQueued, Put, Authorized
<1>2. /\ DOMAIN senderState' = DOMAIN senderState \cup {actor}
      /\ \A p \in DOMAIN senderState \ {actor} : senderState'[p] = senderState[p]
      /\ after = CountAccepted(mine, now)
  BY DEF RecordQueued, Put, MyRow
<1>3. mine \in [window: Nat, accepted: Nat]
  BY RowsFound DEF MeteredInv
<1>4. Counted(mine.window, mine.accepted, now, after.window, after.accepted)
  <2>. HIDE DEF mine, after, S, at
  <2>. QED
    BY <1>2, <1>3, CountedRow
<1>5. IsFiniteSet(S) /\ at \in [S -> Nat]
  <2>1. \A c \in DOMAIN commands : commands[c].issuedAt \in Nat
    BY DEF MeteredInv, TypeOK, CommandsTypeOK, CommandRow
  <2>2. S \in SUBSET DOMAIN commands
    OBVIOUS
  <2>3. IsFiniteSet(S)
    BY <2>2, FS_Subset DEF MeteredInv
  <2>. QED
    BY <2>1, <2>3
<1>6. CountsIn(S, at, mine.window, mine.accepted)
  <2>1. {c \in S : at[c] >= mine.window} = Sent(actor, mine.window)
    BY DEF Sent
  <2>2. CASE actor \in DOMAIN senderState
    <3>1. mine = senderState[actor]
      BY <2>2, RowsFound DEF MeteredInv
    <3>2. SenderQuota(actor)
      BY <2>2, QuotasArePersonal DEF MeteredInv, PersonalQuotas
    <3>3. \A c \in S : at[c] < senderState[actor].window + Hour
      BY DEF MeteredInv, RowsCoverCommands
    <3>. HIDE DEF mine, S, at
    <3>. QED
      BY <2>1, <3>1, <3>2, <3>3 DEF SenderQuota, CountsIn
  <2>3. CASE actor \notin DOMAIN senderState
    <3>1. S = {}
      BY <2>3 DEF MeteredInv, RowsCoverCommands
    <3>2. mine.accepted = 0
      BY <2>3, RowsFound DEF MeteredInv
    <3>3. {c \in S : at[c] >= mine.window} = {}
      BY <3>1
    <3>. HIDE DEF mine, S, at
    <3>. QED
      BY <3>1, <3>2, <3>3, FS_EmptySet DEF CountsIn
  <2>. QED
    BY <2>2, <2>3
<1>7. CountsNew(S, at, id, now, after.window, after.accepted)
  <2>1. mine.window \in Nat /\ mine.accepted \in Nat
    BY <1>3
  <2>. HIDE DEF mine, after, S, at
  <2>. QED
    BY <1>4, <1>5, <1>6, <2>1, CountingOneMore
<1>8. \A w : Sent(actor, w)' \subseteq {c \in S : at[c] >= w} \cup {id}
  BY <1>1 DEF Sent
<1>9. after.accepted <= SenderLimit
  <2>. DEFINE facts == Facts(actor, recipient, replyTo, now, began)
  <2>1. /\ facts.senderAccepted = AcceptedInWindow(mine, now)
        /\ facts.senderLimit = SenderLimit
    BY DEF Facts, MyRow
  <2>. HIDE DEF facts, mine, after, S, at
  <2>2. ~(facts.senderAccepted >= facts.senderLimit)
    BY AuthorizedIsMetered DEF Authorized, facts
  <2>3. AcceptedInWindow(mine, now) \in Nat
    BY <1>3 DEF AcceptedInWindow
  <2>4. after.accepted = AcceptedInWindow(mine, now) + 1
    BY <1>3, <1>4 DEF AcceptedInWindow, WindowOver, Counted
  <2>. QED
    BY <2>1, <2>2, <2>3, <2>4, HourAssumption
<1>10. ASSUME NEW p \in DOMAIN senderState' PROVE SenderQuota(p)'
  <2>1. CASE p = actor
    <3>1. \A w : w = after.window => Cardinality(Sent(actor, w)') <= after.accepted
      <4>. HIDE DEF after, S, at
      <4>. QED
        BY <1>7, <1>8 DEF CountsNew
    <3>. QED
      BY <1>9, <2>1, <3>1 DEF SenderQuota
  <2>2. CASE p # actor
    <3>1. p \in DOMAIN senderState /\ senderState'[p] = senderState[p]
      BY <1>2, <2>2
    <3>2. \A since : Sent(p, since)' = Sent(p, since)
      BY <1>1, <2>2 DEF Sent
    <3>3. SenderQuota(p)
      BY <3>1, QuotasArePersonal DEF MeteredInv, PersonalQuotas
    <3>. QED
      BY <3>1, <3>2, <3>3 DEF SenderQuota
  <2>. QED
    BY <2>1, <2>2
<1>11. ASSUME NEW c \in DOMAIN commands'
       PROVE  /\ commands'[c].actor \in DOMAIN senderState'
              /\ commands'[c].issuedAt
                   < senderState'[commands'[c].actor].window + Hour
  <2>1. CASE commands'[c].actor = actor
    BY <1>1, <1>2, <1>7, <2>1 DEF CountsNew
  <2>2. CASE commands'[c].actor # actor
    BY <1>1, <1>2, <2>2 DEF MeteredInv, RowsCoverCommands
  <2>. QED
    BY <2>1, <2>2
<1>. QED
  BY <1>10, <1>11

(* The new command starts its recipient's cooldown after every older one's.*)
LEMMA QueueStartsCooldown ==
  ASSUME MeteredInv, NEW actor, NEW key, NEW recipient, NEW replyTo, NEW id,
         NEW now \in Nat, NEW began \in Nat, NEW device,
         Authorized(actor, recipient, replyTo, id, now, began),
         RecordQueued(actor, key, recipient, replyTo, id, now, began, device)
  PROVE  /\ CooldownSeparates'
         /\ \A c \in DOMAIN commands' :
              commands'[c].issuedAt + policies'[commands'[c].recipient].cooldown
                <= recipientState'[commands'[c].recipient].cooldownUntil
<1>. DEFINE theirs   == TheirRow(recipient, began)
            cooldown == policies[recipient].cooldown
            facts    == Facts(actor, recipient, replyTo, now, began)
<1>1. /\ DOMAIN commands' = DOMAIN commands \cup {id} /\ id \notin DOMAIN commands
      /\ \A c \in DOMAIN commands : commands'[c] = commands[c]
      /\ commands'[id].recipient = recipient /\ commands'[id].issuedAt = now
  BY DEF RecordQueued, Put, Authorized
<1>2. /\ \A p \in DOMAIN recipientState \ {recipient} :
           recipientState'[p] = recipientState[p]
      /\ recipientState'[recipient]
           = StartCooldown(CountAccepted(theirs, now), now, cooldown)
  BY DEF RecordQueued, Put, TheirRow
<1>3. theirs \in [window: Nat, accepted: Nat, cooldownUntil: Nat]
  BY RowsFound DEF MeteredInv
<1>4. cooldown \in Nat
  BY DEF Authorized, MeteredInv, TypeOK, PermissionsTypeOK, PolicyRow
<1>5. theirs.cooldownUntil <= now
  <2>1. facts.cooldownUntil = theirs.cooldownUntil
    BY DEF Facts, TheirRow
  <2>. HIDE DEF facts, theirs
  <2>2. ~(now < facts.cooldownUntil)
    BY AuthorizedIsMetered DEF Authorized, facts
  <2>. QED
    BY <1>3, <2>1, <2>2
<1>6. recipientState'[recipient].cooldownUntil = now + cooldown
  <2>. DEFINE after == recipientState'[recipient]
  <2>1. after = StartCooldown(CountAccepted(theirs, now), now, cooldown)
    BY <1>2
  <2>. HIDE DEF theirs, cooldown, after
  <2>2. after.cooldownUntil = now + cooldown
    BY <1>3, <1>4, <2>1, CooledRow
  <2>. QED
    BY <2>2 DEF after
<1>7. \A c \in DOMAIN commands : commands[c].issuedAt \in Nat
  BY DEF MeteredInv, TypeOK, CommandsTypeOK, CommandRow
<1>8. \A c \in DOMAIN commands :
        commands[c].recipient = recipient => commands[c].issuedAt + cooldown <= now
  <2>1. recipient \in DOMAIN recipientState => theirs = recipientState[recipient]
    BY RowsFound DEF MeteredInv
  <2>2. \A c \in DOMAIN commands :
          commands[c].recipient = recipient
            => /\ recipient \in DOMAIN recipientState
               /\ commands[c].issuedAt + cooldown
                    <= recipientState[recipient].cooldownUntil
    BY DEF MeteredInv, RowsCoverCommands
  <2>. HIDE DEF theirs, cooldown
  <2>. QED
    BY <1>3, <1>4, <1>5, <1>7, <2>1, <2>2
<1>9. UNCHANGED policies
  BY DEF Authorized
<1>. HIDE DEF theirs, facts
<1>10. CooldownSeparates'
  BY <1>1, <1>4, <1>7, <1>8, <1>9 DEF MeteredInv, CooldownSeparates
<1>11. ASSUME NEW c \in DOMAIN commands'
       PROVE  commands'[c].issuedAt + policies'[commands'[c].recipient].cooldown
                <= recipientState'[commands'[c].recipient].cooldownUntil
  <2>1. CASE commands'[c].recipient = recipient
    BY <1>1, <1>4, <1>6, <1>7, <1>8, <1>9, <2>1
  <2>2. CASE commands'[c].recipient # recipient
    BY <1>1, <1>2, <1>9, <2>2 DEF MeteredInv, RowsCoverCommands
  <2>. QED
    BY <2>1, <2>2
<1>. QED
  BY <1>10, <1>11

(* Issuing counts the command it adds, and waited out the cooldown.        *)
LEMMA IssueKeepsMetered ==
  ASSUME MeteredInv, TypeOK', RecipientsHavePolicies', NEW actor, NEW key,
         NEW recipient, NEW replyTo, NEW id, NEW now \in Nat, NEW began \in Nat,
         Issue(actor, key, recipient, replyTo, id, now, began)
  PROVE  MeteredInv'
<1>0. UNCHANGED policies
  BY DEF Issue, IssueFrame, permissionVars
<1>1. ASSUME NEW reason,
             RecordRejection(actor, key, recipient, replyTo, id, now, began, reason)
      PROVE  MeteredInv'
  <2>1. CommandsOnlySettle
    BY <1>1 DEF RecordRejection, CommandsOnlySettle
  <2>2. RowsStay
    BY <1>1, EnsureKeepsRows DEF RecordRejection
  <2>3. PoliciesStay
    BY <1>0 DEF PoliciesStay
  <2>. QED
    BY <2>1, <2>2, <2>3, SettleKeepsMetered
<1>2. ASSUME AuthorizeEject(Facts(actor, recipient, replyTo, now, began), now)
               = "AUTHORIZED",
             NEW device,
             RecordQueued(actor, key, recipient, replyTo, id, now, began, device)
      PROVE  MeteredInv'
  <2>1. Authorized(actor, recipient, replyTo, id, now, began)
    BY <1>0, <1>2, IssueIsNew DEF Authorized, MeteredInv
  <2>2. /\ \A p \in DOMAIN recipientState' : RecipientQuota(p)'
        /\ \A c \in DOMAIN commands' :
             /\ commands'[c].recipient \in DOMAIN recipientState'
             /\ commands'[c].issuedAt
                  < recipientState'[commands'[c].recipient].window + Hour
    BY <1>2, <2>1, QueueCountsReceived
  <2>3. /\ \A p \in DOMAIN senderState' : SenderQuota(p)'
        /\ \A c \in DOMAIN commands' :
             /\ commands'[c].actor \in DOMAIN senderState'
             /\ commands'[c].issuedAt
                  < senderState'[commands'[c].actor].window + Hour
    BY <1>2, <2>1, QueueCountsSent
  <2>4. /\ CooldownSeparates'
        /\ \A c \in DOMAIN commands' :
             commands'[c].issuedAt + policies'[commands'[c].recipient].cooldown
               <= recipientState'[commands'[c].recipient].cooldownUntil
    BY <1>2, <2>1, QueueStartsCooldown
  <2>5. RowsCoverCommands'
    BY <2>2, <2>3, <2>4 DEF RowsCoverCommands
  <2>6. QuotasHold'
    <3>1. PersonalQuotas'
      BY <2>2, <2>3 DEF PersonalQuotas
    <3>. QED
      BY <3>1, QuotasArePersonal, PTL
  <2>7. IsFiniteSet(DOMAIN commands')
    <3>1. DOMAIN commands' = DOMAIN commands \cup {id}
      BY <1>2 DEF RecordQueued, Put
    <3>. QED
      BY <3>1, FS_AddElement DEF MeteredInv
  <2>8. CountedHavePolicies'
    <3>1. /\ DOMAIN recipientState' = DOMAIN recipientState \cup {recipient}
          /\ \A p \in DOMAIN recipientState \ {recipient} :
               recipientState'[p] = recipientState[p]
      BY <1>2 DEF RecordQueued, Put
    <3>. QED
      BY <1>0, <2>1, <3>1 DEF CountedHavePolicies, MeteredInv, Authorized
  <2>. QED
    BY <2>4, <2>5, <2>6, <2>7, <2>8 DEF MeteredInv
<1>. QED
  BY <1>1, <1>2 DEF Issue

(* Every handler keeps the counters and cooldowns of the commands.         *)
LEMMA MeteredStep ==
  MeteredInv /\ RecipientsHavePolicies' /\ [Next]_vars => MeteredInv'
<1>. SUFFICES ASSUME MeteredInv, RecipientsHavePolicies', [Next]_vars
              PROVE  MeteredInv'
  OBVIOUS
<1>1. TypeOK'
  BY StepType DEF MeteredInv
<1>2. CASE Eject
  <2>1. ASSUME NEW actor, NEW key, NEW recipient, NEW began,
               AnswerFromRecord(actor, key, recipient, began)
        PROVE  MeteredInv'
    <3>1. RowsStay
      BY <2>1, EnsureKeepsRows DEF AnswerFromRecord
    <3>2. CommandsOnlySettle /\ PoliciesStay
      BY <2>1, UnchangedSettles
         DEF AnswerFromRecord, IssueFrame, permissionVars, PoliciesStay
    <3>. QED
      BY <1>1, <3>1, <3>2, SettleKeepsMetered
  <2>. QED
    BY <1>1, <1>2, <2>1, EjectIssues, IssueKeepsMetered DEF MeteredInv
<1>3. CASE ~Eject
  BY <1>1, <1>3, HandlersSettle, HandlersKeepRows, SettleKeepsMetered
     DEF MeteredInv
<1>. QED
  BY <1>2, <1>3

(* At first nobody has sent or received anything.                          *)
LEMMA MeteredInit == Init => MeteredInv
<1>. SUFFICES ASSUME Init PROVE MeteredInv
  OBVIOUS
<1>1. /\ DOMAIN commands = {} /\ DOMAIN recipientState = {}
      /\ DOMAIN senderState = {}
  BY DEF Init, CommandsInit, ExposureInit
<1>. QED
  BY <1>1, InitType, FS_EmptySet
     DEF MeteredInv, RecipientsHavePolicies, RowsCoverCommands,
         CountedHavePolicies, CooldownSeparates, QuotasHold

(* The invariant of cooldowns and quotas, of which the next two theorems   *)
(* are consequences, in every reachable state.                             *)
THEOREM MeteredIsInductive == Spec => []MeteredInv
<1>1. ConsentInv => RecipientsHavePolicies
  BY DEF ConsentInv
<1>. QED
  BY <1>1, MeteredInit, MeteredStep, ConsentIsInductive, PTL DEF Spec

(* Two commands to one recipient are a cooldown apart, whatever times the  *)
(* handlers that issued them had read.                                     *)
THEOREM CooldownIsKept == Spec => []CooldownSeparates
<1>1. MeteredInv => CooldownSeparates
  BY DEF MeteredInv
<1>. QED
  BY <1>1, MeteredIsInductive, PTL

(* The counters miss no command issued in their window and never pass      *)
(* their limits, however stale times and window restarts interleave.       *)
THEOREM QuotasAreKept == Spec => []QuotasHold
<1>1. MeteredInv => QuotasHold
  BY DEF MeteredInv
<1>. QED
  BY <1>1, MeteredIsInductive, PTL
=============================================================================
