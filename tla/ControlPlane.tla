---------------------------- MODULE ControlPlane ----------------------------
(***************************************************************************)
(* The control plane: consent, relationships, devices, issuance and agent  *)
(* transport over one database, and what they must keep true together.     *)
(***************************************************************************)
EXTENDS Issuance, AgentTransport, FiniteSets

CONSTANTS
  Route, \* the <<actor, recipient>> pairs that ask for ejects
  Reply  \* the commands that requests reply to, and None

vars == <<accountVars, commandVars, exposureVars, permissionVars, deviceVars,
          requests, transportVars>>

ASSUME RouteAssumption == /\ Route \subseteq Person \X Person
                          /\ Reply \subseteq Id \cup {None}

Init ==
  /\ AccountsInit
  /\ CommandsInit
  /\ ExposureInit
  /\ PermissionsInit
  /\ DevicesInit
  /\ RequestsInit
  /\ TransportInit

(* A handler that commits now read its clock at `now`, and its transaction *)
(* (with CURRENT_TIMESTAMP) began no earlier.                              *)
BeganAfter(now) == now..clock

Pause ==
  /\ \E recipient \in Person, paused \in BOOLEAN, now \in Recent :
       \E began \in BeganAfter(now) : SetPaused(recipient, paused, now, began)
  /\ UNCHANGED <<accountVars, deviceVars, requests, transportVars>>

Grant ==
  /\ \E recipient \in Person, now \in Recent :
       \E actor \in Person \ {recipient}, began \in BeganAfter(now) :
         \/ GiveGrant(recipient, actor, began)
         \/ RevokeGrant(recipient, actor, now, began)
  /\ UNCHANGED <<accountVars, deviceVars, requests, transportVars>>

Relationship ==
  /\ \E now \in Recent, removed \in SUBSET DOMAIN invitations :
       \/ \E person \in Person, code \in Code :
            \/ CreateInvitation(person, code, now, removed)
            \/ AcceptInvitation(person, code, now, removed)
            \/ RefuseAcceptance(person, code, now, removed)
       \/ \E person \in Person : RefuseInvitation(person, now, removed)
       \/ CleanupInvitations(now, removed)
  /\ UNCHANGED <<accountVars, deviceVars, requests, transportVars>>

Disconnect ==
  /\ \E person, other \in Person, now \in Recent :
       DisconnectRelationship(person, other, now)
  /\ UNCHANGED <<accountVars, deviceVars, requests, transportVars>>

(* handleCreateDeviceEnrollment, for an authenticated owner.               *)
CreateEnrollmentOf(owner) ==
  \E now \in Recent, secret \in Secret : CreateEnrollment(owner, secret, now)

(* handleAgentEnrollment: no session and no key; whoever knows a secret.   *)
EnrollAgent(device, key) ==
  \E now \in Recent, secret \in Secret :
    ConsumeEnrollment(secret, device, key, now)

Enroll ==
  /\ \/ \E owner \in Person : CreateEnrollmentOf(owner)
     \/ \E device \in Device, key \in KeyId : EnrollAgent(device, key)
  /\ UNCHANGED <<accountVars, permissionVars, exposureVars, requests,
                 transportVars>>

Revoke ==
  /\ \E owner \in Person, device \in Device, now \in Recent :
       RevokeDevice(owner, device, now)
  /\ UNCHANGED <<accountVars, permissionVars, exposureVars, requests,
                 transportVars>>

(* A reply may name any command, one that does not exist included.         *)
Eject ==
  /\ \E route \in Route, key \in Key, now \in Recent :
       \E began \in BeganAfter(now) :
         \/ \E replyTo \in Reply, id \in Id :
              Issue(route[1], key, route[2], replyTo, id, now, began)
         \/ AnswerFromRecord(route[1], key, route[2], began)
  /\ UNCHANGED transportVars

Agent ==
  /\ \E device \in Device, key \in KeyId, nonce \in Nonce, now \in Recent :
       \/ Poll(device, key, nonce, now)
       \/ \E id \in DOMAIN commands, observation \in Observation :
            IngestResult(device, key, nonce, id, observation, now)
       \/ RefuseAgentRequest(device, key, nonce, now)
  /\ UNCHANGED <<accountVars, exposureVars, permissionVars, deviceVars,
                 requests>>

(* Changes an operator or the device's setup makes outside src/.           *)
OperateAccounts ==
  /\ \/ \E person \in Person : RestrictAccount(person)
     \/ \E enabled \in BOOLEAN : SetDelivery(enabled)
  /\ UNCHANGED <<commandVars, exposureVars, permissionVars, deviceVars,
                 requests, transportVars>>

OperateDevices ==
  /\ \E device \in Device :
       \/ CompleteSetup(device)
       \/ \E available \in BOOLEAN : SetAvailable(device, available)
  /\ UNCHANGED <<accountVars, exposureVars, permissionVars, requests,
                 transportVars>>

Time ==
  /\ Tick
  /\ UNCHANGED <<commandVars, exposureVars, permissionVars, deviceVars,
                 requests, transportVars>>

Next ==
  \/ Pause \/ Grant \/ Relationship \/ Disconnect \/ Enroll \/ Revoke
  \/ Eject \/ Agent \/ OperateAccounts \/ OperateDevices \/ Time

Spec == Init /\ [][Next]_vars
----------------------------------------------------------------------------
(* Every table holds rows of its schema.                                   *)
TypeOK ==
  /\ AccountsTypeOK
  /\ CommandsTypeOK
  /\ ExposureTypeOK
  /\ PermissionsTypeOK
  /\ DevicesTypeOK
  /\ RequestsTypeOK
  /\ TransportTypeOK

(* Whatever handlers interleave, the lifecycle events stored for a request *)
(* or command only take transitions of the protocol, and a command's       *)
(* status column is the last of them: the stores write the two separately  *)
(* and none of them calls canTransition.                                   *)
LifecycleConforms ==
  \A id \in DOMAIN events :
    LET path == events[id].path
    IN  /\ IsLifecycle(path)
        /\ id \in DOMAIN commands => commands[id].status = path[Len(path)]
        /\ id \notin DOMAIN commands => path = <<"REQUESTED", "REJECTED">>

(* A paused recipient has nothing outstanding: the pause cancelled it, and *)
(* no request that raced the pause was queued after it.                    *)
PausedRecipientIsLeftAlone ==
  \A id \in DOMAIN commands :
    IsOutstanding(id) => ~policies[commands[id].recipient].paused

(* Consent stands for as long as a command does: a command outstanding     *)
(* for a NAMED or CONNECTED recipient, other than an eject back, still has *)
(* its active relationship and, if NAMED, its directional grant, whichever *)
(* of the two people withdrew them.                                        *)
OutstandingHasConsent ==
  \A id \in DOMAIN commands :
    LET actor     == commands[id].actor
        recipient == commands[id].recipient
        scope     == policies[recipient].audienceScope
    IN  /\ IsOutstanding(id)
        /\ commands[id].replyTo = None
        /\ scope # "ALL_AUTHENTICATED"
        => /\ Connected(actor, recipient)
           /\ scope = "NAMED" => <<recipient, actor>> \in grants

(* No directional grant outlives its relationship, so a reconnection never *)
(* restores one.                                                           *)
GrantsNeedRelationship ==
  \A pair \in grants : Connected(pair[1], pair[2])

(* A revoked device has nothing outstanding, and a command's device is     *)
(* its recipient's.                                                        *)
RevokedDeviceIsLeftAlone ==
  \A id \in DOMAIN commands :
    LET device == commands[id].device
    IN  /\ device \in DOMAIN devices
        /\ devices[device].owner = commands[id].recipient
        /\ IsOutstanding(id) => devices[device].state # "REVOKED"

(* A stored agent result and the command it settled agree: a result is     *)
(* stored exactly for the commands that ended in the status it implies.    *)
ResultsMatchStatus ==
  \A id \in DOMAIN commands :
    IF id \in DOMAIN results
      THEN commands[id].status = ResultStatusOf(results[id].result)
      ELSE commands[id].status \notin ResultStatus

(* An owner has at most one live device: the handlers check it themselves  *)
(* and never run into the unique index of the schema, which the model      *)
(* leaves out.                                                             *)
OneLiveDevice ==
  \A d, e \in DOMAIN devices :
    /\ devices[d].owner = devices[e].owner
    /\ devices[d].state # "REVOKED" /\ devices[e].state # "REVOKED"
    => d = e

(* Two commands to one recipient are never issued closer together than the *)
(* cooldown of the recipient's policy, though each was stamped with a time *)
(* its handler read before it held the recipient's lock.                   *)
CooldownSeparates ==
  \A id, other \in DOMAIN commands :
    /\ id # other
    /\ commands[id].recipient = commands[other].recipient
    /\ commands[id].issuedAt <= commands[other].issuedAt
    => commands[id].issuedAt + policies[commands[id].recipient].cooldown
         <= commands[other].issuedAt

(* The lowest of the recipient's ceilings, while the plan lasts.           *)
Ceiling(recipient) ==
  EffectiveExposureLimit([recipientSelected |-> policies[recipient].hourlyLimit,
                          planEntitlement   |-> PlanCeiling[recipient],
                          physicalSafety    |-> PhysicalCeiling])

(* Quotas count what they meter: the commands issued since a window opened *)
(* are all in its counter, whatever order stale handler times commit in,   *)
(* and the counter never passes the person's limit.                        *)
QuotasHold ==
  /\ \A p \in DOMAIN recipientState :
       LET received == {id \in DOMAIN commands :
                          /\ commands[id].recipient = p
                          /\ commands[id].issuedAt >= recipientState[p].window}
       IN  /\ Cardinality(received) <= recipientState[p].accepted
           /\ recipientState[p].accepted > 0 =>
                recipientState[p].accepted <= Ceiling(p)
  /\ \A p \in DOMAIN senderState :
       LET sent == {id \in DOMAIN commands :
                      /\ commands[id].actor = p
                      /\ commands[id].issuedAt >= senderState[p].window}
       IN  /\ Cardinality(sent) <= senderState[p].accepted
           /\ senderState[p].accepted <= SenderLimit

(* A command earns one eject back at most, and only its recipient, towards *)
(* its actor, may use it.  The check in the SQL keeps this; the model      *)
(* leaves out the unique constraint on reply_to_command_id behind it.      *)
EjectBackIsOnce ==
  \A id \in DOMAIN commands :
    LET source == commands[id].replyTo
    IN  source # None =>
          /\ source \in DOMAIN commands
          /\ commands[source].actor = commands[id].recipient
          /\ commands[source].recipient = commands[id].actor
          /\ \A other \in DOMAIN commands :
               commands[other].replyTo = source => other = id

(* Requests and what they caused correspond one to one: a retried request  *)
(* never makes a second command, and every command answers to one request  *)
(* of its actor.                                                           *)
OneCommandPerRequest ==
  /\ \A slot, other \in DOMAIN requests :
       requests[slot].id = requests[other].id => slot = other
  /\ \A id \in DOMAIN commands :
       \E slot \in DOMAIN requests :
         /\ requests[slot].id = id
         /\ requests[slot].outcome = "QUEUED"
         /\ slot[1] = commands[id].actor
         /\ requests[slot].recipient = commands[id].recipient
         /\ requests[slot].replyTo = commands[id].replyTo

(* A command that ended stays ended, with its history: late polls, late    *)
(* results and late withdrawals leave it alone.                            *)
EndedIsFinal ==
  [][\A id \in DOMAIN commands :
       ~IsOutstanding(id) => /\ commands'[id] = commands[id]
                             /\ events'[id] = events[id]]_vars

(* A command is handed to an agent for the first time only while everyone  *)
(* concerned permits it: its recipient is not paused and still consents,   *)
(* its device is the owner's ready one, the owner's account is active and  *)
(* delivery is on.  The poll itself looks at none of the consent tables.   *)
DispatchIsPermitted ==
  [][\A id \in DOMAIN commands :
       /\ commands[id].status = "QUEUED"
       /\ commands'[id].status = "DISPATCHED"
       => LET device    == commands[id].device
              recipient == commands[id].recipient
          IN  /\ deliveryEnabled
              /\ devices[device].state = "READY" /\ devices[device].available
              /\ devices[device].owner = recipient
              /\ IsActive(recipient)
              /\ ~policies[recipient].paused
              /\ \/ commands[id].replyTo # None
                 \/ policies[recipient].audienceScope # "NAMED"
                 \/ <<recipient, commands[id].actor>> \in grants
              /\ clock < commands[id].expiresAt + Lag]_vars

(* An owner with an enrollment secret still open has no live device, and   *)
(* has one open secret at most.                                            *)
OpenEnrollmentIsAlone ==
  \A s \in DOMAIN enrollments :
    LET owner == enrollments[s].owner
    IN  ~enrollments[s].used => /\ LiveDevices(owner) = {}
                                /\ OpenEnrollments(owner) = {s}

(* A relationship becomes active only by using up one pending, unexpired   *)
(* code of one of the two, and starts without a grant either way.          *)
ConnectingTakesACode ==
  [][\A pair \in DOMAIN relationships' :
       /\ relationships'[pair].active
       /\ pair \in DOMAIN relationships => ~relationships[pair].active
       => /\ \E code \in DOMAIN invitations :
               /\ invitations[code].status = "PENDING"
               /\ invitations[code].inviter \in pair
               /\ clock < invitations[code].endsAt + Lag
               /\ invitations'[code].status = "USED"
          /\ \A grant \in grants' : {grant[1], grant[2]} # pair]_vars
----------------------------------------------------------------------------
(* The control plane seen as what it promises: module Consent.             *)

KindOf(id) == IF commands[id].replyTo = None THEN "EJECT" ELSE "EJECT_BACK"

(* An eject back needs no relationship: its source stands for it.          *)
MayEject(actor, recipient, device, kind) ==
  /\ device \in LiveDevices(recipient)
  /\ recipient \in DOMAIN policies
  /\ ~policies[recipient].paused
  /\ \/ kind = "EJECT_BACK"
     \/ policies[recipient].audienceScope = "ALL_AUTHENTICATED"
     \/ /\ Connected(actor, recipient)
        /\ policies[recipient].audienceScope = "NAMED"
             => <<recipient, actor>> \in grants

Permission == Person \X Person \X Device \X {"EJECT", "EJECT_BACK"}

StandingPermissions ==
  {p \in Permission : MayEject(p[1], p[2], p[3], p[4])}

Ejects ==
  [id \in DOMAIN commands |->
     [permission |-> <<commands[id].actor, commands[id].recipient,
                       commands[id].device, KindOf(id)>>,
      state |-> IF IsOutstanding(id) THEN commands[id].status ELSE "ENDED"]]

Promise == INSTANCE Consent WITH
  Command <- Id, permitted <- StandingPermissions, ejects <- Ejects

(* Every handler, for every recipient, keeps the promise: an eject is      *)
(* queued only under a permission the same step sees standing, at most one *)
(* is handed out at a time, and whoever withdraws a permission (by a       *)
(* pause, a revoked grant, a disconnection or a revoked device) ends in    *)
(* the same step every eject that rested on it.                            *)
ImplementsConsent == Promise!Spec
----------------------------------------------------------------------------
(* What the repository's documents say and the code does not do.           *)

(* ADR 0003: "Pause, revocation, expiry, cooldown, and safety controls     *)
(* still prevail" over an eject back.  While the source was never reported *)
(* on, a reply is issued before the source expires.                        *)
ExpiredSourceEarnsNoReply ==
  [][\A id \in DOMAIN commands' \ DOMAIN commands :
       LET source == commands'[id].replyTo
       IN  source \in DOMAIN commands /\ IsOutstanding(source)
             => commands'[id].issuedAt < commands[source].expiresAt]_vars

(* ADR 0003: sending an eject lets the recipient use one "short-lived"     *)
(* eject back; not even an hour bounds it.                                 *)
EjectBackIsShortLived ==
  \A id \in DOMAIN commands :
    LET source == commands[id].replyTo
    IN  source # None => commands[id].issuedAt <= commands[source].issuedAt + Hour

(* ADR 0007: by disconnecting, "one person can withdraw the relationship   *)
(* and both physical-action permissions immediately".  Nothing is queued   *)
(* between two people whose relationship has ended, under the NAMED scope. *)
DisconnectionWithdrawsBoth ==
  [][\A id \in DOMAIN commands' \ DOMAIN commands :
       LET recipient == commands'[id].recipient
           pair      == {commands'[id].actor, recipient}
       IN  /\ policies[recipient].audienceScope = "NAMED"
           /\ pair \in DOMAIN relationships
           => relationships[pair].active]_vars

(* protocol/v1/README.md: "Lifecycle event timestamps are control-plane    *)
(* generated and must not move backward for one command."                  *)
TimestampsAdvance ==
  [][\A id \in DOMAIN events : events[id].at <= events'[id].at]_vars
=============================================================================
