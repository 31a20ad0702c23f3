------------------------------ MODULE Issuance ------------------------------
(***************************************************************************)
(* Issuing an eject: one transaction under the recipient's lock that       *)
(* answers a repeated request from its record, or else loads the facts,    *)
(* applies the authorization policy and records a rejection or a queued    *)
(* command with the quota and cooldown it uses.                            *)
(* Source: control-plane/src/modules/eject/application/issue-eject.ts,     *)
(* idempotency.ts and infrastructure/postgres-issuance-store.ts.           *)
(***************************************************************************)
EXTENDS Permissions, Devices, Authorization

CONSTANTS
  Key,            \* idempotency keys
  PlanCeiling,    \* recipient_entitlements.inbound_hourly_ceiling, 0 if no row
  PlanUntil,      \* recipient_entitlements.valid_until
  PhysicalCeiling \* system_delivery_policy.physical_hourly_ceiling, 0 if NULL

VARIABLES
  requests \* eject_requests, keyed by <<actor, idempotency key>>

ASSUME IssuanceAssumption ==
  /\ PlanCeiling \in [Person -> Nat]
  /\ PlanUntil \in [Person -> Nat]
  /\ PhysicalCeiling \in Nat

(* recipient and replyTo are what the fingerprint covers besides the actor;*)
(* action is EJECT_BACK exactly when replyTo is given.                     *)
RequestRow ==
  [recipient: Person, replyTo: Id \cup {None},
   outcome: {"QUEUED"} \cup RejectionReason, id: Id]

RequestsTypeOK ==
  /\ DOMAIN requests \subseteq Person \X Key
  /\ requests \in [DOMAIN requests -> RequestRow]

RequestsInit == requests = [slot \in {} |-> None]

(* Mutant: nobody asks whether the source already has its reply.           *)
EjectBackValidAgain(actor, recipient, replyTo) ==
  /\ replyTo \in DOMAIN commands
  /\ commands[replyTo].actor = recipient
  /\ commands[replyTo].recipient = actor
  /\ commands[replyTo].status \notin {"CANCELLED", "EXPIRED"}

(* The source command was sent by the recipient to the actor, was neither  *)
(* cancelled nor expired, and has no reply yet.                            *)
EjectBackValid(actor, recipient, replyTo) ==
  /\ replyTo \in DOMAIN commands
  /\ commands[replyTo].actor = recipient
  /\ commands[replyTo].recipient = actor
  /\ commands[replyTo].status \notin {"CANCELLED", "EXPIRED"}
  /\ \A id \in DOMAIN commands : commands[id].replyTo # replyTo

EligibleDevices(recipient) ==
  {d \in LiveDevices(recipient) : /\ devices[d].state = "READY"
                                  /\ devices[d].available}

(* loadAuthorizationFacts, on the rows the transaction has just ensured.   *)
Facts(actor, recipient, replyTo, now, began) ==
  LET policy == policies[recipient]
      mine   == PutIfAbsent(senderState, actor, NewSenderState(now))[actor]
      theirs == PutIfAbsent(recipientState, recipient,
                            NewRecipientState(began))[recipient]
  IN  [ actorRestricted        |-> ~IsActive(actor),
        actorParticipation     |-> Participation[actor],
        actorAvailability      |-> PersonAvailability[actor],
        audienceScope          |-> policy.audienceScope,
        senderEligibility      |-> policy.senderEligibility,
        relationshipActive     |-> Connected(actor, recipient),
        directionalGrantActive |-> <<recipient, actor>> \in grants,
        blocked                |-> <<recipient, actor>> \in Blocked,
        recipientPaused        |-> policy.paused,
        quietHoursActive       |-> FALSE,
        cooldownUntil          |-> theirs.cooldownUntil,
        recipientAccepted      |-> AcceptedInWindow(theirs, now),
        senderAccepted         |-> AcceptedInWindow(mine, now),
        senderLimit            |-> SenderLimit,
        exposureCeilings       |->
          [ recipientSelected |-> policy.hourlyLimit,
            planEntitlement   |-> IF now < PlanUntil[recipient]
                                    THEN PlanCeiling[recipient] ELSE 0,
            physicalSafety    |-> PhysicalCeiling ],
        deviceEligible         |-> EligibleDevices(recipient) # {},
        deliveryEnabled        |-> deliveryEnabled,
        ejectBack              |-> replyTo # None,
        ejectBackValid         |-> EjectBackValid(actor, recipient, replyTo) ]

RecordRequest(actor, key, recipient, replyTo, outcome, id) ==
  requests' = Put(requests, <<actor, key>>,
                  [recipient |-> recipient, replyTo |-> replyTo,
                   outcome |-> outcome, id |-> id])

(* A refusal leaves the request, two events and the rows the transaction   *)
(* ensured; it uses no quota.                                              *)
RecordRejection(actor, key, recipient, replyTo, id, now, began, reason) ==
  /\ RecordRequest(actor, key, recipient, replyTo, reason, id)
  /\ events' = Put(events, id, [path |-> <<"REQUESTED", "REJECTED">>,
                                at |-> now])
  /\ EnsureRecipientState(recipient, began)
  /\ senderState' = PutIfAbsent(senderState, actor, NewSenderState(now))
  /\ UNCHANGED commands

RecordQueued(actor, key, recipient, replyTo, id, now, began, device) ==
  /\ RecordRequest(actor, key, recipient, replyTo, "QUEUED", id)
  /\ commands' = Put(commands, id,
                     [status |-> "QUEUED", actor |-> actor,
                      recipient |-> recipient, device |-> device,
                      replyTo |-> replyTo, issuedAt |-> now,
                      expiresAt |-> now + CommandTTL])
  /\ events' = Put(events, id,
                   [path |-> <<"REQUESTED", "AUTHORIZED", "QUEUED">>,
                    at |-> now])
  /\ LET mine   == PutIfAbsent(senderState, actor, NewSenderState(now))
         theirs == PutIfAbsent(recipientState, recipient,
                               NewRecipientState(began))
     IN  /\ senderState' = Put(senderState, actor,
                               CountAccepted(mine[actor], now))
         /\ recipientState' =
              Put(recipientState, recipient,
                  StartCooldown(CountAccepted(theirs[recipient], now), now,
                                policies[recipient].cooldown))

(* Mutant: no lookup of the idempotency key at all.                        *)
AlwaysNew(actor, key) == TRUE

IsNewRequest(actor, key) == <<actor, key>> \notin DOMAIN requests

IssueFrame == UNCHANGED <<accountVars, permissionVars, deviceVars>>

(* A first request under this key.  Without an access policy row of the    *)
(* recipient a required fact is missing and the transaction rolls back.    *)
Issue(actor, key, recipient, replyTo, id, now, began) ==
  /\ Authenticated(actor)
  /\ IsNewRequest(actor, key)
  /\ recipient \in DOMAIN policies
  /\ id \notin DOMAIN events
  /\ LET decision ==
           AuthorizeEject(Facts(actor, recipient, replyTo, now, began), now)
     IN  IF decision = "AUTHORIZED"
           THEN \E device \in EligibleDevices(recipient) :
                  RecordQueued(actor, key, recipient, replyTo, id, now, began,
                               device)
           ELSE RecordRejection(actor, key, recipient, replyTo, id, now, began,
                                decision)
  /\ IssueFrame

(* A repeated request is answered with the stored result, or with          *)
(* IDEMPOTENCY_CONFLICT when its fingerprint differs; either way only the  *)
(* row that is locked may be new.                                          *)
AnswerFromRecord(actor, key, recipient, began) ==
  /\ Authenticated(actor)
  /\ ~IsNewRequest(actor, key)
  /\ EnsureRecipientState(recipient, began)
  /\ UNCHANGED <<requests, commandVars, senderState>>
  /\ IssueFrame
=============================================================================
