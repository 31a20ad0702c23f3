------------------------- MODULE ControlPlaneProofs -------------------------
(***************************************************************************)
(* Theorems about ControlPlane, for every number of people, devices,       *)
(* commands and handlers: its types; one live device to an owner; consent, *)
(* that is, what a recipient withdrew, by pausing, by revoking a grant or  *)
(* by ending a relationship, no outstanding command still uses; and, from  *)
(* it, the refinement of Consent and what dispatching and connecting may   *)
(* do.                                                                     *)
(***************************************************************************)
EXTENDS ControlPlane, TLAPS

(* Handler times are natural numbers: Recent never reaches below zero.     *)
LEMMA RecentType ==
  ASSUME AccountsTypeOK, NEW now \in Recent
  PROVE  now \in Nat /\ BeganAfter(now) \subseteq Nat
BY DEF AccountsTypeOK, Recent, BeganAfter

(* The one way handlers change commands keeps both tables well typed and   *)
(* deletes nothing.                                                        *)
LEMMA AdvanceType ==
  ASSUME CommandsTypeOK, NEW ids,
         NEW status \in CommandStatus, NEW path \in Seq(LifecycleState),
         NEW now \in Nat, Advance(ids, status, path, now)
  PROVE  CommandsTypeOK' /\ DOMAIN commands' = DOMAIN commands
<1>1. commands' \in [DOMAIN commands -> CommandRow]
  BY DEF CommandsTypeOK, Advance, CommandRow
<1>2. ASSUME NEW id \in DOMAIN events
      PROVE  [path |-> events[id].path \o path, at |-> now] \in EventRow
  <2>1. events[id].path \in Seq(LifecycleState)
    BY DEF CommandsTypeOK, EventRow
  <2>2. events[id].path \o path \in Seq(LifecycleState)
    BY <2>1
  <2>. QED
    BY <2>2 DEF EventRow
<1>3. events' \in [DOMAIN events -> EventRow]
  BY <1>2 DEF CommandsTypeOK, Advance
<1>. QED
  BY <1>1, <1>3 DEF CommandsTypeOK

(* Cancelling, in either of its two forms, is such a change.               *)
LEMMA CancelType ==
  ASSUME CommandsTypeOK, NEW now \in Nat,
         \/ \E pairs : CancelBetween(pairs, now)
         \/ \E device : CancelForDevice(device, now)
         \/ UNCHANGED commandVars
  PROVE  CommandsTypeOK' /\ DOMAIN commands' = DOMAIN commands
<1>1. "CANCELLED" \in CommandStatus /\ <<"CANCELLED">> \in Seq(LifecycleState)
  BY DEF CommandStatus, LifecycleState
<1>2. ASSUME NEW pairs, CancelBetween(pairs, now)
      PROVE  CommandsTypeOK' /\ DOMAIN commands' = DOMAIN commands
  BY <1>1, <1>2, AdvanceType DEF CancelBetween
<1>3. ASSUME NEW device, CancelForDevice(device, now)
      PROVE  CommandsTypeOK' /\ DOMAIN commands' = DOMAIN commands
  BY <1>1, <1>3, AdvanceType DEF CancelForDevice
<1>4. CASE UNCHANGED commandVars
  BY <1>4 DEF commandVars, CommandsTypeOK
<1>. QED
  BY <1>2, <1>3, <1>4
----------------------------------------------------------------------------
(* Type correctness, one lemma for each group of actions.                  *)

(* The tables start empty or as one of the well-typed seeds.               *)
LEMMA InitType == Init => TypeOK
<1>. SUFFICES ASSUME Init PROVE TypeOK
  OBVIOUS
<1>1. AccountsTypeOK
  BY DEF Init, AccountsInit, AccountsTypeOK, Never
<1>2. CommandsTypeOK
  BY DEF Init, CommandsInit, CommandsTypeOK
<1>3. ExposureTypeOK
  BY DEF Init, ExposureInit, ExposureTypeOK
<1>4. PermissionsTypeOK
  BY PermissionAssumption DEF Init, PermissionsInit, PermissionsTypeOK
<1>5. DevicesTypeOK
  BY DeviceAssumption DEF Init, DevicesInit, DevicesTypeOK
<1>6. RequestsTypeOK
  BY DEF Init, RequestsInit, RequestsTypeOK
<1>7. TransportTypeOK
  BY DEF Init, TransportInit, TransportTypeOK
<1>. QED
  BY <1>1, <1>2, <1>3, <1>4, <1>5, <1>6, <1>7 DEF TypeOK

(* Locking a recipient creates a well-typed row at most.                   *)
LEMMA EnsureType ==
  ASSUME ExposureTypeOK, NEW recipient \in Person, NEW at \in Nat,
         EnsureRecipientState(recipient, at), UNCHANGED senderState
  PROVE  ExposureTypeOK'
<1>. DEFINE Row == [window: Nat, accepted: Nat, cooldownUntil: Nat]
<1>1. NewRecipientState(at) \in Row
  BY DEF NewRecipientState
<1>2. /\ DOMAIN recipientState' = DOMAIN recipientState \cup {recipient}
      /\ recipientState' \in [DOMAIN recipientState' -> Row]
  BY <1>1 DEF EnsureRecipientState, PutIfAbsent, Put, ExposureTypeOK
<1>. QED
  BY <1>2 DEF ExposureTypeOK

(* The defaults of the schema are a policy.                                *)
LEMMA DefaultPolicyType == DefaultPolicy \in PolicyRow
BY PermissionAssumption DEF DefaultPolicy, PolicyRow

(* Pausing and resuming.                                                   *)
LEMMA PauseType ==
  ASSUME TypeOK, NEW recipient \in Person, NEW paused \in BOOLEAN,
         NEW now \in Nat, NEW began \in Nat,
         SetPaused(recipient, paused, now, began)
  PROVE  /\ CommandsTypeOK' /\ DOMAIN commands' = DOMAIN commands
         /\ ExposureTypeOK' /\ PermissionsTypeOK'
<1>1. CommandsTypeOK' /\ DOMAIN commands' = DOMAIN commands
  BY CancelType DEF SetPaused, TypeOK
<1>2. ExposureTypeOK'
  BY EnsureType DEF SetPaused, TypeOK
<1>3. PermissionsTypeOK'
  <2>1. PutIfAbsent(policies, recipient, DefaultPolicy)[recipient] \in PolicyRow
    BY DefaultPolicyType DEF PutIfAbsent, Put, TypeOK, PermissionsTypeOK
  <2>2. [PutIfAbsent(policies, recipient, DefaultPolicy)[recipient]
           EXCEPT !.paused = paused] \in PolicyRow
    BY <2>1 DEF PolicyRow
  <2>3. /\ DOMAIN policies' = DOMAIN policies \cup {recipient}
        /\ policies' \in [DOMAIN policies' -> PolicyRow]
    BY <2>2 DEF SetPaused, Put, TypeOK, PermissionsTypeOK
  <2>. QED
    BY <2>3 DEF SetPaused, TypeOK, PermissionsTypeOK
<1>. QED
  BY <1>1, <1>2, <1>3

(* Giving and revoking a grant.                                            *)
LEMMA GrantType ==
  ASSUME TypeOK, NEW recipient \in Person, NEW actor \in Person,
         NEW now \in Nat, NEW began \in Nat,
         \/ GiveGrant(recipient, actor, began)
         \/ RevokeGrant(recipient, actor, now, began)
  PROVE  /\ CommandsTypeOK' /\ DOMAIN commands' = DOMAIN commands
         /\ ExposureTypeOK' /\ PermissionsTypeOK'
<1>1. CommandsTypeOK' /\ DOMAIN commands' = DOMAIN commands
  BY CancelType DEF GiveGrant, RevokeGrant, TypeOK
<1>2. ExposureTypeOK'
  BY EnsureType DEF GiveGrant, RevokeGrant, TypeOK
<1>3. PermissionsTypeOK'
  <2>1. /\ policies' = PutIfAbsent(policies, recipient, DefaultPolicy)
        /\ UNCHANGED <<relationships, invitations>>
        /\ grants' \subseteq Person \X Person
    BY DEF GiveGrant, RevokeGrant, TypeOK, PermissionsTypeOK
  <2>2. /\ DOMAIN policies' = DOMAIN policies \cup {recipient}
        /\ policies' \in [DOMAIN policies' -> PolicyRow]
    BY <2>1, DefaultPolicyType DEF PutIfAbsent, Put, TypeOK, PermissionsTypeOK
  <2>. QED
    BY <2>1, <2>2 DEF TypeOK, PermissionsTypeOK
<1>. QED
  BY <1>1, <1>2, <1>3

(* An invitation that ended is still an invitation.                        *)
LEMMA EndedInvitationType ==
  ASSUME NEW row \in InvitationRow, NEW now \in Nat,
         NEW status \in {"USED", "INVALIDATED"}
  PROVE  [row EXCEPT !.status = status, !.endsAt = now] \in InvitationRow
BY DEF InvitationRow

(* Invitations created, used up or refused.                                *)
LEMMA RelationshipType ==
  ASSUME TypeOK, NEW person \in Person, NEW code \in Code, NEW now \in Nat,
         NEW removed,
         \/ CreateInvitation(person, code, now, removed)
         \/ AcceptInvitation(person, code, now, removed)
         \/ RefuseAcceptance(person, code, now, removed)
  PROVE  PermissionsTypeOK'
<1>1. Kept(removed) \in [DOMAIN Kept(removed) -> InvitationRow]
      /\ DOMAIN Kept(removed) \subseteq Code
  BY DEF Kept, TypeOK, PermissionsTypeOK
<1>2. CASE CreateInvitation(person, code, now, removed)
  <2>1. now + InvitationTTL \in Nat
    BY PermissionAssumption
  <2>2. [inviter |-> person, status |-> "PENDING", createdAt |-> now,
         endsAt |-> now + InvitationTTL] \in InvitationRow
    BY <2>1 DEF InvitationRow
  <2>3. \A old \in DOMAIN invitations :
          [invitations[old] EXCEPT !.status = "INVALIDATED", !.endsAt = now]
            \in InvitationRow
    BY EndedInvitationType DEF TypeOK, PermissionsTypeOK
  <2>4. /\ DOMAIN invitations' \subseteq Code
        /\ invitations' \in [DOMAIN invitations' -> InvitationRow]
    BY <1>2, <2>2, <2>3 DEF CreateInvitation, Put, TypeOK, PermissionsTypeOK
  <2>. QED
    BY <1>2, <2>4 DEF CreateInvitation, TypeOK, PermissionsTypeOK
<1>3. CASE AcceptInvitation(person, code, now, removed)
  <2>. DEFINE inviter == invitations[code].inviter
  <2>1. code \in DOMAIN invitations /\ inviter \in Person
    BY <1>3 DEF AcceptInvitation, CanAccept, TypeOK, PermissionsTypeOK,
                InvitationRow
  <2>2. [invitations[code] EXCEPT !.status = "USED", !.endsAt = now]
          \in InvitationRow
    BY <2>1, EndedInvitationType DEF TypeOK, PermissionsTypeOK
  <2>3. /\ DOMAIN invitations' \subseteq Code
        /\ invitations' \in [DOMAIN invitations' -> InvitationRow]
    BY <1>1, <1>3, <2>2 DEF AcceptInvitation, Put
  <2>4. [active |-> TRUE, createdAt |-> now] \in RelationshipRow
    BY DEF RelationshipRow
  <2>5. /\ DOMAIN relationships' \subseteq SUBSET Person
        /\ relationships' \in [DOMAIN relationships' -> RelationshipRow]
    <3>1. {inviter, person} \in SUBSET Person
      BY <2>1
    <3>2. CASE Connected(inviter, person)
      BY <1>3, <3>2 DEF AcceptInvitation, TypeOK, PermissionsTypeOK
    <3>3. CASE ~Connected(inviter, person)
      <4>1. relationships' = Put(relationships, {inviter, person},
                                 [active |-> TRUE, createdAt |-> now])
        BY <1>3, <3>3 DEF AcceptInvitation
      <4>. QED
        BY <2>4, <3>1, <4>1 DEF Put, TypeOK, PermissionsTypeOK
    <3>. QED
      BY <3>2, <3>3
  <2>6. grants' \subseteq Person \X Person
    BY <1>3 DEF AcceptInvitation, TypeOK, PermissionsTypeOK
  <2>. QED
    BY <1>3, <2>3, <2>5, <2>6 DEF AcceptInvitation, TypeOK, PermissionsTypeOK
<1>4. CASE RefuseAcceptance(person, code, now, removed)
  BY <1>1, <1>4 DEF RefuseAcceptance, TypeOK, PermissionsTypeOK
<1>. QED
  BY <1>2, <1>3, <1>4

(* Ending a relationship.                                                  *)
LEMMA DisconnectType ==
  ASSUME TypeOK, NEW person \in Person, NEW other \in Person, NEW now \in Nat,
         DisconnectRelationship(person, other, now)
  PROVE  /\ CommandsTypeOK' /\ DOMAIN commands' = DOMAIN commands
         /\ ExposureTypeOK' /\ PermissionsTypeOK'
<1>1. CommandsTypeOK' /\ DOMAIN commands' = DOMAIN commands
  BY CancelType DEF DisconnectRelationship, TypeOK
<1>2. ExposureTypeOK'
  <2>. DEFINE Row == [window: Nat, accepted: Nat, cooldownUntil: Nat]
  <2>1. NewRecipientState(now) \in Row
    BY DEF NewRecipientState
  <2>2. /\ DOMAIN recipientState' \subseteq Person
        /\ recipientState' \in [DOMAIN recipientState' -> Row]
    BY <2>1 DEF DisconnectRelationship, PutIfAbsent, Put, TypeOK, ExposureTypeOK
  <2>. QED
    BY <2>2 DEF DisconnectRelationship, TypeOK, ExposureTypeOK
<1>3. PermissionsTypeOK'
  <2>1. relationships' \in [DOMAIN relationships -> RelationshipRow]
    <3>1. \A pair \in DOMAIN relationships :
            [relationships[pair] EXCEPT !.active = FALSE] \in RelationshipRow
      BY DEF TypeOK, PermissionsTypeOK, RelationshipRow
    <3>. QED
      BY <3>1 DEF DisconnectRelationship, TypeOK, PermissionsTypeOK
  <2>2. grants' \subseteq Person \X Person
    BY DEF DisconnectRelationship, TypeOK, PermissionsTypeOK
  <2>. QED
    BY <2>1, <2>2 DEF DisconnectRelationship, TypeOK, PermissionsTypeOK
<1>. QED
  BY <1>1, <1>2, <1>3

(* Using up enrollment secrets keeps the table.                            *)
LEMMA MarkUsedType ==
  ASSUME DevicesTypeOK, NEW secrets
  PROVE  MarkUsed(secrets) \in [DOMAIN enrollments -> EnrollmentRow]
<1>1. \A row \in EnrollmentRow : [row EXCEPT !.used = TRUE] \in EnrollmentRow
  BY DEF EnrollmentRow
<1>. QED
  BY <1>1 DEF MarkUsed, DevicesTypeOK

(* Creating an enrollment secret.                                          *)
LEMMA CreateEnrollmentType ==
  ASSUME TypeOK, NEW owner \in Person, NEW secret \in Secret, NEW now \in Nat,
         CreateEnrollment(owner, secret, now)
  PROVE  DevicesTypeOK' /\ UNCHANGED commandVars
<1>. DEFINE marked == MarkUsed(OpenEnrollments(owner))
            row == [owner |-> owner, createdAt |-> now,
                    expiresAt |-> now + EnrollmentTTL, used |-> FALSE]
<1>1. now + EnrollmentTTL \in Nat
  BY DeviceAssumption
<1>2. row \in EnrollmentRow
  BY <1>1 DEF EnrollmentRow
<1>3. marked \in [DOMAIN enrollments -> EnrollmentRow]
  BY MarkUsedType DEF TypeOK
<1>4. enrollments' = Put(marked, secret, row)
  BY DEF CreateEnrollment
<1>. HIDE DEF marked, row
<1>5. /\ DOMAIN enrollments' \subseteq Secret
      /\ enrollments' \in [DOMAIN enrollments' -> EnrollmentRow]
  BY <1>2, <1>3, <1>4 DEF Put, TypeOK, DevicesTypeOK
<1>. QED
  BY <1>5 DEF CreateEnrollment, TypeOK, DevicesTypeOK

(* Registering a device with such a secret.                                *)
LEMMA ConsumeEnrollmentType ==
  ASSUME TypeOK, NEW secret, NEW device \in Device, NEW key \in KeyId,
         NEW now \in Nat, ConsumeEnrollment(secret, device, key, now)
  PROVE  DevicesTypeOK' /\ UNCHANGED commandVars
<1>. DEFINE row == [owner |-> enrollments[secret].owner,
                    state |-> "SETUP_IN_PROGRESS", available |-> FALSE,
                    key |-> key, keyRevoked |-> FALSE, createdAt |-> now]
<1>1. enrollments[secret].owner \in Person
  BY DEF ConsumeEnrollment, TypeOK, DevicesTypeOK, EnrollmentRow
<1>2. row \in DeviceRow
  BY <1>1 DEF DeviceRow, EnrollmentState
<1>3. devices' = Put(devices, device, row)
  BY DEF ConsumeEnrollment
<1>. HIDE DEF row
<1>4. /\ DOMAIN devices' \subseteq Device
      /\ devices' \in [DOMAIN devices' -> DeviceRow]
  BY <1>2, <1>3 DEF Put, TypeOK, DevicesTypeOK
<1>5. enrollments' \in [DOMAIN enrollments -> EnrollmentRow]
  BY MarkUsedType DEF ConsumeEnrollment, TypeOK
<1>. QED
  BY <1>4, <1>5 DEF ConsumeEnrollment, TypeOK, DevicesTypeOK

(* Revoking a device.                                                      *)
LEMMA RevokeType ==
  ASSUME TypeOK, NEW owner, NEW device, NEW now \in Nat,
         RevokeDevice(owner, device, now)
  PROVE  /\ CommandsTypeOK' /\ DOMAIN commands' = DOMAIN commands
         /\ DevicesTypeOK'
<1>1. CommandsTypeOK' /\ DOMAIN commands' = DOMAIN commands
  BY CancelType DEF RevokeDevice, TypeOK
<1>2. enrollments' \in [DOMAIN enrollments -> EnrollmentRow]
  BY MarkUsedType DEF RevokeDevice, TypeOK
<1>3. devices' \in [DOMAIN devices -> DeviceRow]
  <2>1. \A row \in DeviceRow :
          [row EXCEPT !.state = "REVOKED", !.available = FALSE,
                      !.keyRevoked = TRUE] \in DeviceRow
    BY DEF DeviceRow, EnrollmentState
  <2>2. devices' = [devices EXCEPT ![device] =
                      [@ EXCEPT !.state = "REVOKED", !.available = FALSE,
                                !.keyRevoked = TRUE]]
    BY DEF RevokeDevice, LiveDevices
  <2>. QED
    BY <2>1, <2>2 DEF TypeOK, DevicesTypeOK
<1>. QED
  BY <1>1, <1>2, <1>3 DEF TypeOK, DevicesTypeOK

(* What the device's setup and an operator write.                          *)
LEMMA OperateDevicesType ==
  ASSUME TypeOK, NEW device \in Device, NEW available \in BOOLEAN,
         CompleteSetup(device) \/ SetAvailable(device, available)
  PROVE  DevicesTypeOK' /\ UNCHANGED commandVars
<1>1. CASE CompleteSetup(device)
  <2>1. [devices[device] EXCEPT !.state = "READY", !.available = TRUE]
          \in DeviceRow
    BY <1>1 DEF CompleteSetup, TypeOK, DevicesTypeOK, DeviceRow, EnrollmentState
  <2>2. devices' = [devices EXCEPT ![device] =
                      [@ EXCEPT !.state = "READY", !.available = TRUE]]
    BY <1>1 DEF CompleteSetup
  <2>. QED
    BY <1>1, <2>1, <2>2 DEF CompleteSetup, TypeOK, DevicesTypeOK
<1>2. CASE SetAvailable(device, available)
  <2>1. [devices[device] EXCEPT !.available = available] \in DeviceRow
    BY <1>2 DEF SetAvailable, TypeOK, DevicesTypeOK, DeviceRow
  <2>. QED
    BY <1>2, <2>1 DEF SetAvailable, TypeOK, DevicesTypeOK
<1>. QED
  BY <1>1, <1>2 DEF CompleteSetup, SetAvailable

(* The policy answers AUTHORIZED or one of the rejection reasons.          *)
LEMMA AuthorizeType ==
  ASSUME NEW facts, NEW now
  PROVE  AuthorizeEject(facts, now) \in {"AUTHORIZED"} \cup RejectionReason
BY DEF AuthorizeEject, RejectionReason

(* Counting and cooling down keep the exposure rows well typed.            *)
LEMMA CountType ==
  ASSUME NEW now \in Nat, NEW cooldown \in Nat
  PROVE  /\ \A row \in [window: Nat, accepted: Nat] :
              CountAccepted(row, now) \in [window: Nat, accepted: Nat]
         /\ \A row \in [window: Nat, accepted: Nat, cooldownUntil: Nat] :
              StartCooldown(CountAccepted(row, now), now, cooldown)
                \in [window: Nat, accepted: Nat, cooldownUntil: Nat]
<1>1. ASSUME NEW row \in [window: Nat, accepted: Nat]
      PROVE  CountAccepted(row, now) \in [window: Nat, accepted: Nat]
  <2>1. row.accepted + 1 \in Nat
    OBVIOUS
  <2>. QED
    BY <2>1 DEF CountAccepted
<1>2. ASSUME NEW row \in [window: Nat, accepted: Nat, cooldownUntil: Nat]
      PROVE  StartCooldown(CountAccepted(row, now), now, cooldown)
               \in [window: Nat, accepted: Nat, cooldownUntil: Nat]
  <2>1. row.accepted + 1 \in Nat /\ now + cooldown \in Nat
    OBVIOUS
  <2>2. CountAccepted(row, now)
          \in [window: Nat, accepted: Nat, cooldownUntil: Nat]
    BY <2>1 DEF CountAccepted
  <2>. QED
    BY <2>1, <2>2 DEF StartCooldown
<1>. QED
  BY <1>1, <1>2

(* A rejection adds a request and two events.                              *)
LEMMA RejectionType ==
  ASSUME TypeOK, NEW actor \in Person, NEW key \in Key,
         NEW recipient \in Person, NEW replyTo \in Id \cup {None},
         NEW id \in Id, NEW now \in Nat, NEW began \in Nat,
         NEW reason \in RejectionReason,
         id \notin DOMAIN events,
         RecordRejection(actor, key, recipient, replyTo, id, now, began, reason)
  PROVE  /\ CommandsTypeOK' /\ DOMAIN commands' = DOMAIN commands
         /\ ExposureTypeOK' /\ RequestsTypeOK'
<1>1. CommandsTypeOK'
  <2>. DEFINE row == [path |-> <<"REQUESTED", "REJECTED">>, at |-> now]
  <2>1. <<"REQUESTED", "REJECTED">> \in Seq(LifecycleState)
    BY DEF LifecycleState
  <2>2. row \in EventRow
    BY <2>1 DEF EventRow
  <2>3. events' = Put(events, id, row)
    BY DEF RecordRejection
  <2>. HIDE DEF row
  <2>. QED
    BY <2>2, <2>3 DEF RecordRejection, Put, TypeOK, CommandsTypeOK
<1>2. ExposureTypeOK'
  <2>. DEFINE Mine == [window: Nat, accepted: Nat]
              Theirs == [window: Nat, accepted: Nat, cooldownUntil: Nat]
  <2>1. NewSenderState(now) \in Mine /\ NewRecipientState(began) \in Theirs
    BY DEF NewSenderState, NewRecipientState
  <2>2. /\ DOMAIN senderState' \subseteq Person
        /\ senderState' \in [DOMAIN senderState' -> Mine]
    BY <2>1 DEF RecordRejection, PutIfAbsent, Put, TypeOK, ExposureTypeOK
  <2>3. /\ DOMAIN recipientState' \subseteq Person
        /\ recipientState' \in [DOMAIN recipientState' -> Theirs]
    BY <2>1 DEF RecordRejection, EnsureRecipientState, PutIfAbsent, Put, TypeOK,
                ExposureTypeOK
  <2>. QED
    BY <2>2, <2>3 DEF ExposureTypeOK
<1>3. RequestsTypeOK'
  <2>. DEFINE row == [recipient |-> recipient, replyTo |-> replyTo,
                      outcome |-> reason, id |-> id]
  <2>1. row \in RequestRow
    BY DEF RequestRow
  <2>2. requests' = Put(requests, <<actor, key>>, row)
    BY DEF RecordRejection, RecordRequest
  <2>. HIDE DEF row
  <2>. QED
    BY <2>1, <2>2 DEF Put, TypeOK, RequestsTypeOK
<1>. QED
  BY <1>1, <1>2, <1>3 DEF RecordRejection

(* A queued command adds a request, a command and three events.            *)
LEMMA QueuedType ==
  ASSUME TypeOK, NEW actor \in Person, NEW key \in Key,
         NEW recipient \in Person, NEW replyTo \in Id \cup {None},
         NEW id \in Id, NEW now \in Nat, NEW began \in Nat,
         NEW device \in Device,
         recipient \in DOMAIN policies, id \notin DOMAIN events,
         RecordQueued(actor, key, recipient, replyTo, id, now, began, device)
  PROVE  /\ CommandsTypeOK' /\ DOMAIN commands' = DOMAIN commands \cup {id}
         /\ ExposureTypeOK' /\ RequestsTypeOK'
<1>1. CommandsTypeOK' /\ DOMAIN commands' = DOMAIN commands \cup {id}
  <2>. DEFINE row == [path |-> <<"REQUESTED", "AUTHORIZED", "QUEUED">>,
                      at |-> now]
              command == [status |-> "QUEUED", actor |-> actor,
                          recipient |-> recipient, device |-> device,
                          replyTo |-> replyTo, issuedAt |-> now,
                          expiresAt |-> now + CommandTTL]
  <2>1. <<"REQUESTED", "AUTHORIZED", "QUEUED">> \in Seq(LifecycleState)
    BY DEF LifecycleState
  <2>2. row \in EventRow
    BY <2>1 DEF EventRow
  <2>3. now + CommandTTL \in Nat
    BY CommandAssumption
  <2>4. command \in CommandRow
    BY <2>3 DEF CommandRow, CommandStatus, Outstanding
  <2>5. events' = Put(events, id, row) /\ commands' = Put(commands, id, command)
    BY DEF RecordQueued
  <2>. HIDE DEF row, command
  <2>. QED
    BY <2>2, <2>4, <2>5 DEF Put, TypeOK, CommandsTypeOK
<1>2. ExposureTypeOK'
  <2>. DEFINE Mine == [window: Nat, accepted: Nat]
              Theirs == [window: Nat, accepted: Nat, cooldownUntil: Nat]
              mine == PutIfAbsent(senderState, actor, NewSenderState(now))
              theirs == PutIfAbsent(recipientState, recipient,
                                    NewRecipientState(began))
              counted == CountAccepted(mine[actor], now)
              cooled == StartCooldown(CountAccepted(theirs[recipient], now),
                                      now, policies[recipient].cooldown)
  <2>1. NewSenderState(now) \in Mine /\ NewRecipientState(began) \in Theirs
    BY DEF NewSenderState, NewRecipientState
  <2>2. mine[actor] \in Mine
    BY <2>1 DEF PutIfAbsent, Put, TypeOK, ExposureTypeOK
  <2>3. theirs[recipient] \in Theirs
    BY <2>1 DEF PutIfAbsent, Put, TypeOK, ExposureTypeOK
  <2>4. policies[recipient].cooldown \in Nat
    BY DEF TypeOK, PermissionsTypeOK, PolicyRow
  <2>5. counted \in Mine
    BY <2>2, <2>4, CountType
  <2>6. cooled \in Theirs
    BY <2>3, <2>4, CountType
  <2>7. /\ senderState' = Put(senderState, actor, counted)
        /\ recipientState' = Put(recipientState, recipient, cooled)
    BY DEF RecordQueued
  <2>. HIDE DEF counted, cooled
  <2>8. /\ DOMAIN senderState' \subseteq Person
        /\ senderState' \in [DOMAIN senderState' -> Mine]
    BY <2>5, <2>7 DEF Put, TypeOK, ExposureTypeOK
  <2>9. /\ DOMAIN recipientState' \subseteq Person
        /\ recipientState' \in [DOMAIN recipientState' -> Theirs]
    BY <2>6, <2>7 DEF Put, TypeOK, ExposureTypeOK
  <2>. QED
    BY <2>8, <2>9 DEF ExposureTypeOK
<1>3. RequestsTypeOK'
  <2>. DEFINE row == [recipient |-> recipient, replyTo |-> replyTo,
                      outcome |-> "QUEUED", id |-> id]
  <2>1. row \in RequestRow
    BY DEF RequestRow
  <2>2. requests' = Put(requests, <<actor, key>>, row)
    BY DEF RecordQueued, RecordRequest
  <2>. HIDE DEF row
  <2>. QED
    BY <2>1, <2>2 DEF Put, TypeOK, RequestsTypeOK
<1>. QED
  BY <1>1, <1>2, <1>3

(* A request under a new key: rejected or queued.                          *)
LEMMA IssueType ==
  ASSUME TypeOK, NEW actor \in Person, NEW key \in Key,
         NEW recipient \in Person, NEW replyTo \in Id \cup {None},
         NEW id \in Id, NEW now \in Nat, NEW began \in Nat,
         Issue(actor, key, recipient, replyTo, id, now, began)
  PROVE  /\ CommandsTypeOK' /\ DOMAIN commands \subseteq DOMAIN commands'
         /\ ExposureTypeOK' /\ RequestsTypeOK'
<1>. DEFINE facts == Facts(actor, recipient, replyTo, now, began)
            decision == AuthorizeEject(facts, now)
<1>. HIDE DEF facts
<1>1. EligibleDevices(recipient) \subseteq Device
  BY DEF EligibleDevices, LiveDevices, TypeOK, DevicesTypeOK
<1>2. recipient \in DOMAIN policies /\ id \notin DOMAIN events
  BY DEF Issue
<1>3. CASE decision = "AUTHORIZED"
  <2>1. PICK device \in EligibleDevices(recipient) :
          RecordQueued(actor, key, recipient, replyTo, id, now, began, device)
    BY <1>3 DEF Issue, facts
  <2>. QED
    BY <1>1, <1>2, <2>1, QueuedType
<1>4. CASE decision # "AUTHORIZED"
  <2>1. decision \in RejectionReason
    BY <1>4, AuthorizeType
  <2>2. RecordRejection(actor, key, recipient, replyTo, id, now, began, decision)
    BY <1>4 DEF Issue, facts
  <2>. HIDE DEF decision
  <2>. QED
    BY <1>2, <2>1, <2>2, RejectionType
<1>. QED
  BY <1>3, <1>4

(* What an agent's request leaves: a poll, a result or a refusal.          *)
LEMMA AgentType ==
  ASSUME TypeOK, NEW device \in Device, NEW key \in KeyId, NEW nonce \in Nonce,
         NEW now \in Nat,
         \/ Poll(device, key, nonce, now)
         \/ \E id \in DOMAIN commands, observation \in Observation :
              IngestResult(device, key, nonce, id, observation, now)
         \/ RefuseAgentRequest(device, key, nonce, now)
  PROVE  CommandsTypeOK' /\ TransportTypeOK'
<1>. DEFINE NonceRow == [device: Device, nonce: Nonce, expiresAt: Nat]
<1>1. Remembered(device, now) \subseteq NonceRow
  BY DEF Remembered, TypeOK, TransportTypeOK
<1>2. now + NonceTTL \in Nat
  BY TransportAssumption
<1>3. ASSUME ConsumeNonce(device, key, nonce, now)
      PROVE  nonces' \subseteq NonceRow
  BY <1>1, <1>2, <1>3 DEF ConsumeNonce
<1>4. CASE Poll(device, key, nonce, now)
  <2>1. CASE UNCHANGED commandVars
    BY <1>3, <1>4, <2>1 DEF Poll, commandVars, TypeOK, CommandsTypeOK,
                            TransportTypeOK
  <2>2. ASSUME NEW id \in Oldest(device), HandOut(id, device, now)
        PROVE  CommandsTypeOK' /\ DOMAIN commands' = DOMAIN commands
    <3>1. /\ {"EXPIRED", "CANCELLED", "DISPATCHED"} \subseteq CommandStatus
          /\ <<"EXPIRED">> \in Seq(LifecycleState)
          /\ <<"CANCELLED">> \in Seq(LifecycleState)
          /\ <<"DISPATCHED">> \in Seq(LifecycleState)
      BY DEF CommandStatus, Outstanding, LifecycleState
    <3>2. \/ Advance({id}, "EXPIRED", <<"EXPIRED">>, now)
          \/ Advance({id}, "CANCELLED", <<"CANCELLED">>, now)
          \/ Advance({id}, "DISPATCHED", <<"DISPATCHED">>, now)
          \/ UNCHANGED commandVars
      BY <2>2 DEF HandOut
    <3>3. CASE UNCHANGED commandVars
      BY <3>3, CancelType DEF TypeOK
    <3>. QED
      BY <3>1, <3>2, <3>3, AdvanceType DEF TypeOK
  <2>3. UNCHANGED commandVars \/ \E id \in Oldest(device) : HandOut(id, device, now)
    BY <1>4 DEF Poll
  <2>4. CASE \E id \in Oldest(device) : HandOut(id, device, now)
    BY <1>3, <1>4, <2>2, <2>4 DEF Poll, TypeOK, TransportTypeOK
  <2>. QED
    BY <2>1, <2>3, <2>4
<1>5. ASSUME NEW id \in DOMAIN commands, NEW observation \in Observation,
             IngestResult(device, key, nonce, id, observation, now)
      PROVE  CommandsTypeOK' /\ TransportTypeOK'
  <2>1. nonces' \subseteq NonceRow
    BY <1>3, <1>5 DEF IngestResult
  <2>2. CASE AwaitsResult(id, device)
    <3>1. observation.result \in ResultCode
      BY TransportAssumption
    <3>2. ResultStatusOf(observation.result) \in CommandStatus
      BY <3>1 DEF ResultCode, ResultStatusOf, CommandStatus, ResultStatus
    <3>3. ResultPath(observation.result) \in Seq(LifecycleState)
      <4>1. /\ <<"DELIVERED", "REJECTED_BY_AGENT">> \in Seq(LifecycleState)
            /\ <<"DELIVERED", "ATTEMPTED", "OUTCOME_UNKNOWN">>
                 \in Seq(LifecycleState)
            /\ <<"DELIVERED", "ATTEMPTED", "FAILED">> \in Seq(LifecycleState)
        BY DEF LifecycleState
      <4>. QED
        BY <3>1, <4>1 DEF ResultCode, ResultPath
    <3>4. CommandsTypeOK' /\ DOMAIN commands' = DOMAIN commands
      BY <1>5, <2>2, <3>2, <3>3, AdvanceType DEF IngestResult, TypeOK
    <3>5. results' = Put(results, id, observation)
      BY <1>5, <2>2 DEF IngestResult
    <3>6. /\ DOMAIN results' \subseteq DOMAIN commands
          /\ results' \in [DOMAIN results' -> Observation]
      BY <3>5 DEF Put, TypeOK, TransportTypeOK
    <3>. QED
      BY <2>1, <3>4, <3>6 DEF TransportTypeOK
  <2>3. CASE ~AwaitsResult(id, device)
    BY <1>5, <2>1, <2>3 DEF IngestResult, commandVars, TypeOK, CommandsTypeOK,
                            TransportTypeOK
  <2>. QED
    BY <2>2, <2>3
<1>6. CASE RefuseAgentRequest(device, key, nonce, now)
  BY <1>1, <1>6 DEF RefuseAgentRequest, commandVars, TypeOK, CommandsTypeOK,
                    TransportTypeOK
<1>. QED
  BY <1>4, <1>5, <1>6

(* The parts of the state an action leaves alone stay well typed.          *)
LEMMA FrameType ==
  ASSUME TypeOK
  PROVE  /\ UNCHANGED accountVars => AccountsTypeOK'
         /\ UNCHANGED commandVars => CommandsTypeOK'
         /\ UNCHANGED exposureVars => ExposureTypeOK'
         /\ UNCHANGED permissionVars => PermissionsTypeOK'
         /\ UNCHANGED deviceVars => DevicesTypeOK'
         /\ UNCHANGED requests => RequestsTypeOK'
         /\ UNCHANGED transportVars /\ DOMAIN commands \subseteq DOMAIN commands'
              => TransportTypeOK'
<1>1. UNCHANGED accountVars => AccountsTypeOK'
  BY DEF accountVars, TypeOK, AccountsTypeOK
<1>2. UNCHANGED commandVars => CommandsTypeOK'
  BY DEF commandVars, TypeOK, CommandsTypeOK
<1>3. UNCHANGED exposureVars => ExposureTypeOK'
  BY DEF exposureVars, TypeOK, ExposureTypeOK
<1>4. UNCHANGED permissionVars => PermissionsTypeOK'
  BY DEF permissionVars, TypeOK, PermissionsTypeOK
<1>5. UNCHANGED deviceVars => DevicesTypeOK'
  BY DEF deviceVars, TypeOK, DevicesTypeOK
<1>6. UNCHANGED requests => RequestsTypeOK'
  BY DEF TypeOK, RequestsTypeOK
<1>7. UNCHANGED transportVars /\ DOMAIN commands \subseteq DOMAIN commands'
        => TransportTypeOK'
  BY DEF transportVars, TypeOK, TransportTypeOK
<1>. QED
  BY <1>1, <1>2, <1>3, <1>4, <1>5, <1>6, <1>7

(* Every step of the control plane keeps every table well typed.           *)
LEMMA StepType == TypeOK /\ [Next]_vars => TypeOK'
<1>. SUFFICES ASSUME TypeOK, [Next]_vars PROVE TypeOK'
  OBVIOUS
<1>. USE FrameType
<1>1. ASSUME NEW now \in Recent
      PROVE  now \in Nat /\ BeganAfter(now) \subseteq Nat
  BY RecentType DEF TypeOK
<1>2. CASE Pause
  <2>1. PICK recipient \in Person, paused \in BOOLEAN, now \in Recent :
          \E began \in BeganAfter(now) : SetPaused(recipient, paused, now, began)
    BY <1>2 DEF Pause
  <2>2. /\ CommandsTypeOK' /\ DOMAIN commands' = DOMAIN commands
        /\ ExposureTypeOK' /\ PermissionsTypeOK'
    BY <1>1, <2>1, PauseType
  <2>. QED
    BY <1>2, <2>2 DEF Pause, TypeOK
<1>3. CASE Grant
  <2>1. PICK recipient \in Person, now \in Recent :
          \E actor \in Person \ {recipient}, began \in BeganAfter(now) :
            \/ GiveGrant(recipient, actor, began)
            \/ RevokeGrant(recipient, actor, now, began)
    BY <1>3 DEF Grant
  <2>2. /\ CommandsTypeOK' /\ DOMAIN commands' = DOMAIN commands
        /\ ExposureTypeOK' /\ PermissionsTypeOK'
    BY <1>1, <2>1, GrantType
  <2>. QED
    BY <1>3, <2>2 DEF Grant, TypeOK
<1>4. CASE Relationship
  <2>1. PermissionsTypeOK' /\ UNCHANGED <<exposureVars, commandVars>>
    <3>1. PICK now \in Recent, removed \in SUBSET DOMAIN invitations :
            \/ \E person \in Person, code \in Code :
                 \/ CreateInvitation(person, code, now, removed)
                 \/ AcceptInvitation(person, code, now, removed)
                 \/ RefuseAcceptance(person, code, now, removed)
            \/ \E person \in Person : RefuseInvitation(person, now, removed)
            \/ CleanupInvitations(now, removed)
      BY <1>4 DEF Relationship
    <3>2. ASSUME NEW person \in Person, NEW code \in Code,
                 \/ CreateInvitation(person, code, now, removed)
                 \/ AcceptInvitation(person, code, now, removed)
                 \/ RefuseAcceptance(person, code, now, removed)
          PROVE  PermissionsTypeOK' /\ UNCHANGED <<exposureVars, commandVars>>
      BY <1>1, <3>2, RelationshipType
         DEF CreateInvitation, AcceptInvitation, RefuseAcceptance
    <3>3. ASSUME \/ \E person \in Person : RefuseInvitation(person, now, removed)
                 \/ CleanupInvitations(now, removed)
          PROVE  PermissionsTypeOK' /\ UNCHANGED <<exposureVars, commandVars>>
      BY <3>3 DEF RefuseInvitation, CleanupInvitations, Kept, TypeOK,
                  PermissionsTypeOK
    <3>. QED
      BY <3>1, <3>2, <3>3
  <2>. QED
    BY <1>4, <2>1 DEF Relationship, commandVars, TypeOK
<1>5. CASE Disconnect
  <2>1. PICK person \in Person, other \in Person, now \in Recent :
          DisconnectRelationship(person, other, now)
    BY <1>5 DEF Disconnect
  <2>2. /\ CommandsTypeOK' /\ DOMAIN commands' = DOMAIN commands
        /\ ExposureTypeOK' /\ PermissionsTypeOK'
    BY <1>1, <2>1, DisconnectType
  <2>. QED
    BY <1>5, <2>2 DEF Disconnect, TypeOK
<1>6. CASE Enroll
  <2>1. DevicesTypeOK' /\ UNCHANGED commandVars
    <3>1. PICK now \in Recent, secret \in Secret :
            \/ \E owner \in Person : CreateEnrollment(owner, secret, now)
            \/ \E device \in Device, key \in KeyId :
                 ConsumeEnrollment(secret, device, key, now)
      BY <1>6 DEF Enroll, CreateEnrollmentOf, EnrollAgent
    <3>2. ASSUME NEW owner \in Person, CreateEnrollment(owner, secret, now)
          PROVE  DevicesTypeOK' /\ UNCHANGED commandVars
      BY <1>1, <3>2, CreateEnrollmentType
    <3>3. ASSUME NEW device \in Device, NEW key \in KeyId,
                 ConsumeEnrollment(secret, device, key, now)
          PROVE  DevicesTypeOK' /\ UNCHANGED commandVars
      BY <1>1, <3>3, ConsumeEnrollmentType
    <3>. QED
      BY <3>1, <3>2, <3>3
  <2>. QED
    BY <1>6, <2>1 DEF Enroll, CreateEnrollmentOf, EnrollAgent,
       commandVars, TypeOK
<1>7. CASE Revoke
  <2>1. PICK owner \in Person, device \in Device, now \in Recent :
          RevokeDevice(owner, device, now)
    BY <1>7 DEF Revoke
  <2>2. /\ CommandsTypeOK' /\ DOMAIN commands' = DOMAIN commands
        /\ DevicesTypeOK'
    BY <1>1, <2>1, RevokeType
  <2>. QED
    BY <1>7, <2>2 DEF Revoke, TypeOK
<1>8. CASE Eject
  <2>1. PICK route \in Route, key \in Key, now \in Recent :
          \E began \in BeganAfter(now) :
            \/ \E replyTo \in Reply, id \in Id :
                 Issue(route[1], key, route[2], replyTo, id, now, began)
            \/ AnswerFromRecord(route[1], key, route[2], began)
    BY <1>8 DEF Eject
  <2>2. route[1] \in Person /\ route[2] \in Person /\ Reply \subseteq Id \cup {None}
    BY RouteAssumption
  <2>3. PICK began \in BeganAfter(now) :
          \/ \E replyTo \in Reply, id \in Id :
               Issue(route[1], key, route[2], replyTo, id, now, began)
          \/ AnswerFromRecord(route[1], key, route[2], began)
    BY <2>1
  <2>4. /\ CommandsTypeOK' /\ DOMAIN commands \subseteq DOMAIN commands'
        /\ ExposureTypeOK' /\ RequestsTypeOK'
        /\ IssueFrame
    <3>1. ASSUME NEW replyTo \in Reply, NEW id \in Id,
                 Issue(route[1], key, route[2], replyTo, id, now, began)
          PROVE  /\ CommandsTypeOK' /\ DOMAIN commands \subseteq DOMAIN commands'
                 /\ ExposureTypeOK' /\ RequestsTypeOK'
                 /\ IssueFrame
      BY <1>1, <2>2, <3>1, IssueType DEF Issue
    <3>2. CASE AnswerFromRecord(route[1], key, route[2], began)
      BY <1>1, <2>2, <3>2, EnsureType DEF AnswerFromRecord, commandVars, TypeOK
    <3>. QED
      BY <2>3, <3>1, <3>2
  <2>. QED
    BY <1>8, <2>4 DEF Eject, IssueFrame, TypeOK
<1>9. CASE Agent
  <2>1. PICK device \in Device, key \in KeyId, nonce \in Nonce, now \in Recent :
          \/ Poll(device, key, nonce, now)
          \/ \E id \in DOMAIN commands, observation \in Observation :
               IngestResult(device, key, nonce, id, observation, now)
          \/ RefuseAgentRequest(device, key, nonce, now)
    BY <1>9 DEF Agent
  <2>2. CommandsTypeOK' /\ TransportTypeOK'
    BY <1>1, <2>1, AgentType
  <2>. QED
    BY <1>9, <2>2 DEF Agent, TypeOK
<1>10. CASE OperateAccounts
  <2>1. AccountsTypeOK'
    BY <1>10 DEF OperateAccounts, RestrictAccount, SetDelivery, TypeOK,
                 AccountsTypeOK
  <2>. QED
    BY <1>10, <2>1 DEF OperateAccounts, commandVars, TypeOK
<1>11. CASE OperateDevices
  <2>1. DevicesTypeOK' /\ UNCHANGED commandVars
    BY <1>11, OperateDevicesType DEF OperateDevices
  <2>. QED
    BY <1>11, <2>1 DEF OperateDevices, commandVars, TypeOK
<1>12. CASE Time
  <2>1. AccountsTypeOK'
    BY <1>12 DEF Time, Tick, TypeOK, AccountsTypeOK
  <2>. QED
    BY <1>12, <2>1 DEF Time, commandVars, TypeOK
<1>13. CASE UNCHANGED vars
  BY <1>13 DEF vars, commandVars, TypeOK
<1>. QED
  BY <1>2, <1>3, <1>4, <1>5, <1>6, <1>7, <1>8, <1>9, <1>10, <1>11, <1>12, <1>13
     DEF Next

(* Whatever handlers run, in whatever order, every table holds rows of its *)
(* schema: statuses are those of the protocol, references point to rows    *)
(* that exist, times are not negative.                                     *)
THEOREM TypeCorrect == Spec => []TypeOK
<1>. QED
  BY InitType, StepType, PTL DEF Spec
----------------------------------------------------------------------------
(* The enrollment protocol: an owner has a live device or one open secret, *)
(* never both, so the device that uses the secret is the only live one.    *)

(* OpenEnrollmentIsAlone, row by row.                                      *)
OpenRowIsAlone ==
  \A s \in DOMAIN enrollments : ~enrollments[s].used =>
    /\ \A d \in DOMAIN devices :
         devices[d].owner = enrollments[s].owner => devices[d].state = "REVOKED"
    /\ \A t \in DOMAIN enrollments :
         t # s /\ enrollments[t].owner = enrollments[s].owner
           => enrollments[t].used

DevicesInv == TypeOK /\ OneLiveDevice /\ OpenRowIsAlone

(* Using up secrets changes only whether they are open.                    *)
LEMMA MarkedRows ==
  ASSUME DevicesTypeOK, NEW secrets
  PROVE  /\ DOMAIN MarkUsed(secrets) = DOMAIN enrollments
         /\ \A s \in DOMAIN enrollments :
              /\ MarkUsed(secrets)[s].owner = enrollments[s].owner
              /\ MarkUsed(secrets)[s].used
                   = (IF s \in secrets THEN TRUE ELSE enrollments[s].used)
<1>1. \A row \in EnrollmentRow : /\ [row EXCEPT !.used = TRUE].owner = row.owner
                                 /\ [row EXCEPT !.used = TRUE].used = TRUE
  BY DEF EnrollmentRow
<1>2. \A s \in DOMAIN enrollments : enrollments[s] \in EnrollmentRow
  BY DEF DevicesTypeOK
<1>3. DOMAIN MarkUsed(secrets) = DOMAIN enrollments
  BY DEF MarkUsed
<1>4. ASSUME NEW s \in DOMAIN enrollments
      PROVE  /\ MarkUsed(secrets)[s].owner = enrollments[s].owner
             /\ MarkUsed(secrets)[s].used
                  = (IF s \in secrets THEN TRUE ELSE enrollments[s].used)
  <2>1. CASE s \in secrets
    <3>1. MarkUsed(secrets)[s] = [enrollments[s] EXCEPT !.used = TRUE]
      BY <2>1 DEF MarkUsed
    <3>. QED
      BY <1>1, <1>2, <2>1, <3>1
  <2>2. CASE s \notin secrets
    <3>1. MarkUsed(secrets)[s] = enrollments[s]
      BY <2>2 DEF MarkUsed
    <3>. QED
      BY <2>2, <3>1
  <2>. QED
    BY <2>1, <2>2
<1>. QED
  BY <1>3, <1>4

(* A new secret replaces the owner's open one, and needs that the owner    *)
(* has no live device.                                                     *)
LEMMA CreateKeepsOneDevice ==
  ASSUME DevicesInv, NEW owner \in Person, NEW secret \in Secret,
         NEW now \in Nat, CreateEnrollment(owner, secret, now)
  PROVE  OneLiveDevice' /\ OpenRowIsAlone'
<1>. DEFINE old    == OpenEnrollments(owner)
            marked == MarkUsed(old)
<1>1. /\ DOMAIN enrollments' = DOMAIN enrollments \cup {secret}
      /\ secret \notin DOMAIN enrollments
      /\ enrollments'[secret].owner = owner /\ ~enrollments'[secret].used
      /\ \A s \in DOMAIN enrollments :
           /\ enrollments'[s].owner = enrollments[s].owner
           /\ ~enrollments'[s].used
                => /\ ~enrollments[s].used
                   /\ enrollments[s].owner # owner
  <2>1. /\ DOMAIN marked = DOMAIN enrollments
        /\ \A s \in DOMAIN enrollments :
             /\ marked[s].owner = enrollments[s].owner
             /\ marked[s].used = (IF s \in old THEN TRUE ELSE enrollments[s].used)
    BY MarkedRows DEF DevicesInv, TypeOK
  <2>2. /\ enrollments' = Put(marked, secret,
                              [owner |-> owner, createdAt |-> now,
                               expiresAt |-> now + EnrollmentTTL, used |-> FALSE])
        /\ secret \notin DOMAIN enrollments
    BY DEF CreateEnrollment
  <2>3. \A s \in DOMAIN enrollments :
          s \notin old => enrollments[s].owner # owner \/ enrollments[s].used
    BY DEF OpenEnrollments
  <2>. HIDE DEF marked, old
  <2>. QED
    BY <2>1, <2>2, <2>3 DEF Put
<1>2. /\ UNCHANGED devices
      /\ \A d \in DOMAIN devices :
           devices[d].owner = owner => devices[d].state = "REVOKED"
  BY DEF CreateEnrollment, LiveDevices
<1>3. OneLiveDevice'
  BY <1>2 DEF DevicesInv, OneLiveDevice
<1>4. OpenRowIsAlone'
  BY <1>1, <1>2 DEF DevicesInv, OpenRowIsAlone
<1>. QED
  BY <1>3, <1>4

(* The device that uses a secret is its owner's first live one, and the    *)
(* secret was the owner's only open one.                                   *)
LEMMA ConsumeKeepsOneDevice ==
  ASSUME DevicesInv, NEW secret, NEW device \in Device, NEW key \in KeyId,
         NEW now \in Nat, ConsumeEnrollment(secret, device, key, now)
  PROVE  OneLiveDevice' /\ OpenRowIsAlone'
<1>. DEFINE owner == enrollments[secret].owner
<1>1. /\ secret \in DOMAIN enrollments /\ ~enrollments[secret].used
      /\ LiveDevices(owner) = {} /\ device \notin DOMAIN devices
  BY DEF ConsumeEnrollment
<1>2. /\ DOMAIN devices' = DOMAIN devices \cup {device}
      /\ devices'[device].owner = owner
      /\ \A d \in DOMAIN devices : devices'[d] = devices[d]
  BY <1>1 DEF ConsumeEnrollment, Put
<1>3. /\ DOMAIN enrollments' = DOMAIN enrollments
      /\ \A s \in DOMAIN enrollments :
           /\ enrollments'[s].owner = enrollments[s].owner
           /\ s = secret => enrollments'[s].used
           /\ s # secret => (enrollments'[s].used <=> enrollments[s].used)
  <2>. DEFINE secrets == {secret}
              marked  == MarkUsed(secrets)
  <2>1. enrollments' = marked
    BY DEF ConsumeEnrollment
  <2>2. /\ DOMAIN marked = DOMAIN enrollments
        /\ \A s \in DOMAIN enrollments :
             /\ marked[s].owner = enrollments[s].owner
             /\ marked[s].used
                  = (IF s \in secrets THEN TRUE ELSE enrollments[s].used)
    BY MarkedRows DEF DevicesInv, TypeOK
  <2>. HIDE DEF marked
  <2>. QED
    BY <2>1, <2>2
<1>4. \A d \in DOMAIN devices :
        devices[d].owner = owner => devices[d].state = "REVOKED"
  BY <1>1 DEF LiveDevices
<1>5. OneLiveDevice'
  BY <1>1, <1>2, <1>4 DEF DevicesInv, OneLiveDevice
<1>6. OpenRowIsAlone'
  <2>1. \A t \in DOMAIN enrollments :
          t # secret /\ enrollments[t].owner = owner => enrollments[t].used
    BY <1>1 DEF DevicesInv, OpenRowIsAlone
  <2>. HIDE DEF owner
  <2>2. ASSUME NEW s \in DOMAIN enrollments, ~enrollments'[s].used
        PROVE  /\ s # secret /\ ~enrollments[s].used
               /\ enrollments'[s].owner = enrollments[s].owner
               /\ enrollments[s].owner # owner
    BY <1>3, <2>1, <2>2
  <2>3. ASSUME NEW s \in DOMAIN enrollments, ~enrollments'[s].used,
               NEW d \in DOMAIN devices', devices'[d].owner = enrollments'[s].owner
        PROVE  devices'[d].state = "REVOKED"
    BY <1>2, <2>2, <2>3 DEF DevicesInv, OpenRowIsAlone
  <2>4. ASSUME NEW s \in DOMAIN enrollments, ~enrollments'[s].used,
               NEW t \in DOMAIN enrollments,
               t # s, enrollments'[t].owner = enrollments'[s].owner
        PROVE  enrollments'[t].used
    BY <1>3, <2>2, <2>4 DEF DevicesInv, OpenRowIsAlone
  <2>. QED
    BY <1>3, <2>3, <2>4 DEF OpenRowIsAlone
<1>. QED
  BY <1>5, <1>6

(* Rows of devices that keep their owner, and of which none comes back     *)
(* from REVOKED, while no secret opens.                                    *)
LEMMA FewerKeepOneDevice ==
  ASSUME DevicesInv,
         DOMAIN devices' = DOMAIN devices, DOMAIN enrollments' = DOMAIN enrollments,
         \A d \in DOMAIN devices :
           /\ devices'[d].owner = devices[d].owner
           /\ devices[d].state = "REVOKED" => devices'[d].state = "REVOKED",
         \A s \in DOMAIN enrollments :
           /\ enrollments'[s].owner = enrollments[s].owner
           /\ enrollments[s].used => enrollments'[s].used
  PROVE  OneLiveDevice' /\ OpenRowIsAlone'
<1>1. OneLiveDevice'
  BY DEF DevicesInv, OneLiveDevice
<1>2. OpenRowIsAlone'
  BY DEF DevicesInv, OpenRowIsAlone
<1>. QED
  BY <1>1, <1>2

(* Revoking a device, and what the setup and the agent report of one.      *)
LEMMA RevokeKeepsOneDevice ==
  ASSUME DevicesInv, NEW owner, NEW device, NEW now,
         RevokeDevice(owner, device, now)
  PROVE  OneLiveDevice' /\ OpenRowIsAlone'
<1>1. /\ DOMAIN devices' = DOMAIN devices
      /\ \A d \in DOMAIN devices :
           /\ devices'[d].owner = devices[d].owner
           /\ devices[d].state = "REVOKED" => devices'[d].state = "REVOKED"
  <2>1. \A row \in DeviceRow :
          LET revoked == [row EXCEPT !.state = "REVOKED", !.available = FALSE,
                                     !.keyRevoked = TRUE]
          IN  revoked.owner = row.owner /\ revoked.state = "REVOKED"
    BY DEF DeviceRow
  <2>2. devices' = [devices EXCEPT ![device] =
                      [@ EXCEPT !.state = "REVOKED", !.available = FALSE,
                                !.keyRevoked = TRUE]]
    BY DEF RevokeDevice, LiveDevices
  <2>3. devices \in [DOMAIN devices -> DeviceRow]
    BY DEF DevicesInv, TypeOK, DevicesTypeOK
  <2>. QED
    BY <2>1, <2>2, <2>3
<1>2. /\ DOMAIN enrollments' = DOMAIN enrollments
      /\ \A s \in DOMAIN enrollments :
           /\ enrollments'[s].owner = enrollments[s].owner
           /\ enrollments[s].used => enrollments'[s].used
  <2>1. enrollments' = MarkUsed(OpenEnrollments(owner))
    BY DEF RevokeDevice
  <2>. QED
    BY <2>1, MarkedRows DEF DevicesInv, TypeOK
<1>. QED
  BY <1>1, <1>2, FewerKeepOneDevice

(* What the device's setup and an operator write.                          *)
LEMMA OperateKeepsOneDevice ==
  ASSUME DevicesInv, NEW device, NEW available,
         CompleteSetup(device) \/ SetAvailable(device, available)
  PROVE  OneLiveDevice' /\ OpenRowIsAlone'
<1>1. devices \in [DOMAIN devices -> DeviceRow]
  BY DEF DevicesInv, TypeOK, DevicesTypeOK
<1>2. UNCHANGED enrollments
  BY DEF CompleteSetup, SetAvailable
<1>3. /\ DOMAIN devices' = DOMAIN devices
      /\ \A d \in DOMAIN devices :
           /\ devices'[d].owner = devices[d].owner
           /\ devices[d].state = "REVOKED" => devices'[d].state = "REVOKED"
  <2>1. CASE CompleteSetup(device)
    <3>1. /\ devices' = [devices EXCEPT ![device] =
                           [@ EXCEPT !.state = "READY", !.available = TRUE]]
          /\ devices[device].state = "SETUP_IN_PROGRESS"
      BY <2>1 DEF CompleteSetup
    <3>2. \A row \in DeviceRow :
            [row EXCEPT !.state = "READY", !.available = TRUE].owner = row.owner
      BY DEF DeviceRow
    <3>. QED
      BY <1>1, <3>1, <3>2
  <2>2. CASE SetAvailable(device, available)
    <3>1. devices' = [devices EXCEPT ![device] = [@ EXCEPT !.available = available]]
      BY <2>2 DEF SetAvailable
    <3>2. \A row \in DeviceRow :
            /\ [row EXCEPT !.available = available].owner = row.owner
            /\ [row EXCEPT !.available = available].state = row.state
      BY DEF DeviceRow
    <3>. QED
      BY <1>1, <3>1, <3>2
  <2>. QED
    BY <2>1, <2>2
<1>. QED
  BY <1>2, <1>3, FewerKeepOneDevice

(* The registered devices a run starts from keep the schema's index, and   *)
(* no secret is open yet.                                                  *)
LEMMA DevicesInvInit == Init => DevicesInv
<1>. SUFFICES ASSUME Init PROVE DevicesInv
  OBVIOUS
<1>1. TypeOK
  BY InitType
<1>2. OneLiveDevice
  BY DeviceAssumption DEF Init, DevicesInit, OneLiveDevice
<1>3. DOMAIN enrollments = {}
  BY DEF Init, DevicesInit
<1>. QED
  BY <1>1, <1>2, <1>3 DEF DevicesInv, OpenRowIsAlone

(* No handler gives an owner a second live device, or leaves a secret open *)
(* beside one.                                                             *)
LEMMA DevicesInvStep == DevicesInv /\ [Next]_vars => DevicesInv'
<1>. SUFFICES ASSUME DevicesInv, [Next]_vars PROVE DevicesInv'
  OBVIOUS
<1>1. TypeOK'
  BY StepType DEF DevicesInv
<1>2. Recent \subseteq Nat
  BY RecentType DEF DevicesInv, TypeOK
<1>3. CASE Enroll
  <2>1. ASSUME NEW owner \in Person, NEW now \in Recent, NEW secret \in Secret,
               CreateEnrollment(owner, secret, now)
        PROVE  OneLiveDevice' /\ OpenRowIsAlone'
    BY <1>2, <2>1, CreateKeepsOneDevice
  <2>2. ASSUME NEW device \in Device, NEW key \in KeyId, NEW now \in Recent,
               NEW secret \in Secret, ConsumeEnrollment(secret, device, key, now)
        PROVE  OneLiveDevice' /\ OpenRowIsAlone'
    BY <1>2, <2>2, ConsumeKeepsOneDevice
  <2>. QED
    BY <1>1, <1>3, <2>1, <2>2 DEF Enroll, CreateEnrollmentOf, EnrollAgent, DevicesInv
<1>4. CASE Revoke
  BY <1>1, <1>4, RevokeKeepsOneDevice DEF Revoke, DevicesInv
<1>5. CASE OperateDevices
  BY <1>1, <1>5, OperateKeepsOneDevice DEF OperateDevices, DevicesInv
<1>6. CASE UNCHANGED deviceVars
  BY <1>1, <1>6, FewerKeepOneDevice DEF deviceVars, DevicesInv
<1>7. UNCHANGED deviceVars \/ Enroll \/ Revoke \/ OperateDevices
  <2>1. Eject => UNCHANGED deviceVars
    BY DEF Eject, Issue, IssueFrame, AnswerFromRecord, deviceVars
  <2>. QED
    BY <2>1 DEF Next, vars, Pause, Grant, Relationship, Disconnect, Agent,
                OperateAccounts, Time
<1>. QED
  BY <1>3, <1>4, <1>5, <1>6, <1>7

(* The enrollment protocol's invariant holds from the first state on.      *)
THEOREM DevicesInvIsInductive == Spec => []DevicesInv
<1>. QED
  BY DevicesInvInit, DevicesInvStep, PTL DEF Spec

(* However enrollments, consumptions and revocations of one owner          *)
(* interleave, the owner has at most one live device.                      *)
THEOREM OwnersHaveOneDevice == Spec => []OneLiveDevice
<1>1. DevicesInv => OneLiveDevice
  BY DEF DevicesInv
<1>. QED
  BY <1>1, DevicesInvIsInductive, PTL

(* A secret is open only while its owner has no live device, and is then   *)
(* the owner's only open one.                                              *)
THEOREM OpenSecretsAreAlone == Spec => []OpenEnrollmentIsAlone
<1>1. DevicesInv => OpenEnrollmentIsAlone
  BY DEF DevicesInv, OpenRowIsAlone, OpenEnrollmentIsAlone, LiveDevices,
         OpenEnrollments
<1>. QED
  BY <1>1, DevicesInvIsInductive, PTL
----------------------------------------------------------------------------
(* Consent.                                                                *)

(* A command's recipient has an access policy: issuing read it.            *)
RecipientsHavePolicies ==
  \A id \in DOMAIN commands : commands[id].recipient \in DOMAIN policies

ConsentInv ==
  /\ TypeOK
  /\ RecipientsHavePolicies
  /\ PausedRecipientIsLeftAlone
  /\ OutstandingHasConsent
  /\ GrantsNeedRelationship

(* What every action but Issue does to the commands: none appears, none    *)
(* changes hands and none becomes outstanding again.                       *)
CommandsOnlySettle ==
  /\ DOMAIN commands' = DOMAIN commands
  /\ \A id \in DOMAIN commands :
       /\ commands'[id].actor = commands[id].actor
       /\ commands'[id].recipient = commands[id].recipient
       /\ commands'[id].device = commands[id].device
       /\ commands'[id].replyTo = commands[id].replyTo
       /\ commands'[id].issuedAt = commands[id].issuedAt
       /\ commands'[id].status \in Outstanding => commands[id].status \in Outstanding

(* Setting the status of outstanding commands only settles.                *)
LEMMA AdvanceSettles ==
  ASSUME TypeOK, NEW ids, NEW status, NEW path, NEW now,
         \A id \in ids \cap DOMAIN commands : IsOutstanding(id),
         Advance(ids, status, path, now)
  PROVE  /\ CommandsOnlySettle
         /\ \A id \in ids \cap DOMAIN commands : commands'[id].status = status
<1>1. \A id \in DOMAIN commands : commands[id] \in CommandRow
  BY DEF TypeOK, CommandsTypeOK
<1>2. \A id \in DOMAIN commands \ ids : commands'[id] = commands[id]
  BY DEF Advance
<1>3. \A id \in DOMAIN commands \cap ids :
        commands'[id] = [commands[id] EXCEPT !.status = status]
  BY DEF Advance
<1>4. DOMAIN commands' = DOMAIN commands
  BY DEF Advance
<1>. QED
  BY <1>1, <1>2, <1>3, <1>4 DEF CommandsOnlySettle, IsOutstanding, CommandRow

(* Cancelling between pairs settles, and leaves nothing outstanding there. *)
LEMMA CancelSettles ==
  ASSUME TypeOK, NEW pairs, NEW now, CancelBetween(pairs, now)
  PROVE  /\ CommandsOnlySettle
         /\ \A id \in DOMAIN commands :
              <<commands[id].actor, commands[id].recipient>> \in pairs
                => commands'[id].status \notin Outstanding
<1>. DEFINE ids == {id \in DOMAIN commands :
                      /\ IsOutstanding(id)
                      /\ <<commands[id].actor, commands[id].recipient>> \in pairs}
<1>1. Advance(ids, "CANCELLED", <<"CANCELLED">>, now)
  BY DEF CancelBetween
<1>2. /\ CommandsOnlySettle
      /\ \A id \in ids \cap DOMAIN commands : commands'[id].status = "CANCELLED"
  BY <1>1, AdvanceSettles
<1>. QED
  BY <1>2 DEF CommandsOnlySettle, Outstanding, IsOutstanding

(* Leaving the commands alone settles nothing.                             *)
LEMMA UnchangedSettles ==
  ASSUME UNCHANGED commandVars
  PROVE  CommandsOnlySettle
BY DEF commandVars, CommandsOnlySettle

(* Revoking a device settles its commands.                                 *)
LEMMA RevokeSettles ==
  ASSUME TypeOK, NEW device, NEW now, CancelForDevice(device, now)
  PROVE  CommandsOnlySettle
BY AdvanceSettles DEF CancelForDevice, OutstandingFor

(* What an agent is handed was outstanding, and what it reports on too.    *)
LEMMA AgentSettles ==
  ASSUME TypeOK, Agent
  PROVE  CommandsOnlySettle
<1>1. PICK device \in Device, key \in KeyId, nonce \in Nonce, now \in Recent :
        \/ Poll(device, key, nonce, now)
        \/ \E id \in DOMAIN commands, observation \in Observation :
             IngestResult(device, key, nonce, id, observation, now)
        \/ RefuseAgentRequest(device, key, nonce, now)
  BY DEF Agent
<1>2. CASE UNCHANGED commandVars
  BY <1>2, UnchangedSettles
<1>3. ASSUME NEW id \in Oldest(device), HandOut(id, device, now)
      PROVE  CommandsOnlySettle
  <2>1. IsOutstanding(id)
    BY DEF Oldest, OutstandingFor
  <2>2. \/ \E status, path : Advance({id}, status, path, now)
        \/ UNCHANGED commandVars
    BY <1>3 DEF HandOut
  <2>. QED
    BY <1>2, <2>1, <2>2, AdvanceSettles
<1>4. ASSUME NEW id \in DOMAIN commands, NEW observation \in Observation,
             IngestResult(device, key, nonce, id, observation, now)
      PROVE  CommandsOnlySettle
  <2>1. CASE AwaitsResult(id, device)
    <3>1. IsOutstanding(id)
      BY <2>1 DEF AwaitsResult, IsOutstanding, Outstanding
    <3>2. \E status, path : Advance({id}, status, path, now)
      BY <1>4, <2>1 DEF IngestResult
    <3>. QED
      BY <3>1, <3>2, AdvanceSettles
  <2>2. CASE ~AwaitsResult(id, device)
    BY <1>2, <1>4, <2>2 DEF IngestResult, commandVars
  <2>. QED
    BY <2>1, <2>2
<1>. QED
  BY <1>1, <1>2, <1>3, <1>4 DEF Poll, RefuseAgentRequest
----------------------------------------------------------------------------
(* ConsentInv, action by action.                                           *)

(* With no command and only grants that stand on a relationship.           *)
LEMMA ConsentInit == Init => ConsentInv
<1>. SUFFICES ASSUME Init PROVE ConsentInv
  OBVIOUS
<1>1. TypeOK
  BY InitType
<1>2. DOMAIN commands = {}
  BY DEF Init, CommandsInit
<1>3. GrantsNeedRelationship
  BY DEF Init, PermissionsInit, GrantsNeedRelationship
<1>. QED
  BY <1>1, <1>2, <1>3 DEF ConsentInv, RecipientsHavePolicies,
     PausedRecipientIsLeftAlone, OutstandingHasConsent

(* Where permissions stay as they are, settling commands disturbs nothing. *)
LEMMA SettleKeepsConsent ==
  ASSUME ConsentInv, TypeOK', CommandsOnlySettle,
         UNCHANGED <<policies, relationships, grants>>
  PROVE  ConsentInv'
<1>1. RecipientsHavePolicies'
  BY DEF ConsentInv, RecipientsHavePolicies, CommandsOnlySettle
<1>2. PausedRecipientIsLeftAlone'
  BY DEF ConsentInv, PausedRecipientIsLeftAlone, CommandsOnlySettle,
         IsOutstanding
<1>3. OutstandingHasConsent'
  BY DEF ConsentInv, OutstandingHasConsent, CommandsOnlySettle,
         IsOutstanding, Connected
<1>4. GrantsNeedRelationship'
  BY DEF ConsentInv, GrantsNeedRelationship, Connected
<1>. QED
  BY <1>1, <1>2, <1>3, <1>4 DEF ConsentInv

(* Pausing cancels everything outstanding for the recipient.               *)
LEMMA PauseKeepsConsent ==
  ASSUME ConsentInv, TypeOK', NEW recipient \in Person, NEW paused \in BOOLEAN,
         NEW now, NEW began, SetPaused(recipient, paused, now, began)
  PROVE  ConsentInv'
<1>1. CommandsOnlySettle
  BY CancelSettles, UnchangedSettles DEF SetPaused, ConsentInv
<1>2. \A id \in DOMAIN commands :
        paused /\ commands[id].recipient = recipient
          => commands'[id].status \notin Outstanding
  <2>1. \A id \in DOMAIN commands : commands[id].actor \in Person
    BY DEF ConsentInv, TypeOK, CommandsTypeOK, CommandRow
  <2>2. CASE paused
    BY <2>1, <2>2, CancelSettles DEF SetPaused, ConsentInv
  <2>. QED
    BY <2>2
<1>3. /\ DOMAIN policies \subseteq DOMAIN policies'
      /\ \A p \in DOMAIN policies \ {recipient} : policies'[p] = policies[p]
  BY DEF SetPaused, Put
<1>4. /\ policies'[recipient].paused = paused
      /\ recipient \in DOMAIN policies
           => policies'[recipient].audienceScope
                = policies[recipient].audienceScope
  <2>. DEFINE old == PutIfAbsent(policies, recipient, DefaultPolicy)[recipient]
  <2>1. recipient \in DOMAIN policies => old = policies[recipient]
    BY DefaultPolicyType
       DEF PutIfAbsent, Put, ConsentInv, TypeOK, PermissionsTypeOK
  <2>2. old \in PolicyRow
    BY DefaultPolicyType
       DEF PutIfAbsent, Put, ConsentInv, TypeOK, PermissionsTypeOK
  <2>3. policies'[recipient] = [old EXCEPT !.paused = paused]
    BY DEF SetPaused, Put
  <2>. HIDE DEF old
  <2>. QED
    BY <2>1, <2>2, <2>3 DEF PolicyRow
<1>5. UNCHANGED <<relationships, grants>>
  BY DEF SetPaused
<1>6. RecipientsHavePolicies'
  BY <1>1, <1>3 DEF ConsentInv, RecipientsHavePolicies, CommandsOnlySettle
<1>7. PausedRecipientIsLeftAlone'
  BY <1>1, <1>2, <1>3, <1>4
     DEF ConsentInv, PausedRecipientIsLeftAlone, RecipientsHavePolicies,
         CommandsOnlySettle, IsOutstanding
<1>8. OutstandingHasConsent'
  <2>1. \A id \in DOMAIN commands :
          policies'[commands[id].recipient].audienceScope
            = policies[commands[id].recipient].audienceScope
    BY <1>3, <1>4 DEF ConsentInv, RecipientsHavePolicies
  <2>. QED
    BY <1>1, <1>5, <2>1
       DEF ConsentInv, OutstandingHasConsent, CommandsOnlySettle, IsOutstanding,
           Connected
<1>9. GrantsNeedRelationship'
  BY <1>5 DEF ConsentInv, GrantsNeedRelationship, Connected
<1>. QED
  BY <1>6, <1>7, <1>8, <1>9 DEF ConsentInv

(* A grant is only given over an active relationship; revoking one cancels *)
(* what stood on it.                                                       *)
LEMMA GrantKeepsConsent ==
  ASSUME ConsentInv, TypeOK', NEW recipient \in Person, NEW actor \in Person,
         NEW now, NEW began,
         \/ GiveGrant(recipient, actor, began)
         \/ RevokeGrant(recipient, actor, now, began)
  PROVE  ConsentInv'
<1>1. CommandsOnlySettle
  BY CancelSettles, UnchangedSettles DEF GiveGrant, RevokeGrant, ConsentInv
<1>2. /\ policies' = PutIfAbsent(policies, recipient, DefaultPolicy)
      /\ UNCHANGED relationships
  BY DEF GiveGrant, RevokeGrant
<1>3. /\ DOMAIN policies \subseteq DOMAIN policies'
      /\ \A p \in DOMAIN policies : policies'[p] = policies[p]
  BY <1>2 DEF PutIfAbsent, Put
<1>4. RecipientsHavePolicies'
  BY <1>1, <1>3 DEF ConsentInv, RecipientsHavePolicies, CommandsOnlySettle
<1>5. PausedRecipientIsLeftAlone'
  BY <1>1, <1>3 DEF ConsentInv, PausedRecipientIsLeftAlone,
     RecipientsHavePolicies, CommandsOnlySettle, IsOutstanding
<1>6. OutstandingHasConsent'
  <2>1. ASSUME NEW id \in DOMAIN commands,
               commands'[id].status \in Outstanding,
               <<commands[id].recipient, commands[id].actor>> \in grants
        PROVE  <<commands[id].recipient, commands[id].actor>> \in grants'
    <3>1. CASE GiveGrant(recipient, actor, began)
      BY <2>1, <3>1 DEF GiveGrant
    <3>2. CASE RevokeGrant(recipient, actor, now, began)
      BY <2>1, <3>2, CancelSettles DEF RevokeGrant, ConsentInv
    <3>. QED
      BY <3>1, <3>2
  <2>. QED
    BY <1>1, <1>2, <1>3, <2>1
       DEF ConsentInv, OutstandingHasConsent, RecipientsHavePolicies,
           CommandsOnlySettle, IsOutstanding, Connected
<1>7. GrantsNeedRelationship'
  <2>1. \A pair \in grants' :
          \/ pair \in grants
          \/ /\ pair[1] = recipient /\ pair[2] = actor
             /\ Connected(recipient, actor)
    BY DEF GiveGrant, RevokeGrant, MayGrant
  <2>. QED
    BY <1>2, <2>1 DEF ConsentInv, GrantsNeedRelationship, Connected
<1>. QED
  BY <1>4, <1>5, <1>6, <1>7 DEF ConsentInv

(* The two directions between two people are one unordered pair.           *)
LEMMA BothWaysIsOnePair ==
  ASSUME NEW p, NEW q, NEW a, NEW b
  PROVE  <<a, b>> \in BothWays(p, q) <=> {a, b} = {p, q}
BY DEF BothWays

(* Reconnecting drops only grants that could not have stood.               *)
LEMMA AcceptKeepsConsent ==
  ASSUME ConsentInv, TypeOK', NEW accepter, NEW code, NEW now, NEW removed,
         AcceptInvitation(accepter, code, now, removed)
  PROVE  ConsentInv'
<1>. DEFINE inviter == invitations[code].inviter
<1>1. CommandsOnlySettle /\ UNCHANGED policies
  BY UnchangedSettles DEF AcceptInvitation
<1>2. CASE Connected(inviter, accepter)
  BY <1>1, <1>2, SettleKeepsConsent DEF AcceptInvitation
<1>3. CASE ~Connected(inviter, accepter)
  <2>1. /\ relationships' = Put(relationships, {inviter, accepter},
                                [active |-> TRUE, createdAt |-> now])
        /\ grants' = IF {inviter, accepter} \in DOMAIN relationships
                       THEN grants \ BothWays(inviter, accepter)
                       ELSE grants
    BY <1>3 DEF AcceptInvitation
  <2>. HIDE DEF inviter
  <2>2. ASSUME NEW p, NEW q, Connected(p, q)
        PROVE  Connected(p, q)'
    BY <2>1, <2>2 DEF Connected, Put
  <2>3. ASSUME NEW p, NEW q, Connected(p, q), <<q, p>> \in grants
        PROVE  <<q, p>> \in grants'
    <3>1. {p, q} # {inviter, accepter}
      BY <1>3, <2>3 DEF Connected
    <3>2. <<q, p>> \notin BothWays(inviter, accepter)
      BY <3>1, BothWaysIsOnePair
    <3>. QED
      BY <2>1, <2>3, <3>2
  <2>4. RecipientsHavePolicies' /\ PausedRecipientIsLeftAlone'
    BY <1>1 DEF ConsentInv, RecipientsHavePolicies, PausedRecipientIsLeftAlone,
                CommandsOnlySettle, IsOutstanding
  <2>5. OutstandingHasConsent'
    BY <1>1, <2>2, <2>3
       DEF ConsentInv, OutstandingHasConsent, CommandsOnlySettle, IsOutstanding
  <2>6. GrantsNeedRelationship'
    BY <2>1, <2>2 DEF ConsentInv, GrantsNeedRelationship
  <2>. QED
    BY <2>4, <2>5, <2>6 DEF ConsentInv
<1>. QED
  BY <1>2, <1>3

(* Whoever disconnects, both directions lose their grants and commands.    *)
LEMMA DisconnectKeepsConsent ==
  ASSUME ConsentInv, TypeOK', NEW person, NEW other, NEW now,
         DisconnectRelationship(person, other, now)
  PROVE  ConsentInv'
<1>1. UNCHANGED policies
  BY DEF DisconnectRelationship
<1>2. CASE ~Connected(person, other)
  BY <1>1, <1>2, UnchangedSettles, SettleKeepsConsent DEF DisconnectRelationship
<1>3. CASE Connected(person, other)
  <2>1. /\ relationships' =
             [relationships EXCEPT ![{person, other}].active = FALSE]
        /\ grants' = grants \ BothWays(person, other)
        /\ CancelBetween(BothWays(person, other), now)
    BY <1>3 DEF DisconnectRelationship
  <2>2. /\ CommandsOnlySettle
        /\ \A id \in DOMAIN commands :
             <<commands[id].actor, commands[id].recipient>>
               \in BothWays(person, other)
             => commands'[id].status \notin Outstanding
    BY <2>1, CancelSettles DEF ConsentInv
  <2>3. ASSUME NEW p, NEW q, Connected(p, q), {p, q} # {person, other}
        PROVE  /\ Connected(p, q)'
               /\ <<q, p>> \in grants => <<q, p>> \in grants'
    <3>1. <<q, p>> \notin BothWays(person, other)
      BY <2>3, BothWaysIsOnePair
    <3>2. Connected(p, q)'
      BY <2>1, <2>3 DEF Connected
    <3>. QED
      BY <2>1, <3>1, <3>2
  <2>4. RecipientsHavePolicies' /\ PausedRecipientIsLeftAlone'
    BY <1>1, <2>2 DEF ConsentInv, RecipientsHavePolicies,
       PausedRecipientIsLeftAlone, CommandsOnlySettle, IsOutstanding
  <2>5. OutstandingHasConsent'
    <3>1. ASSUME NEW id \in DOMAIN commands, commands'[id].status \in Outstanding
          PROVE  {commands[id].actor, commands[id].recipient} # {person, other}
      BY <2>2, <3>1, BothWaysIsOnePair
    <3>. QED
      BY <1>1, <2>2, <2>3, <3>1
         DEF ConsentInv, OutstandingHasConsent, CommandsOnlySettle, IsOutstanding
  <2>6. GrantsNeedRelationship'
    <3>1. ASSUME NEW pair \in grants' PROVE Connected(pair[1], pair[2])'
      <4>1. pair \in grants /\ pair \notin BothWays(person, other)
        BY <2>1
      <4>2. pair = <<pair[1], pair[2]>>
        BY <4>1 DEF ConsentInv, TypeOK, PermissionsTypeOK
      <4>3. {pair[1], pair[2]} # {person, other}
        BY <4>1, <4>2, BothWaysIsOnePair
      <4>. QED
        BY <2>3, <4>1, <4>3 DEF ConsentInv, GrantsNeedRelationship
    <3>. QED
      BY <3>1 DEF GrantsNeedRelationship
  <2>. QED
    BY <2>4, <2>5, <2>6 DEF ConsentInv
<1>. QED
  BY <1>2, <1>3

(* What the policy authorizes: a recipient who is not paused, and access.  *)
LEMMA AuthorizedMeans ==
  ASSUME NEW facts, NEW now, AuthorizeEject(facts, now) = "AUTHORIZED"
  PROVE  ~facts.recipientPaused /\ HasAccess(facts)
BY DEF AuthorizeEject

(* A command is queued only on what the transaction itself read.           *)
LEMMA IssueKeepsConsent ==
  ASSUME ConsentInv, TypeOK', NEW actor \in Person, NEW key \in Key,
         NEW recipient \in Person, NEW replyTo, NEW id \in Id,
         NEW now, NEW began,
         Issue(actor, key, recipient, replyTo, id, now, began)
  PROVE  ConsentInv'
<1>. DEFINE facts == Facts(actor, recipient, replyTo, now, began)
            decision == AuthorizeEject(facts, now)
<1>1. UNCHANGED permissionVars
  BY DEF Issue, IssueFrame
<1>2. CASE decision = "AUTHORIZED"
  <2>. HIDE DEF facts
  <2>1. PICK device \in EligibleDevices(recipient) :
          RecordQueued(actor, key, recipient, replyTo, id, now, began, device)
    BY <1>2 DEF Issue, facts
  <2>2. id \notin DOMAIN commands /\ recipient \in DOMAIN policies
    BY DEF Issue, ConsentInv, TypeOK, CommandsTypeOK
  <2>3. /\ DOMAIN commands' = DOMAIN commands \cup {id}
        /\ \A old \in DOMAIN commands : commands'[old] = commands[old]
        /\ commands'[id].actor = actor
        /\ commands'[id].recipient = recipient
        /\ commands'[id].replyTo = replyTo
    BY <2>1, <2>2 DEF RecordQueued, Put
  <2>4. ~facts.recipientPaused /\ HasAccess(facts)
    BY <1>2, AuthorizedMeans
  <2>5. ~policies[recipient].paused
    BY <2>4 DEF facts, Facts
  <2>6. ASSUME replyTo = None, policies[recipient].audienceScope # "ALL_AUTHENTICATED"
        PROVE  /\ Connected(actor, recipient)
               /\ policies[recipient].audienceScope = "NAMED"
                    => <<recipient, actor>> \in grants
    <3>1. /\ facts.ejectBack = FALSE
          /\ facts.audienceScope = policies[recipient].audienceScope
          /\ facts.relationshipActive = Connected(actor, recipient)
          /\ facts.directionalGrantActive = (<<recipient, actor>> \in grants)
      BY <2>6 DEF facts, Facts
    <3>2. policies[recipient].audienceScope \in {"NAMED", "CONNECTED"}
      BY <2>2, <2>6 DEF ConsentInv, TypeOK, PermissionsTypeOK, PolicyRow
    <3>. QED
      BY <2>4, <3>1, <3>2 DEF HasAccess
  <2>7. RecipientsHavePolicies'
    BY <1>1, <2>2, <2>3 DEF ConsentInv, RecipientsHavePolicies, permissionVars
  <2>8. PausedRecipientIsLeftAlone'
    BY <1>1, <2>3, <2>5 DEF ConsentInv, PausedRecipientIsLeftAlone,
       permissionVars, IsOutstanding
  <2>9. OutstandingHasConsent'
    BY <1>1, <2>3, <2>6 DEF ConsentInv, OutstandingHasConsent, permissionVars,
       IsOutstanding, Connected
  <2>10. GrantsNeedRelationship'
    BY <1>1 DEF ConsentInv, GrantsNeedRelationship, permissionVars, Connected
  <2>. QED
    BY <2>7, <2>8, <2>9, <2>10 DEF ConsentInv
<1>3. CASE decision # "AUTHORIZED"
  <2>1. UNCHANGED commands
    BY <1>3 DEF Issue, RecordRejection
  <2>2. CommandsOnlySettle
    BY <2>1 DEF CommandsOnlySettle
  <2>. QED
    BY <1>1, <2>2, SettleKeepsConsent DEF permissionVars
<1>. QED
  BY <1>2, <1>3

(* Every step keeps the invariant.                                         *)
LEMMA ConsentStep == ConsentInv /\ [Next]_vars => ConsentInv'
<1>. SUFFICES ASSUME ConsentInv, [Next]_vars PROVE ConsentInv'
  OBVIOUS
<1>1. TypeOK'
  BY StepType DEF ConsentInv
<1>. USE <1>1
<1>2. CASE CommandsOnlySettle /\ UNCHANGED <<policies, relationships, grants>>
  BY <1>2, SettleKeepsConsent
<1>3. CASE Pause
  BY <1>3, PauseKeepsConsent DEF Pause
<1>4. CASE Grant
  BY <1>4, GrantKeepsConsent DEF Grant
<1>5. CASE Relationship
  <2>1. CASE UNCHANGED <<policies, relationships, grants, commandVars>>
    BY <1>2, <2>1, UnchangedSettles
  <2>2. PICK now \in Recent, removed \in SUBSET DOMAIN invitations :
          \/ \E person \in Person, code \in Code :
               \/ CreateInvitation(person, code, now, removed)
               \/ AcceptInvitation(person, code, now, removed)
               \/ RefuseAcceptance(person, code, now, removed)
          \/ \E person \in Person : RefuseInvitation(person, now, removed)
          \/ CleanupInvitations(now, removed)
    BY <1>5 DEF Relationship
  <2>3. ASSUME NEW person \in Person, NEW code \in Code,
               AcceptInvitation(person, code, now, removed)
        PROVE  ConsentInv'
    BY <2>3, AcceptKeepsConsent
  <2>. QED
    BY <2>1, <2>2, <2>3 DEF CreateInvitation, RefuseAcceptance,
       RefuseInvitation, CleanupInvitations
<1>6. CASE Disconnect
  BY <1>6, DisconnectKeepsConsent DEF Disconnect
<1>7. CASE Enroll
  BY <1>2, <1>7, UnchangedSettles DEF Enroll, CreateEnrollmentOf,
     EnrollAgent, CreateEnrollment, ConsumeEnrollment, permissionVars
<1>8. CASE Revoke
  <2>1. CommandsOnlySettle
    BY <1>8, RevokeSettles DEF Revoke, RevokeDevice, ConsentInv
  <2>. QED
    BY <1>2, <1>8, <2>1 DEF Revoke, permissionVars
<1>9. CASE Eject
  <2>1. PICK route \in Route, key \in Key, now \in Recent :
          \E began \in BeganAfter(now) :
            \/ \E replyTo \in Reply, id \in Id :
                 Issue(route[1], key, route[2], replyTo, id, now, began)
            \/ AnswerFromRecord(route[1], key, route[2], began)
    BY <1>9 DEF Eject
  <2>2. route[1] \in Person /\ route[2] \in Person /\ Reply \subseteq Id \cup {None}
    BY RouteAssumption
  <2>3. CASE \E began : AnswerFromRecord(route[1], key, route[2], began)
    BY <1>2, <2>3, UnchangedSettles DEF AnswerFromRecord, IssueFrame,
       permissionVars
  <2>. QED
    BY <2>1, <2>2, <2>3, IssueKeepsConsent
<1>10. CASE Agent
  <2>1. CommandsOnlySettle
    BY <1>10, AgentSettles DEF ConsentInv
  <2>. QED
    BY <1>2, <1>10, <2>1 DEF Agent, permissionVars
<1>11. CASE OperateAccounts
  BY <1>2, <1>11, UnchangedSettles DEF OperateAccounts, permissionVars
<1>12. CASE OperateDevices
  BY <1>2, <1>12, UnchangedSettles DEF OperateDevices, CompleteSetup,
     SetAvailable, permissionVars
<1>13. CASE Time
  BY <1>2, <1>13, UnchangedSettles DEF Time, permissionVars
<1>14. CASE UNCHANGED vars
  BY <1>2, <1>14, UnchangedSettles DEF vars, permissionVars
<1>. QED
  BY <1>3, <1>4, <1>5, <1>6, <1>7, <1>8, <1>9, <1>10, <1>11, <1>12, <1>13, <1>14
     DEF Next

(* Consent holds in every reachable state: the inductive invariant behind  *)
(* the three theorems that follow.                                         *)
THEOREM ConsentIsInductive == Spec => []ConsentInv
<1>. QED
  BY ConsentInit, ConsentStep, PTL DEF Spec

(* A paused recipient has nothing outstanding, whatever issuing, polling   *)
(* and pausing interleave.                                                 *)
THEOREM PauseIsEffective == Spec => []PausedRecipientIsLeftAlone
<1>1. ConsentInv => PausedRecipientIsLeftAlone
  BY DEF ConsentInv
<1>. QED
  BY <1>1, ConsentIsInductive, PTL

(* No command outlives the relationship and the grant it was issued under. *)
THEOREM ConsentOutlastsCommands == Spec => []OutstandingHasConsent
<1>1. ConsentInv => OutstandingHasConsent
  BY DEF ConsentInv
<1>. QED
  BY <1>1, ConsentIsInductive, PTL

(* No directional grant outlives its relationship.                         *)
THEOREM GrantsStandOnRelationships == Spec => []GrantsNeedRelationship
<1>1. ConsentInv => GrantsNeedRelationship
  BY DEF ConsentInv
<1>. QED
  BY <1>1, ConsentIsInductive, PTL
----------------------------------------------------------------------------
(* The promise: ControlPlane implements Consent, each of its steps is one  *)
(* the promise allows.                                                     *)

(* What keeps a command's device its recipient's: devices never change     *)
(* hands, and a revoked one never comes back.                              *)
DevicesOnlySettle ==
  /\ DOMAIN devices \subseteq DOMAIN devices'
  /\ \A d \in DOMAIN devices :
       /\ devices'[d].owner = devices[d].owner
       /\ devices'[d].state = "REVOKED" => devices[d].state = "REVOKED"

(* Where commands only settle and no device is revoked, the devices of the *)
(* outstanding commands stay live.                                         *)
LEMMA SettleKeepsDevices ==
  ASSUME RevokedDeviceIsLeftAlone, CommandsOnlySettle, DevicesOnlySettle
  PROVE  RevokedDeviceIsLeftAlone'
BY DEF RevokedDeviceIsLeftAlone, CommandsOnlySettle, DevicesOnlySettle,
       IsOutstanding

(* Leaving the devices alone settles nothing.                              *)
LEMMA DevicesStay ==
  ASSUME UNCHANGED devices
  PROVE  DevicesOnlySettle
BY DEF DevicesOnlySettle

(* Every action but Issue settles the commands.                            *)
LEMMA HandlersSettle ==
  ASSUME TypeOK, [Next]_vars, ~Eject
  PROVE  CommandsOnlySettle
<1>1. CASE Pause
  BY <1>1, CancelSettles, UnchangedSettles DEF Pause, SetPaused
<1>2. CASE Grant
  BY <1>2, CancelSettles, UnchangedSettles DEF Grant, GiveGrant, RevokeGrant
<1>3. CASE Relationship
  <2>1. PICK now \in Recent, removed \in SUBSET DOMAIN invitations :
          \/ \E person \in Person, code \in Code :
               \/ CreateInvitation(person, code, now, removed)
               \/ AcceptInvitation(person, code, now, removed)
               \/ RefuseAcceptance(person, code, now, removed)
          \/ \E person \in Person : RefuseInvitation(person, now, removed)
          \/ CleanupInvitations(now, removed)
    BY <1>3 DEF Relationship
  <2>2. UNCHANGED commandVars
    BY <2>1 DEF CreateInvitation, AcceptInvitation, RefuseAcceptance,
       RefuseInvitation, CleanupInvitations
  <2>. QED
    BY <2>2, UnchangedSettles
<1>4. CASE Disconnect
  BY <1>4, CancelSettles, UnchangedSettles DEF Disconnect, DisconnectRelationship
<1>5. CASE Enroll
  BY <1>5, UnchangedSettles DEF Enroll, CreateEnrollmentOf, EnrollAgent,
     CreateEnrollment, ConsumeEnrollment
<1>6. CASE Revoke
  BY <1>6, RevokeSettles DEF Revoke, RevokeDevice
<1>7. CASE Agent
  BY <1>7, AgentSettles
<1>8. CASE OperateAccounts
  BY <1>8, UnchangedSettles DEF OperateAccounts
<1>9. CASE OperateDevices
  BY <1>9, UnchangedSettles DEF OperateDevices, CompleteSetup, SetAvailable
<1>10. CASE Time
  BY <1>10, UnchangedSettles DEF Time
<1>11. CASE UNCHANGED vars
  BY <1>11, UnchangedSettles DEF vars
<1>. QED
  BY <1>1, <1>2, <1>3, <1>4, <1>5, <1>6, <1>7, <1>8, <1>9, <1>10, <1>11 DEF Next

(* Every action but a revocation keeps the devices.                        *)
LEMMA HandlersKeepDevices ==
  ASSUME TypeOK, [Next]_vars, ~Revoke
  PROVE  DevicesOnlySettle
<1>1. CASE UNCHANGED deviceVars
  BY <1>1, DevicesStay DEF deviceVars
<1>2. CASE Enroll
  <2>1. ASSUME NEW owner, NEW secret, NEW now,
               CreateEnrollment(owner, secret, now)
        PROVE  DevicesOnlySettle
    BY <2>1, DevicesStay DEF CreateEnrollment
  <2>2. ASSUME NEW secret, NEW device, NEW key, NEW now,
               ConsumeEnrollment(secret, device, key, now)
        PROVE  DevicesOnlySettle
    <3>1. device \notin DOMAIN devices
      BY <2>2 DEF ConsumeEnrollment
    <3>2. \E row : devices' = Put(devices, device, row)
      BY <2>2 DEF ConsumeEnrollment
    <3>. QED
      BY <3>1, <3>2 DEF Put, DevicesOnlySettle
  <2>. QED
    BY <1>2, <2>1, <2>2 DEF Enroll, CreateEnrollmentOf, EnrollAgent
<1>3. CASE OperateDevices
  <2>1. ASSUME NEW device \in Device, CompleteSetup(device)
        PROVE  DevicesOnlySettle
    <3>1. \A d \in DOMAIN devices : devices[d] \in DeviceRow
      BY DEF TypeOK, DevicesTypeOK
    <3>2. devices' = [devices EXCEPT ![device].state = "READY",
                                     ![device].available = TRUE]
      BY <2>1 DEF CompleteSetup
    <3>. QED
      BY <3>1, <3>2 DEF DevicesOnlySettle, DeviceRow
  <2>2. ASSUME NEW device \in Device, NEW available, SetAvailable(device, available)
        PROVE  DevicesOnlySettle
    <3>1. \A d \in DOMAIN devices : devices[d] \in DeviceRow
      BY DEF TypeOK, DevicesTypeOK
    <3>2. devices' = [devices EXCEPT ![device].available = available]
      BY <2>2 DEF SetAvailable
    <3>. QED
      BY <3>1, <3>2 DEF DevicesOnlySettle, DeviceRow
  <2>. QED
    BY <1>3, <2>1, <2>2 DEF OperateDevices
<1>. QED
  BY <1>1, <1>2, <1>3 DEF Next, vars, Pause, Grant, Relationship, Disconnect,
     Eject, Issue, AnswerFromRecord, IssueFrame, Agent, OperateAccounts, Time

(* Revoking a device cancels, in the same step, what is outstanding for it.*)
LEMMA RevokeKeepsDevices ==
  ASSUME TypeOK, RevokedDeviceIsLeftAlone, Revoke
  PROVE  RevokedDeviceIsLeftAlone'
<1>1. PICK owner \in Person, device \in Device, now \in Recent :
        RevokeDevice(owner, device, now)
  BY DEF Revoke
<1>. DEFINE ids == OutstandingFor(device)
<1>2. /\ CommandsOnlySettle
      /\ \A id \in ids \cap DOMAIN commands : commands'[id].status = "CANCELLED"
  <2>1. Advance(ids, "CANCELLED", <<"CANCELLED">>, now)
    BY <1>1 DEF RevokeDevice, CancelForDevice
  <2>2. \A id \in ids \cap DOMAIN commands : IsOutstanding(id)
    BY DEF OutstandingFor
  <2>. QED
    BY <2>1, <2>2, AdvanceSettles
<1>3. \A id \in DOMAIN commands :
        commands[id].device = device => commands'[id].status \notin Outstanding
  BY <1>2 DEF OutstandingFor, IsOutstanding, CommandsOnlySettle, Outstanding
<1>4. \A d \in DOMAIN devices : devices[d] \in DeviceRow
  BY DEF TypeOK, DevicesTypeOK
<1>5. /\ DOMAIN devices' = DOMAIN devices
      /\ \A d \in DOMAIN devices :
           /\ devices'[d].owner = devices[d].owner
           /\ d # device => devices'[d] = devices[d]
  BY <1>1, <1>4 DEF RevokeDevice, DeviceRow
<1>. QED
  BY <1>2, <1>3, <1>5 DEF RevokedDeviceIsLeftAlone, CommandsOnlySettle,
     IsOutstanding

(* A queued command is for a live device of its recipient.                 *)
LEMMA EjectKeepsDevices ==
  ASSUME TypeOK, RevokedDeviceIsLeftAlone, Eject
  PROVE  RevokedDeviceIsLeftAlone'
<1>1. PICK route \in Route, key \in Key, now \in Recent :
        \E began \in BeganAfter(now) :
          \/ \E replyTo \in Reply, id \in Id :
               Issue(route[1], key, route[2], replyTo, id, now, began)
          \/ AnswerFromRecord(route[1], key, route[2], began)
  BY DEF Eject
<1>2. DevicesOnlySettle
  BY DevicesStay DEF Eject, Issue, AnswerFromRecord, IssueFrame, deviceVars
<1>3. CASE UNCHANGED commands
  BY <1>2, <1>3, SettleKeepsDevices DEF CommandsOnlySettle
<1>4. ASSUME NEW began, NEW replyTo, NEW id,
             Issue(route[1], key, route[2], replyTo, id, now, began),
             NEW device \in EligibleDevices(route[2]),
             RecordQueued(route[1], key, route[2], replyTo, id, now, began,
                          device)
      PROVE  RevokedDeviceIsLeftAlone'
  <2>1. /\ DOMAIN commands' = DOMAIN commands \cup {id}
        /\ \A old \in DOMAIN commands \ {id} : commands'[old] = commands[old]
        /\ commands'[id].recipient = route[2]
        /\ commands'[id].device = device
    BY <1>4 DEF RecordQueued, Put
  <2>2. /\ device \in DOMAIN devices
        /\ devices[device].owner = route[2]
        /\ devices[device].state # "REVOKED"
    BY DEF EligibleDevices, LiveDevices
  <2>3. UNCHANGED devices
    BY <1>4 DEF Issue, IssueFrame, deviceVars
  <2>. QED
    BY <2>1, <2>2, <2>3 DEF RevokedDeviceIsLeftAlone, IsOutstanding
<1>. QED
  BY <1>1, <1>3, <1>4 DEF Issue, RecordRejection, AnswerFromRecord, commandVars

(* What the promise needs of a state.                                      *)
PromiseInv == ConsentInv /\ RevokedDeviceIsLeftAlone

(* At first nothing is outstanding.                                        *)
LEMMA PromiseInit == Init => PromiseInv
BY ConsentInit DEF PromiseInv, Init, CommandsInit, RevokedDeviceIsLeftAlone

(* Every handler leaves revoked devices alone.                             *)
LEMMA PromiseStep == PromiseInv /\ [Next]_vars => PromiseInv'
<1>. SUFFICES ASSUME PromiseInv, [Next]_vars PROVE PromiseInv'
  OBVIOUS
<1>1. ConsentInv' /\ TypeOK
  BY ConsentStep DEF PromiseInv, ConsentInv
<1>2. CASE Eject
  BY <1>1, <1>2, EjectKeepsDevices DEF PromiseInv
<1>3. CASE Revoke
  BY <1>1, <1>3, RevokeKeepsDevices DEF PromiseInv
<1>4. CASE ~Eject /\ ~Revoke
  BY <1>1, <1>4, HandlersSettle, HandlersKeepDevices, SettleKeepsDevices
     DEF PromiseInv
<1>. QED
  BY <1>1, <1>2, <1>3, <1>4

(* The invariant behind the refinement, in every reachable state.          *)
THEOREM PromiseIsInductive == Spec => []PromiseInv
<1>. QED
  BY PromiseInit, PromiseStep, PTL DEF Spec

(* A revoked device has nothing outstanding, whatever issuing, polling and *)
(* revoking interleave, and a command's device is always its recipient's.  *)
THEOREM RevocationIsEffective == Spec => []RevokedDeviceIsLeftAlone
<1>1. PromiseInv => RevokedDeviceIsLeftAlone
  BY DEF PromiseInv
<1>. QED
  BY <1>1, PromiseIsInductive, PTL
----------------------------------------------------------------------------
(* Which step of the promise each handler takes.                           *)

(* Commands only end: none appears, none changes hands, and whichever is   *)
(* still outstanding is where it was.                                      *)
CommandsOnlyEnd ==
  /\ CommandsOnlySettle
  /\ \A id \in DOMAIN commands :
       commands'[id].status \in Outstanding
         => commands'[id].status = commands[id].status

(* Every outstanding command rests on a permission that stands.            *)
OutstandingIsPermitted ==
  \A id \in DOMAIN commands :
    IsOutstanding(id) => Ejects[id].permission \in StandingPermissions

(* What is outstanding has its grant, or is the reply to an eject.         *)
LEMMA InvariantPermits == PromiseInv => OutstandingIsPermitted
<1>. SUFFICES ASSUME PromiseInv, NEW id \in DOMAIN commands, IsOutstanding(id)
              PROVE  Ejects[id].permission \in StandingPermissions
  BY DEF OutstandingIsPermitted
<1>. DEFINE row == commands[id]
<1>1. row \in CommandRow /\ row.recipient \in DOMAIN policies
  BY DEF PromiseInv, ConsentInv, TypeOK, CommandsTypeOK, RecipientsHavePolicies
<1>2. <<row.actor, row.recipient, row.device, KindOf(id)>> \in Permission
  BY <1>1 DEF CommandRow, Permission, KindOf
<1>3. row.device \in LiveDevices(row.recipient)
  BY DEF PromiseInv, RevokedDeviceIsLeftAlone, LiveDevices
<1>4. ~policies[row.recipient].paused
  BY DEF PromiseInv, ConsentInv, PausedRecipientIsLeftAlone
<1>5. \/ KindOf(id) = "EJECT_BACK"
      \/ policies[row.recipient].audienceScope = "ALL_AUTHENTICATED"
      \/ /\ Connected(row.actor, row.recipient)
         /\ policies[row.recipient].audienceScope = "NAMED"
              => <<row.recipient, row.actor>> \in grants
  BY DEF PromiseInv, ConsentInv, OutstandingHasConsent, KindOf
<1>6. MayEject(row.actor, row.recipient, row.device, KindOf(id))
  BY <1>1, <1>3, <1>4, <1>5 DEF MayEject
<1>. QED
  BY <1>2, <1>6 DEF Ejects, StandingPermissions

(* Where commands only end, the promise sees a change: those that ended    *)
(* are all that could have lost their permission.                          *)
LEMMA EndingIsChange ==
  ASSUME PromiseInv, PromiseInv', CommandsOnlyEnd
  PROVE  Promise!Next
<1>. DEFINE ended == {id \in DOMAIN commands : commands'[id].status \notin Outstanding}
<1>1. DOMAIN Ejects = DOMAIN commands /\ DOMAIN Ejects' = DOMAIN commands'
  BY DEF Ejects
<1>2. StandingPermissions' \in SUBSET Permission
  BY DEF StandingPermissions
<1>3. ASSUME NEW id \in DOMAIN Ejects \ ended
      PROVE  Ejects[id].permission \in StandingPermissions'
  <2>1. id \in DOMAIN commands' /\ IsOutstanding(id)'
    BY <1>1, <1>3 DEF CommandsOnlyEnd, CommandsOnlySettle, IsOutstanding
  <2>2. Ejects'[id].permission \in StandingPermissions'
    <3>1. OutstandingIsPermitted'
      BY InvariantPermits, PTL
    <3>. QED
      BY <2>1, <3>1 DEF OutstandingIsPermitted
  <2>3. Ejects'[id].permission = Ejects[id].permission
    BY <1>1, <1>3 DEF Ejects, KindOf, CommandsOnlyEnd, CommandsOnlySettle
  <2>. QED
    BY <2>2, <2>3
<1>4. Ejects' = [c \in DOMAIN Ejects |->
                   IF c \in ended THEN [Ejects[c] EXCEPT !.state = "ENDED"]
                                  ELSE Ejects[c]]
  <2>1. ASSUME NEW c \in DOMAIN commands
        PROVE  Ejects'[c] = IF c \in ended
                              THEN [Ejects[c] EXCEPT !.state = "ENDED"]
                              ELSE Ejects[c]
    BY DEF Ejects, KindOf, CommandsOnlyEnd, CommandsOnlySettle, IsOutstanding
  <2>2. DOMAIN commands' = DOMAIN commands
    BY DEF CommandsOnlyEnd, CommandsOnlySettle
  <2>. QED
    BY <1>1, <2>1, <2>2 DEF Ejects
<1>5. ended \in SUBSET DOMAIN Ejects
  BY <1>1
<1>6. Promise!Change(ended)
  BY <1>2, <1>3, <1>4 DEF Promise!Change
<1>. QED
  BY <1>5, <1>6 DEF Promise!Next

(* Setting a final status, or the same one, only ends.                     *)
LEMMA AdvanceEnds ==
  ASSUME TypeOK, NEW ids, NEW status, NEW path, NEW now,
         \A id \in ids \cap DOMAIN commands : IsOutstanding(id),
         status \notin Outstanding,
         Advance(ids, status, path, now)
  PROVE  CommandsOnlyEnd
<1>1. \A id \in DOMAIN commands \ ids : commands'[id] = commands[id]
  BY DEF Advance
<1>. QED
  BY <1>1, AdvanceSettles DEF CommandsOnlyEnd

(* Cancelling between people only ends commands.                           *)
LEMMA CancelEnds ==
  ASSUME TypeOK, NEW pairs, NEW now, CancelBetween(pairs, now)
  PROVE  CommandsOnlyEnd
<1>. DEFINE ids == {id \in DOMAIN commands :
                      /\ IsOutstanding(id)
                      /\ <<commands[id].actor, commands[id].recipient>> \in pairs}
<1>1. Advance(ids, "CANCELLED", <<"CANCELLED">>, now)
  BY DEF CancelBetween
<1>2. "CANCELLED" \notin Outstanding
  BY DEF Outstanding
<1>3. \A id \in ids \cap DOMAIN commands : IsOutstanding(id)
  OBVIOUS
<1>. HIDE DEF ids
<1>. QED
  BY <1>1, <1>2, <1>3, AdvanceEnds

(* So does leaving the commands alone.                                     *)
LEMMA UnchangedEnds ==
  ASSUME UNCHANGED commands
  PROVE  CommandsOnlyEnd
BY DEF CommandsOnlyEnd, CommandsOnlySettle

(* An agent's request hands out one queued command or only ends commands.  *)
LEMMA AgentKeepsPromise ==
  ASSUME PromiseInv, PromiseInv', Agent
  PROVE  Promise!Next
<1>0. TypeOK
  BY DEF PromiseInv, ConsentInv
<1>1. PICK device \in Device, key \in KeyId, nonce \in Nonce, now \in Recent :
        \/ Poll(device, key, nonce, now)
        \/ \E id \in DOMAIN commands, observation \in Observation :
             IngestResult(device, key, nonce, id, observation, now)
        \/ RefuseAgentRequest(device, key, nonce, now)
  BY DEF Agent
<1>2. CASE UNCHANGED commandVars
  BY <1>2, UnchangedEnds, EndingIsChange DEF commandVars
<1>3. ASSUME NEW id \in Oldest(device), HandOut(id, device, now)
      PROVE  Promise!Next
  <2>1. id \in DOMAIN commands /\ IsOutstanding(id)
    BY DEF Oldest, OutstandingFor
  <2>2. CASE \/ Advance({id}, "EXPIRED", <<"EXPIRED">>, now)
             \/ Advance({id}, "CANCELLED", <<"CANCELLED">>, now)
    <3>1. CommandsOnlyEnd
      BY <1>0, <2>1, <2>2, AdvanceEnds DEF Outstanding
    <3>. QED
      BY <3>1, EndingIsChange
  <2>3. CASE /\ commands[id].status = "QUEUED"
             /\ Advance({id}, "DISPATCHED", <<"DISPATCHED">>, now)
    <3>1. /\ CommandsOnlySettle
          /\ commands'[id].status = "DISPATCHED"
          /\ \A c \in DOMAIN commands \ {id} : commands'[c] = commands[c]
      <4>1. \A c \in {id} \cap DOMAIN commands : IsOutstanding(c)
        BY <2>1
      <4>2. /\ CommandsOnlySettle
            /\ \A c \in {id} \cap DOMAIN commands :
                 commands'[c].status = "DISPATCHED"
        BY <1>0, <2>3, <4>1, AdvanceSettles
      <4>. QED
        BY <2>1, <2>3, <4>2 DEF Advance
    <3>2. ASSUME NEW c \in DOMAIN commands
          PROVE  Ejects'[c] = IF c = id
                                THEN [Ejects[c] EXCEPT !.state = "DISPATCHED"]
                                ELSE Ejects[c]
      BY <3>1 DEF Ejects, KindOf, CommandsOnlySettle, IsOutstanding, Outstanding
    <3>3. /\ DOMAIN Ejects = DOMAIN commands
          /\ DOMAIN Ejects' = DOMAIN commands
          /\ Ejects' = [c \in DOMAIN commands |-> Ejects'[c]]
      BY <3>1 DEF Ejects, CommandsOnlySettle
    <3>4. Ejects' = [Ejects EXCEPT ![id].state = "DISPATCHED"]
      BY <2>1, <3>2, <3>3
    <3>5. Ejects[id].state = "QUEUED"
      BY <2>1, <2>3 DEF Ejects
    <3>6. UNCHANGED StandingPermissions
      BY DEF Agent, permissionVars, deviceVars, StandingPermissions, MayEject,
             LiveDevices, Connected
    <3>7. id \in Id
      BY <1>0, <2>1 DEF TypeOK, CommandsTypeOK
    <3>8. Promise!HandOut(id)
      BY <2>1, <3>3, <3>4, <3>5, <3>6 DEF Promise!HandOut
    <3>. QED
      BY <3>7, <3>8 DEF Promise!Next
  <2>. QED
    BY <1>2, <1>3, <2>2, <2>3 DEF HandOut
<1>4. ASSUME NEW id \in DOMAIN commands, NEW observation \in Observation,
             IngestResult(device, key, nonce, id, observation, now)
      PROVE  Promise!Next
  <2>1. CASE AwaitsResult(id, device)
    <3>1. IsOutstanding(id)
      BY <2>1 DEF AwaitsResult, IsOutstanding, Outstanding
    <3>2. observation.result \in ResultCode
      BY TransportAssumption
    <3>3. ResultStatusOf(observation.result) \notin Outstanding
      BY <3>2 DEF ResultStatusOf, ResultCode, Outstanding
    <3>4. Advance({id}, ResultStatusOf(observation.result),
                  ResultPath(observation.result), now)
      BY <1>4, <2>1 DEF IngestResult
    <3>5. CommandsOnlyEnd
      BY <1>0, <3>1, <3>3, <3>4, AdvanceEnds
    <3>. QED
      BY <3>5, EndingIsChange
  <2>2. CASE ~AwaitsResult(id, device)
    BY <1>2, <1>4, <2>2 DEF IngestResult, commandVars
  <2>. QED
    BY <2>1, <2>2
<1>. QED
  BY <1>1, <1>2, <1>3, <1>4 DEF Poll, RefuseAgentRequest

(* A command is queued under a permission the transaction found standing.  *)
LEMMA IssueKeepsPromise ==
  ASSUME PromiseInv, PromiseInv', NEW actor \in Person, NEW key \in Key,
         NEW recipient \in Person, NEW replyTo, NEW id \in Id,
         NEW now, NEW began,
         Issue(actor, key, recipient, replyTo, id, now, began)
  PROVE  Promise!Next
<1>0. TypeOK
  BY DEF PromiseInv, ConsentInv
<1>1. UNCHANGED StandingPermissions
  BY DEF Issue, IssueFrame, permissionVars, deviceVars, StandingPermissions,
         MayEject, LiveDevices, Connected
<1>2. CASE UNCHANGED commands
  BY <1>2, UnchangedEnds, EndingIsChange
<1>3. ASSUME NEW device \in EligibleDevices(recipient),
             RecordQueued(actor, key, recipient, replyTo, id, now, began, device)
      PROVE  Promise!Next
  <2>. DEFINE row == [status |-> "QUEUED", actor |-> actor,
                      recipient |-> recipient, device |-> device,
                      replyTo |-> replyTo, issuedAt |-> now,
                      expiresAt |-> now + CommandTTL]
              permission == <<actor, recipient, device,
                              IF replyTo = None THEN "EJECT" ELSE "EJECT_BACK">>
  <2>1. id \notin DOMAIN commands
    BY <1>0 DEF Issue, TypeOK, CommandsTypeOK
  <2>2. commands' = Put(commands, id, row)
    BY <1>3 DEF RecordQueued
  <2>3. /\ DOMAIN commands' = DOMAIN commands \cup {id}
        /\ commands'[id] = row
        /\ \A c \in DOMAIN commands : commands'[c] = commands[c]
    BY <2>1, <2>2 DEF Put
  <2>4. \A c \in DOMAIN commands : Ejects'[c] = Ejects[c]
    BY <2>3 DEF Ejects, KindOf, IsOutstanding
  <2>5. Ejects'[id] = [permission |-> permission, state |-> "QUEUED"]
    BY <2>3 DEF Ejects, KindOf, IsOutstanding, Outstanding
  <2>6. /\ DOMAIN Ejects = DOMAIN commands
        /\ Ejects' = [c \in DOMAIN commands \cup {id} |-> Ejects'[c]]
    BY <2>3 DEF Ejects
  <2>7. Ejects' = [c \in DOMAIN Ejects \cup {id} |->
                     IF c = id
                       THEN [permission |-> permission, state |-> "QUEUED"]
                       ELSE Ejects[c]]
    <3>. HIDE DEF permission
    <3>. QED
      BY <2>4, <2>5, <2>6
  <2>8. permission \in StandingPermissions
    <3>1. IsOutstanding(id)' /\ id \in DOMAIN commands'
      BY <2>3 DEF IsOutstanding, Outstanding
    <3>2. OutstandingIsPermitted'
      BY InvariantPermits, PTL
    <3>3. Ejects'[id].permission \in StandingPermissions'
      BY <3>1, <3>2 DEF OutstandingIsPermitted
    <3>. HIDE DEF permission
    <3>. QED
      BY <1>1, <2>5, <3>3
  <2>9. permission \in Permission
    BY <2>8 DEF StandingPermissions
  <2>. HIDE DEF permission
  <2>10. Promise!Queue(id, permission)
    BY <1>1, <2>1, <2>6, <2>7, <2>8 DEF Promise!Queue
  <2>. QED
    BY <2>9, <2>10 DEF Promise!Next
<1>. QED
  BY <1>2, <1>3 DEF Issue, RecordRejection

(* Only a request to eject adds a command, and only an agent's request     *)
(* hands one out: every other step leaves the commands alone or ends some. *)
LEMMA OthersOnlyEnd ==
  ASSUME TypeOK, [Next]_vars, ~Eject, ~Agent
  PROVE  CommandsOnlyEnd
<1>1. CASE UNCHANGED commands
  BY <1>1, UnchangedEnds
<1>2. CASE \E pairs, now : CancelBetween(pairs, now)
  BY <1>2, CancelEnds
<1>3. CASE Pause
  BY <1>1, <1>2, <1>3 DEF Pause, SetPaused, commandVars
<1>4. CASE Grant
  BY <1>1, <1>2, <1>4 DEF Grant, GiveGrant, RevokeGrant, commandVars
<1>5. CASE Relationship
  <2>1. PICK now \in Recent, removed \in SUBSET DOMAIN invitations :
          \/ \E person \in Person, code \in Code :
               \/ CreateInvitation(person, code, now, removed)
               \/ AcceptInvitation(person, code, now, removed)
               \/ RefuseAcceptance(person, code, now, removed)
          \/ \E person \in Person : RefuseInvitation(person, now, removed)
          \/ CleanupInvitations(now, removed)
    BY <1>5 DEF Relationship
  <2>2. UNCHANGED commands
    BY <2>1 DEF CreateInvitation, AcceptInvitation, RefuseAcceptance,
       RefuseInvitation, CleanupInvitations, commandVars
  <2>. QED
    BY <1>1, <2>2
<1>6. CASE Disconnect
  BY <1>1, <1>2, <1>6 DEF Disconnect, DisconnectRelationship, commandVars
<1>7. CASE Enroll
  BY <1>1, <1>7 DEF Enroll, CreateEnrollmentOf, EnrollAgent, CreateEnrollment,
     ConsumeEnrollment, commandVars
<1>8. CASE Revoke
  <2>1. PICK device, now : CancelForDevice(device, now)
    BY <1>8 DEF Revoke, RevokeDevice
  <2>2. \A id \in OutstandingFor(device) \cap DOMAIN commands : IsOutstanding(id)
    BY DEF OutstandingFor
  <2>3. "CANCELLED" \notin Outstanding
    BY DEF Outstanding
  <2>4. Advance(OutstandingFor(device), "CANCELLED", <<"CANCELLED">>, now)
    BY <2>1 DEF CancelForDevice
  <2>. QED
    BY <2>2, <2>3, <2>4, AdvanceEnds
<1>9. CASE OperateAccounts \/ OperateDevices \/ Time \/ UNCHANGED vars
  BY <1>1, <1>9 DEF OperateAccounts, OperateDevices, CompleteSetup,
     SetAvailable, Time, vars, commandVars
<1>. QED
  BY <1>3, <1>4, <1>5, <1>6, <1>7, <1>8, <1>9 DEF Next

(* Every step of the control plane is a step of the promise.               *)
LEMMA StepKeepsPromise ==
  PromiseInv /\ PromiseInv' /\ [Next]_vars => Promise!Next
<1>. SUFFICES ASSUME PromiseInv, PromiseInv', [Next]_vars PROVE Promise!Next
  OBVIOUS
<1>0. TypeOK
  BY DEF PromiseInv, ConsentInv
<1>1. CASE Eject
  <2>1. PICK route \in Route, key \in Key, now \in Recent :
          \E began \in BeganAfter(now) :
            \/ \E replyTo \in Reply, id \in Id :
                 Issue(route[1], key, route[2], replyTo, id, now, began)
            \/ AnswerFromRecord(route[1], key, route[2], began)
    BY <1>1 DEF Eject
  <2>2. route[1] \in Person /\ route[2] \in Person
    BY RouteAssumption
  <2>3. CASE \E began : AnswerFromRecord(route[1], key, route[2], began)
    BY <2>3, UnchangedEnds, EndingIsChange DEF AnswerFromRecord, commandVars
  <2>. QED
    BY <2>1, <2>2, <2>3, IssueKeepsPromise
<1>2. CASE Agent
  BY <1>2, AgentKeepsPromise
<1>3. CASE ~Eject /\ ~Agent
  BY <1>0, <1>3, OthersOnlyEnd, EndingIsChange
<1>. QED
  BY <1>1, <1>2, <1>3

(* ControlPlane implements the promise: whatever handlers interleave, no   *)
(* eject is ever queued without, or outlives, the permission it rests on.  *)
THEOREM KeepsThePromise == Spec => ImplementsConsent
<1>1. Init => Promise!Init
  <2>. SUFFICES ASSUME Init PROVE Promise!Init
    OBVIOUS
  <2>1. DOMAIN Ejects = {} /\ Ejects = [id \in {} |-> Ejects[id]]
    BY DEF Init, CommandsInit, Ejects
  <2>2. StandingPermissions \subseteq Permission
    BY DEF StandingPermissions
  <2>. QED
    BY <2>1, <2>2 DEF Promise!Init, Promise!TypeOK, Promise!StandsOnPermission
<1>2. PromiseInv /\ PromiseInv' /\ [Next]_vars => [Promise!Next]_(Promise!vars)
  BY StepKeepsPromise
<1>. QED
  BY <1>1, <1>2, PromiseIsInductive, PTL DEF Spec, ImplementsConsent, Promise!Spec
----------------------------------------------------------------------------
(* What a step may never do.                                               *)

(* Who hears from an agent: the device's owner is an active account, and   *)
(* what is handed out then is what the poll selected.                      *)
LEMMA AgentDispatches ==
  ASSUME TypeOK, Agent, NEW id \in DOMAIN commands,
         commands[id].status = "QUEUED", commands'[id].status = "DISPATCHED"
  PROVE  LET device == commands[id].device
         IN  /\ deliveryEnabled
             /\ devices[device].state = "READY" /\ devices[device].available
             /\ IsActive(devices[device].owner)
             /\ clock < commands[id].expiresAt + Lag
<1>1. PICK device \in Device, key \in KeyId, nonce \in Nonce, now \in Recent :
        \/ Poll(device, key, nonce, now)
        \/ \E c \in DOMAIN commands, observation \in Observation :
             IngestResult(device, key, nonce, c, observation, now)
        \/ RefuseAgentRequest(device, key, nonce, now)
  BY DEF Agent
<1>2. commands[id] \in CommandRow
  BY DEF TypeOK, CommandsTypeOK
<1>3. CASE UNCHANGED commands
  BY <1>3
<1>4. ASSUME NEW c \in DOMAIN commands, NEW observation \in Observation,
             IngestResult(device, key, nonce, c, observation, now),
             AwaitsResult(c, device)
      PROVE  FALSE
  <2>1. commands[c].status = "DISPATCHED"
    BY <1>4 DEF AwaitsResult
  <2>2. commands'[id] = commands[id]
    BY <1>4, <2>1 DEF IngestResult, Advance
  <2>. QED
    BY <2>2
<1>5. ASSUME NEW c \in Oldest(device), IsHeard(device, key), HandOut(c, device, now)
      PROVE  LET mine == commands[id].device
             IN  /\ deliveryEnabled
                 /\ devices[mine].state = "READY" /\ devices[mine].available
                 /\ IsActive(devices[mine].owner)
                 /\ clock < commands[id].expiresAt + Lag
  <2>1. commands[c].device = device
    BY DEF Oldest, OutstandingFor
  <2>2. c = id
    <3>1. CASE c # id
      BY <1>5, <3>1 DEF HandOut, Advance, commandVars
    <3>. QED
      BY <3>1
  <2>3. /\ deliveryEnabled /\ devices[device].available
        /\ ~(commands[id].expiresAt <= now)
    BY <1>2, <1>5, <2>2 DEF HandOut, Advance, commandVars, CommandRow
  <2>4. clock < commands[id].expiresAt + Lag
    <3>1. now \in Nat /\ clock \in Nat /\ Lag \in Nat /\ clock <= now + Lag
      BY LagAssumption DEF Recent, TypeOK, AccountsTypeOK
    <3>2. commands[id].expiresAt \in Nat
      BY <1>2 DEF CommandRow
    <3>. QED
      BY <2>3, <3>1, <3>2
  <2>. QED
    BY <1>5, <2>1, <2>2, <2>3, <2>4 DEF IsHeard
<1>. QED
  BY <1>1, <1>3, <1>4, <1>5
     DEF Poll, IngestResult, RefuseAgentRequest, ConsumeNonce, commandVars

(* A queued command is handed out only while everyone permits it: what the *)
(* poll checks it checks itself, and for the consent it never reads it     *)
(* relies on the withdrawals having cancelled the command.                 *)
THEOREM DispatchesArePermitted == Spec => DispatchIsPermitted
<1>1. ASSUME PromiseInv, [Next]_vars, NEW id \in DOMAIN commands,
             commands[id].status = "QUEUED",
             commands'[id].status = "DISPATCHED"
      PROVE  LET device    == commands[id].device
                 recipient == commands[id].recipient
             IN  /\ deliveryEnabled
                 /\ devices[device].state = "READY" /\ devices[device].available
                 /\ devices[device].owner = recipient
                 /\ IsActive(recipient)
                 /\ ~policies[recipient].paused
                 /\ \/ commands[id].replyTo # None
                    \/ policies[recipient].audienceScope # "NAMED"
                    \/ <<recipient, commands[id].actor>> \in grants
                 /\ clock < commands[id].expiresAt + Lag
  <2>0. TypeOK
    BY <1>1 DEF PromiseInv, ConsentInv
  <2>1. Agent
    <3>1. CASE Eject
      <4>1. PICK route \in Route, key \in Key, now \in Recent :
              \E began \in BeganAfter(now) :
                \/ \E replyTo \in Reply, new \in Id :
                     Issue(route[1], key, route[2], replyTo, new, now, began)
                \/ AnswerFromRecord(route[1], key, route[2], began)
        BY <3>1 DEF Eject
      <4>2. commands'[id] = commands[id]
        <5>1. ASSUME NEW actor, NEW key_1, NEW recipient, NEW replyTo, NEW new,
                     NEW now_1, NEW began,
                     Issue(actor, key_1, recipient, replyTo, new, now_1, began)
              PROVE  commands'[id] = commands[id]
          <6>1. new # id
            BY <2>0, <5>1 DEF Issue, TypeOK, CommandsTypeOK
          <6>. QED
            BY <5>1, <6>1 DEF Issue, RecordQueued, RecordRejection, Put
        <5>. QED
          BY <4>1, <5>1 DEF AnswerFromRecord, commandVars
      <4>. QED
        BY <1>1, <4>2
    <3>2. CASE ~Eject /\ ~Agent
      <4>1. CommandsOnlyEnd
        BY <1>1, <2>0, <3>2, OthersOnlyEnd
      <4>. QED
        BY <1>1, <4>1 DEF CommandsOnlyEnd, Outstanding
    <3>. QED
      BY <3>1, <3>2
  <2>2. IsOutstanding(id)
    BY <1>1 DEF IsOutstanding, Outstanding
  <2>3. devices[commands[id].device].owner = commands[id].recipient
    BY <1>1 DEF PromiseInv, RevokedDeviceIsLeftAlone
  <2>4. ~policies[commands[id].recipient].paused
    BY <1>1, <2>2 DEF PromiseInv, ConsentInv, PausedRecipientIsLeftAlone
  <2>5. \/ commands[id].replyTo # None
        \/ policies[commands[id].recipient].audienceScope # "NAMED"
        \/ <<commands[id].recipient, commands[id].actor>> \in grants
    BY <1>1, <2>2 DEF PromiseInv, ConsentInv, OutstandingHasConsent
  <2>6. LET device == commands[id].device
        IN  /\ deliveryEnabled
            /\ devices[device].state = "READY" /\ devices[device].available
            /\ IsActive(devices[device].owner)
            /\ clock < commands[id].expiresAt + Lag
    BY <1>1, <2>0, <2>1, AgentDispatches
  <2>. QED
    BY <2>3, <2>4, <2>5, <2>6
<1>2. PromiseInv /\ [Next]_vars
        => [\A id \in DOMAIN commands :
              /\ commands[id].status = "QUEUED"
              /\ commands'[id].status = "DISPATCHED"
              => LET device    == commands[id].device
                     recipient == commands[id].recipient
                 IN  /\ deliveryEnabled
                     /\ devices[device].state = "READY" /\ devices[device].available
                     /\ devices[device].owner = recipient
                     /\ IsActive(recipient)
                     /\ ~policies[recipient].paused
                     /\ \/ commands[id].replyTo # None
                        \/ policies[recipient].audienceScope # "NAMED"
                        \/ <<recipient, commands[id].actor>> \in grants
                     /\ clock < commands[id].expiresAt + Lag]_vars
  BY <1>1
<1>. QED
  BY <1>2, PromiseIsInductive, PTL DEF Spec, DispatchIsPermitted

(* Accepting a code connects its inviter and the accepter, and only them.  *)
LEMMA AcceptConnects ==
  ASSUME ConsentInv, NEW accepter, NEW code, NEW now \in Recent, NEW removed,
         AcceptInvitation(accepter, code, now, removed),
         NEW pair \in DOMAIN relationships', relationships'[pair].active,
         pair \in DOMAIN relationships => ~relationships[pair].active
  PROVE  /\ code \in DOMAIN invitations
         /\ invitations[code].status = "PENDING"
         /\ invitations[code].inviter \in pair
         /\ clock < invitations[code].endsAt + Lag
         /\ invitations'[code].status = "USED"
         /\ \A grant \in grants' : {grant[1], grant[2]} # pair
<1>. DEFINE inviter == invitations[code].inviter
<1>1. code \in DOMAIN invitations /\ invitations[code].status = "PENDING"
  BY DEF AcceptInvitation, CanAccept
<1>2. invitations[code] \in InvitationRow
  BY <1>1 DEF ConsentInv, TypeOK, PermissionsTypeOK
<1>3. clock < invitations[code].endsAt + Lag
  <2>1. now < invitations[code].endsAt
    BY DEF AcceptInvitation, CanAccept
  <2>2. now \in Nat /\ clock \in Nat /\ Lag \in Nat /\ clock <= now + Lag
    BY LagAssumption DEF Recent, ConsentInv, TypeOK, AccountsTypeOK
  <2>3. invitations[code].endsAt \in Nat
    BY <1>2 DEF InvitationRow
  <2>. QED
    BY <2>1, <2>2, <2>3
<1>4. invitations'[code].status = "USED"
  BY <1>2 DEF AcceptInvitation, Put, InvitationRow
<1>5. ~Connected(inviter, accepter)
  BY DEF AcceptInvitation
<1>6. /\ relationships' = Put(relationships, {inviter, accepter},
                              [active |-> TRUE, createdAt |-> now])
      /\ grants' = IF {inviter, accepter} \in DOMAIN relationships
                     THEN grants \ BothWays(inviter, accepter)
                     ELSE grants
  BY <1>5 DEF AcceptInvitation
<1>. HIDE DEF inviter
<1>7. pair = {inviter, accepter}
  BY <1>6 DEF Put
<1>8. ASSUME NEW grant \in grants', {grant[1], grant[2]} = pair
      PROVE  FALSE
  <2>1. grant \in grants /\ grant = <<grant[1], grant[2]>>
    BY <1>6, <1>8 DEF ConsentInv, TypeOK, PermissionsTypeOK
  <2>2. Connected(grant[1], grant[2])
    BY <2>1 DEF ConsentInv, GrantsNeedRelationship
  <2>3. pair \in DOMAIN relationships
    BY <1>8, <2>2 DEF Connected
  <2>4. grant \notin BothWays(inviter, accepter)
    BY <1>6, <1>7, <1>8, <2>3
  <2>. QED
    BY <1>7, <1>8, <2>1, <2>4, BothWaysIsOnePair
<1>. QED
  BY <1>1, <1>3, <1>4, <1>7, <1>8 DEF inviter

(* However acceptances, disconnections and cleanups interleave, a pair is  *)
(* connected only by using up a pending code of one of the two, before the *)
(* code's end (but for the handlers' lag), and starts without a grant.     *)
THEOREM CodesConnect == Spec => ConnectingTakesACode
<1>1. ASSUME ConsentInv, [Next]_vars, NEW pair \in DOMAIN relationships',
             relationships'[pair].active,
             pair \in DOMAIN relationships => ~relationships[pair].active
      PROVE  /\ \E code \in DOMAIN invitations :
                  /\ invitations[code].status = "PENDING"
                  /\ invitations[code].inviter \in pair
                  /\ clock < invitations[code].endsAt + Lag
                  /\ invitations'[code].status = "USED"
             /\ \A grant \in grants' : {grant[1], grant[2]} # pair
  <2>1. ~UNCHANGED relationships
    BY <1>1
  <2>2. ASSUME NEW person, NEW other, NEW now,
               DisconnectRelationship(person, other, now)
        PROVE  FALSE
    <3>1. relationships' = [relationships EXCEPT ![{person, other}].active = FALSE]
      BY <2>1, <2>2 DEF DisconnectRelationship
    <3>2. \A p \in DOMAIN relationships : relationships[p] \in RelationshipRow
      BY <1>1 DEF ConsentInv, TypeOK, PermissionsTypeOK
    <3>. QED
      BY <1>1, <3>1, <3>2 DEF RelationshipRow
  <2>3. Relationship
    <3>1. ~Pause
      BY <2>1 DEF Pause, SetPaused
    <3>2. ~Grant
      BY <2>1 DEF Grant, GiveGrant, RevokeGrant
    <3>3. ~Disconnect
      BY <2>2 DEF Disconnect
    <3>4. ~Enroll /\ ~Revoke /\ ~Agent
      BY <2>1 DEF Enroll, Revoke, Agent, permissionVars
    <3>5. ~Eject
      BY <2>1 DEF Eject, Issue, AnswerFromRecord, IssueFrame, permissionVars
    <3>6. ~OperateAccounts /\ ~OperateDevices /\ ~Time /\ ~UNCHANGED vars
      BY <2>1 DEF OperateAccounts, OperateDevices, Time, vars, permissionVars
    <3>. QED
      BY <1>1, <3>1, <3>2, <3>3, <3>4, <3>5, <3>6 DEF Next
  <2>4. PICK now \in Recent, removed \in SUBSET DOMAIN invitations :
          \/ \E person \in Person, code \in Code :
               \/ CreateInvitation(person, code, now, removed)
               \/ AcceptInvitation(person, code, now, removed)
               \/ RefuseAcceptance(person, code, now, removed)
          \/ \E person \in Person : RefuseInvitation(person, now, removed)
          \/ CleanupInvitations(now, removed)
    BY <2>3 DEF Relationship
  <2>5. PICK person \in Person, code \in Code :
          AcceptInvitation(person, code, now, removed)
    BY <2>1, <2>4 DEF CreateInvitation, RefuseAcceptance, RefuseInvitation,
       CleanupInvitations
  <2>. QED
    BY <1>1, <2>5, AcceptConnects
<1>2. ConsentInv /\ [Next]_vars
        => [\A pair \in DOMAIN relationships' :
              /\ relationships'[pair].active
              /\ pair \in DOMAIN relationships => ~relationships[pair].active
              => /\ \E code \in DOMAIN invitations :
                      /\ invitations[code].status = "PENDING"
                      /\ invitations[code].inviter \in pair
                      /\ clock < invitations[code].endsAt + Lag
                      /\ invitations'[code].status = "USED"
                 /\ \A grant \in grants' : {grant[1], grant[2]} # pair]_vars
  BY <1>1
<1>. QED
  BY <1>2, ConsentIsInductive, PTL DEF Spec, ConnectingTakesACode
----------------------------------------------------------------------------
(* The promise by itself, of any system that keeps it, whatever its        *)
(* permissions and its ejects are.                                         *)

CONSTANTS Right, Name
VARIABLES permitted, ejects

Any == INSTANCE Consent WITH Permission <- Right, Command <- Name

(* The promise is enough: whatever changes, what is under way is permitted.*)
THEOREM PromiseMeansPermission ==
  Any!Spec => [](Any!TypeOK /\ Any!StandsOnPermission)
<1>. DEFINE Inv == Any!TypeOK /\ Any!StandsOnPermission
<1>1. Any!Init => Inv
  BY DEF Any!Init, Any!TypeOK, Any!StandsOnPermission
<1>2. Inv /\ [Any!Next]_(Any!vars) => Inv'
  <2>. SUFFICES ASSUME Inv, [Any!Next]_(Any!vars) PROVE Inv'
    OBVIOUS
  <2>0. \A c \in DOMAIN ejects : ejects[c] \in Any!EjectRow
    BY DEF Any!TypeOK
  <2>1. ASSUME NEW command \in Name, NEW permission \in Right,
               Any!Queue(command, permission)
        PROVE  Inv'
    BY <2>0, <2>1 DEF Any!Queue, Any!TypeOK, Any!StandsOnPermission, Any!EjectRow
  <2>2. ASSUME NEW command \in Name, Any!HandOut(command)
        PROVE  Inv'
    BY <2>0, <2>2 DEF Any!HandOut, Any!TypeOK, Any!StandsOnPermission, Any!EjectRow
  <2>3. ASSUME NEW ended \in SUBSET DOMAIN ejects, Any!Change(ended)
        PROVE  Inv'
    BY <2>0, <2>3 DEF Any!Change, Any!TypeOK, Any!StandsOnPermission, Any!EjectRow
  <2>4. CASE UNCHANGED Any!vars
    BY <2>4 DEF Any!vars, Any!TypeOK, Any!StandsOnPermission
  <2>. QED
    BY <2>1, <2>2, <2>3, <2>4 DEF Any!Next
<1>. QED
  BY <1>1, <1>2, PTL DEF Any!Spec
=============================================================================
