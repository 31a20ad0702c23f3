------------------------------- MODULE Devices -------------------------------
(***************************************************************************)
(* Device enrollment and revocation: an owner creates a one-use secret,    *)
(* a Windows agent consumes it to register its device and key, the owner   *)
(* revokes the device and with it everything outstanding for it.           *)
(* Source: control-plane/src/modules/devices.                              *)
(*                                                                         *)
(* `available` is registered_devices.availability = 'AVAILABLE' AND        *)
(* has_approved_drive, the only form in which the code reads them.         *)
(***************************************************************************)
EXTENDS Commands

CONSTANTS
  KeyId,        \* identifiers of device keys
  Secret,       \* enrollment secrets (the table stores their digests)
  SeedDevices,  \* devices registered before the model starts
  EnrollmentTTL \* lifetime of an enrollment secret: 10 minutes

VARIABLES
  devices,    \* registered_devices, each with its row of device_keys
  enrollments \* device_enrollment_sessions

deviceVars == <<devices, enrollments>>

EnrollmentState == {"SETUP_IN_PROGRESS", "READY", "REVOKED"}

DeviceRow ==
  [owner: Person, state: EnrollmentState, available: BOOLEAN,
   key: KeyId, keyRevoked: BOOLEAN, createdAt: Nat]

(* The unique indexes of the schema: one live device to an owner, one      *)
(* device to a key.                                                        *)
ASSUME DeviceAssumption ==
  /\ EnrollmentTTL \in Nat \ {0}
  /\ \A seed \in SeedDevices :
       /\ DOMAIN seed \subseteq Device
       /\ seed \in [DOMAIN seed -> DeviceRow]
       /\ \A d, e \in DOMAIN seed :
            d # e => /\ seed[d].key # seed[e].key
                     /\ \/ seed[d].owner # seed[e].owner
                        \/ seed[d].state = "REVOKED"
                        \/ seed[e].state = "REVOKED"

EnrollmentRow == [owner: Person, createdAt: Nat, expiresAt: Nat, used: BOOLEAN]

DevicesTypeOK ==
  /\ DOMAIN devices \subseteq Device
  /\ devices \in [DOMAIN devices -> DeviceRow]
  /\ DOMAIN enrollments \subseteq Secret
  /\ enrollments \in [DOMAIN enrollments -> EnrollmentRow]

DevicesInit ==
  /\ devices \in SeedDevices
  /\ enrollments = [secret \in {} |-> None]

(* Mutant: a device still being set up is not counted.                     *)
ReadyDevices(owner) ==
  {d \in DOMAIN devices : /\ devices[d].owner = owner
                          /\ devices[d].state = "READY"}

LiveDevices(owner) ==
  {d \in DOMAIN devices : /\ devices[d].owner = owner
                          /\ devices[d].state # "REVOKED"}

OpenEnrollments(owner) ==
  {s \in DOMAIN enrollments : /\ enrollments[s].owner = owner
                              /\ ~enrollments[s].used}

(* Mutant: the update of used_at is missing.                               *)
MarkNone(secrets) == enrollments

(* SET used_at = now; a used_at before created_at is refused.              *)
MarkUsed(secrets) ==
  [s \in DOMAIN enrollments |->
     IF s \in secrets THEN [enrollments[s] EXCEPT !.used = TRUE]
                      ELSE enrollments[s]]

CreateEnrollment(owner, secret, now) ==
  /\ Authenticated(owner) /\ IsActive(owner)
  /\ LiveDevices(owner) = {}
  /\ secret \notin DOMAIN enrollments
  /\ \A old \in OpenEnrollments(owner) : enrollments[old].createdAt <= now
  /\ enrollments' = Put(MarkUsed(OpenEnrollments(owner)), secret,
                        [owner |-> owner, createdAt |-> now,
                         expiresAt |-> now + EnrollmentTTL, used |-> FALSE])
  /\ UNCHANGED <<devices, commandVars>>

(* The other outcomes of consumeEnrollment (a used, expired or unknown     *)
(* secret, a second device, an identifier that exists) change nothing.     *)
ConsumeEnrollment(secret, device, key, now) ==
  /\ secret \in DOMAIN enrollments
  /\ LET session == enrollments[secret]
     IN  /\ ~session.used
         /\ now < session.expiresAt
         /\ session.createdAt <= now
         /\ IsActive(session.owner)
         /\ LiveDevices(session.owner) = {}
         /\ device \notin DOMAIN devices
         /\ \A d \in DOMAIN devices : devices[d].key # key
         /\ enrollments' = MarkUsed({secret})
         /\ devices' = Put(devices, device,
                           [owner |-> session.owner,
                            state |-> "SETUP_IN_PROGRESS", available |-> FALSE,
                            key |-> key, keyRevoked |-> FALSE,
                            createdAt |-> now])
  /\ UNCHANGED commandVars

(* revoked_at and used_at earlier than the row's created_at are refused.   *)
RevokeDevice(owner, device, now) ==
  /\ Authenticated(owner)
  /\ device \in LiveDevices(owner)
  /\ devices[device].createdAt <= now
  /\ \A s \in OpenEnrollments(owner) : enrollments[s].createdAt <= now
  /\ devices' = [devices EXCEPT ![device].state = "REVOKED",
                                ![device].available = FALSE,
                                ![device].keyRevoked = TRUE]
  /\ enrollments' = MarkUsed(OpenEnrollments(owner))
  /\ CancelForDevice(device, now)

----------------------------------------------------------------------------
(* Rows only an operator or a test changes today.                          *)

(* The local setup test is recorded: the device may receive commands.      *)
CompleteSetup(device) ==
  /\ device \in DOMAIN devices
  /\ devices[device].state = "SETUP_IN_PROGRESS"
  /\ devices' = [devices EXCEPT ![device].state = "READY",
                                ![device].available = TRUE]
  /\ UNCHANGED <<enrollments, commandVars>>

SetAvailable(device, available) ==
  /\ device \in DOMAIN devices
  /\ devices[device].state = "READY"
  /\ devices[device].available # available
  /\ devices' = [devices EXCEPT ![device].available = available]
  /\ UNCHANGED <<enrollments, commandVars>>
=============================================================================
