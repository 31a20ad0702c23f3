------------------------------ MODULE Commands ------------------------------
(***************************************************************************)
(* The tables eject_commands and eject_lifecycle_events, and the one way   *)
(* every store changes a command after it was queued: set its status and   *)
(* append lifecycle events, in the same transaction.                       *)
(*                                                                         *)
(* One pool of identifiers stands for command_id and, for a rejected       *)
(* request whose events carry the request's own identifier, request_id.    *)
(* Of the event rows the model keeps the sequence of states, in insertion  *)
(* order, and the occurred_at of the last one.                             *)
(***************************************************************************)
EXTENDS Accounts, Lifecycle

CONSTANTS
  Id,         \* UUIDs of commands and rejected requests
  Device,     \* device identifiers
  None,       \* SQL NULL
  CommandTTL  \* lifetime of a command: 30 seconds in the code

VARIABLES
  commands,   \* eject_commands
  events      \* eject_lifecycle_events

commandVars == <<commands, events>>

ASSUME CommandAssumption == /\ CommandTTL \in Nat \ {0}
                            /\ None \notin Id

CommandRow ==
  [status: CommandStatus, actor: Person, recipient: Person, device: Device,
   replyTo: Id \cup {None}, issuedAt: Nat, expiresAt: Nat]

EventRow == [path: Seq(LifecycleState), at: Nat]

CommandsTypeOK ==
  /\ DOMAIN commands \subseteq DOMAIN events
  /\ DOMAIN events \subseteq Id
  /\ commands \in [DOMAIN commands -> CommandRow]
  /\ events \in [DOMAIN events -> EventRow]

CommandsInit ==
  /\ commands = [id \in {} |-> None]
  /\ events = [id \in {} |-> None]

IsOutstanding(id) == commands[id].status \in Outstanding

OutstandingFor(device) ==
  {id \in DOMAIN commands : IsOutstanding(id) /\ commands[id].device = device}

(* Each command of ids gets the status and the events of path, at now.     *)
Advance(ids, status, path, now) ==
  /\ commands' = [id \in DOMAIN commands |->
                    IF id \in ids THEN [commands[id] EXCEPT !.status = status]
                                  ELSE commands[id]]
  /\ events' = [id \in DOMAIN events |->
                  IF id \in ids
                    THEN [path |-> events[id].path \o path, at |-> now]
                    ELSE events[id]]

(* Mutant: the SELECT forgets its status filter.                           *)
CancelBetweenAny(pairs, now) ==
  Advance({id \in DOMAIN commands :
             <<commands[id].actor, commands[id].recipient>> \in pairs},
          "CANCELLED", <<"CANCELLED">>, now)

(* Cancel the outstanding commands of these <<actor, recipient>> pairs:    *)
(* the SELECT ... FOR UPDATE and the loop over its rows in the stores.     *)
CancelBetween(pairs, now) ==
  Advance({id \in DOMAIN commands :
             /\ IsOutstanding(id)
             /\ <<commands[id].actor, commands[id].recipient>> \in pairs},
          "CANCELLED", <<"CANCELLED">>, now)

(* Mutant: only commands that were not yet handed out are cancelled.       *)
CancelQueuedForDevice(device, now) ==
  Advance({id \in OutstandingFor(device) : commands[id].status = "QUEUED"},
          "CANCELLED", <<"CANCELLED">>, now)

CancelForDevice(device, now) ==
  Advance(OutstandingFor(device), "CANCELLED", <<"CANCELLED">>, now)
=============================================================================
