----------------------------- MODULE Lifecycle -----------------------------
(***************************************************************************)
(* The protocol v1 lifecycle of an eject request and its command: the      *)
(* states, the allowed transitions and what it means for a recorded        *)
(* sequence of lifecycle events to follow them.                            *)
(* Source: control-plane/src/modules/eject/domain/lifecycle.ts.            *)
(***************************************************************************)
EXTENDS Naturals, Sequences

Transitions ==
  [ REQUESTED         |-> {"REJECTED", "AUTHORIZED"},
    REJECTED          |-> {},
    AUTHORIZED        |-> {"QUEUED", "CANCELLED"},
    QUEUED            |-> {"DISPATCHED", "EXPIRED", "CANCELLED"},
    DISPATCHED        |-> {"DISPATCHED", "DELIVERED", "EXPIRED", "CANCELLED"},
    DELIVERED         |-> {"REJECTED_BY_AGENT", "ATTEMPTED"},
    REJECTED_BY_AGENT |-> {},
    ATTEMPTED         |-> {"FAILED", "OUTCOME_UNKNOWN"},
    EXPIRED           |-> {},
    CANCELLED         |-> {},
    FAILED            |-> {},
    OUTCOME_UNKNOWN   |-> {} ]

LifecycleState ==
  {"REQUESTED", "REJECTED", "AUTHORIZED", "QUEUED", "DISPATCHED", "DELIVERED",
   "REJECTED_BY_AGENT", "ATTEMPTED", "EXPIRED", "CANCELLED", "FAILED",
   "OUTCOME_UNKNOWN"}

CanTransition(from, to) == to \in Transitions[from]

(* The statuses of eject_commands.status the stores write.                 *)
Outstanding == {"QUEUED", "DISPATCHED"}
ResultStatus == {"REJECTED_BY_AGENT", "FAILED", "OUTCOME_UNKNOWN"}
CommandStatus == Outstanding \cup ResultStatus \cup {"EXPIRED", "CANCELLED"}

(* An event sequence that starts at REQUESTED and only takes transitions.  *)
IsLifecycle(path) ==
  /\ path # << >>
  /\ path[1] = "REQUESTED"
  /\ \A i \in 1..(Len(path) - 1) : CanTransition(path[i], path[i + 1])
=============================================================================
