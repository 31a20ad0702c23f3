------------------------------ MODULE Consent ------------------------------
(***************************************************************************)
(* What the control plane promises the people it serves, with no handler,  *)
(* table or clock left: an eject is queued only under a permission that    *)
(* stands at that moment, it is handed to the agent once queued, and it    *)
(* ends in the very step that withdraws the permission it was queued       *)
(* under.  An eject that ended stays ended.                                *)
(*                                                                         *)
(* ControlPlane implements this with one step per handler, Transactions    *)
(* with one step per statement of overlapping database transactions.       *)
(***************************************************************************)
CONSTANTS
  Permission, \* who may eject whom, on which device and in which way
  Command     \* the names of the ejects

VARIABLES
  permitted, \* the permissions that stand
  ejects     \* the ejects asked for so far

vars == <<permitted, ejects>>

EjectRow ==
  [permission: Permission, state: {"QUEUED", "DISPATCHED", "ENDED"}]

TypeOK ==
  /\ permitted \subseteq Permission
  /\ DOMAIN ejects \subseteq Command
  /\ ejects \in [DOMAIN ejects -> EjectRow]

(* No eject is under way without the permission it was queued under.       *)
StandsOnPermission ==
  \A c \in DOMAIN ejects :
    ejects[c].state # "ENDED" => ejects[c].permission \in permitted

(* Ejects asked for earlier, under permissions that still stand.           *)
Init == TypeOK /\ StandsOnPermission

Queue(command, permission) ==
  /\ command \notin DOMAIN ejects
  /\ permission \in permitted
  /\ ejects' = [c \in DOMAIN ejects \cup {command} |->
                  IF c = command
                    THEN [permission |-> permission, state |-> "QUEUED"]
                    ELSE ejects[c]]
  /\ UNCHANGED permitted

HandOut(command) ==
  /\ command \in DOMAIN ejects
  /\ ejects[command].state = "QUEUED"
  /\ ejects' = [ejects EXCEPT ![command].state = "DISPATCHED"]
  /\ UNCHANGED permitted

(* People and operators change what stands; some ejects end, for whatever  *)
(* reason, and every eject that lost its permission is among them.         *)
Change(ended) ==
  /\ ejects' = [c \in DOMAIN ejects |->
                  IF c \in ended THEN [ejects[c] EXCEPT !.state = "ENDED"]
                                 ELSE ejects[c]]
  /\ permitted' \in SUBSET Permission
  /\ \A c \in DOMAIN ejects \ ended :
       ejects[c].state # "ENDED" => ejects[c].permission \in permitted'

Next ==
  \/ \E ended \in SUBSET DOMAIN ejects : Change(ended)
  \/ \E command \in Command :
       \/ \E permission \in Permission : Queue(command, permission)
       \/ HandOut(command)

Spec == Init /\ [][Next]_vars
=============================================================================
