--------------------------- MODULE MCDeviceKeyStore ---------------------------
(***************************************************************************)
(* DeviceKeyStore for TLC, on two kinds of machines: one whose providers   *)
(* stay as they are, and one whose Platform provider comes and goes.  On   *)
(* the second a single agent creates each key once, as ADR 0005 asks.      *)
(***************************************************************************)
EXTENDS DeviceKeyStore, TLC

CONSTANT Agent \* the caller of the second machine

VARIABLE steady

Begun(c) == callers[c].phase = "idle" /\ callers'[c].phase # "idle"

OnThisMachine ==
  /\ steady => available' = available
  /\ ~steady => /\ \A c \in Caller \ {Agent} : ~Begun(c)
                /\ \A i \in KeyId : creates'[i] <= 1

EitherMachine == Init /\ steady \in BOOLEAN

EitherMachineSpec ==
  /\ EitherMachine
  /\ [][Next /\ OnThisMachine /\ UNCHANGED steady]_<<vars, steady>>

Symmetry == Permutations(Caller \ {Agent}) \cup Permutations(KeyId)
=============================================================================
