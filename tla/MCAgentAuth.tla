----------------------------- MODULE MCAgentAuth -----------------------------
(***************************************************************************)
(* Constants and symmetry of AgentAuth for TLC.                            *)
(***************************************************************************)
EXTENDS AgentAuth, TLC

MCTimestamp == 0..MaxClock

Symmetry == Permutations(Device) \cup Permutations(Nonce) \cup Permutations(Handler)
=============================================================================
