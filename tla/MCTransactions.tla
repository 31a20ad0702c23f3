--------------------------- MODULE MCTransactions ---------------------------
(***************************************************************************)
(* Two or three overlapping handlers about the people 1, 2 and 3.          *)
(***************************************************************************)
EXTENDS Transactions

Ask(actor, recipient, key, replyTo) ==
  [op |-> "ISSUE", actor |-> actor, recipient |-> recipient, key |-> key,
   replyTo |-> replyTo]
About(op, actor, recipient) ==
  [op |-> op, actor |-> actor, recipient |-> recipient]

(* What 1 and 2 may have under way at once; 1 also asks for an eject to 3, *)
(* and 2 may reply twice to the same command.                              *)
Jobs == <<
  Ask(1, 2, "k1", None),
  Ask(1, 3, "k2", None),
  Ask(2, 1, "k3", 0),
  Ask(2, 1, "k4", 0),
  [op |-> "SET_PAUSED", recipient |-> 2, paused |-> TRUE],
  [op |-> "SET_PAUSED", recipient |-> 2, paused |-> FALSE],
  About("GIVE_GRANT", 1, 2),
  About("REVOKE_GRANT", 1, 2),
  About("DISCONNECT", 1, 2),
  About("ACCEPT", 2, 1),
  [op |-> "POLL", recipient |-> 2, late |-> FALSE],
  [op |-> "POLL", recipient |-> 2, late |-> TRUE],
  [op |-> "INGEST", recipient |-> 2, command |-> 0],
  [op |-> "REVOKE_DEVICE", recipient |-> 2] >>

MCJob == {Jobs[n] : n \in DOMAIN Jobs}
Rank(job) == CHOOSE n \in DOMAIN Jobs : Jobs[n] = job

(* Command 0 was issued earlier, from 1 to 2.                              *)
MCSeedCommand ==
  [i \in {0} |-> [actor |-> 1, recipient |-> 2, replyTo |-> None]]

(* 1 is connected with 2 and 3, all grants are given, and one eject more   *)
(* may be sent and received in this hour.                                  *)
Usual ==
  [row \in Row |->
     CASE row[1] \in {"recipient_eject_state", "sender_eject_state"} -> Limit - 1
       [] row[1] = "recipient_access_policies" -> "OPEN"
       [] row[1] = "registered_devices" -> "READY"
       [] row[1] = "relationship_invitations" -> "PENDING"
       [] row \in {RelationshipRow(1, 2), RelationshipRow(1, 3)} -> "ACTIVE"
       [] row \in {GrantRow(1, 2), GrantRow(2, 1), GrantRow(3, 1)} -> "GIVEN"
       [] row = CommandRow(0) -> "QUEUED"
       [] OTHER -> None]

MCSeedRows ==
  { Usual,
    [Usual EXCEPT ![CommandRow(0)] = "DISPATCHED", ![StateRow(2)] = None],
    [Usual EXCEPT ![CommandRow(0)] = "OUTCOME_UNKNOWN",
                  ![RelationshipRow(1, 2)] = "ENDED",
                  ![GrantRow(2, 1)] = None, ![GrantRow(1, 2)] = None],
    [Usual EXCEPT ![CommandRow(0)] = "OUTCOME_UNKNOWN",
                  ![PolicyRow(2)] = "PAUSED",
                  ![StateRow(1)] = 0, ![SenderRow(2)] = 0] }

(* Handlers are interchangeable but for the order of their numbers.  Two   *)
(* may be any two; a third joins where an eject is asked for as its        *)
(* recipient pauses.                                                       *)
Handlers ==
  /\ Init
  /\ Handling = 1..Cardinality(Handling)
  /\ \A p, q \in Handling :
       p < q => Rank(JobOf(p)) <= Rank(JobOf(q))
  /\ \/ Cardinality(Handling) = 2
     \/ /\ Cardinality(Handling) = 3
        /\ start = Usual
        /\ {Jobs[1], Jobs[5]} \subseteq {JobOf(p) : p \in Handling}

(* Connections are lost, and commits refused for nothing, among two.       *)
Faults ==
  \E p \in Handling :
    Cardinality(Handling) = 2 /\ (Suspect(p) \/ Lose(p))

MCNext == Faults \/ \E p \in Handling : Advance(p)

MCSpec == Handlers /\ [][MCNext]_vars /\ Fairness
=============================================================================
