----------------------------- MODULE Provisioning -----------------------------
(***************************************************************************)
(* Runs of the operator's provisioning script: an identity at the provider,*)
(* rows in the database, and the deletion that undoes the first when the   *)
(* second fails.  Each of the three may take effect without its answer     *)
(* reaching the script, and the script may be killed between them.         *)
(* Source: scripts/provision-invited-person.ts                             *)
(***************************************************************************)
EXTENDS Naturals

CONSTANTS
  Run,
  Email,
  Id,     \* the identifiers the provider gives
  None,
  Lossy   \* which of "CREATE", "COMMIT" and "DELETE" may lose their answers

VARIABLES
  identities, \* the provider's users: the email of each identifier, or None
  issued,     \* identifiers given so far: none is given twice
  people,     \* identifiers with their people and recipient_access_policies rows
  runs,
  reported,   \* identifiers a run asked the operator to review
  unheard     \* identifiers of a run that ended before it had heard of them

vars == <<identities, issued, people, runs, reported, unheard>>

ASSUME ProvisioningAssumption ==
  /\ None \notin Email \cup Id
  /\ Lossy \subseteq {"CREATE", "COMMIT", "DELETE"}

Phase == {"idle", "creating", "inserting", "undoing", "done", "failed"}

TypeOK ==
  /\ identities \in [Id -> Email \cup {None}]
  /\ issued \subseteq Id /\ people \subseteq issued
  /\ runs \in [Run -> [phase: Phase, email: Email \cup {None}, id: Id \cup {None}]]
  /\ reported \subseteq issued /\ unheard \subseteq issued

Init ==
  /\ identities = [i \in Id |-> None]
  /\ issued = {} /\ people = {}
  /\ runs = [r \in Run |-> [phase |-> "idle", email |-> None, id |-> None]]
  /\ reported = {} /\ unheard = {}

Become(r, phase) == runs' = [runs EXCEPT ![r].phase = phase]

Start(r, email) ==
  /\ runs[r].phase \in {"idle", "done", "failed"}
  /\ runs' = [runs EXCEPT
       ![r] = [phase |-> "creating", email |-> email, id |-> None]]
  /\ UNCHANGED <<identities, issued, people, reported, unheard>>

(* createAuthUser: the provider has one identity to an email.  An answer   *)
(* that is late, too long or malformed is an error like a refusal.         *)
Create(r) ==
  /\ runs[r].phase = "creating"
  /\ \/ /\ Become(r, "failed")
        /\ UNCHANGED <<identities, issued, unheard>>
     \/ /\ \A i \in Id : identities[i] # runs[r].email
        /\ \E id \in Id \ issued :
             /\ identities' = [identities EXCEPT ![id] = runs[r].email]
             /\ issued' = issued \cup {id}
             /\ \/ /\ runs' = [runs EXCEPT ![r].phase = "inserting", ![r].id = id]
                   /\ UNCHANGED unheard
                \/ /\ "CREATE" \in Lossy
                   /\ Become(r, "failed")
                   /\ unheard' = unheard \cup {id}
  /\ UNCHANGED <<people, reported>>

(* Mutant: a failed transaction ends the script.                           *)
InsertOnly(r) ==
  /\ runs[r].phase = "inserting"
  /\ \/ people' = people \cup {runs[r].id} /\ Become(r, "done")
     \/ UNCHANGED people /\ Become(r, "failed")
  /\ UNCHANGED <<identities, issued, reported, unheard>>

(* Mutant: success is reported when the transaction began.                 *)
InsertUnchecked(r) ==
  /\ runs[r].phase = "inserting"
  /\ \/ people' = people \cup {runs[r].id} /\ Become(r, "done")
     \/ UNCHANGED people /\ Become(r, "done")
  /\ UNCHANGED <<identities, issued, reported, unheard>>

(* Both rows in one transaction.  To the script, no connection, a failed   *)
(* statement and a COMMIT without an answer are the same.                  *)
Insert(r) ==
  /\ runs[r].phase = "inserting"
  /\ \/ people' = people \cup {runs[r].id} /\ Become(r, "done")
     \/ UNCHANGED people /\ Become(r, "undoing")
     \/ /\ "COMMIT" \in Lossy
        /\ people' = people \cup {runs[r].id} /\ Become(r, "undoing")
  /\ UNCHANGED <<identities, issued, reported, unheard>>

(* deleteAuthUser: an identity that is gone counts as deleted; whatever    *)
(* else goes wrong, the operator is asked to look.                         *)
Undo(r) ==
  /\ runs[r].phase = "undoing"
  /\ \/ /\ identities' = [identities EXCEPT ![runs[r].id] = None]
        /\ UNCHANGED reported
     \/ /\ "DELETE" \in Lossy
        /\ identities' = [identities EXCEPT ![runs[r].id] = None]
        /\ reported' = reported \cup {runs[r].id}
     \/ /\ reported' = reported \cup {runs[r].id}
        /\ UNCHANGED identities
  /\ Become(r, "failed")
  /\ UNCHANGED <<issued, people, unheard>>

(* The script is killed.                                                   *)
Kill(r) ==
  /\ runs[r].phase \in {"creating", "inserting", "undoing"}
  /\ Become(r, "failed")
  /\ unheard' = IF runs[r].id = None THEN unheard ELSE unheard \cup {runs[r].id}
  /\ UNCHANGED <<identities, issued, people, reported>>

Next ==
  \E r \in Run :
    \/ \E email \in Email : Start(r, email)
    \/ Create(r)
    \/ Insert(r)
    \/ Undo(r)
    \/ Kill(r)

Spec == Init /\ [][Next]_vars
----------------------------------------------------------------------------
(* An identity without an account is one a run is still working on, one    *)
(* the operator was asked to review, or one whose run never got that far.  *)
StrandedIsKnown ==
  \A i \in Id : identities[i] # None /\ i \notin people =>
    \/ i \in reported \cup unheard
    \/ \E r \in Run : runs[r].id = i /\ runs[r].phase \in {"inserting", "undoing"}

(* A run that succeeds leaves a whole person: the identity its email signs *)
(* in to and the rows under the same identifier.                           *)
DoneIsWhole ==
  \A r \in Run : runs[r].phase = "done" =>
    runs[r].id \in people /\ identities[runs[r].id] = runs[r].email

(* Every person row has its identity: nobody is left with an account that  *)
(* cannot be signed in to.  It fails where the answer to COMMIT may be     *)
(* lost: the script then deletes the identity of rows that are there.      *)
PeopleHaveIdentities == \A i \in people : identities[i] # None
=============================================================================
