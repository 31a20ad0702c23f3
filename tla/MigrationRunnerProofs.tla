------------------------ MODULE MigrationRunnerProofs ------------------------
(***************************************************************************)
(* The ledger tells the truth about the schema, for any number of runs,    *)
(* files and checkouts, and wherever processes die.                        *)
(***************************************************************************)
EXTENDS MigrationRunner, TLAPS

(* Only the run that holds the lock is past it.                            *)
LockIsExclusive ==
  \A r \in Run : runs[r].phase \in Locked => lockHolder = r

(* A run that applies a file applies one of its checkout.                  *)
NextIsOwn ==
  \A r \in Run : runs[r].phase \in {"applying", "recording"} =>
    /\ runs[r].next \in File
    /\ runs[r].checkout[runs[r].next] # None

(* What the run has read is applied, up to the file it is applying.        *)
ReadIsApplied ==
  \A r \in Run, f \in File :
    /\ runs[r].phase \in {"reading", "applying", "recording"}
    /\ runs[r].checkout[f] # None /\ f \notin Unread(r)
    => \/ ledger[f] = runs[r].checkout[f]
       \/ runs[r].phase # "reading" /\ f = runs[r].next

(* The same of a run that has read everything.                             *)
FinishedIsApplied ==
  \A r \in Run, f \in File :
    runs[r].phase \in {"finishing", "done"} /\ runs[r].checkout[f] # None
    => ledger[f] = runs[r].checkout[f]

MigrationInv ==
  /\ TypeOK
  /\ LockIsExclusive
  /\ NextIsOwn
  /\ NobodyIsAhead
  /\ ReadIsApplied
  /\ FinishedIsApplied
  /\ NoGaps
  /\ LedgerIsTheSchema
----------------------------------------------------------------------------
(* At first no file is applied and every run waits for the lock.           *)
LEMMA MigrationInvInit == Init => MigrationInv
<1> SUFFICES ASSUME Init PROVE MigrationInv
  OBVIOUS
<1>1. TypeOK
  BY DEF Init, TypeOK, RunRow, Phase
<1>2. \A r \in Run : runs[r].phase = "locking"
  BY DEF Init
<1> QED
  BY <1>1, <1>2 DEF Init, MigrationInv, LockIsExclusive, Locked, NextIsOwn,
     NobodyIsAhead, ReadIsApplied, FinishedIsApplied, NoGaps, LedgerIsTheSchema

(* A step of one run that changes neither ledger nor schema keeps what is  *)
(* said of the others, and of this one if it says nothing of it.           *)
LEMMA OneRunMoves ==
  ASSUME MigrationInv, NEW r \in Run, NEW row \in RunRow,
         runs' = [runs EXCEPT ![r] = row],
         UNCHANGED <<ledger, executed>>,
         lockHolder' \in Run \cup {None},
         row.phase \in Locked => lockHolder' = r,
         \A q \in Run \ {r} : runs[q].phase \in Locked => lockHolder' = q,
         row.phase \in {"applying", "recording"} =>
           row.next \in File /\ row.checkout[row.next] # None /\ ledger[row.next] = None,
         \A f \in File :
           /\ row.phase \in {"reading", "applying", "recording"}
           /\ row.checkout[f] # None
           /\ row.next # None /\ ~(row.next < f)
           => \/ ledger[f] = row.checkout[f]
              \/ row.phase # "reading" /\ f = row.next,
         \A f \in File :
           row.phase \in {"finishing", "done"} /\ row.checkout[f] # None
           => ledger[f] = row.checkout[f]
  PROVE  MigrationInv'
<1> USE DEF MigrationInv
<1>1. /\ runs'[r] = row /\ \A q \in Run \ {r} : runs'[q] = runs[q]
      /\ ledger' = ledger /\ executed' = executed
  BY DEF TypeOK
<1>2. TypeOK'
  BY <1>1 DEF TypeOK
<1>3. LockIsExclusive' /\ NextIsOwn' /\ NobodyIsAhead'
  BY <1>1 DEF LockIsExclusive, NextIsOwn, NobodyIsAhead
<1>4. ReadIsApplied'
  <2> SUFFICES ASSUME NEW q \in Run, NEW f \in File,
                      runs'[q].phase \in {"reading", "applying", "recording"},
                      runs'[q].checkout[f] # None, f \notin Unread(q)'
               PROVE  \/ ledger[f] = runs'[q].checkout[f]
                      \/ runs'[q].phase # "reading" /\ f = runs'[q].next
    BY <1>1 DEF ReadIsApplied
  <2>1. CASE q = r
    BY <1>1, <2>1 DEF Unread
  <2>2. CASE q # r
    BY <1>1, <2>2 DEF ReadIsApplied, Unread
  <2> QED
    BY <2>1, <2>2
<1>5. FinishedIsApplied'
  BY <1>1 DEF FinishedIsApplied
<1>6. NoGaps' /\ LedgerIsTheSchema'
  BY <1>1 DEF NoGaps, LedgerIsTheSchema
<1> QED
  BY <1>2, <1>3, <1>4, <1>5, <1>6

(* The file that is recorded is new, and all before it are there.          *)
LEMMA RecordKeeps ==
  ASSUME MigrationInv, NEW r \in Run, runs[r].phase = "recording",
         ledger' = [ledger EXCEPT ![runs[r].next] = runs[r].checkout[runs[r].next]],
         executed' = [executed EXCEPT ![runs[r].next] = @ + 1],
         Become(r, "reading"), UNCHANGED lockHolder
  PROVE  MigrationInv'
<1> DEFINE g == runs[r].next
           row == [runs[r] EXCEPT !.phase = "reading"]
<1> USE FileAssumption DEF MigrationInv
<1>1. /\ g \in File /\ g \in Nat /\ runs[r].checkout \in Checkouts
      /\ runs[r].checkout[g] # None /\ ledger[g] = None
      /\ runs[r].checkout[g] \in Content \cup {None}
  BY CheckoutAssumption DEF NextIsOwn, NobodyIsAhead, TypeOK, RunRow
<1>2. /\ row \in RunRow /\ row.phase = "reading"
      /\ row.checkout = runs[r].checkout /\ row.next = g
  BY DEF TypeOK, RunRow, Phase
<1>3. /\ runs'[r] = row /\ \A q \in Run \ {r} : runs'[q] = runs[q]
      /\ runs' \in [Run -> RunRow]
  BY <1>2 DEF Become, TypeOK
<1>4. /\ ledger'[g] = runs[r].checkout[g] /\ executed'[g] = 1
      /\ \A f \in File \ {g} : ledger'[f] = ledger[f] /\ executed'[f] = executed[f]
  BY <1>1 DEF TypeOK, LedgerIsTheSchema
<1>5. \A q \in Run \ {r} : runs[q].phase \notin Locked
  BY FileAssumption DEF LockIsExclusive, Locked
<1>6. TypeOK'
  BY <1>1, <1>3 DEF TypeOK
<1>7. LockIsExclusive' /\ NextIsOwn' /\ NobodyIsAhead'
  BY <1>2, <1>3, <1>5 DEF LockIsExclusive, NextIsOwn, NobodyIsAhead, Locked
<1>8. \A f \in File : ledger[f] # None => ledger'[f] = ledger[f]
  BY <1>1, <1>4
<1>9. ReadIsApplied'
  <2> SUFFICES ASSUME NEW q \in Run, NEW f \in File,
                      runs'[q].phase \in {"reading", "applying", "recording"},
                      runs'[q].checkout[f] # None, f \notin Unread(q)'
               PROVE  ledger'[f] = runs'[q].checkout[f]
    BY DEF ReadIsApplied
  <2>0. q = r /\ runs'[q] = row
    BY <1>3, <1>5 DEF Locked
  <2> HIDE DEF row
  <2>1. runs[r].checkout[f] # None /\ f \notin Unread(r)
    BY <1>2, <1>3, <2>0 DEF Unread
  <2>2. ledger[f] = runs[r].checkout[f] \/ f = g
    BY <2>1 DEF ReadIsApplied
  <2> QED
    BY <1>2, <1>4, <1>8, <2>0, <2>1, <2>2
<1>10. FinishedIsApplied'
  <2> SUFFICES ASSUME NEW q \in Run, NEW f \in File,
                      runs'[q].phase \in {"finishing", "done"},
                      runs'[q].checkout[f] # None
               PROVE  ledger'[f] = runs'[q].checkout[f]
    BY DEF FinishedIsApplied
  <2>1. q # r /\ runs'[q] = runs[q]
    BY <1>2, <1>3
  <2>2. ledger[f] = runs[q].checkout[f]
    BY <2>1 DEF FinishedIsApplied
  <2> QED
    BY <1>8, <2>1, <2>2
<1>11. NoGaps'
  <2> SUFFICES ASSUME NEW f \in File, NEW h \in File, f < h, ledger'[h] # None
               PROVE  ledger'[f] # None
    BY DEF NoGaps
  <2>1. CASE h # g
    BY <1>4, <1>8, <2>1 DEF NoGaps
  <2>2. CASE h = g
    <3>1. runs[r].checkout[f] # None
      BY <1>1, <2>2, CheckoutAssumption
    <3>2. f \notin Unread(r) /\ f # g
      BY <1>1, <2>2 DEF Unread
    <3>3. ledger[f] = runs[r].checkout[f]
      BY <3>1, <3>2 DEF ReadIsApplied
    <3> QED
      BY <1>8, <3>1, <3>3
  <2> QED
    BY <2>1, <2>2
<1>12. LedgerIsTheSchema'
  BY <1>1, <1>4 DEF LedgerIsTheSchema
<1> QED
  BY <1>6, <1>7, <1>9, <1>10, <1>11, <1>12

(* Whatever a run does, dying and starting anew included.                  *)
LEMMA MigrationInvNext == MigrationInv /\ [Next]_vars => MigrationInv'
<1> SUFFICES ASSUME MigrationInv, [Next]_vars PROVE MigrationInv'
  OBVIOUS
<1> USE FileAssumption DEF MigrationInv
<1>1. ASSUME NEW r \in Run, Lock(r) PROVE MigrationInv'
  <2> DEFINE row == [runs[r] EXCEPT !.phase = "reading", !.next = None]
  <2>1. row \in RunRow /\ row.phase = "reading" /\ row.next = None
    BY DEF TypeOK, RunRow, Phase
  <2>2. runs' = [runs EXCEPT ![r] = row]
    BY <1>1 DEF Lock, TypeOK
  <2>3. \A q \in Run : runs[q].phase \notin Locked
    BY <1>1 DEF Lock, LockIsExclusive
  <2> HIDE DEF row
  <2> QED
    BY <1>1, <2>1, <2>2, <2>3, OneRunMoves DEF Lock, Locked
<1>2. ASSUME NEW r \in Run, Read(r) PROVE MigrationInv'
  <2>0. /\ runs[r] \in RunRow /\ runs[r].phase = "reading" /\ lockHolder = r
        /\ lockHolder \in Run \cup {None}
        /\ \A q \in Run \ {r} : runs[q].phase \in Locked => lockHolder = q
    BY <1>2 DEF Read, TypeOK, LockIsExclusive, Locked
  <2>1. CASE Unread(r) = {} /\ Become(r, "finishing")
    <3> DEFINE row == [runs[r] EXCEPT !.phase = "finishing"]
    <3>1. row \in RunRow /\ row.phase = "finishing" /\ row.checkout = runs[r].checkout
      BY <2>0 DEF RunRow, Phase
    <3>2. \A f \in File : row.checkout[f] # None => ledger[f] = row.checkout[f]
      BY <2>0, <2>1, <3>1 DEF ReadIsApplied
    <3>3. runs' = [runs EXCEPT ![r] = row]
      BY <2>1 DEF Become, TypeOK
    <3> HIDE DEF row
    <3> QED
      BY <1>2, <2>0, <3>1, <3>2, <3>3, OneRunMoves DEF Read
  <2>2. ASSUME NEW f \in File, First(f, Unread(r)),
               runs' = [runs EXCEPT ![r].next = f,
                 ![r].phase = IF ledger[f] = None THEN "applying"
                              ELSE IF ledger[f] = runs[r].checkout[f] THEN "reading"
                              ELSE "failing"]
        PROVE  MigrationInv'
    <3> DEFINE phase == IF ledger[f] = None THEN "applying"
                        ELSE IF ledger[f] = runs[r].checkout[f] THEN "reading"
                        ELSE "failing"
               row == [runs[r] EXCEPT !.next = f, !.phase = phase]
    <3>1. /\ phase \in {"applying", "reading", "failing"}
          /\ phase = "applying" <=> ledger[f] = None
          /\ phase = "reading" => ledger[f] = runs[r].checkout[f]
      OBVIOUS
    <3>2. runs' = [runs EXCEPT ![r] = row]
      BY <2>2 DEF TypeOK
    <3> HIDE DEF phase
    <3>3. /\ row \in RunRow /\ row.phase = phase /\ row.next = f
          /\ row.checkout = runs[r].checkout
      BY <2>0, <3>1 DEF RunRow, Phase
    <3>4. f \in Unread(r) /\ \A g \in Unread(r) : f <= g
      BY <2>2 DEF First
    <3>5. runs[r].checkout[f] # None
      BY <3>4 DEF Unread
    <3>6. ASSUME NEW g \in File, row.checkout[g] # None, ~(f < g), phase # "failing"
          PROVE  \/ ledger[g] = row.checkout[g]
                 \/ phase # "reading" /\ g = f
      <4>1. CASE g = f
        BY <3>1, <3>3, <3>6, <4>1
      <4>2. CASE g # f
        <5>1. g \notin Unread(r)
          BY <3>4, <3>6, <4>2
        <5> QED
          BY <2>0, <3>3, <3>6, <5>1 DEF ReadIsApplied
      <4> QED
        BY <4>1, <4>2
    <3>7. f # None /\ None \notin File
      OBVIOUS
    <3> HIDE DEF row
    <3> QED
      BY <1>2, <2>0, <3>1, <3>2, <3>3, <3>5, <3>6, <3>7, OneRunMoves
         DEF Read, Locked
  <2> QED
    BY <1>2, <2>1, <2>2 DEF Read
<1>3. ASSUME NEW r \in Run, NEW phase \in Phase, Become(r, phase),
             UNCHANGED <<ledger, executed>>,
             lockHolder' \in Run \cup {None},
             phase \in Locked => lockHolder' = r,
             \A q \in Run \ {r} : runs[q].phase \in Locked => lockHolder' = q,
             phase = "recording" => runs[r].phase = "applying",
             phase \in {"failing", "failed", "done", "recording"},
             phase = "done" => runs[r].phase = "finishing"
      PROVE  MigrationInv'
  <2> DEFINE row == [runs[r] EXCEPT !.phase = phase]
  <2>1. /\ row \in RunRow /\ row.phase = phase
        /\ row.checkout = runs[r].checkout /\ row.next = runs[r].next
    BY DEF TypeOK, RunRow
  <2>2. runs' = [runs EXCEPT ![r] = row]
    BY <1>3 DEF Become, TypeOK
  <2> HIDE DEF row
  <2>3. phase = "recording" =>
          /\ row.next \in File /\ row.checkout[row.next] # None
          /\ ledger[row.next] = None
    BY <1>3, <2>1 DEF NextIsOwn, NobodyIsAhead
  <2>4. ASSUME NEW f \in File, phase = "recording", row.checkout[f] # None,
               row.next # None, ~(row.next < f)
        PROVE  ledger[f] = row.checkout[f] \/ f = row.next
    BY <1>3, <2>1, <2>4 DEF ReadIsApplied, Unread
  <2>5. \A f \in File : phase = "done" /\ row.checkout[f] # None
                        => ledger[f] = row.checkout[f]
    BY <1>3, <2>1 DEF FinishedIsApplied
  <2> QED
    BY <1>3, <2>1, <2>2, <2>3, <2>4, <2>5, OneRunMoves
<1>4. ASSUME NEW r \in Run, Execute(r) PROVE MigrationInv'
  BY <1>3, <1>4 DEF Execute, TypeOK, LockIsExclusive, Locked, Phase
<1>5. ASSUME NEW r \in Run, Record(r) PROVE MigrationInv'
  BY <1>3, <1>5, RecordKeeps DEF Record, TypeOK, LockIsExclusive, Locked, Phase
<1>6. ASSUME NEW r \in Run, Unlock(r) PROVE MigrationInv'
  BY <1>3, <1>6 DEF Unlock, TypeOK, LockIsExclusive, Locked, Phase
<1>7. ASSUME NEW r \in Run, Die(r) PROVE MigrationInv'
  BY <1>3, <1>7 DEF Die, TypeOK, LockIsExclusive, Locked, Phase
<1>8. ASSUME NEW r \in Run, Start(r) PROVE MigrationInv'
  <2>1. PICK checkout \in Checkouts :
          runs' = [runs EXCEPT ![r] =
            [phase |-> "locking", checkout |-> checkout, next |-> None]]
    BY <1>8 DEF Start
  <2> DEFINE row == [phase |-> "locking", checkout |-> checkout, next |-> None]
  <2>2. row \in RunRow /\ row.phase = "locking"
    BY DEF RunRow, Phase
  <2> HIDE DEF row
  <2>3. runs' = [runs EXCEPT ![r] = row]
    BY <2>1 DEF row
  <2>4. /\ UNCHANGED <<ledger, executed>> /\ lockHolder' = lockHolder
        /\ lockHolder \in Run \cup {None}
        /\ \A q \in Run \ {r} : runs[q].phase \in Locked => lockHolder = q
    BY <1>8 DEF Start, TypeOK, LockIsExclusive
  <2> QED
    BY <2>2, <2>3, <2>4, OneRunMoves DEF Locked
<1>9. CASE UNCHANGED vars
  BY <1>9 DEF vars, TypeOK, LockIsExclusive, NextIsOwn, NobodyIsAhead,
     ReadIsApplied, Unread, FinishedIsApplied, NoGaps, LedgerIsTheSchema
<1> QED
  BY <1>1, <1>2, <1>4, <1>5, <1>6, <1>7, <1>8, <1>9 DEF Next, Work
----------------------------------------------------------------------------
(* The invariant of the migration runner: who is past the lock, and what   *)
(* the ledger has of the files each run has read.                          *)
THEOREM MigrationIsInductive == Spec => []MigrationInv
  BY MigrationInvInit, MigrationInvNext, PTL DEF Spec

(* Wherever a process dies, the ledger names exactly the files whose SQL   *)
(* took effect, each of them once (applyMigration).                        *)
THEOREM LedgerIsTrue == Spec => []LedgerIsTheSchema
<1>1. MigrationInv => LedgerIsTheSchema
  BY DEF MigrationInv
<1> QED
  BY <1>1, MigrationIsInductive, PTL

(* A run that succeeds leaves its whole checkout applied (migrate).        *)
THEOREM SuccessIsComplete == Spec => []DoneMeansApplied
<1>1. MigrationInv => DoneMeansApplied
  BY DEF MigrationInv, FinishedIsApplied, DoneMeansApplied
<1> QED
  BY <1>1, MigrationIsInductive, PTL

(* The lock keeps any two runs from executing the same file, and files are *)
(* never skipped.                                                          *)
THEOREM RunsDoNotCollide == Spec => [](NobodyIsAhead /\ NoGaps)
<1>1. MigrationInv => NobodyIsAhead /\ NoGaps
  BY DEF MigrationInv
<1> QED
  BY <1>1, MigrationIsInductive, PTL
=============================================================================
