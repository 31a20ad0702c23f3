------------------------- MODULE TransactionsProofs -------------------------
(***************************************************************************)
(* What overlapping handlers may rely on, for every number of them, of     *)
(* people, of attempts and of commands.                                    *)
(*                                                                         *)
(* Row locks: a poll, which writes nothing to a command it hands out       *)
(* again, still never answers with one that had ended when it committed.   *)
(* Snapshots and refused conflicts: nothing is queued without, or outlives,*)
(* the permission it rests on, though no handler locks all it decides by.  *)
(*                                                                         *)
(* First comes each handler alone: whatever snapshot it works on, it asks  *)
(* for the lock of every command it writes but its own, and of the one it  *)
(* answers with (IsSound).  Then the order of the statements of different  *)
(* handlers (OverlapInv).  Then again each alone: what it does to commands *)
(* and permissions (IsFaithful), and what different ones know of each      *)
(* other (PromiseInv), which makes every commit a step of Consent.         *)
(*                                                                         *)
(* Last, handlers one at a time: what a handler does and answers depends   *)
(* on the rows it used and writes, and on no other (IsRepeatable); what    *)
(* the commits left is a history from which every snapshot can be read off *)
(* (AtomicInv), and in which no dangerous structure was let through.  So   *)
(* the handlers can be put in an order in which each, run alone, finds     *)
(* those rows as it found them in its snapshot (HandlersAreAtomic).        *)
(***************************************************************************)
EXTENDS Transactions, FiniteSetTheorems, FunctionTheorems, SequenceTheorems,
        TLAPS

----------------------------------------------------------------------------
(* Orders of finite sets.                                                  *)

(* A finite set has an order in which every member has one place.          *)
LEMMA AnyOrderExists ==
  ASSUME NEW S, IsFiniteSet(S)
  PROVE  /\ AnyOrder(S) \in [1..Cardinality(S) -> S]
         /\ Cardinality(S) \in Nat
<1>1. Cardinality(S) \in Nat /\ ExistsBijection(1..Cardinality(S), S)
  BY FS_CardinalityType
<1>2. PICK f : f \in Bijection(1..Cardinality(S), S)
  BY <1>1, Fun_ExistsBij
<1>3. /\ f \in [1..Cardinality(S) -> S]
      /\ \A i, j \in DOMAIN f : i # j => f[i] # f[j]
  <2>1. /\ f \in [1..Cardinality(S) -> S]
        /\ \A i, j \in 1..Cardinality(S) : f[i] = f[j] => i = j
    BY <1>2, Fun_BijectionProperties, Zenon
  <2>. QED  BY <2>1
<1>. QED
  BY <1>1, <1>3 DEF AnyOrder

(* A finite set of numbers can be listed in ascending order: a member's    *)
(* place is the number of members up to it.                                *)
LEMMA AscendingExists ==
  ASSUME NEW S \in SUBSET Nat, IsFiniteSet(S)
  PROVE  /\ Cardinality(S) \in Nat
         /\ Ascending(S) \in [1..Cardinality(S) -> S]
         /\ \A i, j \in 1..Cardinality(S) :
              i < j => Ascending(S)[i] < Ascending(S)[j]
         /\ \A x \in S : \E n \in 1..Cardinality(S) : Ascending(S)[n] = x
<1>. DEFINE size == Cardinality(S)
            UpTo(x) == {y \in S : y <= x}
            place == [x \in S |-> Cardinality(UpTo(x))]
<1>1. size \in Nat
  BY FS_CardinalityType
<1>2. ASSUME NEW x \in S
      PROVE  /\ IsFiniteSet(UpTo(x))
             /\ Cardinality(UpTo(x)) \in 1..size
  <2>1. /\ IsFiniteSet(UpTo(x))
        /\ Cardinality(UpTo(x)) <= size
    BY FS_Subset, UpTo(x) \in SUBSET S
  <2>2. Cardinality(UpTo(x)) \in Nat
    BY <2>1, FS_CardinalityType
  <2>3. x \in UpTo(x)
    OBVIOUS
  <2>4. Cardinality(UpTo(x)) # 0
    <3>. HIDE DEF UpTo
    <3>. QED  BY <2>1, <2>3, FS_EmptySet
  <2>. HIDE DEF UpTo
  <2>. QED
    BY <1>1, <2>1, <2>2, <2>4
<1>3. ASSUME NEW x \in S, NEW y \in S, x < y
      PROVE  Cardinality(UpTo(x)) < Cardinality(UpTo(y))
  <2>1. UpTo(x) \in SUBSET UpTo(y) /\ UpTo(x) # UpTo(y)
    <3>1. y \in UpTo(y) /\ y \notin UpTo(x)
      BY <1>3
    <3>2. ASSUME NEW z \in UpTo(x) PROVE z \in UpTo(y)
      <4>1. z \in Nat /\ x \in Nat /\ y \in Nat /\ z <= x
        OBVIOUS
      <4>. QED  BY <1>3, <4>1
    <3>. QED  BY <3>1, <3>2
  <2>2. /\ Cardinality(UpTo(x)) <= Cardinality(UpTo(y))
        /\ Cardinality(UpTo(x)) # Cardinality(UpTo(y))
    <3>. HIDE DEF UpTo
    <3>. QED  BY <1>2, <2>1, FS_Subset
  <2>. HIDE DEF UpTo
  <2>. QED
    BY <1>1, <1>2, <2>2
<1>4. place \in Injection(S, 1..size)
  <2>1. place \in [S -> 1..size]
    BY <1>2
  <2>2. ASSUME NEW a \in S, NEW b \in S, place[a] = place[b] PROVE a = b
    <3>1. ~(a < b) /\ ~(b < a)
      BY <1>2, <1>3, <2>2
    <3>. QED  BY <3>1
  <2>. HIDE DEF place
  <2>. QED
    BY <2>1, <2>2, Fun_IsInj
<1>5. IsFiniteSet(1..size) /\ Cardinality(1..size) = size
  BY <1>1, FS_Interval
<1>6. place \in Surjection(S, 1..size)
  <2>. HIDE DEF place
  <2>. QED  BY <1>4, <1>5, FS_Injection
<1>7. \A n \in 1..size : \E x \in S : place[x] = n
  <2>. HIDE DEF place
  <2>. QED  BY <1>6, Fun_SurjectionProperties
<1>. DEFINE order == [n \in 1..size |-> CHOOSE x \in S : place[x] = n]
<1>8. \A n \in 1..size : order[n] \in S /\ place[order[n]] = n
  BY <1>7
<1>9. \A i, j \in 1..size : i < j => order[i] < order[j]
  <2>. SUFFICES ASSUME NEW i \in 1..size, NEW j \in 1..size, i < j
                PROVE  order[i] < order[j]
    OBVIOUS
  <2>1. order[i] \in S /\ order[j] \in S
    BY <1>8
  <2>2. place[order[i]] = i /\ place[order[j]] = j
    BY <1>8
  <2>3. ~(order[j] < order[i])
    <3>. SUFFICES ASSUME order[j] < order[i] PROVE FALSE
      OBVIOUS
    <3>. HIDE DEF order, UpTo
    <3>1. Cardinality(UpTo(order[j])) < Cardinality(UpTo(order[i]))
      BY <1>3, <2>1
    <3>2. j < i
      BY <2>1, <2>2, <3>1
    <3>. QED  BY <3>2
  <2>4. order[i] # order[j]
    <3>. HIDE DEF order, place
    <3>. QED  BY <2>2
  <2>. HIDE DEF order, place, UpTo, size
  <2>5. order[i] \in Nat /\ order[j] \in Nat
    BY <2>1
  <2>. QED
    BY <2>3, <2>4, <2>5
<1>10. order \in [1..size -> S] /\ DOMAIN order = 1..size
  <2>1. order \in [1..size -> S]
    BY <1>7
  <2>. QED  BY <2>1
<1>11. /\ Ascending(S) \in [1..size -> S]
       /\ \A i, j \in 1..size : i < j => Ascending(S)[i] < Ascending(S)[j]
  <2>. HIDE DEF order
  <2>. QED  BY <1>9, <1>10 DEF Ascending
<1>12. ASSUME NEW f \in [1..size -> S],
              \A i, j \in 1..size : i < j => f[i] < f[j]
       PROVE  \A x \in S : \E n \in 1..size : f[n] = x
  <2>1. ASSUME NEW a \in 1..size, NEW b \in 1..size, f[a] = f[b] PROVE a = b
    <3>1. f[a] \in Nat /\ f[b] \in Nat
      OBVIOUS
    <3>2. ~(a < b) /\ ~(b < a)
      BY <1>12, <2>1, <3>1
    <3>. QED  BY <1>1, <3>2
  <2>2. f \in Injection(1..size, S)
    BY <2>1, Fun_IsInj
  <2>3. f \in Surjection(1..size, S)
    BY <1>5, <2>2, FS_Injection
  <2>. QED
    BY <2>3 DEF Surjection
<1>. QED
  BY <1>1, <1>11, <1>12

(* The first of that order is the least member.                            *)
LEMMA LeastExists ==
  ASSUME NEW S \in SUBSET Nat, IsFiniteSet(S), S # {}
  PROVE  \E x \in S : \A y \in S : x <= y
<1>. DEFINE size == Cardinality(S)
            order == Ascending(S)
<1>1. /\ size \in Nat
      /\ order \in [1..size -> S]
      /\ \A i, j \in 1..size : i < j => order[i] < order[j]
      /\ \A x \in S : \E n \in 1..size : order[n] = x
  BY AscendingExists
<1>. HIDE DEF size, order
<1>2. 1 \in 1..size
  <2>1. PICK y \in S : TRUE
    OBVIOUS
  <2>2. PICK n \in 1..size : order[n] = y
    BY <1>1
  <2>. QED  BY <1>1, <2>2
<1>3. ASSUME NEW y \in S PROVE order[1] <= y
  <2>1. PICK n \in 1..size : order[n] = y
    BY <1>1
  <2>2. n = 1 \/ 1 < n
    BY <1>1
  <2>3. order[1] \in Nat /\ y \in Nat
    BY <1>1, <1>2
  <2>. QED  BY <1>1, <1>2, <2>1, <2>2, <2>3
<1>. QED
  BY <1>1, <1>2, <1>3
----------------------------------------------------------------------------
(* Sequences of locks.                                                     *)

LocksIn(locks) == {locks[n] : n \in DOMAIN locks}

IsSequence(locks) == locks \in Seq(LocksIn(locks))

(* One list of statements after another.                                   *)
LEMMA LocksJoin ==
  ASSUME NEW a, NEW b, IsSequence(a), IsSequence(b)
  PROVE  /\ IsSequence(a \o b)
         /\ LocksIn(a \o b) = LocksIn(a) \cup LocksIn(b)
<1>. DEFINE both == LocksIn(a) \cup LocksIn(b)
<1>1. a \in Seq(both) /\ b \in Seq(both)
  BY SeqMonotonic DEF IsSequence
<1>2. /\ Len(a) \in Nat /\ DOMAIN a = 1..Len(a)
      /\ Len(b) \in Nat /\ DOMAIN b = 1..Len(b)
  <2>. HIDE DEF both
  <2>. QED  BY <1>1, LenProperties
<1>3. /\ a \o b \in Seq(both)
      /\ Len(a \o b) = Len(a) + Len(b)
      /\ \A n \in 1..Len(a) + Len(b) :
           (a \o b)[n] = IF n <= Len(a) THEN a[n] ELSE b[n - Len(a)]
  <2>. HIDE DEF both
  <2>. QED  BY <1>1, ConcatProperties
<1>4. DOMAIN (a \o b) = 1..Len(a) + Len(b)
  <2>. HIDE DEF both
  <2>. QED  BY <1>3, LenProperties
<1>5. LocksIn(a \o b) = both
  <2>1. ASSUME NEW n \in DOMAIN (a \o b) PROVE (a \o b)[n] \in both
    BY <1>2, <1>3, <1>4 DEF LocksIn
  <2>2. ASSUME NEW n \in DOMAIN a PROVE a[n] \in LocksIn(a \o b)
    <3>1. n \in DOMAIN (a \o b) /\ (a \o b)[n] = a[n]
      BY <1>2, <1>3, <1>4
    <3>. QED  BY <3>1 DEF LocksIn
  <2>3. ASSUME NEW n \in DOMAIN b PROVE b[n] \in LocksIn(a \o b)
    <3>1. Len(a) + n \in DOMAIN (a \o b) /\ (a \o b)[Len(a) + n] = b[n]
      BY <1>2, <1>3, <1>4
    <3>. QED  BY <3>1 DEF LocksIn
  <2>. QED  BY <2>1, <2>2, <2>3 DEF LocksIn
<1>. QED
  BY <1>3, <1>5 DEF IsSequence

(* Short lists of statements.                                              *)
LEMMA FewLocks ==
  /\ IsSequence(<< >>)
  /\ \A x : IsSequence(<<x>>) /\ LocksIn(<<x>>) = {x}
  /\ \A x, y : IsSequence(<<x, y>>) /\ LocksIn(<<x, y>>) = {x, y}
  /\ \A x, y, z : IsSequence(<<x, y, z>>) /\ LocksIn(<<x, y, z>>) = {x, y, z}
BY DEF IsSequence, LocksIn

(* A loop over the places of an order.                                     *)
LEMMA LoopLocks ==
  ASSUME NEW size \in Nat, NEW f, f = [n \in 1..size |-> f[n]]
  PROVE  IsSequence(f)
BY DEF IsSequence, LocksIn

----------------------------------------------------------------------------
(* What the statements lock.                                               *)

(* The names commands have or may come to have.                            *)
Names == DOMAIN SeedCommand \cup Process

(* There are finitely many, and they are numbers.                          *)
LEMMA NamesAreFinite == IsFiniteSet(Names) /\ Names \subseteq Nat
BY TransactionAssumption, FS_Union DEF Names

(* There is a place for every row of people, of commands and of requests.  *)
LEMMA PlacesOfRows ==
  /\ \A p \in Person : {PersonRow(p), StateRow(p), SenderRow(p), PolicyRow(p),
                        DeviceRow(p), InvitationRow(p)} \subseteq Row
  /\ \A p, q \in Person : {RelationshipRow(p, q), GrantRow(p, q)} \subseteq Row
  /\ \A i \in Names : {CommandRow(i), ReplyRow(i), ResultRow(i)} \subseteq Row
  /\ \A job \in Job : job.op = "ISSUE" => RequestRow(job.actor, job.key) \in Row
<1>. DEFINE Own(p) == {PersonRow(p), StateRow(p), SenderRow(p), PolicyRow(p),
                       DeviceRow(p), InvitationRow(p)}
            Shared(p, q) == {RelationshipRow(p, q), GrantRow(p, q)}
            Of(i) == {CommandRow(i), ReplyRow(i), ResultRow(i)}
            requests == {RequestRow(job.actor, job.key) : job \in {j \in Job : j.op = "ISSUE"}}
<1>1. Row = (UNION {Own(p) : p \in Person})
              \cup (UNION {Shared(p, q) : p, q \in Person})
              \cup (UNION {Of(i) : i \in Names}) \cup requests
  BY DEF Row, Names
<1>2. \A job \in Job : job.op = "ISSUE" => RequestRow(job.actor, job.key) \in requests
  OBVIOUS
<1>. HIDE DEF Own, Shared, Of, requests
<1>3. \A p \in Person : Own(p) \subseteq Row
  BY <1>1
<1>4. \A p, q \in Person : Shared(p, q) \subseteq Row
  BY <1>1
<1>5. \A i \in Names : Of(i) \subseteq Row
  BY <1>1
<1>6. requests \subseteq Row
  BY <1>1
<1>. QED
  BY <1>2, <1>3, <1>4, <1>5, <1>6 DEF Own, Shared, Of

(* Handlers are processes with a job to do.                                *)
JobsAreGiven ==
  /\ Handling \subseteq Process
  /\ \A p \in Handling : JobOf(p) \in Job

(* Nothing else is ever a command.                                         *)
LEMMA CommandsHaveNames == JobsAreGiven => Command \subseteq Names
BY DEF JobsAreGiven, Handling, Command, Names

(* Every outstanding command of the selection is locked.                   *)
LEMMA LocksOfCommands ==
  ASSUME JobsAreGiven, NEW ids \in SUBSET Command, NEW s
  PROVE  /\ IsSequence(LockCommands(ids, s))
         /\ \A i \in OutstandingIn(ids, s) :
              Update(CommandRow(i)) \in LocksIn(LockCommands(ids, s))
<1>. DEFINE open == OutstandingIn(ids, s)
            order == Ascending(open)
<1>1. open \in SUBSET Nat /\ IsFiniteSet(open)
  <2>1. open \subseteq Names
    BY CommandsHaveNames DEF OutstandingIn
  <2>. QED  BY <2>1, NamesAreFinite, FS_Subset
<1>. HIDE DEF open
<1>2. /\ Cardinality(open) \in Nat
      /\ order \in [1..Cardinality(open) -> open]
      /\ \A i \in open : \E n \in 1..Cardinality(open) : order[n] = i
  BY <1>1, AscendingExists
<1>. DEFINE locks == [n \in DOMAIN order |-> Update(CommandRow(order[n]))]
<1>3. LockCommands(ids, s) = locks
  BY DEF LockCommands, open
<1>. HIDE DEF order
<1>4. DOMAIN order = 1..Cardinality(open)
  BY <1>2
<1>5. IsSequence(locks)
  <2>1. locks = [n \in 1..Cardinality(open) |-> locks[n]]
    BY <1>4
  <2>. HIDE DEF locks
  <2>. QED  BY <1>2, <2>1, LoopLocks
<1>6. ASSUME NEW i \in open PROVE Update(CommandRow(i)) \in LocksIn(locks)
  <2>1. PICK n \in 1..Cardinality(open) : order[n] = i
    BY <1>2
  <2>2. n \in DOMAIN locks /\ locks[n] = Update(CommandRow(i))
    BY <1>4, <2>1
  <2>. QED  BY <2>2 DEF LocksIn
<1>. QED
  BY <1>3, <1>5, <1>6 DEF open

(* Rows are inserted, or deleted, in some order.                           *)
LEMMA LocksOfRows ==
  ASSUME NEW rows, IsFiniteSet(rows)
  PROVE  /\ IsSequence([n \in DOMAIN AnyOrder(rows) |-> Update(AnyOrder(rows)[n])])
         /\ IsSequence([n \in DOMAIN AnyOrder(rows) |->
                          KeyShare(PersonRow(AnyOrder(rows)[n][2]))])
<1>. DEFINE order == AnyOrder(rows)
            size == Cardinality(rows)
<1>1. size \in Nat /\ DOMAIN order = 1..size
  BY AnyOrderExists
<1>. HIDE DEF order, size
<1>2. ASSUME NEW f, f = [n \in DOMAIN order |-> f[n]] PROVE IsSequence(f)
  BY <1>1, <1>2, LoopLocks
<1>3. IsSequence([n \in DOMAIN order |-> Update(order[n])])
  BY <1>2
<1>4. IsSequence([n \in DOMAIN order |-> KeyShare(PersonRow(order[n][2]))])
  BY <1>2
<1>. QED
  BY <1>3, <1>4 DEF order

(* The locks of an insertion are a sequence, whatever is there already.    *)
LEMMA LocksOfInsert ==
  ASSUME NEW rows, IsFiniteSet(rows), NEW s
  PROVE  IsSequence(Insert(rows, s))
<1>. DEFINE missing == {row \in rows : s[row] = None}
<1>1. IsFiniteSet(missing)
  BY FS_Subset, missing \in SUBSET rows
<1>. HIDE DEF missing
<1>2. /\ IsSequence([n \in DOMAIN AnyOrder(missing) |-> Update(AnyOrder(missing)[n])])
      /\ IsSequence([n \in DOMAIN AnyOrder(missing) |->
                       KeyShare(PersonRow(AnyOrder(missing)[n][2]))])
  BY <1>1, LocksOfRows
<1>. QED
  BY <1>2, LocksJoin DEF Insert, missing

(* So are those of a row that is inserted if missing and then locked.      *)
LEMMA LocksOfEnsure ==
  ASSUME NEW row, NEW s
  PROVE  IsSequence(EnsureAndLock(row, s))
<1>1. IsSequence(Insert({row}, s))
  BY LocksOfInsert, FS_Singleton
<1>2. IsSequence(<<Update(row)>>)
  BY FewLocks
<1>. QED
  BY <1>1, <1>2, LocksJoin DEF EnsureAndLock

(* One pair's grant, or that of two.                                       *)
LEMMA LocksOfDeleted ==
  ASSUME NEW x, NEW y, NEW pairs \in SUBSET {x, y}, NEW s
  PROVE  IsSequence(LockDeleted(pairs, s))
<1>. DEFINE both == {GrantRow(x[2], x[1])} \cup {GrantRow(y[2], y[1])}
            deleted == DOMAIN Deleted(pairs, s)
<1>1. IsFiniteSet(both)
  <2>1. /\ IsFiniteSet({GrantRow(x[2], x[1])})
        /\ IsFiniteSet({GrantRow(y[2], y[1])})
    BY FS_Singleton
  <2>. QED  BY <2>1, FS_Union
<1>2. deleted \in SUBSET GrantRows(pairs)
  BY DEF Deleted
<1>3. GrantRows(pairs) \in SUBSET both
  BY DEF GrantRows
<1>. HIDE DEF both, deleted
<1>4. IsFiniteSet(deleted)
  BY <1>1, <1>2, <1>3, FS_Subset
<1>5. IsSequence([n \in DOMAIN AnyOrder(deleted) |-> Update(AnyOrder(deleted)[n])])
  BY <1>4, LocksOfRows
<1>. QED
  BY <1>5 DEF LockDeleted, deleted
----------------------------------------------------------------------------
(* What a handler's work is, whatever snapshot it is done on.              *)

(* Every command written is the handler's own, or one outstanding in the   *)
(* snapshot that it locks.                                                 *)
WritesAreLocked(p, s, work) ==
  \A i : CommandRow(i) \in DOMAIN work.writes =>
    \/ i = p
    \/ /\ s[CommandRow(i)] \in {"QUEUED", "DISPATCHED"}
       /\ Update(CommandRow(i)) \in LocksIn(work.locks)

(* A poll answers with an outstanding command that it locks, and           *)
(* dispatches it unless it has been dispatched.                            *)
AnswerIsLocked(s, work) ==
  work.answer # None =>
    LET row == CommandRow(work.answer)
    IN  /\ work.answer \in Command
        /\ s[row] \in {"QUEUED", "DISPATCHED"}
        /\ Update(row) \in LocksIn(work.locks)
        /\ \/ row \in DOMAIN work.writes /\ work.writes[row] = "DISPATCHED"
           \/ work.writes = << >> /\ s[row] = "DISPATCHED"

IsSound(p, s, work) ==
  /\ IsSequence(work.locks)
  /\ WritesAreLocked(p, s, work)
  /\ JobOf(p).op = "POLL" => AnswerIsLocked(s, work)

(* Rows of different tables differ.                                        *)
LEMMA CommandsAreOfOneTable ==
  /\ \A i, j : CommandRow(i) = CommandRow(j) => i = j
  /\ \A i, q : /\ CommandRow(i) # PersonRow(q)
               /\ CommandRow(i) # StateRow(q)
               /\ CommandRow(i) # SenderRow(q)
               /\ CommandRow(i) # PolicyRow(q)
               /\ CommandRow(i) # DeviceRow(q)
               /\ CommandRow(i) # InvitationRow(q)
               /\ CommandRow(i) # ReplyRow(q)
               /\ CommandRow(i) # ResultRow(q)
  /\ \A i, q, r : /\ CommandRow(i) # RelationshipRow(q, r)
                  /\ CommandRow(i) # GrantRow(q, r)
                  /\ CommandRow(i) # RequestRow(q, r)
BY DEF CommandRow, PersonRow, StateRow, SenderRow, PolicyRow, DeviceRow,
   InvitationRow, ReplyRow, ResultRow, RelationshipRow, GrantRow, RequestRow

(* Rows that are ensured or deleted are of other tables.                   *)
LEMMA OtherTables ==
  ASSUME NEW s, NEW i
  PROVE  /\ \A q : CommandRow(i) \notin DOMAIN Ensured({StateRow(q)}, s)
         /\ \A q, r : /\ CommandRow(i) \notin DOMAIN Ensured({StateRow(q), SenderRow(r)}, s)
                      /\ CommandRow(i) \notin DOMAIN Ensured({StateRow(q), StateRow(r)}, s)
         /\ \A pairs : CommandRow(i) \notin DOMAIN Deleted(pairs, s)
BY CommandsAreOfOneTable DEF Ensured, Deleted, GrantRows

(* Cancelling touches the outstanding commands of the selection only.      *)
LEMMA CancelledAreOutstanding ==
  ASSUME NEW ids, NEW s, NEW i, CommandRow(i) \in DOMAIN Cancelled(ids, s)
  PROVE  i \in OutstandingIn(ids, s) /\ s[CommandRow(i)] \in {"QUEUED", "DISPATCHED"}
BY CommandsAreOfOneTable DEF Cancelled, CommandRows, OutstandingIn

(* What the WHERE clauses select are commands.                             *)
LEMMA SelectionsAreCommands ==
  /\ \A pairs : Between(pairs) \subseteq Command
  /\ \A q : To(q) \subseteq Command
BY DEF Between, To

(* An issuance writes no command but its own.                              *)
LEMMA IssueIsSound ==
  ASSUME NEW p, NEW s, JobOf(p).op = "ISSUE"
  PROVE  IsSound(p, s, Issue(p, s))
<1>. DEFINE job     == JobOf(p)
            request == RequestRow(job.actor, job.key)
            theirs  == StateRow(job.recipient)
            mine    == SenderRow(job.actor)
            source  == job.replyTo
<1>1. IsSequence(EnsureAndLock(theirs, s)) /\ IsSequence(EnsureAndLock(mine, s))
  BY LocksOfEnsure
<1>2. CASE IsAnswered(request, s)
  <2>1. Issue(p, s) = Replay(p, s)
    BY <1>2 DEF Issue
  <2>2. /\ Replay(p, s).locks = EnsureAndLock(theirs, s)
        /\ Replay(p, s).writes = Ensured({theirs}, s)
    BY DEF Replay
  <2>3. WritesAreLocked(p, s, Replay(p, s))
    BY <2>2, OtherTables DEF WritesAreLocked
  <2>. QED
    BY <1>1, <2>1, <2>2, <2>3 DEF IsSound
<1>3. CASE ~IsAnswered(request, s)
  <2>. DEFINE queued == Authorized(p, s)
              command == IF ~queued THEN << >>
                 ELSE <<KeyShare(DeviceRow(job.recipient))>>
                      \o IF source = None THEN << >>
                         ELSE <<Update(ReplyRow(source)),
                                KeyShare(CommandRow(source))>>
              answer  == [outcome |-> IF queued THEN "QUEUED" ELSE "REJECTED",
                          id |-> p]
              theRequest == <<Update(request), KeyShare(PersonRow(job.actor)),
                              KeyShare(PersonRow(job.recipient))>>
              counted == IF queued THEN (CommandRow(p) :> "QUEUED") @@
                                   (theirs :> Count(theirs, s) + 1) @@
                                   (mine :> Count(mine, s) + 1)
                              ELSE Ensured({theirs, mine}, s)
              reply == IF queued /\ source # None THEN ReplyRow(source) :> p
                                                  ELSE << >>
  <2>1. /\ Issue(p, s).locks = EnsureAndLock(theirs, s) \o EnsureAndLock(mine, s)
                               \o theRequest \o command
        /\ Issue(p, s).writes = (request :> answer) @@ counted @@ reply
    BY <1>3 DEF Issue
  <2>2. IsSequence(command)
    <3>1. /\ IsSequence(<<KeyShare(DeviceRow(job.recipient))>>)
          /\ IsSequence(<<Update(ReplyRow(source)), KeyShare(CommandRow(source))>>)
          /\ IsSequence(<< >>)
      BY FewLocks
    <3>. QED
      BY <3>1, LocksJoin
  <2>3. IsSequence(theRequest)
    BY FewLocks
  <2>4. ASSUME NEW i, CommandRow(i) \in DOMAIN Issue(p, s).writes
        PROVE  i = p
    <3>1. DOMAIN ((request :> answer) @@ counted @@ reply)
            = {request} \cup DOMAIN counted \cup DOMAIN reply
      <4>. HIDE DEF request, counted, reply, answer
      <4>1. DOMAIN ((request :> answer) @@ counted) = {request} \cup DOMAIN counted
        BY DEF @@, :>
      <4>. QED  BY <4>1 DEF @@
    <3>2. CommandRow(i) # request
      BY CommandsAreOfOneTable
    <3>3. CommandRow(i) \notin DOMAIN reply
      BY CommandsAreOfOneTable DEF :>
    <3>4. CommandRow(i) \in DOMAIN counted => i = p
      <4>1. CASE queued
        <5>. DEFINE ejected == CommandRow(p) :> "QUEUED"
                    received == theirs :> Count(theirs, s) + 1
                    sent == mine :> Count(mine, s) + 1
        <5>1. DOMAIN ejected = {CommandRow(p)} /\ DOMAIN received = {theirs}
              /\ DOMAIN sent = {mine}
          BY DEF :>
        <5>2. counted = ejected @@ received @@ sent
          BY <4>1
        <5>. HIDE DEF ejected, received, sent, counted, theirs, mine
        <5>3. DOMAIN (ejected @@ received) = {CommandRow(p), theirs}
          BY <5>1 DEF @@
        <5>4. DOMAIN counted = {CommandRow(p)} \cup {theirs} \cup {mine}
          BY <5>1, <5>2, <5>3 DEF @@
        <5>. QED  BY <5>4, CommandsAreOfOneTable DEF theirs, mine
      <4>2. CASE ~queued
        BY <4>2, OtherTables
      <4>. QED  BY <4>1, <4>2
    <3>. QED
      BY <2>1, <2>4, <3>1, <3>2, <3>3, <3>4
  <2>5. IsSequence(EnsureAndLock(theirs, s) \o EnsureAndLock(mine, s)
                   \o theRequest \o command)
    <3>. HIDE DEF theirs, mine, theRequest, command
    <3>. QED  BY <1>1, <2>2, <2>3, LocksJoin
  <2>. HIDE DEF job, theirs, mine, theRequest, command, counted, reply
  <2>. QED
    BY <2>1, <2>4, <2>5 DEF IsSound, WritesAreLocked, job
<1>. QED
  BY <1>2, <1>3

(* The handlers that lock a state row and the policy first.                *)
LEMMA LocksOfConsent ==
  ASSUME NEW q, NEW s
  PROVE  IsSequence(LockConsent(q, s))
<1>1. IsSequence(EnsureAndLock(StateRow(q), s)) /\ IsSequence(<<Update(PolicyRow(q))>>)
  BY LocksOfEnsure, FewLocks
<1>. QED
  BY <1>1, LocksJoin DEF LockConsent

(* A pause locks what it cancels.                                          *)
LEMMA SetPausedIsSound ==
  ASSUME JobsAreGiven, NEW p, NEW s, JobOf(p).op = "SET_PAUSED"
  PROVE  IsSound(p, s, SetPaused(p, s))
<1>. DEFINE job   == JobOf(p)
            ids   == IF job.paused THEN To(job.recipient) ELSE {}
            state == StateRow(job.recipient)
            paused == PolicyRow(job.recipient)
                        :> IF job.paused THEN "PAUSED" ELSE "OPEN"
            work  == SetPaused(p, s)
<1>1. /\ work.locks = LockConsent(job.recipient, s) \o LockCommands(ids, s)
      /\ work.writes = paused @@ Cancelled(ids, s) @@ Ensured({state}, s)
  BY DEF SetPaused
<1>2. ids \in SUBSET Command
  BY SelectionsAreCommands
<1>3. IsSequence(LockConsent(job.recipient, s))
  BY LocksOfConsent
<1>. HIDE DEF ids, work
<1>4. /\ IsSequence(LockCommands(ids, s))
      /\ \A i \in OutstandingIn(ids, s) :
           Update(CommandRow(i)) \in LocksIn(LockCommands(ids, s))
  BY <1>2, LocksOfCommands
<1>5. /\ IsSequence(work.locks)
      /\ LocksIn(LockCommands(ids, s)) \subseteq LocksIn(work.locks)
  BY <1>1, <1>3, <1>4, LocksJoin
<1>6. ASSUME NEW i, CommandRow(i) \in DOMAIN work.writes
      PROVE  CommandRow(i) \in DOMAIN Cancelled(ids, s)
  <2>1. CommandRow(i) \notin DOMAIN paused
    BY CommandsAreOfOneTable DEF :>
  <2>2. CommandRow(i) \notin DOMAIN Ensured({state}, s)
    BY OtherTables
  <2>. HIDE DEF paused, state
  <2>. QED
    BY <1>1, <1>6, <2>1, <2>2 DEF @@
<1>. QED
  BY <1>4, <1>5, <1>6, CancelledAreOutstanding DEF IsSound, WritesAreLocked, work

(* Giving a grant writes no command.                                       *)
LEMMA GiveGrantIsSound ==
  ASSUME NEW p, NEW s, JobOf(p).op = "GIVE_GRANT"
  PROVE  IsSound(p, s, GiveGrant(p, s))
<1>. DEFINE job   == JobOf(p)
            state == StateRow(job.recipient)
            grant == GrantRow(job.recipient, job.actor)
            given == /\ s[RelationshipRow(job.actor, job.recipient)] = "ACTIVE"
                     /\ s[grant] = None
            insert == IF given THEN <<Update(grant),
                                      KeyShare(PersonRow(job.recipient)),
                                      KeyShare(PersonRow(job.actor))>>
                               ELSE << >>
            new  == IF given THEN grant :> "GIVEN" ELSE << >>
            work == GiveGrant(p, s)
<1>1. /\ work.locks = LockConsent(job.recipient, s) \o insert
      /\ work.writes = Ensured({state}, s) @@ new
  BY DEF GiveGrant
<1>2. IsSequence(LockConsent(job.recipient, s)) /\ IsSequence(insert)
  BY LocksOfConsent, FewLocks
<1>3. ASSUME NEW i PROVE CommandRow(i) \notin DOMAIN work.writes
  <2>1. CommandRow(i) \notin DOMAIN Ensured({state}, s)
    BY OtherTables
  <2>2. CommandRow(i) \notin DOMAIN new
    BY CommandsAreOfOneTable DEF :>
  <2>. HIDE DEF new, state, work
  <2>. QED
    BY <1>1, <2>1, <2>2 DEF @@
<1>4. IsSequence(work.locks)
  <2>. HIDE DEF insert, work
  <2>. QED  BY <1>1, <1>2, LocksJoin
<1>. QED
  BY <1>3, <1>4 DEF IsSound, WritesAreLocked

(* Withdrawing a grant locks what it cancels.                              *)
LEMMA RevokeGrantIsSound ==
  ASSUME JobsAreGiven, NEW p, NEW s, JobOf(p).op = "REVOKE_GRANT"
  PROVE  IsSound(p, s, RevokeGrant(p, s))
<1>. DEFINE job   == JobOf(p)
            state == StateRow(job.recipient)
            pair  == <<job.actor, job.recipient>>
            ids   == Between({pair})
            work  == RevokeGrant(p, s)
<1>1. /\ work.locks = LockConsent(job.recipient, s)
                      \o LockDeleted({pair}, s) \o LockCommands(ids, s)
      /\ work.writes = Deleted({pair}, s) @@ Cancelled(ids, s) @@ Ensured({state}, s)
  BY DEF RevokeGrant
<1>2. ids \in SUBSET Command
  BY SelectionsAreCommands
<1>3. IsSequence(LockConsent(job.recipient, s)) /\ IsSequence(LockDeleted({pair}, s))
  <2>1. {pair} = {pair, pair}
    OBVIOUS
  <2>. QED  BY <2>1, LocksOfConsent, LocksOfDeleted
<1>. HIDE DEF ids, work, pair
<1>4. /\ IsSequence(LockCommands(ids, s))
      /\ \A i \in OutstandingIn(ids, s) :
           Update(CommandRow(i)) \in LocksIn(LockCommands(ids, s))
  BY <1>2, LocksOfCommands
<1>5. /\ IsSequence(work.locks)
      /\ LocksIn(LockCommands(ids, s)) \subseteq LocksIn(work.locks)
  <2>. DEFINE prefix == LockConsent(job.recipient, s) \o LockDeleted({pair}, s)
              cancels == LockCommands(ids, s)
  <2>1. IsSequence(prefix) /\ IsSequence(cancels) /\ work.locks = prefix \o cancels
    BY <1>1, <1>3, <1>4, LocksJoin
  <2>. HIDE DEF prefix, cancels
  <2>2. IsSequence(work.locks) /\ LocksIn(cancels) \subseteq LocksIn(work.locks)
    BY <2>1, LocksJoin
  <2>. QED  BY <2>2 DEF cancels
<1>6. ASSUME NEW i, CommandRow(i) \in DOMAIN work.writes
      PROVE  CommandRow(i) \in DOMAIN Cancelled(ids, s)
  <2>1. /\ CommandRow(i) \notin DOMAIN Ensured({state}, s)
        /\ CommandRow(i) \notin DOMAIN Deleted({pair}, s)
    BY OtherTables
  <2>. HIDE DEF state
  <2>. QED
    BY <1>1, <1>6, <2>1 DEF @@
<1>. QED
  BY <1>4, <1>5, <1>6, CancelledAreOutstanding DEF IsSound, WritesAreLocked, work

(* Disconnecting locks what it cancels, in its two passes: a command       *)
(* between the two people is to one or to the other.                       *)
LEMMA DisconnectIsSound ==
  ASSUME JobsAreGiven, NEW p \in Handling, NEW s, JobOf(p).op = "DISCONNECT"
  PROVE  IsSound(p, s, Disconnect(p, s))
<1>. DEFINE job    == JobOf(p)
            low    == Low(job.actor, job.recipient)
            high   == High(job.actor, job.recipient)
            pairs  == BothWays(low, high)
            bond   == RelationshipRow(low, high)
            states == {StateRow(low), StateRow(high)}
            prefix == Insert(states, s)
                      \o <<Update(StateRow(low)), Update(StateRow(high)),
                           Update(bond)>>
            toLow  == To(low) \cap Between(pairs)
            toHigh == To(high) \cap Between(pairs)
            work   == Disconnect(p, s)
<1>1. IsSequence(prefix)
  <2>1. IsFiniteSet(states)
    <3>1. IsFiniteSet({StateRow(low)}) /\ IsFiniteSet({StateRow(high)})
      BY FS_Singleton
    <3>2. states = {StateRow(low)} \cup {StateRow(high)}
      OBVIOUS
    <3>. QED  BY <3>1, <3>2, FS_Union
  <2>2. IsSequence(Insert(states, s))
    BY <2>1, LocksOfInsert
  <2>. QED
    BY <2>2, FewLocks, LocksJoin
<1>2. ASSUME NEW i PROVE CommandRow(i) \notin DOMAIN Ensured(states, s)
  BY OtherTables
<1>3. CASE s[bond] # "ACTIVE"
  <2>1. work.locks = prefix /\ work.writes = Ensured(states, s)
    BY <1>3 DEF Disconnect
  <2>. HIDE DEF prefix, states
  <2>. QED
    BY <1>1, <1>2, <2>1 DEF IsSound, WritesAreLocked
<1>4. CASE s[bond] = "ACTIVE"
  <2>. DEFINE deletes == LockDeleted(pairs, s)
              lows    == LockCommands(toLow, s)
              highs   == LockCommands(toHigh, s)
              ended   == bond :> "ENDED"
  <2>1. /\ work.locks = prefix \o deletes \o lows \o highs
        /\ work.writes = ended @@ Deleted(pairs, s)
                         @@ Cancelled(Between(pairs), s) @@ Ensured(states, s)
    BY <1>4 DEF Disconnect
  <2>2. toLow \in SUBSET Command /\ toHigh \in SUBSET Command
    BY SelectionsAreCommands
  <2>3. IsSequence(deletes)
    <3>1. pairs = {<<low, high>>, <<high, low>>}
      BY DEF BothWays
    <3>. QED  BY <3>1, LocksOfDeleted
  <2>. HIDE DEF toLow, toHigh
  <2>4. /\ IsSequence(lows) /\ IsSequence(highs)
        /\ \A i \in OutstandingIn(toLow, s) : Update(CommandRow(i)) \in LocksIn(lows)
        /\ \A i \in OutstandingIn(toHigh, s) : Update(CommandRow(i)) \in LocksIn(highs)
    BY <2>2, LocksOfCommands
  <2>. HIDE DEF prefix, deletes, lows, highs, work
  <2>5. IsSequence(prefix \o deletes)
    BY <1>1, <2>3, LocksJoin
  <2>6. /\ IsSequence((prefix \o deletes) \o lows)
        /\ LocksIn(lows) \subseteq LocksIn((prefix \o deletes) \o lows)
    BY <2>4, <2>5, LocksJoin
  <2>7. /\ IsSequence(work.locks)
        /\ LocksIn(lows) \cup LocksIn(highs) \subseteq LocksIn(work.locks)
    BY <2>1, <2>4, <2>6, LocksJoin
  <2>8. ASSUME NEW i, CommandRow(i) \in DOMAIN work.writes
        PROVE  /\ s[CommandRow(i)] \in {"QUEUED", "DISPATCHED"}
               /\ Update(CommandRow(i)) \in LocksIn(work.locks)
    <3>1. /\ CommandRow(i) \notin DOMAIN ended
          /\ CommandRow(i) \notin DOMAIN Deleted(pairs, s)
      BY OtherTables, CommandsAreOfOneTable DEF :>
    <3>2. CommandRow(i) \in DOMAIN Cancelled(Between(pairs), s)
      <4>. HIDE DEF ended, pairs, states
      <4>. QED  BY <1>2, <2>1, <2>8, <3>1 DEF @@
    <3>3. /\ i \in OutstandingIn(Between(pairs), s)
          /\ s[CommandRow(i)] \in {"QUEUED", "DISPATCHED"}
      <4>. HIDE DEF pairs
      <4>. QED  BY <3>2, CancelledAreOutstanding
    <3>4. i \in OutstandingIn(toLow, s) \cup OutstandingIn(toHigh, s)
      <4>1. <<Asked(i).actor, Asked(i).recipient>> \in pairs /\ i \in Command
        BY <3>3 DEF OutstandingIn, Between
      <4>0. low \in Person /\ high \in Person
        BY TransactionAssumption DEF JobsAreGiven, Low, High
      <4>. HIDE DEF low, high
      <4>2. i \in Between(pairs)
        BY <3>3 DEF OutstandingIn
      <4>3. \/ Asked(i).actor = low /\ Asked(i).recipient = high
            \/ Asked(i).actor = high /\ Asked(i).recipient = low
        BY <4>1 DEF BothWays
      <4>4. i \in To(low) \/ i \in To(high)
        BY <4>0, <4>1, <4>3 DEF To, Between
      <4>. QED  BY <3>3, <4>2, <4>4 DEF OutstandingIn, toLow, toHigh
    <3>. QED
      BY <2>4, <2>7, <3>3, <3>4
  <2>. QED
    BY <2>7, <2>8 DEF IsSound, WritesAreLocked, work
<1>. QED
  BY <1>3, <1>4

(* Accepting an invitation writes no command.                              *)
LEMMA AcceptIsSound ==
  ASSUME NEW p, NEW s, JobOf(p).op = "ACCEPT"
  PROVE  IsSound(p, s, Accept(p, s))
<1>. DEFINE job   == JobOf(p)
            code  == InvitationRow(job.recipient)
            low   == Low(job.actor, job.recipient)
            high  == High(job.actor, job.recipient)
            bond  == RelationshipRow(low, high)
            pairs == IF s[bond] = "ENDED" THEN BothWays(low, high) ELSE {}
            work  == Accept(p, s)
<1>1. CASE s[code] # "PENDING"
  <2>1. work.locks = <<Update(code)>> /\ work.writes = << >>
    BY <1>1 DEF Accept
  <2>. QED
    BY <2>1, FewLocks DEF IsSound, WritesAreLocked
<1>2. CASE s[code] = "PENDING"
  <2>. DEFINE prefix  == <<Update(code), Update(PersonRow(low)),
                           Update(PersonRow(high)), Update(bond)>>
              deletes == LockDeleted(pairs, s)
              used    == code :> "USED"
              begun   == IF s[bond] = "ACTIVE" THEN << >>
                         ELSE Deleted(pairs, s) @@ (bond :> "ACTIVE")
  <2>1. work.locks = prefix \o deletes /\ work.writes = used @@ begun
    BY <1>2 DEF Accept
  <2>2. IsSequence(prefix)
    BY DEF IsSequence, LocksIn
  <2>3. IsSequence(deletes)
    <3>1. pairs \in SUBSET {<<low, high>>, <<high, low>>}
      BY DEF BothWays
    <3>. HIDE DEF pairs
    <3>. QED  BY <3>1, LocksOfDeleted
  <2>4. ASSUME NEW i PROVE CommandRow(i) \notin DOMAIN work.writes
    <3>1. CommandRow(i) \notin DOMAIN used
      BY CommandsAreOfOneTable DEF :>
    <3>2. CommandRow(i) \notin DOMAIN begun
      <4>1. CommandRow(i) \notin DOMAIN Deleted(pairs, s) /\ CommandRow(i) # bond
        BY OtherTables, CommandsAreOfOneTable
      <4>. HIDE DEF bond, pairs
      <4>. QED  BY <4>1 DEF @@, :>
    <3>. HIDE DEF used, begun, work
    <3>. QED
      BY <2>1, <3>1, <3>2 DEF @@
  <2>. HIDE DEF prefix, deletes, work
  <2>5. IsSequence(work.locks)
    BY <2>1, <2>2, <2>3, LocksJoin
  <2>. QED
    BY <2>4, <2>5 DEF IsSound, WritesAreLocked, work
<1>. QED
  BY <1>1, <1>2

(* An unheard device's work, which is none.                                *)
LEMMA UnheardIsSound ==
  ASSUME NEW p, NEW s, NEW device
  PROVE  IsSound(p, s, Unheard(device))
BY FewLocks DEF Unheard, IsSound, WritesAreLocked, AnswerIsLocked

(* A poll locks the one command it answers with, expires or hands out.     *)
LEMMA PollIsSound ==
  ASSUME JobsAreGiven, NEW p, NEW s, JobOf(p).op = "POLL"
  PROVE  IsSound(p, s, Poll(p, s))
<1>. DEFINE job    == JobOf(p)
            device == DeviceRow(job.recipient)
            open   == OutstandingIn(To(job.recipient), s)
            oldest == CHOOSE i \in open : \A j \in open : i <= j
            row    == CommandRow(oldest)
            work   == Poll(p, s)
<1>1. CASE s[device] # "READY"
  BY <1>1, UnheardIsSound DEF Poll
<1>2. CASE s[device] = "READY" /\ open = {}
  <2>1. /\ work.locks = <<KeyShare(device)>> \o << >>
        /\ work.writes = << >> /\ work.answer = None
    BY <1>2 DEF Poll
  <2>. HIDE DEF work
  <2>2. IsSequence(work.locks)
    BY <2>1, FewLocks, LocksJoin
  <2>. QED
    BY <2>1, <2>2 DEF IsSound, WritesAreLocked, AnswerIsLocked, work
<1>3. CASE s[device] = "READY" /\ open # {}
  <2>1. open \in SUBSET Command
    BY SelectionsAreCommands DEF OutstandingIn
  <2>2. open \in SUBSET Nat /\ IsFiniteSet(open)
    BY <2>1, CommandsHaveNames, NamesAreFinite, FS_Subset
  <2>3. oldest \in open
    <3>. HIDE DEF open
    <3>1. PICK i \in open : \A j \in open : i <= j
      BY <1>3, <2>2, LeastExists
    <3>. QED  BY <3>1
  <2>4. s[row] \in {"QUEUED", "DISPATCHED"}
    BY <2>3 DEF OutstandingIn
  <2>. DEFINE new == IF job.late THEN row :> "EXPIRED"
                     ELSE IF s[row] = "DISPATCHED" THEN << >>
                     ELSE row :> "DISPATCHED"
              poll == [ locks  |-> <<KeyShare(device)>> \o <<Update(row)>>,
                        reads  |-> {device} \cup CommandRows(To(job.recipient)),
                        writes |-> new,
                        answer |-> IF ~job.late THEN oldest ELSE None ]
  <2>5. work = poll
    <3>. HIDE DEF open, oldest
    <3>. QED  BY <1>3 DEF Poll, LockOldest, open, oldest
  <2>. HIDE DEF open, oldest, device, work
  <2>6. IsSequence(poll.locks) /\ Update(row) \in LocksIn(poll.locks)
    BY FewLocks, LocksJoin
  <2>7. WritesAreLocked(p, s, poll)
    <3>1. DOMAIN new \subseteq {row}
      BY DEF :>
    <3>. QED
      BY <2>4, <2>6, <3>1, CommandsAreOfOneTable DEF WritesAreLocked
  <2>8. AnswerIsLocked(s, poll)
    <3>. SUFFICES ASSUME ~job.late PROVE AnswerIsLocked(s, poll)
      BY DEF AnswerIsLocked
    <3>1. \/ row \in DOMAIN new /\ new[row] = "DISPATCHED"
          \/ new = << >> /\ s[row] = "DISPATCHED"
      BY DEF :>
    <3>. QED
      BY <2>1, <2>3, <2>4, <2>6, <3>1 DEF AnswerIsLocked
  <2>. QED
    BY <2>5, <2>6, <2>7, <2>8 DEF IsSound, work
<1>. QED
  BY <1>1, <1>2, <1>3

(* A result is stored under the lock of its command.                       *)
LEMMA IngestIsSound ==
  ASSUME NEW p, NEW s, JobOf(p).op = "INGEST"
  PROVE  IsSound(p, s, Ingest(p, s))
<1>. DEFINE job    == JobOf(p)
            device == DeviceRow(job.recipient)
            row    == CommandRow(job.command)
            stored == s[ResultRow(job.command)] = None /\ s[row] = "DISPATCHED"
            work   == Ingest(p, s)
<1>1. CASE s[device] # "READY"
  BY <1>1, UnheardIsSound DEF Ingest
<1>2. CASE s[device] = "READY"
  <2>. DEFINE new == IF stored THEN (row :> "OUTCOME_UNKNOWN") @@
                                    (ResultRow(job.command) :> p)
                               ELSE << >>
  <2>1. work.locks = <<KeyShare(device), Update(row)>> /\ work.writes = new
    BY <1>2 DEF Ingest
  <2>2. IsSequence(work.locks) /\ Update(row) \in LocksIn(work.locks)
    <3>. HIDE DEF work
    <3>. QED  BY <2>1, FewLocks
  <2>3. ASSUME NEW i, CommandRow(i) \in DOMAIN new
        PROVE  CommandRow(i) = row /\ s[row] = "DISPATCHED"
    BY <2>3, CommandsAreOfOneTable DEF @@, :>
  <2>. HIDE DEF work, new
  <2>. QED
    BY <2>1, <2>2, <2>3 DEF IsSound, WritesAreLocked, work
<1>. QED
  BY <1>1, <1>2

(* Revoking a device locks what it cancels.                                *)
LEMMA RevokeDeviceIsSound ==
  ASSUME JobsAreGiven, NEW p, NEW s, JobOf(p).op = "REVOKE_DEVICE"
  PROVE  IsSound(p, s, RevokeDevice(p, s))
<1>. DEFINE owner  == JobOf(p).recipient
            device == DeviceRow(owner)
            prefix == <<Update(PersonRow(owner)), Update(device)>>
            work   == RevokeDevice(p, s)
<1>1. IsSequence(prefix)
  BY FewLocks
<1>2. CASE s[device] = "REVOKED"
  <2>1. work.locks = prefix /\ work.writes = << >>
    BY <1>2 DEF RevokeDevice
  <2>. QED
    BY <1>1, <2>1 DEF IsSound, WritesAreLocked
<1>3. CASE s[device] # "REVOKED"
  <2>. DEFINE revoked == device :> "REVOKED"
              cancels == LockCommands(To(owner), s)
  <2>1. /\ work.locks = prefix \o cancels
        /\ work.writes = revoked @@ Cancelled(To(owner), s)
    BY <1>3 DEF RevokeDevice
  <2>2. /\ IsSequence(cancels)
        /\ \A i \in OutstandingIn(To(owner), s) :
             Update(CommandRow(i)) \in LocksIn(cancels)
    BY SelectionsAreCommands, LocksOfCommands
  <2>. HIDE DEF prefix, cancels, work
  <2>3. IsSequence(work.locks) /\ LocksIn(cancels) \subseteq LocksIn(work.locks)
    BY <1>1, <2>1, <2>2, LocksJoin
  <2>4. ASSUME NEW i, CommandRow(i) \in DOMAIN work.writes
        PROVE  CommandRow(i) \in DOMAIN Cancelled(To(owner), s)
    <3>1. CommandRow(i) \notin DOMAIN revoked
      BY CommandsAreOfOneTable DEF :>
    <3>. HIDE DEF revoked, owner
    <3>. QED  BY <2>1, <2>4, <3>1 DEF @@
  <2>. QED
    BY <2>2, <2>3, <2>4, CancelledAreOutstanding DEF IsSound, WritesAreLocked, work
<1>. QED
  BY <1>2, <1>3

(* Every handler's.                                                        *)
LEMMA WorkIsSound ==
  ASSUME JobsAreGiven, NEW p \in Handling, NEW s
  PROVE  IsSound(p, s, Work(p, s))
<1>1. JobOf(p).op \in Operation
  BY TransactionAssumption DEF JobsAreGiven
<1>. QED
  BY <1>1, IssueIsSound, SetPausedIsSound, GiveGrantIsSound, RevokeGrantIsSound,
     DisconnectIsSound, AcceptIsSound, PollIsSound, IngestIsSound,
     RevokeDeviceIsSound DEF Operation, Work

----------------------------------------------------------------------------
(* What holds between the handlers.                                        *)

Fields == {"job", "phase", "attempt", "began", "taken", "work"}
Phases == {"READY", "OPEN", "COMMITTED", "FAILED"}

(* Handlers hold a prefix of the locks they ask for.                       *)
Structured ==
  /\ JobsAreGiven
  /\ commits \in Seq(Handling)
  /\ \A n \in 1..Len(commits) : handlers[commits[n]].phase = "COMMITTED"
  /\ \A p \in Handling :
       /\ DOMAIN handlers[p] = Fields
       /\ handlers[p].phase \in Phases
       /\ handlers[p].taken \in Nat
       /\ handlers[p].phase = "READY" => handlers[p].taken = 0
       /\ IsOpen(p) => /\ handlers[p].began \in 0..Len(commits)
                       /\ IsSequence(handlers[p].work.locks)
                       /\ handlers[p].taken <= Len(handlers[p].work.locks)

(* The commands there are: only a handler that committed has issued one.   *)
Known == DOMAIN SeedCommand \cup Committed

CommandsAreKnown ==
  \A i \in Names :
    /\ CommandRow(i) \in DOMAIN db
    /\ db[CommandRow(i)] \in {"QUEUED", "DISPATCHED"} => i \in Known

(* Commands that are not the handler's own are written under their lock.   *)
WritersLock ==
  \A p \in Handling : IsOpen(p) =>
    \A i \in Names : CommandRow(i) \in Written(p) =>
      \/ i = p
      \/ i \in Known /\ Update(CommandRow(i)) \in LocksIn(handlers[p].work.locks)

(* Nobody shares the row that another has locked for update.               *)
LocksExclude ==
  \A p, q \in Handling : p # q /\ IsOpen(p) /\ IsOpen(q) =>
    \A row : Update(row) \in Held(p) => \A lock \in Held(q) : lock.row # row

(* What a poll will answer is still so, or it has yet to find out: it asks *)
(* for the lock, and gets it only on a row nobody changed.                 *)
PollIsInTime(p) ==
  LET work == handlers[p].work
      row  == CommandRow(work.answer)
  IN  /\ work.answer \in Names \cap Known
      /\ Update(row) \in LocksIn(work.locks)
      /\ Update(row) \in Held(p) => row \notin Newer(p)
      /\ \/ row \in DOMAIN work.writes /\ work.writes[row] = "DISPATCHED"
         \/ /\ work.writes = << >>
            /\ row \in Newer(p) \/ db[row] = "DISPATCHED"

PollsAreInTime ==
  \A p \in Handling :
    IsOpen(p) /\ JobOf(p).op = "POLL" /\ handlers[p].work.answer # None
      => PollIsInTime(p)

OverlapInv ==
  /\ Structured
  /\ CommandsAreKnown
  /\ WritersLock
  /\ LocksExclude
  /\ PollsAreInTime
----------------------------------------------------------------------------
(* The steps, by what they do to a transaction.                            *)

Same == UNCHANGED <<start, db, commits>>

(* Only one handler's row changes, and not its job.                        *)
OnlyMoves(p) ==
  /\ Handling' = Handling
  /\ \A q \in Handling : q # p => handlers'[q] = handlers[q]
  /\ DOMAIN handlers'[p] = Fields
  /\ handlers'[p].job = handlers[p].job

Opens(p) ==
  /\ handlers[p].phase = "READY"
  /\ OnlyMoves(p) /\ Same
  /\ handlers'[p].phase = "OPEN"
  /\ handlers'[p].began = Len(commits)
  /\ handlers'[p].taken = 0
  /\ handlers'[p].work = Work(p, db)

Takes(p) ==
  /\ IsOpen(p) /\ ~HasAllLocks(p) /\ Holders(p) = {}
  /\ ~(Wanted(p).mode = "UPDATE" /\ Wanted(p).row \in Newer(p))
  /\ OnlyMoves(p) /\ Same
  /\ handlers'[p].phase = "OPEN"
  /\ handlers'[p].began = handlers[p].began
  /\ handlers'[p].taken = handlers[p].taken + 1
  /\ handlers'[p].work = handlers[p].work

GivesUp(p) ==
  /\ IsOpen(p)
  /\ OnlyMoves(p) /\ Same
  /\ handlers'[p].phase \in {"READY", "FAILED"}
  /\ handlers'[p].taken = 0

Commits(p) ==
  /\ IsOpen(p) /\ HasAllLocks(p)
  /\ Written(p) \cap Newer(p) = {} /\ ~IsDangerous(p)
  /\ OnlyMoves(p) /\ start' = start
  /\ db' = handlers[p].work.writes @@ db
  /\ commits' = Append(commits, p)
  /\ handlers'[p].phase = "COMMITTED"
  /\ handlers'[p].began = handlers[p].began
  /\ handlers'[p].taken = handlers[p].taken
  /\ handlers'[p].work = handlers[p].work

(* Every way to fail drops all locks.                                      *)
LEMMA RetriesGiveUp ==
  ASSUME Structured, NEW p \in Handling, IsOpen(p), Same,
         Retry(p) \/ Moved(p, "FAILED")
  PROVE  GivesUp(p)
<1>1. DOMAIN handlers[p] = Fields
  BY DEF Structured
<1>2. CASE Moved(p, "FAILED")
  BY <1>1, <1>2 DEF Moved, GivesUp, OnlyMoves, Fields, Handling
<1>3. CASE /\ Retry(p) /\ handlers[p].attempt # MaxAttempts
  <2>1. handlers' = [handlers EXCEPT ![p].phase = "READY", ![p].taken = 0,
                                     ![p].work = None, ![p].began = 0,
                                     ![p].attempt = @ + 1]
    BY <1>3 DEF Retry
  <2>2. DOMAIN handlers' = DOMAIN handlers
    BY <2>1
  <2>3. /\ DOMAIN handlers'[p] = Fields
        /\ handlers'[p].job = handlers[p].job
        /\ handlers'[p].phase = "READY"
        /\ handlers'[p].taken = 0
    BY <1>1, <2>1 DEF Fields, Handling
  <2>4. \A q \in Handling : q # p => handlers'[q] = handlers[q]
    BY <2>1 DEF Handling
  <2>. QED
    BY <2>2, <2>3, <2>4 DEF GivesUp, OnlyMoves, Handling
<1>. QED
  BY <1>2, <1>3 DEF Retry

(* The actions of the specification are of these four kinds.               *)
LEMMA StepsAreOfFourKinds ==
  ASSUME Structured, Next
  PROVE  \E p \in Handling : Opens(p) \/ Takes(p) \/ GivesUp(p) \/ Commits(p)
<1>1. PICK p \in Handling : Advance(p) \/ Suspect(p) \/ Lose(p)
  BY DEF Next
<1>2. DOMAIN handlers[p] = Fields
  BY DEF Structured
<1>3. CASE Begin(p)
  <2>1. /\ handlers[p].phase = "READY" /\ handlers[p].taken = 0
        /\ Same
    BY <1>3 DEF Begin, Same, Structured
  <2>2. handlers' = [handlers EXCEPT ![p].phase = "OPEN",
                                     ![p].began = Len(commits),
                                     ![p].work = Work(p, db)]
    BY <1>3 DEF Begin
  <2>3. /\ OnlyMoves(p)
        /\ handlers'[p].phase = "OPEN"
        /\ handlers'[p].began = Len(commits)
        /\ handlers'[p].taken = handlers[p].taken
        /\ handlers'[p].work = Work(p, db)
    BY <1>2, <2>2 DEF OnlyMoves, Fields, Handling
  <2>. QED
    BY <2>1, <2>3 DEF Opens
<1>4. CASE Lock(p)
  <2>1. CASE Wanted(p).mode = "UPDATE" /\ Wanted(p).row \in Newer(p)
    BY <1>4, <2>1, RetriesGiveUp DEF Lock, Same
  <2>2. CASE ~(Wanted(p).mode = "UPDATE" /\ Wanted(p).row \in Newer(p))
    <3>1. handlers' = [handlers EXCEPT ![p].taken = @ + 1]
      BY <1>4, <2>2 DEF Lock
    <3>2. /\ IsOpen(p) /\ ~HasAllLocks(p) /\ Holders(p) = {}
          /\ Same
      BY <1>4 DEF Lock, Same
    <3>3. /\ OnlyMoves(p)
          /\ handlers'[p].phase = handlers[p].phase
          /\ handlers'[p].began = handlers[p].began
          /\ handlers'[p].taken = handlers[p].taken + 1
          /\ handlers'[p].work = handlers[p].work
      BY <1>2, <3>1 DEF OnlyMoves, Fields, Handling
    <3>. QED
      BY <2>2, <3>2, <3>3 DEF Takes, IsOpen
  <2>. QED  BY <2>1, <2>2
<1>5. CASE BreakDeadlock(p)
  BY <1>5, RetriesGiveUp DEF BreakDeadlock, Same
<1>6. CASE Commit(p)
  <2>1. handlers' = [handlers EXCEPT ![p].phase = "COMMITTED"]
    BY <1>6 DEF Commit
  <2>2. /\ OnlyMoves(p)
        /\ handlers'[p].phase = "COMMITTED"
        /\ handlers'[p].began = handlers[p].began
        /\ handlers'[p].taken = handlers[p].taken
        /\ handlers'[p].work = handlers[p].work
    BY <1>2, <2>1 DEF OnlyMoves, Fields, Handling
  <2>. QED
    BY <1>6, <2>2 DEF Commit, Commits
<1>7. CASE Refuse(p)
  BY <1>7, RetriesGiveUp DEF Refuse, Same
<1>8. CASE Suspect(p)
  BY <1>8, RetriesGiveUp DEF Suspect, Same
<1>9. CASE Lose(p)
  BY <1>9, RetriesGiveUp DEF Lose, Same
<1>. QED
  BY <1>1, <1>3, <1>4, <1>5, <1>6, <1>7, <1>8, <1>9 DEF Advance

(* What others committed, row by row.                                      *)
LEMMA NewerRows ==
  ASSUME NEW p, NEW row
  PROVE  row \in Newer(p) <=>
           \E n \in (handlers[p].began + 1)..Len(commits) :
             row \in Written(commits[n])
BY DEF Newer

(* The same of the next state.                                             *)
LEMMA NewerRowsNext ==
  ASSUME NEW p, NEW row
  PROVE  row \in Newer(p)' <=>
           \E n \in (handlers'[p].began + 1)..Len(commits') :
             row \in DOMAIN handlers'[commits'[n]].work.writes
BY DEF Newer, Written

(* A step that commits nothing makes nothing newer.                        *)
LEMMA NothingNewer ==
  ASSUME Structured, NEW p \in Handling, OnlyMoves(p), Same,
         handlers[p].phase # "COMMITTED"
  PROVE  /\ Committed' = Committed
         /\ \A q \in Handling :
              IsOpen(q) /\ handlers'[q].began = handlers[q].began
              => Newer(q)' = Newer(q)
<1>1. commits' = commits
  BY DEF Same
<1>2. \A n \in 1..Len(commits) : commits[n] # p /\ commits[n] \in Handling
  BY DEF Structured
<1>3. ASSUME NEW q \in Handling, IsOpen(q), handlers'[q].began = handlers[q].began,
             NEW row
      PROVE  row \in Newer(q)' <=> row \in Newer(q)
  <2>1. handlers[q].began \in Nat /\ Len(commits) \in Nat
    BY <1>3, LenProperties DEF Structured
  <2>2. \A n \in (handlers[q].began + 1)..Len(commits) :
          handlers'[commits[n]] = handlers[commits[n]]
    BY <1>2, <2>1 DEF OnlyMoves
  <2>. QED
    BY <1>1, <1>3, <2>2, NewerRows, NewerRowsNext DEF Written
<1>4. Committed' = Committed
  BY <1>1 DEF Committed
<1>5. ASSUME NEW q \in Handling, IsOpen(q), handlers'[q].began = handlers[q].began
      PROVE  Newer(q)' = Newer(q)
  <2>1. \A row : row \in Newer(q)' <=> row \in Newer(q)
    BY <1>3, <1>5
  <2>2. Newer(q)' \subseteq Newer(q) /\ Newer(q) \subseteq Newer(q)'
    BY <2>1
  <2>. QED  BY <2>2
<1>. QED
  BY <1>4, <1>5

(* The commits so far are left as they were, and one is appended.          *)
LEMMA CommitAppends ==
  ASSUME Structured, NEW p \in Handling, Commits(p)
  PROVE  /\ Len(commits) \in Nat /\ DOMAIN commits = 1..Len(commits)
         /\ Len(commits') = Len(commits) + 1
         /\ DOMAIN commits' = 1..(Len(commits) + 1)
         /\ commits'[Len(commits) + 1] = p
         /\ \A n \in 1..Len(commits) :
              /\ commits'[n] = commits[n]
              /\ commits[n] \in Handling /\ commits[n] # p
              /\ handlers'[commits[n]] = handlers[commits[n]]
<1>1. /\ commits \in Seq(Handling) /\ Len(commits) \in Nat
      /\ DOMAIN commits = 1..Len(commits)
  BY LenProperties DEF Structured
<1>2. commits' = Append(commits, p)
  BY DEF Commits
<1>3. /\ Append(commits, p) \in Seq(Handling)
      /\ Len(Append(commits, p)) = Len(commits) + 1
      /\ Append(commits, p)[Len(commits) + 1] = p
      /\ \A n \in 1..Len(commits) : Append(commits, p)[n] = commits[n]
  BY <1>1, AppendProperties
<1>4. DOMAIN Append(commits, p) = 1..(Len(commits) + 1)
  BY <1>3, LenProperties
<1>5. OnlyMoves(p) /\ handlers[p].phase = "OPEN"
  BY DEF Commits, IsOpen
<1>6. \A n \in 1..Len(commits) : commits[n] \in Handling /\ commits[n] # p
  BY <1>1, <1>5 DEF Structured
<1>. QED
  BY <1>1, <1>2, <1>3, <1>4, <1>5, <1>6 DEF OnlyMoves

(* A commit makes what it wrote newer for everyone who is under way.       *)
LEMMA CommitMakesNewer ==
  ASSUME Structured, NEW p \in Handling, Commits(p)
  PROVE  /\ Committed' = Committed \cup {p}
         /\ \A q \in Handling : \A row :
              q # p /\ IsOpen(q) =>
                (row \in Newer(q)' <=> row \in Newer(q) \/ row \in Written(p))
<1>. DEFINE last == Len(commits) + 1
<1>1. Len(commits) \in Nat /\ DOMAIN commits = 1..Len(commits)
  BY CommitAppends
<1>2. /\ Len(commits') = last /\ DOMAIN commits' = 1..last
      /\ commits'[last] = p
      /\ \A n \in 1..Len(commits) : commits'[n] = commits[n]
  BY CommitAppends
<1>3. Committed' = Committed \cup {p}
  <2>1. \A n \in 1..last : n \in 1..Len(commits) \/ n = last
    BY <1>1
  <2>2. \A n \in 1..Len(commits) : n \in 1..last
    BY <1>1
  <2>3. last \in 1..last
    BY <1>1
  <2>. HIDE DEF last
  <2>4. Committed' = {commits'[n] : n \in 1..last}
    BY <1>2 DEF Committed
  <2>5. Committed = {commits[n] : n \in 1..Len(commits)}
    BY <1>1 DEF Committed
  <2>. QED
    BY <1>2, <2>1, <2>2, <2>3, <2>4, <2>5
<1>4. \A n \in 1..Len(commits) : handlers'[commits[n]].work = handlers[commits[n]].work
  BY CommitAppends
<1>5. ASSUME NEW q \in Handling, q # p, IsOpen(q), NEW row
      PROVE  row \in Newer(q)' <=> row \in Newer(q) \/ row \in Written(p)
  <2>. DEFINE first == handlers[q].began + 1
  <2>1. first \in Nat /\ first >= 1 /\ first <= last
        /\ handlers'[q].began + 1 = first
    BY <1>1, <1>5 DEF Structured, Commits, OnlyMoves
  <2>2. row \in Newer(q)' <=>
          \E n \in first..last : row \in DOMAIN handlers'[commits'[n]].work.writes
    BY <1>2, <2>1, NewerRowsNext
  <2>3. row \in Newer(q) <=>
          \E n \in first..Len(commits) : row \in DOMAIN handlers[commits[n]].work.writes
    BY NewerRows DEF Written
  <2>4. \A n \in first..last : n = last \/ n \in first..Len(commits)
    BY <1>1, <2>1
  <2>5. /\ last \in first..last
        /\ \A n \in first..Len(commits) : n \in first..last /\ n \in 1..Len(commits)
    BY <1>1, <2>1
  <2>6. handlers'[p].work = handlers[p].work
    BY DEF Commits
  <2>. HIDE DEF first, last
  <2>7. \A n \in first..Len(commits) :
          handlers'[commits'[n]].work = handlers[commits[n]].work
    BY <1>2, <1>4, <2>5
  <2>8. handlers'[commits'[last]].work = handlers[p].work
    BY <1>2, <2>6
  <2>. QED
    BY <2>2, <2>3, <2>4, <2>5, <2>7, <2>8 DEF Written
<1>. QED
  BY <1>3, <1>5

(* The others keep their transactions.                                     *)
LEMMA OthersStay ==
  ASSUME NEW p \in Handling, OnlyMoves(p), NEW q \in Handling, q # p
  PROVE  /\ IsOpen(q)' <=> IsOpen(q)
         /\ Held(q)' = Held(q)
         /\ Written(q)' = Written(q)
         /\ JobOf(q)' = JobOf(q)
BY DEF OnlyMoves, IsOpen, Held, Written, JobOf

(* One more lock.                                                          *)
LEMMA TakingHolds ==
  ASSUME Structured, NEW p \in Handling, Takes(p)
  PROVE  /\ handlers[p].taken + 1 <= Len(handlers[p].work.locks)
         /\ Held(p)' = Held(p) \cup {Wanted(p)}
         /\ Wanted(p) \in LocksIn(handlers[p].work.locks)
<1>. DEFINE taken == handlers[p].taken
            locks == handlers[p].work.locks
<1>1. taken \in Nat /\ taken <= Len(locks) /\ IsSequence(locks)
  BY DEF Structured, Takes
<1>2. Len(locks) \in Nat /\ DOMAIN locks = 1..Len(locks)
  BY <1>1, LenProperties DEF IsSequence
<1>3. taken + 1 <= Len(locks)
  BY <1>1, <1>2 DEF Takes, HasAllLocks
<1>4. /\ handlers'[p].taken = taken + 1
      /\ handlers'[p].work.locks = locks
  BY DEF Takes
<1>5. Held(p)' = {locks[n] : n \in 1..(taken + 1)}
  BY <1>4 DEF Held
<1>6. Held(p) = {locks[n] : n \in 1..taken} /\ Wanted(p) = locks[taken + 1]
  BY DEF Held, Wanted
<1>7. \A n : n \in 1..(taken + 1) <=> n \in 1..taken \/ n = taken + 1
  BY <1>1
<1>. HIDE DEF taken, locks
<1>8. Held(p)' = Held(p) \cup {Wanted(p)}
  BY <1>5, <1>6, <1>7
<1>9. Wanted(p) \in LocksIn(locks)
  BY <1>1, <1>2, <1>3, <1>6 DEF LocksIn
<1>. QED
  BY <1>3, <1>8, <1>9 DEF taken, locks

(* With all of them it holds what it asked for.                            *)
LEMMA AllAreHeld ==
  ASSUME Structured, NEW p \in Handling, IsOpen(p), HasAllLocks(p)
  PROVE  Held(p) = LocksIn(handlers[p].work.locks)
<1>1. IsSequence(handlers[p].work.locks)
  BY DEF Structured
<1>2. DOMAIN handlers[p].work.locks = 1..Len(handlers[p].work.locks)
  BY <1>1, LenProperties DEF IsSequence
<1>. QED
  BY <1>2 DEF Held, HasAllLocks, LocksIn

(* Every step keeps the structure of the transactions.                     *)
LEMMA StructureStays ==
  ASSUME Structured, NEW p \in Handling,
         Opens(p) \/ Takes(p) \/ GivesUp(p) \/ Commits(p)
  PROVE  Structured'
<1>1. OnlyMoves(p) /\ JobsAreGiven
  BY DEF Opens, Takes, GivesUp, Commits, Structured
<1>2. JobsAreGiven'
  BY <1>1 DEF JobsAreGiven, OnlyMoves, JobOf
<1>3. /\ commits \in Seq(Handling) /\ Len(commits) \in Nat
      /\ handlers[p].phase # "COMMITTED"
  BY LenProperties DEF Structured, Opens, Takes, GivesUp, Commits, IsOpen
<1>4. /\ commits' \in Seq(Handling) /\ Len(commits') >= Len(commits)
      /\ Len(commits') \in Nat
      /\ \A n \in 1..Len(commits') : handlers'[commits'[n]].phase = "COMMITTED"
  <2>1. CASE Same
    <3>1. commits' = commits
      BY <2>1 DEF Same
    <3>2. \A n \in 1..Len(commits) : commits[n] \in Handling /\ commits[n] # p
      BY <1>3 DEF Structured
    <3>. QED
      BY <1>1, <1>3, <3>1, <3>2 DEF Structured, OnlyMoves
  <2>2. CASE Commits(p)
    <3>1. commits' = Append(commits, p) /\ handlers'[p].phase = "COMMITTED"
      BY <2>2 DEF Commits
    <3>2. /\ commits' \in Seq(Handling) /\ Len(commits') = Len(commits) + 1
          /\ commits'[Len(commits) + 1] = p
          /\ \A n \in 1..Len(commits) : commits'[n] = commits[n]
      BY <1>3, <3>1, AppendProperties
    <3>3. \A n \in 1..Len(commits) : commits[n] \in Handling /\ commits[n] # p
      BY <1>3 DEF Structured
    <3>4. \A n \in 1..Len(commits) + 1 : n \in 1..Len(commits) \/ n = Len(commits) + 1
      BY <1>3
    <3>5. ASSUME NEW n \in 1..Len(commits) + 1
          PROVE  handlers'[commits'[n]].phase = "COMMITTED"
      BY <1>1, <3>1, <3>2, <3>3, <3>4 DEF Structured, OnlyMoves
    <3>. QED
      BY <1>3, <3>2, <3>5
  <2>. QED
    BY <2>1, <2>2 DEF Opens, Takes, GivesUp
<1>5. Handling' = Handling
  BY <1>1 DEF OnlyMoves
<1>6. ASSUME NEW q \in Handling
      PROVE  /\ DOMAIN handlers'[q] = Fields
             /\ handlers'[q].phase \in Phases
             /\ handlers'[q].taken \in Nat
             /\ handlers'[q].phase = "READY" => handlers'[q].taken = 0
             /\ IsOpen(q)' => /\ handlers'[q].began \in 0..Len(commits')
                              /\ IsSequence(handlers'[q].work.locks)
                              /\ handlers'[q].taken <= Len(handlers'[q].work.locks)
  <2>1. CASE q # p
    BY <1>1, <1>3, <1>4, <2>1 DEF Structured, OnlyMoves, IsOpen
  <2>2. CASE q = p /\ Opens(p)
    <3>2. IsSequence(Work(p, db).locks)
      BY <1>1, WorkIsSound DEF IsSound
    <3>3. Len(Work(p, db).locks) \in Nat
      BY <3>2, LenProperties DEF IsSequence
    <3>. QED
      BY <1>1, <1>3, <2>2, <3>2, <3>3 DEF Opens, Same, OnlyMoves, Phases
  <2>3. CASE q = p /\ Takes(p)
    <3>1. /\ IsOpen(p)
          /\ handlers'[p].work = handlers[p].work
          /\ handlers'[p].taken = handlers[p].taken + 1
          /\ handlers'[p].began = handlers[p].began
          /\ handlers'[p].phase = "OPEN" /\ commits' = commits
      BY <2>3 DEF Takes, Same
    <3>. QED
      BY <1>1, <2>3, <3>1, TakingHolds DEF Structured, OnlyMoves, Phases
  <2>4. CASE q = p /\ (GivesUp(p) \/ Commits(p))
    BY <1>1, <2>4 DEF GivesUp, Commits, OnlyMoves, IsOpen, Phases, Structured
  <2>. QED
    BY <2>1, <2>2, <2>3, <2>4
<1>. QED
  BY <1>2, <1>4, <1>5, <1>6 DEF Structured

(* Who has not committed has issued nothing yet.                           *)
LEMMA OwnIsUnknown ==
  ASSUME Structured, NEW p \in Handling, handlers[p].phase # "COMMITTED"
  PROVE  p \in Names /\ p \notin Known
<1>1. p \in Process /\ p \notin DOMAIN SeedCommand
  BY TransactionAssumption DEF Structured, JobsAreGiven
<1>2. DOMAIN commits = 1..Len(commits)
  BY LenProperties DEF Structured
<1>. QED
  BY <1>1, <1>2 DEF Structured, Known, Committed, Names

(* A commit's effect on a row of a command.                                *)
LEMMA CommitWrites ==
  ASSUME NEW p \in Handling, Commits(p), NEW row, row \in DOMAIN db
  PROVE  /\ row \in DOMAIN db'
         /\ row \in Written(p) => db'[row] = handlers[p].work.writes[row]
         /\ row \notin Written(p) => db'[row] = db[row]
BY DEF Commits, Written, @@

(* An outstanding command has been issued by a commit, and a commit is     *)
(* never undone.                                                           *)
LEMMA CommandsStayKnown ==
  ASSUME OverlapInv, NEW p \in Handling,
         Opens(p) \/ Takes(p) \/ GivesUp(p) \/ Commits(p)
  PROVE  CommandsAreKnown' /\ Known \subseteq Known'
<1>1. CASE Same
  BY <1>1 DEF Same, OverlapInv, CommandsAreKnown, Known, Committed
<1>2. CASE Commits(p)
  <2>1. Known' = Known \cup {p}
    BY <1>2, CommitMakesNewer DEF OverlapInv, Known
  <2>. SUFFICES ASSUME NEW i \in Names
                PROVE  /\ CommandRow(i) \in DOMAIN db'
                       /\ db'[CommandRow(i)] \in {"QUEUED", "DISPATCHED"} => i \in Known'
    BY <2>1 DEF CommandsAreKnown
  <2>2. CommandRow(i) \in DOMAIN db
    BY DEF OverlapInv, CommandsAreKnown
  <2>3. CASE CommandRow(i) \in Written(p)
    BY <1>2, <2>1, <2>2, <2>3, CommitWrites DEF OverlapInv, WritersLock, Commits
  <2>4. CASE CommandRow(i) \notin Written(p)
    BY <1>2, <2>1, <2>2, <2>4, CommitWrites DEF OverlapInv, CommandsAreKnown
  <2>. QED
    BY <2>3, <2>4
<1>. QED
  BY <1>1, <1>2 DEF Opens, Takes, GivesUp

(* A handler settles on begin what it will write and lock.                 *)
LEMMA WritersStayLocked ==
  ASSUME OverlapInv, NEW p \in Handling,
         Opens(p) \/ Takes(p) \/ GivesUp(p) \/ Commits(p)
  PROVE  WritersLock'
<1>1. OnlyMoves(p) /\ Handling' = Handling
  BY DEF Opens, Takes, GivesUp, Commits, OnlyMoves
<1>2. Known \subseteq Known'
  BY CommandsStayKnown
<1>. SUFFICES ASSUME NEW q \in Handling, IsOpen(q)', NEW i \in Names,
                     CommandRow(i) \in Written(q)'
              PROVE  \/ i = q
                     \/ /\ i \in Known'
                        /\ Update(CommandRow(i)) \in LocksIn(handlers'[q].work.locks)
  BY <1>1 DEF WritersLock, Update, LocksIn
<1>3. CASE q # p
  <2>1. handlers'[q] = handlers[q]
    BY <1>1, <1>3 DEF OnlyMoves
  <2>. QED
    BY <1>2, <2>1 DEF OverlapInv, WritersLock, Written, IsOpen
<1>4. CASE q = p /\ Opens(p)
  <2>1. IsSound(p, db, Work(p, db))
    BY WorkIsSound DEF OverlapInv, Structured
  <2>2. handlers'[p].work = Work(p, db)
    BY <1>4 DEF Opens
  <2>3. db[CommandRow(i)] \in {"QUEUED", "DISPATCHED"} => i \in Known
    BY DEF OverlapInv, CommandsAreKnown
  <2>. QED
    BY <1>2, <1>4, <2>1, <2>2, <2>3 DEF IsSound, WritesAreLocked, Written
<1>5. CASE q = p /\ Takes(p)
  <2>1. handlers'[p].work = handlers[p].work /\ IsOpen(p)
    BY <1>5 DEF Takes
  <2>. QED
    BY <1>2, <1>5, <2>1 DEF OverlapInv, WritersLock, Written
<1>6. CASE q = p /\ (GivesUp(p) \/ Commits(p))
  BY <1>6 DEF GivesUp, Commits, IsOpen
<1>. QED
  BY <1>3, <1>4, <1>5, <1>6

(* A lock that another holds for update is waited for.                     *)
LEMMA LocksStayExclusive ==
  ASSUME OverlapInv, NEW p \in Handling,
         Opens(p) \/ Takes(p) \/ GivesUp(p) \/ Commits(p)
  PROVE  LocksExclude'
<1>1. OnlyMoves(p) /\ Handling' = Handling
  BY DEF Opens, Takes, GivesUp, Commits, OnlyMoves
<1>. SUFFICES ASSUME NEW q \in Handling, NEW r \in Handling, q # r,
                     IsOpen(q)', IsOpen(r)',
                     NEW row, Update(row) \in Held(q)',
                     NEW lock \in Held(r)'
              PROVE  lock.row # row
  BY <1>1 DEF LocksExclude, Update
<1>2. CASE q # p /\ r # p
  BY <1>1, <1>2, OthersStay DEF OverlapInv, LocksExclude
<1>3. CASE Opens(p)
  <2>1. Held(p)' = {}
    BY <1>3 DEF Opens, Held
  <2>. QED
    BY <1>2, <2>1
<1>4. CASE GivesUp(p) \/ Commits(p)
  <2>1. ~IsOpen(p)'
    BY <1>4 DEF GivesUp, Commits, IsOpen
  <2>. QED
    BY <1>2, <2>1
<1>5. CASE Takes(p)
  <2>1. Held(p)' = Held(p) \cup {Wanted(p)}
    BY <1>5, TakingHolds DEF OverlapInv
  <2>2. \A other \in Handling \ {p} : IsOpen(other) =>
          \A held \in Held(other) :
            held.row = Wanted(p).row => /\ held.mode # "UPDATE"
                                        /\ Wanted(p).mode # "UPDATE"
    BY <1>5 DEF Takes, Holders
  <2>3. \A some : Update(some).row = some /\ Update(some).mode = "UPDATE"
    BY DEF Update
  <2>4. IsOpen(p)
    BY <1>5 DEF Takes
  <2>5. CASE q = p
    <3>1. r # p /\ IsOpen(r) /\ lock \in Held(r)
      BY <1>1, <2>5, OthersStay
    <3>2. CASE Update(row) \in Held(p)
      BY <2>4, <2>5, <3>1, <3>2 DEF OverlapInv, LocksExclude
    <3>3. CASE Update(row) = Wanted(p)
      BY <2>2, <2>3, <3>1, <3>3
    <3>. QED
      BY <2>1, <2>5, <3>2, <3>3
  <2>6. CASE r = p
    <3>1. q # p /\ IsOpen(q) /\ Update(row) \in Held(q)
      BY <1>1, <2>6, OthersStay
    <3>2. CASE lock \in Held(p)
      BY <2>4, <2>6, <3>1, <3>2 DEF OverlapInv, LocksExclude
    <3>3. CASE lock = Wanted(p)
      BY <2>2, <2>3, <3>1, <3>3
    <3>. QED
      BY <2>1, <2>6, <3>2, <3>3
  <2>. QED
    BY <1>2, <2>5, <2>6
<1>. QED
  BY <1>3, <1>4, <1>5

(* A commit that writes the row of a poll's answer held its lock, so the   *)
(* poll did not, and has yet to find the row changed.                      *)
LEMMA PollsStayInTime ==
  ASSUME OverlapInv, NEW p \in Handling,
         Opens(p) \/ Takes(p) \/ GivesUp(p) \/ Commits(p)
  PROVE  PollsAreInTime'
<1>. DEFINE work(q) == handlers[q].work
            row(q) == CommandRow(work(q).answer)
<1>1. /\ OnlyMoves(p) /\ Handling' = Handling
      /\ handlers[p].phase # "COMMITTED"
  BY DEF Opens, Takes, GivesUp, Commits, OnlyMoves, IsOpen
<1>2. Known \subseteq Known'
  BY CommandsStayKnown
<1>. SUFFICES ASSUME NEW q \in Handling, IsOpen(q)', JobOf(q)'.op = "POLL",
                     handlers'[q].work.answer # None
              PROVE  PollIsInTime(q)'
  BY <1>1 DEF PollsAreInTime
<1>3. JobOf(q).op = "POLL"
  BY <1>1 DEF JobOf, OnlyMoves
<1>4. CASE q = p /\ Opens(p)
  <2>1. /\ handlers'[p].work = Work(p, db)
        /\ Held(p)' = {} /\ db' = db
    BY <1>4 DEF Opens, Held, Same
  <2>2. AnswerIsLocked(db, Work(p, db))
    BY <1>3, <1>4, WorkIsSound DEF OverlapInv, Structured, IsSound
  <2>3. Work(p, db).answer \in Names
    BY <1>4, <2>1, <2>2, CommandsHaveNames DEF AnswerIsLocked, OverlapInv, Structured
  <2>4. Work(p, db).answer \in Known'
    BY <1>2, <1>4, <2>1, <2>2, <2>3 DEF AnswerIsLocked, OverlapInv, CommandsAreKnown
  <2>. HIDE DEF work, row
  <2>. QED
    BY <1>4, <2>1, <2>2, <2>3, <2>4 DEF AnswerIsLocked, PollIsInTime
<1>5. CASE q # p \/ Takes(p)
  <2>1. /\ IsOpen(q) /\ work(q) = handlers'[q].work
        /\ handlers'[q].began = handlers[q].began
    BY <1>1, <1>5 DEF OnlyMoves, IsOpen, Takes
  <2>2. PollIsInTime(q)
    BY <1>3, <2>1 DEF OverlapInv, PollsAreInTime
  <2>. HIDE DEF work, row
  <2>3. CASE Same
    <3>1. Newer(q)' = Newer(q) /\ db' = db
      BY <1>1, <2>1, <2>3, NothingNewer DEF OverlapInv, Same
    <3>2. Update(row(q)) \in Held(q)' => row(q) \notin Newer(q)
      <4>1. CASE Held(q)' = Held(q)
        BY <2>2, <4>1 DEF PollIsInTime, row, work
      <4>2. CASE q = p /\ Takes(p)
        <5>1. Held(p)' = Held(p) \cup {Wanted(p)}
          BY <4>2, TakingHolds DEF OverlapInv
        <5>2. Wanted(p) = Update(row(q)) => row(q) \notin Newer(p)
          BY <4>2 DEF Takes, Update
        <5>. QED
          BY <2>2, <4>2, <5>1, <5>2 DEF PollIsInTime, row, work
      <4>. QED
        BY <1>1, <1>5, <4>1, <4>2, OthersStay
    <3>. QED
      BY <1>2, <2>1, <2>2, <3>1, <3>2 DEF PollIsInTime, row, work
  <2>4. CASE Commits(p)
    <3>1. q # p
      BY <1>5, <2>4 DEF Takes, Commits, IsOpen
    <3>2. Held(q)' = Held(q)
      BY <1>1, <3>1, OthersStay
    <3>3. row(q) \in Newer(q)' <=> row(q) \in Newer(q) \/ row(q) \in Written(p)
      BY <2>1, <2>4, <3>1, CommitMakesNewer DEF OverlapInv
    <3>4. /\ work(q).answer \in Names /\ work(q).answer \in Known
          /\ row(q) \in DOMAIN db
      BY <2>2 DEF PollIsInTime, OverlapInv, CommandsAreKnown, row, work
    <3>5. Update(row(q)) \in Held(q) => row(q) \notin Written(p)
      <4>. SUFFICES ASSUME row(q) \in Written(p), Update(row(q)) \in Held(q)
                    PROVE  FALSE
        OBVIOUS
      <4>1. work(q).answer # p
        BY <1>1, <3>4, OwnIsUnknown DEF OverlapInv
      <4>2. Update(row(q)) \in LocksIn(handlers[p].work.locks)
        BY <2>4, <3>4, <4>1 DEF OverlapInv, WritersLock, Commits, row
      <4>3. Update(row(q)) \in Held(p)
        BY <2>4, <4>2, AllAreHeld DEF OverlapInv, Commits
      <4>4. Update(row(q)).row # row(q)
        BY <2>1, <2>4, <3>1, <4>3 DEF OverlapInv, LocksExclude, Commits
      <4>. QED  BY <4>4 DEF Update
    <3>6. row(q) \notin Written(p) => db'[row(q)] = db[row(q)]
      BY <2>4, <3>4, CommitWrites
    <3>. QED
      BY <1>2, <2>1, <2>2, <3>2, <3>3, <3>4, <3>5, <3>6 DEF PollIsInTime, row, work
  <2>. QED
    BY <2>3, <2>4 DEF Opens, Takes, GivesUp
<1>6. CASE q = p /\ (GivesUp(p) \/ Commits(p))
  BY <1>6 DEF GivesUp, Commits, IsOpen
<1>. QED
  BY <1>4, <1>5, <1>6

(* Before anybody has begun.                                               *)
LEMMA OverlapInit == Init => OverlapInv
<1>. SUFFICES ASSUME Init PROVE OverlapInv
  OBVIOUS
<1>1. PICK some \in SUBSET Process : \E jobs \in [some -> Job] :
        handlers = [p \in some |->
          [job |-> jobs[p], phase |-> "READY", attempt |-> 1, began |-> 0,
           taken |-> 0, work |-> None]]
  BY DEF Init
<1>2. /\ Handling \subseteq Process
      /\ \A p \in Handling :
           /\ JobOf(p) \in Job /\ handlers[p].phase = "READY"
           /\ handlers[p].taken = 0 /\ DOMAIN handlers[p] = Fields
  BY <1>1 DEF Handling, JobOf, Fields
<1>3. commits = << >> /\ db \in SeedRows
  BY DEF Init
<1>4. commits \in Seq(Handling) /\ Len(commits) = 0
  BY <1>3, EmptySeq
<1>5. Structured
  BY <1>2, <1>4 DEF Structured, JobsAreGiven, Phases, IsOpen
<1>6. CommandsAreKnown
  BY <1>3, SeedAssumption, TransactionAssumption, PlacesOfRows
     DEF CommandsAreKnown, Names, Known, Status
<1>7. \A p \in Handling : ~IsOpen(p)
  BY <1>2 DEF IsOpen
<1>. QED
  BY <1>5, <1>6, <1>7 DEF OverlapInv, WritersLock, LocksExclude, PollsAreInTime

(* Every step keeps the invariant.                                         *)
LEMMA OverlapStep == OverlapInv /\ [Next]_vars => OverlapInv'
<1>. SUFFICES ASSUME OverlapInv, [Next]_vars PROVE OverlapInv'
  OBVIOUS
<1>1. CASE Next
  <2>1. PICK p \in Handling : Opens(p) \/ Takes(p) \/ GivesUp(p) \/ Commits(p)
    BY <1>1, StepsAreOfFourKinds DEF OverlapInv
  <2>2. Structured'
    BY <2>1, StructureStays DEF OverlapInv
  <2>3. CommandsAreKnown'
    BY <2>1, CommandsStayKnown
  <2>4. WritersLock'
    BY <2>1, WritersStayLocked
  <2>5. LocksExclude'
    BY <2>1, LocksStayExclusive
  <2>6. PollsAreInTime'
    BY <2>1, PollsStayInTime
  <2>. QED
    BY <2>2, <2>3, <2>4, <2>5, <2>6 DEF OverlapInv
<1>2. CASE UNCHANGED vars
  <2>1. /\ db' = db /\ commits' = commits /\ handlers' = handlers
        /\ Handling' = Handling /\ Known' = Known
    BY <1>2 DEF vars, Handling, Known, Committed
  <2>2. \A p \in Handling :
          /\ JobOf(p)' = JobOf(p) /\ (IsOpen(p)' <=> IsOpen(p))
          /\ Written(p)' = Written(p) /\ Held(p)' = Held(p)
          /\ Newer(p)' = Newer(p)
    BY <2>1 DEF JobOf, IsOpen, Written, Held, Newer
  <2>3. Structured' /\ CommandsAreKnown'
    BY <2>1, <2>2 DEF OverlapInv, Structured, JobsAreGiven, CommandsAreKnown
  <2>4. WritersLock' /\ LocksExclude'
    BY <2>1, <2>2 DEF OverlapInv, WritersLock, LocksExclude, Update, LocksIn
  <2>5. PollsAreInTime'
    BY <2>1, <2>2 DEF OverlapInv, PollsAreInTime, PollIsInTime, Update, LocksIn
  <2>. QED
    BY <2>3, <2>4, <2>5 DEF OverlapInv
<1>. QED
  BY <1>1, <1>2

(* However the statements of handlers interleave, nobody holds a row that  *)
(* another has locked for update, commands are written under their locks   *)
(* only, and what a poll will answer is so until it is found out.          *)
THEOREM OverlapIsInductive == Spec => []OverlapInv
<1>. QED
  BY OverlapInit, OverlapStep, PTL DEF Spec

(* A poll never answers with a command that had ended by then.             *)
THEOREM PollsAreTruthful == Spec => PollsAnswerWhatIsOutstanding
<1>. DEFINE answered(p) ==
              /\ commits' # commits /\ commits'[Len(commits')] = p
              /\ JobOf(p).op = "POLL" /\ handlers[p].work.answer # None
<1>1. ASSUME OverlapInv, [Next]_vars, NEW p \in Handling, answered(p)
      PROVE  db'[CommandRow(handlers[p].work.answer)] = "DISPATCHED"
  <2>. DEFINE work == handlers[p].work
              row == CommandRow(work.answer)
  <2>1. Next
    BY <1>1 DEF vars
  <2>2. PICK q \in Handling : Opens(q) \/ Takes(q) \/ GivesUp(q) \/ Commits(q)
    BY <1>1, <2>1, StepsAreOfFourKinds DEF OverlapInv
  <2>3. Commits(q)
    BY <1>1, <2>2 DEF Opens, Takes, GivesUp, Same
  <2>4. p = q
    <3>1. commits' = Append(commits, q) /\ commits \in Seq(Handling)
      BY <1>1, <2>3 DEF Commits, OverlapInv, Structured
    <3>2. commits'[Len(commits')] = q
      BY <3>1, AppendProperties
    <3>. QED  BY <1>1, <3>2
  <2>5. PollIsInTime(p)
    BY <1>1, <2>3, <2>4 DEF OverlapInv, PollsAreInTime, Commits
  <2>6. row \notin Newer(p)
    BY <1>1, <2>3, <2>4, <2>5, AllAreHeld DEF PollIsInTime, Commits, OverlapInv
  <2>7. row \in DOMAIN db
    BY <1>1, <2>5 DEF PollIsInTime, OverlapInv, CommandsAreKnown
  <2>. HIDE DEF work, row
  <2>8. \/ row \in Written(p) /\ work.writes[row] = "DISPATCHED"
        \/ work.writes = << >> /\ db[row] = "DISPATCHED"
    BY <2>5, <2>6 DEF PollIsInTime, Written, work, row
  <2>9. db'[row] = "DISPATCHED"
    <3>1. CASE row \in Written(p) /\ work.writes[row] = "DISPATCHED"
      BY <2>3, <2>4, <2>7, <3>1, CommitWrites DEF work
    <3>2. CASE work.writes = << >> /\ db[row] = "DISPATCHED"
      <4>1. row \notin Written(p)
        BY <3>2 DEF Written, work
      <4>. QED  BY <2>3, <2>4, <2>7, <3>2, <4>1, CommitWrites
    <3>. QED  BY <2>8, <3>1, <3>2
  <2>. QED
    BY <2>9 DEF work, row
<1>2. OverlapInv /\ [Next]_vars =>
        [\A p \in Handling : answered(p)
           => db'[CommandRow(handlers[p].work.answer)] = "DISPATCHED"]_vars
  BY <1>1
<1>. QED
  BY <1>2, OverlapIsInductive, PTL DEF Spec, PollsAnswerWhatIsOutstanding
----------------------------------------------------------------------------
(* The permission of a command.                                            *)

Out == {"QUEUED", "DISPATCHED"}
Over == {"CANCELLED", "EXPIRED", "OUTCOME_UNKNOWN"}

(* The rows it rests on, and what each has to say.                         *)
Rests(i) ==
  LET asked == Asked(i)
  IN  {PolicyRow(asked.recipient), DeviceRow(asked.recipient)}
      \cup IF asked.replyTo = None
             THEN {RelationshipRow(asked.actor, asked.recipient),
                   GrantRow(asked.recipient, asked.actor)}
             ELSE {}

Serves(row, value) ==
  /\ row[1] = "recipient_access_policies" => value # "PAUSED"
  /\ row[1] = "registered_devices" => value = "READY"
  /\ row[1] = "relationships" => value = "ACTIVE"
  /\ row[1] = "eject_grants" => value # None

Stands(i, s) == MayEject(Asked(i).actor, Asked(i).recipient, KindOf(i), s)

(* Commands have one table, permissions four others.                       *)
ConsentTables ==
  {"recipient_access_policies", "registered_devices", "relationships", "eject_grants"}

(* The table of a row is the first of its parts.                           *)
LEMMA TablesOfRows ==
  /\ \A q : /\ PersonRow(q)[1] = "people"
            /\ StateRow(q)[1] = "recipient_eject_state"
            /\ SenderRow(q)[1] = "sender_eject_state"
            /\ PolicyRow(q)[1] = "recipient_access_policies"
            /\ DeviceRow(q)[1] = "registered_devices"
            /\ InvitationRow(q)[1] = "relationship_invitations"
            /\ CommandRow(q)[1] = "eject_commands"
            /\ ReplyRow(q)[1] = "eject_commands.reply_to_command_id"
            /\ ResultRow(q)[1] = "agent_results"
  /\ \A q, r : /\ RelationshipRow(q, r)[1] = "relationships"
               /\ GrantRow(q, r)[1] = "eject_grants"
               /\ RequestRow(q, r)[1] = "eject_requests"
BY DEF PersonRow, StateRow, SenderRow, PolicyRow, DeviceRow, InvitationRow,
   CommandRow, ReplyRow, ResultRow, RelationshipRow, GrantRow, RequestRow

(* Those rows are of the four tables, and none is a command.               *)
LEMMA RestsOnConsent ==
  ASSUME NEW i, NEW row \in Rests(i)
  PROVE  row[1] \in ConsentTables /\ row[1] # "eject_commands"
BY TablesOfRows DEF Rests, ConsentTables

(* A permission stands when all its rows say so.                           *)
LEMMA StandsByRows ==
  ASSUME NEW i, NEW s
  PROVE  Stands(i, s) <=> \A row \in Rests(i) : Serves(row, s[row])
<1>. DEFINE asked == Asked(i)
<1>1. Stands(i, s) <=>
        /\ s[PolicyRow(asked.recipient)] # "PAUSED"
        /\ s[DeviceRow(asked.recipient)] = "READY"
        /\ asked.replyTo = None =>
             /\ s[RelationshipRow(asked.actor, asked.recipient)] = "ACTIVE"
             /\ s[GrantRow(asked.recipient, asked.actor)] # None
  BY DEF Stands, MayEject, KindOf, Kind
<1>2. \A q : /\ Serves(PolicyRow(q), s[PolicyRow(q)]) <=> s[PolicyRow(q)] # "PAUSED"
             /\ Serves(DeviceRow(q), s[DeviceRow(q)]) <=> s[DeviceRow(q)] = "READY"
  BY TablesOfRows DEF Serves
<1>3. \A q, r :
        /\ Serves(RelationshipRow(q, r), s[RelationshipRow(q, r)])
             <=> s[RelationshipRow(q, r)] = "ACTIVE"
        /\ Serves(GrantRow(q, r), s[GrantRow(q, r)]) <=> s[GrantRow(q, r)] # None
  BY TablesOfRows DEF Serves
<1>. QED
  BY <1>1, <1>2, <1>3 DEF Rests

(* Rows are told apart by what they are about.                             *)
LEMMA RowsAreDistinct ==
  /\ \A q, r : PolicyRow(q) = PolicyRow(r) => q = r
  /\ \A q, r : DeviceRow(q) = DeviceRow(r) => q = r
  /\ \A q, r, x, y : GrantRow(q, r) = GrantRow(x, y) => q = x /\ r = y
  /\ \A q, r, x, y : RelationshipRow(q, r) = RelationshipRow(x, y) =>
       (q = x /\ r = y) \/ (q = y /\ r = x)
<1>1. \A q, r, x, y : RelationshipRow(q, r) = RelationshipRow(x, y) => {q, r} = {x, y}
  BY DEF RelationshipRow
<1>2. \A q, r, x, y : {q, r} = {x, y} => (q = x /\ r = y) \/ (q = y /\ r = x)
  OBVIOUS
<1>. QED
  BY <1>1, <1>2 DEF PolicyRow, DeviceRow, GrantRow

(* Which command rests on a row.                                           *)
LEMMA WhoRests ==
  ASSUME NEW i, NEW row \in Rests(i)
  PROVE  /\ \A q : row = PolicyRow(q) \/ row = DeviceRow(q) => Asked(i).recipient = q
         /\ \A q, r : row = GrantRow(q, r) =>
              /\ Asked(i).recipient = q /\ Asked(i).actor = r
              /\ Asked(i).replyTo = None
         /\ \A q, r : row = RelationshipRow(q, r) =>
              \/ Asked(i).actor = q /\ Asked(i).recipient = r
              \/ Asked(i).actor = r /\ Asked(i).recipient = q
BY RowsAreDistinct, TablesOfRows DEF Rests

(* People ask people for ejects.                                           *)
LEMMA PeopleAsk ==
  ASSUME JobsAreGiven, NEW i \in Command
  PROVE  Asked(i).actor \in Person /\ Asked(i).recipient \in Person
BY TransactionAssumption DEF JobsAreGiven, Handling, Command, Asked

----------------------------------------------------------------------------
(* What a handler does to commands and permissions.                        *)

(* An issuance writes no other command and no permission.  What it queues  *)
(* had its permission, and it looked at all of it.                         *)
OnlyQueues(p, s, work) ==
  /\ \A i : CommandRow(i) \in DOMAIN work.writes => i = p
  /\ \A row \in DOMAIN work.writes : row[1] \notin ConsentTables
  /\ CommandRow(p) \in DOMAIN work.writes =>
       /\ work.writes[CommandRow(p)] = "QUEUED"
       /\ Stands(p, s)
       /\ Rests(p) \subseteq work.reads

(* Others write outstanding commands: they end them, but for a poll, which *)
(* may hand one out and does nothing else.                                 *)
OnlyEnds(s, work) ==
  \A i \in Command : CommandRow(i) \in DOMAIN work.writes =>
    /\ s[CommandRow(i)] \in Out
    /\ \/ work.writes[CommandRow(i)] \in Over
       \/ /\ s[CommandRow(i)] = "QUEUED"
          /\ work.writes[CommandRow(i)] = "DISPATCHED"
          /\ DOMAIN work.writes = {CommandRow(i)}

(* Who takes a permission away looks at the commands that rest on it, and  *)
(* ends those it finds, unless they had none to begin with.                *)
WithdrawsOpenly(s, work) ==
  \A i \in Command : \A row \in Rests(i) \cap DOMAIN work.writes :
    \/ Serves(row, work.writes[row])
    \/ /\ CommandRow(i) \in work.reads
       /\ s[CommandRow(i)] \in Out =>
            /\ CommandRow(i) \in DOMAIN work.writes
            /\ work.writes[CommandRow(i)] \in Over
    \/ \E bond \in Rests(i) \cap DOMAIN work.writes : ~Serves(bond, s[bond])

IsFaithful(p, s, work) ==
  /\ JobOf(p).op = "ISSUE" => OnlyQueues(p, s, work)
  /\ JobOf(p).op # "ISSUE" => OnlyEnds(s, work)
  /\ WithdrawsOpenly(s, work)

(* The tables of what is ensured, cancelled and deleted.                   *)
LEMMA TablesOfWrites ==
  ASSUME NEW s
  PROVE  /\ \A q, r : \A row \in DOMAIN Ensured({StateRow(q), StateRow(r)}, s) :
              row[1] = "recipient_eject_state"
         /\ \A q : \A row \in DOMAIN Ensured({StateRow(q)}, s) :
              row[1] = "recipient_eject_state"
         /\ \A q, r : \A row \in DOMAIN Ensured({StateRow(q), SenderRow(r)}, s) :
              row[1] \in {"recipient_eject_state", "sender_eject_state"}
         /\ \A ids : \A row \in DOMAIN Cancelled(ids, s) : row[1] = "eject_commands"
         /\ \A pairs : \A row \in DOMAIN Deleted(pairs, s) : row[1] = "eject_grants"
BY TablesOfRows DEF Ensured, Cancelled, CommandRows, Deleted, GrantRows

(* What is cancelled.                                                      *)
LEMMA CancelledIsOver ==
  ASSUME NEW s, NEW ids, NEW i
  PROVE  /\ CommandRow(i) \in DOMAIN Cancelled(ids, s) =>
              /\ i \in ids /\ s[CommandRow(i)] \in Out
              /\ Cancelled(ids, s)[CommandRow(i)] \in Over
         /\ i \in ids /\ s[CommandRow(i)] \in Out =>
              CommandRow(i) \in DOMAIN Cancelled(ids, s)
BY CommandsAreOfOneTable DEF Cancelled, CommandRows, OutstandingIn, Out, Over

(* A pause ends the commands to the recipient; its end withdraws nothing.  *)
LEMMA SetPausedIsFaithful ==
  ASSUME JobsAreGiven, NEW p, NEW s, JobOf(p).op = "SET_PAUSED"
  PROVE  IsFaithful(p, s, SetPaused(p, s))
<1>. DEFINE job    == JobOf(p)
            ids    == IF job.paused THEN To(job.recipient) ELSE {}
            state  == StateRow(job.recipient)
            policy == PolicyRow(job.recipient)
            paused == policy :> IF job.paused THEN "PAUSED" ELSE "OPEN"
            cancels == Cancelled(ids, s)
            ensures == Ensured({state}, s)
            work   == SetPaused(p, s)
<1>1. work.writes = paused @@ cancels @@ ensures /\ work.reads = CommandRows(ids)
  BY DEF SetPaused
<1>2. /\ DOMAIN paused = {policy} /\ policy[1] = "recipient_access_policies"
      /\ paused[policy] = IF job.paused THEN "PAUSED" ELSE "OPEN"
      /\ \A row \in DOMAIN cancels : row[1] = "eject_commands"
      /\ \A row \in DOMAIN ensures : row[1] = "recipient_eject_state"
  BY TablesOfRows, TablesOfWrites DEF :>
<1>. HIDE DEF paused, cancels, ensures, policy, work
<1>3. /\ DOMAIN work.writes = {policy} \cup DOMAIN cancels \cup DOMAIN ensures
      /\ work.writes[policy] = IF job.paused THEN "PAUSED" ELSE "OPEN"
      /\ \A row \in DOMAIN cancels : work.writes[row] = cancels[row]
  <2>1. DOMAIN (paused @@ cancels) = {policy} \cup DOMAIN cancels
    BY <1>2 DEF @@
  <2>2. /\ (paused @@ cancels)[policy] = paused[policy]
        /\ \A row \in DOMAIN cancels : (paused @@ cancels)[row] = cancels[row]
    BY <1>2 DEF @@
  <2>3. policy \in DOMAIN (paused @@ cancels)
    BY <2>1
  <2>. QED
    BY <1>1, <1>2, <2>1, <2>2, <2>3 DEF @@
<1>4. OnlyEnds(s, work)
  <2>. SUFFICES ASSUME NEW i \in Command, CommandRow(i) \in DOMAIN work.writes
                PROVE  s[CommandRow(i)] \in Out /\ work.writes[CommandRow(i)] \in Over
    BY DEF OnlyEnds
  <2>1. CommandRow(i) \in DOMAIN cancels
    BY <1>2, <1>3, TablesOfRows
  <2>. QED
    BY <1>3, <2>1, CancelledIsOver DEF cancels
<1>5. WithdrawsOpenly(s, work)
  <2>. SUFFICES ASSUME NEW i \in Command, NEW row \in Rests(i) \cap DOMAIN work.writes,
                       ~Serves(row, work.writes[row])
                PROVE  /\ CommandRow(i) \in work.reads
                       /\ s[CommandRow(i)] \in Out =>
                            /\ CommandRow(i) \in DOMAIN work.writes
                            /\ work.writes[CommandRow(i)] \in Over
    BY DEF WithdrawsOpenly
  <2>1. row = policy
    BY <1>2, <1>3, RestsOnConsent DEF ConsentTables
  <2>2. job.paused
    BY <1>2, <1>3, <2>1 DEF Serves
  <2>3. Asked(i).recipient = job.recipient
    BY <2>1, WhoRests DEF policy
  <2>4. i \in ids
    BY <2>2, <2>3, PeopleAsk DEF To, Between
  <2>. HIDE DEF ids
  <2>. QED
    BY <1>1, <1>3, <2>4, CancelledIsOver DEF cancels, CommandRows
<1>. QED
  BY <1>4, <1>5 DEF IsFaithful, work

(* Giving a grant withdraws nothing.                                       *)
LEMMA GiveGrantIsFaithful ==
  ASSUME NEW p, NEW s, JobOf(p).op = "GIVE_GRANT"
  PROVE  IsFaithful(p, s, GiveGrant(p, s))
<1>. DEFINE job   == JobOf(p)
            grant == GrantRow(job.recipient, job.actor)
            given == /\ s[RelationshipRow(job.actor, job.recipient)] = "ACTIVE"
                     /\ s[grant] = None
            new     == IF given THEN grant :> "GIVEN" ELSE << >>
            ensures == Ensured({StateRow(job.recipient)}, s)
            work    == GiveGrant(p, s)
<1>1. work.writes = ensures @@ new
  BY DEF GiveGrant
<1>2. /\ \A row \in DOMAIN ensures : row[1] = "recipient_eject_state"
      /\ \A row \in DOMAIN new : row[1] = "eject_grants" /\ new[row] = "GIVEN"
  BY TablesOfRows, TablesOfWrites DEF :>
<1>. HIDE DEF ensures, new, work
<1>3. \A row \in DOMAIN work.writes :
        \/ row[1] = "recipient_eject_state"
        \/ row[1] = "eject_grants" /\ work.writes[row] = "GIVEN"
  BY <1>1, <1>2 DEF @@
<1>4. OnlyEnds(s, work)
  BY <1>3, TablesOfRows DEF OnlyEnds
<1>5. WithdrawsOpenly(s, work)
  BY <1>3, RestsOnConsent, TransactionAssumption DEF WithdrawsOpenly, ConsentTables, Serves
<1>. QED
  BY <1>4, <1>5 DEF IsFaithful, work

(* Withdrawing a grant ends the commands between the two.                  *)
LEMMA RevokeGrantIsFaithful ==
  ASSUME JobsAreGiven, NEW p, NEW s, JobOf(p).op = "REVOKE_GRANT"
  PROVE  IsFaithful(p, s, RevokeGrant(p, s))
<1>. DEFINE job     == JobOf(p)
            pair    == <<job.actor, job.recipient>>
            ids     == Between({pair})
            deletes == Deleted({pair}, s)
            cancels == Cancelled(ids, s)
            ensures == Ensured({StateRow(job.recipient)}, s)
            work    == RevokeGrant(p, s)
<1>1. /\ work.writes = deletes @@ cancels @@ ensures
      /\ CommandRows(ids) \subseteq work.reads
  BY DEF RevokeGrant
<1>2. /\ \A row \in DOMAIN deletes : row = GrantRow(job.recipient, job.actor)
      /\ \A row \in DOMAIN deletes : row[1] = "eject_grants"
      /\ \A row \in DOMAIN cancels : row[1] = "eject_commands"
      /\ \A row \in DOMAIN ensures : row[1] = "recipient_eject_state"
  <2>1. pair[1] = job.actor /\ pair[2] = job.recipient
    OBVIOUS
  <2>. HIDE DEF pair, ids
  <2>2. \A row \in DOMAIN deletes : row = GrantRow(pair[2], pair[1])
    BY DEF Deleted, GrantRows
  <2>. QED
    BY <2>1, <2>2, TablesOfWrites
<1>. HIDE DEF deletes, cancels, ensures, work, ids
<1>3. /\ DOMAIN work.writes = DOMAIN deletes \cup DOMAIN cancels \cup DOMAIN ensures
      /\ \A row \in DOMAIN cancels : work.writes[row] = cancels[row]
  <2>1. /\ DOMAIN (deletes @@ cancels) = DOMAIN deletes \cup DOMAIN cancels
        /\ \A row \in DOMAIN cancels : (deletes @@ cancels)[row] = cancels[row]
    BY <1>2 DEF @@
  <2>. QED
    BY <1>1, <1>2, <2>1 DEF @@
<1>4. OnlyEnds(s, work)
  <2>. SUFFICES ASSUME NEW i \in Command, CommandRow(i) \in DOMAIN work.writes
                PROVE  s[CommandRow(i)] \in Out /\ work.writes[CommandRow(i)] \in Over
    BY DEF OnlyEnds
  <2>1. CommandRow(i) \in DOMAIN cancels
    BY <1>2, <1>3, TablesOfRows
  <2>. QED
    BY <1>3, <2>1, CancelledIsOver DEF cancels
<1>5. WithdrawsOpenly(s, work)
  <2>. SUFFICES ASSUME NEW i \in Command, NEW row \in Rests(i) \cap DOMAIN work.writes
                PROVE  /\ CommandRow(i) \in work.reads
                       /\ s[CommandRow(i)] \in Out =>
                            /\ CommandRow(i) \in DOMAIN work.writes
                            /\ work.writes[CommandRow(i)] \in Over
    BY DEF WithdrawsOpenly
  <2>1. row = GrantRow(job.recipient, job.actor)
    BY <1>2, <1>3, RestsOnConsent DEF ConsentTables
  <2>2. Asked(i).recipient = job.recipient /\ Asked(i).actor = job.actor
    BY <2>1, WhoRests
  <2>3. i \in ids
    BY <2>2 DEF ids, Between
  <2>. QED
    BY <1>1, <1>3, <2>3, CancelledIsOver DEF cancels, CommandRows
<1>. QED
  BY <1>4, <1>5 DEF IsFaithful, work

(* The grants of two people.                                               *)
LEMMA DeletedOfTwo ==
  ASSUME NEW low, NEW high, NEW s
  PROVE  \A row \in DOMAIN Deleted(BothWays(low, high), s) :
           /\ row[1] = "eject_grants"
           /\ row = GrantRow(high, low) \/ row = GrantRow(low, high)
<1>1. \A pair \in BothWays(low, high) :
        \/ pair[1] = low /\ pair[2] = high
        \/ pair[1] = high /\ pair[2] = low
  BY DEF BothWays
<1>2. \A row \in GrantRows(BothWays(low, high)) :
        row = GrantRow(high, low) \/ row = GrantRow(low, high)
  BY <1>1 DEF GrantRows
<1>. QED
  BY <1>2, TablesOfRows DEF Deleted

(* Disconnecting ends the commands both ways.                              *)
LEMMA DisconnectIsFaithful ==
  ASSUME JobsAreGiven, NEW p, NEW s, JobOf(p).op = "DISCONNECT"
  PROVE  IsFaithful(p, s, Disconnect(p, s))
<1>. DEFINE job     == JobOf(p)
            low     == Low(job.actor, job.recipient)
            high    == High(job.actor, job.recipient)
            pairs   == BothWays(low, high)
            ids     == Between(pairs)
            bond    == RelationshipRow(low, high)
            ended   == bond :> "ENDED"
            deletes == Deleted(pairs, s)
            cancels == Cancelled(ids, s)
            ensures == Ensured({StateRow(low), StateRow(high)}, s)
            work    == Disconnect(p, s)
<1>1. \A row \in DOMAIN ensures : row[1] = "recipient_eject_state"
  BY TablesOfWrites
<1>2. CASE s[bond] # "ACTIVE"
  <2>1. work.writes = ensures
    BY <1>2 DEF Disconnect
  <2>. HIDE DEF ensures, work
  <2>2. OnlyEnds(s, work)
    BY <1>1, <2>1, TablesOfRows DEF OnlyEnds
  <2>3. WithdrawsOpenly(s, work)
    BY <1>1, <2>1, RestsOnConsent DEF WithdrawsOpenly, ConsentTables
  <2>. QED
    BY <2>2, <2>3 DEF IsFaithful, work
<1>3. CASE s[bond] = "ACTIVE"
  <2>1. /\ work.writes = ended @@ deletes @@ cancels @@ ensures
        /\ CommandRows(ids) \subseteq work.reads
    BY <1>3 DEF Disconnect
  <2>2. /\ DOMAIN ended = {bond} /\ bond[1] = "relationships"
        /\ \A row \in DOMAIN deletes :
             /\ row[1] = "eject_grants"
             /\ row = GrantRow(high, low) \/ row = GrantRow(low, high)
        /\ \A row \in DOMAIN cancels : row[1] = "eject_commands"
    BY TablesOfRows, TablesOfWrites, DeletedOfTwo DEF :>
  <2>. HIDE DEF ended, deletes, cancels, ensures, work, ids, pairs
  <2>3. /\ DOMAIN work.writes =
             {bond} \cup DOMAIN deletes \cup DOMAIN cancels \cup DOMAIN ensures
        /\ \A row \in DOMAIN cancels : work.writes[row] = cancels[row]
    <3>1. DOMAIN (ended @@ deletes) = {bond} \cup DOMAIN deletes
      BY <2>2 DEF @@
    <3>. HIDE DEF bond
    <3>2. /\ DOMAIN (ended @@ deletes @@ cancels)
               = {bond} \cup DOMAIN deletes \cup DOMAIN cancels
          /\ \A row \in DOMAIN cancels :
               (ended @@ deletes @@ cancels)[row] = cancels[row]
      BY <2>2, <3>1 DEF @@
    <3>. QED
      BY <1>1, <2>1, <2>2, <3>2 DEF @@
  <2>4. OnlyEnds(s, work)
    <3>. SUFFICES ASSUME NEW i \in Command, CommandRow(i) \in DOMAIN work.writes
                  PROVE  s[CommandRow(i)] \in Out /\ work.writes[CommandRow(i)] \in Over
      BY DEF OnlyEnds
    <3>1. CommandRow(i) \in DOMAIN cancels
      <4>. HIDE DEF bond
      <4>. QED  BY <1>1, <2>2, <2>3, TablesOfRows
    <3>. QED
      BY <2>3, <3>1, CancelledIsOver DEF cancels
  <2>5. WithdrawsOpenly(s, work)
    <3>. SUFFICES ASSUME NEW i \in Command, NEW row \in Rests(i) \cap DOMAIN work.writes
                  PROVE  /\ CommandRow(i) \in work.reads
                         /\ s[CommandRow(i)] \in Out =>
                              /\ CommandRow(i) \in DOMAIN work.writes
                              /\ work.writes[CommandRow(i)] \in Over
      BY DEF WithdrawsOpenly
    <3>1. row = bond \/ row = GrantRow(high, low) \/ row = GrantRow(low, high)
      <4>. HIDE DEF bond
      <4>. QED  BY <1>1, <2>2, <2>3, RestsOnConsent DEF ConsentTables
    <3>. HIDE DEF low, high
    <3>2. \/ Asked(i).actor = low /\ Asked(i).recipient = high
          \/ Asked(i).actor = high /\ Asked(i).recipient = low
      BY <3>1, WhoRests
    <3>3. i \in ids
      BY <3>2 DEF ids, Between, pairs, BothWays
    <3>. QED
      BY <2>1, <2>3, <3>3, CancelledIsOver DEF cancels, CommandRows
  <2>. QED
    BY <2>4, <2>5 DEF IsFaithful, work
<1>. QED
  BY <1>2, <1>3

(* Accepting an invitation deletes grants without looking at commands, but *)
(* of people who were not connected to begin with.                         *)
LEMMA AcceptIsFaithful ==
  ASSUME NEW p, NEW s, JobOf(p).op = "ACCEPT"
  PROVE  IsFaithful(p, s, Accept(p, s))
<1>. DEFINE job     == JobOf(p)
            code    == InvitationRow(job.recipient)
            low     == Low(job.actor, job.recipient)
            high    == High(job.actor, job.recipient)
            bond    == RelationshipRow(low, high)
            pairs   == IF s[bond] = "ENDED" THEN BothWays(low, high) ELSE {}
            used    == code :> "USED"
            begun   == bond :> "ACTIVE"
            deletes == Deleted(pairs, s)
            work    == Accept(p, s)
<1>1. /\ DOMAIN used = {code} /\ code[1] = "relationship_invitations"
      /\ DOMAIN begun = {bond} /\ bond[1] = "relationships" /\ begun[bond] = "ACTIVE"
      /\ \A row \in DOMAIN deletes :
           /\ row[1] = "eject_grants"
           /\ row = GrantRow(high, low) \/ row = GrantRow(low, high)
  <2>. HIDE DEF low, high
  <2>1. \A row \in DOMAIN deletes : row \in DOMAIN Deleted(BothWays(low, high), s)
    BY DEF Deleted, GrantRows
  <2>. QED
    BY <2>1, TablesOfRows, DeletedOfTwo DEF :>
<1>2. CASE DOMAIN work.writes \subseteq {code}
  <2>. HIDE DEF work
  <2>1. OnlyEnds(s, work)
    BY <1>1, <1>2, TablesOfRows DEF OnlyEnds
  <2>2. WithdrawsOpenly(s, work)
    <3>. HIDE DEF code
    <3>. QED  BY <1>1, <1>2, RestsOnConsent DEF WithdrawsOpenly, ConsentTables
  <2>. QED
    BY <2>1, <2>2 DEF IsFaithful, work
<1>3. CASE s[code] = "PENDING" /\ s[bond] # "ACTIVE"
  <2>1. work.writes = used @@ (deletes @@ begun)
    BY <1>3 DEF Accept
  <2>. HIDE DEF used, begun, deletes, work
  <2>2. /\ DOMAIN (deletes @@ begun) = DOMAIN deletes \cup {bond}
        /\ (deletes @@ begun)[bond] = "ACTIVE"
    <3>. HIDE DEF bond
    <3>. QED  BY <1>1 DEF @@
  <2>3. /\ DOMAIN work.writes = {code} \cup DOMAIN deletes \cup {bond}
        /\ work.writes[bond] = "ACTIVE"
    <3>. HIDE DEF bond, code
    <3>. QED  BY <1>1, <2>1, <2>2 DEF @@
  <2>4. OnlyEnds(s, work)
    <3>. HIDE DEF bond, code
    <3>. QED  BY <1>1, <2>3, TablesOfRows DEF OnlyEnds
  <2>5. WithdrawsOpenly(s, work)
    <3>. SUFFICES ASSUME NEW i \in Command, NEW row \in Rests(i) \cap DOMAIN work.writes,
                         ~Serves(row, work.writes[row])
                  PROVE  \E other \in Rests(i) \cap DOMAIN work.writes :
                           ~Serves(other, s[other])
      BY DEF WithdrawsOpenly
    <3>1. row # bond
      <4>. HIDE DEF bond
      <4>. QED  BY <1>1, <2>3 DEF Serves
    <3>2. row = GrantRow(high, low) \/ row = GrantRow(low, high)
      <4>. HIDE DEF bond, code
      <4>. QED  BY <1>1, <2>3, <3>1, RestsOnConsent DEF ConsentTables
    <3>3. /\ Asked(i).replyTo = None
          /\ \/ Asked(i).actor = low /\ Asked(i).recipient = high
             \/ Asked(i).actor = high /\ Asked(i).recipient = low
      <4>. HIDE DEF low, high
      <4>. QED  BY <3>2, WhoRests
    <3>4. RelationshipRow(high, low) = RelationshipRow(low, high)
      <4>. HIDE DEF low, high
      <4>1. {high, low} = {low, high}
        OBVIOUS
      <4>. QED  BY <4>1 DEF RelationshipRow
    <3>5. bond \in Rests(i)
      <4>. HIDE DEF low, high
      <4>. QED  BY <3>3, <3>4 DEF Rests
    <3>6. ~Serves(bond, s[bond])
      <4>. HIDE DEF bond
      <4>. QED  BY <1>1, <1>3 DEF Serves
    <3>. QED
      BY <2>3, <3>5, <3>6
  <2>. QED
    BY <2>4, <2>5 DEF IsFaithful, work
<1>4. CASE s[code] # "PENDING" \/ s[bond] = "ACTIVE"
  <2>1. work.writes = << >> \/ work.writes = used @@ << >>
    BY <1>4 DEF Accept
  <2>2. DOMAIN work.writes \subseteq {code}
    <3>. HIDE DEF used, work, code
    <3>. QED  BY <1>1, <2>1 DEF @@
  <2>. QED
    BY <1>2, <2>2
<1>. QED
  BY <1>3, <1>4

(* So is a handler that writes nothing.                                    *)
LEMMA NothingIsFaithful ==
  ASSUME NEW p, NEW s, NEW work, work.writes = << >>, JobOf(p).op # "ISSUE"
  PROVE  IsFaithful(p, s, work)
BY DEF IsFaithful, OnlyEnds, WithdrawsOpenly

(* A poll ends the oldest command or hands it out, and nothing else.       *)
LEMMA PollIsFaithful ==
  ASSUME JobsAreGiven, NEW p, NEW s, JobOf(p).op = "POLL"
  PROVE  IsFaithful(p, s, Poll(p, s))
<1>. DEFINE job    == JobOf(p)
            device == DeviceRow(job.recipient)
            open   == OutstandingIn(To(job.recipient), s)
            oldest == CHOOSE i \in open : \A j \in open : i <= j
            row    == CommandRow(oldest)
            work   == Poll(p, s)
<1>1. CASE s[device] # "READY" \/ open = {}
  <2>1. work.writes = << >>
    BY <1>1 DEF Poll, Unheard
  <2>. HIDE DEF work
  <2>. QED
    BY <2>1, NothingIsFaithful DEF work
<1>2. CASE s[device] = "READY" /\ open # {}
  <2>1. open \in SUBSET Command
    BY SelectionsAreCommands DEF OutstandingIn
  <2>2. open \in SUBSET Nat /\ IsFiniteSet(open)
    BY <2>1, CommandsHaveNames, NamesAreFinite, FS_Subset
  <2>3. oldest \in open
    <3>. HIDE DEF open
    <3>1. PICK i \in open : \A j \in open : i <= j
      BY <1>2, <2>2, LeastExists
    <3>. QED  BY <3>1
  <2>4. s[row] \in Out
    BY <2>3 DEF OutstandingIn, Out
  <2>. DEFINE new == IF job.late THEN row :> "EXPIRED"
                     ELSE IF s[row] = "DISPATCHED" THEN << >>
                     ELSE row :> "DISPATCHED"
  <2>5. work.writes = new
    <3>. HIDE DEF open, oldest
    <3>. QED  BY <1>2 DEF Poll, open, oldest
  <2>6. /\ DOMAIN new \subseteq {row}
        /\ row \in DOMAIN new =>
             \/ new[row] = "EXPIRED"
             \/ s[row] = "QUEUED" /\ new[row] = "DISPATCHED" /\ DOMAIN new = {row}
    <3>. HIDE DEF open, oldest, row
    <3>. QED  BY <2>4 DEF :>, Out
  <2>. HIDE DEF open, oldest, work, new
  <2>7. OnlyEnds(s, work)
    BY <2>4, <2>5, <2>6, CommandsAreOfOneTable DEF OnlyEnds, Over
  <2>8. WithdrawsOpenly(s, work)
    BY <2>5, <2>6, RestsOnConsent, TablesOfRows DEF WithdrawsOpenly
  <2>. QED
    BY <2>7, <2>8 DEF IsFaithful, work
<1>. QED
  BY <1>1, <1>2

(* A result ends its command.                                              *)
LEMMA IngestIsFaithful ==
  ASSUME NEW p, NEW s, JobOf(p).op = "INGEST"
  PROVE  IsFaithful(p, s, Ingest(p, s))
<1>. DEFINE job    == JobOf(p)
            device == DeviceRow(job.recipient)
            row    == CommandRow(job.command)
            result == ResultRow(job.command)
            stored == s[result] = None /\ s[row] = "DISPATCHED"
            work   == Ingest(p, s)
<1>1. CASE s[device] # "READY" \/ ~stored
  <2>1. work.writes = << >>
    BY <1>1 DEF Ingest, Unheard
  <2>. HIDE DEF work
  <2>. QED
    BY <2>1, NothingIsFaithful DEF work
<1>2. CASE s[device] = "READY" /\ stored
  <2>. DEFINE ended == row :> "OUTCOME_UNKNOWN"
              kept  == result :> p
  <2>1. work.writes = ended @@ kept
    BY <1>2 DEF Ingest
  <2>2. /\ DOMAIN ended = {row} /\ ended[row] = "OUTCOME_UNKNOWN"
        /\ DOMAIN kept = {result}
        /\ row[1] = "eject_commands" /\ result[1] = "agent_results"
    BY TablesOfRows DEF :>
  <2>. HIDE DEF ended, kept, work
  <2>3. /\ DOMAIN work.writes = {row, result}
        /\ work.writes[row] = "OUTCOME_UNKNOWN"
    <3>. HIDE DEF row, result
    <3>. QED  BY <2>1, <2>2 DEF @@
  <2>4. OnlyEnds(s, work)
    <3>. HIDE DEF result
    <3>. QED  BY <1>2, <2>2, <2>3, CommandsAreOfOneTable, TablesOfRows DEF OnlyEnds, Over, Out
  <2>5. WithdrawsOpenly(s, work)
    <3>. HIDE DEF row, result
    <3>. QED  BY <2>2, <2>3, RestsOnConsent DEF WithdrawsOpenly, ConsentTables
  <2>. QED
    BY <2>4, <2>5 DEF IsFaithful, work
<1>. QED
  BY <1>1, <1>2

(* Revoking a device ends the commands to its owner.                       *)
LEMMA RevokeDeviceIsFaithful ==
  ASSUME JobsAreGiven, NEW p, NEW s, JobOf(p).op = "REVOKE_DEVICE"
  PROVE  IsFaithful(p, s, RevokeDevice(p, s))
<1>. DEFINE owner   == JobOf(p).recipient
            device  == DeviceRow(owner)
            ids     == To(owner)
            revoked == device :> "REVOKED"
            cancels == Cancelled(ids, s)
            work    == RevokeDevice(p, s)
<1>1. CASE s[device] = "REVOKED"
  <2>1. work.writes = << >>
    BY <1>1 DEF RevokeDevice
  <2>. HIDE DEF work
  <2>. QED
    BY <2>1, NothingIsFaithful DEF work
<1>2. CASE s[device] # "REVOKED"
  <2>1. work.writes = revoked @@ cancels /\ CommandRows(ids) \subseteq work.reads
    BY <1>2 DEF RevokeDevice
  <2>2. /\ DOMAIN revoked = {device} /\ device[1] = "registered_devices"
        /\ \A row \in DOMAIN cancels : row[1] = "eject_commands"
    BY TablesOfRows, TablesOfWrites DEF :>
  <2>. HIDE DEF revoked, cancels, work, ids
  <2>3. /\ DOMAIN work.writes = {device} \cup DOMAIN cancels
        /\ \A row \in DOMAIN cancels : work.writes[row] = cancels[row]
    <3>. HIDE DEF device
    <3>. QED  BY <2>1, <2>2 DEF @@
  <2>4. OnlyEnds(s, work)
    <3>. SUFFICES ASSUME NEW i \in Command, CommandRow(i) \in DOMAIN work.writes
                  PROVE  s[CommandRow(i)] \in Out /\ work.writes[CommandRow(i)] \in Over
      BY DEF OnlyEnds
    <3>1. CommandRow(i) \in DOMAIN cancels
      <4>. HIDE DEF device
      <4>. QED  BY <2>2, <2>3, TablesOfRows
    <3>. QED
      BY <2>3, <3>1, CancelledIsOver DEF cancels
  <2>5. WithdrawsOpenly(s, work)
    <3>. SUFFICES ASSUME NEW i \in Command, NEW row \in Rests(i) \cap DOMAIN work.writes
                  PROVE  /\ CommandRow(i) \in work.reads
                         /\ s[CommandRow(i)] \in Out =>
                              /\ CommandRow(i) \in DOMAIN work.writes
                              /\ work.writes[CommandRow(i)] \in Over
      BY DEF WithdrawsOpenly
    <3>1. row = device
      <4>. HIDE DEF device
      <4>. QED  BY <2>2, <2>3, RestsOnConsent DEF ConsentTables
    <3>2. Asked(i).recipient = owner
      BY <3>1, WhoRests
    <3>3. i \in ids
      BY <3>2, PeopleAsk DEF ids, To, Between
    <3>. QED
      BY <2>1, <2>3, <3>3, CancelledIsOver DEF cancels, CommandRows
  <2>. QED
    BY <2>4, <2>5 DEF IsFaithful, work
<1>. QED
  BY <1>1, <1>2

(* An issuance queues its own command, if it found the permission standing.*)
LEMMA IssueIsFaithful ==
  ASSUME JobsAreGiven, NEW p \in Handling, NEW s, JobOf(p).op = "ISSUE"
  PROVE  IsFaithful(p, s, Issue(p, s))
<1>. DEFINE job     == JobOf(p)
            request == RequestRow(job.actor, job.key)
            theirs  == StateRow(job.recipient)
            mine    == SenderRow(job.actor)
            source  == job.replyTo
            queued  == Authorized(p, s)
            work    == Issue(p, s)
            issued  == CommandRow(p)
            IsApart(row) == row[1] \notin ConsentTables \cup {"eject_commands"}
<1>1. /\ IsApart(request) /\ IsApart(theirs) /\ IsApart(mine)
      /\ \A i : IsApart(ReplyRow(i))
      /\ \A row \in DOMAIN Ensured({theirs, mine}, s) : IsApart(row)
      /\ \A row \in DOMAIN Ensured({theirs}, s) : IsApart(row)
  BY TablesOfRows, TablesOfWrites DEF ConsentTables
<1>2. issued[1] = "eject_commands"
  BY TablesOfRows
<1>3. ASSUME \A row \in DOMAIN work.writes : IsApart(row) \/ row = issued
      PROVE  /\ \A i : CommandRow(i) \in DOMAIN work.writes => i = p
             /\ \A row \in DOMAIN work.writes : row[1] \notin ConsentTables
             /\ WithdrawsOpenly(s, work)
  <2>1. \A row \in DOMAIN work.writes : row[1] \notin ConsentTables
    BY <1>2, <1>3 DEF ConsentTables
  <2>2. \A i : CommandRow(i) \in DOMAIN work.writes => i = p
    BY <1>3, TablesOfRows, CommandsAreOfOneTable
  <2>3. WithdrawsOpenly(s, work)
    BY <2>1, RestsOnConsent DEF WithdrawsOpenly
  <2>. QED  BY <2>1, <2>2, <2>3
<1>4. CASE IsAnswered(request, s)
  <2>1. work.writes = Ensured({theirs}, s)
    BY <1>4 DEF Issue, Replay
  <2>2. \A row \in DOMAIN work.writes : IsApart(row)
    BY <1>1, <2>1
  <2>3. issued \notin DOMAIN work.writes
    BY <1>2, <2>2
  <2>. HIDE DEF work, issued
  <2>. QED
    BY <1>3, <2>2, <2>3 DEF IsFaithful, OnlyQueues, work, issued
<1>5. CASE ~IsAnswered(request, s)
  <2>. DEFINE answer  == [outcome |-> IF queued THEN "QUEUED" ELSE "REJECTED",
                          id |-> p]
              ejected == issued :> "QUEUED"
              counted == ejected @@ (theirs :> Count(theirs, s) + 1)
                                 @@ (mine :> Count(mine, s) + 1)
              effect  == IF queued THEN counted ELSE Ensured({theirs, mine}, s)
              asked   == request :> answer
              reply   == IF queued /\ source # None THEN ReplyRow(source) :> p
                                                    ELSE << >>
  <2>1. /\ work.writes = asked @@ effect @@ reply
        /\ work.reads = {request, theirs, mine, PolicyRow(job.recipient),
                         DeviceRow(job.recipient)}
                        \cup IF source = None
                               THEN {RelationshipRow(job.actor, job.recipient),
                                     GrantRow(job.recipient, job.actor)}
                               ELSE {CommandRow(source), ReplyRow(source)}
    BY <1>5 DEF Issue
  <2>2. DOMAIN counted = {issued} \cup {theirs} \cup {mine} /\ counted[issued] = "QUEUED"
    <3>. DEFINE received == theirs :> Count(theirs, s) + 1
                sent     == mine :> Count(mine, s) + 1
    <3>1. /\ DOMAIN ejected = {issued} /\ ejected[issued] = "QUEUED"
          /\ DOMAIN received = {theirs} /\ DOMAIN sent = {mine}
      BY DEF :>
    <3>. HIDE DEF ejected, received, sent, issued, theirs, mine
    <3>2. /\ DOMAIN (ejected @@ received) = {issued} \cup {theirs}
          /\ (ejected @@ received)[issued] = "QUEUED"
      BY <3>1 DEF @@
    <3>. QED
      BY <3>1, <3>2 DEF @@, received, sent
  <2>3. /\ \A row \in DOMAIN effect : IsApart(row) \/ row = issued
        /\ issued \in DOMAIN effect => queued /\ effect[issued] = "QUEUED"
    <3>1. CASE queued
      <4>. HIDE DEF queued, counted, issued, theirs, mine, IsApart
      <4>. QED  BY <1>1, <2>2, <3>1 DEF theirs, mine
    <3>2. CASE ~queued
      <4>1. issued \notin DOMAIN Ensured({theirs, mine}, s)
        BY <1>1, <1>2
      <4>. HIDE DEF queued, counted, issued, IsApart
      <4>. QED  BY <1>1, <3>2, <4>1
    <3>. QED  BY <3>1, <3>2
  <2>4. /\ DOMAIN asked = {request}
        /\ \A row \in DOMAIN reply : IsApart(row)
    <3>1. DOMAIN asked = {request}
      BY DEF :>
    <3>. HIDE DEF IsApart, queued
    <3>. QED  BY <1>1, <3>1 DEF :>
  <2>5. issued \notin DOMAIN asked /\ issued \notin DOMAIN reply
    BY <1>1, <1>2, <2>4
  <2>. HIDE DEF effect, asked, reply, work, issued, request, IsApart, queued
  <2>6. /\ \A row \in DOMAIN work.writes : IsApart(row) \/ row = issued
        /\ issued \in DOMAIN work.writes =>
             queued /\ work.writes[issued] = "QUEUED"
    <3>1. /\ DOMAIN (asked @@ effect) = {request} \cup DOMAIN effect
          /\ \A row \in DOMAIN effect \ {request} : (asked @@ effect)[row] = effect[row]
      BY <2>4 DEF @@
    <3>. QED
      BY <1>1, <2>1, <2>3, <2>4, <2>5, <3>1 DEF @@, request
  <2>7. Asked(p) = job
    BY DEF JobsAreGiven, Asked
  <2>8. queued => Stands(p, s)
    BY <2>7 DEF queued, Authorized, Stands
  <2>9. Rests(p) \subseteq work.reads
    BY <2>1, <2>7 DEF Rests
  <2>. QED
    BY <1>3, <2>6, <2>8, <2>9 DEF IsFaithful, OnlyQueues, work, issued
<1>. QED
  BY <1>4, <1>5

(* Every handler is.                                                       *)
LEMMA WorkIsFaithful ==
  ASSUME JobsAreGiven, NEW p \in Handling, NEW s
  PROVE  IsFaithful(p, s, Work(p, s))
<1>1. JobOf(p).op \in Operation
  BY TransactionAssumption DEF JobsAreGiven
<1>. QED
  BY <1>1, IssueIsFaithful, SetPausedIsFaithful, GiveGrantIsFaithful,
     RevokeGrantIsFaithful, DisconnectIsFaithful, AcceptIsFaithful,
     PollIsFaithful, IngestIsFaithful, RevokeDeviceIsFaithful
     DEF Operation, Work

----------------------------------------------------------------------------
(* What holds of snapshots, commits and permissions.                       *)

(* The command was issued by a commit after the first n.                   *)
IssuedSince(i, n) ==
  \E m \in (n + 1)..Len(commits) :
    commits[m] = i /\ CommandRow(i) \in Written(i)

(* A handler works on a snapshot: what nobody changed since is as it was,  *)
(* and a command that is outstanding was so, or has been issued since.     *)
WorksOn(p, s) ==
  /\ IsFaithful(p, s, handlers[p].work)
  /\ \A row \in DOMAIN db : row \notin Newer(p) => db[row] = s[row]
  /\ \A i \in Command : db[CommandRow(i)] \in Out =>
       s[CommandRow(i)] \in Out \/ IssuedSince(i, handlers[p].began)

HandlersHaveSnapshots ==
  \A p \in Handling : IsOpen(p) => \E s : WorksOn(p, s)

(* The rows permissions rest on are never lost.                            *)
RowsAreThere ==
  \A q, r \in Person :
    {PolicyRow(q), DeviceRow(q), RelationshipRow(q, r), GrantRow(q, r)}
      \subseteq DOMAIN db

(* No command is outstanding without its permission, or there before it    *)
(* was issued.                                                             *)
CommandsStand ==
  \A i \in Command :
    /\ db[CommandRow(i)] \in Out => Stands(i, db)
    /\ i \notin Known => db[CommandRow(i)] = None

Issues(p) == JobOf(p).op = "ISSUE" /\ CommandRow(p) \in Written(p)

(* Since it began, somebody who withdrew its permission has looked for its *)
(* command.                                                                *)
IsOvertaken(p) ==
  \E n \in (handlers[p].began + 1)..Len(commits) :
    /\ CommandRow(p) \in handlers[commits[n]].work.reads
    /\ Rests(p) \cap Written(commits[n]) # {}

IssuersStand ==
  \A p \in Handling : IsOpen(p) /\ Issues(p) => Stands(p, db) \/ IsOvertaken(p)

(* A handler commits once, after it began; who issued a command had looked *)
(* at its whole permission.                                                *)
CommitsAreSound ==
  /\ \A m, n \in 1..Len(commits) : commits[m] = commits[n] => m = n
  /\ \A n \in 1..Len(commits) :
       /\ handlers[commits[n]].began \in 0..(n - 1)
       /\ Issues(commits[n]) =>
            Rests(commits[n]) \subseteq handlers[commits[n]].work.reads

PromiseInv ==
  /\ OverlapInv
  /\ HandlersHaveSnapshots
  /\ RowsAreThere
  /\ CommandsStand
  /\ IssuersStand
  /\ CommitsAreSound

(* Places in the order of the commits.                                     *)
LEMMA PlacesOfCommits ==
  ASSUME Structured, CommitsAreSound
  PROVE  /\ Len(commits) \in Nat /\ DOMAIN commits = 1..Len(commits)
         /\ \A n \in 1..Len(commits) :
              commits[n] \in Committed /\ Place(commits[n]) = n
         /\ \A p : p \notin Committed => Place(p) = Len(commits) + 1
<1>1. Len(commits) \in Nat /\ DOMAIN commits = 1..Len(commits)
  BY LenProperties DEF Structured
<1>2. ASSUME NEW n \in 1..Len(commits)
      PROVE  commits[n] \in Committed /\ Place(commits[n]) = n
  <2>1. commits[n] \in Committed
    BY <1>1 DEF Committed
  <2>2. \A m \in DOMAIN commits : commits[m] = commits[n] <=> m = n
    BY <1>1 DEF CommitsAreSound
  <2>. QED
    BY <1>1, <2>1, <2>2 DEF Place
<1>. QED
  BY <1>1, <1>2 DEF Place

(* Of two that overlapped and each wrote what the other had looked at, the *)
(* second cannot commit.                                                   *)
LEMMA MutualConflict ==
  ASSUME Structured, CommitsAreSound, NEW p \in Handling, IsOpen(p),
         NEW n \in (handlers[p].began + 1)..Len(commits),
         handlers[p].work.reads \cap Written(commits[n]) # {},
         handlers[commits[n]].work.reads \cap Written(p) # {}
  PROVE  IsDangerous(p)
<1>. DEFINE q == commits[n]
            last == Len(commits)
<1>1. /\ last \in Nat /\ handlers[p].began \in 0..last
      /\ n \in 1..last
  BY PlacesOfCommits DEF Structured
<1>2. /\ q \in Committed /\ Place(q) = n
      /\ handlers[q].began \in 0..(n - 1)
  BY <1>1, PlacesOfCommits DEF CommitsAreSound
<1>3. p \notin Committed
  BY <1>1, PlacesOfCommits DEF Structured, Committed, IsOpen
<1>4. Place(p) = last + 1
  BY <1>3, PlacesOfCommits
<1>5. ReadBefore(p, q) /\ ReadBefore(q, p)
  BY <1>1, <1>2, <1>4 DEF ReadBefore
<1>7. Written(q) # {}
  OBVIOUS
<1>. HIDE DEF q
<1>6. /\ q # p /\ Place(q) < Place(p) /\ Place(q) <= Place(q)
  BY <1>1, <1>2, <1>3, <1>4
<1>. QED
  BY <1>2, <1>5, <1>6, <1>7 DEF IsDangerous

(* The rows a command's permission rests on are there.                     *)
LEMMA RestsAreThere ==
  ASSUME JobsAreGiven, RowsAreThere, NEW i \in Command
  PROVE  Rests(i) \subseteq DOMAIN db
<1>1. Asked(i).actor \in Person /\ Asked(i).recipient \in Person
  BY PeopleAsk
<1>2. \A q, r : RelationshipRow(q, r) = RelationshipRow(r, q)
  <2>1. \A q, r : {q, r} = {r, q}
    OBVIOUS
  <2>. QED  BY <2>1 DEF RelationshipRow
<1>. QED
  BY <1>1, <1>2 DEF RowsAreThere, Rests

(* No step changes what handlers are asked for.                            *)
LEMMA JobsStay ==
  ASSUME JobsAreGiven, NEW p \in Handling, OnlyMoves(p)
  PROVE  /\ Handling' = Handling /\ JobsAreGiven'
         /\ \A q \in Handling : JobOf(q)' = JobOf(q)
         /\ Command' = Command
         /\ \A i \in Command :
              /\ Asked(i)' = Asked(i)
              /\ Rests(i)' = Rests(i)
              /\ \A s : Stands(i, s)' <=> Stands(i, s)
              /\ Stands(i, db)' <=> \A row \in Rests(i) : Serves(row, db'[row])
<1>1. Handling' = Handling /\ \A q \in Handling : JobOf(q)' = JobOf(q)
  BY DEF OnlyMoves, JobOf
<1>2. Command' = Command
  BY <1>1 DEF Command, Handling
<1>3. ASSUME NEW i \in Command PROVE Asked(i)' = Asked(i)
  <2>1. i \in Handling \/ i \in DOMAIN SeedCommand
    BY DEF Command, Handling
  <2>. QED
    BY <1>1, <2>1, TransactionAssumption DEF Asked
<1>4. ASSUME NEW i \in Command
      PROVE  /\ Rests(i)' = Rests(i)
             /\ \A s : Stands(i, s)' <=> Stands(i, s)
             /\ Stands(i, db)' <=> \A row \in Rests(i) : Serves(row, db'[row])
  <2>1. Rests(i)' = Rests(i) /\ \A s : Stands(i, s)' <=> Stands(i, s)
    BY <1>3 DEF Rests, Stands, KindOf
  <2>2. PICK s : s = db'
    OBVIOUS
  <2>3. Stands(i, db)' <=> Stands(i, s)
    BY <1>3, <2>2 DEF Stands, KindOf
  <2>. QED
    BY <2>1, <2>2, <2>3, StandsByRows
<1>. QED
  BY <1>1, <1>2, <1>3, <1>4 DEF JobsAreGiven

(* Faithful work stays faithful.                                           *)
LEMMA FaithStays ==
  ASSUME JobsAreGiven, NEW p \in Handling, OnlyMoves(p), NEW q \in Handling,
         NEW s, NEW work, IsFaithful(q, s, work), handlers'[q].work = work
  PROVE  IsFaithful(q, s, handlers[q].work)'
<1>1. JobOf(q)' = JobOf(q) /\ Command' = Command
  BY JobsStay
<1>2. \A i \in Command : Rests(i)' = Rests(i) /\ (Stands(i, s)' <=> Stands(i, s))
  BY JobsStay
<1>3. JobOf(q).op = "ISSUE" => q \in Command
  BY DEF Command, Handling
<1>4. JobOf(q).op = "ISSUE" => OnlyQueues(q, s, handlers[q].work)'
  BY <1>1, <1>2, <1>3 DEF IsFaithful, OnlyQueues
<1>5. JobOf(q).op # "ISSUE" => OnlyEnds(s, handlers[q].work)'
  BY <1>1 DEF IsFaithful, OnlyEnds
<1>6. WithdrawsOpenly(s, handlers[q].work)'
  BY <1>1, <1>2 DEF IsFaithful, WithdrawsOpenly
<1>. QED
  BY <1>1, <1>4, <1>5, <1>6 DEF IsFaithful

(* What was issued stays issued.                                           *)
LEMMA IssuedStays ==
  ASSUME PromiseInv, NEW p \in Handling, OnlyMoves(p), Same \/ Commits(p),
         handlers[p].phase # "COMMITTED",
         NEW i, NEW n \in Nat, IssuedSince(i, n)
  PROVE  IssuedSince(i, n)'
<1>1. /\ Structured /\ Len(commits) \in Nat
      /\ \A m \in 1..Len(commits) : commits[m] \in Handling /\ commits[m] # p
  BY LenProperties DEF PromiseInv, OverlapInv, Structured
<1>2. /\ Len(commits') \in Nat /\ Len(commits') >= Len(commits)
      /\ \A m \in 1..Len(commits) : commits'[m] = commits[m]
  <2>1. CASE Same
    BY <1>1, <2>1 DEF Same
  <2>2. CASE Commits(p)
    BY <1>1, <2>2, CommitAppends
  <2>. QED  BY <2>1, <2>2
<1>3. PICK m \in (n + 1)..Len(commits) : commits[m] = i /\ CommandRow(i) \in Written(i)
  BY DEF IssuedSince
<1>4. m \in 1..Len(commits) /\ m \in (n + 1)..Len(commits')
  BY <1>1, <1>2
<1>5. Written(i)' = Written(i)
  BY <1>1, <1>3, <1>4, OthersStay
<1>. QED
  BY <1>2, <1>3, <1>4, <1>5 DEF IssuedSince

(* A handler that commits acts on the snapshot it took: what it writes was *)
(* so until now.                                                           *)
LEMMA CommitActs ==
  ASSUME PromiseInv, NEW p \in Handling, Commits(p)
  PROVE  \E s : /\ WorksOn(p, s)
                /\ \A row \in DOMAIN db \cap Written(p) : db[row] = s[row]
<1>1. PICK s : WorksOn(p, s)
  BY DEF PromiseInv, HandlersHaveSnapshots, Commits
<1>2. \A row \in Written(p) : row \notin Newer(p)
  BY DEF Commits
<1>. QED
  BY <1>1, <1>2 DEF WorksOn

(* Who issues a command looks at its whole permission.                     *)
LEMMA IssuersLook ==
  ASSUME PromiseInv, NEW n \in 1..Len(commits), NEW i \in Command,
         commits[n] = i, CommandRow(i) \in Written(i)
  PROVE  Rests(i) \subseteq handlers[i].work.reads
<1>1. i \in Handling /\ Handling \subseteq Process
  BY LenProperties DEF PromiseInv, OverlapInv, Structured, JobsAreGiven
<1>2. Issues(i)
  BY <1>1, TransactionAssumption DEF Command, Issues, Handling
<1>. QED
  BY <1>2 DEF PromiseInv, CommitsAreSound

(* Who withdraws a permission finds every command that rests on it: one    *)
(* issued behind its back has looked at what it writes.                    *)
LEMMA WithdrawalsFind ==
  ASSUME PromiseInv, NEW p \in Handling, Commits(p), NEW i \in Command,
         Stands(i, db), NEW row \in Rests(i), ~Serves(row, db'[row])
  PROVE  /\ row \in Written(p)
         /\ CommandRow(i) \in handlers[p].work.reads
         /\ db[CommandRow(i)] \in Out =>
              /\ CommandRow(i) \in Written(p)
              /\ handlers[p].work.writes[CommandRow(i)] \in Over
<1>0. Structured /\ JobsAreGiven
  BY DEF PromiseInv, OverlapInv, Structured
<1>1. PICK s : /\ WorksOn(p, s)
               /\ \A r \in DOMAIN db \cap Written(p) : db[r] = s[r]
  BY CommitActs
<1>2. Rests(i) \subseteq DOMAIN db
  BY <1>0, RestsAreThere DEF PromiseInv
<1>3. \A r \in Rests(i) : Serves(r, db[r])
  BY StandsByRows
<1>4. row \in Written(p) /\ db'[row] = handlers[p].work.writes[row]
  BY <1>2, <1>3, CommitWrites
<1>5. ~(\E bond \in Rests(i) \cap Written(p) : ~Serves(bond, s[bond]))
  BY <1>1, <1>2, <1>3
<1>6. /\ CommandRow(i) \in handlers[p].work.reads
      /\ s[CommandRow(i)] \in Out =>
           /\ CommandRow(i) \in Written(p)
           /\ handlers[p].work.writes[CommandRow(i)] \in Over
  BY <1>1, <1>4, <1>5 DEF WorksOn, IsFaithful, WithdrawsOpenly, Written
<1>7. ~IssuedSince(i, handlers[p].began)
  <2>. SUFFICES ASSUME IssuedSince(i, handlers[p].began) PROVE FALSE
    OBVIOUS
  <2>1. PICK n \in (handlers[p].began + 1)..Len(commits) :
          commits[n] = i /\ CommandRow(i) \in Written(i)
    BY DEF IssuedSince
  <2>2. IsOpen(p) /\ handlers[p].began \in 0..Len(commits) /\ Len(commits) \in Nat
    BY <1>0, LenProperties DEF Commits, Structured
  <2>3. n \in 1..Len(commits)
    BY <2>2
  <2>4. Rests(i) \subseteq handlers[i].work.reads
    BY <2>1, <2>3, IssuersLook
  <2>5. /\ handlers[p].work.reads \cap Written(commits[n]) # {}
        /\ handlers[commits[n]].work.reads \cap Written(p) # {}
    BY <1>4, <1>6, <2>1, <2>4
  <2>6. IsDangerous(p)
    BY <1>0, <2>2, <2>5, MutualConflict DEF PromiseInv
  <2>. QED
    BY <2>6 DEF Commits
<1>. QED
  BY <1>1, <1>4, <1>6, <1>7 DEF WorksOn

(* Who issues a command that it may commit was not overtaken.              *)
LEMMA IssuersAreInTime ==
  ASSUME PromiseInv, NEW p \in Handling, Commits(p), Issues(p)
  PROVE  Stands(p, db)
<1>0. Structured /\ IsOpen(p)
  BY DEF PromiseInv, OverlapInv, Commits
<1>1. PICK s : WorksOn(p, s)
  BY CommitActs
<1>2. Rests(p) \subseteq handlers[p].work.reads
  BY <1>1 DEF WorksOn, IsFaithful, OnlyQueues, Issues, Written
<1>3. ASSUME IsOvertaken(p) PROVE FALSE
  <2>1. PICK n \in (handlers[p].began + 1)..Len(commits) :
          /\ CommandRow(p) \in handlers[commits[n]].work.reads
          /\ Rests(p) \cap Written(commits[n]) # {}
    BY <1>3 DEF IsOvertaken
  <2>2. /\ handlers[p].work.reads \cap Written(commits[n]) # {}
        /\ handlers[commits[n]].work.reads \cap Written(p) # {}
    BY <1>2, <2>1 DEF Issues
  <2>3. IsDangerous(p)
    BY <1>0, <2>2, MutualConflict DEF PromiseInv
  <2>. QED
    BY <2>3 DEF Commits
<1>. QED
  BY <1>0, <1>3 DEF PromiseInv, IssuersStand

(* What an issuance leaves as it was.                                      *)
LEMMA IssuanceLeavesConsent ==
  ASSUME PromiseInv, NEW p \in Handling, Commits(p), JobOf(p).op = "ISSUE"
  PROVE  /\ \A row \in DOMAIN db : row[1] \in ConsentTables => db'[row] = db[row]
         /\ \A i \in Names : i # p => db'[CommandRow(i)] = db[CommandRow(i)]
         /\ CommandRow(p) \in Written(p) => db'[CommandRow(p)] = "QUEUED"
         /\ CommandRow(p) \notin Written(p) =>
              db'[CommandRow(p)] = db[CommandRow(p)]
<1>1. PICK s : WorksOn(p, s)
  BY CommitActs
<1>2. /\ \A i : CommandRow(i) \in Written(p) => i = p
      /\ \A row \in Written(p) : row[1] \notin ConsentTables
      /\ CommandRow(p) \in Written(p) =>
           handlers[p].work.writes[CommandRow(p)] = "QUEUED"
  BY <1>1 DEF WorksOn, IsFaithful, OnlyQueues, Written
<1>3. p \in Names /\ \A i \in Names : CommandRow(i) \in DOMAIN db
  BY OwnIsUnknown DEF PromiseInv, OverlapInv, CommandsAreKnown, Commits, IsOpen
<1>. QED
  BY <1>2, <1>3, CommitWrites

(* What the others do to commands.                                         *)
LEMMA OthersEnd ==
  ASSUME PromiseInv, NEW p \in Handling, Commits(p), JobOf(p).op # "ISSUE",
         NEW i \in Command
  PROVE  \/ db'[CommandRow(i)] = db[CommandRow(i)] /\ CommandRow(i) \notin Written(p)
         \/ /\ CommandRow(i) \in Written(p)
            /\ db[CommandRow(i)] \in Out /\ db'[CommandRow(i)] \in Over
         \/ /\ CommandRow(i) \in Written(p)
            /\ db[CommandRow(i)] = "QUEUED" /\ db'[CommandRow(i)] = "DISPATCHED"
            /\ Written(p) = {CommandRow(i)}
<1>1. PICK s : /\ WorksOn(p, s)
               /\ \A r \in DOMAIN db \cap Written(p) : db[r] = s[r]
  BY CommitActs
<1>2. CommandRow(i) \in DOMAIN db
  BY CommandsHaveNames DEF PromiseInv, OverlapInv, Structured, CommandsAreKnown
<1>3. CASE CommandRow(i) \notin Written(p)
  BY <1>2, <1>3, CommitWrites
<1>4. CASE CommandRow(i) \in Written(p)
  <2>1. db'[CommandRow(i)] = handlers[p].work.writes[CommandRow(i)]
    BY <1>2, <1>4, CommitWrites
  <2>2. db[CommandRow(i)] = s[CommandRow(i)]
    BY <1>1, <1>2, <1>4
  <2>. QED
    BY <1>1, <1>4, <2>1, <2>2 DEF WorksOn, IsFaithful, OnlyEnds, Written
<1>. QED
  BY <1>3, <1>4

(* Handing a command out withdraws nothing.                                *)
LEMMA HandingOutLeavesConsent ==
  ASSUME NEW p \in Handling, Commits(p), NEW i, Written(p) = {CommandRow(i)},
         NEW row \in DOMAIN db, row[1] \in ConsentTables
  PROVE  db'[row] = db[row]
<1>1. row \notin Written(p)
  BY TablesOfRows DEF ConsentTables
<1>. QED
  BY <1>1, CommitWrites

(* Snapshots stay what they are: what a commit changes is newer than them, *)
(* and a command they miss is one that a later commit issued.              *)
LEMMA SnapshotsStay ==
  ASSUME PromiseInv, NEW p \in Handling,
         Opens(p) \/ Takes(p) \/ GivesUp(p) \/ Commits(p)
  PROVE  HandlersHaveSnapshots'
<1>0. /\ OverlapInv /\ Structured /\ JobsAreGiven
      /\ OnlyMoves(p) /\ Handling' = Handling /\ Command' = Command
      /\ handlers[p].phase # "COMMITTED"
      /\ Same \/ Commits(p)
  BY JobsStay DEF PromiseInv, OverlapInv, Structured, Opens, Takes, GivesUp,
     Commits, OnlyMoves, IsOpen
<1>. SUFFICES ASSUME NEW q \in Handling, IsOpen(q)'
              PROVE  \E s : WorksOn(q, s)'
  BY <1>0 DEF HandlersHaveSnapshots
<1>1. CASE q = p /\ Opens(p)
  <2>1. PICK s : s = db
    OBVIOUS
  <2>2. PICK work : work = Work(p, s)
    OBVIOUS
  <2>3. handlers'[p].work = work /\ db' = s
    BY <1>1, <2>1, <2>2 DEF Opens, Same
  <2>4. IsFaithful(p, s, handlers[p].work)'
    <3>1. IsFaithful(p, s, work)
      BY <1>0, <2>2, WorkIsFaithful
    <3>. QED
      BY <1>0, <2>3, <3>1, FaithStays
  <2>. QED
    BY <1>1, <2>3, <2>4 DEF WorksOn
<1>2. CASE q # p \/ Takes(p)
  <2>1. /\ IsOpen(q) /\ handlers'[q].work = handlers[q].work
        /\ handlers'[q].began = handlers[q].began
        /\ handlers[q].began \in Nat
    BY <1>0, <1>2 DEF OnlyMoves, IsOpen, Takes, Structured
  <2>2. PICK s : WorksOn(q, s)
    BY <2>1 DEF PromiseInv, HandlersHaveSnapshots
  <2>3. IsFaithful(q, s, handlers[q].work)'
    <3>1. PICK work : work = handlers[q].work
      OBVIOUS
    <3>2. IsFaithful(q, s, work)
      BY <2>2, <3>1 DEF WorksOn
    <3>. QED
      BY <1>0, <2>1, <3>1, <3>2, FaithStays
  <2>4. ASSUME NEW row \in DOMAIN db', row \notin Newer(q)'
        PROVE  db'[row] = s[row]
    <3>1. CASE Same
      <4>1. Newer(q)' = Newer(q) /\ db' = db
        BY <1>0, <2>1, <3>1, NothingNewer DEF Same
      <4>. QED
        BY <2>2, <2>4, <4>1 DEF WorksOn
    <3>2. CASE Commits(p)
      <4>1. q # p
        BY <1>2, <3>2 DEF Takes, Commits
      <4>2. row \notin Newer(q) /\ row \notin Written(p)
        BY <1>0, <2>1, <2>4, <3>2, <4>1, CommitMakesNewer
      <4>3. row \in DOMAIN db
        BY <2>4, <3>2, <4>2 DEF Commits, Written, @@
      <4>. QED
        BY <2>2, <3>2, <4>2, <4>3, CommitWrites DEF WorksOn
    <3>. QED
      BY <1>0, <3>1, <3>2
  <2>5. ASSUME NEW i \in Command, db'[CommandRow(i)] \in Out
        PROVE  s[CommandRow(i)] \in Out \/ IssuedSince(i, handlers[q].began)'
    <3>1. ASSUME db[CommandRow(i)] \in Out
          PROVE  s[CommandRow(i)] \in Out \/ IssuedSince(i, handlers[q].began)'
      <4>1. PICK n : n = handlers[q].began
        OBVIOUS
      <4>2. s[CommandRow(i)] \in Out \/ IssuedSince(i, n)
        BY <2>2, <3>1, <4>1 DEF WorksOn
      <4>3. IssuedSince(i, n) => IssuedSince(i, n)'
        BY <1>0, <2>1, <4>1, IssuedStays
      <4>. QED
        BY <2>1, <4>1, <4>2, <4>3 DEF IssuedSince
    <3>2. CASE Same
      BY <2>5, <3>1, <3>2 DEF Same
    <3>3. CASE Commits(p) /\ JobOf(p).op # "ISSUE"
      <4>1. db[CommandRow(i)] \in Out
        BY <2>5, <3>3, OthersEnd DEF Out, Over
      <4>. QED
        BY <3>1, <4>1
    <3>4. CASE Commits(p) /\ JobOf(p).op = "ISSUE"
      <4>1. CASE i = p /\ CommandRow(p) \in Written(p)
        <5>1. /\ Len(commits) \in Nat /\ handlers[q].began \in 0..Len(commits)
              /\ Len(commits') = Len(commits) + 1
              /\ commits'[Len(commits) + 1] = p
          BY <1>0, <2>1, <3>4, CommitAppends DEF Structured
        <5>2. Written(p)' = Written(p)
          BY <3>4 DEF Commits, Written
        <5>3. Len(commits) + 1 \in (handlers'[q].began + 1)..Len(commits')
          BY <2>1, <5>1
        <5>. QED
          BY <4>1, <5>1, <5>2, <5>3 DEF IssuedSince
      <4>2. CASE ~(i = p /\ CommandRow(p) \in Written(p))
        <5>1. i \in Names
          BY <1>0, CommandsHaveNames
        <5>2. db'[CommandRow(i)] = db[CommandRow(i)]
          BY <3>4, <4>2, <5>1, IssuanceLeavesConsent
        <5>. QED
          BY <2>5, <3>1, <5>2
      <4>. QED  BY <4>1, <4>2
    <3>. QED
      BY <1>0, <3>2, <3>3, <3>4
  <2>. QED
    BY <1>0, <2>3, <2>4, <2>5 DEF WorksOn
<1>3. CASE q = p /\ (GivesUp(p) \/ Commits(p))
  BY <1>3 DEF GivesUp, Commits, IsOpen
<1>. QED
  BY <1>1, <1>2, <1>3

(* No row is ever lost.                                                    *)
LEMMA RowsStay ==
  ASSUME RowsAreThere, NEW p \in Handling, Same \/ Commits(p)
  PROVE  RowsAreThere'
<1>1. DOMAIN db \subseteq DOMAIN db'
  <2>1. CASE Same
    BY <2>1 DEF Same
  <2>2. CASE Commits(p)
    BY <2>2, CommitWrites
  <2>. QED  BY <2>1, <2>2
<1>. QED
  BY <1>1 DEF RowsAreThere

(* A commit leaves no command outstanding without its permission: who      *)
(* withdraws one finds the command, and who issues one was not overtaken.  *)
LEMMA CommandsKeepStanding ==
  ASSUME PromiseInv, NEW p \in Handling,
         Opens(p) \/ Takes(p) \/ GivesUp(p) \/ Commits(p)
  PROVE  CommandsStand'
<1>0. /\ OverlapInv /\ Structured /\ JobsAreGiven
      /\ OnlyMoves(p) /\ Command' = Command
      /\ handlers[p].phase # "COMMITTED"
      /\ Same \/ Commits(p)
  BY JobsStay DEF PromiseInv, OverlapInv, Structured, Opens, Takes, GivesUp,
     Commits, OnlyMoves, IsOpen
<1>. SUFFICES ASSUME NEW i \in Command
              PROVE  /\ db'[CommandRow(i)] \in Out => Stands(i, db)'
                     /\ i \notin Known' => db'[CommandRow(i)] = None
  BY <1>0 DEF CommandsStand
<1>1. Stands(i, db)' <=> \A row \in Rests(i) : Serves(row, db'[row])
  BY <1>0, JobsStay
<1>2. Stands(i, db) <=> \A row \in Rests(i) : Serves(row, db[row])
  BY StandsByRows
<1>3. i \in Names /\ CommandRow(i) \in DOMAIN db
  BY <1>0, CommandsHaveNames DEF OverlapInv, CommandsAreKnown
<1>4. /\ db[CommandRow(i)] \in Out => Stands(i, db)
      /\ i \notin Known => db[CommandRow(i)] = None
  BY DEF PromiseInv, CommandsStand
<1>5. CASE Same
  <2>1. db' = db /\ Known' = Known
    BY <1>5 DEF Same, Known, Committed
  <2>. QED
    BY <1>1, <1>2, <1>4, <2>1
<1>6. CASE Commits(p)
  <2>1. i \notin Known' => db'[CommandRow(i)] = None
    <3>1. Known' = Known \cup {p}
      BY <1>0, <1>6, CommitMakesNewer DEF Known
    <3>2. i \notin Known' => CommandRow(i) \notin Written(p)
      BY <1>3, <1>6, <3>1 DEF OverlapInv, WritersLock, Commits, PromiseInv
    <3>. QED
      BY <1>3, <1>4, <1>6, <3>1, <3>2, CommitWrites
  <2>2. ASSUME db'[CommandRow(i)] \in Out PROVE Stands(i, db)'
    <3>1. \A row \in Rests(i) : row[1] \in ConsentTables /\ row \in DOMAIN db
      BY <1>0, RestsOnConsent, RestsAreThere DEF PromiseInv
    <3>2. CASE JobOf(p).op = "ISSUE"
      <4>1. \A row \in Rests(i) : db'[row] = db[row]
        BY <1>6, <3>1, <3>2, IssuanceLeavesConsent
      <4>2. CASE i = p /\ CommandRow(p) \in Written(p)
        <5>1. Stands(p, db)
          BY <1>6, <3>2, <4>2, IssuersAreInTime DEF Issues
        <5>. QED
          BY <1>1, <1>2, <4>1, <4>2, <5>1
      <4>3. CASE ~(i = p /\ CommandRow(p) \in Written(p))
        <5>1. db'[CommandRow(i)] = db[CommandRow(i)]
          BY <1>3, <1>6, <3>2, <4>3, IssuanceLeavesConsent
        <5>. QED
          BY <1>1, <1>2, <1>4, <2>2, <4>1, <5>1
      <4>. QED  BY <4>2, <4>3
    <3>3. CASE JobOf(p).op # "ISSUE"
      <4>1. /\ db[CommandRow(i)] \in Out
            /\ \/ CommandRow(i) \notin Written(p)
               \/ Written(p) = {CommandRow(i)}
        BY <1>6, <2>2, <3>3, OthersEnd DEF Out, Over
      <4>2. Stands(i, db)
        BY <1>4, <4>1
      <4>3. ASSUME NEW row \in Rests(i) PROVE Serves(row, db'[row])
        <5>1. CASE Written(p) = {CommandRow(i)}
          <6>1. db'[row] = db[row]
            BY <1>6, <3>1, <5>1, HandingOutLeavesConsent
          <6>. QED
            BY <1>2, <4>2, <6>1
        <5>2. CASE CommandRow(i) \notin Written(p)
          BY <1>6, <4>1, <4>2, <5>2, WithdrawalsFind
        <5>. QED
          BY <4>1, <5>1, <5>2
      <4>. QED
        BY <1>1, <4>3
    <3>. QED  BY <3>2, <3>3
  <2>. QED
    BY <2>1, <2>2
<1>. QED
  BY <1>0, <1>5, <1>6

(* Who takes the permission of a command under way to its queue has looked *)
(* for the command.                                                        *)
LEMMA IssuersKeepStanding ==
  ASSUME PromiseInv, NEW p \in Handling,
         Opens(p) \/ Takes(p) \/ GivesUp(p) \/ Commits(p)
  PROVE  IssuersStand'
<1>0. /\ OverlapInv /\ Structured /\ JobsAreGiven
      /\ OnlyMoves(p) /\ Handling' = Handling
      /\ handlers[p].phase # "COMMITTED"
      /\ Same \/ Commits(p)
  BY JobsStay DEF PromiseInv, OverlapInv, Structured, Opens, Takes, GivesUp,
     Commits, OnlyMoves, IsOpen
<1>. SUFFICES ASSUME NEW q \in Handling, IsOpen(q)', Issues(q)'
              PROVE  Stands(q, db)' \/ IsOvertaken(q)'
  BY <1>0 DEF IssuersStand
<1>1. JobOf(q)' = JobOf(q) /\ JobOf(q).op = "ISSUE" /\ q \in Command
  BY <1>0, JobsStay DEF Issues, Command, Handling
<1>2. /\ Rests(q)' = Rests(q)
      /\ Stands(q, db)' <=> \A row \in Rests(q) : Serves(row, db'[row])
      /\ Stands(q, db) <=> \A row \in Rests(q) : Serves(row, db[row])
  BY <1>0, <1>1, JobsStay, StandsByRows
<1>3. CASE q = p /\ Opens(p)
  <2>1. OnlyQueues(p, db, Work(p, db))
    BY <1>0, <1>1, <1>3, WorkIsFaithful DEF IsFaithful
  <2>2. CommandRow(p) \in DOMAIN Work(p, db).writes
    BY <1>3 DEF Opens, Issues, Written
  <2>3. Stands(p, db) /\ db' = db
    BY <1>3, <2>1, <2>2 DEF OnlyQueues, Opens, Same
  <2>. QED
    BY <1>2, <1>3, <2>3
<1>4. CASE q # p \/ Takes(p)
  <2>1. /\ IsOpen(q) /\ handlers'[q].work = handlers[q].work
        /\ handlers'[q].began = handlers[q].began
        /\ handlers[q].began \in 0..Len(commits) /\ Len(commits) \in Nat
    BY <1>0, <1>4, LenProperties DEF OnlyMoves, IsOpen, Takes, Structured
  <2>2. Issues(q)
    BY <1>1, <2>1 DEF Issues, Written
  <2>3. \/ Stands(q, db)
        \/ \E n \in (handlers[q].began + 1)..Len(commits) :
             /\ CommandRow(q) \in handlers[commits[n]].work.reads
             /\ Rests(q) \cap Written(commits[n]) # {}
    BY <2>1, <2>2 DEF PromiseInv, IssuersStand, IsOvertaken
  <2>4. \A n \in 1..Len(commits) :
          commits[n] \in Handling /\ commits[n] # p
          /\ handlers'[commits[n]] = handlers[commits[n]]
    BY <1>0 DEF Structured, OnlyMoves
  <2>5. CASE Same
    <3>1. commits' = commits /\ db' = db
      BY <2>5 DEF Same
    <3>. QED
      BY <1>2, <2>1, <2>3, <2>4, <3>1 DEF IsOvertaken, Written
  <2>6. CASE Commits(p)
    <3>1. /\ Len(commits') = Len(commits) + 1
          /\ commits'[Len(commits) + 1] = p
          /\ \A n \in 1..Len(commits) : commits'[n] = commits[n]
          /\ handlers'[p].work = handlers[p].work
      BY <1>0, <2>6, CommitAppends DEF Commits
    <3>2. CASE \E n \in (handlers[q].began + 1)..Len(commits) :
                 /\ CommandRow(q) \in handlers[commits[n]].work.reads
                 /\ Rests(q) \cap Written(commits[n]) # {}
      <4>1. PICK n \in (handlers[q].began + 1)..Len(commits) :
                 /\ CommandRow(q) \in handlers[commits[n]].work.reads
                 /\ Rests(q) \cap Written(commits[n]) # {}
        BY <3>2
      <4>2. n \in 1..Len(commits) /\ n \in (handlers'[q].began + 1)..Len(commits')
        BY <2>1, <3>1
      <4>. QED
        BY <1>2, <2>4, <3>1, <4>1, <4>2 DEF IsOvertaken, Written
    <3>3. CASE Stands(q, db)
      <4>1. CASE \A row \in Rests(q) : Serves(row, db'[row])
        BY <1>2, <4>1
      <4>2. ASSUME NEW row \in Rests(q), ~Serves(row, db'[row])
            PROVE  IsOvertaken(q)'
        <5>1. row \in Written(p) /\ CommandRow(q) \in handlers[p].work.reads
          BY <1>1, <2>6, <3>3, <4>2, WithdrawalsFind
        <5>2. Len(commits) + 1 \in (handlers'[q].began + 1)..Len(commits')
          BY <2>1, <3>1
        <5>3. row \in Rests(q)' \cap Written(p)'
          BY <1>2, <3>1, <5>1 DEF Written
        <5>. QED
          BY <3>1, <5>1, <5>2, <5>3 DEF IsOvertaken
      <4>. QED
        BY <4>1, <4>2
    <3>. QED
      BY <2>3, <3>2, <3>3
  <2>. QED
    BY <1>0, <2>5, <2>6
<1>5. CASE q = p /\ (GivesUp(p) \/ Commits(p))
  BY <1>5 DEF GivesUp, Commits, IsOpen
<1>. QED
  BY <1>3, <1>4, <1>5

(* Commits stay in their order.                                            *)
LEMMA CommitsStaySound ==
  ASSUME PromiseInv, NEW p \in Handling,
         Opens(p) \/ Takes(p) \/ GivesUp(p) \/ Commits(p)
  PROVE  CommitsAreSound'
<1>0. /\ Structured /\ JobsAreGiven
      /\ OnlyMoves(p) /\ Handling' = Handling
      /\ handlers[p].phase # "COMMITTED"
      /\ Same \/ Commits(p)
      /\ Len(commits) \in Nat
  BY JobsStay, LenProperties DEF PromiseInv, OverlapInv, Structured, Opens, Takes,
     GivesUp, Commits, OnlyMoves, IsOpen
<1>1. \A n \in 1..Len(commits) :
        /\ commits[n] \in Handling /\ commits[n] # p
        /\ handlers'[commits[n]] = handlers[commits[n]]
  BY <1>0 DEF Structured, OnlyMoves
<1>2. ASSUME NEW q \in Handling, handlers'[q].work = handlers[q].work, Issues(q)'
      PROVE  Issues(q) /\ Rests(q)' = Rests(q)
  <2>1. JobOf(q)' = JobOf(q)
    BY <1>0, JobsStay
  <2>2. Issues(q)
    BY <1>2, <2>1 DEF Issues, Written
  <2>3. q \in Command
    BY <2>2 DEF Issues, Command, Handling
  <2>. QED
    BY <1>0, <2>2, <2>3, JobsStay
<1>3. ASSUME NEW n, NEW q \in Handling, commits'[n] = q,
             handlers'[q].work = handlers[q].work,
             handlers'[q].began = handlers[q].began,
             handlers[q].began \in 0..(n - 1),
             Issues(q) => Rests(q) \subseteq handlers[q].work.reads
      PROVE  /\ handlers'[commits'[n]].began \in 0..(n - 1)
             /\ Issues(commits[n])' =>
                  Rests(commits[n])' \subseteq handlers'[commits'[n]].work.reads
  <2>1. Issues(q)' => Rests(q)' \subseteq handlers'[q].work.reads
    BY <1>2, <1>3
  <2>2. (Issues(commits[n])' <=> Issues(q)') /\ Rests(commits[n])' = Rests(q)'
    BY <1>3 DEF Issues, JobOf, Written, Rests, Asked
  <2>. QED
    BY <1>3, <2>1, <2>2
<1>4. ASSUME NEW n \in 1..Len(commits), commits'[n] = commits[n]
      PROVE  /\ handlers'[commits'[n]].began \in 0..(n - 1)
             /\ Issues(commits[n])' =>
                  Rests(commits[n])' \subseteq handlers'[commits'[n]].work.reads
  <2>1. PICK q \in Handling : q = commits[n]
    BY <1>1
  <2>2. /\ handlers[q].began \in 0..(n - 1)
        /\ Issues(q) => Rests(q) \subseteq handlers[q].work.reads
    BY <2>1 DEF PromiseInv, CommitsAreSound
  <2>3. commits'[n] = q /\ handlers'[q] = handlers[q]
    BY <1>1, <1>4, <2>1
  <2>. QED
    BY <1>3, <2>2, <2>3
<1>5. CASE Same
  <2>1. commits' = commits
    BY <1>5 DEF Same
  <2>. QED
    BY <1>4, <2>1 DEF PromiseInv, CommitsAreSound
<1>6. CASE Commits(p)
  <2>1. PICK last : last = Len(commits) + 1
    OBVIOUS
  <2>2. /\ Len(commits') = last /\ commits'[last] = p
        /\ \A n \in 1..Len(commits) : commits'[n] = commits[n]
    BY <1>0, <1>6, <2>1, CommitAppends
  <2>3. \A n \in 1..last : n \in 1..Len(commits) \/ n = last
    BY <1>0, <2>1
  <2>4. \A m, n \in 1..last : commits'[m] = commits'[n] => m = n
    BY <1>1, <2>2, <2>3 DEF PromiseInv, CommitsAreSound
  <2>5. /\ handlers'[p].work = handlers[p].work
        /\ handlers'[p].began = handlers[p].began
        /\ handlers[p].began \in 0..(last - 1)
    BY <1>0, <1>6, <2>1 DEF Commits, Structured
  <2>6. Issues(p) => Rests(p) \subseteq handlers[p].work.reads
    <3>1. PICK s : WorksOn(p, s)
      BY <1>6, CommitActs
    <3>. QED
      BY <3>1 DEF WorksOn, IsFaithful, OnlyQueues, Issues, Written
  <2>7. ASSUME NEW n \in 1..last
        PROVE  /\ handlers'[commits'[n]].began \in 0..(n - 1)
               /\ Issues(commits[n])' =>
                    Rests(commits[n])' \subseteq handlers'[commits'[n]].work.reads
    <3>1. CASE n \in 1..Len(commits)
      BY <1>4, <2>2, <3>1
    <3>2. CASE n = last
      BY <1>3, <2>2, <2>5, <2>6, <3>2
    <3>. QED
      BY <2>3, <3>1, <3>2
  <2>. QED
    BY <2>2, <2>4, <2>7 DEF CommitsAreSound
<1>. QED
  BY <1>0, <1>5, <1>6

(* Before anybody has begun, what is outstanding was seeded.               *)
LEMMA PromiseInit == Init => PromiseInv
<1>. SUFFICES ASSUME Init PROVE PromiseInv
  OBVIOUS
<1>1. OverlapInv /\ Handling \subseteq Process
  BY OverlapInit DEF OverlapInv, Structured, JobsAreGiven
<1>2. db \in SeedRows /\ commits = << >>
  BY DEF Init
<1>3. \A p \in Handling : ~IsOpen(p)
  BY DEF Init, Handling, IsOpen
<1>4. RowsAreThere
  BY <1>2, SeedAssumption, PlacesOfRows DEF RowsAreThere
<1>5. ASSUME NEW i \in Command
      PROVE  /\ db[CommandRow(i)] \in Out => Stands(i, db)
             /\ i \notin Known => db[CommandRow(i)] = None
  <2>1. CASE i \in Process
    <3>1. db[CommandRow(i)] = None
      BY <1>2, <2>1, SeedAssumption
    <3>. QED
      BY <3>1, TransactionAssumption DEF Out, Status
  <2>2. CASE i \notin Process
    <3>1. i \in DOMAIN SeedCommand
      BY <1>1, <2>2 DEF Command, Handling
    <3>. QED
      BY <1>2, <2>2, <3>1, SeedAssumption DEF Known, Out, Stands, Asked, KindOf
  <2>. QED  BY <2>1, <2>2
<1>6. Len(commits) = 0
  BY <1>2
<1>7. CommitsAreSound
  BY <1>6 DEF CommitsAreSound
<1>. QED
  BY <1>1, <1>3, <1>4, <1>5, <1>7
     DEF PromiseInv, HandlersHaveSnapshots, CommandsStand, IssuersStand

(* Every step keeps what overlapping handlers know of each other.          *)
LEMMA PromiseStep == PromiseInv /\ [Next]_vars => PromiseInv'
<1>. SUFFICES ASSUME PromiseInv, [Next]_vars PROVE PromiseInv'
  OBVIOUS
<1>1. OverlapInv'
  BY OverlapStep DEF PromiseInv
<1>2. CASE Next
  <2>1. PICK p \in Handling : Opens(p) \/ Takes(p) \/ GivesUp(p) \/ Commits(p)
    BY <1>2, StepsAreOfFourKinds DEF PromiseInv, OverlapInv
  <2>2. HandlersHaveSnapshots'
    BY <2>1, SnapshotsStay
  <2>3. RowsAreThere'
    BY <2>1, RowsStay DEF PromiseInv, Opens, Takes, GivesUp
  <2>4. CommandsStand'
    BY <2>1, CommandsKeepStanding
  <2>5. IssuersStand'
    BY <2>1, IssuersKeepStanding
  <2>6. CommitsAreSound'
    BY <2>1, CommitsStaySound
  <2>. QED
    BY <1>1, <2>2, <2>3, <2>4, <2>5, <2>6 DEF PromiseInv
<1>3. CASE UNCHANGED vars
  <2>1. /\ db' = db /\ commits' = commits /\ handlers' = handlers
        /\ Handling' = Handling /\ Known' = Known /\ Command' = Command
    BY <1>3 DEF vars, Handling, Known, Committed, Command, JobOf
  <2>2. \A p : /\ JobOf(p)' = JobOf(p) /\ (IsOpen(p)' <=> IsOpen(p))
               /\ Asked(p)' = Asked(p)
               /\ Written(p)' = Written(p) /\ Newer(p)' = Newer(p)
    BY <2>1 DEF JobOf, IsOpen, Written, Newer, Asked
  <2>3. \A i : /\ Rests(i)' = Rests(i)
               /\ (Stands(i, db)' <=> Stands(i, db))
               /\ \A s : Stands(i, s)' <=> Stands(i, s)
    BY <2>1, <2>2 DEF Rests, Stands, KindOf
  <2>4. \A p, s : IsFaithful(p, s, handlers[p].work)' <=>
                    IsFaithful(p, s, handlers[p].work)
    BY <2>1, <2>2, <2>3 DEF IsFaithful, OnlyQueues, OnlyEnds, WithdrawsOpenly
  <2>5. \A p, s : WorksOn(p, s)' <=> WorksOn(p, s)
    BY <2>1, <2>2, <2>4 DEF WorksOn, IssuedSince
  <2>6. HandlersHaveSnapshots' /\ RowsAreThere'
    BY <2>1, <2>2, <2>5 DEF PromiseInv, HandlersHaveSnapshots, RowsAreThere
  <2>7. CommandsStand'
    BY <2>1, <2>3 DEF PromiseInv, CommandsStand
  <2>8. \A p : (Issues(p)' <=> Issues(p)) /\ (IsOvertaken(p)' <=> IsOvertaken(p))
    BY <2>1, <2>2, <2>3 DEF Issues, IsOvertaken
  <2>9. IssuersStand'
    BY <2>1, <2>2, <2>3, <2>8 DEF PromiseInv, IssuersStand
  <2>10. CommitsAreSound'
    <3>1. \A n \in 1..Len(commits) :
            /\ (Issues(commits[n])' <=> Issues(commits[n]))
            /\ Rests(commits[n])' = Rests(commits[n])
      BY <2>1 DEF Issues, JobOf, Written, Rests, Asked
    <3>. QED
      BY <2>1, <3>1 DEF PromiseInv, CommitsAreSound
  <2>. QED
    BY <1>1, <2>6, <2>7, <2>9, <2>10 DEF PromiseInv
<1>. QED
  BY <1>2, <1>3

(* No handler commits what would leave a command outstanding without its   *)
(* permission, however the statements of handlers interleave.              *)
THEOREM PromiseIsInductive == Spec => []PromiseInv
<1>. QED
  BY PromiseInit, PromiseStep, PTL DEF Spec

----------------------------------------------------------------------------
(* The steps of the promise.                                               *)

(* What the promise sees of a command.                                     *)
LEMMA EjectsOf ==
  ASSUME PromiseInv
  PROVE  /\ DOMAIN Ejects = {i \in Command : db[CommandRow(i)] # None}
         /\ \A i \in DOMAIN Ejects :
              Ejects[i] =
                [permission |-> <<Asked(i).actor, Asked(i).recipient, KindOf(i)>>,
                 state |-> IF db[CommandRow(i)] \in Out THEN db[CommandRow(i)]
                                                        ELSE "ENDED"]
         /\ Ejects = [i \in DOMAIN Ejects |-> Ejects[i]]
         /\ \A i \in Command : db[CommandRow(i)] \in Out => i \in DOMAIN Ejects
<1>1. \A i : OutstandingIn({i}, db) # {} <=> db[CommandRow(i)] \in Out
  BY DEF OutstandingIn, Out
<1>2. None \notin Out
  BY TransactionAssumption DEF Status, Out
<1>. QED
  BY <1>1, <1>2 DEF Ejects

(* A command's permission is one of the promise's, and stands when the     *)
(* command may be ejected.                                                 *)
LEMMA PermissionsStand ==
  ASSUME JobsAreGiven, NEW i \in Command
  PROVE  LET permission == <<Asked(i).actor, Asked(i).recipient, KindOf(i)>>
         IN  /\ permission \in Person \X Person \X {"EJECT", "EJECT_BACK"}
             /\ permission \in StandingPermissions <=> Stands(i, db)
BY PeopleAsk DEF StandingPermissions, Stands, KindOf, Kind

(* Steps that leave the rows of permissions alone leave permissions.       *)
LEMMA PermissionsStay ==
  ASSUME RowsAreThere,
         \A row \in DOMAIN db : row[1] \in ConsentTables => db'[row] = db[row]
  PROVE  StandingPermissions' = StandingPermissions
<1>1. ASSUME NEW a \in Person, NEW r \in Person
      PROVE  /\ db'[PolicyRow(r)] = db[PolicyRow(r)]
             /\ db'[DeviceRow(r)] = db[DeviceRow(r)]
             /\ db'[RelationshipRow(a, r)] = db[RelationshipRow(a, r)]
             /\ db'[GrantRow(r, a)] = db[GrantRow(r, a)]
  BY TablesOfRows DEF RowsAreThere, ConsentTables
<1>2. \A a, r \in Person : \A kind :
        MayEject(a, r, kind, db)' <=> MayEject(a, r, kind, db)
  BY <1>1 DEF MayEject
<1>. QED
  BY <1>2 DEF StandingPermissions

(* The promise holds of what is seeded.                                    *)
LEMMA PromiseBegins == PromiseInv => Promise!Init
<1>. SUFFICES ASSUME PromiseInv PROVE Promise!Init
  OBVIOUS
<1>0. JobsAreGiven
  BY DEF PromiseInv, OverlapInv, Structured
<1>1. StandingPermissions \subseteq Person \X Person \X {"EJECT", "EJECT_BACK"}
  BY DEF StandingPermissions
<1>2. DOMAIN Ejects \subseteq Command /\ Command \subseteq Process \cup DOMAIN SeedCommand
  BY <1>0, EjectsOf, CommandsHaveNames DEF Names
<1>3. ASSUME NEW i \in DOMAIN Ejects
      PROVE  /\ Ejects[i] \in Promise!EjectRow
             /\ Ejects[i].state # "ENDED" => Ejects[i].permission \in StandingPermissions
  <2>. DEFINE permission == <<Asked(i).actor, Asked(i).recipient, KindOf(i)>>
              state == IF db[CommandRow(i)] \in Out THEN db[CommandRow(i)] ELSE "ENDED"
  <2>1. Ejects[i] = [permission |-> permission, state |-> state]
    BY EjectsOf
  <2>2. i \in Command
    BY <1>2
  <2>3. /\ permission \in Person \X Person \X {"EJECT", "EJECT_BACK"}
        /\ permission \in StandingPermissions <=> Stands(i, db)
    BY <1>0, <2>2, PermissionsStand
  <2>4. /\ state \in {"QUEUED", "DISPATCHED", "ENDED"}
        /\ state # "ENDED" => db[CommandRow(i)] \in Out
    BY DEF Out
  <2>5. db[CommandRow(i)] \in Out => Stands(i, db)
    BY <2>2 DEF PromiseInv, CommandsStand
  <2>. HIDE DEF permission, state
  <2>. QED
    BY <2>1, <2>3, <2>4, <2>5 DEF Promise!EjectRow
<1>4. Ejects \in [DOMAIN Ejects -> Promise!EjectRow]
  BY <1>3, EjectsOf
<1>. QED
  BY <1>1, <1>2, <1>3, <1>4
     DEF Promise!Init, Promise!TypeOK, Promise!StandsOnPermission

(* The same after a step, by the people and kinds it leaves alone.         *)
LEMMA EjectsNext ==
  ASSUME PromiseInv, PromiseInv', NEW p \in Handling, OnlyMoves(p)
  PROVE  /\ DOMAIN Ejects' = {i \in Command : db'[CommandRow(i)] # None}
         /\ \A i \in DOMAIN Ejects' :
              Ejects'[i] =
                [permission |-> <<Asked(i).actor, Asked(i).recipient, KindOf(i)>>,
                 state |-> IF db'[CommandRow(i)] \in Out THEN db'[CommandRow(i)]
                                                         ELSE "ENDED"]
         /\ Ejects' = [i \in DOMAIN Ejects' |-> Ejects'[i]]
<1>1. /\ DOMAIN Ejects' = {i \in Command' : db'[CommandRow(i)] # None}
      /\ \A i \in DOMAIN Ejects' :
           Ejects'[i] =
             [permission |-> <<Asked(i)'.actor, Asked(i)'.recipient, KindOf(i)'>>,
              state |-> IF db'[CommandRow(i)] \in Out THEN db'[CommandRow(i)]
                                                      ELSE "ENDED"]
      /\ Ejects' = [i \in DOMAIN Ejects' |-> Ejects'[i]]
  <2>1. \A i : OutstandingIn({i}, db)' # {} <=> db'[CommandRow(i)] \in Out
    BY DEF OutstandingIn, Out
  <2>. QED
    BY <2>1 DEF Ejects
<1>2. Command' = Command /\ \A i \in Command : Asked(i)' = Asked(i)
  BY JobsStay DEF PromiseInv, OverlapInv, Structured
<1>3. \A i \in Command : KindOf(i)' = KindOf(i)
  BY <1>2 DEF KindOf
<1>. QED
  BY <1>1, <1>2, <1>3

(* A commit of an issuance queues its eject or is not seen.                *)
LEMMA IssuanceKeepsPromise ==
  ASSUME PromiseInv, PromiseInv', NEW p \in Handling, Commits(p),
         JobOf(p).op = "ISSUE"
  PROVE  [Promise!Next]_(Promise!vars)
<1>0. /\ JobsAreGiven /\ OnlyMoves(p) /\ Structured
      /\ p \in Command /\ p \in Names /\ p \notin Known
      /\ Command \subseteq Names
  BY OwnIsUnknown, CommandsHaveNames
     DEF PromiseInv, OverlapInv, Structured, Commits, IsOpen, Command, Handling
<1>1. StandingPermissions' = StandingPermissions
  BY IssuanceLeavesConsent, PermissionsStay DEF PromiseInv
<1>2. /\ \A i \in Command : i # p => db'[CommandRow(i)] = db[CommandRow(i)]
      /\ CommandRow(p) \in Written(p) => db'[CommandRow(p)] = "QUEUED"
      /\ CommandRow(p) \notin Written(p) => db'[CommandRow(p)] = db[CommandRow(p)]
  BY <1>0, IssuanceLeavesConsent
<1>3. db[CommandRow(p)] = None
  BY <1>0 DEF PromiseInv, CommandsStand
<1>4. CASE CommandRow(p) \notin Written(p)
  <2>1. \A i \in Command : db'[CommandRow(i)] = db[CommandRow(i)]
    BY <1>2, <1>4
  <2>2. DOMAIN Ejects' = DOMAIN Ejects
    BY <1>0, <2>1, EjectsOf, EjectsNext
  <2>3. ASSUME NEW i \in DOMAIN Ejects PROVE Ejects'[i] = Ejects[i]
    BY <1>0, <2>1, <2>2, EjectsOf, EjectsNext
  <2>4. Ejects' = Ejects
    BY <1>0, <2>2, <2>3, EjectsOf, EjectsNext
  <2>. QED
    BY <1>1, <2>4 DEF Promise!vars
<1>5. CASE CommandRow(p) \in Written(p)
  <2>. DEFINE permission == <<Asked(p).actor, Asked(p).recipient, KindOf(p)>>
  <2>1. Stands(p, db)
    BY <1>5, IssuersAreInTime DEF Issues
  <2>2. /\ permission \in Person \X Person \X {"EJECT", "EJECT_BACK"}
        /\ permission \in StandingPermissions
    BY <1>0, <2>1, PermissionsStand
  <2>3. "QUEUED" # None /\ "QUEUED" \in Out
    BY TransactionAssumption DEF Status, Out
  <2>4. p \notin DOMAIN Ejects /\ DOMAIN Ejects' = DOMAIN Ejects \cup {p}
    BY <1>0, <1>2, <1>3, <1>5, <2>3, EjectsOf, EjectsNext
  <2>5. Ejects'[p] = [permission |-> permission, state |-> "QUEUED"]
    BY <1>0, <1>2, <1>5, <2>3, <2>4, EjectsNext
  <2>6. ASSUME NEW i \in DOMAIN Ejects PROVE Ejects'[i] = Ejects[i]
    BY <1>0, <1>2, <2>4, EjectsOf, EjectsNext
  <2>. HIDE DEF permission
  <2>7. Ejects' = [c \in DOMAIN Ejects \cup {p} |->
                     IF c = p THEN [permission |-> permission, state |-> "QUEUED"]
                              ELSE Ejects[c]]
    BY <1>0, <2>4, <2>5, <2>6, EjectsNext
  <2>8. Promise!Queue(p, permission)
    BY <1>1, <2>2, <2>4, <2>7 DEF Promise!Queue
  <2>9. p \in Process \cup DOMAIN SeedCommand
    BY <1>0 DEF Names
  <2>. QED
    BY <2>2, <2>8, <2>9 DEF Promise!Next
<1>. QED
  BY <1>4, <1>5

(* A commit of another handler hands one eject out, or only ends some.     *)
LEMMA OthersKeepPromise ==
  ASSUME PromiseInv, PromiseInv', NEW p \in Handling, Commits(p),
         JobOf(p).op # "ISSUE"
  PROVE  Promise!Next
<1>0. /\ JobsAreGiven /\ OnlyMoves(p) /\ Structured
      /\ Command \subseteq Process \cup DOMAIN SeedCommand
  BY CommandsHaveNames DEF PromiseInv, OverlapInv, Structured, Commits, Names
<1>1. None \notin Out \cup Over /\ Out \cap Over = {}
  BY TransactionAssumption DEF Status, Out, Over
<1>2. DOMAIN Ejects' = DOMAIN Ejects
  <2>1. \A i \in Command : db'[CommandRow(i)] # None <=> db[CommandRow(i)] # None
    BY <1>1, OthersEnd DEF Out
  <2>. QED
    BY <1>0, <2>1, EjectsOf, EjectsNext
<1>3. DOMAIN Ejects \subseteq Command
  BY EjectsOf
<1>. DEFINE Seen(value) == IF value \in Out THEN value ELSE "ENDED"
            PermissionOf(i) == <<Asked(i).actor, Asked(i).recipient, KindOf(i)>>
<1>4. ASSUME NEW i \in DOMAIN Ejects
      PROVE  /\ Ejects[i] = [permission |-> PermissionOf(i),
                             state |-> Seen(db[CommandRow(i)])]
             /\ Ejects'[i] = [permission |-> PermissionOf(i),
                              state |-> Seen(db'[CommandRow(i)])]
  BY <1>0, <1>2, EjectsOf, EjectsNext
<1>5. ASSUME NEW id \in DOMAIN Ejects, db[CommandRow(id)] = "QUEUED",
             db'[CommandRow(id)] = "DISPATCHED", Written(p) = {CommandRow(id)}
      PROVE  Promise!Next
  <2>1. StandingPermissions' = StandingPermissions
    <3>1. \A row \in DOMAIN db : row[1] \in ConsentTables => db'[row] = db[row]
      BY <1>5, HandingOutLeavesConsent
    <3>. QED
      BY <3>1, PermissionsStay DEF PromiseInv
  <2>2. ASSUME NEW c \in DOMAIN Ejects
        PROVE  Ejects'[c] = IF c = id THEN [Ejects[c] EXCEPT !.state = "DISPATCHED"]
                                      ELSE Ejects[c]
    <3>1. CASE c = id
      <4>1. Seen("QUEUED") = "QUEUED" /\ Seen("DISPATCHED") = "DISPATCHED"
        BY DEF Out
      <4>2. PICK permission : permission = PermissionOf(id)
        OBVIOUS
      <4>3. /\ Ejects[id] = [permission |-> permission, state |-> "QUEUED"]
            /\ Ejects'[id] = [permission |-> permission, state |-> "DISPATCHED"]
        BY <1>4, <1>5, <4>1, <4>2
      <4>. QED
        BY <3>1, <4>3
    <3>2. CASE c # id
      <4>1. CommandRow(c) \notin Written(p)
        BY <1>5, <3>2, CommandsAreOfOneTable
      <4>2. db'[CommandRow(c)] = db[CommandRow(c)]
        BY <1>3, <4>1, OthersEnd
      <4>. QED
        BY <1>4, <3>2, <4>2
    <3>. QED  BY <3>1, <3>2
  <2>3. Ejects' = [Ejects EXCEPT ![id].state = "DISPATCHED"]
    BY <1>0, <1>2, <2>2, EjectsOf, EjectsNext
  <2>4. Ejects[id].state = "QUEUED"
    BY <1>5, EjectsOf DEF Out
  <2>5. Promise!HandOut(id)
    BY <2>1, <2>3, <2>4 DEF Promise!HandOut
  <2>. QED
    BY <1>0, <1>3, <2>5 DEF Promise!Next
<1>6. CASE \A i \in DOMAIN Ejects :
             \/ db'[CommandRow(i)] = db[CommandRow(i)]
             \/ db[CommandRow(i)] \in Out /\ db'[CommandRow(i)] \in Over
  <2>. DEFINE ended == {i \in DOMAIN Ejects : db'[CommandRow(i)] \notin Out}
  <2>1. ASSUME NEW c \in DOMAIN Ejects
        PROVE  Ejects'[c] = IF c \in ended THEN [Ejects[c] EXCEPT !.state = "ENDED"]
                                           ELSE Ejects[c]
    <3>1. CASE c \in ended
      <4>1. Seen(db'[CommandRow(c)]) = "ENDED"
        BY <3>1
      <4>2. PICK permission, state :
              permission = PermissionOf(c) /\ state = Seen(db[CommandRow(c)])
        OBVIOUS
      <4>3. /\ Ejects[c] = [permission |-> permission, state |-> state]
            /\ Ejects'[c] = [permission |-> permission, state |-> "ENDED"]
        BY <1>4, <4>1, <4>2
      <4>. QED
        BY <3>1, <4>3
    <3>2. CASE c \notin ended
      <4>1. db'[CommandRow(c)] = db[CommandRow(c)]
        BY <1>1, <1>6, <3>2
      <4>. QED
        BY <1>4, <3>2, <4>1
    <3>. QED  BY <3>1, <3>2
  <2>2. ASSUME NEW c \in DOMAIN Ejects \ ended
        PROVE  Ejects[c].permission \in StandingPermissions'
    <3>1. c \in Command /\ db'[CommandRow(c)] \in Out
      BY <1>3, <2>2
    <3>2. c \in Command'
      BY <1>0, <3>1, JobsStay
    <3>3. Stands(c, db)'
      BY <3>1, <3>2 DEF PromiseInv, CommandsStand
    <3>4. Asked(c)' = Asked(c) /\ KindOf(c)' = KindOf(c)
      <4>1. Asked(c)' = Asked(c)
        BY <1>0, <3>1, JobsStay
      <4>. QED  BY <4>1 DEF KindOf
    <3>5. \A a, r \in Person, kind \in {"EJECT", "EJECT_BACK"} :
            MayEject(a, r, kind, db)' =>
              <<a, r, kind>> \in StandingPermissions'
      BY DEF StandingPermissions, MayEject
    <3>6. PICK a, r, kind :
            a = Asked(c).actor /\ r = Asked(c).recipient /\ kind = KindOf(c)
      OBVIOUS
    <3>7. MayEject(a, r, kind, db)'
      BY <3>3, <3>4, <3>6 DEF Stands, MayEject
    <3>8. a \in Person /\ r \in Person /\ kind \in {"EJECT", "EJECT_BACK"}
      BY <1>0, <3>1, <3>6, PeopleAsk DEF KindOf, Kind
    <3>9. Ejects[c].permission = <<a, r, kind>>
      <4>1. PermissionOf(c) = <<a, r, kind>>
        BY <3>6
      <4>2. PICK permission, state :
              permission = PermissionOf(c) /\ state = Seen(db[CommandRow(c)])
        OBVIOUS
      <4>3. Ejects[c] = [permission |-> permission, state |-> state]
        BY <1>4, <4>2
      <4>. QED
        BY <4>1, <4>2, <4>3
    <3>. QED
      BY <3>5, <3>7, <3>8, <3>9
  <2>3. StandingPermissions' \subseteq Person \X Person \X {"EJECT", "EJECT_BACK"}
    BY DEF StandingPermissions
  <2>4. ended \in SUBSET DOMAIN Ejects
    OBVIOUS
  <2>. HIDE DEF ended
  <2>5. Ejects' = [c \in DOMAIN Ejects |->
                     IF c \in ended THEN [Ejects[c] EXCEPT !.state = "ENDED"]
                                    ELSE Ejects[c]]
    BY <1>0, <1>2, <2>1, EjectsNext
  <2>6. Promise!Change(ended)
    BY <2>2, <2>3, <2>5 DEF Promise!Change
  <2>. QED
    BY <2>4, <2>6 DEF Promise!Next
<1>. QED
  BY <1>3, <1>5, <1>6, OthersEnd

(* Every step of the overlapping handlers is a step of the promise.        *)
LEMMA StepKeepsPromise ==
  PromiseInv /\ PromiseInv' /\ [Next]_vars => [Promise!Next]_(Promise!vars)
<1>. SUFFICES ASSUME PromiseInv, PromiseInv', [Next]_vars
              PROVE  [Promise!Next]_(Promise!vars)
  OBVIOUS
<1>1. CASE Next
  <2>1. PICK p \in Handling : Opens(p) \/ Takes(p) \/ GivesUp(p) \/ Commits(p)
    BY <1>1, StepsAreOfFourKinds DEF PromiseInv, OverlapInv
  <2>2. OnlyMoves(p) /\ JobsAreGiven
    BY <2>1 DEF Opens, Takes, GivesUp, Commits, PromiseInv, OverlapInv, Structured
  <2>3. CASE Same
    <3>1. db' = db
      BY <2>3 DEF Same
    <3>2. DOMAIN Ejects' = DOMAIN Ejects
      BY <2>2, <3>1, EjectsOf, EjectsNext
    <3>3. \A i \in DOMAIN Ejects : Ejects'[i] = Ejects[i]
      BY <2>2, <3>1, <3>2, EjectsOf, EjectsNext
    <3>4. Ejects' = Ejects
      BY <2>2, <3>2, <3>3, EjectsOf, EjectsNext
    <3>5. StandingPermissions' = StandingPermissions
      BY <3>1, PermissionsStay DEF PromiseInv
    <3>. QED
      BY <3>4, <3>5 DEF Promise!vars
  <2>4. CASE Commits(p)
    BY <2>4, IssuanceKeepsPromise, OthersKeepPromise
  <2>. QED
    BY <2>1, <2>3, <2>4 DEF Opens, Takes, GivesUp
<1>2. CASE UNCHANGED vars
  BY <1>2 DEF vars, Promise!vars, Ejects, StandingPermissions, Command, Asked,
     JobOf, KindOf, OutstandingIn
<1>. QED
  BY <1>1, <1>2

(* However their statements overlap, the handlers keep the promise.        *)
THEOREM OverlappingKeepsThePromise == Spec => ImplementsConsent
<1>1. Init => Promise!Init
  BY PromiseInit, PromiseBegins
<1>. QED
  BY <1>1, StepKeepsPromise, PromiseIsInductive, PTL
     DEF Spec, ImplementsConsent, Promise!Spec

----------------------------------------------------------------------------
(* An order in which handlers can be thought to have run one at a time.    *)

(* A history says of every handler that committed, in the order of the     *)
(* commits, how many had committed when it began, what it read and what it *)
(* wrote.  These are its places.                                           *)
IsHistory(h, size) ==
  /\ size \in Nat
  /\ \A i \in 1..size : h[i].began \in 0..(i - 1)

(* i used a row that j, which overlapped it, wrote unseen by i.            *)
Overlooks(h, i, j) ==
  /\ i # j
  /\ h[i].reads \cap DOMAIN h[j].writes # {}
  /\ h[i].began < j
  /\ h[j].began < i

(* In any order that explains what they did, i comes before j.             *)
Precedes(h, i, j) == i <= h[j].began \/ Overlooks(h, i, j)

(* The structure by which PostgreSQL refuses a commit.                     *)
IsStructure(h, i, j, k) ==
  /\ Overlooks(h, i, j) /\ Overlooks(h, j, k)
  /\ k < j /\ k <= i
  /\ DOMAIN h[i].writes # {} \/ k <= h[i].began

HasNoStructure(h, size) ==
  \A i, j, k \in 1..size : ~IsStructure(h, i, j, k)

IsStrictOrder(order, size) ==
  /\ \A i \in 1..size : <<i, i>> \notin order
  /\ \A i, j, k \in 1..size :
       <<i, j>> \in order /\ <<j, k>> \in order => <<i, k>> \in order
  /\ \A i, j \in 1..size : i # j => <<i, j>> \in order \/ <<j, i>> \in order

Respects(order, h, size) ==
  \A i, j \in 1..size : Precedes(h, i, j) => <<i, j>> \in order

(* The one that commits next finds a place in the order: before those that *)
(* have to come after something that committed after the threshold, and    *)
(* after the others.                                                       *)
IsLate(h, size, threshold, i) ==
  /\ i \in 1..size /\ threshold < i
  /\ DOMAIN h[i].writes # {} \/ threshold < h[i].began
  /\ \A j \in 1..threshold : ~Precedes(h, i, j)

IsThreshold(h, size, threshold) ==
  LET next == h[size + 1]
  IN  /\ threshold \in next.began..size
      /\ \A i \in 1..size : Overlooks(h, size + 1, i) => threshold < i
      /\ \/ threshold = size
         \/ threshold = next.began /\ DOMAIN next.writes = {}
         \/ Overlooks(h, size + 1, threshold + 1) /\ DOMAIN next.writes # {}

(* The first that it overlooked, or its beginning, is a threshold.         *)
LEMMA ThresholdExists ==
  ASSUME NEW h, NEW size, IsHistory(h, size + 1), size \in Nat
  PROVE  \E threshold : IsThreshold(h, size, threshold)
<1>. DEFINE next == h[size + 1]
            unseen == {i \in 1..size : Overlooks(h, size + 1, i)}
<1>1. next.began \in 0..size
  BY DEF IsHistory
<1>2. CASE unseen = {}
  <2>1. IsThreshold(h, size, size)
    BY <1>1, <1>2 DEF IsThreshold
  <2>. QED  BY <2>1
<1>3. CASE DOMAIN next.writes = {}
  <2>1. \A i \in 1..size : Overlooks(h, size + 1, i) => next.began < i
    BY DEF Overlooks
  <2>2. IsThreshold(h, size, next.began)
    BY <1>1, <1>3, <2>1 DEF IsThreshold
  <2>. QED  BY <2>2
<1>4. CASE unseen # {} /\ DOMAIN next.writes # {}
  <2>1. unseen \in SUBSET Nat /\ IsFiniteSet(unseen)
    <3>1. IsFiniteSet(1..size) /\ unseen \in SUBSET (1..size)
      BY FS_Interval
    <3>. QED  BY <3>1, FS_Subset
  <2>2. PICK first \in unseen : \A i \in unseen : first <= i
    BY <1>4, <2>1, LeastExists
  <2>3. first \in 1..size /\ next.began < first /\ Overlooks(h, size + 1, first)
    BY DEF Overlooks
  <2>4. \A i \in 1..size : Overlooks(h, size + 1, i) => first - 1 < i
    BY <2>2, <2>3
  <2>5. first - 1 \in next.began..size /\ (first - 1) + 1 = first
    BY <1>1, <2>3
  <2>. HIDE DEF next, unseen
  <2>6. IsThreshold(h, size, first - 1)
    BY <1>4, <2>3, <2>4, <2>5 DEF IsThreshold, next
  <2>. QED  BY <2>6
<1>. QED
  BY <1>2, <1>3, <1>4

(* Whoever has to come after one that is late is late.                     *)
LEMMA LateStaysLate ==
  ASSUME NEW h, NEW size, IsHistory(h, size), HasNoStructure(h, size),
         NEW threshold \in 0..size, NEW i, IsLate(h, size, threshold, i),
         NEW j \in 1..size, Precedes(h, i, j)
  PROVE  IsLate(h, size, threshold, j)
<1>1. size \in Nat /\ i \in 1..size /\ threshold < i
  BY DEF IsHistory, IsLate
<1>2. h[i].began \in Nat /\ h[j].began \in Nat
  BY <1>1 DEF IsHistory
<1>3. threshold < j
  BY <1>1 DEF IsLate
<1>4. DOMAIN h[j].writes # {} \/ threshold < h[j].began
  <2>1. CASE Overlooks(h, i, j)
    BY <2>1 DEF Overlooks
  <2>2. CASE i <= h[j].began
    BY <1>1, <1>2, <2>2
  <2>. QED  BY <2>1, <2>2 DEF Precedes
<1>5. ASSUME NEW k \in 1..threshold PROVE ~Precedes(h, j, k)
  <2>. SUFFICES ASSUME Precedes(h, j, k) PROVE FALSE
    OBVIOUS
  <2>1. k \in 1..size /\ k < i /\ k < j
    BY <1>1, <1>3
  <2>2. h[k].began < k
    BY <2>1 DEF IsHistory
  <2>3. Overlooks(h, j, k)
    <3>1. h[k].began \in Nat
      BY <2>1 DEF IsHistory
    <3>. QED  BY <1>1, <2>1, <2>2, <3>1 DEF Precedes
  <2>4. h[j].began < k
    BY <2>3 DEF Overlooks
  <2>5. Overlooks(h, i, j)
    BY <1>1, <1>2, <2>1, <2>4 DEF Precedes
  <2>6. DOMAIN h[i].writes # {} \/ k <= h[i].began
    BY <1>1, <1>2 DEF IsLate
  <2>7. IsStructure(h, i, j, k)
    BY <1>1, <2>1, <2>3, <2>5, <2>6 DEF IsStructure
  <2>. QED
    BY <1>1, <2>1, <2>7 DEF HasNoStructure
<1>. QED
  BY <1>3, <1>4, <1>5 DEF IsLate

(* Whoever has to come after the next one is late, and whoever has to come *)
(* before it is not.                                                       *)
LEMMA NextIsBetween ==
  ASSUME NEW h, NEW size, size \in Nat, IsHistory(h, size + 1),
         HasNoStructure(h, size + 1),
         NEW threshold, IsThreshold(h, size, threshold), NEW i \in 1..size
  PROVE  /\ Precedes(h, size + 1, i) => IsLate(h, size, threshold, i)
         /\ Precedes(h, i, size + 1) => ~IsLate(h, size, threshold, i)
<1>. DEFINE next == size + 1
<1>1. /\ next \in 1..(size + 1) /\ i \in 1..(size + 1) /\ i < next
      /\ h[i].began \in Nat /\ h[i].began < i
      /\ h[next].began \in Nat
      /\ threshold \in h[next].began..size
  BY DEF IsHistory, IsThreshold
<1>2. ASSUME Precedes(h, next, i) PROVE IsLate(h, size, threshold, i)
  <2>1. Overlooks(h, next, i)
    BY <1>1, <1>2 DEF Precedes
  <2>2. threshold < i /\ DOMAIN h[i].writes # {}
    BY <2>1 DEF IsThreshold, Overlooks
  <2>3. ASSUME NEW j \in 1..threshold, Precedes(h, i, j) PROVE FALSE
    <3>1. j \in 1..(size + 1) /\ h[j].began \in Nat /\ h[j].began < j /\ j < i
      BY <1>1, <2>2 DEF IsHistory
    <3>2. Overlooks(h, i, j)
      BY <1>1, <2>3, <3>1 DEF Precedes
    <3>3. DOMAIN h[next].writes # {} \/ j <= h[next].began
      <4>1. threshold # size
        BY <2>2
      <4>. QED  BY <1>1, <4>1 DEF IsThreshold
    <3>4. IsStructure(h, next, i, j)
      BY <1>1, <2>1, <3>1, <3>2, <3>3 DEF IsStructure
    <3>. QED
      BY <1>1, <3>1, <3>4 DEF HasNoStructure
  <2>. QED
    BY <2>2, <2>3 DEF IsLate
<1>3. ASSUME Precedes(h, i, next), IsLate(h, size, threshold, i) PROVE FALSE
  <2>1. threshold < i
    BY <1>3 DEF IsLate
  <2>2. Overlooks(h, i, next)
    BY <1>1, <1>3, <2>1 DEF Precedes
  <2>3. DOMAIN h[next].writes # {} /\ threshold # size
    BY <1>1, <2>1, <2>2 DEF Overlooks
  <2>4. Overlooks(h, next, threshold + 1)
    BY <2>3 DEF IsThreshold
  <2>5. threshold + 1 \in 1..size
    BY <1>1, <2>1
  <2>6. DOMAIN h[i].writes # {} \/ threshold + 1 <= h[i].began
    BY <1>1, <1>3 DEF IsLate
  <2>7. IsStructure(h, i, next, threshold + 1)
    BY <1>1, <2>1, <2>2, <2>4, <2>5, <2>6 DEF IsStructure
  <2>. QED
    BY <1>1, <2>5, <2>7 DEF HasNoStructure
<1>. QED
  BY <1>2, <1>3

(* An order of those that committed is one of those and the next.          *)
LEMMA OrderGrows ==
  ASSUME NEW h, NEW size, size \in Nat, IsHistory(h, size + 1),
         HasNoStructure(h, size + 1),
         NEW old, IsStrictOrder(old, size), Respects(old, h, size)
  PROVE  \E order : IsStrictOrder(order, size + 1) /\ Respects(order, h, size + 1)
<1>1. PICK threshold : IsThreshold(h, size, threshold)
  BY ThresholdExists
<1>. DEFINE next == size + 1
            Late(i) == IsLate(h, size, threshold, i)
            IsBefore(i, j) ==
              /\ i # j
              /\ \/ i = next /\ Late(j)
                 \/ j = next /\ ~Late(i)
                 \/ /\ i # next /\ j # next
                    /\ ~Late(i) /\ Late(j)
                 \/ /\ i # next /\ j # next
                    /\ Late(i) <=> Late(j)
                    /\ <<i, j>> \in old
            order == {pair \in (1..next) \X (1..next) : IsBefore(pair[1], pair[2])}
<1>2. \A i, j \in 1..next : <<i, j>> \in order <=> IsBefore(i, j)
  OBVIOUS
<1>3. ~Late(next)
  BY DEF IsLate
<1>4. \A i \in 1..next : i = next \/ i \in 1..size
  OBVIOUS
<1>5. IsStrictOrder(order, next)
  <2>1. \A i, j, k \in 1..next : IsBefore(i, j) /\ IsBefore(j, k) => IsBefore(i, k)
    <3>. HIDE DEF next, Late
    <3>. QED  BY <1>3, <1>4 DEF IsStrictOrder
  <2>2. \A i, j \in 1..next : i # j => IsBefore(i, j) \/ IsBefore(j, i)
    <3>. HIDE DEF next, Late
    <3>. QED  BY <1>3, <1>4 DEF IsStrictOrder
  <2>3. \A i \in 1..next : ~IsBefore(i, i)
    OBVIOUS
  <2>. HIDE DEF IsBefore, order, next
  <2>. QED
    BY <1>2, <2>1, <2>2, <2>3 DEF IsStrictOrder
<1>6. IsHistory(h, size) /\ HasNoStructure(h, size) /\ threshold \in 0..size
  BY <1>1 DEF IsHistory, HasNoStructure, IsThreshold
<1>7. ASSUME NEW i \in 1..next, NEW j \in 1..next, Precedes(h, i, j)
      PROVE  IsBefore(i, j)
  <2>1. i # j
    BY <1>7 DEF Precedes, Overlooks, IsHistory
  <2>2. CASE i = next
    BY <1>1, <1>4, <1>7, <2>1, <2>2, NextIsBetween
  <2>3. CASE j = next
    BY <1>1, <1>4, <1>7, <2>1, <2>3, NextIsBetween
  <2>4. CASE i # next /\ j # next
    <3>1. i \in 1..size /\ j \in 1..size
      BY <1>4, <2>4
    <3>2. <<i, j>> \in old
      BY <1>7, <3>1 DEF Respects
    <3>3. Late(i) => Late(j)
      BY <1>6, <1>7, <3>1, LateStaysLate
    <3>. HIDE DEF next, Late
    <3>. QED  BY <2>1, <2>4, <3>2, <3>3
  <2>. QED
    BY <2>2, <2>3, <2>4
<1>8. Respects(order, h, next)
  <2>. HIDE DEF IsBefore, order, next
  <2>. QED  BY <1>2, <1>7 DEF Respects
<1>. QED
  BY <1>5, <1>8

----------------------------------------------------------------------------
(* What a handler's work depends on.                                       *)

Counter == {StateRow(q) : q \in Person} \cup {SenderRow(q) : q \in Person}

(* Another database is as good as the snapshot for this work: the rows it  *)
(* used or writes are the same, and no counter it found is missing.        *)
AsGoodFor(work, s, t) ==
  /\ \A row \in work.reads \cup DOMAIN work.writes : t[row] = s[row]
  /\ \A row \in Counter : s[row] # None => t[row] # None

Amounts(one, other) == one.writes = other.writes /\ one.answer = other.answer

(* What merging and single writes leave.                                   *)
LEMMA Merging ==
  /\ \A new, old :
       /\ DOMAIN (new @@ old) = DOMAIN new \cup DOMAIN old
       /\ \A k \in DOMAIN new : (new @@ old)[k] = new[k]
       /\ \A k \in DOMAIN old \ DOMAIN new : (new @@ old)[k] = old[k]
  /\ \A k, v : DOMAIN (k :> v) = {k} /\ (k :> v)[k] = v
BY DEF @@, :>

(* Counters missing in the snapshot are ensured, and so they are the same. *)
LEMMA EnsuredStays ==
  ASSUME NEW work, NEW s, NEW t, AsGoodFor(work, s, t),
         NEW rows \in SUBSET Counter,
         DOMAIN Ensured(rows, s) \subseteq DOMAIN work.writes
  PROVE  Ensured(rows, t) = Ensured(rows, s)
<1>1. {r \in rows : t[r] = None} = {r \in rows : s[r] = None}
  BY DEF AsGoodFor, Ensured
<1>. QED
  BY <1>1 DEF Ensured

(* Grants that were looked for are the same.                               *)
LEMMA DeletedStays ==
  ASSUME NEW work, NEW s, NEW t, AsGoodFor(work, s, t),
         NEW pairs, GrantRows(pairs) \subseteq work.reads
  PROVE  Deleted(pairs, t) = Deleted(pairs, s)
<1>1. {r \in GrantRows(pairs) : t[r] # None} = {r \in GrantRows(pairs) : s[r] # None}
  BY DEF AsGoodFor
<1>. QED
  BY <1>1 DEF Deleted

(* So are commands.                                                        *)
LEMMA OutstandingStays ==
  ASSUME NEW work, NEW s, NEW t, AsGoodFor(work, s, t),
         NEW ids, CommandRows(ids) \subseteq work.reads
  PROVE  /\ OutstandingIn(ids, t) = OutstandingIn(ids, s)
         /\ Cancelled(ids, t) = Cancelled(ids, s)
<1>1. \A i \in ids : t[CommandRow(i)] = s[CommandRow(i)]
  BY DEF AsGoodFor, CommandRows
<1>2. OutstandingIn(ids, t) = OutstandingIn(ids, s)
  BY <1>1 DEF OutstandingIn
<1>. QED
  BY <1>2 DEF Cancelled

(* The counters of people.                                                 *)
LEMMA CountersOfPeople ==
  \A q \in Person : StateRow(q) \in Counter /\ SenderRow(q) \in Counter
BY DEF Counter

(* Whom a job is about.                                                    *)
LEMMA PeopleOfJobs ==
  ASSUME NEW p, JobOf(p) \in Job
  PROVE  /\ JobOf(p).recipient \in Person
         /\ JobOf(p).op \notin {"SET_PAUSED", "POLL", "INGEST", "REVOKE_DEVICE"} =>
              /\ JobOf(p).actor \in Person
              /\ Low(JobOf(p).actor, JobOf(p).recipient) \in Person
              /\ High(JobOf(p).actor, JobOf(p).recipient) \in Person
BY TransactionAssumption DEF Low, High

(* An issuance decides by what it looked at.                               *)
LEMMA IssueIsRepeatable ==
  ASSUME JobsAreGiven, NEW p \in Handling, JobOf(p).op = "ISSUE", NEW s, NEW t,
         AsGoodFor(Issue(p, s), s, t)
  PROVE  Amounts(Issue(p, t), Issue(p, s))
<1>. DEFINE job     == JobOf(p)
            request == RequestRow(job.actor, job.key)
            theirs  == StateRow(job.recipient)
            mine    == SenderRow(job.actor)
            source  == job.replyTo
            work    == Issue(p, s)
<1>1. theirs \in Counter /\ mine \in Counter /\ p \in Process
  BY PeopleOfJobs, CountersOfPeople DEF JobsAreGiven
<1>2. CASE IsAnswered(request, s)
  <2>1. /\ work = Replay(p, s)
        /\ work.reads = {request}
        /\ work.writes = Ensured({theirs}, s)
        /\ work.answer = s[request]
    BY <1>2 DEF Issue, Replay
  <2>2. t[request] = s[request]
    BY <2>1 DEF AsGoodFor
  <2>3. Ensured({theirs}, t) = Ensured({theirs}, s)
    BY <1>1, <2>1, EnsuredStays
  <2>4. Issue(p, t) = Replay(p, t)
    BY <1>2, <2>2 DEF Issue, IsAnswered
  <2>. QED
    BY <2>1, <2>2, <2>3, <2>4 DEF Amounts, Replay
<1>3. CASE ~IsAnswered(request, s)
  <2>. DEFINE answer(queued) == [outcome |-> IF queued THEN "QUEUED" ELSE "REJECTED",
                                 id |-> p]
              counted(queued, x) ==
                IF queued THEN (CommandRow(p) :> "QUEUED") @@
                               (theirs :> Count(theirs, x) + 1) @@
                               (mine :> Count(mine, x) + 1)
                          ELSE Ensured({theirs, mine}, x)
              reply(queued) == IF queued /\ source # None THEN ReplyRow(source) :> p
                                                          ELSE << >>
              writes(queued, x) == (request :> answer(queued)) @@ counted(queued, x)
                                   @@ reply(queued)
  <2>1. \A x : ~IsAnswered(request, x) =>
          /\ Issue(p, x).writes = writes(Authorized(p, x), x)
          /\ Issue(p, x).answer = answer(Authorized(p, x))
    BY DEF Issue
  <2>2. work.reads = {request, theirs, mine, PolicyRow(job.recipient),
                      DeviceRow(job.recipient)}
                     \cup IF source = None
                            THEN {RelationshipRow(job.actor, job.recipient),
                                  GrantRow(job.recipient, job.actor)}
                            ELSE {CommandRow(source), ReplyRow(source)}
    BY <1>3 DEF Issue
  <2>. HIDE DEF work
  <2>3. \A row \in work.reads : t[row] = s[row]
    BY DEF AsGoodFor, work
  <2>4. ~IsAnswered(request, t)
    BY <1>3, <2>2, <2>3 DEF IsAnswered
  <2>5. Count(theirs, t) = Count(theirs, s) /\ Count(mine, t) = Count(mine, s)
    BY <2>2, <2>3 DEF Count
  <2>6. Ensured({theirs, mine}, t) = Ensured({theirs, mine}, s)
    <3>1. \A r \in {theirs, mine} : t[r] = s[r]
      BY <2>2, <2>3
    <3>. HIDE DEF theirs, mine
    <3>2. {r \in {theirs, mine} : t[r] = None} = {r \in {theirs, mine} : s[r] = None}
      BY <3>1
    <3>. QED
      BY <3>2 DEF Ensured
  <2>7. Authorized(p, t) <=> Authorized(p, s)
    <3>1. CASE source = None
      <4>1. KindOf(p) = "EJECT" \/ KindOf(p) = "EJECT_BACK"
        BY DEF KindOf, Kind
      <4>2. \A r \in {theirs, mine, PolicyRow(job.recipient),
                      DeviceRow(job.recipient),
                      RelationshipRow(job.actor, job.recipient),
                      GrantRow(job.recipient, job.actor)} : t[r] = s[r]
        BY <2>2, <2>3, <3>1
      <4>. QED
        BY <2>5, <3>1, <4>1, <4>2 DEF Authorized, MayEject
    <3>2. CASE source # None
      <4>1. KindOf(p) = "EJECT_BACK" \/ KindOf(p) = "EJECT"
        BY DEF KindOf, Kind
      <4>2. \A r \in {theirs, mine, PolicyRow(job.recipient),
                      DeviceRow(job.recipient), CommandRow(source),
                      ReplyRow(source)} : t[r] = s[r]
        BY <2>2, <2>3, <3>2
      <4>. QED
        <5>1. KindOf(p) = "EJECT_BACK"
          BY <1>1, <3>2 DEF KindOf, Kind, Asked
        <5>. QED
          BY <2>5, <3>2, <5>1, <4>2 DEF Authorized, MayEject
    <3>. QED  BY <3>1, <3>2
  <2>8. counted(Authorized(p, t), t) = counted(Authorized(p, s), s)
    BY <2>5, <2>6, <2>7
  <2>. HIDE DEF counted, request, theirs, mine
  <2>9. /\ writes(Authorized(p, t), t) = writes(Authorized(p, s), s)
        /\ answer(Authorized(p, t)) = answer(Authorized(p, s))
    BY <2>7, <2>8
  <2>. QED
    BY <1>3, <2>1, <2>4, <2>9 DEF Amounts
<1>. QED
  BY <1>2, <1>3

(* A change of the policy, by the commands it looked at.                   *)
LEMMA SetPausedIsRepeatable ==
  ASSUME NEW p, JobOf(p) \in Job, NEW s, NEW t,
         AsGoodFor(SetPaused(p, s), s, t)
  PROVE  Amounts(SetPaused(p, t), SetPaused(p, s))
<1>. DEFINE job    == JobOf(p)
            ids    == IF job.paused THEN To(job.recipient) ELSE {}
            state  == StateRow(job.recipient)
            policy == PolicyRow(job.recipient) :> IF job.paused THEN "PAUSED" ELSE "OPEN"
            work   == SetPaused(p, s)
<1>1. /\ work.reads = CommandRows(ids)
      /\ work.writes = policy @@ Cancelled(ids, s) @@ Ensured({state}, s)
  BY DEF SetPaused
<1>2. {state} \in SUBSET Counter
  BY PeopleOfJobs, CountersOfPeople
<1>. HIDE DEF work
<1>3. DOMAIN Ensured({state}, s) \subseteq DOMAIN work.writes
  <2>1. DOMAIN Ensured({state}, s)
          \subseteq DOMAIN (policy @@ Cancelled(ids, s) @@ Ensured({state}, s))
    <3>. HIDE DEF policy, ids, state
    <3>. QED  BY Merging
  <2>. QED  BY <1>1, <2>1
<1>4. Ensured({state}, t) = Ensured({state}, s) /\ Cancelled(ids, t) = Cancelled(ids, s)
  <2>1. AsGoodFor(work, s, t)
    BY DEF work
  <2>. HIDE DEF ids, state
  <2>2. Ensured({state}, t) = Ensured({state}, s)
    BY <1>2, <1>3, <2>1, EnsuredStays
  <2>3. Cancelled(ids, t) = Cancelled(ids, s)
    BY <1>1, <2>1, OutstandingStays
  <2>. QED
    BY <2>2, <2>3
<1>. DEFINE writes(x) == policy @@ Cancelled(ids, x) @@ Ensured({state}, x)
<1>5. \A x : SetPaused(p, x).writes = writes(x) /\ SetPaused(p, x).answer = None
  BY DEF SetPaused
<1>6. writes(t) = writes(s)
  BY <1>4
<1>. HIDE DEF writes
<1>. QED
  BY <1>5, <1>6 DEF Amounts

(* A grant, by the relationship.                                           *)
LEMMA GiveGrantIsRepeatable ==
  ASSUME NEW p, JobOf(p) \in Job, NEW s, NEW t,
         AsGoodFor(GiveGrant(p, s), s, t)
  PROVE  Amounts(GiveGrant(p, t), GiveGrant(p, s))
<1>. DEFINE job   == JobOf(p)
            state == StateRow(job.recipient)
            bond  == RelationshipRow(job.actor, job.recipient)
            grant == GrantRow(job.recipient, job.actor)
            given(x) == x[bond] = "ACTIVE" /\ x[grant] = None
            new(x)  == IF given(x) THEN grant :> "GIVEN" ELSE << >>
            work  == GiveGrant(p, s)
<1>1. /\ work.reads = {bond, grant}
      /\ work.writes = Ensured({state}, s) @@ new(s)
  BY DEF GiveGrant
<1>2. {state} \in SUBSET Counter
  BY PeopleOfJobs, CountersOfPeople
<1>. HIDE DEF work
<1>3. DOMAIN Ensured({state}, s) \subseteq DOMAIN work.writes
  <2>1. DOMAIN Ensured({state}, s)
          \subseteq DOMAIN (Ensured({state}, s) @@ new(s))
    <3>. HIDE DEF new, state
    <3>. QED  BY Merging
  <2>. QED  BY <1>1, <2>1
<1>4. Ensured({state}, t) = Ensured({state}, s)
  BY <1>2, <1>3, EnsuredStays DEF work
<1>5. new(t) = new(s)
  BY <1>1 DEF AsGoodFor, work
<1>6. \A x : /\ GiveGrant(p, x).writes = Ensured({state}, x) @@ new(x)
             /\ GiveGrant(p, x).answer = None
  BY DEF GiveGrant
<1>. HIDE DEF new, state
<1>. QED
  BY <1>4, <1>5, <1>6 DEF Amounts

(* A withdrawn grant, by the grant and the commands.                       *)
LEMMA RevokeGrantIsRepeatable ==
  ASSUME NEW p, JobOf(p) \in Job, NEW s, NEW t,
         AsGoodFor(RevokeGrant(p, s), s, t)
  PROVE  Amounts(RevokeGrant(p, t), RevokeGrant(p, s))
<1>. DEFINE job   == JobOf(p)
            state == StateRow(job.recipient)
            pairs == {<<job.actor, job.recipient>>}
            work  == RevokeGrant(p, s)
<1>1. /\ work.reads = GrantRows(pairs) \cup CommandRows(Between(pairs))
      /\ work.writes = Deleted(pairs, s) @@ Cancelled(Between(pairs), s)
                       @@ Ensured({state}, s)
  BY DEF RevokeGrant
<1>2. {state} \in SUBSET Counter
  BY PeopleOfJobs, CountersOfPeople
<1>. HIDE DEF work
<1>3. DOMAIN Ensured({state}, s) \subseteq DOMAIN work.writes
  <2>1. DOMAIN Ensured({state}, s)
          \subseteq DOMAIN (Deleted(pairs, s) @@ Cancelled(Between(pairs), s)
                             @@ Ensured({state}, s))
    <3>. HIDE DEF pairs, state
    <3>. QED  BY Merging
  <2>. QED  BY <1>1, <2>1
<1>4. /\ Ensured({state}, t) = Ensured({state}, s)
      /\ Deleted(pairs, t) = Deleted(pairs, s)
      /\ Cancelled(Between(pairs), t) = Cancelled(Between(pairs), s)
  <2>1. AsGoodFor(work, s, t)
    BY DEF work
  <2>. HIDE DEF pairs, state
  <2>2. Ensured({state}, t) = Ensured({state}, s)
    BY <1>2, <1>3, <2>1, EnsuredStays
  <2>3. Deleted(pairs, t) = Deleted(pairs, s)
    BY <1>1, <2>1, DeletedStays
  <2>4. Cancelled(Between(pairs), t) = Cancelled(Between(pairs), s)
    BY <1>1, <2>1, OutstandingStays
  <2>. QED
    BY <2>2, <2>3, <2>4
<1>. DEFINE writes(x) == Deleted(pairs, x) @@ Cancelled(Between(pairs), x)
                         @@ Ensured({state}, x)
<1>5. \A x : /\ RevokeGrant(p, x).writes = writes(x)
             /\ RevokeGrant(p, x).answer = None
  BY DEF RevokeGrant
<1>6. writes(t) = writes(s)
  BY <1>4
<1>. HIDE DEF writes
<1>. QED
  BY <1>5, <1>6 DEF Amounts

(* A disconnection, by the relationship, its grants and commands.          *)
LEMMA DisconnectIsRepeatable ==
  ASSUME NEW p, JobOf(p) \in Job, JobOf(p).op = "DISCONNECT", NEW s, NEW t,
         AsGoodFor(Disconnect(p, s), s, t)
  PROVE  Amounts(Disconnect(p, t), Disconnect(p, s))
<1>. DEFINE job    == JobOf(p)
            low    == Low(job.actor, job.recipient)
            high   == High(job.actor, job.recipient)
            pairs  == BothWays(low, high)
            bond   == RelationshipRow(low, high)
            states == {StateRow(low), StateRow(high)}
            work   == Disconnect(p, s)
            ended(x) == (bond :> "ENDED") @@ Deleted(pairs, x)
                        @@ Cancelled(Between(pairs), x) @@ Ensured(states, x)
<1>1. \A x : /\ x[bond] # "ACTIVE" => /\ Disconnect(p, x).reads = {bond}
                                      /\ Disconnect(p, x).writes = Ensured(states, x)
             /\ x[bond] = "ACTIVE" =>
                  /\ Disconnect(p, x).reads = {bond} \cup GrantRows(pairs)
                                              \cup CommandRows(Between(pairs))
                  /\ Disconnect(p, x).writes = ended(x)
             /\ Disconnect(p, x).answer = None
  BY DEF Disconnect
<1>2. states \in SUBSET Counter
  BY PeopleOfJobs, CountersOfPeople
<1>3. DOMAIN Ensured(states, s) \subseteq DOMAIN work.writes
  <2>1. DOMAIN Ensured(states, s) \subseteq DOMAIN ended(s)
    BY Merging
  <2>. HIDE DEF ended, states, bond
  <2>. QED  BY <1>1, <2>1
<1>4. Ensured(states, t) = Ensured(states, s)
  BY <1>2, <1>3, EnsuredStays
<1>5. t[bond] = s[bond]
  BY <1>1 DEF AsGoodFor
<1>6. CASE s[bond] # "ACTIVE"
  BY <1>1, <1>4, <1>5, <1>6 DEF Amounts
<1>7. CASE s[bond] = "ACTIVE"
  <2>1. GrantRows(pairs) \subseteq work.reads /\ CommandRows(Between(pairs)) \subseteq work.reads
    BY <1>1, <1>7
  <2>2. /\ Deleted(pairs, t) = Deleted(pairs, s)
        /\ Cancelled(Between(pairs), t) = Cancelled(Between(pairs), s)
    BY <2>1, DeletedStays, OutstandingStays
  <2>3. ended(t) = ended(s)
    BY <1>4, <2>2
  <2>. HIDE DEF ended, bond
  <2>. QED
    BY <1>1, <1>5, <1>7, <2>3 DEF Amounts
<1>. QED
  BY <1>6, <1>7

(* An acceptance, by the invitation, the relationship and its grants.      *)
LEMMA AcceptIsRepeatable ==
  ASSUME NEW p, NEW s, NEW t, AsGoodFor(Accept(p, s), s, t)
  PROVE  Amounts(Accept(p, t), Accept(p, s))
<1>. DEFINE job   == JobOf(p)
            code  == InvitationRow(job.recipient)
            low   == Low(job.actor, job.recipient)
            high  == High(job.actor, job.recipient)
            bond  == RelationshipRow(low, high)
            pairs(x) == IF x[bond] = "ENDED" THEN BothWays(low, high) ELSE {}
            joined(x) == IF x[bond] = "ACTIVE" THEN << >>
                         ELSE Deleted(pairs(x), x) @@ (bond :> "ACTIVE")
            work  == Accept(p, s)
<1>1. \A x : /\ x[code] # "PENDING" => /\ Accept(p, x).reads = {code}
                                       /\ Accept(p, x).writes = << >>
             /\ x[code] = "PENDING" =>
                  /\ Accept(p, x).reads = {code, bond} \cup GrantRows(pairs(x))
                  /\ Accept(p, x).writes = (code :> "USED") @@ joined(x)
             /\ Accept(p, x).answer = None
  BY DEF Accept
<1>2. t[code] = s[code]
  BY <1>1 DEF AsGoodFor
<1>3. CASE s[code] # "PENDING"
  BY <1>1, <1>2, <1>3 DEF Amounts
<1>4. CASE s[code] = "PENDING"
  <2>1. t[bond] = s[bond]
    BY <1>1, <1>4 DEF AsGoodFor
  <2>2. GrantRows(pairs(s)) \subseteq work.reads
    BY <1>1, <1>4
  <2>3. Deleted(pairs(s), t) = Deleted(pairs(s), s)
    <3>. HIDE DEF pairs, work
    <3>. QED  BY <2>2, DeletedStays DEF work
  <2>4. joined(t) = joined(s)
    BY <2>1, <2>3
  <2>. HIDE DEF joined, code
  <2>. QED
    BY <1>1, <1>2, <1>4, <2>4 DEF Amounts
<1>. QED
  BY <1>3, <1>4

(* A poll, by the device and its commands.                                 *)
LEMMA PollIsRepeatable ==
  ASSUME JobsAreGiven, NEW p, NEW s, NEW t, AsGoodFor(Poll(p, s), s, t)
  PROVE  Amounts(Poll(p, t), Poll(p, s))
<1>. DEFINE job    == JobOf(p)
            device == DeviceRow(job.recipient)
            open(x) == OutstandingIn(To(job.recipient), x)
            oldest(x) == CHOOSE i \in open(x) : \A j \in open(x) : i <= j
            work   == Poll(p, s)
            answer(x) == IF open(x) # {} /\ ~job.late THEN oldest(x) ELSE None
            writes(x) == IF open(x) = {} THEN << >>
                         ELSE IF job.late THEN CommandRow(oldest(x)) :> "EXPIRED"
                         ELSE IF x[CommandRow(oldest(x))] = "DISPATCHED" THEN << >>
                         ELSE CommandRow(oldest(x)) :> "DISPATCHED"
<1>1. \A x : /\ x[device] # "READY" => /\ Poll(p, x).reads = {device}
                                       /\ Poll(p, x).writes = << >>
                                       /\ Poll(p, x).answer = None
             /\ x[device] = "READY" =>
                  /\ Poll(p, x).reads = {device} \cup CommandRows(To(job.recipient))
                  /\ Poll(p, x).writes = writes(x)
                  /\ Poll(p, x).answer = answer(x)
  BY DEF Poll, Unheard
<1>2. t[device] = s[device]
  BY <1>1 DEF AsGoodFor
<1>3. CASE s[device] # "READY"
  BY <1>1, <1>2, <1>3 DEF Amounts
<1>4. CASE s[device] = "READY"
  <2>1. CommandRows(To(job.recipient)) \subseteq work.reads
    BY <1>1, <1>4
  <2>2. open(t) = open(s)
    BY <2>1, OutstandingStays
  <2>3. oldest(t) = oldest(s)
    BY <2>2
  <2>4. open(s) # {} => t[CommandRow(oldest(s))] = s[CommandRow(oldest(s))]
    <3>. SUFFICES ASSUME open(s) # {}
                  PROVE  t[CommandRow(oldest(s))] = s[CommandRow(oldest(s))]
      OBVIOUS
    <3>1. open(s) \in SUBSET Command
      BY SelectionsAreCommands DEF OutstandingIn
    <3>2. open(s) \in SUBSET Nat /\ IsFiniteSet(open(s))
      BY <3>1, CommandsHaveNames, NamesAreFinite, FS_Subset
    <3>3. oldest(s) \in open(s)
      <4>. DEFINE mine == open(s)
      <4>. HIDE DEF mine
      <4>1. PICK least \in mine : \A j \in mine : least <= j
        BY <3>2, LeastExists DEF mine
      <4>2. (CHOOSE i \in mine : \A j \in mine : i <= j) \in mine
        BY <4>1
      <4>. QED  BY <4>2 DEF mine
    <3>4. oldest(s) \in To(job.recipient)
      BY <3>3 DEF OutstandingIn
    <3>5. CommandRow(oldest(s)) \in work.reads
      BY <2>1, <3>4 DEF CommandRows
    <3>. QED  BY <3>5 DEF AsGoodFor
  <2>. HIDE DEF open
  <2>5. writes(t) = writes(s) /\ answer(t) = answer(s)
    BY <2>2, <2>3, <2>4
  <2>. HIDE DEF writes, answer, device
  <2>. QED
    BY <1>1, <1>2, <1>4, <2>5 DEF Amounts
<1>. QED
  BY <1>3, <1>4

(* A result, by the device, its command and the results.                   *)
LEMMA IngestIsRepeatable ==
  ASSUME NEW p, NEW s, NEW t, AsGoodFor(Ingest(p, s), s, t)
  PROVE  Amounts(Ingest(p, t), Ingest(p, s))
<1>. DEFINE job    == JobOf(p)
            device == DeviceRow(job.recipient)
            row    == CommandRow(job.command)
            result == ResultRow(job.command)
            stored(x) == x[result] = None /\ x[row] = "DISPATCHED"
<1>1. CASE s[device] # "READY"
  <2>1. Ingest(p, s) = Unheard(device) /\ device \in Ingest(p, s).reads
    BY <1>1 DEF Ingest, Unheard
  <2>2. Ingest(p, t) = Unheard(device)
    BY <1>1, <2>1 DEF Ingest, AsGoodFor
  <2>. QED  BY <2>1, <2>2 DEF Amounts
<1>2. CASE s[device] = "READY"
  <2>1. Ingest(p, s).reads = {device, row, result}
    BY <1>2 DEF Ingest
  <2>2. t[device] = s[device] /\ t[row] = s[row] /\ t[result] = s[result]
    BY <2>1 DEF AsGoodFor
  <2>. QED
    BY <1>2, <2>2 DEF Ingest, Amounts
<1>. QED
  BY <1>1, <1>2

(* A revocation, by the device and its commands.                           *)
LEMMA RevokeDeviceIsRepeatable ==
  ASSUME NEW p, NEW s, NEW t, AsGoodFor(RevokeDevice(p, s), s, t)
  PROVE  Amounts(RevokeDevice(p, t), RevokeDevice(p, s))
<1>. DEFINE owner  == JobOf(p).recipient
            device == DeviceRow(owner)
            work   == RevokeDevice(p, s)
<1>1. device \in work.reads
  BY DEF RevokeDevice
<1>2. t[device] = s[device]
  BY <1>1 DEF AsGoodFor
<1>3. CASE s[device] = "REVOKED"
  BY <1>2, <1>3 DEF RevokeDevice, Amounts
<1>4. CASE s[device] # "REVOKED"
  <2>1. CommandRows(To(owner)) \subseteq work.reads
    BY <1>4 DEF RevokeDevice
  <2>2. Cancelled(To(owner), t) = Cancelled(To(owner), s)
    BY <2>1, OutstandingStays
  <2>. QED
    BY <1>2, <1>4, <2>2 DEF RevokeDevice, Amounts
<1>. QED
  BY <1>3, <1>4

(* Every handler does and answers by what it looked at.                    *)
LEMMA WorkIsRepeatable ==
  ASSUME JobsAreGiven, NEW p \in Handling, NEW s, NEW t,
         AsGoodFor(Work(p, s), s, t)
  PROVE  Amounts(Work(p, t), Work(p, s))
<1>1. JobOf(p) \in Job /\ JobOf(p).op \in Operation
  BY TransactionAssumption DEF JobsAreGiven
<1>. QED
  BY <1>1, IssueIsRepeatable, SetPausedIsRepeatable, GiveGrantIsRepeatable,
     RevokeGrantIsRepeatable, DisconnectIsRepeatable, AcceptIsRepeatable,
     PollIsRepeatable, IngestIsRepeatable, RevokeDeviceIsRepeatable
     DEF Operation, Work

----------------------------------------------------------------------------
(* What a handler's work leaves.                                           *)

(* Rows that have a place, and numbers where it counts.                    *)
IsPart(writes) ==
  /\ DOMAIN writes \subseteq Row
  /\ \A row \in DOMAIN writes \cap Counter : writes[row] \in Nat

IsInPlace(work) == work.reads \subseteq Row /\ IsPart(work.writes)

AreNumbers(s) == \A row \in Counter : s[row] \in Nat \cup {None}

(* Counters are rows of two tables.                                        *)
LEMMA CountersAreApart ==
  /\ \A row : /\ PolicyRow(row) \notin Counter
              /\ DeviceRow(row) \notin Counter
              /\ InvitationRow(row) \notin Counter
              /\ CommandRow(row) \notin Counter
              /\ ReplyRow(row) \notin Counter
              /\ ResultRow(row) \notin Counter
  /\ \A q, r : /\ RelationshipRow(q, r) \notin Counter
               /\ GrantRow(q, r) \notin Counter
               /\ RequestRow(q, r) \notin Counter
BY DEF Counter, StateRow, SenderRow, PolicyRow, DeviceRow, InvitationRow,
   CommandRow, ReplyRow, ResultRow, RelationshipRow, GrantRow, RequestRow

(* Parts of what is written make a whole.                                  *)
LEMMA PartsMerge ==
  ASSUME NEW one, NEW other, IsPart(one), IsPart(other)
  PROVE  IsPart(one @@ other)
BY DEF IsPart, @@

(* So is a write to one row.                                               *)
LEMMA PartOfOneRow ==
  ASSUME NEW row \in Row, NEW value, row \in Counter => value \in Nat
  PROVE  IsPart(row :> value)
BY DEF IsPart, :>

(* So is writing nothing.                                                  *)
LEMMA PartOfNothing == IsPart(<< >>)
BY DEF IsPart

(* So are the writes of the statements handlers are made of.               *)
LEMMA PartsOfStatements ==
  ASSUME JobsAreGiven, NEW s
  PROVE  /\ \A rows \in SUBSET Row : IsPart(Ensured(rows, s))
         /\ \A pairs : GrantRows(pairs) \subseteq Row => IsPart(Deleted(pairs, s))
         /\ \A ids \in SUBSET Command :
              CommandRows(ids) \subseteq Row /\ IsPart(Cancelled(ids, s))
<1>1. \A rows \in SUBSET Row : IsPart(Ensured(rows, s))
  BY DEF IsPart, Ensured
<1>2. ASSUME NEW pairs, GrantRows(pairs) \subseteq Row
      PROVE  IsPart(Deleted(pairs, s))
  <2>1. \A row \in GrantRows(pairs) : row \notin Counter
    BY CountersAreApart DEF GrantRows
  <2>. QED  BY <1>2, <2>1 DEF IsPart, Deleted
<1>3. ASSUME NEW ids \in SUBSET Command
      PROVE  CommandRows(ids) \subseteq Row /\ IsPart(Cancelled(ids, s))
  <2>1. \A i \in ids : CommandRow(i) \in Row /\ CommandRow(i) \notin Counter
    BY CommandsHaveNames, PlacesOfRows, CountersAreApart
  <2>2. DOMAIN Cancelled(ids, s) \subseteq CommandRows(ids)
    BY DEF Cancelled, CommandRows, OutstandingIn
  <2>3. CommandRows(ids) \subseteq Row /\ \A row \in CommandRows(ids) : row \notin Counter
    BY <2>1 DEF CommandRows
  <2>. QED  BY <2>2, <2>3 DEF IsPart
<1>. QED
  BY <1>1, <1>2, <1>3

(* The rows of jobs have places.                                           *)
LEMMA PlacesOfJobs ==
  ASSUME JobsAreGiven, NEW p \in Handling
  PROVE  LET job  == JobOf(p)
             low  == Low(job.actor, job.recipient)
             high == High(job.actor, job.recipient)
         IN  /\ {StateRow(job.recipient), PolicyRow(job.recipient),
                 DeviceRow(job.recipient), InvitationRow(job.recipient),
                 CommandRow(p)} \subseteq Row
             /\ job.op \notin {"SET_PAUSED", "POLL", "INGEST", "REVOKE_DEVICE"} =>
                  {SenderRow(job.actor), StateRow(low), StateRow(high),
                   RelationshipRow(job.actor, job.recipient),
                   RelationshipRow(low, high),
                   GrantRow(job.recipient, job.actor),
                   GrantRow(low, high), GrantRow(high, low)} \subseteq Row
             /\ job.op = "INGEST" =>
                  {CommandRow(job.command), ResultRow(job.command)} \subseteq Row
             /\ job.op = "ISSUE" =>
                  /\ RequestRow(job.actor, job.key) \in Row
                  /\ job.replyTo # None =>
                       {CommandRow(job.replyTo), ReplyRow(job.replyTo)} \subseteq Row
<1>. DEFINE job == JobOf(p)
            low  == Low(job.actor, job.recipient)
            high == High(job.actor, job.recipient)
<1>1. job \in Job /\ p \in Names
  BY DEF JobsAreGiven, Names
<1>2. /\ job.recipient \in Person
      /\ job.op \notin {"SET_PAUSED", "POLL", "INGEST", "REVOKE_DEVICE"} =>
           job.actor \in Person /\ low \in Person /\ high \in Person
  BY <1>1, PeopleOfJobs
<1>3. /\ job.op = "INGEST" => job.command \in Names
      /\ job.op = "ISSUE" /\ job.replyTo # None => job.replyTo \in Names
  BY <1>1, TransactionAssumption DEF Names
<1>. HIDE DEF job, low, high
<1>. QED
  BY <1>1, <1>2, <1>3, PlacesOfRows DEF job, low, high

(* Issuances.                                                              *)
LEMMA IssueIsInPlace ==
  ASSUME JobsAreGiven, NEW p \in Handling, JobOf(p).op = "ISSUE",
         NEW s, AreNumbers(s)
  PROVE  IsInPlace(Issue(p, s))
<1>. DEFINE job     == JobOf(p)
            request == RequestRow(job.actor, job.key)
            theirs  == StateRow(job.recipient)
            mine    == SenderRow(job.actor)
            source  == job.replyTo
            work    == Issue(p, s)
<1>1. /\ {request, theirs, mine, PolicyRow(job.recipient), DeviceRow(job.recipient),
          RelationshipRow(job.actor, job.recipient),
          GrantRow(job.recipient, job.actor), CommandRow(p)} \subseteq Row
      /\ source # None => {CommandRow(source), ReplyRow(source)} \subseteq Row
  BY PlacesOfJobs
<1>2. Count(theirs, s) \in Nat /\ Count(mine, s) \in Nat
  <2>1. theirs \in Counter /\ mine \in Counter
    BY PeopleOfJobs, CountersOfPeople DEF JobsAreGiven
  <2>. QED  BY <2>1 DEF Count, AreNumbers
<1>3. CASE IsAnswered(request, s)
  <2>1. work.reads = {request} /\ work.writes = Ensured({theirs}, s)
    BY <1>3 DEF Issue, Replay
  <2>. QED
    BY <1>1, <2>1, PartsOfStatements DEF IsInPlace
<1>4. CASE ~IsAnswered(request, s)
  <2>. DEFINE queued == Authorized(p, s)
              answer == [outcome |-> IF queued THEN "QUEUED" ELSE "REJECTED",
                         id |-> p]
              ejected == CommandRow(p) :> "QUEUED"
              received == theirs :> Count(theirs, s) + 1
              sent == mine :> Count(mine, s) + 1
              counted == IF queued THEN ejected @@ received @@ sent
                                   ELSE Ensured({theirs, mine}, s)
              reply == IF queued /\ source # None THEN ReplyRow(source) :> p
                                                  ELSE << >>
  <2>1. /\ work.writes = (request :> answer) @@ counted @@ reply
        /\ work.reads = {request, theirs, mine, PolicyRow(job.recipient),
                         DeviceRow(job.recipient)}
                        \cup IF source = None
                               THEN {RelationshipRow(job.actor, job.recipient),
                                     GrantRow(job.recipient, job.actor)}
                               ELSE {CommandRow(source), ReplyRow(source)}
    BY <1>4 DEF Issue
  <2>2. work.reads \subseteq Row
    BY <1>1, <2>1
  <2>3. IsPart(request :> answer)
    BY <1>1, PartOfOneRow, CountersAreApart
  <2>4. IsPart(ejected) /\ IsPart(received) /\ IsPart(sent)
    BY <1>1, <1>2, PartOfOneRow, CountersAreApart
  <2>5. IsPart(Ensured({theirs, mine}, s))
    BY <1>1, PartsOfStatements
  <2>6. IsPart(reply)
    BY <1>1, PartOfOneRow, PartOfNothing, CountersAreApart
  <2>. HIDE DEF work, request, answer, ejected, received, sent, reply, theirs, mine, queued
  <2>7. IsPart(counted)
    <3>1. IsPart(ejected @@ received @@ sent)
      BY <2>4, PartsMerge
    <3>. QED  BY <2>5, <3>1
  <2>. HIDE DEF counted
  <2>8. IsPart((request :> answer) @@ counted @@ reply)
    BY <2>3, <2>6, <2>7, PartsMerge
  <2>. QED
    BY <2>1, <2>2, <2>8 DEF IsInPlace, work
<1>. QED
  BY <1>3, <1>4

(* Changes of consent.                                                     *)
LEMMA SetPausedIsInPlace ==
  ASSUME JobsAreGiven, NEW p \in Handling, NEW s
  PROVE  IsInPlace(SetPaused(p, s))
<1>. DEFINE job    == JobOf(p)
            ids    == IF job.paused THEN To(job.recipient) ELSE {}
            state  == StateRow(job.recipient)
            policy == PolicyRow(job.recipient) :> IF job.paused THEN "PAUSED" ELSE "OPEN"
            work   == SetPaused(p, s)
<1>1. /\ work.reads = CommandRows(ids)
      /\ work.writes = policy @@ Cancelled(ids, s) @@ Ensured({state}, s)
  BY DEF SetPaused
<1>2. ids \in SUBSET Command
  BY SelectionsAreCommands
<1>3. PolicyRow(job.recipient) \in Row /\ {state} \in SUBSET Row
  BY PlacesOfJobs
<1>4. IsPart(policy)
  BY <1>3, PartOfOneRow, CountersAreApart
<1>. HIDE DEF work, policy, ids, state
<1>5. /\ CommandRows(ids) \subseteq Row /\ IsPart(Cancelled(ids, s))
      /\ IsPart(Ensured({state}, s))
  BY <1>2, <1>3, PartsOfStatements
<1>6. IsPart(policy @@ Cancelled(ids, s) @@ Ensured({state}, s))
  BY <1>4, <1>5, PartsMerge
<1>. QED
  BY <1>1, <1>5, <1>6 DEF IsInPlace, work

(* A grant given.                                                          *)
LEMMA GiveGrantIsInPlace ==
  ASSUME JobsAreGiven, NEW p \in Handling, JobOf(p).op = "GIVE_GRANT", NEW s
  PROVE  IsInPlace(GiveGrant(p, s))
<1>. DEFINE job   == JobOf(p)
            state == StateRow(job.recipient)
            bond  == RelationshipRow(job.actor, job.recipient)
            grant == GrantRow(job.recipient, job.actor)
            new   == IF s[bond] = "ACTIVE" /\ s[grant] = None
                       THEN grant :> "GIVEN" ELSE << >>
            work  == GiveGrant(p, s)
<1>1. /\ work.reads = {bond, grant}
      /\ work.writes = Ensured({state}, s) @@ new
  BY DEF GiveGrant
<1>2. grant \in Row /\ bond \in Row /\ {state} \in SUBSET Row
  BY PlacesOfJobs
<1>3. IsPart(new)
  BY <1>2, PartOfOneRow, PartOfNothing, CountersAreApart
<1>4. IsPart(Ensured({state}, s))
  BY <1>2, PartsOfStatements
<1>. HIDE DEF work, new, state
<1>5. IsPart(Ensured({state}, s) @@ new)
  BY <1>3, <1>4, PartsMerge
<1>. QED
  BY <1>1, <1>2, <1>5 DEF IsInPlace, work

(* A grant revoked.                                                        *)
LEMMA RevokeGrantIsInPlace ==
  ASSUME JobsAreGiven, NEW p \in Handling, JobOf(p).op = "REVOKE_GRANT", NEW s
  PROVE  IsInPlace(RevokeGrant(p, s))
<1>. DEFINE job   == JobOf(p)
            state == StateRow(job.recipient)
            pairs == {<<job.actor, job.recipient>>}
            ids   == Between(pairs)
            work  == RevokeGrant(p, s)
<1>1. /\ work.reads = GrantRows(pairs) \cup CommandRows(ids)
      /\ work.writes = Deleted(pairs, s) @@ Cancelled(ids, s) @@ Ensured({state}, s)
  BY DEF RevokeGrant
<1>2. {state} \in SUBSET Row /\ GrantRow(job.recipient, job.actor) \in Row
  BY PlacesOfJobs
<1>3. GrantRows(pairs) \subseteq Row
  BY <1>2 DEF GrantRows
<1>4. ids \in SUBSET Command
  BY SelectionsAreCommands
<1>. HIDE DEF work, pairs, ids, state
<1>5. /\ IsPart(Ensured({state}, s)) /\ IsPart(Deleted(pairs, s))
      /\ CommandRows(ids) \subseteq Row /\ IsPart(Cancelled(ids, s))
  BY <1>2, <1>3, <1>4, PartsOfStatements
<1>6. IsPart(Deleted(pairs, s) @@ Cancelled(ids, s) @@ Ensured({state}, s))
  BY <1>5, PartsMerge
<1>. QED
  BY <1>1, <1>3, <1>5, <1>6 DEF IsInPlace, work

(* Changes of a relationship.                                              *)
LEMMA DisconnectIsInPlace ==
  ASSUME JobsAreGiven, NEW p \in Handling, JobOf(p).op = "DISCONNECT", NEW s
  PROVE  IsInPlace(Disconnect(p, s))
<1>. DEFINE job    == JobOf(p)
            low    == Low(job.actor, job.recipient)
            high   == High(job.actor, job.recipient)
            pairs  == BothWays(low, high)
            ids    == Between(pairs)
            bond   == RelationshipRow(low, high)
            states == {StateRow(low), StateRow(high)}
            work   == Disconnect(p, s)
<1>1. /\ bond \in Row /\ states \in SUBSET Row
      /\ GrantRow(low, high) \in Row /\ GrantRow(high, low) \in Row
  BY PlacesOfJobs
<1>2. GrantRows(pairs) \subseteq Row
  BY <1>1 DEF GrantRows, BothWays
<1>3. ids \in SUBSET Command
  BY SelectionsAreCommands
<1>4. IsPart(bond :> "ENDED")
  BY <1>1, PartOfOneRow, CountersAreApart
<1>5. /\ s[bond] # "ACTIVE" => work.reads = {bond} /\ work.writes = Ensured(states, s)
      /\ s[bond] = "ACTIVE" =>
           /\ work.reads = {bond} \cup GrantRows(pairs) \cup CommandRows(ids)
           /\ work.writes = (bond :> "ENDED") @@ Deleted(pairs, s)
                            @@ Cancelled(ids, s) @@ Ensured(states, s)
  BY DEF Disconnect
<1>. HIDE DEF work, pairs, ids, states, bond
<1>6. /\ IsPart(Ensured(states, s)) /\ IsPart(Deleted(pairs, s))
      /\ CommandRows(ids) \subseteq Row /\ IsPart(Cancelled(ids, s))
  BY <1>1, <1>2, <1>3, PartsOfStatements
<1>7. IsPart((bond :> "ENDED") @@ Deleted(pairs, s) @@ Cancelled(ids, s)
             @@ Ensured(states, s))
  BY <1>4, <1>6, PartsMerge
<1>. QED
  BY <1>1, <1>2, <1>5, <1>6, <1>7 DEF IsInPlace, work

(* An invitation accepted: the pair's grants go for a former               *)
(* relationship only.                                                      *)
LEMMA AcceptIsInPlace ==
  ASSUME JobsAreGiven, NEW p \in Handling, JobOf(p).op = "ACCEPT", NEW s
  PROVE  IsInPlace(Accept(p, s))
<1>. DEFINE job   == JobOf(p)
            code  == InvitationRow(job.recipient)
            low   == Low(job.actor, job.recipient)
            high  == High(job.actor, job.recipient)
            bond  == RelationshipRow(low, high)
            pairs == IF s[bond] = "ENDED" THEN BothWays(low, high) ELSE {}
            new   == IF s[bond] = "ACTIVE" THEN << >>
                     ELSE Deleted(pairs, s) @@ (bond :> "ACTIVE")
            work  == Accept(p, s)
<1>1. /\ code \in Row /\ bond \in Row
      /\ GrantRow(low, high) \in Row /\ GrantRow(high, low) \in Row
  BY PlacesOfJobs
<1>2. GrantRows(pairs) \subseteq Row
  <2>. HIDE DEF bond
  <2>. QED  BY <1>1 DEF GrantRows, BothWays
<1>3. IsPart(code :> "USED") /\ IsPart(bond :> "ACTIVE")
  BY <1>1, PartOfOneRow, CountersAreApart
<1>4. /\ s[code] # "PENDING" => work.reads = {code} /\ work.writes = << >>
      /\ s[code] = "PENDING" =>
           /\ work.reads = {code, bond} \cup GrantRows(pairs)
           /\ work.writes = (code :> "USED") @@ new
  BY DEF Accept
<1>. HIDE DEF work, pairs, bond, code
<1>5. IsPart(Deleted(pairs, s))
  BY <1>2, PartsOfStatements
<1>6. IsPart(new)
  <2>1. IsPart(Deleted(pairs, s) @@ (bond :> "ACTIVE"))
    BY <1>3, <1>5, PartsMerge
  <2>. QED  BY <2>1, PartOfNothing
<1>. HIDE DEF new
<1>7. IsPart((code :> "USED") @@ new)
  BY <1>3, <1>6, PartsMerge
<1>. QED
  BY <1>1, <1>2, <1>4, <1>7, PartOfNothing DEF IsInPlace, work

(* What a device does.                                                     *)
LEMMA PollIsInPlace ==
  ASSUME JobsAreGiven, NEW p \in Handling, NEW s
  PROVE  IsInPlace(Poll(p, s))
<1>. DEFINE job    == JobOf(p)
            device == DeviceRow(job.recipient)
            open   == OutstandingIn(To(job.recipient), s)
            oldest == CHOOSE i \in open : \A j \in open : i <= j
            row    == CommandRow(oldest)
            new    == IF open = {} THEN << >>
                      ELSE IF job.late THEN row :> "EXPIRED"
                      ELSE IF s[row] = "DISPATCHED" THEN << >>
                      ELSE row :> "DISPATCHED"
            work   == Poll(p, s)
<1>1. /\ s[device] # "READY" => work.reads = {device} /\ work.writes = << >>
      /\ s[device] = "READY" =>
           /\ work.reads = {device} \cup CommandRows(To(job.recipient))
           /\ work.writes = new
  BY DEF Poll, Unheard
<1>2. device \in Row
  BY PlacesOfJobs
<1>3. CommandRows(To(job.recipient)) \subseteq Row
  BY SelectionsAreCommands, PartsOfStatements
<1>4. open # {} => row \in Row
  <2>. SUFFICES ASSUME open # {} PROVE row \in Row
    OBVIOUS
  <2>1. open \in SUBSET Command
    BY SelectionsAreCommands DEF OutstandingIn
  <2>2. open \in SUBSET Names
    BY <2>1, CommandsHaveNames
  <2>3. open \in SUBSET Nat /\ IsFiniteSet(open)
    BY <2>2, NamesAreFinite, FS_Subset
  <2>. HIDE DEF open
  <2>4. PICK i \in open : \A j \in open : i <= j
    BY <2>3, LeastExists
  <2>5. oldest \in open
    BY <2>4
  <2>. HIDE DEF oldest
  <2>. QED
    BY <2>2, <2>5, PlacesOfRows
<1>5. row \notin Counter
  BY CountersAreApart
<1>. HIDE DEF open, row, device, work
<1>6. IsPart(new)
  BY <1>4, <1>5, PartOfOneRow, PartOfNothing
<1>. HIDE DEF new
<1>. QED
  BY <1>1, <1>2, <1>3, <1>6, PartOfNothing DEF IsInPlace, work

(* A result taken in.                                                      *)
LEMMA IngestIsInPlace ==
  ASSUME JobsAreGiven, NEW p \in Handling, JobOf(p).op = "INGEST", NEW s
  PROVE  IsInPlace(Ingest(p, s))
<1>. DEFINE job    == JobOf(p)
            device == DeviceRow(job.recipient)
            row    == CommandRow(job.command)
            result == ResultRow(job.command)
            both   == (row :> "OUTCOME_UNKNOWN") @@ (result :> p)
            work   == Ingest(p, s)
<1>1. /\ s[device] # "READY" => work.reads = {device} /\ work.writes = << >>
      /\ s[device] = "READY" => /\ work.reads = {device, row, result}
                                /\ work.writes \in {both, << >>}
  BY DEF Ingest, Unheard
<1>2. {device, row, result} \subseteq Row
  BY PlacesOfJobs
<1>3. IsPart(row :> "OUTCOME_UNKNOWN") /\ IsPart(result :> p)
  BY <1>2, PartOfOneRow, CountersAreApart
<1>. HIDE DEF work, device, row, result
<1>4. IsPart(both)
  BY <1>3, PartsMerge
<1>. HIDE DEF both
<1>. QED
  BY <1>1, <1>2, <1>4, PartOfNothing DEF IsInPlace, work

(* A device revoked.                                                       *)
LEMMA RevokeDeviceIsInPlace ==
  ASSUME JobsAreGiven, NEW p \in Handling, NEW s
  PROVE  IsInPlace(RevokeDevice(p, s))
<1>. DEFINE owner  == JobOf(p).recipient
            device == DeviceRow(owner)
            ids    == To(owner)
            work   == RevokeDevice(p, s)
<1>1. /\ s[device] = "REVOKED" => work.reads = {device} /\ work.writes = << >>
      /\ s[device] # "REVOKED" =>
           /\ work.reads = {device} \cup CommandRows(ids)
           /\ work.writes = (device :> "REVOKED") @@ Cancelled(ids, s)
  BY DEF RevokeDevice
<1>2. device \in Row
  BY PlacesOfJobs
<1>3. IsPart(device :> "REVOKED")
  BY <1>2, PartOfOneRow, CountersAreApart
<1>4. CommandRows(ids) \subseteq Row /\ IsPart(Cancelled(ids, s))
  BY SelectionsAreCommands, PartsOfStatements
<1>. HIDE DEF work, device, ids
<1>5. IsPart((device :> "REVOKED") @@ Cancelled(ids, s))
  BY <1>3, <1>4, PartsMerge
<1>. QED
  BY <1>1, <1>2, <1>4, <1>5, PartOfNothing DEF IsInPlace, work

(* Every handler's work.                                                   *)
LEMMA WorkIsInPlace ==
  ASSUME JobsAreGiven, NEW p \in Handling, NEW s, AreNumbers(s)
  PROVE  IsInPlace(Work(p, s))
<1>1. JobOf(p).op \in Operation
  BY TransactionAssumption DEF JobsAreGiven
<1>. QED
  BY <1>1, IssueIsInPlace, SetPausedIsInPlace, GiveGrantIsInPlace,
     RevokeGrantIsInPlace, DisconnectIsInPlace, AcceptIsInPlace,
     PollIsInPlace, IngestIsInPlace, RevokeDeviceIsInPlace
     DEF Operation, Work

----------------------------------------------------------------------------
(* What some handlers of a history leave.                                  *)

Writers(h, some, row) == {i \in some : row \in DOMAIN h[i].writes}

IsLast(i, some) == i \in some /\ \A j \in some : j <= i

(* Every row as the last of them that wrote it left it.                    *)
Left(h, seed, some) ==
  [row \in Row |->
     IF Writers(h, some, row) = {} THEN seed[row]
     ELSE h[CHOOSE i : IsLast(i, Writers(h, some, row))].writes[row]]

(* A finite set of numbers has a greatest one.                             *)
LEMMA LastExists ==
  ASSUME NEW size \in Nat, NEW some \in SUBSET (1..size), some # {}
  PROVE  \E i : IsLast(i, some)
<1>. DEFINE above == {j \in 0..size : \A i \in some : i <= j}
<1>1. above \in SUBSET Nat /\ IsFiniteSet(above) /\ size \in above
  <2>1. IsFiniteSet(0..size) /\ above \in SUBSET (0..size)
    BY FS_Interval
  <2>2. IsFiniteSet(above)
    BY <2>1, FS_Subset
  <2>. QED  BY <2>2
<1>2. PICK least \in above : \A j \in above : least <= j
  <2>. HIDE DEF above
  <2>. QED  BY <1>1, LeastExists
<1>3. least \in some
  <2>. SUFFICES ASSUME least \notin some PROVE FALSE
    OBVIOUS
  <2>1. PICK i \in some : TRUE
    OBVIOUS
  <2>2. i \in 1..size /\ i <= least /\ least \in Nat
    OBVIOUS
  <2>3. least - 1 \in 0..size
    BY <2>2
  <2>4. \A j \in some : j <= least - 1
    OBVIOUS
  <2>5. least - 1 \in above
    BY <2>3, <2>4
  <2>. HIDE DEF above
  <2>6. least <= least - 1
    BY <1>2, <2>5
  <2>. QED  BY <2>2, <2>3, <2>6
<1>. QED
  BY <1>3 DEF IsLast

(* There is but one.                                                       *)
LEMMA LastIsOne ==
  ASSUME NEW size \in Nat, NEW some \in SUBSET (1..size),
         NEW i, IsLast(i, some)
  PROVE  (CHOOSE j : IsLast(j, some)) = i
<1>1. \A j : IsLast(j, some) => j = i
  BY DEF IsLast
<1>. QED  BY <1>1

(* A row is what its writers make it.                                      *)
LEMMA LeftByWriters ==
  ASSUME NEW h, NEW seed, NEW some, NEW others, NEW row \in Row,
         Writers(h, some, row) = Writers(h, others, row)
  PROVE  Left(h, seed, some)[row] = Left(h, seed, others)[row]
BY DEF Left

(* What nobody wrote is as it was, and what somebody wrote is what one of  *)
(* them did.                                                               *)
LEMMA LeftBySomebody ==
  ASSUME NEW size \in Nat, NEW h, NEW seed, NEW some \in SUBSET (1..size),
         NEW row \in Row
  PROVE  \/ Writers(h, some, row) = {} /\ Left(h, seed, some)[row] = seed[row]
         \/ \E i \in Writers(h, some, row) :
              Left(h, seed, some)[row] = h[i].writes[row]
<1>. DEFINE writers == Writers(h, some, row)
<1>1. CASE writers = {}
  BY <1>1 DEF Left
<1>2. CASE writers # {}
  <2>1. writers \in SUBSET (1..size)
    BY DEF Writers
  <2>. HIDE DEF writers
  <2>2. PICK i : IsLast(i, writers)
    BY <1>2, <2>1, LastExists
  <2>3. (CHOOSE j : IsLast(j, writers)) = i
    BY <2>1, <2>2, LastIsOne
  <2>4. Left(h, seed, some)[row] = h[i].writes[row]
    BY <1>2, <2>3 DEF Left, writers
  <2>5. i \in writers
    BY <2>2 DEF IsLast
  <2>. QED
    BY <2>4, <2>5 DEF writers
<1>. QED
  BY <1>1, <1>2

(* One more, which is the last to write what it writes.                    *)
LEMMA LeftGrows ==
  ASSUME NEW size \in Nat, NEW h, NEW seed, NEW some \in SUBSET (1..size),
         NEW i \in 1..size, DOMAIN h[i].writes \subseteq Row,
         \A row \in DOMAIN h[i].writes : \A j \in Writers(h, some, row) : j <= i
  PROVE  Left(h, seed, some \cup {i}) = h[i].writes @@ Left(h, seed, some)
<1>. DEFINE more == some \cup {i}
            new == h[i].writes @@ Left(h, seed, some)
<1>1. DOMAIN Left(h, seed, more) = Row /\ DOMAIN Left(h, seed, some) = Row
  BY DEF Left
<1>2. DOMAIN new = Row
  BY <1>1 DEF @@
<1>3. ASSUME NEW row \in Row, row \in DOMAIN h[i].writes
      PROVE  Left(h, seed, more)[row] = new[row]
  <2>1. IsLast(i, Writers(h, more, row))
    BY <1>3 DEF IsLast, Writers
  <2>2. Writers(h, more, row) \in SUBSET (1..size)
    BY DEF Writers
  <2>3. (CHOOSE j : IsLast(j, Writers(h, more, row))) = i
    BY <2>1, <2>2, LastIsOne
  <2>4. Writers(h, more, row) # {}
    BY <2>1 DEF IsLast
  <2>5. Left(h, seed, more)[row] = h[i].writes[row]
    BY <2>3, <2>4 DEF Left
  <2>. QED
    BY <1>3, <2>5 DEF @@
<1>4. ASSUME NEW row \in Row, row \notin DOMAIN h[i].writes
      PROVE  Left(h, seed, more)[row] = new[row]
  <2>1. Writers(h, more, row) = Writers(h, some, row)
    BY <1>4 DEF Writers
  <2>2. Left(h, seed, more)[row] = Left(h, seed, some)[row]
    BY <2>1, LeftByWriters
  <2>. QED
    BY <1>1, <1>4, <2>2 DEF @@
<1>5. /\ Left(h, seed, more) = [row \in Row |-> Left(h, seed, more)[row]]
      /\ new = [row \in Row |-> new[row]]
  BY <1>1, <1>2 DEF Left, @@
<1>. HIDE DEF new, more
<1>6. \A row \in Row : Left(h, seed, more)[row] = new[row]
  BY <1>3, <1>4
<1>7. Left(h, seed, more) = new
  BY <1>5, <1>6
<1>. QED
  BY <1>7 DEF new, more

(* Nobody's.                                                               *)
LEMMA LeftByNobody ==
  ASSUME NEW h, NEW seed, DOMAIN seed = Row, seed = [row \in Row |-> seed[row]]
  PROVE  Left(h, seed, {}) = seed
BY DEF Left, Writers

----------------------------------------------------------------------------
(* An order as a sequence of places.                                       *)

Before(order, size, i) == {j \in 1..size : <<j, i>> \in order}

(* It lists every place after those before it.                             *)
IsListing(list, order, size) ==
  /\ list \in [1..size -> 1..size]
  /\ \A n, m \in 1..size : n # m => list[n] # list[m]
  /\ \A n \in 1..size :
       Before(order, size, list[n]) = {list[m] : m \in 1..(n - 1)}

(* A place comes at the number of those up to it.                          *)
LEMMA ListingExists ==
  ASSUME NEW size \in Nat, NEW order, IsStrictOrder(order, size)
  PROVE  \E list : IsListing(list, order, size)
<1>. DEFINE S == 1..size
            UpTo(x) == {y \in S : y = x \/ <<y, x>> \in order}
            place == [x \in S |-> Cardinality(UpTo(x))]
<1>1. IsFiniteSet(S) /\ Cardinality(S) = size
  BY FS_Interval
<1>2. ASSUME NEW x \in S
      PROVE  IsFiniteSet(UpTo(x)) /\ Cardinality(UpTo(x)) \in S
  <2>1. /\ IsFiniteSet(UpTo(x))
        /\ Cardinality(UpTo(x)) <= size
    <3>1. UpTo(x) \in SUBSET S
      OBVIOUS
    <3>. HIDE DEF S, UpTo
    <3>. QED  BY <1>1, <3>1, FS_Subset
  <2>2. Cardinality(UpTo(x)) \in Nat
    BY <2>1, FS_CardinalityType
  <2>3. x \in UpTo(x)
    OBVIOUS
  <2>4. Cardinality(UpTo(x)) # 0
    <3>. HIDE DEF UpTo
    <3>. QED  BY <2>1, <2>3, FS_EmptySet
  <2>. HIDE DEF UpTo
  <2>. QED
    BY <2>1, <2>2, <2>4
<1>3. ASSUME NEW x \in S, NEW y \in S, <<x, y>> \in order
      PROVE  Cardinality(UpTo(x)) < Cardinality(UpTo(y))
  <2>1. UpTo(x) \in SUBSET UpTo(y)
    BY <1>3 DEF IsStrictOrder
  <2>2. y \in UpTo(y) /\ y \notin UpTo(x)
    BY <1>3 DEF IsStrictOrder
  <2>. HIDE DEF UpTo
  <2>3. /\ Cardinality(UpTo(x)) <= Cardinality(UpTo(y))
        /\ Cardinality(UpTo(x)) # Cardinality(UpTo(y))
    BY <1>2, <2>1, <2>2, FS_Subset
  <2>. QED
    BY <1>2, <2>3
<1>4. ASSUME NEW x \in S, NEW y \in S
      PROVE  place[x] < place[y] <=> <<x, y>> \in order
  <2>1. place[x] = Cardinality(UpTo(x)) /\ place[y] = Cardinality(UpTo(y))
    OBVIOUS
  <2>2. place[x] \in S /\ place[y] \in S
    BY <1>2, <2>1
  <2>3. <<x, y>> \in order => place[x] < place[y]
    BY <1>3, <2>1
  <2>4. <<y, x>> \in order => place[y] < place[x]
    BY <1>3, <2>1
  <2>5. x # y => <<x, y>> \in order \/ <<y, x>> \in order
    BY DEF IsStrictOrder
  <2>. HIDE DEF place, UpTo
  <2>. QED
    BY <2>2, <2>3, <2>4, <2>5
<1>5. place \in [S -> S] /\ \A a, b \in S : place[a] = place[b] => a = b
  <2>1. place \in [S -> S]
    BY <1>2
  <2>2. \A a, b \in S : a # b => <<a, b>> \in order \/ <<b, a>> \in order
    BY DEF IsStrictOrder
  <2>3. \A a, b \in S : a # b => place[a] < place[b] \/ place[b] < place[a]
    <3>. HIDE DEF place, S
    <3>. SUFFICES ASSUME NEW a \in S, NEW b \in S, a # b
                  PROVE  place[a] < place[b] \/ place[b] < place[a]
      OBVIOUS
    <3>1. CASE <<a, b>> \in order
      BY <1>4, <3>1
    <3>2. CASE <<b, a>> \in order
      BY <1>4, <3>2
    <3>. QED  BY <2>2, <3>1, <3>2
  <2>4. \A a \in S : place[a] \in Nat
    <3>. HIDE DEF place
    <3>. QED  BY <2>1
  <2>5. ASSUME NEW a \in S, NEW b \in S, place[a] = place[b] PROVE a = b
    <3>. HIDE DEF place, S
    <3>1. ~(place[a] < place[b]) /\ ~(place[b] < place[a])
      BY <2>4, <2>5
    <3>. QED  BY <2>3, <3>1
  <2>. HIDE DEF place, S
  <2>. QED  BY <2>1, <2>5
<1>6. \A n \in S : \E x \in S : place[x] = n
  <2>. HIDE DEF place, S
  <2>1. place \in Injection(S, S)
    BY <1>5, Fun_IsInj
  <2>2. place \in Surjection(S, S)
    BY <1>1, <2>1, FS_Injection
  <2>. QED  BY <2>2, Fun_SurjectionProperties
<1>. DEFINE list == [n \in S |-> CHOOSE x \in S : place[x] = n]
<1>7. \A n \in S : list[n] \in S /\ place[list[n]] = n
  <2>. HIDE DEF place, S
  <2>. QED  BY <1>6
<1>8. list \in [S -> S] /\ \A n, m \in S : n # m => list[n] # list[m]
  <2>1. list \in [S -> S]
    BY <1>6
  <2>. HIDE DEF list, place, S
  <2>. QED  BY <1>7, <2>1
<1>9. ASSUME NEW n \in S
      PROVE  Before(order, size, list[n]) = {list[m] : m \in 1..(n - 1)}
  <2>. HIDE DEF list, place, UpTo
  <2>1. ASSUME NEW j \in Before(order, size, list[n])
        PROVE  j \in {list[m] : m \in 1..(n - 1)}
    <3>1. j \in S /\ place[j] < n
      BY <1>4, <1>7 DEF Before
    <3>2. place[j] \in 1..(n - 1)
      BY <1>5, <3>1
    <3>3. list[place[j]] = j
      BY <1>5, <1>7, <3>1
    <3>. QED  BY <3>2, <3>3
  <2>2. ASSUME NEW m \in 1..(n - 1)
        PROVE  list[m] \in Before(order, size, list[n])
    <3>1. m \in S /\ m < n
      OBVIOUS
    <3>2. place[list[m]] < place[list[n]]
      BY <1>7, <3>1
    <3>. QED
      BY <1>4, <1>7, <3>1, <3>2 DEF Before
  <2>. QED
    BY <2>1, <2>2
<1>. HIDE DEF list
<1>. QED
  BY <1>8, <1>9 DEF IsListing

(* All that were before somebody are there at the end.                     *)
LEMMA ListingIsWhole ==
  ASSUME NEW size \in Nat, NEW order, NEW list, IsListing(list, order, size)
  PROVE  {list[m] : m \in 1..size} = 1..size
<1>1. IsFiniteSet(1..size)
  BY FS_Interval
<1>2. list \in Injection(1..size, 1..size)
  BY Fun_IsInj DEF IsListing
<1>3. list \in Surjection(1..size, 1..size)
  BY <1>1, <1>2, FS_Injection
<1>4. \A i \in 1..size : \E m \in 1..size : list[m] = i
  BY <1>3, Fun_SurjectionProperties
<1>. QED
  BY <1>4 DEF IsListing
----------------------------------------------------------------------------
(* One at a time.                                                          *)

(* Of two that write one row the later began after the earlier committed.  *)
FirstCommitterWins(h, size) ==
  \A i, j \in 1..size :
    /\ i < j
    /\ DOMAIN h[i].writes \cap DOMAIN h[j].writes # {}
    => i <= h[j].began

(* Who comes before a handler in the order has written the rows it looked  *)
(* at or writes before it began, and nobody else did.                      *)
LEMMA SameWriters ==
  ASSUME NEW h, NEW size, IsHistory(h, size), FirstCommitterWins(h, size),
         NEW order, IsStrictOrder(order, size), Respects(order, h, size),
         NEW i \in 1..size, NEW row \in h[i].reads \cup DOMAIN h[i].writes
  PROVE  Writers(h, Before(order, size, i), row) = Writers(h, 1..h[i].began, row)
<1>1. size \in Nat /\ h[i].began \in 0..(i - 1)
  BY DEF IsHistory
<1>2. ASSUME NEW j \in 1..h[i].began PROVE j \in Before(order, size, i)
  <2>1. j \in 1..size /\ Precedes(h, j, i)
    BY <1>1 DEF Precedes
  <2>. QED
    BY <2>1 DEF Respects, Before
<1>3. ASSUME NEW j \in Before(order, size, i), row \in DOMAIN h[j].writes
      PROVE  j \in 1..h[i].began
  <2>. SUFFICES ASSUME h[i].began < j PROVE FALSE
    BY <1>1 DEF Before
  <2>1. j \in 1..size /\ <<j, i>> \in order
    BY DEF Before
  <2>2. <<i, j>> \notin order /\ i # j
    BY <2>1 DEF IsStrictOrder
  <2>3. ~Precedes(h, i, j)
    BY <2>1, <2>2 DEF Respects
  <2>4. h[j].began \in Nat /\ h[j].began < i
    BY <2>1, <2>3 DEF Precedes, IsHistory
  <2>5. CASE row \in h[i].reads
    BY <1>3, <2>2, <2>3, <2>4, <2>5 DEF Precedes, Overlooks
  <2>6. CASE row \in DOMAIN h[i].writes
    <3>1. i < j \/ j < i
      BY <2>1, <2>2
    <3>2. i < j => i <= h[j].began
      BY <1>3, <2>1, <2>6 DEF FirstCommitterWins
    <3>3. j < i => j <= h[i].began
      BY <1>3, <2>1, <2>6 DEF FirstCommitterWins
    <3>. QED
      BY <1>1, <2>1, <2>4, <3>1, <3>2, <3>3
  <2>. QED
    BY <2>5, <2>6
<1>. QED
  BY <1>2, <1>3 DEF Writers

(* Who wrote a row before a handler in the order did so before it.         *)
LEMMA WritersInOrder ==
  ASSUME NEW h, NEW size, IsHistory(h, size), FirstCommitterWins(h, size),
         NEW order, IsStrictOrder(order, size), Respects(order, h, size),
         NEW i \in 1..size, NEW row \in DOMAIN h[i].writes,
         NEW j \in Writers(h, Before(order, size, i), row)
  PROVE  j <= i
<1>1. j \in Writers(h, 1..h[i].began, row)
  BY SameWriters
<1>2. j \in 1..h[i].began /\ h[i].began \in 0..(i - 1)
  BY <1>1 DEF Writers, IsHistory
<1>. QED
  BY <1>2

----------------------------------------------------------------------------
(* What holds of the handlers that committed.                              *)

(* What they did, in the order of their commits.                           *)
History ==
  [n \in 1..Len(commits) |->
     [began  |-> handlers[commits[n]].began,
      reads  |-> handlers[commits[n]].work.reads,
      writes |-> handlers[commits[n]].work.writes]]

(* What those left that had committed when a handler began.                *)
Snapshot(p) == Left(History, start, 1..handlers[p].began)

WorksFrom(p, s) == s = Snapshot(p) /\ handlers[p].work = Work(p, s)

(* Handlers do their work on the snapshot, and what is committed is what   *)
(* all of them left.                                                       *)
HandlersWorkOnSnapshots ==
  /\ start \in SeedRows
  /\ db = Left(History, start, 1..Len(commits))
  /\ \A p \in Handling :
       IsOpen(p) \/ p \in Committed => \E s : WorksFrom(p, s)

CommitsAreInPlace ==
  \A n \in 1..Len(commits) : IsInPlace(handlers[commits[n]].work)

(* Of two that wrote a row the second began after the first committed, no  *)
(* dangerous structure was let through, and some order respects what the   *)
(* handlers saw of each other.                                             *)
CommitsAreOrderly ==
  LET size == Len(commits)
  IN  /\ FirstCommitterWins(History, size)
      /\ HasNoStructure(History, size)
      /\ \E order : IsStrictOrder(order, size) /\ Respects(order, History, size)

AtomicInv ==
  /\ PromiseInv
  /\ HandlersWorkOnSnapshots
  /\ CommitsAreInPlace
  /\ CommitsAreOrderly

(* A handler's work depends on what was asked for and on the snapshot.     *)
LEMMA WorkStays ==
  ASSUME JobsAreGiven, Handling' = Handling,
         \A q \in Handling : JobOf(q)' = JobOf(q),
         NEW p \in Handling, NEW s
  PROVE  Work(p, s)' = Work(p, s)
<1>1. JobOf(p)' = JobOf(p) /\ Command' = Command
  BY DEF Command, Handling
<1>2. ASSUME NEW i \in Command PROVE Asked(i)' = Asked(i)
  <2>1. i \in Handling \/ i \in DOMAIN SeedCommand
    BY DEF Command, Handling
  <2>. QED
    BY <2>1, TransactionAssumption DEF Asked
<1>3. \A pairs : Between(pairs)' = Between(pairs)
  BY <1>1, <1>2 DEF Between
<1>4. \A q : To(q)' = To(q)
  BY <1>3 DEF To
<1>5. KindOf(p)' = KindOf(p)
  BY <1>1 DEF KindOf, Asked, JobsAreGiven
<1>6. Authorized(p, s)' <=> Authorized(p, s)
  BY <1>1, <1>5 DEF Authorized
<1>7. Replay(p, s)' = Replay(p, s)
  BY <1>1 DEF Replay
<1>8. Issue(p, s)' = Issue(p, s)
  BY <1>1, <1>6, <1>7 DEF Issue
<1>9. SetPaused(p, s)' = SetPaused(p, s)
  BY <1>1, <1>4 DEF SetPaused
<1>10. GiveGrant(p, s)' = GiveGrant(p, s)
  BY <1>1 DEF GiveGrant
<1>11. RevokeGrant(p, s)' = RevokeGrant(p, s)
  BY <1>1, <1>3 DEF RevokeGrant
<1>12. Disconnect(p, s)' = Disconnect(p, s)
  BY <1>1, <1>3, <1>4 DEF Disconnect
<1>13. Accept(p, s)' = Accept(p, s)
  BY <1>1 DEF Accept
<1>14. Poll(p, s)' = Poll(p, s)
  <2>1. PICK job : job = JobOf(p)
    OBVIOUS
  <2>2. PICK ids : ids = To(job.recipient)
    OBVIOUS
  <2>3. JobOf(p)' = job /\ To(job.recipient)' = ids
    BY <1>1, <1>4, <2>1, <2>2
  <2>. QED
    BY <2>1, <2>2, <2>3 DEF Poll
<1>15. Ingest(p, s)' = Ingest(p, s)
  BY <1>1 DEF Ingest
<1>16. RevokeDevice(p, s)' = RevokeDevice(p, s)
  <2>1. PICK job : job = JobOf(p)
    OBVIOUS
  <2>2. PICK ids : ids = To(job.recipient)
    OBVIOUS
  <2>3. JobOf(p)' = job /\ To(job.recipient)' = ids
    BY <1>1, <1>4, <2>1, <2>2
  <2>. QED
    BY <2>1, <2>2, <2>3 DEF RevokeDevice
<1>. QED
  BY <1>1, <1>8, <1>9, <1>10, <1>11, <1>12, <1>13, <1>14, <1>15, <1>16 DEF Work

(* What handlers leave that did the same in two histories.                 *)
LEMMA LeftStays ==
  ASSUME NEW size \in Nat, NEW some \in SUBSET (1..size), NEW h, NEW k,
         NEW seed, \A i \in some : h[i] = k[i]
  PROVE  Left(h, seed, some) = Left(k, seed, some)
<1>1. ASSUME NEW row \in Row PROVE Left(h, seed, some)[row] = Left(k, seed, some)[row]
  <2>1. Writers(h, some, row) = Writers(k, some, row)
    BY DEF Writers
  <2>. DEFINE writers == Writers(h, some, row)
  <2>2. CASE writers = {}
    BY <2>1, <2>2 DEF Left
  <2>3. CASE writers # {}
    <3>1. writers \in SUBSET (1..size) /\ writers \subseteq some
      BY DEF Writers
    <3>. HIDE DEF writers
    <3>2. PICK i : IsLast(i, writers)
      BY <2>3, <3>1, LastExists
    <3>3. (CHOOSE j : IsLast(j, writers)) = i /\ i \in some
      BY <3>1, <3>2, LastIsOne DEF IsLast
    <3>4. /\ Left(h, seed, some)[row] = h[i].writes[row]
          /\ Left(k, seed, some)[row] = k[i].writes[row]
      BY <2>1, <2>3, <3>3 DEF Left, writers
    <3>. QED  BY <3>3, <3>4
  <2>. QED  BY <2>2, <2>3
<1>2. /\ Left(h, seed, some) = [row \in Row |-> Left(h, seed, some)[row]]
      /\ Left(k, seed, some) = [row \in Row |-> Left(k, seed, some)[row]]
  BY DEF Left
<1>3. Left(h, seed, some) = Left(k, seed, some)
  BY <1>1, <1>2
<1>. QED
  BY <1>3

(* Counters are left as numbers.                                           *)
LEMMA LeftNumbers ==
  ASSUME NEW size \in Nat, NEW h, NEW seed \in SeedRows, NEW some \in SUBSET (1..size),
         \A i \in some : IsPart(h[i].writes)
  PROVE  AreNumbers(Left(h, seed, some))
<1>. SUFFICES ASSUME NEW row \in Counter
              PROVE  Left(h, seed, some)[row] \in Nat \cup {None}
  BY DEF AreNumbers
<1>1. row \in Row /\ seed[row] \in Nat \cup {None}
  BY PlacesOfRows, SeedAssumption DEF Counter
<1>2. \A i \in Writers(h, some, row) : h[i].writes[row] \in Nat
  BY DEF Writers, IsPart
<1>. QED
  BY <1>1, <1>2, LeftBySomebody

(* A step that commits nothing leaves the history as it was.               *)
LEMMA HistoryStays ==
  ASSUME Structured, NEW p \in Handling, OnlyMoves(p), Same,
         handlers[p].phase # "COMMITTED"
  PROVE  /\ History' = History /\ Committed' = Committed
         /\ \A n \in 1..Len(commits) : handlers'[commits[n]] = handlers[commits[n]]
<1>1. commits' = commits /\ Committed' = Committed
  BY NothingNewer DEF Same
<1>2. \A n \in 1..Len(commits) : handlers'[commits[n]] = handlers[commits[n]]
  BY DEF Structured, OnlyMoves
<1>. QED
  BY <1>1, <1>2 DEF History

(* A commit appends one to it.                                             *)
LEMMA HistoryGrows ==
  ASSUME Structured, NEW p \in Handling, Commits(p)
  PROVE  /\ \A n \in 1..Len(commits) : History'[n] = History[n]
         /\ History'[Len(commits) + 1] =
              [began  |-> handlers[p].began,
               reads  |-> handlers[p].work.reads,
               writes |-> handlers[p].work.writes]
<1>. DEFINE last == Len(commits) + 1
<1>1. /\ Len(commits) \in Nat /\ Len(commits') = last /\ commits'[last] = p
      /\ \A n \in 1..Len(commits) :
           commits'[n] = commits[n] /\ handlers'[commits[n]] = handlers[commits[n]]
  BY CommitAppends
<1>2. \A n \in 1..last :
        History'[n] = [began  |-> handlers'[commits'[n]].began,
                       reads  |-> handlers'[commits'[n]].work.reads,
                       writes |-> handlers'[commits'[n]].work.writes]
  BY <1>1 DEF History
<1>3. handlers'[p].began = handlers[p].began /\ handlers'[p].work = handlers[p].work
  BY DEF Commits
<1>4. last \in 1..last /\ \A n \in 1..Len(commits) : n \in 1..last
  BY <1>1
<1>5. History'[last] = [began  |-> handlers[p].began,
                        reads  |-> handlers[p].work.reads,
                        writes |-> handlers[p].work.writes]
  <2>. HIDE DEF last
  <2>. QED  BY <1>1, <1>2, <1>3, <1>4
<1>6. ASSUME NEW n \in 1..Len(commits) PROVE History'[n] = History[n]
  <2>1. History'[n] = [began  |-> handlers[commits[n]].began,
                       reads  |-> handlers[commits[n]].work.reads,
                       writes |-> handlers[commits[n]].work.writes]
    <3>. HIDE DEF last
    <3>. QED  BY <1>1, <1>2, <1>4
  <2>. QED  BY <2>1 DEF History
<1>. QED
  BY <1>5, <1>6

(* Histories are histories.                                                *)
LEMMA HistoryIsOne ==
  ASSUME Structured, CommitsAreSound
  PROVE  IsHistory(History, Len(commits))
BY PlacesOfCommits DEF CommitsAreSound, IsHistory, History

----------------------------------------------------------------------------
(* Every step but a commit leaves that as it was.                          *)

(* Snapshots and the database have numbers where it counts.                *)
LEMMA SnapshotsAreNumbers ==
  ASSUME Structured, CommitsAreInPlace, start \in SeedRows
  PROVE  /\ \A n \in 0..Len(commits) : AreNumbers(Left(History, start, 1..n))
<1>1. Len(commits) \in Nat
  BY LenProperties DEF Structured
<1>2. \A i \in 1..Len(commits) : IsPart(History[i].writes)
  BY DEF CommitsAreInPlace, IsInPlace, History
<1>. HIDE DEF History
<1>3. ASSUME NEW n \in 0..Len(commits)
      PROVE  AreNumbers(Left(History, start, 1..n))
  <2>1. 1..n \in SUBSET (1..Len(commits))
    BY <1>1
  <2>. QED
    BY <1>1, <1>2, <2>1, LeftNumbers
<1>. QED
  BY <1>3

(* A handler's work at its commit: a part of the history to come.          *)
LEMMA OpenWorkIsInPlace ==
  ASSUME AtomicInv, NEW p \in Handling, IsOpen(p)
  PROVE  IsInPlace(handlers[p].work)
<1>1. Structured /\ JobsAreGiven
  BY DEF AtomicInv, PromiseInv, OverlapInv, Structured
<1>2. handlers[p].began \in 0..Len(commits)
  BY <1>1 DEF Structured
<1>3. PICK s : WorksFrom(p, s)
  BY DEF AtomicInv, HandlersWorkOnSnapshots
<1>4. AreNumbers(s) /\ handlers[p].work = Work(p, s)
  BY <1>1, <1>2, <1>3, SnapshotsAreNumbers
     DEF AtomicInv, HandlersWorkOnSnapshots, Snapshot, WorksFrom
<1>. QED
  BY <1>1, <1>3, <1>4, WorkIsInPlace

(* Before anybody commits all is as it was.                                *)
LEMMA AtomicInit == Init => AtomicInv
<1>. SUFFICES ASSUME Init PROVE AtomicInv
  OBVIOUS
<1>1. PromiseInv
  BY PromiseInit
<1>2. start \in SeedRows /\ db = start /\ Len(commits) = 0 /\ commits = << >>
  BY DEF Init
<1>3. \A p \in Handling : ~IsOpen(p) /\ p \notin Committed
  <2>1. \A p \in Handling : ~IsOpen(p)
    BY DEF Init, Handling, IsOpen
  <2>2. Committed = {}
    BY <1>2 DEF Committed
  <2>. QED  BY <2>1, <2>2
<1>4. db = Left(History, start, 1..Len(commits))
  <2>1. start = [row \in Row |-> start[row]]
    BY <1>2, SeedAssumption
  <2>2. 1..Len(commits) = {}
    BY <1>2
  <2>. QED
    BY <1>2, <2>1, <2>2, LeftByNobody
<1>5. CommitsAreInPlace
  BY <1>2 DEF CommitsAreInPlace
<1>6. CommitsAreOrderly
  <2>1. IsStrictOrder({}, 0) /\ Respects({}, History, 0)
    BY DEF IsStrictOrder, Respects
  <2>. QED
    BY <1>2, <2>1 DEF CommitsAreOrderly, FirstCommitterWins, HasNoStructure
<1>. QED
  BY <1>1, <1>2, <1>3, <1>4, <1>5, <1>6 DEF AtomicInv, HandlersWorkOnSnapshots

(* A snapshot stays what it was, and so does the work done on it.          *)
LEMMA SnapshotsStand ==
  ASSUME AtomicInv, NEW p \in Handling,
         OnlyMoves(p), Same \/ Commits(p), handlers[p].phase # "COMMITTED",
         NEW q \in Handling, handlers[q].began \in 0..Len(commits),
         NEW s, WorksFrom(q, s),
         handlers'[q].work = handlers[q].work,
         handlers'[q].began = handlers[q].began
  PROVE  WorksFrom(q, s)'
<1>1. Structured /\ JobsAreGiven /\ Len(commits) \in Nat
  BY LenProperties DEF AtomicInv, PromiseInv, OverlapInv, Structured
<1>2. s = Snapshot(q) /\ handlers[q].work = Work(q, s)
  BY DEF WorksFrom
<1>3. Snapshot(q)' = s
  <2>1. \A i \in 1..Len(commits) : History'[i] = History[i]
    BY <1>1, HistoryStays, HistoryGrows
  <2>2. start' = start
    BY DEF Same, Commits
  <2>3. PICK h : h = History
    OBVIOUS
  <2>4. PICK k : k = History'
    OBVIOUS
  <2>5. PICK seed : seed = start
    OBVIOUS
  <2>6. PICK n : n = handlers[q].began
    OBVIOUS
  <2>7. Left(h, seed, 1..n) = Left(k, seed, 1..n)
    <3>1. PICK size \in Nat : size = Len(commits)
      BY <1>1
    <3>2. (\A i \in 1..size : h[i] = k[i]) /\ n \in 0..size
      BY <2>1, <2>3, <2>4, <2>6, <3>1
    <3>3. PICK some : some = 1..n
      OBVIOUS
    <3>4. some \in SUBSET (1..size) /\ \A i \in some : h[i] = k[i]
      BY <3>1, <3>2, <3>3
    <3>5. Left(h, seed, some) = Left(k, seed, some)
      BY <3>1, <3>4, LeftStays
    <3>. QED
      BY <3>3, <3>5
  <2>8. Snapshot(q)' = Left(k, seed, 1..n)
    BY <2>2, <2>4, <2>5, <2>6 DEF Snapshot
  <2>9. s = Left(h, seed, 1..n)
    BY <1>2, <2>3, <2>5, <2>6 DEF Snapshot
  <2>. QED
    BY <2>7, <2>8, <2>9
<1>4. Handling' = Handling /\ \A r \in Handling : JobOf(r)' = JobOf(r)
  BY <1>1, JobsStay
<1>5. Work(q, s)' = Work(q, s)
  BY <1>1, <1>4, WorkStays
<1>. QED
  BY <1>2, <1>3, <1>5 DEF WorksFrom

(* Nothing of this changes while nobody commits.                           *)
LEMMA AtomicRests ==
  ASSUME AtomicInv, PromiseInv', NEW p \in Handling,
         Opens(p) \/ Takes(p) \/ GivesUp(p)
  PROVE  AtomicInv'
<1>1. /\ Structured /\ JobsAreGiven /\ Structured'
      /\ OnlyMoves(p) /\ Same /\ Handling' = Handling
      /\ handlers[p].phase # "COMMITTED"
  BY DEF AtomicInv, PromiseInv, OverlapInv, Structured, Opens, Takes, GivesUp,
     OnlyMoves, IsOpen
<1>2. /\ History' = History /\ Committed' = Committed
      /\ \A n \in 1..Len(commits) : handlers'[commits[n]] = handlers[commits[n]]
      /\ start' = start /\ db' = db /\ commits' = commits
  BY <1>1, HistoryStays DEF Same
<1>3. ASSUME NEW q \in Handling, IsOpen(q)' \/ q \in Committed
      PROVE  \E s : WorksFrom(q, s)'
  <2>1. CASE q = p /\ Opens(p)
    <3>1. PICK s : s = db
      OBVIOUS
    <3>2. PICK work : work = Work(p, s)
      OBVIOUS
    <3>3. handlers'[p].work = work /\ handlers'[p].began = Len(commits)
      BY <2>1, <3>1, <3>2 DEF Opens
    <3>4. Snapshot(p)' = s
      BY <1>2, <3>1, <3>3 DEF Snapshot, AtomicInv, HandlersWorkOnSnapshots
    <3>5. Handling' = Handling /\ \A r \in Handling : JobOf(r)' = JobOf(r)
      BY <1>1, JobsStay
    <3>6. Work(p, s)' = Work(p, s)
      BY <1>1, <3>5, WorkStays
    <3>. QED
      BY <2>1, <3>2, <3>3, <3>4, <3>6 DEF WorksFrom
  <2>2. CASE q # p \/ Takes(p)
    <3>1. /\ handlers'[q].work = handlers[q].work
          /\ handlers'[q].began = handlers[q].began
          /\ IsOpen(q)' => IsOpen(q)
      BY <1>1, <2>2 DEF OnlyMoves, Takes, IsOpen
    <3>2. PICK s : WorksFrom(q, s)
      BY <1>3, <3>1 DEF AtomicInv, HandlersWorkOnSnapshots
    <3>3. handlers[q].began \in 0..Len(commits)
      <4>1. CASE IsOpen(q)
        BY <1>1, <4>1 DEF Structured
      <4>2. CASE q \in Committed
        BY <1>1, <4>2, PlacesOfCommits
           DEF Committed, AtomicInv, PromiseInv, CommitsAreSound
      <4>. QED
        BY <1>3, <3>1, <4>1, <4>2
    <3>4. WorksFrom(q, s)'
      BY <1>1, <3>1, <3>2, <3>3, SnapshotsStand
    <3>. QED
      BY <3>4
  <2>3. CASE q = p /\ GivesUp(p)
    <3>1. p \notin Committed
      BY <1>1, PlacesOfCommits DEF Structured, Committed, AtomicInv, PromiseInv
    <3>. QED
      BY <1>3, <2>3, <3>1 DEF GivesUp, IsOpen
  <2>. QED
    BY <2>1, <2>2, <2>3
<1>4. HandlersWorkOnSnapshots'
  BY <1>1, <1>2, <1>3 DEF HandlersWorkOnSnapshots, AtomicInv
<1>5. CommitsAreInPlace'
  BY <1>2 DEF CommitsAreInPlace, AtomicInv
<1>6. CommitsAreOrderly'
  BY <1>2 DEF CommitsAreOrderly, AtomicInv
<1>. QED
  BY <1>4, <1>5, <1>6 DEF AtomicInv

----------------------------------------------------------------------------
(* A commit adds one handler to the history, and the order grows by it.    *)

(* What is said of a history is said of one that began alike.              *)
LEMMA AlikeHistories ==
  ASSUME NEW size, NEW h, NEW k, \A i \in 1..size : h[i] = k[i]
  PROVE  /\ IsHistory(k, size) => IsHistory(h, size)
         /\ FirstCommitterWins(k, size) => FirstCommitterWins(h, size)
         /\ HasNoStructure(k, size) => HasNoStructure(h, size)
         /\ \A order : Respects(order, k, size) => Respects(order, h, size)
<1>1. \A i, j \in 1..size : /\ Overlooks(h, i, j) <=> Overlooks(k, i, j)
                            /\ Precedes(h, i, j) <=> Precedes(k, i, j)
  BY DEF Overlooks, Precedes
<1>2. \A i, j, l \in 1..size : IsStructure(h, i, j, l) <=> IsStructure(k, i, j, l)
  BY <1>1 DEF IsStructure
<1>3. IsHistory(k, size) => IsHistory(h, size)
  BY DEF IsHistory
<1>4. FirstCommitterWins(k, size) => FirstCommitterWins(h, size)
  BY DEF FirstCommitterWins
<1>. QED
  BY <1>1, <1>2, <1>3, <1>4 DEF HasNoStructure, Respects

(* The history after a commit.                                             *)
LEMMA NextHistory ==
  ASSUME AtomicInv, NEW p \in Handling, Commits(p),
         NEW h, h = History', NEW size, size = Len(commits)
  PROVE  /\ size \in Nat /\ IsHistory(h, size + 1)
         /\ \A i \in 1..size : h[i] = History[i]
         /\ h[size + 1] = [began  |-> handlers[p].began,
                           reads  |-> handlers[p].work.reads,
                           writes |-> handlers[p].work.writes]
         /\ FirstCommitterWins(h, size) /\ HasNoStructure(h, size)
         /\ \E order : IsStrictOrder(order, size) /\ Respects(order, h, size)
<1>1. Structured /\ CommitsAreSound /\ CommitsAreOrderly
  BY DEF AtomicInv, PromiseInv, OverlapInv
<1>2. /\ size \in Nat
      /\ \A i \in 1..size : h[i] = History[i]
      /\ h[size + 1] = [began  |-> handlers[p].began,
                        reads  |-> handlers[p].work.reads,
                        writes |-> handlers[p].work.writes]
  BY <1>1, HistoryGrows, LenProperties DEF Structured
<1>3. IsHistory(History, size)
  BY <1>1, HistoryIsOne
<1>4. PICK k : k = History
  OBVIOUS
<1>5. /\ IsHistory(h, size) /\ FirstCommitterWins(h, size) /\ HasNoStructure(h, size)
      /\ \E order : IsStrictOrder(order, size) /\ Respects(order, h, size)
  <2>1. /\ IsHistory(k, size) /\ FirstCommitterWins(k, size)
        /\ HasNoStructure(k, size)
        /\ \E order : IsStrictOrder(order, size) /\ Respects(order, k, size)
    BY <1>1, <1>3, <1>4 DEF CommitsAreOrderly
  <2>2. \A i \in 1..size : h[i] = k[i]
    BY <1>2, <1>4
  <2>. QED
    BY <2>1, <2>2, AlikeHistories
<1>6. handlers[p].began \in 0..size
  BY <1>1 DEF Structured, Commits
<1>7. IsHistory(h, size + 1)
  BY <1>2, <1>5, <1>6 DEF IsHistory
<1>. QED
  BY <1>2, <1>5, <1>7

(* What a commit writes nobody wrote since it began.                       *)
LEMMA FirstStillWins ==
  ASSUME AtomicInv, NEW p \in Handling, Commits(p),
         NEW h, h = History', NEW size, size = Len(commits)
  PROVE  FirstCommitterWins(h, size + 1)
<1>1. /\ size \in Nat /\ IsHistory(h, size + 1)
      /\ \A i \in 1..size : h[i] = History[i]
      /\ h[size + 1] = [began  |-> handlers[p].began,
                        reads  |-> handlers[p].work.reads,
                        writes |-> handlers[p].work.writes]
      /\ FirstCommitterWins(h, size)
  BY NextHistory
<1>2. handlers[p].began \in 0..size
  BY <1>1 DEF IsHistory
<1>3. ASSUME NEW i \in 1..size, DOMAIN h[i].writes \cap DOMAIN h[size + 1].writes # {}
      PROVE  i <= h[size + 1].began
  <2>1. PICK row : row \in DOMAIN h[i].writes /\ row \in Written(p)
    BY <1>1, <1>3 DEF Written
  <2>2. row \notin Newer(p)
    BY <2>1 DEF Commits
  <2>3. row \in Written(commits[i])
    <3>1. h[i] = [began  |-> handlers[commits[i]].began,
                  reads  |-> handlers[commits[i]].work.reads,
                  writes |-> handlers[commits[i]].work.writes]
      BY <1>1 DEF History
    <3>. QED
      BY <2>1, <3>1 DEF Written
  <2>4. i \notin (handlers[p].began + 1)..Len(commits)
    BY <2>2, <2>3, NewerRows
  <2>. QED
    BY <1>1, <1>2, <2>4
<1>. QED
  BY <1>1, <1>3 DEF FirstCommitterWins

(* PostgreSQL refused the commit if it completed a dangerous structure.    *)
LEMMA NoStructureYet ==
  ASSUME AtomicInv, NEW p \in Handling, Commits(p),
         NEW h, h = History', NEW size, size = Len(commits)
  PROVE  HasNoStructure(h, size + 1)
<1>1. /\ size \in Nat /\ IsHistory(h, size + 1)
      /\ \A i \in 1..size : h[i] = History[i]
      /\ h[size + 1] = [began  |-> handlers[p].began,
                        reads  |-> handlers[p].work.reads,
                        writes |-> handlers[p].work.writes]
      /\ HasNoStructure(h, size)
  BY NextHistory
<1>2. Structured /\ CommitsAreSound /\ p \notin Committed
  BY PlacesOfCommits DEF AtomicInv, PromiseInv, OverlapInv, Structured, Commits,
     IsOpen, Committed
<1>. DEFINE who(i) == IF i = size + 1 THEN p ELSE commits[i]
<1>3. ASSUME NEW i \in 1..(size + 1)
      PROVE  /\ who(i) \in Committed \cup {p} /\ Place(who(i)) = i
             /\ h[i].began = handlers[who(i)].began
             /\ h[i].reads = handlers[who(i)].work.reads
             /\ DOMAIN h[i].writes = Written(who(i))
  <2>1. CASE i = size + 1
    BY <1>1, <1>2, <2>1, PlacesOfCommits DEF Written
  <2>2. CASE i \in 1..size
    <3>1. who(i) = commits[i] /\ h[i] = History[i]
      BY <1>1, <2>2
    <3>2. commits[i] \in Committed /\ Place(commits[i]) = i
      BY <1>2, <2>2, PlacesOfCommits
    <3>3. History[i] = [began  |-> handlers[commits[i]].began,
                        reads  |-> handlers[commits[i]].work.reads,
                        writes |-> handlers[commits[i]].work.writes]
      BY <1>1, <2>2 DEF History
    <3>. HIDE DEF who
    <3>4. DOMAIN h[i].writes = Written(who(i))
      BY <3>1, <3>3 DEF Written
    <3>. QED
      BY <3>1, <3>2, <3>3, <3>4
  <2>. QED  BY <1>1, <2>1, <2>2
<1>. HIDE DEF who
<1>4. ASSUME NEW i \in 1..(size + 1), NEW j \in 1..(size + 1), Overlooks(h, i, j)
      PROVE  ReadBefore(who(i), who(j)) /\ who(i) # who(j)
  BY <1>3, <1>4 DEF Overlooks, ReadBefore
<1>5. ASSUME NEW i \in 1..(size + 1), NEW j \in 1..(size + 1), NEW k \in 1..(size + 1),
             IsStructure(h, i, j, k)
      PROVE  FALSE
  <2>1. /\ Overlooks(h, i, j) /\ Overlooks(h, j, k) /\ k < j /\ k <= i
        /\ DOMAIN h[i].writes # {} \/ k <= h[i].began
    BY <1>5 DEF IsStructure
  <2>2. k \in 1..size
    BY <1>1, <2>1
  <2>3. CASE i \in 1..size /\ j \in 1..size
    BY <1>1, <1>5, <2>2, <2>3 DEF HasNoStructure
  <2>4. CASE i = size + 1 \/ j = size + 1
    <3>1. p \in {who(i), who(j)}
      BY <2>4 DEF who
    <3>2. /\ ReadBefore(who(i), who(j)) /\ ReadBefore(who(j), who(k))
          /\ who(i) # who(j) /\ who(j) # who(k)
      BY <1>4, <2>1
    <3>3. /\ Place(who(k)) < Place(who(j)) /\ Place(who(k)) <= Place(who(i))
          /\ Written(who(i)) # {} \/ Place(who(k)) <= handlers[who(i)].began
      BY <1>3, <2>1
    <3>4. {who(i), who(j), who(k)} \subseteq Committed \cup {p}
      BY <1>3
    <3>5. IsDangerous(p)
      BY <3>1, <3>2, <3>3, <3>4 DEF IsDangerous
    <3>. QED
      BY <3>5 DEF Commits
  <2>. QED
    BY <1>1, <2>3, <2>4
<1>. QED
  BY <1>5 DEF HasNoStructure

(* Commits stay in an order.                                               *)
LEMMA CommitsStayOrderly ==
  ASSUME AtomicInv, NEW p \in Handling, Commits(p)
  PROVE  CommitsAreOrderly'
<1>1. PICK h : h = History'
  OBVIOUS
<1>2. PICK size : size = Len(commits)
  OBVIOUS
<1>3. /\ size \in Nat /\ IsHistory(h, size + 1)
      /\ \E order : IsStrictOrder(order, size) /\ Respects(order, h, size)
  BY <1>1, <1>2, NextHistory
<1>4. FirstCommitterWins(h, size + 1) /\ HasNoStructure(h, size + 1)
  BY <1>1, <1>2, FirstStillWins, NoStructureYet
<1>5. \E order : IsStrictOrder(order, size + 1) /\ Respects(order, h, size + 1)
  BY <1>3, <1>4, OrderGrows
<1>6. Len(commits') = size + 1
  BY <1>2, CommitAppends DEF AtomicInv, PromiseInv, OverlapInv
<1>. QED
  BY <1>1, <1>4, <1>5, <1>6 DEF CommitsAreOrderly

(* A commit leaves what all that committed left.                           *)
LEMMA CommitLeaves ==
  ASSUME AtomicInv, NEW p \in Handling, Commits(p)
  PROVE  db' = Left(History, start, 1..Len(commits))'
<1>1. PICK h : h = History'
  OBVIOUS
<1>2. PICK size : size = Len(commits)
  OBVIOUS
<1>3. PICK seed : seed = start
  OBVIOUS
<1>4. /\ size \in Nat
      /\ \A i \in 1..size : h[i] = History[i]
      /\ h[size + 1].writes = handlers[p].work.writes
  <2>1. /\ size \in Nat
        /\ \A i \in 1..size : h[i] = History[i]
        /\ h[size + 1] = [began  |-> handlers[p].began,
                          reads  |-> handlers[p].work.reads,
                          writes |-> handlers[p].work.writes]
    BY <1>1, <1>2, NextHistory
  <2>. QED  BY <2>1
<1>5. db = Left(h, seed, 1..size)
  <2>1. PICK k : k = History
    OBVIOUS
  <2>2. db = Left(k, seed, 1..size)
    BY <1>2, <1>3, <2>1 DEF AtomicInv, HandlersWorkOnSnapshots
  <2>3. PICK some : some = 1..size
    OBVIOUS
  <2>4. Left(k, seed, some) = Left(h, seed, some)
    <3>1. some \in SUBSET (1..size) /\ \A i \in some : k[i] = h[i]
      BY <1>4, <2>1, <2>3
    <3>. QED
      BY <1>4, <3>1, LeftStays
  <2>. QED  BY <2>2, <2>3, <2>4
<1>6. IsPart(handlers[p].work.writes)
  BY OpenWorkIsInPlace DEF Commits, IsInPlace
<1>7. Left(h, seed, (1..size) \cup {size + 1})
        = h[size + 1].writes @@ Left(h, seed, 1..size)
  <2>1. DOMAIN h[size + 1].writes \subseteq Row
    BY <1>4, <1>6 DEF IsPart
  <2>2. PICK next \in Nat : next = size + 1
    BY <1>4
  <2>3. PICK some : some = 1..size
    OBVIOUS
  <2>4. some \in SUBSET (1..next) /\ next \in 1..next
    BY <1>4, <2>2, <2>3
  <2>5. \A row \in DOMAIN h[next].writes : \A j \in Writers(h, some, row) : j <= next
    BY <1>4, <2>2, <2>3 DEF Writers
  <2>6. DOMAIN h[next].writes \subseteq Row
    BY <2>1, <2>2
  <2>7. Left(h, seed, some \cup {next}) = h[next].writes @@ Left(h, seed, some)
    BY <2>4, <2>5, <2>6, LeftGrows
  <2>. QED
    BY <2>2, <2>3, <2>7
<1>8. (1..size) \cup {size + 1} = 1..(size + 1)
  BY <1>4
<1>9. Len(commits') = size + 1 /\ start' = seed
  BY <1>2, <1>3, CommitAppends DEF AtomicInv, PromiseInv, OverlapInv, Commits
<1>10. db' = h[size + 1].writes @@ db
  BY <1>4 DEF Commits
<1>. QED
  BY <1>1, <1>5, <1>7, <1>8, <1>9, <1>10

(* A commit keeps all of this.                                             *)
LEMMA AtomicCommits ==
  ASSUME AtomicInv, PromiseInv', NEW p \in Handling, Commits(p)
  PROVE  AtomicInv'
<1>1. /\ Structured /\ JobsAreGiven
      /\ OnlyMoves(p) /\ Handling' = Handling
      /\ handlers[p].phase # "COMMITTED" /\ IsOpen(p)
  BY DEF AtomicInv, PromiseInv, OverlapInv, Structured, Commits, OnlyMoves, IsOpen
<1>2. ASSUME NEW q \in Handling, IsOpen(q)' \/ q \in Committed'
      PROVE  \E s : WorksFrom(q, s)'
  <2>1. Committed' = Committed \cup {p}
    BY <1>1, CommitMakesNewer
  <2>2. /\ handlers'[q].work = handlers[q].work
        /\ handlers'[q].began = handlers[q].began
        /\ IsOpen(q)' => IsOpen(q)
    BY <1>1 DEF OnlyMoves, Commits, IsOpen
  <2>3. IsOpen(q) \/ q \in Committed
    BY <1>1, <1>2, <2>1, <2>2
  <2>4. PICK s : WorksFrom(q, s)
    BY <2>3 DEF AtomicInv, HandlersWorkOnSnapshots
  <2>5. handlers[q].began \in 0..Len(commits)
    <3>1. CASE IsOpen(q)
      BY <1>1, <3>1 DEF Structured
    <3>2. CASE q \in Committed
      BY <1>1, <3>2, PlacesOfCommits
         DEF Committed, AtomicInv, PromiseInv, CommitsAreSound
    <3>. QED
      BY <2>3, <3>1, <3>2
  <2>6. WorksFrom(q, s)'
    BY <1>1, <2>2, <2>4, <2>5, SnapshotsStand
  <2>. QED
    BY <2>6
<1>3. HandlersWorkOnSnapshots'
  BY <1>1, <1>2, CommitLeaves DEF HandlersWorkOnSnapshots, AtomicInv, Commits
<1>4. CommitsAreInPlace'
  <2>1. IsInPlace(handlers[p].work)
    BY <1>1, OpenWorkIsInPlace
  <2>2. handlers'[p].work = handlers[p].work
    BY DEF Commits
  <2>3. PICK last : last = Len(commits) + 1
    OBVIOUS
  <2>4. /\ Len(commits) \in Nat /\ Len(commits') = last /\ commits'[last] = p
        /\ \A n \in 1..Len(commits) :
             commits'[n] = commits[n] /\ handlers'[commits[n]] = handlers[commits[n]]
    BY <1>1, <2>3, CommitAppends
  <2>5. \A n \in 1..last : n \in 1..Len(commits) \/ n = last
    BY <2>3, <2>4
  <2>6. \A n \in 1..last : IsInPlace(handlers'[commits'[n]].work)
    BY <2>1, <2>2, <2>4, <2>5 DEF AtomicInv, CommitsAreInPlace
  <2>. QED
    BY <2>4, <2>6 DEF CommitsAreInPlace
<1>5. CommitsAreOrderly'
  BY CommitsStayOrderly
<1>. QED
  BY <1>3, <1>4, <1>5 DEF AtomicInv

(* Every step keeps it.                                                    *)
LEMMA AtomicStep == AtomicInv /\ [Next]_vars => AtomicInv'
<1>. SUFFICES ASSUME AtomicInv, [Next]_vars PROVE AtomicInv'
  OBVIOUS
<1>1. PromiseInv'
  BY PromiseStep DEF AtomicInv
<1>2. CASE Next
  <2>1. PICK p \in Handling : Opens(p) \/ Takes(p) \/ GivesUp(p) \/ Commits(p)
    BY <1>2, StepsAreOfFourKinds DEF AtomicInv, PromiseInv, OverlapInv
  <2>. QED
    BY <1>1, <2>1, AtomicRests, AtomicCommits
<1>3. CASE UNCHANGED vars
  <2>1. /\ start' = start /\ db' = db /\ commits' = commits /\ handlers' = handlers
        /\ Handling' = Handling /\ Committed' = Committed
    BY <1>3 DEF vars, Handling, Committed
  <2>2. History' = History
    BY <2>1 DEF History
  <2>3. \A q \in Handling : JobOf(q)' = JobOf(q) /\ (IsOpen(q)' <=> IsOpen(q))
                            /\ Snapshot(q)' = Snapshot(q)
    BY <2>1, <2>2 DEF JobOf, IsOpen, Snapshot
  <2>4. ASSUME NEW q \in Handling, NEW s, WorksFrom(q, s)
        PROVE  WorksFrom(q, s)'
    <3>1. JobsAreGiven
      BY DEF AtomicInv, PromiseInv, OverlapInv, Structured
    <3>2. Work(q, s)' = Work(q, s)
      BY <2>1, <2>3, <3>1, WorkStays
    <3>. QED
      BY <2>1, <2>3, <2>4, <3>2 DEF WorksFrom
  <2>5. HandlersWorkOnSnapshots'
    BY <2>1, <2>2, <2>3, <2>4 DEF HandlersWorkOnSnapshots, AtomicInv
  <2>6. CommitsAreInPlace' /\ CommitsAreOrderly'
    BY <2>1, <2>2 DEF CommitsAreInPlace, CommitsAreOrderly, AtomicInv
  <2>. QED
    BY <1>1, <2>5, <2>6 DEF AtomicInv
<1>. QED
  BY <1>2, <1>3

(* What makes overlapping handlers as good as one after the other, whoever *)
(* they are and however often they try: the database is what the commits   *)
(* left, whoever has done its work did it on a snapshot of it, and the     *)
(* commits can be put in an order that respects what each overlooked.      *)
THEOREM AtomicIsInductive == Spec => []AtomicInv
<1>. QED
  BY AtomicInit, AtomicStep, PTL DEF Spec

----------------------------------------------------------------------------
(* One handler at a time.                                                  *)

(* The first of a listing.                                                 *)
First(list, n) == {list[m] : m \in 1..n}

(* One more handler alone leaves what the first and it leave together.     *)
LEMMA OneMore ==
  ASSUME NEW h, NEW size, IsHistory(h, size), FirstCommitterWins(h, size),
         NEW order, IsStrictOrder(order, size), Respects(order, h, size),
         NEW list, IsListing(list, order, size),
         \A i \in 1..size : DOMAIN h[i].writes \subseteq Row,
         NEW seed, NEW n \in 1..size
  PROVE  Left(h, seed, First(list, n))
           = h[list[n]].writes @@ Left(h, seed, First(list, n - 1))
<1>1. size \in Nat
  BY DEF IsHistory
<1>2. PICK some : some = First(list, n - 1)
  OBVIOUS
<1>3. PICK i : i = list[n]
  OBVIOUS
<1>4. i \in 1..size /\ some = Before(order, size, i)
  BY <1>2, <1>3 DEF IsListing, First
<1>5. First(list, n) = some \cup {i}
  <2>1. \A m : m \in 1..n <=> m \in 1..(n - 1) \/ m = n
    BY <1>1
  <2>. QED
    BY <1>2, <1>3, <2>1 DEF First
<1>6. some \in SUBSET (1..size)
  BY <1>4 DEF Before
<1>7. \A row \in DOMAIN h[i].writes : \A j \in Writers(h, some, row) : j <= i
  BY <1>4, WritersInOrder
<1>8. DOMAIN h[i].writes \subseteq Row
  BY <1>4
<1>9. Left(h, seed, some \cup {i}) = h[i].writes @@ Left(h, seed, some)
  BY <1>1, <1>4, <1>6, <1>7, <1>8, LeftGrows
<1>. QED
  BY <1>2, <1>3, <1>5, <1>9

IsRun(run, h, seed, list, size) ==
  run = [n \in 0..size |->
           IF n = 0 THEN seed ELSE h[list[n]].writes @@ run[n - 1]]

(* Handlers run one at a time leave after every step what those that ran   *)
(* left in the history.                                                    *)
LEMMA OneAtATime ==
  ASSUME NEW h, NEW size, IsHistory(h, size), FirstCommitterWins(h, size),
         NEW order, IsStrictOrder(order, size), Respects(order, h, size),
         NEW list, IsListing(list, order, size),
         \A i \in 1..size : DOMAIN h[i].writes \subseteq Row,
         NEW seed, seed = [row \in Row |-> seed[row]]
  PROVE  /\ \E run : IsRun(run, h, seed, list, size)
         /\ \A run : IsRun(run, h, seed, list, size) =>
              \A n \in 0..size : run[n] = Left(h, seed, First(list, n))
<1>. DEFINE after(n) == Left(h, seed, First(list, n))
<1>1. size \in Nat
  BY DEF IsHistory
<1>2. after(0) = seed
  <2>1. First(list, 0) = {}
    BY DEF First
  <2>. QED
    BY <2>1, LeftByNobody
<1>3. \A n \in 1..size : after(n) = h[list[n]].writes @@ after(n - 1)
  BY OneMore
<1>. HIDE DEF after
<1>4. \E run : IsRun(run, h, seed, list, size)
  <2>. DEFINE run == [n \in 0..size |-> after(n)]
  <2>1. ASSUME NEW n \in 0..size
        PROVE  after(n) = IF n = 0 THEN seed ELSE h[list[n]].writes @@ run[n - 1]
    <3>1. CASE n = 0
      BY <1>2, <3>1
    <3>2. CASE n # 0
      <4>1. n \in 1..size /\ n - 1 \in 0..size
        BY <1>1, <3>2
      <4>2. run[n - 1] = after(n - 1)
        BY <4>1
      <4>. HIDE DEF run
      <4>. QED  BY <1>3, <3>2, <4>1, <4>2
    <3>. QED  BY <3>1, <3>2
  <2>2. run = [n \in 0..size |->
                 IF n = 0 THEN seed ELSE h[list[n]].writes @@ run[n - 1]]
    BY <2>1
  <2>. HIDE DEF run
  <2>. QED
    BY <2>2 DEF IsRun
<1>5. ASSUME NEW run, IsRun(run, h, seed, list, size)
      PROVE  \A n \in 0..size : run[n] = after(n)
  <2>. DEFINE wrong == {n \in 0..size : run[n] # after(n)}
  <2>1. \A n \in 0..size :
          run[n] = IF n = 0 THEN seed ELSE h[list[n]].writes @@ run[n - 1]
    BY <1>5 DEF IsRun
  <2>2. CASE wrong = {}
    BY <2>2
  <2>3. CASE wrong # {}
    <3>1. wrong \in SUBSET Nat /\ IsFiniteSet(wrong)
      <4>1. 0 \in Int /\ size \in Int
        BY <1>1
      <4>2. IsFiniteSet(0..size)
        BY <4>1, FS_Interval
      <4>3. wrong \in SUBSET (0..size)
        OBVIOUS
      <4>4. wrong \in SUBSET Nat
        BY <1>1
      <4>. HIDE DEF wrong
      <4>5. IsFiniteSet(wrong)
        BY <4>2, <4>3, FS_Subset
      <4>. QED  BY <4>4, <4>5
    <3>2. PICK n \in wrong : \A m \in wrong : n <= m
      <4>. HIDE DEF wrong
      <4>. QED  BY <2>3, <3>1, LeastExists
    <3>3. n \in 0..size /\ run[n] # after(n)
      OBVIOUS
    <3>4. n # 0
      BY <1>2, <2>1, <3>3
    <3>5. n \in 1..size /\ n - 1 \in 0..size /\ ~(n <= n - 1)
      BY <1>1, <3>3, <3>4
    <3>6. run[n - 1] = after(n - 1)
      BY <3>2, <3>5
    <3>. HIDE DEF wrong
    <3>7. run[n] = h[list[n]].writes @@ run[n - 1]
      BY <2>1, <3>3, <3>4
    <3>. QED
      BY <1>3, <3>3, <3>5, <3>6, <3>7
  <2>. QED
    BY <2>2, <2>3
<1>. QED
  BY <1>4, <1>5 DEF after

(* What a handler finds when it runs alone is as good as its snapshot.     *)
LEMMA AloneIsAsGood ==
  ASSUME NEW h, NEW size, IsHistory(h, size), FirstCommitterWins(h, size),
         NEW order, IsStrictOrder(order, size), Respects(order, h, size),
         \A i \in 1..size : IsPart(h[i].writes),
         NEW seed \in SeedRows, NEW i \in 1..size,
         NEW work, IsInPlace(work), work.reads = h[i].reads, work.writes = h[i].writes
  PROVE  AsGoodFor(work, Left(h, seed, 1..h[i].began),
                   Left(h, seed, Before(order, size, i)))
<1>1. size \in Nat /\ h[i].began \in 0..(i - 1)
  BY DEF IsHistory
<1>2. PICK s : s = Left(h, seed, 1..h[i].began)
  OBVIOUS
<1>3. PICK t : t = Left(h, seed, Before(order, size, i))
  OBVIOUS
<1>4. ASSUME NEW row \in work.reads \cup DOMAIN work.writes
      PROVE  t[row] = s[row]
  <2>1. row \in Row
    BY DEF IsInPlace, IsPart
  <2>2. Writers(h, Before(order, size, i), row) = Writers(h, 1..h[i].began, row)
    BY SameWriters
  <2>. QED
    BY <1>2, <1>3, <2>1, <2>2, LeftByWriters
<1>5. ASSUME NEW row \in Counter, s[row] # None
      PROVE  t[row] # None
  <2>1. row \in Row
    BY PlacesOfRows DEF Counter
  <2>2. PICK early : early = 1..h[i].began
    OBVIOUS
  <2>3. PICK before : before = Before(order, size, i)
    OBVIOUS
  <2>4. early \in SUBSET (1..size) /\ before \in SUBSET (1..size)
    BY <1>1, <2>2, <2>3 DEF Before
  <2>5. early \subseteq before
    <3>1. \A j \in 1..h[i].began : j \in 1..size /\ Precedes(h, j, i)
      BY <1>1 DEF Precedes
    <3>. QED
      BY <2>2, <2>3, <3>1 DEF Respects, Before
  <2>6. \A j \in Writers(h, before, row) : h[j].writes[row] # None
    <3>1. \A j \in Writers(h, before, row) : h[j].writes[row] \in Nat
      BY <2>4 DEF Writers, IsPart
    <3>. QED
      BY <3>1, TransactionAssumption
  <2>7. Writers(h, before, row) = {} => t[row] = s[row]
    <3>. SUFFICES ASSUME Writers(h, before, row) = {} PROVE t[row] = s[row]
      OBVIOUS
    <3>1. Writers(h, early, row) = Writers(h, before, row)
      BY <2>5 DEF Writers
    <3>2. Left(h, seed, early)[row] = Left(h, seed, before)[row]
      BY <2>1, <3>1, LeftByWriters
    <3>. QED
      BY <1>2, <1>3, <2>2, <2>3, <3>2
  <2>8. \/ Writers(h, before, row) = {}
        \/ \E j \in Writers(h, before, row) : t[row] = h[j].writes[row]
    <3>1. t = Left(h, seed, before)
      BY <1>3, <2>3
    <3>2. \/ Writers(h, before, row) = {} /\ Left(h, seed, before)[row] = seed[row]
          \/ \E j \in Writers(h, before, row) :
               Left(h, seed, before)[row] = h[j].writes[row]
      BY <1>1, <2>1, <2>4, LeftBySomebody
    <3>. QED
      BY <3>1, <3>2
  <2>. QED
    BY <1>5, <2>6, <2>7, <2>8
<1>. QED
  BY <1>2, <1>3, <1>4, <1>5 DEF AsGoodFor

----------------------------------------------------------------------------
(* The order explains what the handlers did and answered.                  *)

(* The order and the listing there are.                                    *)
IsOrdering(order, list) ==
  /\ IsStrictOrder(order, Len(commits))
  /\ Respects(order, History, Len(commits))
  /\ IsListing(list, order, Len(commits))

(* There is one: the commits are orderly and finitely many.                *)
LEMMA OrderingExists == AtomicInv => \E order, list : IsOrdering(order, list)
<1>. SUFFICES ASSUME AtomicInv PROVE \E order, list : IsOrdering(order, list)
  OBVIOUS
<1>1. Len(commits) \in Nat
  BY LenProperties DEF AtomicInv, PromiseInv, OverlapInv, Structured
<1>2. PICK order : IsStrictOrder(order, Len(commits)) /\ Respects(order, History, Len(commits))
  BY DEF AtomicInv, CommitsAreOrderly
<1>3. \E list : IsListing(list, order, Len(commits))
  <2>1. PICK size \in Nat : size = Len(commits)
    BY <1>1
  <2>2. \E list : IsListing(list, order, size)
    BY <1>2, <2>1, ListingExists
  <2>. QED
    BY <2>1, <2>2
<1>. QED
  BY <1>2, <1>3 DEF IsOrdering

Listed(list) == [n \in 1..Len(commits) |-> commits[list[n]]]

(* Everybody is in the list once, at a place of its own.                   *)
Appears(list) ==
  /\ Len(commits) \in Nat
  /\ Listed(list) \in [1..Len(commits) -> Committed]
  /\ Len(Listed(list)) = Len(commits)
  /\ \A n \in 1..Len(commits) :
       /\ list[n] \in 1..Len(commits)
       /\ Listed(list)[n] = commits[list[n]]
       /\ Listed(list)[n] \in Handling
       /\ Place(Listed(list)[n]) = list[n]
       /\ History[list[n]] = [began  |-> handlers[Listed(list)[n]].began,
                              reads  |-> handlers[Listed(list)[n]].work.reads,
                              writes |-> handlers[Listed(list)[n]].work.writes]

(* An ordering lists everybody who committed.                              *)
LEMMA EverybodyIsListed ==
  ASSUME AtomicInv, NEW order, NEW list, IsOrdering(order, list)
  PROVE  Appears(list)
<1>1. Structured /\ CommitsAreSound
  BY DEF AtomicInv, PromiseInv, OverlapInv
<1>2. /\ Len(commits) \in Nat
      /\ \A n \in 1..Len(commits) :
           /\ commits[n] \in Committed /\ commits[n] \in Handling
           /\ Place(commits[n]) = n
  BY <1>1, PlacesOfCommits DEF Structured
<1>3. \A n \in 1..Len(commits) : list[n] \in 1..Len(commits)
  BY DEF IsOrdering, IsListing
<1>4. Listed(list) \in [1..Len(commits) -> Committed]
  BY <1>2, <1>3 DEF Listed
<1>5. Len(Listed(list)) = Len(commits)
  <2>1. Listed(list) \in Seq(Committed)
    BY <1>2, <1>4, IsASeq
  <2>2. DOMAIN Listed(list) = 1..Len(commits)
    BY DEF Listed
  <2>. QED
    BY <1>2, <2>1, <2>2, LenProperties
<1>6. \A n \in 1..Len(commits) : Listed(list)[n] = commits[list[n]]
  BY DEF Listed
<1>7. \A i \in 1..Len(commits) :
        History[i] = [began  |-> handlers[commits[i]].began,
                      reads  |-> handlers[commits[i]].work.reads,
                      writes |-> handlers[commits[i]].work.writes]
  BY DEF History
<1>. QED
  BY <1>2, <1>3, <1>4, <1>5, <1>6, <1>7 DEF Appears

(* What the histories of commits are like.                                 *)
LEMMA HistoryOfCommits ==
  ASSUME AtomicInv
  PROVE  /\ IsHistory(History, Len(commits))
         /\ FirstCommitterWins(History, Len(commits))
         /\ \A i \in 1..Len(commits) : IsPart(History[i].writes)
         /\ start \in SeedRows /\ start = [row \in Row |-> start[row]]
<1>1. IsHistory(History, Len(commits))
  BY HistoryIsOne DEF AtomicInv, PromiseInv, OverlapInv
<1>2. FirstCommitterWins(History, Len(commits))
  BY DEF AtomicInv, CommitsAreOrderly
<1>3. \A i \in 1..Len(commits) : IsPart(History[i].writes)
  BY DEF AtomicInv, CommitsAreInPlace, IsInPlace, History
<1>4. start \in SeedRows
  BY DEF AtomicInv, HandlersWorkOnSnapshots
<1>. QED
  BY <1>1, <1>2, <1>3, <1>4, SeedAssumption

(* A handler that runs alone in its turn does and answers the same.        *)
LEMMA AloneDoesTheSame ==
  ASSUME AtomicInv, NEW order, NEW list, IsOrdering(order, list),
         NEW n \in 1..Len(commits), NEW p, p = Listed(list)[n],
         NEW t, t = Left(History, start, First(list, n - 1))
  PROVE  Amounts(Work(p, t), handlers[p].work)
<1>1. PICK h : h = History
  OBVIOUS
<1>2. PICK size : size = Len(commits)
  OBVIOUS
<1>3. PICK seed : seed = start
  OBVIOUS
<1>4. PICK i : i = list[n]
  OBVIOUS
<1>5. PICK work : work = handlers[p].work
  OBVIOUS
<1>6. /\ IsHistory(h, size) /\ FirstCommitterWins(h, size)
      /\ \A j \in 1..size : IsPart(h[j].writes)
      /\ seed \in SeedRows
  BY <1>1, <1>2, <1>3, HistoryOfCommits
<1>7. IsStrictOrder(order, size) /\ Respects(order, h, size)
  BY <1>1, <1>2 DEF IsOrdering
<1>8. /\ i \in 1..size /\ p = commits[i] /\ p \in Handling
      /\ h[i] = [began |-> handlers[p].began, reads |-> work.reads,
                 writes |-> work.writes]
  BY <1>1, <1>2, <1>4, <1>5, EverybodyIsListed DEF Appears
<1>9. t = Left(h, seed, Before(order, size, i))
  BY <1>1, <1>2, <1>3, <1>4 DEF IsOrdering, IsListing, First
<1>10. IsInPlace(work)
  BY <1>2, <1>5, <1>8 DEF AtomicInv, CommitsAreInPlace
<1>11. work = Work(p, Left(h, seed, 1..h[i].began))
  <2>1. p \in Committed
    BY EverybodyIsListed DEF Appears
  <2>2. PICK s : WorksFrom(p, s)
    BY <1>8, <2>1 DEF AtomicInv, HandlersWorkOnSnapshots
  <2>. QED
    BY <1>1, <1>3, <1>5, <1>8, <2>2 DEF WorksFrom, Snapshot
<1>12. AsGoodFor(work, Left(h, seed, 1..h[i].began), t)
  <2>1. work.reads = h[i].reads /\ work.writes = h[i].writes
    BY <1>8
  <2>2. AsGoodFor(work, Left(h, seed, 1..h[i].began),
                  Left(h, seed, Before(order, size, i)))
    BY <1>6, <1>7, <1>8, <1>10, <2>1, AloneIsAsGood
  <2>. QED
    BY <1>9, <2>2
<1>13. JobsAreGiven
  BY DEF AtomicInv, PromiseInv, OverlapInv, Structured
<1>14. PICK s : s = Left(h, seed, 1..h[i].began)
  OBVIOUS
<1>15. Amounts(Work(p, t), Work(p, s))
  BY <1>8, <1>11, <1>12, <1>13, <1>14, WorkIsRepeatable
<1>. QED
  BY <1>5, <1>11, <1>14, <1>15

(* The order explains what the handlers did.                               *)
LEMMA OrderingExplains ==
  ASSUME AtomicInv, NEW order, NEW list, IsOrdering(order, list)
  PROVE  Explains(Listed(list))
<1>. DEFINE seq == Listed(list)
            run[n \in 0..Len(seq)] ==
              IF n = 0 THEN start ELSE handlers[seq[n]].work.writes @@ run[n - 1]
<1>1. PICK h : h = History
  OBVIOUS
<1>2. PICK size : size = Len(commits)
  OBVIOUS
<1>3. PICK seed : seed = start
  OBVIOUS
<1>4. /\ size \in Nat /\ Len(seq) = size /\ DOMAIN seq = 1..size
      /\ \A n \in 1..size : h[list[n]].writes = handlers[seq[n]].work.writes
  <2>1. Appears(list)
    BY EverybodyIsListed
  <2>2. size \in Nat /\ Len(seq) = size
    BY <1>2, <2>1 DEF Appears
  <2>3. DOMAIN seq = 1..size
    BY <1>2 DEF Listed
  <2>4. ASSUME NEW n \in 1..size
        PROVE  h[list[n]].writes = handlers[seq[n]].work.writes
    <3>1. h[list[n]] = [began  |-> handlers[seq[n]].began,
                        reads  |-> handlers[seq[n]].work.reads,
                        writes |-> handlers[seq[n]].work.writes]
      BY <1>1, <1>2, <2>1 DEF Appears
    <3>. HIDE DEF seq
    <3>. QED
      BY <3>1
  <2>. QED
    BY <2>2, <2>3, <2>4
<1>5. /\ IsHistory(h, size) /\ FirstCommitterWins(h, size)
      /\ \A i \in 1..size : DOMAIN h[i].writes \subseteq Row
      /\ seed = [row \in Row |-> seed[row]]
  BY <1>1, <1>2, <1>3, HistoryOfCommits DEF IsPart
<1>6. IsStrictOrder(order, size) /\ Respects(order, h, size) /\ IsListing(list, order, size)
  BY <1>1, <1>2 DEF IsOrdering
<1>7. /\ \E some : IsRun(some, h, seed, list, size)
      /\ \A some : IsRun(some, h, seed, list, size) =>
           \A n \in 0..size : some[n] = Left(h, seed, First(list, n))
  <2>. HIDE DEF seq, run
  <2>1. \A i \in 1..size : DOMAIN h[i].writes \subseteq Row
    BY <1>5
  <2>. QED
    BY <1>5, <1>6, <2>1, OneAtATime
<1>8. \A some :
        IsRun(some, h, seed, list, size) <=>
          some = [n \in 0..Len(seq) |->
                    IF n = 0 THEN start
                    ELSE handlers[seq[n]].work.writes @@ some[n - 1]]
  <2>. SUFFICES ASSUME NEW some
                PROVE  [n \in 0..size |->
                          IF n = 0 THEN seed ELSE h[list[n]].writes @@ some[n - 1]]
                       = [n \in 0..size |->
                            IF n = 0 THEN start
                            ELSE handlers[seq[n]].work.writes @@ some[n - 1]]
    BY <1>4 DEF IsRun
  <2>1. \A n \in 0..size : n = 0 \/ n \in 1..size
    BY <1>4
  <2>. HIDE DEF seq
  <2>. QED
    BY <1>3, <1>4, <2>1
<1>9. IsRun(run, h, seed, list, size)
  <2>. HIDE DEF seq
  <2>1. \E some : some = [n \in 0..Len(seq) |->
                            IF n = 0 THEN start
                            ELSE handlers[seq[n]].work.writes @@ some[n - 1]]
    BY <1>7, <1>8
  <2>2. run = [n \in 0..Len(seq) |->
                 IF n = 0 THEN start
                 ELSE handlers[seq[n]].work.writes @@ run[n - 1]]
    BY <2>1
  <2>. HIDE DEF run
  <2>. QED
    BY <1>8, <2>2
<1>10. \A n \in 0..size : run[n] = Left(h, seed, First(list, n))
  <2>. HIDE DEF run, seq
  <2>. QED  BY <1>7, <1>9
<1>11. run[Len(seq)] = db
  <2>1. First(list, size) = 1..size
    BY <1>4, <1>6, ListingIsWhole DEF First
  <2>2. db = Left(h, seed, 1..size)
    BY <1>1, <1>2, <1>3 DEF AtomicInv, HandlersWorkOnSnapshots
  <2>. HIDE DEF run, seq
  <2>. QED
    BY <1>4, <1>10, <2>1, <2>2
<1>12. ASSUME NEW n \in DOMAIN seq
       PROVE  LET alone == Work(seq[n], run[n - 1])
                  work  == handlers[seq[n]].work
              IN  alone.writes = work.writes /\ alone.answer = work.answer
  <2>1. PICK p : p = seq[n]
    OBVIOUS
  <2>2. PICK t : t = run[n - 1]
    OBVIOUS
  <2>. HIDE DEF run
  <2>3. n \in 1..size /\ n - 1 \in 0..size
    BY <1>4
  <2>4. t = Left(History, start, First(list, n - 1))
    BY <1>1, <1>3, <1>10, <2>2, <2>3
  <2>5. Amounts(Work(p, t), handlers[p].work)
    BY <1>2, <2>1, <2>3, <2>4, AloneDoesTheSame
  <2>. HIDE DEF seq
  <2>. QED
    BY <2>1, <2>2, <2>5 DEF Amounts
<1>13. Explains(seq) <=>
         /\ run[Len(seq)] = db
         /\ \A n \in DOMAIN seq :
              LET alone == Work(seq[n], run[n - 1])
                  work  == handlers[seq[n]].work
              IN  alone.writes = work.writes /\ alone.answer = work.answer
  <2>. HIDE DEF seq
  <2>. QED  BY DEF Explains
<1>. HIDE DEF run
<1>. QED
  BY <1>11, <1>12, <1>13

(* Who had answered before another began comes first.                      *)
LEMMA OrderingIsInTime ==
  ASSUME AtomicInv, NEW order, NEW list, IsOrdering(order, list),
         NEW n \in 1..Len(commits), NEW m \in 1..Len(commits),
         Place(Listed(list)[n]) <= handlers[Listed(list)[m]].began
  PROVE  n < m
<1>1. PICK h : h = History
  OBVIOUS
<1>2. PICK size : size = Len(commits)
  OBVIOUS
<1>3. /\ size \in Nat /\ n \in 1..size /\ m \in 1..size
      /\ list[n] \in 1..size /\ list[m] \in 1..size
      /\ list[n] <= h[list[m]].began
  <2>1. Appears(list)
    BY EverybodyIsListed
  <2>2. h[list[m]].began = handlers[Listed(list)[m]].began
    <3>1. h[list[m]] = [began  |-> handlers[Listed(list)[m]].began,
                        reads  |-> handlers[Listed(list)[m]].work.reads,
                        writes |-> handlers[Listed(list)[m]].work.writes]
      BY <1>1, <2>1 DEF Appears
    <3>. QED
      BY <3>1
  <2>3. Place(Listed(list)[n]) = list[n]
    BY <2>1 DEF Appears
  <2>. QED
    BY <1>2, <2>1, <2>2, <2>3 DEF Appears
<1>4. <<list[n], list[m]>> \in order
  <2>1. Precedes(h, list[n], list[m])
    BY <1>3 DEF Precedes
  <2>. QED
    BY <1>1, <1>2, <1>3, <2>1 DEF IsOrdering, Respects
<1>5. list[n] \in {list[l] : l \in 1..(m - 1)}
  BY <1>2, <1>3, <1>4 DEF IsOrdering, IsListing, Before
<1>6. PICK l \in 1..(m - 1) : list[n] = list[l]
  BY <1>5
<1>7. l \in 1..size
  BY <1>3
<1>8. l = n
  BY <1>2, <1>3, <1>6, <1>7 DEF IsOrdering, IsListing
<1>. QED
  BY <1>3, <1>6, <1>8

(* Overlapping handlers are as good as one after the other.                *)
LEMMA AtomicInvImplies == AtomicInv => HandlersAreAtomic
<1>. SUFFICES ASSUME AtomicInv PROVE HandlersAreAtomic
  OBVIOUS
<1>1. PICK order, list : IsOrdering(order, list)
  BY OrderingExists
<1>2. /\ Listed(list) \in [1..Len(commits) -> Committed]
      /\ DOMAIN Listed(list) = 1..Len(commits)
  BY <1>1, EverybodyIsListed DEF Listed, Appears
<1>3. ASSUME NEW n \in 1..Len(commits), NEW m \in 1..Len(commits), n # m
      PROVE  Listed(list)[n] # Listed(list)[m]
  <2>1. list[n] # list[m]
    BY <1>1, <1>3 DEF IsOrdering, IsListing
  <2>2. Appears(list)
    BY <1>1, EverybodyIsListed
  <2>3. Place(Listed(list)[n]) = list[n]
    BY <2>2 DEF Appears
  <2>4. Place(Listed(list)[m]) = list[m]
    BY <2>2 DEF Appears
  <2>. QED
    BY <2>1, <2>3, <2>4
<1>4. \A n, m \in 1..Len(commits) :
        Place(Listed(list)[n]) <= handlers[Listed(list)[m]].began => n < m
  BY <1>1, OrderingIsInTime
<1>5. Explains(Listed(list))
  BY <1>1, OrderingExplains
<1>. QED
  BY <1>2, <1>3, <1>4, <1>5 DEF HandlersAreAtomic

(* Whatever overlapped, some order of the handlers that committed, run one *)
(* at a time, explains every answer and every row, and in it who had       *)
(* answered before another began comes first.                              *)
THEOREM OverlappingIsAtomic == Spec => []HandlersAreAtomic
<1>. QED
  BY AtomicIsInductive, AtomicInvImplies, PTL
=============================================================================
