---------------------------- MODULE Transactions ----------------------------
(***************************************************************************)
(* The handlers of the control plane as PostgreSQL transactions that       *)
(* overlap.  ControlPlane takes a handler as one step; here it is a        *)
(* sequence of statements, and the question is whether one step is what    *)
(* they amount to.                                                         *)
(*                                                                         *)
(* Every store opens its transaction SERIALIZABLE.  Its statements read    *)
(* the snapshot taken when the first of them starts, before that statement *)
(* waits for a lock.  A statement that locks a row may wait for another    *)
(* transaction, fails (40001) when the row changed since the snapshot, and *)
(* may be picked to break a circular wait (40P01).  A commit fails (40001) *)
(* when it completes a dangerous structure of read-write conflicts.  The   *)
(* store rolls back and tries again, a bounded number of times.            *)
(*                                                                         *)
(* Everything a handler does follows from its snapshot s, so a handler is  *)
(* defined by its work there: the locks it asks for in the order of its    *)
(* statements, the rows whose contents it uses, the rows it writes and its *)
(* answer.  A statement that can neither wait nor fail is part of the step *)
(* before it.  Rows that are written only under the lock of another row    *)
(* (events, keys) are not locked again.  Of the times only a poll after    *)
(* every expiry matters.  Every recipient has a policy row, for named      *)
(* people, and one device.  PostgreSQL is modelled from how it is used.    *)
(***************************************************************************)
EXTENDS Naturals, Sequences, FiniteSets

CONSTANTS
  Person,      \* people's UUIDs, which are ordered
  Process,     \* handlers under way; a handler's command gets its number
  Job,         \* what a handler may be asked to do
  SeedCommand, \* earlier commands: [actor, recipient, replyTo], by number
  SeedRows,    \* the databases handlers may meet
  Limit,       \* the cumulative limit of a recipient and of a sender
  MaxAttempts, \* how often a store tries
  None

VARIABLES
  start,   \* the database the handlers met
  db,      \* what is committed: the contents of every row
  commits, \* the handlers that committed, in that order
  handlers \* per process: its job, its attempt and its open transaction

vars == <<start, db, commits, handlers>>

Operation == {"ISSUE", "SET_PAUSED", "GIVE_GRANT", "REVOKE_GRANT", "DISCONNECT",
              "ACCEPT", "POLL", "INGEST", "REVOKE_DEVICE"}
Status ==
  {"QUEUED", "DISPATCHED", "CANCELLED", "EXPIRED", "OUTCOME_UNKNOWN"}

ASSUME TransactionAssumption ==
  /\ Person \subseteq Nat
  /\ Process \subseteq Nat /\ IsFiniteSet(Process)
  /\ DOMAIN SeedCommand \subseteq Nat /\ IsFiniteSet(DOMAIN SeedCommand)
  /\ Process \cap DOMAIN SeedCommand = {}
  /\ \A job \in Job :
       /\ job.op \in Operation
       /\ job.recipient \in Person
       /\ job.op \notin {"SET_PAUSED", "POLL", "INGEST", "REVOKE_DEVICE"} =>
            job.actor \in Person
       /\ job.op = "ISSUE" =>
            job.replyTo \in {None} \cup Process \cup DOMAIN SeedCommand
       /\ job.op = "INGEST" => job.command \in Process \cup DOMAIN SeedCommand
  /\ \A i \in DOMAIN SeedCommand :
       {SeedCommand[i].actor, SeedCommand[i].recipient} \subseteq Person
  /\ None \notin Nat \cup Status \cup {"GIVEN"}
  /\ MaxAttempts \in Nat \ {0}

(* TLC's operators on functions, with definitions that can be expanded.    *)
key :> value == [k \in {key} |-> value]
new @@ old ==
  [k \in DOMAIN new \cup DOMAIN old |->
     IF k \in DOMAIN new THEN new[k] ELSE old[k]]
----------------------------------------------------------------------------
(* Rows, by table and key.                                                 *)

PersonRow(p)       == <<"people", p>>
StateRow(p)        == <<"recipient_eject_state", p>>
SenderRow(p)       == <<"sender_eject_state", p>>
PolicyRow(p)       == <<"recipient_access_policies", p>>
DeviceRow(p)       == <<"registered_devices", p>>
RelationshipRow(p, q) == <<"relationships", {p, q}>>
InvitationRow(p)   == <<"relationship_invitations", p>>
GrantRow(r, a)     == <<"eject_grants", r, a>>
RequestRow(a, key) == <<"eject_requests", a, key>>
CommandRow(i)      == <<"eject_commands", i>>
ReplyRow(i)        == <<"eject_commands.reply_to_command_id", i>>
ResultRow(i)       == <<"agent_results", i>>

(* Places for all rows there are or may come to be.                        *)
Row ==
  (UNION {{PersonRow(p), StateRow(p), SenderRow(p), PolicyRow(p), DeviceRow(p),
           InvitationRow(p)} : p \in Person})
  \cup (UNION {{RelationshipRow(p, q), GrantRow(p, q)} : p, q \in Person})
  \cup (UNION {{CommandRow(i), ReplyRow(i), ResultRow(i)} :
                 i \in Process \cup DOMAIN SeedCommand})
  \cup {RequestRow(job.actor, job.key) : job \in {j \in Job : j.op = "ISSUE"}}

(* The commands there are or may come to be, and what each asks for.       *)
JobOf(p) == handlers[p].job
Command ==
  DOMAIN SeedCommand \cup {p \in DOMAIN handlers : JobOf(p).op = "ISSUE"}
Asked(i) == IF i \in Process THEN JobOf(i) ELSE SeedCommand[i]

(* The commands of a statement's WHERE clause, statuses aside.             *)
Between(pairs) ==
  {i \in Command : <<Asked(i).actor, Asked(i).recipient>> \in pairs}

To(recipient) == Between(Person \X {recipient})
BothWays(p, q) == {<<p, q>>, <<q, p>>}

CommandRows(ids) == {CommandRow(i) : i \in ids}

OutstandingIn(ids, s) ==
  {i \in ids : s[CommandRow(i)] \in {"QUEUED", "DISPATCHED"}}

----------------------------------------------------------------------------
(* Statements, by the locks they take.                                     *)

Update(row) == [row |-> row, mode |-> "UPDATE"]
KeyShare(row) == [row |-> row, mode |-> "KEY SHARE"]

(* Some sequence of a set's members: their order decides nothing.          *)
AnyOrder(rows) ==
  CHOOSE order \in [1..Cardinality(rows) -> rows] :
    \A i, j \in DOMAIN order : i # j => order[i] # order[j]

Ascending(ids) ==
  CHOOSE order \in [1..Cardinality(ids) -> ids] :
    \A i, j \in DOMAIN order : i < j => order[i] < order[j]

(* SELECT ... ORDER BY command_id FOR UPDATE, and the loop over its rows.  *)
LockCommands(ids, s) ==
  LET order == Ascending(OutstandingIn(ids, s))
  IN  [n \in DOMAIN order |-> Update(CommandRow(order[n]))]

Cancelled(ids, s) ==
  [row \in CommandRows(OutstandingIn(ids, s)) |-> "CANCELLED"]

(* INSERT ... ON CONFLICT DO NOTHING, whose foreign keys share the people, *)
(* and with it SELECT ... FOR UPDATE.  A row that is there already fails   *)
(* the insertion as it fails the selection: when it changed.               *)
Insert(rows, s) ==
  LET order == AnyOrder({row \in rows : s[row] = None})
  IN  [n \in DOMAIN order |-> Update(order[n])]
      \o [n \in DOMAIN order |-> KeyShare(PersonRow(order[n][2]))]

EnsureAndLock(row, s) == Insert({row}, s) \o <<Update(row)>>

Ensured(rows, s) == [row \in {r \in rows : s[r] = None} |-> 0]

Count(row, s) == IF s[row] = None THEN 0 ELSE s[row]

(* DELETE FROM eject_grants, for these <<actor, recipient>> pairs.         *)
GrantRows(pairs) == {GrantRow(pair[2], pair[1]) : pair \in pairs}

Deleted(pairs, s) == [row \in {r \in GrantRows(pairs) : s[r] # None} |-> None]

LockDeleted(pairs, s) ==
  LET order == AnyOrder(DOMAIN Deleted(pairs, s))
  IN  [n \in DOMAIN order |-> Update(order[n])]

Low(p, q) == IF p < q THEN p ELSE q
High(p, q) == IF p < q THEN q ELSE p

----------------------------------------------------------------------------
(* Handlers.                                                               *)

MayEject(actor, recipient, kind, s) ==
  /\ s[PolicyRow(recipient)] # "PAUSED"
  /\ s[DeviceRow(recipient)] = "READY"
  /\ \/ kind = "EJECT_BACK"
     \/ /\ s[RelationshipRow(actor, recipient)] = "ACTIVE"
        /\ s[GrantRow(recipient, actor)] # None

Kind(asked) == IF asked.replyTo = None THEN "EJECT" ELSE "EJECT_BACK"
KindOf(i) == Kind(Asked(i))

(* No handler has issued its command yet, what is outstanding may be       *)
(* ejected, and what counts is a number.                                   *)
ASSUME SeedAssumption ==
  \A seed \in SeedRows :
    /\ seed = [row \in Row |-> seed[row]]
    /\ \A p \in Process : seed[CommandRow(p)] = None
    /\ \A i \in DOMAIN SeedCommand :
         LET asked == SeedCommand[i]
         IN  seed[CommandRow(i)] \in {"QUEUED", "DISPATCHED"} =>
               MayEject(asked.actor, asked.recipient, Kind(asked), seed)
    /\ \A p \in Person :
         {seed[StateRow(p)], seed[SenderRow(p)]} \subseteq Nat \cup {None}

Authorized(p, s) ==
  LET job == JobOf(p)
  IN  /\ MayEject(job.actor, job.recipient, KindOf(p), s)
      /\ job.replyTo # None =>
           /\ s[CommandRow(job.replyTo)] \notin {None, "CANCELLED", "EXPIRED"}
           /\ s[ReplyRow(job.replyTo)] = None
      /\ Count(StateRow(job.recipient), s) < Limit
      /\ Count(SenderRow(job.actor), s) < Limit

(* findIdempotentResult.                                                   *)
IsAnswered(request, s) == s[request] # None

(* The stored answer of a repeated request: only the locked row may be new.*)
Replay(p, s) ==
  LET job == JobOf(p)
  IN  [ locks  |-> EnsureAndLock(StateRow(job.recipient), s),
        reads  |-> {RequestRow(job.actor, job.key)},
        writes |-> Ensured({StateRow(job.recipient)}, s),
        answer |-> s[RequestRow(job.actor, job.key)] ]

(* PostgresIssuanceStore, as issue-eject.ts drives it.                     *)
Issue(p, s) ==
  LET job     == JobOf(p)
      request == RequestRow(job.actor, job.key)
      theirs  == StateRow(job.recipient)
      mine    == SenderRow(job.actor)
      source  == job.replyTo
      queued  == Authorized(p, s)
      answer  == [outcome |-> IF queued THEN "QUEUED" ELSE "REJECTED", id |-> p]
      command == IF ~queued THEN << >>
                 ELSE <<KeyShare(DeviceRow(job.recipient))>>
                      \o IF source = None THEN << >>
                         ELSE <<Update(ReplyRow(source)),
                                KeyShare(CommandRow(source))>>
  IN  IF IsAnswered(request, s) THEN Replay(p, s) ELSE
      [ locks  |-> EnsureAndLock(theirs, s) \o EnsureAndLock(mine, s)
                   \o <<Update(request), KeyShare(PersonRow(job.actor)),
                        KeyShare(PersonRow(job.recipient))>>
                   \o command,
        reads  |-> {request, theirs, mine, PolicyRow(job.recipient),
                    DeviceRow(job.recipient)}
                   \cup IF source = None
                          THEN {RelationshipRow(job.actor, job.recipient),
                                GrantRow(job.recipient, job.actor)}
                          ELSE {CommandRow(source), ReplyRow(source)},
        writes |-> (request :> answer) @@
                   (IF queued THEN (CommandRow(p) :> "QUEUED") @@
                                   (theirs :> Count(theirs, s) + 1) @@
                                   (mine :> Count(mine, s) + 1)
                              ELSE Ensured({theirs, mine}, s)) @@
                   (IF queued /\ source # None THEN ReplyRow(source) :> p
                                               ELSE << >>),
        answer |-> answer ]

(* withRecipientLock, and the policy row every consent handler inserts or  *)
(* updates next.                                                           *)
LockConsent(recipient, s) ==
  EnsureAndLock(StateRow(recipient), s) \o <<Update(PolicyRow(recipient))>>

(* setPaused.                                                              *)
SetPaused(p, s) ==
  LET job   == JobOf(p)
      ids   == IF job.paused THEN To(job.recipient) ELSE {}
      state == StateRow(job.recipient)
  IN  [ locks  |-> LockConsent(job.recipient, s) \o LockCommands(ids, s),
        reads  |-> CommandRows(ids),
        writes |-> (PolicyRow(job.recipient)
                      :> IF job.paused THEN "PAUSED" ELSE "OPEN")
                   @@ Cancelled(ids, s) @@ Ensured({state}, s),
        answer |-> None ]

(* setGrant, granted: nothing where no relationship is active.             *)
GiveGrant(p, s) ==
  LET job   == JobOf(p)
      state == StateRow(job.recipient)
      grant == GrantRow(job.recipient, job.actor)
      given == /\ s[RelationshipRow(job.actor, job.recipient)] = "ACTIVE"
               /\ s[grant] = None
  IN  [ locks  |-> LockConsent(job.recipient, s)
                   \o IF given THEN <<Update(grant),
                                      KeyShare(PersonRow(job.recipient)),
                                      KeyShare(PersonRow(job.actor))>>
                               ELSE << >>,
        reads  |-> {RelationshipRow(job.actor, job.recipient), grant},
        writes |-> Ensured({state}, s)
                   @@ IF given THEN grant :> "GIVEN" ELSE << >>,
        answer |-> None ]

(* setGrant, not granted.                                                  *)
RevokeGrant(p, s) ==
  LET job   == JobOf(p)
      state == StateRow(job.recipient)
      pairs == {<<job.actor, job.recipient>>}
  IN  [ locks  |-> LockConsent(job.recipient, s)
                   \o LockDeleted(pairs, s) \o LockCommands(Between(pairs), s),
        reads  |-> GrantRows(pairs) \cup CommandRows(Between(pairs)),
        writes |-> Deleted(pairs, s) @@ Cancelled(Between(pairs), s)
                   @@ Ensured({state}, s),
        answer |-> None ]

(* disconnectRelationship.                                                 *)
Disconnect(p, s) ==
  LET job    == JobOf(p)
      low    == Low(job.actor, job.recipient)
      high   == High(job.actor, job.recipient)
      pairs  == BothWays(low, high)
      bond   == RelationshipRow(low, high)
      states == {StateRow(low), StateRow(high)}
      prefix == Insert(states, s)
                \o <<Update(StateRow(low)), Update(StateRow(high)),
                     Update(bond)>>
  IN  IF s[bond] # "ACTIVE"
        THEN [ locks |-> prefix, reads |-> {bond},
               writes |-> Ensured(states, s), answer |-> None ]
        ELSE [ locks  |-> prefix \o LockDeleted(pairs, s)
                          \o LockCommands(To(low) \cap Between(pairs), s)
                          \o LockCommands(To(high) \cap Between(pairs), s),
               reads  |-> {bond} \cup GrantRows(pairs)
                          \cup CommandRows(Between(pairs)),
               writes |-> (bond :> "ENDED") @@ Deleted(pairs, s)
                          @@ Cancelled(Between(pairs), s) @@ Ensured(states, s),
               answer |-> None ]

(* acceptInvitation, of another's code that has not expired.               *)
Accept(p, s) ==
  LET job   == JobOf(p)
      code  == InvitationRow(job.recipient)
      low   == Low(job.actor, job.recipient)
      high  == High(job.actor, job.recipient)
      bond  == RelationshipRow(low, high)
      pairs == IF s[bond] = "ENDED" THEN BothWays(low, high) ELSE {}
  IN  IF s[code] # "PENDING"
        THEN [ locks |-> <<Update(code)>>, reads |-> {code},
               writes |-> << >>, answer |-> None ]
        ELSE [ locks  |-> <<Update(code), Update(PersonRow(low)),
                            Update(PersonRow(high)), Update(bond)>>
                          \o LockDeleted(pairs, s),
               reads  |-> {code, bond} \cup GrantRows(pairs),
               writes |-> (code :> "USED") @@
                          IF s[bond] = "ACTIVE" THEN << >>
                          ELSE Deleted(pairs, s) @@ (bond :> "ACTIVE"),
               answer |-> None ]

(* What a device that may not be heard gets: its nonce is not stored.      *)
Unheard(device) ==
  [ locks |-> << >>, reads |-> {device}, writes |-> << >>, answer |-> None ]

(* Mutant: the oldest command is selected without a lock.                  *)
SelectOldest(row) == << >>

(* FOR UPDATE LIMIT 1.                                                     *)
LockOldest(row) == <<Update(row)>>

(* poll: the lowest number stands for the oldest command.  `late` is a     *)
(* time past every expiry.                                                 *)
Poll(p, s) ==
  LET job    == JobOf(p)
      device == DeviceRow(job.recipient)
      open   == OutstandingIn(To(job.recipient), s)
      oldest == CHOOSE i \in open : \A j \in open : i <= j
      found  == open # {}
      row    == CommandRow(oldest)
  IN  IF s[device] # "READY" THEN Unheard(device) ELSE
      [ locks  |-> <<KeyShare(device)>>
                   \o IF found THEN LockOldest(row) ELSE << >>,
        reads  |-> {device} \cup CommandRows(To(job.recipient)),
        writes |-> IF ~found THEN << >>
                   ELSE IF job.late THEN row :> "EXPIRED"
                   ELSE IF s[row] = "DISPATCHED" THEN << >>
                   ELSE row :> "DISPATCHED",
        answer |-> IF found /\ ~job.late THEN oldest ELSE None ]

(* ingest: the result of a dispatched command.                             *)
Ingest(p, s) ==
  LET job    == JobOf(p)
      device == DeviceRow(job.recipient)
      row    == CommandRow(job.command)
      stored == s[ResultRow(job.command)] = None /\ s[row] = "DISPATCHED"
  IN  IF s[device] # "READY" THEN Unheard(device) ELSE
      [ locks  |-> <<KeyShare(device), Update(row)>>,
        reads  |-> {device, row, ResultRow(job.command)},
        writes |-> IF stored THEN (row :> "OUTCOME_UNKNOWN") @@
                                  (ResultRow(job.command) :> p)
                             ELSE << >>,
        answer |-> IF stored THEN "STORED" ELSE "REJECTED" ]

(* revokeDevice.                                                           *)
RevokeDevice(p, s) ==
  LET owner  == JobOf(p).recipient
      device == DeviceRow(owner)
      prefix == <<Update(PersonRow(owner)), Update(device)>>
  IN  IF s[device] = "REVOKED"
        THEN [ locks |-> prefix, reads |-> {device},
               writes |-> << >>, answer |-> None ]
        ELSE [ locks  |-> prefix \o LockCommands(To(owner), s),
               reads  |-> {device} \cup CommandRows(To(owner)),
               writes |-> (device :> "REVOKED") @@ Cancelled(To(owner), s),
               answer |-> None ]

Work(p, s) ==
  CASE JobOf(p).op = "ISSUE"         -> Issue(p, s)
    [] JobOf(p).op = "SET_PAUSED"    -> SetPaused(p, s)
    [] JobOf(p).op = "GIVE_GRANT"    -> GiveGrant(p, s)
    [] JobOf(p).op = "REVOKE_GRANT"  -> RevokeGrant(p, s)
    [] JobOf(p).op = "DISCONNECT"    -> Disconnect(p, s)
    [] JobOf(p).op = "ACCEPT"        -> Accept(p, s)
    [] JobOf(p).op = "POLL"          -> Poll(p, s)
    [] JobOf(p).op = "INGEST"        -> Ingest(p, s)
    [] JobOf(p).op = "REVOKE_DEVICE" -> RevokeDevice(p, s)

----------------------------------------------------------------------------
(* PostgreSQL.                                                             *)

Handling == DOMAIN handlers
IsOpen(p) == handlers[p].phase = "OPEN"
Committed == {commits[n] : n \in DOMAIN commits}
Written(p) == DOMAIN handlers[p].work.writes

(* What others committed since the snapshot of p.                          *)
Newer(p) ==
  UNION {Written(commits[n]) : n \in (handlers[p].began + 1)..Len(commits)}

Held(p) == {handlers[p].work.locks[n] : n \in 1..handlers[p].taken}
Wanted(p) == handlers[p].work.locks[handlers[p].taken + 1]
HasAllLocks(p) == handlers[p].taken = Len(handlers[p].work.locks)

(* The transactions p waits for.                                           *)
Holders(p) ==
  IF ~IsOpen(p) \/ HasAllLocks(p) THEN {}
  ELSE {q \in Handling \ {p} :
          /\ IsOpen(q)
          /\ \E lock \in Held(q) :
               /\ lock.row = Wanted(p).row
               /\ lock.mode = "UPDATE" \/ Wanted(p).mode = "UPDATE"}

(* Everyone p waits for, directly or through others, n steps away or less. *)
Ahead(p) ==
  LET reach[n \in Nat] ==
        IF n = 0 THEN Holders(p)
        ELSE reach[n - 1] \cup UNION {Holders(q) : q \in reach[n - 1]}
  IN  reach[Cardinality(Process)]

(* When a handler commits; one that commits now comes after all others.    *)
Place(p) ==
  IF p \in Committed THEN CHOOSE n \in DOMAIN commits : commits[n] = p
                     ELSE Len(commits) + 1

(* p used a row that q, which overlapped it, wrote unseen by p.            *)
ReadBefore(p, q) ==
  /\ handlers[p].work.reads \cap Written(q) # {}
  /\ handlers[p].began < Place(q)
  /\ handlers[q].began < Place(p)

(* Mutant: the stores ask for REPEATABLE READ.                             *)
IsNeverDangerous(p) == FALSE

(* With p committed there would be a dangerous structure: two read-write   *)
(* conflicts in a row, of which the last transaction committed first, and  *)
(* before the first one began if that wrote nothing.                       *)
IsDangerous(p) ==
  \E first, pivot, last \in Committed \cup {p} :
    /\ first # pivot /\ pivot # last
    /\ p \in {first, pivot}
    /\ ReadBefore(first, pivot) /\ ReadBefore(pivot, last)
    /\ Place(last) < Place(pivot) /\ Place(last) <= Place(first)
    /\ Written(first) # {} \/ Place(last) <= handlers[first].began

Overlaps(p) ==
  \/ handlers[p].began < Len(commits)
  \/ \E q \in Handling \ {p} : IsOpen(q)
----------------------------------------------------------------------------
(* The steps of a handler.                                                 *)

Init ==
  /\ \E seed \in SeedRows : start = seed
  /\ db = start
  /\ commits = << >>
  /\ \E some \in SUBSET Process : \E jobs \in [some -> Job] :
       handlers = [p \in some |->
         [job |-> jobs[p], phase |-> "READY", attempt |-> 1, began |-> 0,
          taken |-> 0, work |-> None]]

Moved(p, phase) ==
  handlers' = [handlers EXCEPT ![p].phase = phase, ![p].taken = 0,
                               ![p].work = None, ![p].began = 0]

(* Mutant: attempts are not counted.                                       *)
RetryForever(p) == Moved(p, "READY")

(* isRetryable: 40001 and 40P01.  The last attempt's error is thrown.      *)
Retry(p) ==
  IF handlers[p].attempt = MaxAttempts
    THEN Moved(p, "FAILED")
    ELSE handlers' = [handlers EXCEPT ![p].phase = "READY", ![p].taken = 0,
                                      ![p].work = None, ![p].began = 0,
                                      ![p].attempt = @ + 1]

Begin(p) ==
  /\ handlers[p].phase = "READY"
  /\ handlers' = [handlers EXCEPT ![p].phase = "OPEN",
                                  ![p].began = Len(commits),
                                  ![p].work = Work(p, db)]
  /\ UNCHANGED <<start, db, commits>>

Lock(p) ==
  /\ IsOpen(p) /\ ~HasAllLocks(p)
  /\ Holders(p) = {}
  /\ IF Wanted(p).mode = "UPDATE" /\ Wanted(p).row \in Newer(p)
       THEN Retry(p)
       ELSE handlers' = [handlers EXCEPT ![p].taken = @ + 1]
  /\ UNCHANGED <<start, db, commits>>

(* Only a transaction in a circular wait is aborted as deadlocked.         *)
BreakDeadlock(p) ==
  /\ IsOpen(p) /\ p \in Ahead(p)
  /\ Retry(p)
  /\ UNCHANGED <<start, db, commits>>

Commit(p) ==
  /\ IsOpen(p) /\ HasAllLocks(p)
  /\ Written(p) \cap Newer(p) = {} /\ ~IsDangerous(p)
  /\ db' = handlers[p].work.writes @@ db
  /\ commits' = Append(commits, p)
  /\ handlers' = [handlers EXCEPT ![p].phase = "COMMITTED"]
  /\ UNCHANGED start

Refuse(p) ==
  /\ IsOpen(p) /\ HasAllLocks(p)
  /\ Written(p) \cap Newer(p) # {} \/ IsDangerous(p)
  /\ Retry(p)
  /\ UNCHANGED <<start, db, commits>>

(* PostgreSQL tracks conflicts by pages and index ranges, and may see one  *)
(* that is not there.                                                      *)
Suspect(p) ==
  /\ IsOpen(p) /\ HasAllLocks(p)
  /\ Overlaps(p)
  /\ Retry(p)
  /\ UNCHANGED <<start, db, commits>>

(* The connection or the process is lost: PostgreSQL rolls back.           *)
Lose(p) ==
  /\ IsOpen(p)
  /\ Moved(p, "FAILED")
  /\ UNCHANGED <<start, db, commits>>

HasEnded(p) == handlers[p].phase \in {"COMMITTED", "FAILED"}

Advance(p) ==
  Begin(p) \/ Lock(p) \/ BreakDeadlock(p) \/ Commit(p) \/ Refuse(p)

Next == \E p \in Handling : Advance(p) \/ Suspect(p) \/ Lose(p)

(* PostgreSQL answers every statement and breaks circular waits; nothing   *)
(* has to be suspected or lost.                                            *)
Fairness == \A p \in Process : WF_vars(p \in Handling /\ Advance(p))

Spec == Init /\ [][Next]_vars /\ Fairness
----------------------------------------------------------------------------
(* The handlers that committed, run one at a time in this order, read and  *)
(* answer exactly what they did and leave the same database.               *)
Explains(order) ==
  LET run[n \in 0..Len(order)] ==
        IF n = 0 THEN start
                 ELSE handlers[order[n]].work.writes @@ run[n - 1]
  IN  /\ run[Len(order)] = db
      /\ \A n \in DOMAIN order :
           LET alone == Work(order[n], run[n - 1])
               work  == handlers[order[n]].work
           IN  alone.writes = work.writes /\ alone.answer = work.answer

(* A handler is as good as one indivisible step: whatever overlapped, some *)
(* order of the handlers that committed explains every answer given and    *)
(* every row left behind, and in it who had answered before another began  *)
(* comes first.  The stores rely on it everywhere: they decide on rows     *)
(* they read and lock only some of them.                                   *)
HandlersAreAtomic ==
  \E order \in [1..Len(commits) -> Committed] :
    /\ \A n, m \in DOMAIN order : n # m => order[n] # order[m]
    /\ \A n, m \in DOMAIN order :
         Place(order[n]) <= handlers[order[m]].began => n < m
    /\ Explains(order)

(* A poll never answers with a command that had ended by then, though it   *)
(* writes nothing to one it hands out again.                               *)
PollsAnswerWhatIsOutstanding ==
  [][\A p \in Handling :
       /\ commits' # commits /\ commits'[Len(commits')] = p
       /\ JobOf(p).op = "POLL" /\ handlers[p].work.answer # None
       => db'[CommandRow(handlers[p].work.answer)] = "DISPATCHED"]_vars

(* Every handler ends: waits are never circular for good, and nobody tries *)
(* for ever.                                                               *)
EveryHandlerEnds == <>(\A p \in Handling : HasEnded(p))
----------------------------------------------------------------------------
(* What the overlapping handlers promise: module Consent.                  *)

StandingPermissions ==
  {p \in Person \X Person \X {"EJECT", "EJECT_BACK"} :
     MayEject(p[1], p[2], p[3], db)}

Ejects ==
  [i \in {i \in Command : db[CommandRow(i)] # None} |->
     [permission |-> <<Asked(i).actor, Asked(i).recipient, KindOf(i)>>,
      state |-> IF OutstandingIn({i}, db) # {} THEN db[CommandRow(i)]
                                               ELSE "ENDED"]]

Promise == INSTANCE Consent WITH
  Permission <- Person \X Person \X {"EJECT", "EJECT_BACK"},
  Command <- Process \cup DOMAIN SeedCommand,
  permitted <- StandingPermissions, ejects <- Ejects

(* Statement by statement, overlapping handlers keep the promise that      *)
(* ControlPlane keeps with one step per handler.                           *)
ImplementsConsent == Promise!Spec
=============================================================================
