# A verified model of the eject control plane

`eject` lets one person open the optical drive of another person who agreed to
it.  The control plane (`src/control-plane`) decides who may, queues the command
and hands it to the recipient's Windows agent.  Each of its promises is about
several handlers at once: a pause must win against a request that is being
granted, a retry must not eject twice, a revoked device must never be handed
anything.  This directory states those promises over a TLA+ model of the
handlers, checks them with TLC and proves the most important ones with TLAPS.

- [The system](#the-system)
- [The modules and the code](#the-modules-and-the-code)
- [What the model takes from PostgreSQL](#what-the-model-takes-from-postgresql)
- [The runs](#the-runs)
- [What the code does and the documents do not say](#what-the-code-does-and-the-documents-do-not-say)
- [The proofs](#the-proofs)
- [What is not modelled](#what-is-not-modelled)
- [Plan](#plan)

## The system

| Component | State it keeps | Operations | Talks to |
| --- | --- | --- | --- |
| Authorization policy (`modules/eject/domain/authorization.ts`, `exposure.ts`) | none | decide on a record of facts | called by issuance |
| Lifecycle (`modules/eject/domain/lifecycle.ts`) | none | which state may follow which | nothing calls it but its tests |
| Issuance (`modules/eject/application/issue-eject.ts`, `postgres-issuance-store.ts`) | `eject_requests`, `eject_commands`, `eject_lifecycle_events`, `recipient_eject_state`, `sender_eject_state` | issue an eject or an eject back | reads every other component's tables |
| Agent transport (`postgres-agent-transport-store.ts`) | `device_request_nonces`, `agent_results`, command status and events | poll, ingest a result | devices, accounts, delivery policy |
| Recipient consent (`modules/permissions`) | `recipient_access_policies`, `eject_grants` | pause, resume, grant, withdraw | cancels commands |
| Relationships (`modules/permissions`) | `relationships`, `relationship_invitations` | invite, accept, disconnect, clean up | removes grants, cancels commands |
| Devices (`modules/devices`) | `registered_devices`, `device_keys`, `device_enrollment_sessions` | create and consume a secret, revoke | cancels commands |
| Agent request authentication (`authenticate-agent-request.ts`) | none (reads keys) | verify hash, key, signature, clock skew | before agent transport |
| Person authentication (`modules/identity`) | session cookies, PKCE state, the provider's sessions | sign in, refresh, log out, authenticate a request | before every person handler |
| Browser session recovery (`src/app/person-session-recovery.ts`) | generations, refresh in flight | fetch, refresh once, end session | person routes |
| Migration runner (`infrastructure/postgres/migrate.ts`) | `schema_migrations`, the advisory lock | apply pending files | the schema |
| Provisioning (`scripts/provision-invited-person.ts`) | the provider's user, `people` rows | create or compensate | provider, database |
| Windows agent (`src/Eject.Agent.*`) | the device key in CNG | create or open a key, eject a drive | agent transport, by the protocol |

The control plane's components share one database and nothing else: every handler
is a stateless function that authenticates, reads its clock and runs one transaction.  Agents
poll; nothing is pushed to them, so whatever is withdrawn has to be withdrawn
from the table they poll.

What is hard here, component by component, and what makes it correct:

- **Issuance** reads eleven tables and decides, while other handlers withdraw
  what it read.  It is correct if nothing it queues lacks the consent, device or
  quota it was granted on (`OutstandingHasConsent`, `PausedRecipientIsLeftAlone`,
  `RevokedDeviceIsLeftAlone`, `QuotasHold`, `CooldownSeparates`), if a retry
  changes nothing (`OneCommandPerRequest`) and if one command earns one reply
  (`EjectBackIsOnce`).
- **Consent, relationships, devices** end commands queued by somebody else.  They
  are correct if each withdrawal reaches every command it concerns and no grant
  outlives its relationship (`GrantsNeedRelationship`, `ConnectingTakesACode`),
  and if an owner never has two live devices or an open secret beside a live one
  (`OneLiveDevice`, `OpenEnrollmentIsAlone`).
- **Agent transport** races all of these with late, repeated and contradictory
  requests.  It is correct if statuses, events and results stay one history of
  the protocol (`LifecycleConforms`, `ResultsMatchStatus`, `EndedIsFinal`) and if
  a command is first handed out only while everything still permits it
  (`DispatchIsPermitted`), though the poll reads none of the consent tables, and if
  no command waits for ever behind one that cannot be delivered (`CommandsSettle`).
- **All of them** promise one thing together, the module `Consent`: an eject is queued
  only under a permission that stands, and ends in the step that withdraws it
  (`ImplementsConsent`).  They keep it though their transactions overlap
  (`HandlersAreAtomic`) and wait for each other (`EveryHandlerEnds`).
- **Agent request authentication** meets every signed request any number of times
  and judges it with a clock read earlier.  It is correct if a request is let
  through once (`AcceptedOnce`) and near its time (`AcceptedInTime`).
- **Browser session recovery** shares one refresh among requests, a logout and a
  sign-in whose answers come in any order.  It is correct if an ended session shows
  nothing and stays ended (`EndedSessionShowsNothing`, `SignedOutStaysOut`), if
  requests are repeated only for a reason (`RetriesFollowRotation`), if what is loaded
  in a session is its account's data (`PatientLoadsOwnData`), if nothing loaded before
  is left for the next person to see (`PatientSeesOwnDevices`, which does not hold) and
  if nothing waits forever (`EverythingSettles`).
- **Signing in by mail** keeps a secret in the browser's cookies, and mails, requests
  and answers of several attempts overtake each other.  It is correct if a link
  signs in nobody but the browser that asked (`LinksStayInTheirBrowser`), if an
  identity left behind by a failed provisioning gets nothing
  (`AccessIsProvisioned`), and if whoever asks again gets in (`PatientGetsIn`).
- **The migration runner** and **provisioning** may stop between any two steps.
  They are correct if the ledger tells the truth and success means what it says
  (`LedgerIsTheSchema`, `DoneMeansApplied`), and if nothing is left behind in
  silence (`StrandedIsKnown`).
- **The device key store** looks for a key in two providers that come and go.  It is
  correct if a device goes on speaking with the key it enrolled (`OneKeySpeaks`).
- **Time.** Handlers read their clock before they wait for locks and retries, so
  transactions commit in another order than their clocks say.

`PROJECT.json` lists these hazards with the line where each bites.

## The modules and the code

The names are those of the code.  A module holds one component's tables as
variables and one operator per handler; it leaves the frame condition over the
other components to `ControlPlane`.

| Module | Models | Variables |
| --- | --- | --- |
| `Lifecycle` | `lifecycle.ts` | |
| `Authorization` | `authorization.ts`, `exposure.ts` | |
| `Accounts` | accounts, clock, delivery switch: what every transaction shares | `clock`, `restrictedAt`, `deliveryEnabled` |
| `Commands` | commands, events, and the cancellation loops of the stores | `commands`, `events` |
| `ExposureState` | windows, counters, cooldown | `recipientState`, `senderState` |
| `Permissions` | consent and relationships | `policies`, `relationships`, `grants`, `invitations` |
| `Devices` | enrollment and revocation | `devices`, `enrollments` |
| `Issuance` | issuance | `requests` |
| `AgentTransport` | poll and ingest | `nonces`, `results` |
| `ControlPlane` | their composition, the properties | |
| `Consent` | what the control plane promises, abstractly; `ControlPlane` and `Transactions` implement it | `permitted`, `ejects` |
| `Transactions` | the same stores as overlapping PostgreSQL transactions, a statement at a time | `start`, `db`, `commits`, `handlers` |
| `MCControlPlane`, `MCScenes`, `MCTransactions` | constants and sub-specifications for TLC | |
| `AgentAuth` | `authenticate-agent-request.ts`, the nonce transaction, the clock of `agent-http-handlers.ts` | `clock`, `ready`, `nonces`, `handlers`, `accepted` |
| `PersonSession` | `person-session-recovery.ts`, the session logic of `web-console.tsx`, the cookie effects of `person-auth-http-handlers.ts` | the browser's cookies, the recovery object, the page, requests under way |
| `MigrationRunner` | `infrastructure/postgres/migrate.ts` | `lockHolder`, `ledger`, `executed`, `runs` |
| `Provisioning` | `scripts/provision-invited-person.ts` | `identities`, `issued`, `people`, `runs`, `reported`, `unheard` |
| `PersonSignIn` | sign-in by mail: `person-auth-http-handlers.ts`, `manage-person-session.ts`, `supabase-person-auth-provider.ts`, `person-session-cookie.ts`; extends `Provisioning` | `asks`, `mails`, `browsers`, `answers` |
| `DeviceKeyStore` | `WindowsCngDeviceKeyStore.cs` | `available`, `made`, `keys`, `creates`, `callers`, `answers` |
| `MCAgentAuth`, `MCPersonSession`, `MCMigrationRunner`, `MCPersonSignIn`, `MCDeviceKeyStore` | constants, symmetry and the sub-specifications for TLC | |
| `ControlPlaneProofs`, `CommandProofs` | theorems about `ControlPlane`, and in the first about `Consent`; the second extends the first | |
| `TransactionsProofs` | theorems about `Transactions` | |
| `AgentAuthProofs`, `DeviceKeyStoreProofs`, `PersonSessionProofs`, `MigrationRunnerProofs`, `PersonSignInProofs` | theorems about the module of that name, and what its `MC` module checks | |

`ControlPlane` extends `Issuance` (which extends `Permissions`, `Devices` and
`Authorization`) and `AgentTransport`.  Its actions are the HTTP handlers: each
quantifies over who calls, with what, and over the two times a handler uses, and
takes the operator of the store as its effect.

| Action | Handler |
| --- | --- |
| `Pause`, `Grant` | `handleSetPaused`, `handleSetGrant` |
| `Relationship` | invitation create, accept and their refusals, the cleanup command |
| `Disconnect` | `handleDisconnectRelationship` |
| `Enroll` | `handleCreateDeviceEnrollment` (`CreateEnrollmentOf`) and `handleAgentEnrollment` (`EnrollAgent`) |
| `Revoke` | `handleRevokeDevice` |
| `Eject` | `createIssueEject` (no route calls it yet; the model calls it as its tests do) |
| `Agent` | `handleAgentPoll`, `handleAgentResult`, and requests refused by the nonce transaction |
| `OperateAccounts`, `OperateDevices` | rows only an operator or the device's setup changes: account restriction, delivery switch, device readiness and availability |
| `Time` | the clock |

Data is kept to what the properties tell apart.  Identifiers, digests and secrets
are model values.  Of the event rows the model keeps each request's sequence of
states and the last `occurred_at`.  Result codes are grouped by the disposition
and status they lead to.  A missing `cooldown_until` is 0.  Columns and tables no
code under `src/` writes (blocks, entitlements, audience, participation, the
sender's limit, the physical ceiling) are constants.

`Consent` has three kinds of steps: an eject is queued under a permission that
stands, one is handed out, or what stands changes and every eject that lost its
permission ends at once.  `ControlPlane` maps onto it by `StandingPermissions` (who
may eject whom, on which device, as an eject or as an eject back) and `Ejects`;
clocks, quotas, keys, nonces and results disappear.

`Transactions` takes nine of these handlers apart.  A handler opens a transaction
(`Begin`) on the database as it is committed then; what it will lock, read, write
and answer follows from that snapshot and is written down as one record per store
operation (`Issue`, `SetPaused`, `Disconnect`, `Accept`, `Poll`, ...).  `Lock` takes
the locks in the order of the statements, one step each, and `Commit` installs the
writes.  The next section says what that shows.

The other components share no state with these and are modelled on their own:

- `AgentAuth` looks at the agent routes with a finer grain than `ControlPlane`,
  which takes a signed request's nonce for granted: a handler is three actions
  (`Receive` reads the clock, `Authenticate` the key, `Consume` is the transaction),
  and a request is what its signature covers, delivered as often as the network
  likes.  `accepted` counts what a handler let through.
- `PersonSession`: an action is one turn of the tab's event loop with every promise
  callback it releases, or a server's answer.  A response's cookies are in the jar
  before the turn that handles it, so those are two actions.
- `MigrationRunner`: one action for each statement that another run or a dying
  process could come between; SQL of a file and ledger row commit in one
  transaction and take effect together in `Record`.
- `Provisioning`: each request to the provider and each transaction may take effect
  without its answer; the constant `Lossy` says which.
- `PersonSignIn`: a request with the provider's part in it is one action, since a
  handler reads nothing but its request; the answer with its `Set-Cookie`
  headers is delivered later, in any order, or lost (`Deliver`, `LoseAnswer`).  A
  mail can be opened in any browser, and its link and its code can be used, or
  used up in vain, any time.  Provisioning goes on meanwhile, on the same
  identities.
- `DeviceKeyStore`: every CNG call is an action; providers fail and recover between
  any two.

The definitions marked *Mutant* are wrong variants of the definition that follows
them.  They are used by no specification; they document which mistake each
property is able to notice.

## What the model takes from PostgreSQL

Every store runs its handler in one `SERIALIZABLE` transaction and retries it on
40001 and 40P01 up to three times.  PostgreSQL guarantees that committed
serializable transactions have the effect of some one-at-a-time order, so a
handler is **one action, taken at its commit**; a handler whose retries run out,
or that violates a `CHECK`, leaves nothing behind and is no action at all.

`Transactions` is the evidence for that.  It does not assume serializability: it
models snapshots, row locks in the order of the statements, 40001 on a row that
changed since the snapshot, 40P01 in a circular wait, and the dangerous structure of
read-write conflicts by which PostgreSQL refuses a commit, all as the stores use
them.  A structure is let through where PostgreSQL lets it through: its first
transaction wrote nothing and began before the last one had committed.  The run
`transactions` shows, and `OverlappingIsAtomic` proves for any number of handlers, that
the handlers that commit have the answers and the effect of some one-at-a-time order,
in which whoever had answered before another began comes first (`HandlersAreAtomic`).
What one learns from it about the code:

- Locks alone are not enough.  A pause and an issuance to one recipient both lock
  `recipient_eject_state`, but the row need not change, so the issuance may wait
  for the pause and go on with the snapshot it took before: what stops it is the
  conflict between its reads of the policy and the pause's read of the commands.  The
  mutant `IsNeverDangerous`, the stores at `REPEATABLE READ`, violates both
  `HandlersAreAtomic` and `ImplementsConsent`.  The promise rests on those
  conflicts alone, and `OverlappingKeepsThePromise` proves it for any
  number of handlers, people and commands.
- A poll that hands a command out again writes nothing; its `FOR UPDATE` is what
  keeps it from answering with a command that was cancelled since
  (`PollsAnswerWhatIsOutstanding`, mutant `SelectOldest`).
- An issuance locks its actor's `people` row before its recipient's (through the
  foreign keys), an acceptance the lower UUID first: they may wait for each other.
  40P01 is among the errors the stores retry, and attempts are bounded, so every
  handler ends (`EveryHandlerEnds`).
- The order that explains the answers is not always the order of the commits: a
  rejected issuance may have seen a state already overtaken.

What is *not* atomic stays visible in `ControlPlane`:

- `now` is read by the HTTP handler before the transaction begins.  It is any
  time of `Recent`, up to `Lag` before the commit.
- `CURRENT_TIMESTAMP` (the lock rows' defaults) is the transaction's beginning:
  any time between `now` and the commit (`BeganAfter`).
- The account check of a person precedes the transaction: `Authenticated` holds
  for `Lag` after a restriction, unless the store looks again (`IsActive`).
- A `now` that is older than a row's `created_at` makes the schema's checks fail
  and the handler roll back; those guards are in the actions.

The model leaves out two unique indexes on purpose (one live device to an owner,
one reply to a command): `OneLiveDevice` and `EjectBackIsOnce` show that the
handlers' own checks keep them, so the indexes are never run into.

## The runs

A *scene* is an instance of its own, with its own seeds and horizon, that shares a run
with others (the variable `scene` never changes).  Deadlock is checked in every run
but four: agents and people can always ask again, and processes be started again,
so the system never stops.  It does stop in `transactions`, when all handlers have
ended, in `accounts` and `lost_commit`, when the patient person is signed in, and in
`exposure`, when everything asked for is settled.

| Run | Explores | Instance | Shows |
| --- | --- | --- | --- |
| `consent` | pause, grant, disconnect, eject, agent, time | 2 people, 2 commands, 2 idempotency keys, 2 nonces, `MaxClock` 1, `Lag` 1, `CommandTTL` 1 | `TypeOK`, `LifecycleConforms`, `PausedRecipientIsLeftAlone`, `OutstandingHasConsent`, `ResultsMatchStatus`, `EndedIsFinal` |
| `exposure` | *metering*: eject, time | 3 people, 3 crossing routes, 3 commands, window of 2, `MaxClock` 4, `Lag` 1, cooldown 0 or 1 | `CooldownSeparates`, `QuotasHold`, `OneCommandPerRequest` |
| | *waiting*: eject, polls, the device's availability, revocation, time, with fairness | 2 commands to one recipient, 2 nonces, everything over at clock 2 | `CommandsSettle` |
| `people` | *connecting*: invitations, grants, disconnect, time | 2 people, 2 codes, `MaxClock` 3, connected or strangers at first | `GrantsNeedRelationship`, `ConnectingTakesACode` |
| | *enrolling*: enroll, revoke, setup, eject, agent, time | 2 devices, 2 keys, 2 secrets, a device registered at first or none, clock up to 2 | `RevokedDeviceIsLeftAlone`, `OneLiveDevice`, `OpenEnrollmentIsAlone` |
| `permission` | *replying*: eject both ways, disconnect, agent, time | 3 commands, replies to any identifier or none, all three audience scopes, `MaxClock` 1, `Lag` 0 | `EjectBackIsOnce`, `ImplementsConsent`, `DispatchIsPermitted` |
| | *withdrawing*: pause, grant, disconnect, revocation, eject, agent, operators, time | 1 command, `MaxClock` 1, `Lag` 0 | the same |
| `replay` | `AgentAuth` | 1 device, 2 nonces, 2 handlers, skew 1, retention 4, handlers take up to 1, `MaxClock` 5 | `AcceptedOnce`, `AcceptedInTime` |
| `session` | `PersonSession` with fairness | 2 people, 2 request slots, 2 sessions, 2 successful refreshes | `EndedSessionShowsNothing`, `SignedOutStaysOut`, `PatientLoadsOwnData`, `RetriesFollowRotation`, `EverythingSettles` |
| `migrations` | `MigrationRunner` with fairness | 3 runs, 3 files, an old, a new and an edited checkout | `LedgerIsTheSchema`, `DoneMeansApplied`, `NobodyIsAhead`, `EveryRunEnds` |
| `accounts` | *provisioning*: `Provisioning` | 2 runs, 2 emails, 3 identifiers, answers of creation, `COMMIT` and deletion may be lost | `StrandedIsKnown`, `DoneIsWhole` |
| | *anyhow*: all of `PersonSignIn` beside one provisioning run whose `COMMIT` is answered | 2 browsers, 2 challenges, 2 identifiers, 2 answers under way | `LinksStayInTheirBrowser`, `AccessIsProvisioned` |
| | *patient*: one person who asks again, with fairness | 3 challenges, 2 mishaps | `PatientGetsIn` |
| `transactions` | any two of 14 requests, with lost connections and suspected conflicts, or three of which one asks for an eject and one pauses its recipient; with fairness | 3 people, 1 earlier command, 4 databases to begin with, limit 2, 2 attempts | `HandlersAreAtomic`, `PollsAnswerWhatIsOutstanding`, `EveryHandlerEnds`, `ImplementsConsent` |
| `device_keys` | `DeviceKeyStore` on two machines | 3 callers, 2 identifiers, 3 creations of each where providers stay as they are; 1 caller and 1 creation of each where `Platform` fails and recovers | `OneKeySpeaks` |
| `timestamps` | as `consent` | 1 command, 1 nonce; a counterexample is expected, see [below](#what-the-code-does-and-the-documents-do-not-say) | `TimestampsAdvance` |
| `lost_commit` | as `accounts`, a counterexample is expected | as `accounts` | `PeopleHaveIdentities` |

Why these bounds are enough to be interesting:

- Two commands are the least with which one can be settled while another is
  queued, three the least for a reply to compete with another reply to the same
  source, and to cross a window's boundary with the counter at its limit.
- `Lag` 1 lets any two handlers commit in the other order than they read their
  clocks; `MaxClock` is at least the lifetime whose end the run is about plus
  `Lag` (command 1, window 2, invitation 1 and retention 1).
- `permission` sets `Lag` to 0, so the permissions are compared with the state the
  dispatch commits in; stale clocks are the other runs' subject.  One command is
  enough in *withdrawing*, for `DispatchIsPermitted` relates a command to the consent
  tables, and `ImplementsConsent` to whoever withdraws its permission.  It has neither
  invitations nor enrollment: their handlers touch no command, are the `people` run's,
  and are part of the theorems `DispatchesArePermitted` and `KeepsThePromise`.
- The commands' runs begin with delivery on and grants given (`Underway`), a state
  earlier handlers lead to; the road there is the `people` run's.
- Identifiers, keys, codes, secrets and nonces are symmetric where nothing orders
  them, and used in one order (`InOrder`) where the run has no symmetry set.
- `exposure`, *waiting*: two commands are the least for one to stand before another.  The
  agent never reports, handlers take no time, and there are as many nonces as
  commands, so that the last tick, when all that was asked for is over, leaves
  polls enough.  A poll that fails to expire what it cannot deliver (the mutant
  `HandOutWhileAvailable`) leaves both waiting for ever.
- `transactions`: dangerous structures have two read-write conflicts in a row; two
  handlers make them between each other, the third makes those that need three, and
  is added where the lock both take is not the one that decides.  Two attempts are the
  least with a retry; the code has three.  The four databases have the earlier
  command queued, handed out with a missing lock row, or reported, people connected
  or not, and a recipient paused or not.  Of the two ejects an hour allows, one is used,
  so two issuances meet at the limit, except in the last database, where two replies
  to one command meet with nothing but the command between them.  More than two handlers and faults at
  once are beyond the time of a run.
- `accounts`: two challenges let an older mail's link meet a newer challenge, two
  browsers let a mail be opened elsewhere.  Three challenges are enough for the
  patient person, who needs one more than there are mishaps.
- `replay`: the clock goes one past the retention, so a nonce is forgotten and its
  row deleted while requests signed before and after are about; retention 4 is the
  least that exceeds a handler's time plus twice the skew, as 10 minutes do in the
  code.  Two handlers let one request be judged before and consumed after another.
- `session`: two slots are the least for two requests to share a refresh; two
  sessions after the first let a person log out and another sign in while answers of
  the former session are still to come, and two refreshes let a retry be refused.
  Liveness rules out symmetry sets, so `MCPersonSession` leaves out by hand
  behaviours that differ in names only (`FirstNames`).
- `PatientLoadsOwnData` speaks of what is loaded in the current session, after a sign-in
  that overlaps no refresh and no logout.  Two things are left out on purpose.  A
  refresh that began before a sign-in may answer after it, and its `Set-Cookie` then
  replaces the new session's cookies though the tab ignores its result (a hazard in
  `PROJECT.json`), so the next load shows the former person's data.  And a list that
  was loaded before the sign-in may still be on the page: `PatientSeesOwnDevices`
  asks for that too and does not hold, as the next section says.
- `migrations`: three files are the least for a run to be overtaken between two
  files; the old checkout ends before the new one, the edited one differs in a file
  both have.
- `device_keys`: `OneKeySpeaks` holds for any callers while the providers stay as they
  are.  Where `Platform` comes and goes it needs what ADR 0005 asks of the agent, a
  new identifier for each enrollment, and one caller.  It would fail if `Software`,
  too, failed while the agent runs: a key whose export failed stays in `Platform`
  and would then be found alone.  Two concurrent callers have the same effect when
  `Platform` fails between them.
- `accounts`, *anyhow*, has its `COMMIT` answered (`CommitsAreHeard`): a lost answer
  leaves a person whose identity is deleted, whom a token issued before would still
  let in, which `AccessIsProvisioned` excludes.
- Overlaps: handlers of `ControlPlane` and `AgentAuth` are one step each, so its runs
  are about their order.  That they are atomic, a pause beside an issuance and two
  replies to one command included, is what `transactions` checks, for the fourteen
  requests it has; two enrollments that overlap are in no run.

Fairness is assumed in five runs.  `session`: fetches settle (the browser gives up on
a connection in the end) and the event loop runs the callbacks of what has settled;
nothing is assumed of the person.  `migrations`: a process goes on while it lives,
and a run that again and again finds the lock free gets it (`SF` on `Lock`), because
PostgreSQL queues the sessions that wait for a lock.  `transactions`: PostgreSQL
goes on with every statement that can, and breaks circular waits.  `exposure`: time
goes on and the agent goes on polling, as its protocol asks.  `accounts`: the
patient person goes on asking, waiting for answers and following the newest link.
Dying, being started, losing and suspecting are never required.

`CommandsSettle` rests on the recipient's device being heard: a restricted account's
agent is refused before it reaches a command, and nothing else ends what is over, so
such a command stays outstanding until the account is restored.

## What the code does and the documents do not say

Two runs check a sentence of the documents, and TLC finds the behaviour that
contradicts it.

- `timestamps`: protocol v1 README, lines 118-119, says that event timestamps "must not
  move backward for one command", and a handler stamps events with a clock it read
  before it waited for its transaction.
- `lost_commit`: `docs/CLOUD-DATABASE.md`, lines 182-185, has the identity removed if the
  transaction that writes both rows fails.  The script takes a `COMMIT` whose answer is
  lost for a failure: the identity goes, the rows stay, and a person is left whom
  nobody can sign in as (`PeopleHaveIdentities`).  The operator reads of a failed run.

Five more sentences are read more strictly than the code does.  No run is kept for
them; for each, TLC finds the behaviour when the property named here is checked.

| Sentence | Behaviour | Property |
| --- | --- | --- |
| ADR 0003, lines 176-177: "Pause, revocation, expiry, cooldown, and safety controls still prevail" | `EXPIRED` is only ever written by a poll, so a command whose lifetime is over still authorizes an eject back | `ExpiredSourceEarnsNoReply` |
| ADR 0003, lines 174-175: a "short-lived, one-time eject-back authorization" | it is one-time (`EjectBackIsOnce`) but compares no time, as `docs/REVIEW-2026-09-23.md`, line 11, already notes | `EjectBackIsShortLived` |
| ADR 0007, lines 45-46: "One person can withdraw the relationship and both physical-action permissions immediately" | a later eject back is judged by its source command alone | `DisconnectionWithdrawsBoth` |
| `WindowsCngDeviceKeyStoreTests.cs`, lines 121-123: a second `Create` is `AlreadyExists` | while the provider of the first key is unavailable the key is not seen, and a second one is made in the other provider; once both work, neither can be opened | `OneKeySpeaks`, with two creations of an identifier where `Platform` comes and goes |
| `docs/HANDOFF.md`, lines 714-716: the console's new GET "lists only the session owner's bounded device state" | the route does, the page does not: a load that fails with anything but a 401 keeps the devices and offers the sign-in form (`web-console.tsx`, lines 161-165 and 175-178), and `verifyOtp` (270-274) clears nothing, so whoever signs in, with nothing under way, has the former person's devices before them until a load of their own succeeds | `PatientSeesOwnDevices`, in `session` |

## The proofs

TLC looks at small instances; these theorems hold for every value of the
constants that satisfies the named assumptions of the modules (the unit
assumptions say that limits and lifetimes are naturals, that seed rows are rows of
the schema, and that a command's identifier is not `NULL`; those of `Transactions`, that
requests are about people and commands there are, that the databases handlers meet
have a place for every row (`Row`) and numbers in the counters, and that no command is
outstanding there without its permission, which is what `KeepsThePromise` says of
every state of `ControlPlane`).  `tlapm` checks them down to the last leaf.

| Theorem | Says |
| --- | --- |
| `TypeCorrect` | `Spec => []TypeOK` |
| `DevicesInvIsInductive`, `OwnersHaveOneDevice` | `Spec => []DevicesInv`, `Spec => []OneLiveDevice` |
| `OpenSecretsAreAlone` | `Spec => []OpenEnrollmentIsAlone` |
| `ConsentIsInductive` | `Spec => []ConsentInv` |
| `PauseIsEffective` | `Spec => []PausedRecipientIsLeftAlone` |
| `ConsentOutlastsCommands` | `Spec => []OutstandingHasConsent` |
| `PromiseIsInductive`, `RevocationIsEffective` | `Spec => []PromiseInv`, `Spec => []RevokedDeviceIsLeftAlone` |
| `KeepsThePromise` | `Spec => ImplementsConsent` |
| `DispatchesArePermitted` | `Spec => DispatchIsPermitted` |
| `CodesConnect` | `Spec => ConnectingTakesACode` |
| `PromiseMeansPermission` | of `Consent`: `Spec => [](TypeOK /\ StandsOnPermission)` |
| `GrantsStandOnRelationships` | `Spec => []GrantsNeedRelationship` |
| `HistoryIsInductive`, `HistoriesFollowTheProtocol` | `Spec => []HistoryInv`, `Spec => []LifecycleConforms` |
| `ResultsAreTruthful` | `Spec => []ResultsMatchStatus` |
| `EndedStaysEnded` | `Spec => EndedIsFinal` |
| `RequestsAreIdempotent` | `Spec => []OneCommandPerRequest` |
| `RepliesAreEarnedOnce` | `Spec => []EjectBackIsOnce` |
| `MeteredIsInductive`, `CooldownIsKept` | `Spec => []MeteredInv`, `Spec => []CooldownSeparates` |
| `QuotasAreKept` | `Spec => []QuotasHold` |
| `ReplayIsInductive`, `NoReplay` | `Spec => []ReplayInv`, `Spec => []AcceptedOnce` |
| `NothingStale` | `Spec => AcceptedInTime` |
| `OverlapIsInductive`, `PollsAreTruthful` | of `Transactions`: `Spec => []OverlapInv`, `Spec => PollsAnswerWhatIsOutstanding` |
| `PromiseIsInductive`, `OverlappingKeepsThePromise` | of `Transactions`: `Spec => []PromiseInv`, `Spec => ImplementsConsent` |
| `AtomicIsInductive`, `OverlappingIsAtomic` | of `Transactions`: `Spec => []AtomicInv`, `Spec => []HandlersAreAtomic` |
| `SteadyMachineSpeaksOnce` | `SteadySpec => []OneKeySpeaks` |
| `LoneAgentSpeaksOnce`, `EitherMachineSpeaksOnce` | `AloneSpec => []OneKeySpeaks`, `EitherMachineSpec => []OneKeySpeaks`, if only `Platform` is unreliable |
| `SessionIsInductive`, `SessionTypeCorrect` | `Spec => []SessionInv`, `Spec => []TypeOK` |
| `NothingIsShownAfterTheEnd` | `Spec => []EndedSessionShowsNothing` |
| `LogoutStands` | `Spec => []SignedOutStaysOut` |
| `RetriesAreEarned` | `Spec => RetriesFollowRotation` |
| `PatienceLoadsOwnData` | `PatientSpec => []PatientLoadsOwnData` |
| `MigrationIsInductive`, `LedgerIsTrue` | `Spec => []MigrationInv`, `Spec => []LedgerIsTheSchema` |
| `SuccessIsComplete` | `Spec => []DoneMeansApplied` |
| `RunsDoNotCollide` | `Spec => [](NobodyIsAhead /\ NoGaps)` |
| `AccountsAreSound` | `SignInSpec => []AccountsInv` |
| `LinksAreBound` | `SignInSpec => []LinksStayInTheirBrowser` |
| `AccessIsEarned` | `SignInSpec => []AccessIsProvisioned`, if `"COMMIT" \notin Lossy` |
| `NobodyIsStrandedUnknown` | `SignInSpec => []StrandedIsKnown` |
| `SuccessIsWhole` | `SignInSpec => []DoneIsWhole` |

`TypeCorrect` has one lemma per operator and one per action.  `AuthorizeType`
carries the one step that is not bookkeeping: a decision is either `AUTHORIZED` or
a rejection reason, so a request row is well typed.

`ConsentInv` is `TypeOK`, `RecipientsHavePolicies` (every command's recipient has
a policy row), `PausedRecipientIsLeftAlone`, `OutstandingHasConsent` and
`GrantsNeedRelationship`.  None of the consent properties is inductive alone:
`PausedRecipientIsLeftAlone` reads `policies[recipient]`, and a pause that
*creates* a row would say nothing of commands queued before it, hence
`RecipientsHavePolicies`; and accepting an invitation removes the grants of a
former relationship, which is harmless only because such grants could not exist.
The argument:

1. Every action but `Eject` changes commands by *settling* them only
   (`CommandsOnlySettle`): none is added, none changes people or source, none
   becomes outstanding.  If it also leaves policies, relationships and grants
   alone, the invariant is kept (`SettleKeepsConsent`).
2. Pausing, withdrawing a grant and disconnecting weaken what outstanding commands
   rely on, and cancel in the same step exactly those that rely on it
   (`PauseKeepsConsent`, `GrantKeepsConsent`, `DisconnectKeepsConsent`).
   Accepting an invitation touches only pairs that are not connected, which by the
   invariant have neither grants nor outstanding commands that need one
   (`AcceptKeepsConsent`).
3. `Eject` adds a command only if the policy said `AUTHORIZED`, and that implies
   the facts the invariant demands (`AuthorizedMeans`, `IssueKeepsConsent`).

`KeepsThePromise` is the refinement.  Its invariant `PromiseInv` adds
`RevokedDeviceIsLeftAlone` to `ConsentInv`: an outstanding command's permission
includes its device, so what stands for it is the policy, relationship and grant
of `ConsentInv` and a live device of the recipient's (`InvariantPermits`).  Given
that, every handler but `Eject` and `Agent` only ends commands, and any step that
only ends commands and leaves the invariant true is a `Change` of `Consent`
(`EndingIsChange`): what is still outstanding is permitted afterwards, because the
invariant holds afterwards.  A poll is a `HandOut` or ends one command
(`AgentKeepsPromise`); an issuance is a `Queue`, under a permission that
`AuthorizedMeans` finds standing (`IssueKeepsPromise`), or leaves commands alone.

`DispatchesArePermitted` needs no invariant of its own: a poll looks at the device
only, and `PromiseInv` says that what is outstanding is permitted when it comes
for it.  `CodesConnect` rests on `ConsentInv`, by which the grants of a pair that is
not connected do not exist.

The other invariants, and why the property alone is not inductive:

- `HistoryInv` joins types, `LifecycleConforms` and `ResultsMatchStatus`: the status,
  the path of the events and the result are written by separate statements, and
  each is right only because the others were.  What every handler other than an
  eject request does to commands is one of three things (`HandlersGoOn`): nothing,
  ending or handing out some that are outstanding, along a transition the protocol
  allows, or the report of one result.  `LifecycleGoesOn` says that a path extended
  by an allowed transition still conforms; `EndedIsFinal` follows from the same
  case distinction.
- `OneCommandPerRequest` needs `RequestsAreRecorded`: a new request takes an
  identifier without events, and as every request has left its events, that is not
  one of an earlier request.
- `EjectBackIsOnce` is inductive given the types: `Issue` looks for an earlier reply
  in the same step that adds one.
- `MeteredInv` is behind cooldown and quotas.  A handler may commit after another
  that read its clock later, so neither counter nor cooldown says anything by
  itself.  `RowsCoverCommands` says what the two rows still know of each command:
  both windows reach past its time, and the recipient's `cooldownUntil` is no
  earlier than its cooldown.  A window therefore moves only past every command
  counted in it, and a request admitted against a row is a cooldown after all
  earlier ones.  `CountingOneMore` is the fact about cardinality, and the reason why
  the invariant says that the commands are finitely many.
- `DevicesInv` states `OpenEnrollmentIsAlone` row by row (`OpenRowIsAlone`): an owner
  has a live device or one open secret, never both, so the device that uses a
  secret up is the only live one.
- `SteadyInv`, of a machine whose providers neither come nor go: every key is made
  in the first provider that works, `Home`, and a caller moves on to `Software` only
  for want of `Platform`.  Any number of callers may race.
- `AloneInv`, of one agent that creates each key once while `Platform` comes and goes:
  as long as a creation may still use `Platform`, `Software` has no key of that
  identifier and nothing was answered for it, and every answer is of the key the
  identifier speaks with (`Voice`).
- `OwnInv` adds to `SessionInv` that cookies, a refresh and the requests of the
  current session are the account's or nobody's, with one exception, a sign-in
  that was accepted and is not handled yet.  A person who signs in while a refresh or a
  logout is under way may break it, see [above](#the-runs).
- `ReplayInv` adds to `AcceptedOnce` that a handler's clock is at most `MaxDuration`
  old (`HandlersAreRecent`), that what was authenticated was within the skew of it
  (`AuthenticatedInSkew`), and the reason why no request comes back
  (`AcceptedIsRemembered`): whatever was let through has its row until every clock a
  handler could judge it with is past its timestamp and the skew.  It rests on
  `ReplayAssumption`, `MaxDuration + 2 * MaximumClockSkew < Retention`: with the 30
  seconds and ten minutes of the code, a handler may take nine minutes, far more
  than the platform lets a function run.
- `SessionInv` adds `LogoutIsFinal` (as long as no other session has begun, no refresh
  is under way once the logout has been sent, and the cookies are gone once it has
  been answered, unless a sign-in was accepted) and `RotationsPast` (no request has
  seen a rotation that is yet to come) to the types and
  `EndedSessionShowsNothing`.
- `MigrationInv` adds that the run holding the lock is the only one past it
  (`LockIsExclusive`), that a run is at a file it has (`NextIsOwn`), and that every
  file up to there (`ReadIsApplied`), or every file of a finished run
  (`FinishedIsApplied`), is in the ledger with the content the run read.  The ledger
  never loses a row, so a finished run's claim stays true while others go on.
- `AccountsInv` has two halves.  Of provisioning: an identifier is given to one run
  (`IdsAreOwn`) and never again, and a run that has not inserted its rows yet has
  an identity no person shares (`RunsAreSound`), so deleting it takes nobody's.  Of
  signing in: a mail goes to an identity of the email its challenge was made for
  (`MailsGoToTheirAsker`), and what a browser's cookies hold, or an answer under
  way will set, is that browser's own (`CookiesAreOwn`, `AnswersAreOwn`), which is
  what a link's sign-in compares.  An identity can be lost but not change its email
  (`IdentitiesStay`).  None of this depends on the answer to `COMMIT`.  Only where that is
  never lost has every person an identity (the conditional part `PeopleAreWhole`), and
  `AccessIsEarned` rests on it; where it may be lost, a person can be left without, see
  [above](#what-the-code-does-and-the-documents-do-not-say).

`Transactions` is proved in three stages, each of which looks first at a handler alone
and then at several.

1. `IsSound`: whatever its snapshot, a handler asks for the lock of every command it
   writes but its own, and of the one it answers with.  `OverlapInv` follows statement
   by statement: locks exclude each other (`LocksExclude`), a handler that will write
   a command holds its lock or has yet to ask for it (`WritersLock`), and what a poll
   will answer is still so, or that row is newer than its snapshot and its lock
   will fail (`PollsAreInTime`).  `PollsAreTruthful` is the moment of the commit.
2. `IsFaithful`: an issuance writes no command but its own, and has read every row its
   permission rests on; whoever withdraws such a row has read every command that
   rests on it and ends the outstanding ones; an acceptance, which deletes grants
   without looking at commands, does so only where nothing was connected.
   `PromiseInv` says that what a handler saw and nobody has written since is
   still so (`HandlersHaveSnapshots`), that outstanding commands have their
   permission (`CommandsStand`), and that a handler about to issue one has it too or
   was overtaken by a withdrawal that looked for its command (`IssuersStand`).

A withdrawal may then miss a command only if that was issued by a commit after its
own beginning, and an issuance may miss a withdrawal only if the withdrawal looked for
the command.  In both cases each of the two has read what the other wrote, the second
to commit is in a dangerous structure (`MutualConflict`), and PostgreSQL refuses it.  The
argument uses no lock, only snapshots and refusals.  So every commit is a step of `Consent`: a
`Queue`, a `HandOut`, a `Change`, or a stutter (`StepKeepsPromise`).  The operators `:>`
and `@@` are defined in the module because the prover cannot expand TLC's.

3. `IsRepeatable`: a handler's work depends on its request, on the rows it reads or
   writes, and on which counters there are at all, never on another row.  A database
   that agrees on those is `AsGoodFor` it, and it writes and answers the same there;
   this is proved operation by operation, since it is what the modelled `reads` claim.
   `AtomicInv` adds to `PromiseInv` what the commits have left of the database:
   - the commits are a `History`: when each handler began, what it read and wrote.
     `Left(History, start, some)` has every row as the last writer among `some` left it;
     the database is what all have left, and every handler has worked on what those left
     that had committed when it began (`HandlersWorkOnSnapshots`);
   - what they read and wrote are rows that have a place, and counters stay numbers
     (`CommitsAreInPlace`), so that a counter found is never found missing later;
   - of two commits that write one row the second began after the first
     (`FirstCommitterWins`, from the row locks and 40001), and no dangerous structure
     is among them (`HasNoStructure`, from the refusals);
   - there is an order of them (`Respects`) in which who committed before another began
     comes first, and who overlooked another's write, too.

The last part is what a commit might break: the newcomer needs a place in the order after
all that had committed when it began and after those that overlooked what it wrote, and
before those whose writes it overlooked itself.  The threshold is the place before the
first commit that it overlooked, or the last place if there is none (`IsThreshold`; its
beginning, if it wrote nothing).  Late are those that committed after the threshold, wrote
something or began after it, and need not come before anybody up to it (`IsLate`).  The
refusals make whoever must follow a late one late (`LateStaysLate`), and whoever must
follow the newcomer, but nobody that must precede it (`NextIsBetween`).  So it goes
between those that are not late and those that are (`OrderGrows`).

In the end the order is listed (`ListingExists`) and the handlers are run one by one.
Whoever stands before a handler in the order and wrote a row that the handler reads or
writes had committed when it began, and the other way round (`SameWriters`).  So it finds
these rows as in its snapshot and does the same (`AloneDoesTheSame`), and all of them
together leave `db` (`OneAtATime`, `OrderingExplains`).  The databases that
`HandlersAreAtomic` passes through are defined by recursion on an interval; they have
a closed form, `Left` of the first handlers of the listing, and that it solves the
recursion is shown by a least counterexample, without induction over data.

Every invariant and action property of the passing runs is thus a theorem.
Model-checked only are those about liveness, which is out of the prover's reach:
`EverythingSettles`, `EveryRunEnds`, `EveryHandlerEnds`, `CommandsSettle` and
`PatientGetsIn`.

## What is not modelled

- HTTP parsing, size limits, status codes, wire formats, cryptography: the model
  starts where a request has been parsed and its signature verified.
- Two requests of one agent are not ordered: any device and key may send any
  nonce at any time, which covers duplication, loss and reordering of requests.
  The agent's own memory is not modelled, as the repository has none yet.
- The schema's roles and grants, the database pool, the verification scripts.
- The identity provider itself: a mail is good for one sign-in of an identity that is
  still there, tokens verify; its limits and the life of its tokens are not.
  `PersonSession` and `PersonSignIn` share the cookies but are checked apart.
- In `Transactions`: enrollment, the creation of invitations, keys and events, which
  no other handler reads, and scopes other than `NAMED`.
- In `PersonSession`: a second logout, after a sign-in that overtook one still waiting
  for its refresh; and the console's pages beside its list of devices.
- The agent that would poll, and the optical drive it opens: the repository has the
  key store and the drive adapter, connected to nothing yet.
- The conformity check of a stored device key: keys of the store conform.
- Quiet hours: the code's fact is the constant `FALSE`, and so is the model's.

## Plan

In this order, each with its run, and with theorems where the state is simple:

1. `Delivery`: the agent of the protocol, a lossy network and restarts around the
   agent transport, with the drive adapter as the source of results; a command is
   attempted at most once.
2. A refinement of `AgentTransport`'s nonce rule by `AgentAuth`, and enrollment
   secrets in `Transactions`.
3. The reference validator of the protocol, as a pure function compared with the
   grammar of its messages.
