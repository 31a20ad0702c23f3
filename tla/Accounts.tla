------------------------------ MODULE Accounts ------------------------------
(***************************************************************************)
(* What every transaction of the control plane shares: the people, the     *)
(* clock and the switch an operator holds over delivery.                   *)
(*                                                                         *)
(* Each store runs one handler as one SERIALIZABLE PostgreSQL transaction, *)
(* so a handler is one action taken when its transaction commits.  Two     *)
(* things a handler uses are older than that moment, by at most Lag: the   *)
(* time `now` it read before its transaction began, and the account check  *)
(* that authenticated the person.                                          *)
(***************************************************************************)
EXTENDS Integers

CONSTANTS
  Person,        \* the accounts
  Participation, \* people.participation_state; no code under src/ changes it
  PersonAvailability, \* people.availability; no code under src/ changes it
  Lag,           \* how long a handler may take from reading its clock to commit
  MaxClock       \* bound on time in a model run

VARIABLES
  clock,         \* the control plane's clock
  restrictedAt,  \* when an operator restricted the account, or Never
  deliveryEnabled \* system_delivery_policy.delivery_enabled

accountVars == <<clock, restrictedAt, deliveryEnabled>>

Never == -1

ASSUME LagAssumption == Lag \in Nat

(* The times a handler that commits now may have read from its clock.      *)
Recent == {t \in 0..clock : clock <= t + Lag}

(* people.account_status = 'ACTIVE', as a transaction reads it.            *)
IsActive(person) == restrictedAt[person] = Never

(* The account reader found the person ACTIVE before the handler called    *)
(* its store; the account may have been restricted since.                  *)
Authenticated(person) ==
  \/ IsActive(person)
  \/ clock <= restrictedAt[person] + Lag

(* A partial function with one more row, or one row replaced.              *)
Put(table, key, row) ==
  [k \in DOMAIN table \cup {key} |-> IF k = key THEN row ELSE table[k]]

(* INSERT ... ON CONFLICT DO NOTHING.                                      *)
PutIfAbsent(table, key, row) ==
  IF key \in DOMAIN table THEN table ELSE Put(table, key, row)

AccountsTypeOK ==
  /\ clock \in Nat
  /\ restrictedAt \in [Person -> Nat \cup {Never}]
  /\ deliveryEnabled \in BOOLEAN

AccountsInit ==
  /\ clock = 0
  /\ restrictedAt = [p \in Person |-> Never]
  /\ deliveryEnabled \in BOOLEAN

Tick ==
  /\ clock < MaxClock
  /\ clock' = clock + 1
  /\ UNCHANGED <<restrictedAt, deliveryEnabled>>

(* An operator restricts an account directly in the database.              *)
RestrictAccount(person) ==
  /\ IsActive(person)
  /\ restrictedAt' = [restrictedAt EXCEPT ![person] = clock]
  /\ UNCHANGED <<clock, deliveryEnabled>>

(* An operator opens or closes the global delivery gate.                   *)
SetDelivery(enabled) ==
  /\ deliveryEnabled # enabled
  /\ deliveryEnabled' = enabled
  /\ UNCHANGED <<clock, restrictedAt>>
=============================================================================
