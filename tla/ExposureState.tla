---------------------------- MODULE ExposureState ----------------------------
(***************************************************************************)
(* The tables recipient_eject_state and sender_eject_state: one tumbling   *)
(* one-hour window per person with the number of commands accepted in it,  *)
(* and the recipient's cooldown.  The recipient's row is also the lock the *)
(* consent and issuance transactions take.                                 *)
(*                                                                         *)
(* cooldown_until NULL is 0: no time is earlier.  revision and updated_at  *)
(* are never read and are left out.                                        *)
(***************************************************************************)
EXTENDS Accounts

CONSTANTS
  Hour,        \* length of the window
  SenderLimit  \* sender_eject_state.hourly_limit

VARIABLES
  recipientState, \* recipient_eject_state
  senderState     \* sender_eject_state

exposureVars == <<recipientState, senderState>>

ASSUME HourAssumption == Hour \in Nat \ {0} /\ SenderLimit \in Nat

ExposureTypeOK ==
  /\ DOMAIN recipientState \subseteq Person
  /\ recipientState \in [DOMAIN recipientState ->
                           [window: Nat, accepted: Nat, cooldownUntil: Nat]]
  /\ DOMAIN senderState \subseteq Person
  /\ senderState \in [DOMAIN senderState -> [window: Nat, accepted: Nat]]

ExposureInit ==
  /\ recipientState = [p \in {} |-> 0]
  /\ senderState = [p \in {} |-> 0]

NewRecipientState(at) == [window |-> at, accepted |-> 0, cooldownUntil |-> 0]
NewSenderState(at) == [window |-> at, accepted |-> 0]

(* The recipient's row exists after this step; created now if absent.      *)
EnsureRecipientState(recipient, at) ==
  recipientState' =
    PutIfAbsent(recipientState, recipient, NewRecipientState(at))

WindowOver(row, now) == row.window + Hour <= now

(* What the authorization facts say was accepted in the window.            *)
AcceptedInWindow(row, now) == IF WindowOver(row, now) THEN 0 ELSE row.accepted

(* Mutant: the window restarts without counting the command that does it.  *)
CountAcceptedLate(row, now) ==
  IF WindowOver(row, now)
    THEN [row EXCEPT !.window = now, !.accepted = 0]
    ELSE [row EXCEPT !.accepted = @ + 1]

(* One more accepted command: a window that is over restarts at now.       *)
CountAccepted(row, now) ==
  IF WindowOver(row, now)
    THEN [row EXCEPT !.window = now, !.accepted = 1]
    ELSE [row EXCEPT !.accepted = @ + 1]

(* Mutant: a cooldown is started once and never again.                     *)
StartCooldownOnce(row, now, cooldown) ==
  IF row.cooldownUntil = 0 THEN [row EXCEPT !.cooldownUntil = now + cooldown]
                           ELSE row

StartCooldown(row, now, cooldown) ==
  [row EXCEPT !.cooldownUntil = now + cooldown]
=============================================================================
