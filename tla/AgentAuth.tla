------------------------------- MODULE AgentAuth -------------------------------
(***************************************************************************)
(* Signed agent requests and the nonces that keep them from being accepted *)
(* twice.  A handler reads its clock, authenticates against what the       *)
(* database says then, and consumes the nonce in a later transaction, with *)
(* the clock it read at first.  A network that delivers a signed request   *)
(* again does so at any time.                                              *)
(* Source: modules/devices/application/authenticate-agent-request.ts,      *)
(* modules/eject/infrastructure/postgres-agent-transport-store.ts,         *)
(* modules/devices/transport/agent-http-handlers.ts                        *)
(*                                                                         *)
(* A request is what its signature covers; the key and the body differ     *)
(* only if the nonce or the timestamp does, or stand for another device.   *)
(* Requests whose hash or signature does not verify change nothing and are *)
(* left out.  The instances of the server share one clock.                 *)
(***************************************************************************)
EXTENDS Integers

CONSTANTS
  Device,
  Nonce,
  Timestamp,
  Handler,
  None,
  MaximumClockSkew,
  Retention,   \* how long a nonce is remembered
  MaxDuration, \* from a handler's look at the clock to its commit
  MaxClock

VARIABLES
  clock,
  ready,     \* devices that are READY, with a live key and an active owner
  nonces,    \* device_request_nonces
  handlers,  \* the requests being handled
  accepted   \* how often each request has been let through

vars == <<clock, ready, nonces, handlers, accepted>>

Request == [device: Device, nonce: Nonce, timestamp: Timestamp]

(* Rows outlive the window in which a request they stand for is accepted,  *)
(* also by a handler that takes its time: 30 s of skew either way against  *)
(* 10 minutes of retention leave 9 minutes for a handler, more than the    *)
(* platform lets one run.                                                  *)
ASSUME ReplayAssumption ==
  /\ Timestamp \subseteq Nat
  /\ MaximumClockSkew \in Nat /\ Retention \in Nat /\ MaxDuration \in Nat
  /\ MaxDuration + 2 * MaximumClockSkew < Retention

ASSUME NoRequestAssumption == None \notin Request

Row == [device: Device, nonce: Nonce, expiresAt: Nat]

Free == [phase |-> "free", request |-> None, now |-> 0]

TypeOK ==
  /\ clock \in Nat
  /\ ready \subseteq Device
  /\ nonces \subseteq Row
  /\ handlers \in [Handler -> [phase: {"free", "parsed", "authenticated"},
                               request: Request \cup {None}, now: Nat]]
  /\ \A h \in Handler :
       handlers[h].phase # "free" => handlers[h].request \in Request
  /\ accepted \in [Request -> Nat]

Init ==
  /\ clock = 0
  /\ ready \in SUBSET Device
  /\ nonces = {}
  /\ handlers = [h \in Handler |-> Free]
  /\ accepted = [r \in Request |-> 0]
----------------------------------------------------------------------------
(* handleAgentPoll, handleAgentResult: the handler looks at the clock.     *)
Receive(h, request) ==
  /\ handlers[h].phase = "free"
  /\ handlers' = [handlers EXCEPT
       ![h] = [phase |-> "parsed", request |-> request, now |-> clock]]
  /\ UNCHANGED <<clock, ready, nonces, accepted>>

(* Mutant: only requests of the past are compared with the clock.          *)
InSkewOneSided(request, now) == now - request.timestamp <= MaximumClockSkew

(* Math.abs(now - timestamp) <= maximumClockSkewMs                         *)
InSkew(request, now) ==
  /\ now - request.timestamp <= MaximumClockSkew
  /\ request.timestamp - now <= MaximumClockSkew

(* authenticateAgentRequest: the key is loaded after the clock was read.   *)
Authenticate(h) ==
  /\ handlers[h].phase = "parsed"
  /\ LET request == handlers[h].request
     IN  handlers' = [handlers EXCEPT ![h] =
           IF request.device \in ready /\ InSkew(request, handlers[h].now)
             THEN [@ EXCEPT !.phase = "authenticated"]
             ELSE Free]
  /\ UNCHANGED <<clock, ready, nonces, accepted>>

NewRow(request, now) ==
  [device |-> request.device, nonce |-> request.nonce,
   expiresAt |-> now + Retention]

(* Mutant: rows are forgotten as soon as the timestamp would be refused.   *)
RememberedBriefly(device, now) ==
  {row \in nonces : ~(row.device = device
                      /\ row.expiresAt <= now + Retention - MaximumClockSkew)}

(* The rows that the DELETE of expired rows of the device leaves.          *)
Remembered(device, now) ==
  {row \in nonces : ~(row.device = device /\ row.expiresAt <= now)}

(* consumeNonce, and with it poll or ingest: device, key and owner are     *)
(* looked at again, and the row is unique to device and nonce.             *)
Consume(h) ==
  /\ handlers[h].phase = "authenticated"
  /\ LET request == handlers[h].request
         now     == handlers[h].now
         kept    == Remembered(request.device, now)
     IN  IF /\ request.device \in ready
            /\ \A row \in kept :
                 ~(row.device = request.device /\ row.nonce = request.nonce)
           THEN /\ nonces' = kept \cup {NewRow(request, now)}
                /\ accepted' = [accepted EXCEPT ![request] = @ + 1]
           ELSE /\ nonces' = kept
                /\ UNCHANGED accepted
  /\ handlers' = [handlers EXCEPT ![h] = Free]
  /\ UNCHANGED <<clock, ready>>

(* The handler is killed, or its transaction is given up after its         *)
(* retries.                                                                *)
GiveUp(h) ==
  /\ handlers[h].phase # "free"
  /\ handlers' = [handlers EXCEPT ![h] = Free]
  /\ UNCHANGED <<clock, ready, nonces, accepted>>

(* Setup, revocation, restriction and restoration of the owner's account.  *)
SetReady(devices) ==
  /\ ready' = devices /\ ready' # ready
  /\ UNCHANGED <<clock, nonces, handlers, accepted>>

(* Time passes; no handler takes longer than MaxDuration.                  *)
Tick ==
  /\ clock < MaxClock
  /\ \A h \in Handler :
       handlers[h].phase # "free" => clock < handlers[h].now + MaxDuration
  /\ clock' = clock + 1
  /\ UNCHANGED <<ready, nonces, handlers, accepted>>

Handle(h) ==
  \/ \E request \in Request : Receive(h, request)
  \/ Authenticate(h)
  \/ Consume(h)
  \/ GiveUp(h)

Next ==
  \/ \E h \in Handler : Handle(h)
  \/ \E devices \in SUBSET Device : SetReady(devices)
  \/ Tick

Spec == Init /\ [][Next]_vars
----------------------------------------------------------------------------
(* However often, late or concurrently a signed request is delivered, it   *)
(* is let through once: a poll or a result has one effect.                 *)
AcceptedOnce == \A r \in Request : accepted[r] <= 1

(* A request takes effect close to the time its agent signed it, though    *)
(* only a clock read earlier is compared with it.                          *)
AcceptedInTime ==
  [][\A r \in Request :
       accepted'[r] > accepted[r]
       => /\ clock <= r.timestamp + MaximumClockSkew + MaxDuration
          /\ r.timestamp <= clock + MaximumClockSkew]_vars
=============================================================================
