--------------------------- MODULE AgentTransport ---------------------------
(***************************************************************************)
(* What a device's agent does at the control plane: poll for the oldest    *)
(* outstanding command and report the result of one.  Each request first   *)
(* consumes its nonce, in the transaction that also polls or ingests.      *)
(* Source: control-plane/src/modules/eject/infrastructure/                 *)
(* postgres-agent-transport-store.ts and application/agent-polling.ts,     *)
(* ingest-agent-result.ts.                                                 *)
(***************************************************************************)
EXTENDS Devices

CONSTANTS
  Nonce,       \* request nonces (the table stores their digests)
  NonceTTL,    \* how long a nonce is remembered: 10 minutes
  ClockSkew,   \* tolerated lead of an agent's clock: 30 seconds
  Observation  \* [result, recordedAt]: what agents may report of a command

VARIABLES
  nonces,  \* device_request_nonces
  results  \* agent_results, keyed by command (whose device is the reporter)

transportVars == <<nonces, results>>

(* The result codes, by what the control plane tells apart.  REFUSED       *)
(* stands for the codes of a REJECTED disposition, DRIVE_ERROR for the     *)
(* codes of an ATTEMPTED one other than COMMAND_ACCEPTED.                  *)
ResultCode == {"REFUSED", "COMMAND_ACCEPTED", "DRIVE_ERROR"}

ASSUME TransportAssumption ==
  /\ NonceTTL \in Nat \ {0}
  /\ ClockSkew \in Nat
  /\ Observation \subseteq [result: ResultCode, recordedAt: Nat]

TransportTypeOK ==
  /\ nonces \subseteq [device: Device, nonce: Nonce, expiresAt: Nat]
  /\ DOMAIN results \subseteq DOMAIN commands
  /\ results \in [DOMAIN results -> Observation]

TransportInit ==
  /\ nonces = {}
  /\ results = [id \in {} |-> None]

(* The device may be heard: it is READY, the key is its own and unrevoked, *)
(* and its owner's account is active and participating.                    *)
IsHeard(device, key) ==
  /\ device \in DOMAIN devices
  /\ devices[device].state = "READY"
  /\ devices[device].key = key /\ ~devices[device].keyRevoked
  /\ IsActive(devices[device].owner)
  /\ Participation[devices[device].owner] # "REVOKED"

(* The nonces that remain once the device's expired ones are deleted.      *)
Remembered(device, now) ==
  {row \in nonces : row.device # device \/ row.expiresAt > now}

IsReplay(device, nonce, now) ==
  \E row \in Remembered(device, now) : row.device = device /\ row.nonce = nonce

ConsumeNonce(device, key, nonce, now) ==
  /\ IsHeard(device, key)
  /\ ~IsReplay(device, nonce, now)
  /\ nonces' = Remembered(device, now) \cup
                 {[device |-> device, nonce |-> nonce,
                   expiresAt |-> now + NonceTTL]}

(* A request that is refused as a replay or for its credentials: the       *)
(* deletion of expired nonces is committed all the same.                   *)
RefuseAgentRequest(device, key, nonce, now) ==
  /\ device \in DOMAIN devices /\ devices[device].key = key
  /\ ~IsHeard(device, key) \/ IsReplay(device, nonce, now)
  /\ nonces' = Remembered(device, now)
  /\ UNCHANGED <<results, commandVars>>

(* ORDER BY issued_at, command_id LIMIT 1; command ids are random.         *)
Oldest(device) ==
  {id \in OutstandingFor(device) :
     \A other \in OutstandingFor(device) :
       commands[id].issuedAt <= commands[other].issuedAt}

(* Mutant: the global delivery gate is not read.                           *)
HandOutRegardless(id, device, now) ==
  IF commands[id].expiresAt <= now
    THEN Advance({id}, "EXPIRED", <<"EXPIRED">>, now)
  ELSE IF devices[device].available /\ commands[id].status = "QUEUED"
    THEN Advance({id}, "DISPATCHED", <<"DISPATCHED">>, now)
  ELSE UNCHANGED commandVars

(* Mutant: the device is looked at before the time.                        *)
HandOutWhileAvailable(id, device, now) ==
  IF ~devices[device].available THEN UNCHANGED commandVars
  ELSE IF commands[id].expiresAt <= now
    THEN Advance({id}, "EXPIRED", <<"EXPIRED">>, now)
  ELSE IF ~deliveryEnabled
    THEN Advance({id}, "CANCELLED", <<"CANCELLED">>, now)
  ELSE IF commands[id].status = "QUEUED"
    THEN Advance({id}, "DISPATCHED", <<"DISPATCHED">>, now)
  ELSE UNCHANGED commandVars

(* What a poll does with the command it selected, in the order of the      *)
(* code's early returns.                                                   *)
HandOut(id, device, now) ==
  IF commands[id].expiresAt <= now
    THEN Advance({id}, "EXPIRED", <<"EXPIRED">>, now)
  ELSE IF ~deliveryEnabled
    THEN Advance({id}, "CANCELLED", <<"CANCELLED">>, now)
  ELSE IF devices[device].available /\ commands[id].status = "QUEUED"
    THEN Advance({id}, "DISPATCHED", <<"DISPATCHED">>, now)
  ELSE UNCHANGED commandVars

Poll(device, key, nonce, now) ==
  /\ ConsumeNonce(device, key, nonce, now)
  /\ IF OutstandingFor(device) = {}
       THEN UNCHANGED commandVars
       ELSE \E id \in Oldest(device) : HandOut(id, device, now)
  /\ UNCHANGED results

(* What an accepted result appends to the lifecycle, and where it ends.    *)
ResultPath(result) ==
  CASE result = "REFUSED"          -> <<"DELIVERED", "REJECTED_BY_AGENT">>
    [] result = "COMMAND_ACCEPTED" -> <<"DELIVERED", "ATTEMPTED",
                                        "OUTCOME_UNKNOWN">>
    [] result = "DRIVE_ERROR"      -> <<"DELIVERED", "ATTEMPTED", "FAILED">>

(* Mutant: a reported command is left at DELIVERED.                        *)
StatusDelivered(result) == "DELIVERED"

ResultStatusOf(result) ==
  CASE result = "REFUSED"          -> "REJECTED_BY_AGENT"
    [] result = "COMMAND_ACCEPTED" -> "OUTCOME_UNKNOWN"
    [] result = "DRIVE_ERROR"      -> "FAILED"

(* Mutant: any command of the device may be reported.                      *)
AwaitsResultAlways(id, device) ==
  /\ id \in DOMAIN commands
  /\ commands[id].device = device
  /\ id \notin DOMAIN results

(* The device may report this command now, and no result is stored for it. *)
AwaitsResult(id, device) ==
  /\ id \in DOMAIN commands
  /\ commands[id].device = device
  /\ id \notin DOMAIN results
  /\ commands[id].status = "DISPATCHED"

(* Mutant: the last result reported overwrites the stored one.             *)
IngestLastResult(device, key, nonce, id, observation, now) ==
  /\ observation.recordedAt <= now + ClockSkew
  /\ ConsumeNonce(device, key, nonce, now)
  /\ IF AwaitsResult(id, device)
       THEN /\ results' = Put(results, id, observation)
            /\ Advance({id}, ResultStatusOf(observation.result),
                       ResultPath(observation.result), now)
       ELSE /\ results' = IF id \in DOMAIN results
                            THEN Put(results, id, observation) ELSE results
            /\ UNCHANGED commandVars

(* A result recorded too far in the future never reaches the store.  A     *)
(* result for another device's command, a repeated or conflicting one, and *)
(* one for a command that is not dispatched only use up the nonce.         *)
IngestResult(device, key, nonce, id, observation, now) ==
  /\ observation.recordedAt <= now + ClockSkew
  /\ ConsumeNonce(device, key, nonce, now)
  /\ IF AwaitsResult(id, device)
       THEN /\ results' = Put(results, id, observation)
            /\ Advance({id}, ResultStatusOf(observation.result),
                       ResultPath(observation.result), now)
       ELSE UNCHANGED <<results, commandVars>>
=============================================================================
