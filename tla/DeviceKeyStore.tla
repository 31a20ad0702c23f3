---------------------------- MODULE DeviceKeyStore ----------------------------
(***************************************************************************)
(* The device key of the Windows agent.  A key is found by its name in two *)
(* CNG providers, either of which may be unavailable for a while; nothing  *)
(* else remembers where it was created.                                    *)
(* Source: Eject.Agent.Windows/WindowsCngDeviceKeyStore.cs                 *)
(*                                                                         *)
(* Every call of CNG is a step of its own.  An unavailable provider fails  *)
(* every call; that a key exists is not reported either.  The keys of the  *)
(* store conform, so ValidateKey has nothing to refuse; GetPublicKey and   *)
(* Sign differ only in what they do with the key they opened.              *)
(***************************************************************************)
EXTENDS Naturals

CONSTANTS
  Caller,     \* threads and processes of the agent
  KeyId,
  Platform,   \* Microsoft Platform Crypto Provider
  Software,   \* Microsoft Software Key Storage Provider
  None,
  Unreliable, \* providers that fail and recover while the agent runs
  MaxCreates  \* how often Create is called for one identifier

Provider == {Platform, Software}

ASSUME ProviderAssumption ==
  /\ Platform # Software /\ None \notin Nat \cup KeyId \cup Provider
  /\ Unreliable \subseteq Provider
  /\ MaxCreates \in Nat

VARIABLES
  available, \* providers that work now
  made,      \* how many keys were ever generated: they are numbered
  keys,      \* the key of each identifier in each provider
  creates,   \* how often Create was called for an identifier
  callers,
  answers    \* keys whose public key or signature a caller was given

vars == <<available, made, keys, creates, callers, answers>>
data == <<made, keys, creates, answers>>

Idle == [phase |-> "idle", call |-> None, id |-> None, at |-> None,
         found |-> {}, key |-> None]

CallerRow ==
  [phase: {"finding", "creating", "exporting", "checking", "opening"},
   call: {"Create", "Sign"}, id: KeyId, at: Provider,
   found: SUBSET Provider, key: 1..made \cup {None}]

TypeOK ==
  /\ available \subseteq Provider
  /\ made \in Nat
  /\ keys \in [Provider -> [KeyId -> 1..made \cup {None}]]
  /\ creates \in [KeyId -> 0..MaxCreates]
  /\ callers \in [Caller -> CallerRow \cup {Idle}]
  /\ answers \in [KeyId -> SUBSET (1..made)]

Init ==
  /\ available \in SUBSET Provider
  /\ made = 0
  /\ keys = [p \in Provider |-> [i \in KeyId |-> None]]
  /\ creates = [i \in KeyId |-> 0]
  /\ callers = [c \in Caller |-> Idle]
  /\ answers = [i \in KeyId |-> {}]
----------------------------------------------------------------------------
(* KeyExists: a provider that fails has no such key.                       *)
KeyExists(p, id) == p \in available /\ keys[p][id] # None

Finish(c) == callers' = [callers EXCEPT ![c] = Idle]

(* Create, or GetPublicKey or Sign, begins with FindExistingProviders.     *)
Begin(c, call, id) ==
  /\ callers[c].phase = "idle"
  /\ callers' = [callers EXCEPT
       ![c] = [Idle EXCEPT !.phase = "finding", !.call = call, !.id = id,
                           !.at = Platform]]

Create(c, id) ==
  /\ creates[id] < MaxCreates
  /\ Begin(c, "Create", id)
  /\ creates' = [creates EXCEPT ![id] = @ + 1]
  /\ UNCHANGED <<available, made, keys, answers>>

Sign(c, id) == Begin(c, "Sign", id) /\ UNCHANGED <<available, data>>

(* OpenSingleKey: NotFound, InvalidStoredKey if both have it, or its key.  *)
OpenSingle(c, found) ==
  \/ /\ \A p \in Provider : found # {p}
     /\ Finish(c)
  \/ \E p \in Provider :
       /\ found = {p}
       /\ callers' = [callers EXCEPT
            ![c].phase = "opening", ![c].found = found, ![c].at = p]

(* PreferPlatformProvider, unless the key exists.                          *)
CreateUnlessFound(c, found) ==
  IF found # {} THEN Finish(c)
  ELSE callers' = [callers EXCEPT ![c].phase = "creating", ![c].at = Platform]

(* FindExistingProviders: Platform is asked, then Software.                *)
Find(c) ==
  /\ callers[c].phase = "finding"
  /\ LET caller == callers[c]
         found  == caller.found \cup
                     {p \in {caller.at} : KeyExists(p, caller.id)}
     IN  CASE caller.at = Platform ->
                callers' = [callers EXCEPT ![c].at = Software, ![c].found = found]
           [] caller.at = Software /\ caller.call = "Create" ->
                CreateUnlessFound(c, found)
           [] caller.at = Software /\ caller.call = "Sign" ->
                OpenSingle(c, found)
  /\ UNCHANGED <<available, data>>

(* CngKey.Create, which fails if the provider has a key of the name.       *)
CreateKey(c) ==
  LET caller == callers[c]
  IN  /\ caller.phase = "creating"
      /\ IF caller.at \in available /\ keys[caller.at][caller.id] = None
           THEN /\ made' = made + 1
                /\ keys' = [keys EXCEPT ![caller.at][caller.id] = made + 1]
                /\ callers' = [callers EXCEPT
                     ![c].phase = "exporting", ![c].key = made + 1]
           ELSE /\ callers' = [callers EXCEPT ![c].phase = "checking"]
                /\ UNCHANGED <<made, keys>>
      /\ UNCHANGED <<available, creates, answers>>

(* ExportPublicKey of the new key; the key stays if it fails.              *)
Export(c) ==
  LET caller == callers[c]
  IN  /\ caller.phase = "exporting"
      /\ IF caller.at \in available
           THEN /\ answers' = [answers EXCEPT ![caller.id] = @ \cup {caller.key}]
                /\ Finish(c)
           ELSE /\ callers' = [callers EXCEPT ![c].phase = "checking"]
                /\ UNCHANGED answers
      /\ UNCHANGED <<available, made, keys, creates>>

(* Mutant: a creation that failed is tried elsewhere, whatever the reason. *)
CaughtRegardless(c) ==
  LET caller == callers[c]
  IN  /\ caller.phase = "checking"
      /\ IF caller.at = Software THEN Finish(c)
         ELSE callers' = [callers EXCEPT ![c].phase = "creating",
                ![c].at = Software, ![c].key = None]
      /\ UNCHANGED <<available, data>>

(* The handlers of Create and PreferPlatformProvider: AlreadyExists, or    *)
(* the other provider, or ProtectedStorageUnavailable.                     *)
Caught(c) ==
  LET caller == callers[c]
  IN  /\ caller.phase = "checking"
      /\ IF KeyExists(caller.at, caller.id) \/ caller.at = Software
           THEN Finish(c)
           ELSE callers' = [callers EXCEPT ![c].phase = "creating",
                  ![c].at = Software, ![c].key = None]
      /\ UNCHANGED <<available, data>>

(* CngKey.Open, and the signature or the public key.                       *)
Open(c) ==
  LET caller == callers[c]
  IN  /\ caller.phase = "opening"
      /\ answers' = IF KeyExists(caller.at, caller.id)
           THEN [answers EXCEPT ![caller.id] = @ \cup {keys[caller.at][caller.id]}]
           ELSE answers
      /\ Finish(c)
      /\ UNCHANGED <<available, made, keys, creates>>

(* The process is killed.                                                  *)
Die(c) ==
  /\ callers[c].phase # "idle"
  /\ Finish(c)
  /\ UNCHANGED <<available, data>>

(* A provider fails, or works again.                                       *)
Change(p) ==
  /\ available' = IF p \in available THEN available \ {p} ELSE available \cup {p}
  /\ UNCHANGED <<data, callers>>

Step(c) == Find(c) \/ CreateKey(c) \/ Export(c) \/ Caught(c) \/ Open(c) \/ Die(c)

Next ==
  \/ \E c \in Caller : Step(c) \/ \E id \in KeyId : Create(c, id) \/ Sign(c, id)
  \/ \E p \in Unreliable : Change(p)

Spec == Init /\ [][Next]_vars
----------------------------------------------------------------------------
(* All that is ever published or signed for an identifier is of one key:   *)
(* the server, which knows the public key it was sent at the enrollment,   *)
(* goes on accepting the device.                                           *)
OneKeySpeaks == \A i \in KeyId : \A k, l \in answers[i] : k = l
=============================================================================
