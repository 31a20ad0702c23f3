------------------------ MODULE DeviceKeyStoreProofs ------------------------
(***************************************************************************)
(* The agent's key store speaks with one key for an identifier, for any    *)
(* identifiers: on a machine whose providers stay as they are, whatever    *)
(* callers race; and on one whose Platform provider comes and goes, with   *)
(* one caller that creates each key once.                                  *)
(***************************************************************************)
EXTENDS MCDeviceKeyStore, TLAPS

(* What the steps leave of the types.                                      *)

(* An idle caller's row is always the same.                                *)
LEMMA PhaseTellsRows ==
  ASSUME TypeOK, NEW c \in Caller
  PROVE  /\ callers[c].phase = "idle" => callers[c] = Idle
         /\ callers[c].phase # "idle" => callers[c] \in CallerRow
BY DEF TypeOK, CallerRow, Idle

(* No key is made before Init's end, whichever providers work.             *)
LEMMA StoreInitType ==
  ASSUME Init
  PROVE  TypeOK
BY ProviderAssumption DEF Init, TypeOK, Provider

(* The tables of callers the types allow; a key that is being exported is  *)
(* known.                                                                  *)
CallersTyped ==
  /\ callers \in [Caller -> CallerRow \cup {Idle}]
  /\ \A c \in Caller : callers[c].phase = "exporting" => callers[c].key # None

StoreTyped == TypeOK /\ CallersTyped

(* A busy caller's next row, but for the key it made.                      *)
NextRow(c, p, found) ==
  \/ Finish(c)
  \/ callers' = [callers EXCEPT ![c].at = p, ![c].found = found]
  \/ callers' = [callers EXCEPT ![c].phase = "opening", ![c].found = found,
                                ![c].at = p]
  \/ callers' = [callers EXCEPT ![c].phase = "creating", ![c].at = Platform]
  \/ callers' = [callers EXCEPT ![c].phase = "creating", ![c].at = Software,
                                ![c].key = None]
  \/ callers' = [callers EXCEPT ![c].phase = "checking"]

(* Whatever a step changes of a busy caller's row, it stays a row.         *)
LEMMA RowsStayTyped ==
  ASSUME StoreTyped, NEW c \in Caller, UNCHANGED made,
         callers[c].phase # "idle",
         NEW p \in Provider, NEW found \in SUBSET Provider,
         NextRow(c, p, found)
  PROVE  CallersTyped'
<1>1. callers[c] \in CallerRow
  BY PhaseTellsRows DEF StoreTyped
<1>2. callers \in [Caller -> CallerRow \cup {Idle}]
  BY DEF StoreTyped, TypeOK
<1>3. CallerRow' = CallerRow
  BY DEF CallerRow
<1>4. ASSUME NEW row \in CallerRow \cup {Idle},
             row.phase = "exporting" => row.key # None,
             callers' = [callers EXCEPT ![c] = row]
      PROVE  CallersTyped'
  BY <1>2, <1>3, <1>4 DEF StoreTyped, CallersTyped, Idle
<1>5. PICK row : /\ callers' = [callers EXCEPT ![c] = row]
                 /\ \/ row = Idle
                    \/ row = [callers[c] EXCEPT !.at = p, !.found = found]
                    \/ row = [callers[c] EXCEPT !.phase = "opening",
                                                !.found = found, !.at = p]
                    \/ row = [callers[c] EXCEPT !.phase = "creating", !.at = Platform]
                    \/ row = [callers[c] EXCEPT !.phase = "creating",
                                                !.at = Software, !.key = None]
                    \/ row = [callers[c] EXCEPT !.phase = "checking"]
  <2>1. ASSUME Finish(c) PROVE callers' = [callers EXCEPT ![c] = Idle]
    BY <2>1 DEF Finish
  <2>. QED
    BY <1>2, <2>1 DEF NextRow
<1>6. row \in CallerRow \cup {Idle}
  BY <1>1, <1>5 DEF CallerRow, Provider
<1>7. row.phase = "exporting" => row.key # None
  <2>1. callers[c].phase = "exporting" => callers[c].key # None
    BY DEF StoreTyped, CallersTyped
  <2>2. CASE row = Idle
    BY <2>2 DEF Idle
  <2>3. CASE row # Idle
    BY <1>1, <1>5, <2>1, <2>3 DEF CallerRow
  <2>. QED
    BY <2>2, <2>3
<1>. QED
  BY <1>4, <1>5, <1>6, <1>7

(* Each step of a caller or of a provider keeps the types.                 *)
LEMMA StoreStepType ==
  ASSUME StoreTyped, [Next]_vars
  PROVE  StoreTyped'
<1>1. CASE UNCHANGED vars
  BY <1>1 DEF vars, StoreTyped, TypeOK, CallersTyped, CallerRow
<1>2. ASSUME NEW p \in Unreliable, Change(p)
      PROVE  StoreTyped'
  <2>1. available' \subseteq Provider
    BY <1>2, ProviderAssumption DEF Change, StoreTyped, TypeOK, Provider
  <2>. QED
    BY <1>2, <2>1 DEF Change, data, StoreTyped, TypeOK,
       CallersTyped, CallerRow
<1>3. ASSUME CallersTyped', UNCHANGED <<available, made, keys>>,
             creates' \in [KeyId -> 0..MaxCreates],
             answers' \in [KeyId -> SUBSET (1..made)]
      PROVE  StoreTyped'
  BY <1>3 DEF StoreTyped, TypeOK, CallersTyped
<1>4. ASSUME NEW c \in Caller, NEW id \in KeyId, NEW call \in {"Create", "Sign"},
             Begin(c, call, id), UNCHANGED made
      PROVE  CallersTyped'
  <2>1. PICK row \in CallerRow :
          row.phase = "finding" /\ callers' = [callers EXCEPT ![c] = row]
    <3>. DEFINE new == [Idle EXCEPT !.phase = "finding", !.call = call,
                                          !.id = id, !.at = Platform]
    <3>1. new \in CallerRow /\ new.phase = "finding"
      BY DEF Idle, CallerRow, Provider
    <3>2. callers' = [callers EXCEPT ![c] = new]
      BY <1>4 DEF Begin
    <3>. QED
      BY <3>1, <3>2
  <2>. QED
    BY <1>4, <2>1 DEF StoreTyped, CallersTyped, CallerRow
<1>5. ASSUME NEW c \in Caller, NEW id \in KeyId,
             Create(c, id) \/ Sign(c, id)
      PROVE  StoreTyped'
  <2>1. CallersTyped'
    BY <1>4, <1>5 DEF Create, Sign, data
  <2>2. creates' \in [KeyId -> 0..MaxCreates]
    BY <1>5, ProviderAssumption DEF Create, Sign, data, StoreTyped, TypeOK, Provider
  <2>. QED
    BY <1>3, <1>5, <2>1, <2>2
       DEF Create, Sign, data, StoreTyped, TypeOK
<1>6. ASSUME NEW c \in Caller, Find(c)
      PROVE  StoreTyped'
  <2>. DEFINE caller == callers[c]
              found  == caller.found \cup
                          {p \in {caller.at} : KeyExists(p, caller.id)}
  <2>1. caller.phase # "idle" /\ caller \in CallerRow
    BY <1>6, PhaseTellsRows DEF Find, StoreTyped
  <2>2. found \in SUBSET Provider
    BY <2>1 DEF CallerRow
  <2>3. \/ callers' = [callers EXCEPT ![c].at = Software, ![c].found = found]
        \/ CreateUnlessFound(c, found)
        \/ OpenSingle(c, found)
    BY <1>6, <2>1 DEF Find, CallerRow, Provider
  <2>. HIDE DEF found
  <2>4. \E p \in Provider : NextRow(c, p, found)
    BY <2>3 DEF NextRow, CreateUnlessFound, OpenSingle, Provider
  <2>5. CallersTyped'
    BY <1>6, <2>1, <2>2, <2>4, RowsStayTyped DEF Find, data
  <2>. QED
    BY <1>3, <1>6, <2>5 DEF Find, data, StoreTyped, TypeOK
<1>7. ASSUME NEW c \in Caller, UNCHANGED <<available, made, keys, creates>>,
             callers[c].phase # "idle",
             \/ Finish(c)
             \/ callers' = [callers EXCEPT ![c].phase = "checking"]
             \/ callers' = [callers EXCEPT ![c].phase = "creating",
                                           ![c].at = Software, ![c].key = None],
             answers' \in [KeyId -> SUBSET (1..made)]
      PROVE  StoreTyped'
  <2>1. Platform \in Provider /\ {} \in SUBSET Provider
    BY DEF Provider
  <2>2. NextRow(c, Platform, {})
    BY <1>7 DEF NextRow
  <2>3. CallersTyped'
    BY <1>7, <2>1, <2>2, RowsStayTyped
  <2>. QED
    BY <1>3, <1>7, <2>3 DEF StoreTyped, TypeOK
<1>8. ASSUME NEW c \in Caller, CreateKey(c)
      PROVE  StoreTyped'
  <2>. DEFINE caller == callers[c]
  <2>1. caller \in CallerRow /\ caller.phase # "idle"
    BY <1>8, PhaseTellsRows DEF CreateKey, StoreTyped
  <2>2. CASE UNCHANGED <<made, keys>> /\ callers' = [callers EXCEPT ![c].phase = "checking"]
    BY <1>7, <1>8, <2>1, <2>2 DEF CreateKey, StoreTyped, TypeOK
  <2>3. CASE /\ made' = made + 1
             /\ keys' = [keys EXCEPT ![caller.at][caller.id] = made + 1]
             /\ callers' = [callers EXCEPT
                  ![c].phase = "exporting", ![c].key = made + 1]
    <3>1. /\ made' \in Nat /\ 1..made \subseteq 1..made' /\ made + 1 \in 1..made'
          /\ made + 1 # None
      BY <2>3, ProviderAssumption DEF StoreTyped, TypeOK, Provider
    <3>. DEFINE theirs == [keys[caller.at] EXCEPT ![caller.id] = made + 1]
    <3>2. keys' \in [Provider -> [KeyId -> 1..made' \cup {None}]]
      <4>1. /\ caller.at \in Provider /\ caller.id \in KeyId
            /\ keys \in [Provider -> [KeyId -> 1..made' \cup {None}]]
        BY <2>1, <3>1 DEF CallerRow, StoreTyped, TypeOK
      <4>2. theirs \in [KeyId -> 1..made' \cup {None}]
        BY <3>1, <4>1
      <4>3. keys' = [keys EXCEPT ![caller.at] = theirs]
        BY <2>3
      <4>. HIDE DEF theirs
      <4>. QED
        BY <4>1, <4>2, <4>3
    <3>3. CallersTyped'
      <4>. DEFINE row == [caller EXCEPT !.phase = "exporting", !.key = made + 1]
      <4>1. row \in CallerRow' /\ row.key # None
        BY <2>1, <3>1 DEF CallerRow
      <4>2. CallerRow \subseteq CallerRow'
        BY <3>1 DEF CallerRow
      <4>3. callers' = [callers EXCEPT ![c] = row]
        BY <2>3
      <4>. HIDE DEF row
      <4>. QED
        BY <4>1, <4>2, <4>3 DEF StoreTyped, CallersTyped, Idle
    <3>4. answers' \in [KeyId -> SUBSET (1..made')]
      BY <1>8, <3>1 DEF CreateKey, StoreTyped, TypeOK
    <3>. QED
      BY <1>8, <3>1, <3>2, <3>3, <3>4
         DEF CreateKey, StoreTyped, TypeOK, CallersTyped
  <2>. QED
    BY <1>8, <2>2, <2>3 DEF CreateKey
<1>9. ASSUME NEW c \in Caller, Export(c) \/ Open(c)
      PROVE  StoreTyped'
  <2>. DEFINE caller == callers[c]
  <2>1. caller \in CallerRow /\ caller.phase # "idle"
    BY <1>9, PhaseTellsRows DEF Export, Open, StoreTyped
  <2>2. caller.id \in KeyId /\ caller.at \in Provider
    BY <2>1 DEF CallerRow
  <2>3. \/ UNCHANGED answers
        \/ \E key \in 1..made :
             answers' = [answers EXCEPT ![caller.id] = @ \cup {key}]
    <3>1. CASE Export(c)
      <4>1. caller.key \in 1..made
        BY <2>1, <3>1 DEF Export, StoreTyped, CallersTyped, CallerRow
      <4>. QED
        BY <3>1, <4>1 DEF Export
    <3>2. CASE Open(c)
      <4>1. KeyExists(caller.at, caller.id)
              => keys[caller.at][caller.id] \in 1..made
        BY <2>2 DEF KeyExists, StoreTyped, TypeOK
      <4>. QED
        BY <3>2, <4>1 DEF Open
    <3>. QED
      BY <1>9, <3>1, <3>2
  <2>4. answers' \in [KeyId -> SUBSET (1..made)]
    BY <2>2, <2>3 DEF StoreTyped, TypeOK
  <2>. QED
    BY <1>7, <1>9, <2>1, <2>4 DEF Export, Open
<1>10. ASSUME NEW c \in Caller, Caught(c) \/ Die(c)
       PROVE  StoreTyped'
  BY <1>7, <1>10 DEF Caught, Die, data, StoreTyped, TypeOK
<1>. QED
  BY <1>1, <1>2, <1>5, <1>6, <1>8, <1>9, <1>10 DEF Next, Step
----------------------------------------------------------------------------
(* A machine whose providers stay as they are: every key is made in the    *)
(* first of them that works, so nobody ever finds one elsewhere.           *)

Home == IF Platform \in available THEN Platform ELSE Software

KeysAreAtHome ==
  \A i \in KeyId :
    /\ \A p \in Provider : p # Home => keys[p][i] = None
    /\ \A k \in answers[i] : k = keys[Home][i]

(* A caller tries Software only for want of Platform, looks for the reason *)
(* of a failure of a working provider only where the key exists, and holds *)
(* the key it made.                                                        *)
RowIsSteady(row) ==
  /\ row.phase = "creating" /\ row.at = Software => Platform \notin available
  /\ row.phase = "checking" /\ row.at \in available => keys[row.at][row.id] # None
  /\ row.phase = "exporting" => /\ row.at \in available
                               /\ keys[row.at][row.id] = row.key

SteadyInv ==
  /\ StoreTyped
  /\ KeysAreAtHome
  /\ \A c \in Caller : RowIsSteady(callers[c])

SteadySpec == Init /\ [][Next /\ UNCHANGED available]_vars

(* Steps that make and publish nothing need only look at the caller's row. *)
LEMMA QuietStepIsSteady ==
  ASSUME SteadyInv, StoreTyped', UNCHANGED <<available, keys, answers>>,
         NEW c \in Caller, \A d \in Caller \ {c} : callers'[d] = callers[d],
         callers[c].phase # "idle" => callers[c] \in CallerRow,
         \/ callers'[c].phase \in {"idle", "finding", "opening"}
         \/ /\ callers'[c].phase = "creating"
            /\ callers'[c].at = Software => Platform \notin available
         \/ /\ callers'[c].phase = "checking"
            /\ callers'[c].at \in available
                 => keys[callers'[c].at][callers'[c].id] # None
  PROVE  SteadyInv'
<1>1. KeysAreAtHome'
  BY DEF SteadyInv, KeysAreAtHome, Home
<1>2. \A d \in Caller : RowIsSteady(callers[d])'
  BY DEF SteadyInv, RowIsSteady
<1>. QED
  BY <1>1, <1>2 DEF SteadyInv

(* A key is made at home: elsewhere it would have been found.              *)
LEMMA CreateKeyIsSteady ==
  ASSUME SteadyInv, StoreTyped', UNCHANGED available,
         NEW c \in Caller, CreateKey(c)
  PROVE  SteadyInv'
<1>. DEFINE caller == callers[c]
<1>1. caller \in CallerRow /\ caller.phase = "creating" /\ RowIsSteady(caller)
  BY PhaseTellsRows DEF CreateKey, SteadyInv, StoreTyped
<1>2. CASE ~(caller.at \in available /\ keys[caller.at][caller.id] = None)
  <2>1. /\ UNCHANGED <<keys, answers>>
        /\ callers' = [callers EXCEPT ![c].phase = "checking"]
    BY <1>2 DEF CreateKey
  <2>2. /\ callers'[c].phase = "checking"
        /\ callers'[c].at = caller.at /\ callers'[c].id = caller.id
        /\ \A d \in Caller \ {c} : callers'[d] = callers[d]
    BY <1>1, <2>1 DEF SteadyInv, StoreTyped, CallersTyped, CallerRow
  <2>. QED
    BY <1>1, <1>2, <2>1, <2>2, QuietStepIsSteady
<1>3. CASE caller.at \in available /\ keys[caller.at][caller.id] = None
  <2>1. /\ made' = made + 1 /\ UNCHANGED answers
        /\ keys' = [keys EXCEPT ![caller.at][caller.id] = made + 1]
        /\ callers' = [callers EXCEPT ![c].phase = "exporting", ![c].key = made + 1]
    BY <1>3 DEF CreateKey
  <2>2. made + 1 # None /\ caller.at \in Provider /\ caller.id \in KeyId
    BY <1>1, ProviderAssumption DEF SteadyInv, StoreTyped, TypeOK, CallerRow, Provider
  <2>3. caller.at = Home
    BY <1>1, <1>3, <2>2 DEF Home, RowIsSteady, Provider
  <2>4. /\ keys'[caller.at][caller.id] = made + 1
        /\ \A p \in Provider, i \in KeyId :
             <<p, i>> # <<caller.at, caller.id>> => keys'[p][i] = keys[p][i]
    BY <2>1, <2>2 DEF SteadyInv, StoreTyped, TypeOK
  <2>5. KeysAreAtHome'
    <3>1. \A k \in answers[caller.id] : FALSE
      <4>1. \A k \in answers[caller.id] : k = None /\ k \in Nat
        BY <1>3, <2>2, <2>3 DEF SteadyInv, KeysAreAtHome, StoreTyped, TypeOK
      <4>. QED
        BY <4>1, ProviderAssumption DEF Provider
    <3>2. UNCHANGED Home
      BY DEF Home
    <3>. HIDE DEF caller
    <3>. QED
      BY <2>1, <2>2, <2>3, <2>4, <3>1, <3>2 DEF SteadyInv, KeysAreAtHome, Home, Provider
  <2>6. /\ callers'[c].phase = "exporting" /\ callers'[c].at = caller.at
        /\ callers'[c].id = caller.id /\ callers'[c].key = made + 1
        /\ \A d \in Caller \ {c} : callers'[d] = callers[d]
    BY <1>1, <2>1 DEF SteadyInv, StoreTyped, CallersTyped, CallerRow
  <2>7. ASSUME NEW d \in Caller PROVE RowIsSteady(callers[d])'
    <3>1. CASE d = c
      BY <1>3, <2>4, <2>6, <3>1 DEF RowIsSteady
    <3>2. CASE d # c
      <4>1. /\ callers'[d] = callers[d] /\ RowIsSteady(callers[d])
            /\ callers[d].phase # "idle" => callers[d] \in CallerRow
            /\ callers[d].phase = "exporting" => callers[d].key # None
        BY <2>6, <3>2, PhaseTellsRows DEF SteadyInv, StoreTyped, CallersTyped
      <4>2. CASE callers[d].phase = "idle"
        BY <4>1, <4>2 DEF RowIsSteady
      <4>3. CASE callers[d].phase # "idle"
        <5>1. callers[d].at \in Provider /\ callers[d].id \in KeyId
          BY <4>1, <4>3 DEF CallerRow
        <5>2. keys[callers[d].at][callers[d].id] # None
                => keys'[callers[d].at][callers[d].id] = keys[callers[d].at][callers[d].id]
          BY <1>3, <2>4, <5>1
        <5>. QED
          BY <4>1, <5>2 DEF RowIsSteady
      <4>. QED
        BY <4>2, <4>3
    <3>. QED
      BY <3>1, <3>2
  <2>. QED
    BY <2>5, <2>7 DEF SteadyInv
<1>. QED
  BY <1>2, <1>3

(* What is published, and what is signed with, is the key at home.         *)
LEMMA AnswerIsSteady ==
  ASSUME SteadyInv, StoreTyped', UNCHANGED available,
         NEW c \in Caller, Export(c) \/ Open(c)
  PROVE  SteadyInv'
<1>. DEFINE caller == callers[c]
<1>1. caller \in CallerRow /\ caller.phase # "idle" /\ RowIsSteady(caller)
  BY PhaseTellsRows DEF Export, Open, SteadyInv, StoreTyped
<1>2. caller.at \in Provider /\ caller.id \in KeyId
  BY <1>1 DEF CallerRow
<1>3. /\ UNCHANGED keys
      /\ \/ UNCHANGED answers
         \/ /\ keys[caller.at][caller.id] # None
            /\ answers' = [answers EXCEPT
                 ![caller.id] = @ \cup {keys[caller.at][caller.id]}]
  <2>1. caller.phase = "exporting"
          => keys[caller.at][caller.id] = caller.key /\ caller.key # None
    BY <1>1 DEF RowIsSteady, SteadyInv, StoreTyped, CallersTyped
  <2>. QED
    BY <2>1 DEF Export, Open, KeyExists
<1>4. /\ callers' = [callers EXCEPT ![c] = Idle]
  <2>1. caller.phase = "exporting" => caller.at \in available
    BY <1>1 DEF RowIsSteady
  <2>. QED
    BY <2>1 DEF Export, Open, Finish
<1>5. KeysAreAtHome'
  <2>1. \A i \in KeyId : \A k \in answers'[i] :
          k \in answers[i] \/ (/\ i = caller.id /\ k = keys[caller.at][caller.id]
                               /\ keys[caller.at][caller.id] # None)
    BY <1>2, <1>3 DEF SteadyInv, StoreTyped, TypeOK
  <2>2. keys[caller.at][caller.id] # None => caller.at = Home
    BY <1>2 DEF SteadyInv, KeysAreAtHome
  <2>3. UNCHANGED Home
    BY DEF Home
  <2>. HIDE DEF caller
  <2>. QED
    BY <1>3, <2>1, <2>2, <2>3 DEF SteadyInv, KeysAreAtHome
<1>6. \A d \in Caller : RowIsSteady(callers[d])'
  BY <1>3, <1>4 DEF SteadyInv, RowIsSteady, StoreTyped, CallersTyped, Idle
<1>. QED
  BY <1>5, <1>6 DEF SteadyInv

(* Every step of a steady machine keeps the invariant.                     *)
LEMMA SteadyStep ==
  ASSUME SteadyInv, [Next /\ UNCHANGED available]_vars
  PROVE  SteadyInv'
<1>1. StoreTyped'
  BY StoreStepType DEF SteadyInv
<1>2. CASE UNCHANGED vars
  BY <1>1, <1>2 DEF vars, SteadyInv, KeysAreAtHome, Home, RowIsSteady
<1>3. CASE \E p \in Unreliable : Change(p)
  BY <1>1, <1>2, <1>3 DEF Change, data, vars, SteadyInv,
     StoreTyped, TypeOK
<1>4. ASSUME NEW c \in Caller, NEW id \in KeyId, UNCHANGED available,
             Create(c, id) \/ Sign(c, id)
      PROVE  SteadyInv'
  <2>1. /\ UNCHANGED <<keys, answers>> /\ callers[c].phase = "idle"
        /\ \E call : callers' = [callers EXCEPT
             ![c] = [Idle EXCEPT !.phase = "finding", !.call = call, !.id = id,
                                       !.at = Platform]]
    BY <1>4 DEF Create, Sign, Begin, data
  <2>2. /\ callers'[c].phase = "finding"
        /\ \A d \in Caller \ {c} : callers'[d] = callers[d]
    BY <2>1 DEF SteadyInv, StoreTyped, CallersTyped, Idle
  <2>. QED
    BY <1>1, <1>4, <2>1, <2>2, QuietStepIsSteady
<1>5. ASSUME NEW c \in Caller, Find(c)
      PROVE  SteadyInv'
  <2>. DEFINE caller == callers[c]
              found  == caller.found \cup
                          {p \in {caller.at} : KeyExists(p, caller.id)}
  <2>1. caller.phase = "finding" /\ caller \in CallerRow
    BY <1>5, PhaseTellsRows DEF Find, SteadyInv, StoreTyped
  <2>2. \/ callers' = [callers EXCEPT ![c].at = Software, ![c].found = found]
        \/ CreateUnlessFound(c, found)
        \/ OpenSingle(c, found)
    BY <1>5, <2>1 DEF Find, CallerRow, Provider
  <2>. HIDE DEF found
  <2>3. /\ \A d \in Caller \ {c} : callers'[d] = callers[d]
        /\ \/ callers'[c].phase \in {"idle", "finding", "opening"}
           \/ callers'[c].phase = "creating" /\ callers'[c].at = Platform
    BY <2>1, <2>2 DEF SteadyInv, StoreTyped, CallersTyped, CallerRow, Idle,
       CreateUnlessFound, OpenSingle, Finish
  <2>4. UNCHANGED <<available, keys, answers>>
    BY <1>5 DEF Find, data
  <2>. QED
    BY <1>1, <2>1, <2>3, <2>4, QuietStepIsSteady, ProviderAssumption DEF Provider
<1>6. ASSUME NEW c \in Caller, Caught(c) \/ Die(c)
      PROVE  SteadyInv'
  <2>. DEFINE caller == callers[c]
  <2>1. caller.phase # "idle" /\ caller \in CallerRow /\ RowIsSteady(caller)
    BY <1>6, PhaseTellsRows DEF Caught, Die, SteadyInv, StoreTyped
  <2>2. /\ \A d \in Caller \ {c} : callers'[d] = callers[d]
        /\ \/ callers'[c].phase = "idle"
           \/ callers'[c].phase = "creating" /\ Platform \notin available
    <3>1. CASE Finish(c)
      BY <3>1 DEF Finish, SteadyInv, StoreTyped, CallersTyped, Idle
    <3>2. CASE ~Finish(c)
      <4>1. /\ callers' = [callers EXCEPT ![c].phase = "creating",
                             ![c].at = Software, ![c].key = None]
            /\ ~KeyExists(caller.at, caller.id) /\ caller.at # Software
            /\ caller.phase = "checking"
        BY <1>6, <3>2 DEF Caught, Die
      <4>2. caller.at = Platform
        BY <2>1, <4>1 DEF CallerRow, Provider
      <4>3. Platform \notin available
        BY <2>1, <4>1, <4>2 DEF RowIsSteady, KeyExists
      <4>. QED
        BY <2>1, <4>1, <4>3 DEF SteadyInv, StoreTyped, CallersTyped, CallerRow
    <3>. QED
      BY <3>1, <3>2
  <2>3. UNCHANGED <<available, keys, answers>>
    BY <1>6 DEF Caught, Die, data
  <2>. QED
    BY <1>1, <2>1, <2>2, <2>3, QuietStepIsSteady
<1>7. CASE Next /\ UNCHANGED available
  <2>1. ASSUME NEW c \in Caller, CreateKey(c) PROVE SteadyInv'
    BY <1>1, <1>7, <2>1, CreateKeyIsSteady
  <2>2. ASSUME NEW c \in Caller, Export(c) \/ Open(c) PROVE SteadyInv'
    BY <1>1, <1>7, <2>2, AnswerIsSteady
  <2>. QED
    BY <1>3, <1>4, <1>5, <1>6, <1>7, <2>1, <2>2 DEF Next, Step
<1>. QED
  BY <1>2, <1>7

(* At first there is no key and nobody calls.                              *)
LEMMA SteadyInit == Init => SteadyInv
<1>. SUFFICES ASSUME Init PROVE SteadyInv
  OBVIOUS
<1>1. TypeOK
  BY StoreInitType
<1>. QED
  BY <1>1 DEF Init, TypeOK, Idle, Provider, SteadyInv,
     StoreTyped, CallersTyped, KeysAreAtHome, Home, RowIsSteady

(* Whatever providers work, as long as no others do, all that is published *)
(* or signed for an identifier is of one key.                              *)
THEOREM SteadyMachineSpeaksOnce == SteadySpec => []OneKeySpeaks
<1>1. Init => SteadyInv
  BY SteadyInit
<1>2. SteadyInv /\ [Next /\ UNCHANGED available]_vars => SteadyInv'
  BY SteadyStep
<1>3. SteadyInv => OneKeySpeaks
  BY DEF SteadyInv, KeysAreAtHome, OneKeySpeaks
<1>. QED  BY <1>1, <1>2, <1>3, PTL DEF SteadySpec
----------------------------------------------------------------------------
(* A machine whose Platform provider comes and goes, with one agent that   *)
(* creates each key once, as ADR 0005 asks of it: while the key is being   *)
(* looked for, nobody else can make it, and nothing signs before it is.    *)

(* One caller begins all the calls, and creates no key twice.              *)
OnlyAgentCreatesOnce ==
  /\ \A c \in Caller \ {Agent} :
       ~(callers[c].phase = "idle" /\ callers'[c].phase # "idle")
  /\ \A i \in KeyId : creates'[i] <= 1

AloneSpec == Init /\ [][Next /\ OnlyAgentCreatesOnce]_vars

(* The key an identifier speaks with: both providers may come to have one, *)
(* if Platform failed after it made its key, before that was published.    *)
Voice(i) ==
  IF keys[Software][i] # None THEN keys[Software][i] ELSE keys[Platform][i]

OthersRest == \A c \in Caller \ {Agent} : callers[c].phase = "idle"

VoiceIsSteady ==
  \A i \in KeyId :
    /\ creates[i] = 0 => \A p \in Provider : keys[p][i] = None
    /\ keys[Software][i] # None => Software \in available
    /\ \A k \in answers[i] : k = Voice(i)

(* A creation under way has published nothing, and one that may still use  *)
(* or make the key of Platform has made none in Software.                  *)
RowIsAlone(row) ==
  /\ row.phase # "idle" /\ row.call = "Create"
       => answers[row.id] = {} /\ creates[row.id] # 0
  /\ \/ row.phase = "finding" /\ row.call = "Create"
     \/ row.phase = "creating"
     \/ row.phase \in {"opening", "checking", "exporting"} /\ row.at = Platform
     => keys[Software][row.id] = None
  /\ row.phase \in {"creating", "exporting", "checking"} => row.call = "Create"
  /\ row.phase = "exporting" => keys[row.at][row.id] = row.key

AloneInv ==
  /\ StoreTyped
  /\ OthersRest
  /\ VoiceIsSteady
  /\ \A c \in Caller : RowIsAlone(callers[c])

(* Only the agent moves: the others never began.                           *)
LEMMA AgentMoves ==
  ASSUME AloneInv, StoreTyped', Agent \in Caller,
         \A c \in Caller \ {Agent} : callers'[c] = callers[c],
         VoiceIsSteady', RowIsAlone(callers[Agent])'
  PROVE  AloneInv'
<1>1. OthersRest'
  BY DEF AloneInv, OthersRest
<1>2. ASSUME NEW c \in Caller PROVE RowIsAlone(callers[c])'
  BY <1>1 DEF OthersRest, RowIsAlone
<1>. QED  BY <1>1, <1>2 DEF AloneInv

(* A call begins: a creation is the first for its identifier.              *)
LEMMA BeginIsAlone ==
  ASSUME AloneInv, StoreTyped', OnlyAgentCreatesOnce,
         NEW c \in Caller, NEW id \in KeyId, Create(c, id) \/ Sign(c, id)
  PROVE  AloneInv'
<1>1. /\ UNCHANGED <<available, keys, answers>>
      /\ callers[c].phase = "idle"
      /\ \E call : callers' = [callers EXCEPT
           ![c] = [Idle EXCEPT !.phase = "finding", !.call = call, !.id = id,
                                     !.at = Platform]]
  BY DEF Create, Sign, Begin, data
<1>2. /\ callers'[c].phase = "finding" /\ callers'[c].id = id
      /\ \A d \in Caller \ {c} : callers'[d] = callers[d]
  BY <1>1 DEF AloneInv, StoreTyped, CallersTyped, Idle
<1>3. c = Agent
  BY <1>1, <1>2 DEF OnlyAgentCreatesOnce
<1>4. VoiceIsSteady'
  <2>1. \A i \in KeyId : creates'[i] = 0 => creates[i] = 0
    BY ProviderAssumption DEF Create, Sign, data, AloneInv, StoreTyped, TypeOK, Provider
  <2>. QED  BY <1>1, <2>1 DEF AloneInv, VoiceIsSteady, Voice
<1>5. RowIsAlone(callers[c])'
  <2>1. CASE Sign(c, id)
    <3>1. callers'[c].call = "Sign"
      BY <2>1 DEF Sign, Begin, AloneInv, StoreTyped, CallersTyped, Idle
    <3>. QED  BY <1>2, <3>1 DEF RowIsAlone
  <2>2. CASE Create(c, id)
    <3>1. creates[id] \in Nat /\ creates'[id] = creates[id] + 1 /\ creates'[id] <= 1
      BY <2>2, ProviderAssumption DEF Create, OnlyAgentCreatesOnce, AloneInv, StoreTyped,
         TypeOK, Provider
    <3>2. \A p \in Provider : keys[p][id] = None
      BY <3>1 DEF AloneInv, VoiceIsSteady
    <3>3. answers[id] = {}
      <4>1. \A k \in answers[id] : k = None /\ k \in Nat
        BY <3>2 DEF AloneInv, VoiceIsSteady, Voice, Provider, StoreTyped,
           TypeOK
      <4>. QED  BY <4>1, ProviderAssumption DEF Provider
    <3>. QED  BY <1>1, <1>2, <3>1, <3>2, <3>3 DEF RowIsAlone, Provider
  <2>. QED  BY <2>1, <2>2
<1>. QED  BY <1>2, <1>3, <1>4, <1>5, AgentMoves

(* Platform's key is opened, or a key made, only if Software has none: it  *)
(* would have shown it.                                                    *)
LEMMA FindIsAlone ==
  ASSUME AloneInv, StoreTyped', NEW c \in Caller, Find(c)
  PROVE  AloneInv'
<1>. DEFINE caller == callers[c]
            found  == caller.found \cup
                        {p \in {caller.at} : KeyExists(p, caller.id)}
<1>1. caller.phase = "finding" /\ caller \in CallerRow /\ c = Agent
  BY PhaseTellsRows DEF Find, AloneInv, StoreTyped, OthersRest
<1>2. UNCHANGED <<available, keys, answers, creates>>
  BY DEF Find, data
<1>3. VoiceIsSteady'
  BY <1>2 DEF AloneInv, VoiceIsSteady, Voice
<1>4. RowIsAlone(caller)
  BY DEF AloneInv
<1>5. \/ caller.at = Platform
         /\ callers' = [callers EXCEPT ![c].at = Software, ![c].found = found]
      \/ /\ caller.at = Software /\ caller.call = "Create"
         /\ CreateUnlessFound(c, found)
      \/ caller.at = Software /\ OpenSingle(c, found)
  BY <1>1 DEF Find, CallerRow, Provider
<1>6. caller.at = Software /\ Software \notin found => keys[Software][caller.id] = None
  BY <1>1 DEF AloneInv, VoiceIsSteady, KeyExists, CallerRow
<1>. HIDE DEF found
<1>7. /\ \A d \in Caller \ {c} : callers'[d] = callers[d]
      /\ \/ callers'[c].phase = "idle"
         \/ /\ callers'[c].phase = "finding"
            /\ callers'[c].call = caller.call /\ callers'[c].id = caller.id
         \/ /\ callers'[c].phase = "creating"
            /\ callers'[c].call = caller.call /\ callers'[c].id = caller.id
            /\ caller.call = "Create"
         \/ /\ callers'[c].phase = "opening"
            /\ callers'[c].call = caller.call /\ callers'[c].id = caller.id
            /\ callers'[c].at = Platform => keys[Software][caller.id] = None
  <2>1. CASE callers' = [callers EXCEPT ![c].at = Software, ![c].found = found]
    BY <1>1, <2>1 DEF AloneInv, StoreTyped, CallersTyped, CallerRow, Idle
  <2>2. CASE caller.call = "Create" /\ CreateUnlessFound(c, found)
    BY <1>1, <2>2 DEF AloneInv, StoreTyped, CallersTyped, CallerRow, Idle,
       CreateUnlessFound, Finish
  <2>3. CASE caller.at = Software /\ OpenSingle(c, found)
    <3>1. CASE Finish(c)
      BY <3>1 DEF Finish, AloneInv, StoreTyped, CallersTyped, Idle
    <3>2. CASE ~Finish(c)
      <4>1. PICK p \in Provider :
              /\ found = {p}
              /\ callers' = [callers EXCEPT
                   ![c].phase = "opening", ![c].found = found, ![c].at = p]
        BY <2>3, <3>2 DEF OpenSingle
      <4>2. p = Platform => keys[Software][caller.id] = None
        BY <1>6, <2>3, <4>1, ProviderAssumption DEF Provider
      <4>. QED
        BY <1>1, <4>1, <4>2 DEF AloneInv, StoreTyped, CallersTyped, CallerRow
    <3>. QED  BY <3>1, <3>2
  <2>. QED  BY <1>5, <2>1, <2>2, <2>3
<1>8. RowIsAlone(callers[c])'
  BY <1>1, <1>2, <1>4, <1>7 DEF RowIsAlone
<1>. QED  BY <1>1, <1>3, <1>7, <1>8, AgentMoves

(* A key is made where none is, for an identifier that has not spoken.     *)
LEMMA CreateKeyIsAlone ==
  ASSUME AloneInv, StoreTyped', NEW c \in Caller, CreateKey(c)
  PROVE  AloneInv'
<1>. DEFINE caller == callers[c]
<1>1. caller \in CallerRow /\ caller.phase = "creating" /\ c = Agent
  BY PhaseTellsRows DEF CreateKey, AloneInv, StoreTyped, OthersRest
<1>2. /\ caller.call = "Create" /\ answers[caller.id] = {} /\ creates[caller.id] # 0
      /\ keys[Software][caller.id] = None
      /\ caller.at \in Provider /\ caller.id \in KeyId
  BY <1>1 DEF AloneInv, RowIsAlone, CallerRow
<1>3. UNCHANGED <<available, creates, answers>>
  BY DEF CreateKey
<1>4. CASE ~(caller.at \in available /\ keys[caller.at][caller.id] = None)
  <2>1. UNCHANGED keys /\ callers' = [callers EXCEPT ![c].phase = "checking"]
    BY <1>4 DEF CreateKey
  <2>2. /\ callers'[c].phase = "checking" /\ callers'[c].call = caller.call
        /\ callers'[c].id = caller.id
        /\ \A d \in Caller \ {c} : callers'[d] = callers[d]
    BY <1>1, <2>1 DEF AloneInv, StoreTyped, CallersTyped, CallerRow
  <2>3. VoiceIsSteady'
    BY <1>3, <2>1 DEF AloneInv, VoiceIsSteady, Voice
  <2>4. RowIsAlone(callers[c])'
    BY <1>2, <1>3, <2>1, <2>2 DEF RowIsAlone
  <2>. QED  BY <1>1, <2>2, <2>3, <2>4, AgentMoves
<1>5. CASE caller.at \in available /\ keys[caller.at][caller.id] = None
  <2>1. /\ keys' = [keys EXCEPT ![caller.at][caller.id] = made + 1]
        /\ callers' = [callers EXCEPT ![c].phase = "exporting", ![c].key = made + 1]
    BY <1>5 DEF CreateKey
  <2>2. /\ callers'[c].phase = "exporting" /\ callers'[c].call = "Create"
        /\ callers'[c].id = caller.id /\ callers'[c].at = caller.at
        /\ callers'[c].key = made + 1
        /\ \A d \in Caller \ {c} : callers'[d] = callers[d]
    BY <1>1, <1>2, <2>1 DEF AloneInv, StoreTyped, CallersTyped, CallerRow
  <2>3. /\ keys'[caller.at][caller.id] = made + 1
        /\ \A p \in Provider, i \in KeyId :
             <<p, i>> # <<caller.at, caller.id>> => keys'[p][i] = keys[p][i]
    BY <1>2, <2>1 DEF AloneInv, StoreTyped, TypeOK
  <2>. HIDE DEF caller
  <2>4. VoiceIsSteady'
    BY <1>2, <1>3, <1>5, <2>3 DEF AloneInv, VoiceIsSteady, Voice, Provider
  <2>5. RowIsAlone(callers[c])'
    BY <1>2, <1>3, <2>2, <2>3, ProviderAssumption DEF RowIsAlone, Provider
  <2>. QED  BY <1>1, <2>2, <2>4, <2>5, AgentMoves
<1>. QED  BY <1>4, <1>5

(* What is published or signed with is the identifier's voice.             *)
LEMMA AnswerIsAlone ==
  ASSUME AloneInv, StoreTyped', NEW c \in Caller,
         Export(c) \/ Open(c)
  PROVE  AloneInv'
<1>. DEFINE caller == callers[c]
<1>1. /\ caller \in CallerRow /\ caller.phase \in {"exporting", "opening"}
      /\ c = Agent /\ RowIsAlone(caller)
  BY PhaseTellsRows DEF Export, Open, AloneInv, StoreTyped, OthersRest
<1>2. caller.at \in Provider /\ caller.id \in KeyId
  BY <1>1 DEF CallerRow
<1>3. /\ UNCHANGED <<available, keys, creates>>
      /\ \/ UNCHANGED answers
         \/ /\ keys[caller.at][caller.id] # None
            /\ answers' = [answers EXCEPT
                 ![caller.id] = @ \cup {keys[caller.at][caller.id]}]
            /\ callers' = [callers EXCEPT ![c] = Idle]
  <2>1. caller.phase = "exporting"
          => keys[caller.at][caller.id] = caller.key /\ caller.key # None
    BY <1>1 DEF RowIsAlone, AloneInv, StoreTyped, CallersTyped
  <2>. QED
    BY <2>1 DEF Export, Open, KeyExists, Finish
<1>4. \/ callers' = [callers EXCEPT ![c] = Idle]
      \/ /\ callers' = [callers EXCEPT ![c].phase = "checking"]
         /\ UNCHANGED answers /\ caller.phase = "exporting"
  BY DEF Export, Open, Finish
<1>5. VoiceIsSteady'
  <2>1. \A i \in KeyId : \A k \in answers'[i] :
          k \in answers[i] \/ (/\ i = caller.id /\ k = keys[caller.at][caller.id]
                               /\ keys[caller.at][caller.id] # None)
    BY <1>2, <1>3 DEF AloneInv, StoreTyped, TypeOK
  <2>2. keys[caller.at][caller.id] # None
          => keys[caller.at][caller.id] = Voice(caller.id)
    BY <1>1, <1>2 DEF RowIsAlone, Voice, Provider
  <2>. HIDE DEF caller
  <2>. QED  BY <1>3, <2>1, <2>2 DEF AloneInv, VoiceIsSteady, Voice
<1>6. /\ \A d \in Caller \ {c} : callers'[d] = callers[d]
      /\ \/ callers'[c].phase = "idle"
         \/ /\ callers'[c].phase = "checking" /\ caller.phase = "exporting"
            /\ callers'[c].call = caller.call /\ callers'[c].id = caller.id
            /\ callers'[c].at = caller.at /\ UNCHANGED answers
  BY <1>1, <1>4 DEF AloneInv, StoreTyped, CallersTyped, CallerRow, Idle
<1>7. RowIsAlone(callers[c])'
  BY <1>1, <1>3, <1>6 DEF RowIsAlone
<1>. QED  BY <1>1, <1>5, <1>6, <1>7, AgentMoves

(* A failed creation goes on to Software, or the call ends.                *)
LEMMA CaughtIsAlone ==
  ASSUME AloneInv, StoreTyped', NEW c \in Caller,
         Caught(c) \/ Die(c)
  PROVE  AloneInv'
<1>. DEFINE caller == callers[c]
<1>1. /\ caller \in CallerRow /\ caller.phase # "idle"
      /\ c = Agent /\ RowIsAlone(caller)
  BY PhaseTellsRows DEF Caught, Die, AloneInv, StoreTyped, OthersRest
<1>2. UNCHANGED <<available, keys, creates, answers>>
  BY DEF Caught, Die, data
<1>3. VoiceIsSteady'
  BY <1>2 DEF AloneInv, VoiceIsSteady, Voice
<1>4. /\ \A d \in Caller \ {c} : callers'[d] = callers[d]
      /\ \/ callers'[c].phase = "idle"
         \/ /\ callers'[c].phase = "creating" /\ caller.phase = "checking"
            /\ caller.at = Platform
            /\ callers'[c].call = caller.call /\ callers'[c].id = caller.id
  <2>1. CASE Finish(c)
    BY <2>1 DEF Finish, AloneInv, StoreTyped, CallersTyped, Idle
  <2>2. CASE ~Finish(c)
    <3>1. /\ callers' = [callers EXCEPT ![c].phase = "creating",
                           ![c].at = Software, ![c].key = None]
          /\ caller.at # Software /\ caller.phase = "checking"
      BY <2>2 DEF Caught, Die
    <3>. QED
      BY <1>1, <3>1 DEF AloneInv, StoreTyped, CallersTyped, CallerRow,
         Provider
  <2>. QED  BY <2>1, <2>2
<1>5. RowIsAlone(callers[c])'
  BY <1>1, <1>2, <1>4 DEF RowIsAlone
<1>. QED  BY <1>1, <1>3, <1>4, <1>5, AgentMoves

(* Every step of a machine with one agent keeps the invariant.             *)
LEMMA AloneStep ==
  ASSUME Unreliable \subseteq {Platform}, AloneInv,
         [Next /\ OnlyAgentCreatesOnce]_vars
  PROVE  AloneInv'
<1>1. StoreTyped'
  BY StoreStepType DEF AloneInv
<1>2. CASE UNCHANGED vars
  BY <1>1, <1>2 DEF vars, AloneInv, OthersRest, VoiceIsSteady, Voice, RowIsAlone
<1>3. ASSUME NEW p \in Unreliable, Change(p) PROVE AloneInv'
  <2>1. Software \in available => Software \in available'
    BY <1>3, ProviderAssumption DEF Change, Provider
  <2>. QED
    BY <1>1, <1>3, <2>1 DEF Change, data, AloneInv, OthersRest,
       VoiceIsSteady, Voice, RowIsAlone
<1>. QED
  BY <1>1, <1>2, <1>3, BeginIsAlone, FindIsAlone, CreateKeyIsAlone, AnswerIsAlone,
     CaughtIsAlone DEF Next, Step

(* At first there is no key and nobody calls.                              *)
LEMMA AloneInit == Init => AloneInv
<1>. SUFFICES ASSUME Init PROVE AloneInv
  OBVIOUS
<1>1. TypeOK
  BY StoreInitType
<1>. QED
  BY <1>1 DEF Init, TypeOK, Idle, Provider, AloneInv,
     StoreTyped, CallersTyped, OthersRest, VoiceIsSteady, Voice, RowIsAlone

(* Though the preferred provider comes and goes, one agent that creates    *)
(* each key once never speaks with two for an identifier.                  *)
THEOREM LoneAgentSpeaksOnce ==
  ASSUME Unreliable \subseteq {Platform}
  PROVE  AloneSpec => []OneKeySpeaks
<1>1. Init => AloneInv
  BY AloneInit
<1>2. AloneInv /\ [Next /\ OnlyAgentCreatesOnce]_vars => AloneInv'
  BY AloneStep
<1>3. AloneInv => OneKeySpeaks
  BY DEF AloneInv, VoiceIsSteady, OneKeySpeaks
<1>. QED  BY <1>1, <1>2, <1>3, PTL DEF AloneSpec
----------------------------------------------------------------------------
(* Either machine, as MCDeviceKeyStore puts them side by side.             *)

(* On the machine there is, whichever it is, an identifier speaks with one *)
(* key: what TLC checks of three callers and two identifiers.              *)
THEOREM EitherMachineSpeaksOnce ==
  ASSUME Unreliable \subseteq {Platform}
  PROVE  EitherMachineSpec => []OneKeySpeaks
<1>. DEFINE Inv == /\ steady \in BOOLEAN
                   /\ steady => SteadyInv
                   /\ ~steady => AloneInv
<1>1. EitherMachine => Inv
  BY SteadyInit, AloneInit DEF EitherMachine
<1>2. Inv /\ [Next /\ OnThisMachine /\ UNCHANGED steady]_<<vars, steady>> => Inv'
  <2>. SUFFICES ASSUME Inv, [Next /\ OnThisMachine /\ UNCHANGED steady]_<<vars, steady>>
                PROVE  Inv'
    OBVIOUS
  <2>1. steady' = steady
    OBVIOUS
  <2>2. CASE steady
    <3>1. [Next /\ UNCHANGED available]_vars
      BY <2>2 DEF OnThisMachine
    <3>. QED
      BY <2>1, <2>2, <3>1, SteadyStep
  <2>3. CASE ~steady
    <3>1. [Next /\ OnlyAgentCreatesOnce]_vars
      BY <2>3 DEF OnThisMachine, OnlyAgentCreatesOnce, Begun
    <3>. QED
      BY <2>1, <2>3, <3>1, AloneStep
  <2>. QED
    BY <2>2, <2>3
<1>3. Inv => OneKeySpeaks
  BY DEF SteadyInv, KeysAreAtHome, AloneInv, VoiceIsSteady, OneKeySpeaks
<1>. QED
  BY <1>1, <1>2, <1>3, PTL DEF EitherMachineSpec
=============================================================================
