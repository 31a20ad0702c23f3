--------------------------- MODULE MCControlPlane ---------------------------
(***************************************************************************)
(* Values of the constants of ControlPlane for TLC, and the parts of Next  *)
(* each run explores.                                                      *)
(***************************************************************************)
EXTENDS ControlPlane, TLC

CONSTANTS
  ann, ben, cat, phoneA, phoneB, phoneC, keyA, keyB, keyC

Everyone(value) == [p \in Person |-> value]

MCReady == Everyone("PARTICIPATION_READY")
MCAvailable == Everyone("AVAILABLE")
MCPlanCeiling == Everyone(3)
MCPlanUntil == Everyone(99)

Named(limit, cooldown) ==
  [paused |-> FALSE, audienceScope |-> "NAMED",
   senderEligibility |-> "READY_PARTICIPANTS_ONLY",
   hourlyLimit |-> limit, cooldown |-> cooldown]
MCPolicies == {Everyone(Named(2, 0))}
MCScopes ==
  {Everyone([Named(2, 0) EXCEPT !.audienceScope = scope]) :
     scope \in {"NAMED", "CONNECTED", "ALL_AUTHENTICATED"}}
MCMetered == {Everyone(Named(2, 1)), Everyone(Named(2, 0))}

Since(pairs) == [pair \in pairs |-> [active |-> TRUE, createdAt |-> 0]]
MCConnected == {Since({{ann, ben}})}
MCStrangers == {Since({{ann, ben}}), Since({})}
MCAllConnected == {Since({{ann, ben}, {ann, cat}, {ben, cat}})}

Ready(owner, key) ==
  [owner |-> owner, state |-> "READY", available |-> TRUE, key |-> key,
   keyRevoked |-> FALSE, createdAt |-> 0]
MCOneDevice == {[d \in {phoneB} |-> Ready(ben, keyB)]}
MCOneDeviceOrNone == MCOneDevice \cup {[d \in {} |-> None]}
MCTwoDevices == {[d \in {phoneB, phoneC} |->
                    IF d = phoneB THEN Ready(ben, keyB) ELSE Ready(cat, keyC)]}
MCBothDevices == {[d \in {phoneA, phoneB} |->
                     IF d = phoneA THEN Ready(ann, keyA) ELSE Ready(ben, keyB)]}
MCOneOrBothDevices == MCOneDevice \cup MCBothDevices

OneWay == {<<ann, ben>>}
BothRoutes == {<<ann, ben>>, <<ben, ann>>}
AnyReply == Id \cup {None}
Crossing == {<<ann, ben>>, <<ann, cat>>, <<cat, ben>>}

Reports == [result: ResultCode, recordedAt: {0}]
Accepted == [result: {"COMMAND_ACCEPTED"}, recordedAt: {0, 2}]

Symmetry ==
  UNION {Permutations(Id), Permutations(Nonce), Permutations(Key),
         Permutations(Code), Permutations(Secret)}

(* The runs about commands start with delivery on and every grant given;   *)
(* consent that was never given is the people run's question (MCScenes).   *)
Underway ==
  /\ Init
  /\ deliveryEnabled = TRUE
  /\ \A p, q \in Person : Connected(p, q) => <<p, q>> \in grants

ConsentSpec ==
  Underway
  /\ [][Pause \/ Grant \/ Disconnect \/ Eject \/ Agent \/ Time]_vars

Delivering == Init /\ deliveryEnabled = TRUE
=============================================================================
