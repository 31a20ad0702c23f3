--------------------------- MODULE Authorization ---------------------------
(***************************************************************************)
(* The pure authorization policy of a new eject request: a record of facts *)
(* and the handler's time give either "AUTHORIZED" or the first rejection  *)
(* reason that applies.                                                    *)
(* Source: control-plane/src/modules/eject/domain/authorization.ts and     *)
(* exposure.ts.  The RangeError of effectiveExposureLimit cannot happen    *)
(* for ceilings the schema stores (integers >= 0) and is left out.         *)
(***************************************************************************)
EXTENDS Integers

AudienceScope == {"NAMED", "CONNECTED", "ALL_AUTHENTICATED"}
SenderEligibility == {"READY_PARTICIPANTS_ONLY", "AUTHENTICATED_ACCOUNTS"}
ParticipationState ==
  {"ACCOUNT_ONLY", "SETUP_IN_PROGRESS", "PARTICIPATION_READY", "REVOKED"}
Availability == {"AVAILABLE", "PAUSED", "OFFLINE"}
RejectionReason ==
  {"PERMISSION_REQUIRED", "RECIPIENT_PAUSED", "QUIET_HOURS_ACTIVE",
   "COOLDOWN_ACTIVE", "RATE_LIMITED", "DEVICE_UNAVAILABLE", "ACTOR_RESTRICTED"}

EffectiveExposureLimit(ceilings) ==
  LET values == {ceilings.recipientSelected, ceilings.planEntitlement,
                 ceilings.physicalSafety}
  IN  CHOOSE v \in values : \A w \in values : v <= w

(* Mutant: only the NAMED scope is looked at.                              *)
HasAccessWidened(facts) ==
  IF facts.ejectBack
    THEN facts.ejectBackValid
    ELSE facts.audienceScope = "NAMED" =>
           facts.relationshipActive /\ facts.directionalGrantActive

HasAccess(facts) ==
  IF facts.ejectBack
    THEN facts.ejectBackValid
    ELSE CASE facts.audienceScope = "NAMED" ->
                facts.relationshipActive /\ facts.directionalGrantActive
           [] facts.audienceScope = "CONNECTED" -> facts.relationshipActive
           [] OTHER -> TRUE

SenderIsEligible(facts) ==
  \/ facts.senderEligibility = "AUTHENTICATED_ACCOUNTS"
  \/ /\ facts.actorParticipation = "PARTICIPATION_READY"
     /\ facts.actorAvailability = "AVAILABLE"

(* The checks in the code's order: the first that applies is the answer.   *)
AuthorizeEject(facts, now) ==
  IF facts.actorRestricted THEN "ACTOR_RESTRICTED"
  ELSE IF facts.blocked \/ ~HasAccess(facts) \/ ~SenderIsEligible(facts)
       THEN "PERMISSION_REQUIRED"
  ELSE IF facts.recipientPaused THEN "RECIPIENT_PAUSED"
  ELSE IF facts.quietHoursActive THEN "QUIET_HOURS_ACTIVE"
  ELSE IF now < facts.cooldownUntil THEN "COOLDOWN_ACTIVE"
  ELSE IF \/ facts.recipientAccepted >=
               EffectiveExposureLimit(facts.exposureCeilings)
          \/ facts.senderAccepted >= facts.senderLimit
       THEN "RATE_LIMITED"
  ELSE IF ~facts.deliveryEnabled \/ ~facts.deviceEligible
       THEN "DEVICE_UNAVAILABLE"
  ELSE "AUTHORIZED"
=============================================================================
