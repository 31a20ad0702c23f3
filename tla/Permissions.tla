----------------------------- MODULE Permissions -----------------------------
(***************************************************************************)
(* What a recipient consents to: the access policy with its pause, the     *)
(* relationships with their invitations, and the directional grants.       *)
(* Every withdrawal cancels, in its own transaction, the outstanding       *)
(* commands it no longer permits.                                          *)
(* Source: control-plane/src/modules/permissions.                          *)
(*                                                                         *)
(* Blocked, and a policy's audience, eligibility, limit and cooldown, are  *)
(* rows no code under src/ changes; a policy row created by a handler gets *)
(* the schema's defaults.                                                  *)
(***************************************************************************)
EXTENDS Commands, ExposureState

CONSTANTS
  Code,            \* invitation secrets (the table stores their digests)
  Blocked,         \* eject_blocks: <<recipient, actor>> pairs
  SeedPolicies,    \* the access policies an operator may have provisioned
  SeedRelationships, \* relationships made before the model starts
  DefaultCooldown, \* default of recipient_access_policies.cooldown_seconds
  InvitationTTL,   \* lifetime of an invitation: 10 minutes
  Retention        \* how long a terminal invitation is kept: 24 hours

VARIABLES
  policies,      \* recipient_access_policies
  relationships, \* relationships, keyed by the unordered pair
  grants,        \* eject_grants: <<recipient, actor>> pairs
  invitations    \* relationship_invitations

permissionVars == <<policies, relationships, grants, invitations>>

PolicyRow ==
  [paused: BOOLEAN, audienceScope: {"NAMED", "CONNECTED", "ALL_AUTHENTICATED"},
   senderEligibility: {"READY_PARTICIPANTS_ONLY", "AUTHENTICATED_ACCOUNTS"},
   hourlyLimit: Nat, cooldown: Nat]

RelationshipRow == [active: BOOLEAN, createdAt: Nat]

ASSUME PermissionAssumption ==
  /\ DefaultCooldown \in Nat
  /\ InvitationTTL \in Nat \ {0}
  /\ Retention \in Nat
  /\ \A seed \in SeedPolicies :
       DOMAIN seed \subseteq Person /\ seed \in [DOMAIN seed -> PolicyRow]
  /\ \A seed \in SeedRelationships :
       /\ DOMAIN seed \subseteq SUBSET Person
       /\ seed \in [DOMAIN seed -> RelationshipRow]

(* The column defaults of an access policy inserted by a consent handler.  *)
DefaultPolicy ==
  [paused |-> FALSE, audienceScope |-> "NAMED",
   senderEligibility |-> "READY_PARTICIPANTS_ONLY",
   hourlyLimit |-> 0, cooldown |-> DefaultCooldown]

(* endsAt is COALESCE(used_at, invalidated_at, expires_at).                *)
InvitationRow ==
  [inviter: Person, status: {"PENDING", "USED", "INVALIDATED"},
   createdAt: Nat, endsAt: Nat]

PermissionsTypeOK ==
  /\ DOMAIN policies \subseteq Person
  /\ policies \in [DOMAIN policies -> PolicyRow]
  /\ DOMAIN relationships \subseteq SUBSET Person
  /\ relationships \in [DOMAIN relationships -> RelationshipRow]
  /\ grants \subseteq Person \X Person
  /\ DOMAIN invitations \subseteq Code
  /\ invitations \in [DOMAIN invitations -> InvitationRow]

Connected(p, q) ==
  /\ {p, q} \in DOMAIN relationships
  /\ relationships[{p, q}].active

(* The model starts after some earlier handlers have run, before any       *)
(* command: grants exist only where the relationship is active.            *)
PermissionsInit ==
  /\ policies \in SeedPolicies
  /\ relationships \in SeedRelationships
  /\ grants \in SUBSET {pair \in Person \X Person :
                          Connected(pair[1], pair[2])}
  /\ invitations = [code \in {} |-> None]

BothWays(p, q) == {<<p, q>>, <<q, p>>}

----------------------------------------------------------------------------
(* Recipient consent: manage-recipient-consent.ts and its store.           *)

(* Mutant: a pause only refuses what comes later.                          *)
SetPausedOnly(recipient, paused, now, began) ==
  /\ Authenticated(recipient)
  /\ EnsureRecipientState(recipient, began)
  /\ policies' = Put(policies, recipient,
                     [PutIfAbsent(policies, recipient, DefaultPolicy)[recipient]
                        EXCEPT !.paused = paused])
  /\ UNCHANGED <<commandVars, senderState, relationships, grants, invitations>>

SetPaused(recipient, paused, now, began) ==
  /\ Authenticated(recipient)
  /\ EnsureRecipientState(recipient, began)
  /\ policies' = Put(policies, recipient,
                     [PutIfAbsent(policies, recipient, DefaultPolicy)[recipient]
                        EXCEPT !.paused = paused])
  /\ IF paused THEN CancelBetween(Person \X {recipient}, now)
               ELSE UNCHANGED commandVars
  /\ UNCHANGED <<senderState, relationships, grants, invitations>>

(* Mutant: a relationship that ended still counts.                         *)
MayGrantOnceConnected(recipient, actor) ==
  {recipient, actor} \in DOMAIN relationships /\ IsActive(actor)

MayGrant(recipient, actor) == Connected(recipient, actor) /\ IsActive(actor)

GiveGrant(recipient, actor, began) ==
  /\ Authenticated(recipient)
  /\ EnsureRecipientState(recipient, began)
  /\ policies' = PutIfAbsent(policies, recipient, DefaultPolicy)
  /\ grants' = IF MayGrant(recipient, actor)
                 THEN grants \cup {<<recipient, actor>>}
                 ELSE grants
  /\ UNCHANGED <<senderState, relationships, invitations, commandVars>>

RevokeGrant(recipient, actor, now, began) ==
  /\ Authenticated(recipient)
  /\ EnsureRecipientState(recipient, began)
  /\ policies' = PutIfAbsent(policies, recipient, DefaultPolicy)
  /\ grants' = grants \ {<<recipient, actor>>}
  /\ CancelBetween({<<actor, recipient>>}, now)
  /\ UNCHANGED <<senderState, relationships, invitations>>

----------------------------------------------------------------------------
(* Relationships: manage-relationships.ts and its store.                   *)

(* Invitations terminal for longer than Retention may go; the LIMIT and    *)
(* SKIP LOCKED of the statement leave any of them for a later run.         *)
Stale(now) ==
  {code \in DOMAIN invitations : invitations[code].endsAt + Retention < now}

Kept(removed) ==
  [code \in DOMAIN invitations \ removed |-> invitations[code]]

PendingOf(inviter) ==
  {code \in DOMAIN invitations : /\ invitations[code].inviter = inviter
                                 /\ invitations[code].status = "PENDING"}

(* The schema refuses an invalidation earlier than the row's creation, and *)
(* the transaction fails as a whole.                                       *)
CreateInvitation(inviter, code, now, removed) ==
  /\ Authenticated(inviter) /\ IsActive(inviter)
  /\ removed \subseteq Stale(now)
  /\ code \notin DOMAIN invitations
  /\ \A old \in PendingOf(inviter) : invitations[old].createdAt <= now
  /\ invitations' =
       Put([old \in DOMAIN invitations \ removed |->
              IF old \in PendingOf(inviter)
                THEN [invitations[old] EXCEPT !.status = "INVALIDATED",
                                              !.endsAt = now]
                ELSE invitations[old]],
           code, [inviter |-> inviter, status |-> "PENDING",
                  createdAt |-> now, endsAt |-> now + InvitationTTL])
  /\ UNCHANGED <<policies, relationships, grants, exposureVars, commandVars>>

(* Mutant: a code may be used again.                                       *)
CanAcceptUsed(accepter, code, now) ==
  /\ code \in DOMAIN invitations
  /\ invitations[code].status # "INVALIDATED"
  /\ now < invitations[code].endsAt + InvitationTTL
  /\ invitations[code].inviter # accepter
  /\ IsActive(invitations[code].inviter) /\ IsActive(accepter)

(* A code the cleanup has just removed was past its end, so no such code   *)
(* could have been accepted.                                               *)
CanAccept(accepter, code, now) ==
  /\ code \in DOMAIN invitations
  /\ invitations[code].status = "PENDING"
  /\ now < invitations[code].endsAt
  /\ invitations[code].inviter # accepter
  /\ IsActive(invitations[code].inviter) /\ IsActive(accepter)

(* A code that is still good is consumed, and an inactive or absent        *)
(* relationship becomes active with no grant in either direction.  used_at *)
(* earlier than created_at is refused by the schema.                       *)
AcceptInvitation(accepter, code, now, removed) ==
  /\ Authenticated(accepter)
  /\ removed \subseteq Stale(now)
  /\ CanAccept(accepter, code, now)
  /\ invitations[code].createdAt <= now
  /\ invitations' = Put(Kept(removed), code,
                        [invitations[code] EXCEPT !.status = "USED",
                                                  !.endsAt = now])
  /\ LET inviter == invitations[code].inviter
     IN  IF Connected(inviter, accepter)
           THEN UNCHANGED <<relationships, grants>>
           ELSE /\ relationships' = Put(relationships, {inviter, accepter},
                                        [active |-> TRUE, createdAt |-> now])
                /\ grants' = IF {inviter, accepter} \in DOMAIN relationships
                               THEN grants \ BothWays(inviter, accepter)
                               ELSE grants
  /\ UNCHANGED <<policies, exposureVars, commandVars>>

(* A refused acceptance keeps only the opportunistic cleanup.              *)
RefuseAcceptance(accepter, code, now, removed) ==
  /\ Authenticated(accepter)
  /\ removed \subseteq Stale(now)
  /\ ~CanAccept(accepter, code, now)
  /\ invitations' = Kept(removed)
  /\ UNCHANGED <<policies, relationships, grants, exposureVars, commandVars>>

(* An account restricted since it was authenticated gets no invitation;    *)
(* the cleanup before the check stays.                                     *)
RefuseInvitation(inviter, now, removed) ==
  /\ Authenticated(inviter) /\ ~IsActive(inviter)
  /\ removed \subseteq Stale(now)
  /\ invitations' = Kept(removed)
  /\ UNCHANGED <<policies, relationships, grants, exposureVars, commandVars>>

(* The operator's cleanup command.                                         *)
CleanupInvitations(now, removed) ==
  /\ removed \subseteq Stale(now)
  /\ removed # {}
  /\ invitations' = Kept(removed)
  /\ UNCHANGED <<policies, relationships, grants, exposureVars, commandVars>>

(* Mutant: only the commands the caller sent are cancelled.                *)
DisconnectOneWay(person, other, now) ==
  /\ Authenticated(person)
  /\ person # other
  /\ recipientState' =
       PutIfAbsent(PutIfAbsent(recipientState, person, NewRecipientState(now)),
                   other, NewRecipientState(now))
  /\ IF Connected(person, other)
       THEN /\ relationships[{person, other}].createdAt <= now
            /\ relationships' =
                 [relationships EXCEPT ![{person, other}].active = FALSE]
            /\ grants' = grants \ BothWays(person, other)
            /\ CancelBetween({<<person, other>>}, now)
       ELSE UNCHANGED <<relationships, grants, commandVars>>
  /\ UNCHANGED <<senderState, policies, invitations>>

(* ended_at earlier than created_at is refused by the schema.              *)
DisconnectRelationship(person, other, now) ==
  /\ Authenticated(person)
  /\ person # other
  /\ recipientState' =
       PutIfAbsent(PutIfAbsent(recipientState, person, NewRecipientState(now)),
                   other, NewRecipientState(now))
  /\ IF Connected(person, other)
       THEN /\ relationships[{person, other}].createdAt <= now
            /\ relationships' =
                 [relationships EXCEPT ![{person, other}].active = FALSE]
            /\ grants' = grants \ BothWays(person, other)
            /\ CancelBetween(BothWays(person, other), now)
       ELSE UNCHANGED <<relationships, grants, commandVars>>
  /\ UNCHANGED <<senderState, policies, invitations>>
=============================================================================
