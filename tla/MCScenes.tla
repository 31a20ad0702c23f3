------------------------------ MODULE MCScenes ------------------------------
(***************************************************************************)
(* Scenes: smaller instances of ControlPlane that share a run.  Each scene *)
(* is a part of Next with seeds, people and a horizon of its own.          *)
(***************************************************************************)
EXTENDS MCControlPlane

VARIABLE scene

SceneVars == <<vars, scene>>

(* ann and ben, strangers or connected, with ben's device.                 *)
Connecting ==
  /\ scene = "connecting"
  /\ Delivering
  /\ devices \in MCOneDevice

ConnectingStep ==
  /\ scene = "connecting"
  /\ Relationship \/ Grant \/ Disconnect \/ Time

(* ben enrolls and loses devices while ann asks for one eject.             *)
Enrolling ==
  /\ scene = "enrolling"
  /\ Underway
  /\ relationships \in MCConnected

EnrollingStep ==
  /\ scene = "enrolling"
  /\ Enroll \/ Revoke \/ OperateDevices \/ Eject \/ Agent \/ Time
  /\ clock' <= 2

PeopleSpec ==
  /\ Connecting \/ Enrolling
  /\ [][ /\ ConnectingStep \/ EnrollingStep
         /\ UNCHANGED scene ]_SceneVars
----------------------------------------------------------------------------
(* Identifiers, and the keys of an actor, are used in one order, in place  *)
(* of symmetry sets, which liveness rules out.                             *)
IsNext(new, used, all) ==
  new # {} => new = {CHOOSE x \in all \ used : TRUE}

InOrder ==
  /\ IsNext(DOMAIN events' \ DOMAIN events, DOMAIN events, Id)
  /\ \A actor \in Person :
       LET keys == {key \in Key : <<actor, key>> \in DOMAIN requests}
       IN  IsNext({key \in Key : <<actor, key>> \in DOMAIN requests'} \ keys,
                  keys, Key)

(* Both send ejects and reply to any command, or to none there is (the     *)
(* identifier the reply itself is given), under each audience scope.       *)
Replying ==
  /\ scene = "replying"
  /\ Underway
  /\ devices \in MCBothDevices

ReplyingStep ==
  /\ scene = "replying"
  /\ Disconnect \/ Eject \/ Agent \/ Time
  /\ \A slot \in DOMAIN requests' :
       requests'[slot].replyTo \in DOMAIN events' \cup {None}

(* ann asks ben for one eject, whose permission anybody may withdraw.      *)
Withdrawing ==
  /\ scene = "withdrawing"
  /\ Underway
  /\ policies \in MCPolicies
  /\ devices \in MCOneDevice

WithdrawingStep ==
  /\ scene = "withdrawing"
  /\ \/ Pause \/ Grant \/ Disconnect \/ Revoke
     \/ Eject \/ Agent \/ OperateAccounts \/ OperateDevices \/ Time
  /\ Cardinality(DOMAIN requests') <= 1
  /\ \A slot \in DOMAIN requests' :
       slot[1] = ann /\ requests'[slot].replyTo = None

PermissionSpec ==
  /\ Replying \/ Withdrawing
  /\ [][ /\ ReplyingStep \/ WithdrawingStep
         /\ InOrder
         /\ UNCHANGED scene ]_SceneVars
----------------------------------------------------------------------------
(* ann and cat ask for ejects, with and without a cooldown.                *)
Metering == scene = "metering" /\ Underway

MeteringStep ==
  /\ scene = "metering"
  /\ Eject \/ Time

(* They ask ben for two ejects while his device comes and goes; its agent  *)
(* never reports.  From clock 2 on whatever they asked for is over.        *)
Waiting ==
  /\ scene = "waiting"
  /\ Underway
  /\ policies[ben].cooldown = 0

AgentPolls ==
  /\ \E nonce \in Nonce : Poll(phoneB, keyB, nonce, clock)
  /\ UNCHANGED <<accountVars, exposureVars, permissionVars, deviceVars,
                 requests>>

WaitingStep ==
  /\ scene = "waiting"
  /\ \/ clock < 2 /\ (Eject \/ Time)
     \/ Revoke \/ OperateDevices \/ AgentPolls
  /\ devices'[phoneC] = devices[phoneC]
  /\ \A slot \in DOMAIN requests' : requests'[slot].recipient = ben
  /\ Cardinality(DOMAIN requests') <= 2

EjectsSpec ==
  /\ Metering \/ Waiting
  /\ [][ /\ MeteringStep \/ WaitingStep
         /\ InOrder
         /\ UNCHANGED scene ]_SceneVars
  /\ WF_SceneVars(scene = "waiting" /\ clock < 2 /\ Time /\ UNCHANGED scene)
  /\ WF_SceneVars(scene = "waiting" /\ AgentPolls /\ UNCHANGED scene)

(* Whatever is queued is settled in the end if time goes on and agents go  *)
(* on polling, though a poll looks at the oldest command only and nobody   *)
(* else ends one whose time is over: neither a device that is unavailable  *)
(* nor an agent that never reports holds the queue up for ever.            *)
CommandsSettle ==
  \A id \in Id :
    scene = "waiting" /\ id \in DOMAIN commands
      ~> id \in DOMAIN commands /\ ~IsOutstanding(id)
=============================================================================
