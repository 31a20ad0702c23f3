--------------------------- MODULE MCPersonSignIn ---------------------------
(***************************************************************************)
(* PersonSignIn for TLC, in three scenes: two runs of the provisioning     *)
(* script, any of whose answers may be lost; two browsers that sign in     *)
(* anyhow while one run goes on, whose COMMIT is answered; and one patient *)
(* person, who asks again whenever an attempt led nowhere.                 *)
(***************************************************************************)
EXTENDS PersonSignIn, FiniteSets

CONSTANTS ann, home, MaxFaults

VARIABLES scene, faults

mcVars == <<vars, signInVars, scene, faults>>

(* Identifiers, challenges and runs are interchangeable until used.        *)
IsNext(new, used, all) == new = CHOOSE x \in all \ used : TRUE

InOrder ==
  /\ issued' # issued =>
       IsNext(CHOOSE i \in issued' : i \notin issued, issued, Id)
  /\ LET asked == {c \in Challenge : asks[c] # None}
     IN  asks' # asks =>
           IsNext(CHOOSE c \in Challenge : asks'[c] # asks[c], asked, Challenge)

Provision == scene = "provisioning" /\ Next /\ UNCHANGED <<signInVars, faults>>

(* A run that undoes has not committed: the answer to COMMIT arrives.      *)
CommitsAreHeard ==
  \A r \in Run : runs[r].phase = "undoing" => runs[r].id \notin people

SignInAnyhow ==
  /\ scene = "anyhow"
  /\ SignInNext /\ CommitsAreHeard'
  /\ Cardinality(issued') <= 2 /\ Cardinality(answers') <= 2
  /\ Cardinality({c \in Challenge : asks'[c] # None}) <= 2
  /\ runs'[CHOOSE r \in Run : TRUE].phase = "idle"
  /\ UNCHANGED faults

(* What the patient person has leads nowhere.                              *)
Stuck(b) ==
  /\ browsers[b].session = None /\ answers = {}
  /\ ~ \E c \in Challenge :
         browsers[b].pkce = c /\ mails[c] # None /\ mails[c].live

PatientStep ==
  /\ \/ Stuck(home) /\ \E c \in Challenge : AskAndMail(home, ann, c)
     \/ \E c \in {browsers[home].pkce} \ {None} : FollowLink(home, c)
     \/ \E answer \in answers : Deliver(answer)
  /\ UNCHANGED vars

Mishap ==
  /\ \/ Stuck(home) /\ \E c \in Challenge : AskInVain(home, ann, c)
     \/ \E c \in Challenge : FollowInVain(home, c)
     \/ \E answer \in answers : LoseAnswer(answer)
     \/ Expire(home)
  /\ UNCHANGED vars

Patient == PatientStep /\ InOrder /\ UNCHANGED <<scene, faults>>

PatientNext ==
  /\ scene = "patient"
  /\ \/ PatientStep /\ UNCHANGED faults
     \/ faults < MaxFaults /\ Mishap /\ faults' = faults + 1

(* ann was provisioned earlier.                                            *)
Provisioned ==
  LET i == CHOOSE j \in Id : TRUE
  IN  /\ identities = [j \in Id |-> IF i = j THEN ann ELSE None]
      /\ issued = {i} /\ people = {i}
      /\ runs = [r \in Run |-> [phase |-> "idle", email |-> None, id |-> None]]
      /\ reported = {} /\ unheard = {}

Scenes ==
  /\ SignInInit
  /\ faults = 0
  /\ \/ scene = "provisioning" /\ Init
     \/ scene \in {"anyhow", "patient"} /\ Provisioned

AccountsSpec ==
  /\ Scenes
  /\ [][ /\ Provision \/ SignInAnyhow \/ PatientNext
         /\ InOrder
         /\ UNCHANGED scene ]_mcVars
  /\ WF_mcVars(scene = "patient" /\ Patient)

(* Someone who asks again when an attempt led nowhere, and follows the     *)
(* newest link in the browser it was asked in, gets in after finitely many *)
(* mishaps: lost answers, old links, mails that never come, expiry.        *)
PatientGetsIn == scene = "patient" => <>(browsers[home].session # None)
=============================================================================
