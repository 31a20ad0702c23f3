--------------------------- MODULE MCPersonSession ---------------------------
(***************************************************************************)
(* PersonSession for TLC, for two kinds of people: one who does anything   *)
(* at any time, and a patient one.  Liveness rules out SYMMETRY, so        *)
(* behaviours that differ in names alone are left out here.                *)
(***************************************************************************)
EXTENDS PersonSession, TLC

CONSTANTS Ann, Ben

VARIABLE patient

MCPerson == {Ann, Ben}
MCCall == 1..2

(* Of the idle slots the first is taken; the first account is Ann's, and   *)
(* only a patient person has another: whose data and cookies they are, the *)
(* code never asks, nor does any property but the patient person's.        *)
FirstNames ==
  /\ \A c, d \in Call :
       c < d /\ calls[c].phase = "idle" /\ calls[d].phase = "idle"
       => calls'[d].phase = "idle"
  /\ signIn' # None /\ (account = None \/ ~patient) => signIn'.who = Ann

(* A patient person signs in only when no refresh and no logout is under   *)
(* way (a logout that waits has a refresh to wait for), and then nothing   *)
(* else happens until the sign-in has been handled; the last conjunct      *)
(* keeps a slot for the load that follows.                                 *)
AtRest ==
  /\ refresh = None
  /\ logout # None => logout.phase # "sent"
  /\ \E c \in Call : calls[c].phase = "idle"

WithPatience ==
  patient => /\ signIn = None /\ signIn' # None => AtRest
             /\ signIn # None => signIn' # signIn

EitherPerson ==
  Init /\ calls[1].phase = "sent" /\ account # Ben /\ patient \in BOOLEAN

EitherPersonSpec ==
  /\ EitherPerson
  /\ [][Next /\ FirstNames /\ WithPatience /\ UNCHANGED patient]_<<vars, patient>>
  /\ Fairness

(* What is loaded in a patient person's session is data of the account     *)
(* that signed in to it, however requests of former sessions come back.    *)
PatientLoadsOwnData == patient => LoadedDataIsTheAccounts

(* What a patient person sees is data of the account that signed in,       *)
(* whenever it was loaded.  It does not hold: a load that fails keeps the  *)
(* list, and a sign-in does not clear it; README.md has the behaviour.     *)
PatientSeesOwnDevices == patient => PageIsTheAccounts
=============================================================================
