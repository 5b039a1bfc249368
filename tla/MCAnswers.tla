----------------------------- MODULE MCAnswers -----------------------------
(***************************************************************************)
(* Two instances of Responder in one run of TLC; the first state chooses   *)
(* between them.                                                           *)
(*   "answers"  two OCSP requests, one index pass and a late CRL poll over *)
(*              one serial, with revocations and refreshes here and at a   *)
(*              peer                                                       *)
(*   "index"    two overlapping index passes over two serials, with        *)
(*              issuances, imports, prunes and a restart                   *)
(***************************************************************************)
EXTENDS MCResponder

VARIABLE scenario

Asked == INSTANCE Responder WITH MaxEpoch <- 1, MaxFaults <- 0, MaxRestarts <- 0

Overlap == INSTANCE Responder WITH MaxCRL <- 2

\* Nobody asks for, issues or prunes a second serial, and no second pass starts.
\* Symmetry stays sound: s2 and p2 rest in every reachable state, so that no two
\* of them differ by exchanging serials or passes.
OneSerial ==
  /\ inventory' \cup peer' \cup op'.serials \subseteq {s1}
  /\ \A c \in Clients : client'[c] # NoRequest => client'[c].serial = s1
  /\ pass'[p2] = NoPass

\* Nobody asks, and the CRL is not polled.
NobodyAsks == UNCHANGED <<client, poll>>

\* A failure or a restart, not both.
OneMishap == faults' + life' <= 1

EitherInit == scenario \in {"answers", "index"} /\ Init

EitherNext ==
  \/ scenario = "answers" /\ Asked!Next /\ OneSerial /\ UNCHANGED scenario
  \/ scenario = "index" /\ Overlap!Next /\ NobodyAsks /\ OneMishap
       /\ UNCHANGED scenario

EitherSpec == EitherInit /\ [][EitherNext]_<<scenario, vars>>
=============================================================================
