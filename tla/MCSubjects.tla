----------------------------- MODULE MCSubjects -----------------------------
(***************************************************************************)
(* Two instances of CertLifecycle in one run of TLC, nothing failing in    *)
(* either; the first state chooses between them.                           *)
(*   "requests"     every request about one subject, at two replicas; what *)
(*                  a renewal replaces is revoked at once                  *)
(*   "superseding"  renewals with an overlap window, revocations and the   *)
(*                  sweep, at three replicas and for two subjects          *)
(***************************************************************************)
EXTENDS MCCertLifecycle

VARIABLE scenario

Requests == INSTANCE CertLifecycle WITH
  Duty <- RequestDuty, SupersedeAfter <- 0, MaxRequests <- 6

Superseding == INSTANCE CertLifecycle

\* The second subject and the third replica rest, so that exchanging subjects
\* takes no reachable state to another one.
SmallInstance ==
  /\ \A r \in Replicas : job'[r].subject # s2
  /\ cached'[r3] = cached[r3]

EitherInit == scenario \in {"requests", "superseding"} /\ Init

EitherNext ==
  \/ scenario = "requests" /\ Requests!Next /\ SmallInstance /\ UNCHANGED scenario
  \/ scenario = "superseding" /\ Superseding!Next /\ UNCHANGED scenario

EitherSpec == EitherInit /\ [][EitherNext]_<<scenario, vars>>
=============================================================================
