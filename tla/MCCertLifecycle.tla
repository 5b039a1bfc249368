-------------------------- MODULE MCCertLifecycle --------------------------
(***************************************************************************)
(* Instances of CertLifecycle for TLC: which operations each replica runs. *)
(***************************************************************************)
EXTENDS CertLifecycle, TLC

CONSTANTS r1, r2, r3, s1, s2

\* Two replicas answering every request about a subject; Import apart, which
\* leaves a pending request to be signed as a second certificate.
RequestDuty ==
  (r1 :> SubjectOps \ {"Import"}) @@ (r2 :> SubjectOps \ {"Import"}) @@ (r3 :> {})

\* Renewals with an overlap window, revocations, and a sweep of its own.
SupersedeDuty ==
  (r1 :> {"SaveRequest", "Renew", "AutoRenew"}) @@
  (r2 :> {"Renew", "Revoke", "Clean"}) @@
  (r3 :> {"Sweep"})

\* Issuance on one replica, revocation and the background jobs on the other.
SplitDuty ==
  (r1 :> {"SaveRequest", "Renew", "Generate", "Import", "Clean"}) @@
  (r2 :> {"DeleteRequest", "AutoRenew", "Revoke", "RevokeSerial", "Sweep", "Refresh",
          "Cleanup"})

\* Renewals with a short overlap window, a revocation, and a sweep on each
\* replica.
ProgressDuty ==
  (r1 :> {"SaveRequest", "Renew", "Sweep"}) @@ (r2 :> {"Renew", "Clean", "Sweep"})

\* A renewal beside a revocation by serial number.
RevokeSerialDuty ==
  (r1 :> {"SaveRequest", "Renew"}) @@ (r2 :> {"RevokeSerial"})

\* A re-issuance beside the expiry cleanup.
CleanupDuty ==
  (r1 :> {"SaveRequest"}) @@ (r2 :> {"Cleanup"})

\* Issuance and renewal by one replica.
RenewDuty == (r1 :> {"SaveRequest", "Renew"})

\* Issuance and generation by one replica.
GenerateDuty == (r1 :> {"SaveRequest", "Generate"})

\* Certnames are interchangeable.
SubjectSymmetry == Permutations({s1, s2})
=============================================================================
