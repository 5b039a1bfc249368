---------------------- MODULE CertLifecycleInvariants -----------------------
(***************************************************************************)
(* What the proofs about CertLifecycle state of its states and steps: the  *)
(* definitions, without the proofs.                                        *)
(*                                                                         *)
(* Own is inductive and holds whatever fails: OwnAt(r) says what replica r *)
(* may rely on at its control point (the locks it holds, that what it read *)
(* under the CRL lock is what is stored, that the request it signs is      *)
(* pending), and Guarantee(r) what r promises everyone else.               *)
(*                                                                         *)
(* Consistent is inductive where Undisturbed holds: SubjectAt(r) says what *)
(* the operation r runs has established about the subject it has locked,   *)
(* Kept(s) and Grows what a step of r leaves to the operations of the      *)
(* others.                                                                 *)
(***************************************************************************)
EXTENDS CertLifecycle, Integers

-----------------------------------------------------------------------------
(* Types *)

\* The types of the locks and of the replicas' local state.
LocalOK ==
  /\ subjectLock \in [Subjects -> Replicas \cup {NoOne}]
  /\ crlLock \in Replicas \cup {NoOne}
  /\ pc \in [Replicas -> Points]
  /\ job \in [Replicas -> Jobs]

-----------------------------------------------------------------------------
(* Which operation is where *)

\* The operations that come to the CRL lock.
CRLKinds == {"Revoke", "Clean", "RevokeSerial", "Renew", "AutoRenew", "Generate",
             "Sweep", "Refresh", "Cleanup"}

\* Which operation can be at which control point.
ControlAt(r) ==
  /\ Kind(r) \in SubjectOps => job[r].subject \in Subjects
  /\ pc[r] \in SubjectPoints \cup {"gate", "wantSubject"} => Kind(r) \in SubjectOps
  /\ pc[r] \in {"wantCRL", "crlRead", "crlWrite"} => Kind(r) \in CRLKinds
  /\ pc[r] \in {"cleanRead", "cleanDelete"} => Kind(r) = "Clean"
  /\ pc[r] = "replaceRead" => Kind(r) = "Generate"
  /\ pc[r] = "evict" => Kind(r) \in {"Generate", "Import"}
  /\ pc[r] \in {"gate", "recheckCRL", "recheckList"}
       => Kind(r) \in {"Renew", "AutoRenew"}
  /\ pc[r] \in {"retireRead", "latest"} => Kind(r) \in {"Revoke", "Clean"}
  /\ pc[r] = "check" => Kind(r) = "RevokeSerial"
  /\ pc[r] = "sweepRead" => Kind(r) = "Sweep"
  /\ pc[r] \in {"listRead", "listAppend"} => Kind(r) \in {"Renew", "AutoRenew"}
  /\ pc[r] \in {"prune", "blobRead", "blobDelete"} => Kind(r) = "Cleanup"
  /\ pc[r] = "listWrite" => Kind(r) = "Sweep" \/ job[r].stage = "retire"
  /\ job[r].stage = "retire" => Kind(r) \in {"Revoke", "Clean"}

Control == \A r \in Replicas : ControlAt(r)

-----------------------------------------------------------------------------
(* What a replica relies on and what it guarantees *)

\* A replica inside a lock holds it; the operations on a subject hold its lock
\* while they are waiting for the CRL lock or inside it.
MutexAt(r) ==
  /\ pc[r] \in CRLPoints => crlLock = r
  /\ \/ pc[r] \in SubjectPoints
     \/ pc[r] \in CRLPoints \cup {"wantCRL"} /\ Kind(r) \in SubjectOps
     => subjectLock[job[r].subject] = r

\* What was read under the CRL lock is what is stored (SnapshotsAreCurrent).
SnapshotAt(r) ==
  /\ At(r, "crlWrite") => job[r].view = crl
  /\ \/ pc[r] \in {"listAppend", "listWrite"}
     \/ pc[r] \in {"crlRead", "crlWrite"}
        /\ (Kind(r) = "Sweep" \/ job[r].stage = "retire")
     => job[r].list = superseded

\* Superseded serials marked as done are on the stored CRL, and what the cleanup
\* takes off the CRL has expired.
DoneAt(r) ==
  /\ job[r].done # {} => /\ Kind(r) \in {"Clean", "Revoke", "Sweep"}
                         /\ pc[r] \in CRLPoints \cup {"cleanDelete", "dropCSR"}
  /\ pc[r] \in CRLPoints => job[r].done \subseteq crl.revoked
  /\ pc[r] \in {"crlRead", "crlWrite"} /\ Kind(r) = "Cleanup"
       => job[r].todo \subseteq expired

\* The request being signed is pending (SignsOnlyPendingRequests).
PendingAt(r) ==
  Kind(r) \in {"SaveRequest", "Sign"} /\ pc[r] \in {"saveCert", "append"}
    => job[r].subject \in csr

\* What replica r may rely on where it stands.
OwnAt(r) ==
  ControlAt(r) /\ MutexAt(r) /\ SnapshotAt(r) /\ DoneAt(r) /\ PendingAt(r)

Own == \A r \in Replicas : OwnAt(r)

\* The inductive invariant.
Inv == TypeOK /\ Own

\* A step of replica r, the background CRL sync apart.
Moves(r) ==
  \/ Call(r) \/ CallSweep(r) \/ AcquireSubject(r) \/ AcquireCRL(r)
  \/ Step(r) \/ Failure(r)

\* What a step of replica r leaves to the others: their local variables and the
\* locks they hold ...
Apart(r) ==
  \A q \in Replicas \ {r} :
    /\ pc'[q] = pc[q] /\ job'[q] = job[q]
    /\ crlLock = q => crlLock' = q
    /\ \A s \in Subjects : subjectLock[s] = q => subjectLock'[s] = q

\* ... and the shared state those locks guard.
Guarantee(r) ==
  /\ Apart(r)
  /\ pc[r] \in CRLPoints \/ UNCHANGED <<crl, superseded>>
  /\ expired \subseteq expired'
  /\ \/ csr \subseteq csr'
     \/ pc[r] \in SubjectPoints /\ csr \ {job[r].subject} \subseteq csr'

-----------------------------------------------------------------------------
(* The operations and their subjects *)

\* Nothing fails, a subject has one certificate and a renewal retires what it
\* replaces; and none of the operations runs that act on a subject without
\* its lock (RevokeSerial, Cleanup) or from outside (Import).
Undisturbed ==
  /\ MaxFaults = 0
  /\ ~AllowDuplicateCerts
  /\ RevokeOnAutoRenew
  /\ \A r \in Replicas : Duty[r] \cap {"Import", "RevokeSerial", "Cleanup"} = {}

\* The certificates issued to a subject, and those of them that are neither
\* revoked nor waiting to be.
Of(s) == {n \in DOMAIN owner : owner[n] = s}

Valid(s) == Of(s) \ (crl.revoked \cup superseded)

\* Between operations: at most the stored certificate is valid, it is the newest
\* row of the inventory, and a request is pending only where nothing is stored.
Settled(s) ==
  /\ Valid(s) \subseteq {cert[s]}
  /\ s \in csr => cert[s] = 0
  /\ cert[s] # 0 => cert[s] = LatestSerialForSubject(s)

\* Rows and superseded entries are of certificates issued, and no replica's
\* cache lists more than the stored CRL.
Books ==
  /\ \A i \in DOMAIN inventory : inventory[i] \in DOMAIN owner
  /\ superseded \subseteq DOMAIN owner
  /\ \A r \in Replicas : cached[r].revoked \subseteq crl.revoked

\* A subject lock is held by the operation that works on the subject.
HeldAt(r) ==
  \A s \in Subjects : subjectLock[s] = r =>
    /\ s = job[r].subject /\ Kind(r) \in SubjectOps
    /\ pc[r] \in SubjectPoints \cup CRLPoints \cup {"wantCRL"}

\* The operations that replace a certificate, and the stay in the CRL lock.
Renews(r) == Kind(r) \in {"Renew", "AutoRenew"}

InCRL(r) == pc[r] \in CRLPoints \cup {"wantCRL"}

Rewrites(r) == pc[r] \in {"crlRead", "crlWrite"}

Revokes(r) == Kind(r) \in {"Revoke", "Clean"}

\* What an operation was asked with: a renewal with a certificate of its subject,
\* the overlap of which is not over once it has passed the gate.
AskedAt(r) ==
  /\ Kind(r) \notin {"Import", "RevokeSerial", "Cleanup"}
  /\ Renews(r) =>
       /\ job[r].serial \in Of(job[r].subject)
       /\ pc[r] # "gate" => job[r].serial \notin superseded \cap elapsed
  /\ Kind(r) = "Refresh" => job[r].todo = {}

\* Whose certificates go on the CRL: the sweep's are over their overlap, those of
\* an operation on a subject are the subject's.
TargetsAt(r) ==
  /\ Kind(r) = "Sweep" /\ Rewrites(r) => job[r].todo \subseteq superseded \cap elapsed
  /\ Revokes(r) /\ Rewrites(r) => job[r].todo \subseteq Of(job[r].subject)

\* The new certificate is stored, and of the others at most the one a renewal
\* still has to retire is valid.
Issued(r) ==
  /\ job[r].new \in Of(job[r].subject)
  /\ cert[job[r].subject] = job[r].new
  /\ Valid(job[r].subject)
       \subseteq {job[r].new} \cup (IF Renews(r) THEN {job[r].old} ELSE {})

\* An issuance: who comes to it by which way, what is valid before it, and what
\* after it.
IssuesAt(r) ==
  /\ pc[r] \in {"submit", "autosign", "sign"} => ~Renews(r)
  /\ pc[r] = "dropCSR" => Kind(r) # "AutoRenew"
  /\ pc[r] = "recheckList" => job[r].serial \notin crl.revoked
  /\ pc[r] = "saveCert" /\ ~Renews(r) => Valid(job[r].subject) = {}
  /\ pc[r] = "saveCert" /\ Renews(r) =>
       /\ Valid(job[r].subject) \subseteq {job[r].old}
       /\ job[r].serial \notin crl.revoked \cup superseded
  /\ pc[r] = "append" => Issued(r)
  /\ (pc[r] = "dropCSR" /\ Kind(r) # "Clean") \/ (Renews(r) /\ InCRL(r))
       => Issued(r) /\ LatestSerialForSubject(job[r].subject) = job[r].new

\* What an issuance replaces.
ReplacesAt(r) ==
  /\ Renews(r) /\ (pc[r] \in {"saveCert", "append", "dropCSR"} \/ InCRL(r)) =>
       /\ job[r].old \in Of(job[r].subject) /\ job[r].todo = {job[r].old}
       /\ job[r].subject \notin csr
  /\ Kind(r) = "Generate" /\ InCRL(r)
       => job[r].old \in Of(job[r].subject) /\ job[r].todo = {job[r].old}

\* A revocation: the superseded entries of the subject are put on the CRL first,
\* then its newest certificate.
RevokesAt(r) ==
  LET mine == superseded \cap Of(job[r].subject) IN
  /\ Revokes(r) /\ job[r].stage = "retire" /\ Rewrites(r)
       => mine \subseteq job[r].todo \cup job[r].done
  /\ Revokes(r) /\ pc[r] = "listWrite" => mine \subseteq job[r].done
  /\ pc[r] = "latest" \/ (Revokes(r) /\ job[r].stage = "own" /\ Rewrites(r))
       => mine = {}

\* Clean: what it finds stored is what it revokes, and what it deletes is
\* revoked.
CleansAt(r) ==
  LET s == job[r].subject IN
  /\ Kind(r) = "Clean" /\ InCRL(r) =>
       /\ cert[s] # 0
       /\ job[r].stage = "own" /\ Rewrites(r) => job[r].todo = {cert[s]}
  /\ pc[r] = "cleanDelete" => Of(s) \subseteq crl.revoked
  /\ pc[r] = "dropCSR" /\ Kind(r) = "Clean" => cert[s] = 0 /\ Valid(s) = {}

\* The points at which an operation has left its subject as it found it.
Before == {"submit", "sign", "reject", "autosign", "recheckCRL", "recheckList",
           "replaceRead", "evict", "cleanRead", "cleanDelete"}

SettledAt(r) ==
  pc[r] \in Before \/ (InCRL(r) /\ Kind(r) \in {"Revoke", "Clean", "Generate"})
    => Settled(job[r].subject)

SubjectAt(r) ==
  /\ HeldAt(r) /\ AskedAt(r) /\ TargetsAt(r) /\ IssuesAt(r) /\ ReplacesAt(r)
  /\ RevokesAt(r) /\ CleansAt(r) /\ SettledAt(r)

Consistent ==
  /\ Books
  /\ \A r \in Replicas : SubjectAt(r)
  /\ \A s \in Subjects : subjectLock[s] = NoOne => Settled(s)

-----------------------------------------------------------------------------
(* What a step does to the subjects *)

\* A subject whose lock r does not hold keeps its certificates and its request;
\* of its certificates only those over their overlap go on the CRL, and none on
\* the superseded list.
Kept(s) ==
  /\ cert'[s] = cert[s] /\ (s \in csr' <=> s \in csr)
  /\ Of(s)' = Of(s)
  /\ LatestSerialForSubject(s)' = LatestSerialForSubject(s)
  /\ Valid(s)' \subseteq Valid(s)
  /\ Of(s) \cap crl'.revoked \subseteq crl.revoked \cup (superseded \cap elapsed)
  /\ Of(s) \cap superseded' \subseteq superseded

\* Whatever moves, certificates stay issued and revoked, and none comes to be
\* over its overlap.
Grows ==
  /\ \A n \in DOMAIN owner : n \in DOMAIN owner' /\ owner'[n] = owner[n]
  /\ crl.revoked \subseteq crl'.revoked
  /\ superseded' \cap elapsed' \subseteq superseded \cap elapsed

\* A subject is settled when its lock is released.
Released(r) ==
  \A s \in Subjects : subjectLock[s] = r /\ subjectLock'[s] = NoOne => Settled(s)'

Keeps(r) == SubjectAt(r)' /\ Released(r)
=============================================================================
