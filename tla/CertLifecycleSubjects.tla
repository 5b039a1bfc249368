----------------------- MODULE CertLifecycleSubjects ------------------------
(***************************************************************************)
(* What a step of one replica leaves to the operations of the others: the  *)
(* subjects whose locks it does not hold are Kept, and Grows holds of      *)
(* everyone's certificates.  With what the replica keeps of its own        *)
(* subject (Keeps, one lemma for each group of actions; those that read    *)
(* and write the CRL and the superseded list are in CertLifecycleProofs)   *)
(* that is enough for Consistent (MovesConsistent).                        *)
(***************************************************************************)
EXTENDS CertLifecycleTypes

\* Zenon proves what names no other prover.
USE ZenonT(60)

-----------------------------------------------------------------------------
(* What an operation keeps of the subject it works on, until it issues or revokes *)

\* Requests and jobs that arrive.
LEMMA CallsKeep ==
  ASSUME Undisturbed, Inv, Consistent, NEW r \in Replicas, Call(r) \/ CallSweep(r)
  PROVE  Keeps(r)
<1>1. ASSUME NEW kind, NEW s, NEW n, NEW force, NEW p, Begin(r, kind, s, n, force, p),
             p \in {"gate", "wantSubject", "wantCRL"},
             kind \in {"Renew", "AutoRenew"} => p = "gate" /\ n \in Of(s),
             kind \in SubjectOps => p # "wantCRL"
      PROVE  Keeps(r)
  <2> USE <1>1
  <2>1. /\ pc'[r] = p /\ pc[r] = "idle" /\ UNCHANGED <<subjectLock, owner>> /\ kind \in Duty[r]
        /\ job'[r].kind = kind /\ job'[r].subject = s
    BY BeginStep DEF Begin, At, locks, store, Inv
  <2>2. job'[r] = [NoJob EXCEPT !.kind = kind, !.subject = s, !.serial = n, !.force = force]
    BY LocalsStep DEF Begin, Inv
  <2>3. job'[r].serial = n /\ job'[r].todo = {}
    BY <2>2 DEF NoJob
  <2>4. kind \notin {"Import", "RevokeSerial", "Cleanup"}
    BY <2>1 DEF Undisturbed
  <2>5. HeldAt(r)'
    BY <2>1, Facts DEF HeldAt, SubjectPoints, CRLPoints
  <2>6. Of(s)' = Of(s)
    BY <2>1 DEF Of
  <2>7. AskedAt(r)'
    BY <2>1, <2>3, <2>4, <2>6 DEF AskedAt, Kind, Renews
  <2>8. TargetsAt(r)' /\ IssuesAt(r)' /\ ReplacesAt(r)'
    BY <2>1 DEF TargetsAt, IssuesAt, ReplacesAt, Kind, Renews, Rewrites, InCRL, CRLPoints,
       SubjectOps, Issuing
  <2>9. RevokesAt(r)' /\ CleansAt(r)' /\ SettledAt(r)'
    BY <2>1 DEF RevokesAt, CleansAt, SettledAt, Before, Kind, Revokes, Rewrites, InCRL,
       CRLPoints, SubjectOps, Issuing
  <2> QED BY <2>1, <2>5, <2>7, <2>8, <2>9, KeepsLocks DEF Keeps, SubjectAt
<1>2. ASSUME NEW kind \in SubjectOps \ {"Renew", "AutoRenew"}, NEW s \in Subjects,
             NEW force \in BOOLEAN, CallSubject(r, kind, s, force)
      PROVE  Keeps(r)
  BY <1>1, <1>2 DEF CallSubject
<1>3. ASSUME NEW kind \in {"Renew", "AutoRenew"}, NEW n \in DOMAIN owner,
             CallRenewal(r, kind, n)
      PROVE  Keeps(r)
  <2>1. n \in Of(owner[n])
    BY DEF Of
  <2> QED BY <1>1, <1>3, <2>1 DEF CallRenewal
<1>4. ASSUME NEW n \in DOMAIN owner, NEW force \in BOOLEAN, CallRevokeSerial(r, n, force)
      PROVE  FALSE
  BY <1>4 DEF CallRevokeSerial, Begin, Undisturbed
<1>5. ASSUME NEW kind \in {"Refresh", "Cleanup"}, CallBackground(r, kind)
      PROVE  Keeps(r)
  BY <1>1, <1>5 DEF CallBackground, SubjectOps, Issuing
<1>6. CASE CallSweep(r)
  BY <1>1, <1>6 DEF CallSweep, SubjectOps, Issuing
<1> QED BY <1>2, <1>3, <1>4, <1>5, <1>6 DEF Call

\* The locks.
LEMMA LocksKeep ==
  ASSUME Undisturbed, Inv, Consistent, NEW r \in Replicas, AcquireSubject(r) \/ AcquireCRL(r)
  PROVE  Keeps(r)
<1>a. /\ TypeOK /\ ControlAt(r) /\ HeldAt(r) /\ AskedAt(r) /\ TargetsAt(r) /\ IssuesAt(r)
      /\ ReplacesAt(r) /\ RevokesAt(r) /\ CleansAt(r) /\ SettledAt(r)
  BY Facts
<1>b. /\ UNCHANGED <<csr, cert, owner, inventory, crl, superseded, elapsed, job>>
      /\ Kind(r)' = Kind(r) /\ (Renews(r)' <=> Renews(r)) /\ (Revokes(r)' <=> Revokes(r))
  BY DEF AcquireSubject, AcquireCRL, store, time, Kind, Renews, Revokes
<1>c. /\ Of(job[r].subject)' = Of(job[r].subject)
      /\ Valid(job[r].subject)' = Valid(job[r].subject)
      /\ Settled(job[r].subject)' <=> Settled(job[r].subject)
      /\ LatestSerialForSubject(job[r].subject)' = LatestSerialForSubject(job[r].subject)
  BY <1>b, SameStore
<1>1. ASSUME AcquireSubject(r) PROVE Keeps(r)
  <2> DEFINE s == job[r].subject
  <2>1. /\ pc[r] = "wantSubject" /\ pc'[r] = SubjectEntry[Kind(r)] /\ Kind(r) \in SubjectOps
        /\ s \in Subjects /\ subjectLock[s] = NoOne
        /\ subjectLock' = [subjectLock EXCEPT ![s] = r]
    BY <1>1, <1>a, GotoStep DEF AcquireSubject, At, ControlAt
  <2>2. Settled(s)
    BY <2>1 DEF Consistent
  <2>3. /\ \/ pc'[r] \in {"submit", "sign", "reject", "cleanRead", "recheckCRL", "replaceRead"}
           \/ pc'[r] = "wantCRL" /\ Kind(r) = "Revoke"
        /\ pc'[r] \in {"submit", "sign"} => ~Renews(r)
    BY SMTT(30), <2>1, <1>a DEF SubjectEntry, SubjectOps, Issuing, AskedAt, Renews
  <2>4. HeldAt(r)' /\ Released(r)
    BY <1>a, <1>b, <2>1, <2>3, ConstantsAssumption
    DEF HeldAt, Released, TypeOK, SubjectPoints, CRLPoints
  <2>5. AskedAt(r)' /\ TargetsAt(r)'
    BY <1>a, <1>b, <1>c, <2>1, <2>3 DEF AskedAt, TargetsAt, Rewrites
  <2>6. IssuesAt(r)' /\ ReplacesAt(r)'
    BY <1>b, <2>3 DEF IssuesAt, ReplacesAt, InCRL, CRLPoints, Renews
  <2>7. RevokesAt(r)' /\ CleansAt(r)' /\ SettledAt(r)'
    BY <1>b, <1>c, <2>2, <2>3 DEF RevokesAt, CleansAt, SettledAt, Rewrites, InCRL, CRLPoints
  <2> QED BY <2>4, <2>5, <2>6, <2>7 DEF Keeps, SubjectAt
<1>2. ASSUME AcquireCRL(r) PROVE Keeps(r)
  <2>1. /\ pc[r] = "wantCRL" /\ pc'[r] = CRLEntry[Kind(r)] /\ Kind(r) \in CRLKinds
        /\ UNCHANGED subjectLock
    BY <1>2, <1>a, GotoStep DEF AcquireCRL, At, ControlAt
  <2>2. \/ Revokes(r) /\ pc'[r] = "retireRead"
        \/ (Renews(r) \/ Kind(r) \in {"Generate", "Refresh"}) /\ pc'[r] \in {"crlRead", "listRead"}
        \/ Kind(r) = "Sweep" /\ pc'[r] = "sweepRead"
    <3>1. Kind(r) \in {"Revoke", "Clean", "Renew", "AutoRenew", "Generate", "Sweep", "Refresh"}
      BY <1>a, <2>1 DEF CRLKinds, AskedAt
    <3> QED BY SMTT(30), <2>1, <3>1 DEF CRLEntry, Renews, Revokes
  <2>3. InCRL(r) /\ InCRL(r)'
    BY <2>1, <2>2 DEF InCRL, CRLPoints
  <2>4. HeldAt(r)' /\ Released(r)
    BY <1>a, <1>b, <2>1, <2>2, StaySubject, KeepsLocks DEF CRLPoints
  <2>5. AskedAt(r)' /\ TargetsAt(r)'
    BY <1>a, <1>b, <1>c, <2>1, <2>2 DEF AskedAt, TargetsAt, Rewrites, Revokes, Renews
  <2>6. IssuesAt(r)' /\ ReplacesAt(r)'
    BY <1>a, <1>b, <1>c, <2>2, <2>3 DEF IssuesAt, ReplacesAt, Issued
  <2>7. RevokesAt(r)' /\ CleansAt(r)' /\ SettledAt(r)'
    BY <1>a, <1>b, <1>c, <2>2, <2>3
    DEF RevokesAt, CleansAt, SettledAt, Rewrites, Revokes, Renews, Before
  <2> QED BY <2>4, <2>5, <2>6, <2>7 DEF Keeps, SubjectAt
<1> QED BY <1>1, <1>2

\* Requests.
LEMMA RequestsKeep ==
  ASSUME Undisturbed, Inv, Consistent, NEW r \in Replicas,
         Submit(r) \/ Autosign(r) \/ SignRequest(r) \/ DeleteRequest(r)
  PROVE  Keeps(r)
<1>a. /\ TypeOK /\ ControlAt(r) /\ HeldAt(r) /\ IssuesAt(r) /\ SettledAt(r)
  BY Facts
<1>b. /\ UNCHANGED <<cert, owner, inventory, crl, superseded, elapsed>>
      /\ pc[r] \in {"submit", "autosign", "sign", "reject"}
  BY DEF Submit, Autosign, SignRequest, DeleteRequest, store, time, At
<1>c. PICK s \in Subjects : /\ s = job[r].subject /\ subjectLock[s] = r
                            /\ Kind(r) \in SubjectOps /\ Settled(s)
  BY <1>a, <1>b, Working DEF SubjectPoints, SettledAt, Before
<1>d. /\ Of(s)' = Of(s) /\ Valid(s)' = Valid(s)
      /\ LatestSerialForSubject(s)' = LatestSerialForSubject(s)
  BY <1>b, SameRows DEF Valid
<1>1. ASSUME Return(r), csr' \in {csr, csr \ {s}} PROVE Keeps(r)
  <2> USE <1>1
  <2>1. Settled(s)'
    BY <1>b, <1>c, <1>d DEF Settled
  <2> QED BY <1>a, <1>c, <2>1, ReturnSubject DEF HeldAt
<1>2. ASSUME UNCHANGED <<subjectLock, job>>, pc'[r] \in {"autosign", "sign"}, ~Renews(r), Settled(s)'
      PROVE  Keeps(r)
  <2> USE <1>2
  <2>1. /\ HeldAt(r)' /\ AskedAt(r)' /\ TargetsAt(r)' /\ RevokesAt(r)' /\ Released(r)
        /\ ~Renews(r)'
    BY <1>b, <1>c, <1>d, GoesOn DEF SubjectPoints
  <2>2. IssuesAt(r)' /\ ReplacesAt(r)' /\ CleansAt(r)' /\ SettledAt(r)'
    BY <1>c, <2>1 DEF IssuesAt, ReplacesAt, CleansAt, SettledAt, InCRL, CRLPoints
  <2> QED BY <2>1, <2>2 DEF Keeps, SubjectAt
<1>3. ASSUME Submit(r) PROVE Keeps(r)
  <2> USE <1>3
  <2>1. CASE Return(r) /\ UNCHANGED csr
    BY <1>1, <2>1
  <2>2. CASE ~Duplicate(s) /\ csr' = csr \cup {s} /\ Goto(r, "autosign") /\ UNCHANGED <<locks, job>>
    <3> USE <2>2
    <3>1. Settled(s)'
      BY <1>b, <1>c, <1>d DEF Settled, Duplicate, Undisturbed
    <3>2. pc'[r] = "autosign" /\ UNCHANGED <<subjectLock, job>> /\ ~Renews(r)
      BY <1>a, GotoStep DEF Submit, locks, At, IssuesAt
    <3> QED BY <1>2, <3>1, <3>2
  <2> QED BY <1>c, <2>1, <2>2 DEF Submit
<1>4. ASSUME Autosign(r) PROVE Keeps(r)
  <2> USE <1>4
  <2>1. UNCHANGED csr /\ ~Renews(r)
    BY <1>a DEF Autosign, store, At, IssuesAt
  <2>2. CASE Goto(r, "sign") /\ UNCHANGED <<locks, job>>
    <3>1. Settled(s)'
      BY <1>b, <1>c, <1>d, <2>1 DEF Settled
    <3>2. pc'[r] = "sign" /\ UNCHANGED <<subjectLock, job>>
      BY <1>a, <2>2, GotoStep DEF locks
    <3> QED BY <1>2, <2>1, <3>1, <3>2
  <2> QED BY <1>1, <2>1, <2>2 DEF Autosign
<1>5. ASSUME SignRequest(r) PROVE Keeps(r)
  <2> USE <1>5
  <2>1. UNCHANGED csr /\ ~Renews(r)
    BY <1>a DEF SignRequest, store, At, IssuesAt
  <2>2. CASE s \in csr /\ Goto(r, "saveCert") /\ UNCHANGED <<locks, job>>
    <3> USE <2>2
    <3>1. Valid(s)' = {}
      BY <1>c, <1>d, ZeroIsNone DEF Settled
    <3>2. pc'[r] = "saveCert" /\ UNCHANGED <<subjectLock, job>>
      BY <1>a, GotoStep DEF locks
    <3>3. /\ HeldAt(r)' /\ AskedAt(r)' /\ TargetsAt(r)' /\ RevokesAt(r)' /\ Released(r)
          /\ ~Renews(r)'
      BY <2>1, <3>2, <1>b, <1>c, <1>d, GoesOn DEF SubjectPoints
    <3>4. IssuesAt(r)' /\ ReplacesAt(r)' /\ CleansAt(r)' /\ SettledAt(r)'
      BY <1>c, <3>1, <3>2, <3>3 DEF IssuesAt, ReplacesAt, CleansAt, SettledAt, InCRL, CRLPoints, Before
    <3> QED BY <3>3, <3>4 DEF Keeps, SubjectAt
  <2> QED BY <1>1, <1>c, <2>1, <2>2 DEF SignRequest
<1>6. ASSUME DeleteRequest(r) PROVE Keeps(r)
  BY <1>1, <1>6, <1>c DEF DeleteRequest
<1> QED BY <1>3, <1>4, <1>5, <1>6

-----------------------------------------------------------------------------
(* Which action changes what *)

\* The stored CRL, the superseded list and a replica's cached CRL change only in
\* the actions named here.
LEMMA SharedChanges ==
  ASSUME NEW r \in Replicas, Moves(r)
  PROVE  /\ UNCHANGED crl \/ SignCRL(r) \/ CRLFails(r)
         /\ UNCHANGED superseded \/ ListAppend(r) \/ ListWrite(r)
<1>1. ASSUME Call(r) \/ CallSweep(r) PROVE UNCHANGED <<crl, superseded>>
  BY <1>1 DEF Call, CallSubject, CallRenewal, CallRevokeSerial, CallBackground,
     CallSweep, Begin, store
<1>2. ASSUME \/ AcquireSubject(r) \/ AcquireCRL(r) \/ Submit(r) \/ Autosign(r)
             \/ SignRequest(r) \/ DeleteRequest(r) \/ Gate(r) \/ RecheckCRL(r)
             \/ RecheckList(r) \/ ReplaceRead(r) \/ Evict(r)
      PROVE  UNCHANGED <<crl, superseded>>
  BY <1>2 DEF AcquireSubject, AcquireCRL, Submit, Autosign, SignRequest,
     DeleteRequest, Gate, RecheckCRL, RecheckList, ReplaceRead, Evict, store
<1>3. ASSUME \/ SaveCert(r) \/ AppendInventory(r) \/ DropCSR(r) \/ CleanRead(r)
             \/ CleanDelete(r) \/ RetireRead(r) \/ Latest(r) \/ Check(r)
             \/ SweepRead(r) \/ ReadCRL(r) \/ KeepCRL(r) \/ ListRead(r)
      PROVE  UNCHANGED <<crl, superseded>>
  BY <1>3 DEF SaveCert, AppendInventory, DropCSR, CleanRead, CleanDelete,
     RetireRead, Latest, Check, SweepRead, ReadCRL, KeepCRL, ListRead, store
<1>4. ASSUME \/ Prune(r) \/ BlobRead(r) \/ BlobDelete(r) \/ AppendFails(r)
             \/ SavePrivateKeyFails(r) \/ StepFails(r) \/ HasCertFails(r)
             \/ Crash(r)
      PROVE  UNCHANGED <<crl, superseded>>
  BY <1>4 DEF Prune, BlobRead, BlobDelete, AppendFails, SavePrivateKeyFails,
     StepFails, HasCertFails, Crash, store
<1>5. ASSUME SignCRL(r) \/ CRLFails(r) PROVE UNCHANGED superseded
  BY <1>5 DEF SignCRL, CRLFails, store
<1>6. ASSUME ListAppend(r) \/ ListWrite(r) PROVE UNCHANGED crl
  BY <1>6 DEF ListAppend, ListWrite
<1> QED BY <1>1, <1>2, <1>3, <1>4, <1>5, <1>6 DEF Moves, Step, Failure

\* The stored objects, the clock and the subject locks change only in the
\* actions named here.
LEMMA StoreChanges ==
  ASSUME Undisturbed, Inv, Consistent, NEW r \in Replicas, Moves(r)
  PROVE  /\ UNCHANGED csr \/ Submit(r) \/ DeleteRequest(r) \/ DropCSR(r)
         /\ UNCHANGED cert \/ Evict(r) \/ SaveCert(r) \/ CleanDelete(r)
         /\ UNCHANGED owner \/ SaveCert(r)
         /\ UNCHANGED inventory \/ AppendInventory(r)
         /\ UNCHANGED elapsed \/ ListAppend(r)
         /\ UNCHANGED crl \/ SignCRL(r)
         /\ UNCHANGED superseded \/ ListAppend(r) \/ ListWrite(r)
<1>1. ASSUME Call(r) \/ CallSweep(r)
      PROVE  UNCHANGED <<csr, cert, owner, inventory, elapsed>>
  BY <1>1 DEF Call, CallSubject, CallRenewal, CallRevokeSerial, CallBackground,
     CallSweep, Begin, store, time
<1>2. ASSUME \/ AcquireSubject(r) \/ AcquireCRL(r) \/ Autosign(r)
             \/ SignRequest(r) \/ Gate(r) \/ RecheckCRL(r)
             \/ RecheckList(r) \/ ReplaceRead(r)
             \/ CleanRead(r) \/ RetireRead(r) \/ Latest(r)
             \/ SweepRead(r) \/ ReadCRL(r) \/ KeepCRL(r) \/ SignCRL(r) \/ ListRead(r)
      PROVE  UNCHANGED <<csr, cert, owner, inventory, elapsed>>
  BY <1>2 DEF AcquireSubject, AcquireCRL, Autosign, SignRequest,
     Gate, RecheckCRL, RecheckList, ReplaceRead, CleanRead, RetireRead, Latest, SweepRead,
     ReadCRL, KeepCRL, SignCRL, ListRead, store, time
<1>3. ASSUME Submit(r) \/ DeleteRequest(r) \/ DropCSR(r)
      PROVE  UNCHANGED <<cert, owner, inventory, elapsed>>
  BY <1>3 DEF Submit, DeleteRequest, DropCSR, time
<1>4. ASSUME Evict(r) \/ CleanDelete(r)
      PROVE  UNCHANGED <<csr, owner, inventory, elapsed>>
  BY <1>4 DEF Evict, CleanDelete, time
<1>5. ASSUME SaveCert(r) PROVE UNCHANGED <<csr, inventory, elapsed>>
  BY <1>5 DEF SaveCert, time
<1>6. ASSUME AppendInventory(r) PROVE UNCHANGED <<csr, cert, owner, elapsed>>
  BY <1>6 DEF AppendInventory, time
<1>7. ASSUME ListAppend(r) PROVE UNCHANGED <<csr, cert, owner, inventory>>
  BY <1>7 DEF ListAppend
<1>8. ASSUME ListWrite(r) PROVE UNCHANGED <<csr, cert, owner, inventory, elapsed>>
  BY <1>8 DEF ListWrite, time
<1>9. UNCHANGED crl \/ SignCRL(r)
  BY SharedChanges, Excluded DEF Failure
<1>10. UNCHANGED superseded \/ ListAppend(r) \/ ListWrite(r)
  BY SharedChanges
<1> QED BY <1>1, <1>2, <1>3, <1>4, <1>5, <1>6, <1>7, <1>8, <1>9, <1>10, Excluded DEF Moves, Step

\* A subject lock changes hands only through its holder.
LEMMA LockChanges ==
  ASSUME Undisturbed, Inv, Consistent, NEW r \in Replicas, Moves(r)
  PROVE  UNCHANGED subjectLock \/ AcquireSubject(r) \/ Return(r)
<1>1. ASSUME Call(r) \/ CallSweep(r) PROVE UNCHANGED subjectLock
  BY <1>1 DEF Call, CallSubject, CallRenewal, CallRevokeSerial, CallBackground,
     CallSweep, Begin, locks
<1>2. ASSUME \/ AcquireCRL(r) \/ Submit(r) \/ Autosign(r) \/ SignRequest(r)
             \/ DeleteRequest(r) \/ Gate(r) \/ RecheckCRL(r) \/ RecheckList(r)
             \/ ReplaceRead(r) \/ Evict(r) \/ SaveCert(r)
      PROVE  UNCHANGED subjectLock \/ Return(r)
  BY <1>2 DEF AcquireCRL, Submit, Autosign, SignRequest, DeleteRequest, Gate,
     RecheckCRL, RecheckList, ReplaceRead, Evict, SaveCert, locks
<1>3. ASSUME \/ AppendInventory(r) \/ DropCSR(r) \/ CleanRead(r) \/ CleanDelete(r)
             \/ RetireRead(r) \/ Latest(r) \/ SweepRead(r) \/ ReadCRL(r)
             \/ ListRead(r) \/ ListAppend(r) \/ ListWrite(r)
      PROVE  UNCHANGED subjectLock \/ Return(r)
  BY <1>3 DEF AppendInventory, AfterIssue, DropCSR, CleanRead, CleanDelete,
     RetireRead, Latest, RevokeEnds, LeaveCRL, SweepRead, ReadCRL, ListRead, ListAppend,
     ListWrite, locks
<1>4. ASSUME KeepCRL(r) \/ SignCRL(r) PROVE UNCHANGED subjectLock \/ Return(r)
  <2>1. PICK batch : AfterCRL(r, batch, TRUE)
    BY <1>4 DEF KeepCRL, SignCRL
  <2> QED BY <2>1 DEF AfterCRL, RevokeEnds, LeaveCRL, locks
<1> QED BY <1>1, <1>2, <1>3, <1>4, Excluded DEF Moves, Step

-----------------------------------------------------------------------------
(* What a step of one replica leaves to the operations of the others *)

\* What every step of a replica keeps.
LEMMA MovesGrow ==
  ASSUME Undisturbed, Inv, Consistent, NEW r \in Replicas, Moves(r)
  PROVE  Grows
<1>1. \A n \in DOMAIN owner : n \in DOMAIN owner' /\ owner'[n] = owner[n]
  <2>1. CASE UNCHANGED owner
    BY <2>1
  <2>2. CASE SaveCert(r)
    BY <2>2, SaveCertOwner
  <2> QED BY <2>1, <2>2, StoreChanges
<1>2. crl.revoked \subseteq crl'.revoked
  <2>1. CASE SignCRL(r)
    <3> USE <2>1
    <3>1. PICK batch \in Batches(r) : crl' = NextCRL(r, batch)
      BY DEF SignCRL
    <3>2. At(r, "crlWrite")
      BY DEF SignCRL
    <3> QED BY SMTT(30), <3>1, <3>2, BatchTargets
  <2> QED BY <2>1, StoreChanges
<1>3. superseded' \cap elapsed' \subseteq superseded \cap elapsed
  <2>1. CASE ListAppend(r)
    BY <2>1, ListTargets
  <2>2. CASE ListWrite(r)
    <3> USE <2>2
    <3>1. UNCHANGED elapsed
      BY DEF ListWrite, time
    <3> QED BY <3>1, ListTargets
  <2> QED BY <2>1, <2>2, StoreChanges
<1> QED BY <1>1, <1>2, <1>3 DEF Grows

\* Rely: the subjects that r does not work on.
LEMMA OthersKept ==
  ASSUME Undisturbed, Inv, Consistent, NEW r \in Replicas, Moves(r),
         NEW s \in Subjects, subjectLock[s] # r
  PROVE  Kept(s)
<1>a. TypeOK /\ Books /\ IssuesAt(r)
  BY DEF Inv, Consistent, SubjectAt
<1>b. pc[r] \in SubjectPoints => s # job[r].subject
  BY Working
<1>1. cert'[s] = cert[s]
  <2>1. CASE Evict(r) \/ SaveCert(r) \/ CleanDelete(r)
    <3> USE <2>1
    <3>1. pc[r] \in SubjectPoints
      BY DEF Evict, SaveCert, CleanDelete, At, SubjectPoints
    <3>2. \/ UNCHANGED cert
          \/ \E x : cert' = [cert EXCEPT ![job[r].subject] = x]
      BY DEF Evict, SaveCert, CleanDelete
    <3> QED BY <1>a, <1>b, <3>1, <3>2 DEF TypeOK
  <2> QED BY <2>1, StoreChanges
<1>2. s \in csr' <=> s \in csr
  <2>1. CASE Submit(r) \/ DeleteRequest(r) \/ DropCSR(r)
    <3> USE <2>1
    <3>1. pc[r] \in SubjectPoints
      BY DEF Submit, DeleteRequest, DropCSR, At, SubjectPoints
    <3>2. csr' \in {csr, csr \cup {job[r].subject}, csr \ {job[r].subject}}
      BY DEF Submit, DeleteRequest, DropCSR
    <3> QED BY <1>b, <3>1, <3>2
  <2> QED BY <2>1, StoreChanges
<1>3. Of(s)' = Of(s)
  <2>1. CASE SaveCert(r)
    <3> USE <2>1
    <3>1. pc[r] \in SubjectPoints
      BY DEF SaveCert, At, SubjectPoints
    <3> QED BY <1>b, <3>1, SaveCertOwner DEF Of
  <2> QED BY <2>1, StoreChanges DEF Of
<1>4. LatestSerialForSubject(s)' = LatestSerialForSubject(s)
  <2>1. CASE UNCHANGED inventory
    BY <1>a, <2>1, MovesGrow, LatestKept DEF Grows
  <2>2. CASE AppendInventory(r)
    <3>1. inventory' = Append(inventory, job[r].new) /\ owner' = owner /\ pc[r] = "append"
      BY <2>2 DEF AppendInventory, At
    <3>2. job[r].new \in Of(job[r].subject)
      BY <1>a, <3>1 DEF IssuesAt, Issued
    <3>3. job[r].new \in DOMAIN owner /\ owner[job[r].new] # s
      BY <1>b, <3>1, <3>2 DEF Of, SubjectPoints
    <3> QED BY <1>a, <3>1, <3>3, LatestAppended
  <2> QED BY <2>1, <2>2, StoreChanges
<1>5. Of(s) \cap crl'.revoked \subseteq crl.revoked \cup (superseded \cap elapsed)
  <2>1. CASE SignCRL(r)
    <3> USE <2>1
    <3>1. PICK batch \in Batches(r) : crl' = NextCRL(r, batch)
      BY DEF SignCRL
    <3>2. At(r, "crlWrite")
      BY DEF SignCRL
    <3>3. crl'.revoked = crl.revoked \cup batch /\ batch \subseteq job[r].todo
      BY <3>1, <3>2, BatchTargets
    <3>4. Of(s) \cap job[r].todo \subseteq superseded \cap elapsed
      BY <3>2, BatchTargets
    <3> QED BY <3>3, <3>4
  <2> QED BY <2>1, StoreChanges
<1>6. /\ Of(s) \cap superseded' \subseteq superseded
      /\ superseded \subseteq superseded' \cup crl.revoked
  <2>1. CASE ListAppend(r)
    <3> USE <2>1
    <3>1. job[r].old \notin Of(s)
      BY ListTargets DEF Of
    <3> QED BY SMTT(30), <3>1, ListTargets
  <2>2. CASE ListWrite(r)
    BY SMTT(30), <2>2, ListTargets
  <2> QED BY <2>1, <2>2, StoreChanges
<1>7. Valid(s)' \subseteq Valid(s)
  BY <1>3, <1>6, MovesGrow DEF Valid, Grows
<1> QED BY <1>1, <1>2, <1>3, <1>4, <1>5, <1>6, <1>7 DEF Kept

\* The books stay in order.
LEMMA BooksKept ==
  ASSUME Undisturbed, Inv, Consistent, NEW r \in Replicas, Moves(r),
         \A q \in Replicas : cached'[q] \in {cached[q], crl'}
  PROVE  Books'
<1>a. Books /\ IssuesAt(r) /\ Grows /\ TypeOK
  BY MovesGrow DEF Consistent, SubjectAt, Inv
<1>1. \A i \in DOMAIN inventory' : inventory'[i] \in DOMAIN owner'
  <2>1. CASE UNCHANGED inventory
    BY <1>a, <2>1 DEF Books, Grows
  <2>2. CASE AppendInventory(r)
    <3>1. inventory' = Append(inventory, job[r].new) /\ pc[r] = "append"
      BY <2>2 DEF AppendInventory, At
    <3>2. job[r].new \in DOMAIN owner
      BY <1>a, <3>1 DEF IssuesAt, Issued, Of
    <3>3. DOMAIN owner \subseteq DOMAIN owner'
      BY <1>a DEF Grows
    <3>4. inventory \in Seq(Serials \cup {0}) /\ job[r].new \in Serials \cup {0}
      BY <1>a, JobFieldsType DEF TypeOK
    <3>5. ASSUME NEW i \in DOMAIN inventory'
          PROVE  inventory'[i] = job[r].new \/ (i \in DOMAIN inventory /\ inventory'[i] = inventory[i])
      BY SMTT(30), <3>1, <3>4
    <3> QED BY <1>a, <3>2, <3>3, <3>5 DEF Books
  <2> QED BY <2>1, <2>2, StoreChanges
<1>2. superseded' \subseteq DOMAIN owner'
  <2>1. superseded' \subseteq superseded \cup DOMAIN owner
    BY SMTT(30), StoreChanges, ListTargets DEF Of
  <2> QED BY <1>a, <2>1 DEF Books, Grows
<1>3. \A q \in Replicas : cached'[q].revoked \subseteq crl'.revoked
  BY <1>a DEF Books, Grows
<1> QED BY <1>1, <1>2, <1>3 DEF Books

\* A settled subject that is left alone stays settled.
LEMMA SettledKept ==
  ASSUME NEW s, Kept(s), Settled(s)
  PROVE  Settled(s)'
BY DEF Kept, Settled

\* What other replicas were asked and are to revoke.
LEMMA OthersKeepAsked ==
  ASSUME Undisturbed, Inv, Consistent, NEW r \in Replicas, Moves(r), Guarantee(r),
         NEW q \in Replicas \ {r}
  PROVE  AskedAt(q)' /\ TargetsAt(q)'
<1>1. /\ pc'[q] = pc[q] /\ job'[q] = job[q] /\ Grows
      /\ AskedAt(q) /\ TargetsAt(q) /\ MutexAt(q) /\ MutexAt(r)
  BY MovesGrow DEF Guarantee, Apart, Consistent, SubjectAt, Inv, Own, OwnAt
<1>2. \A s : Of(s) \subseteq Of(s)'
  BY <1>1 DEF Of, Grows
<1>3. AskedAt(q)'
  BY <1>1, <1>2 DEF AskedAt, Renews, Kind, Grows
<1>4. Rewrites(q) => UNCHANGED <<superseded, elapsed>>
  <2> SUFFICES ASSUME Rewrites(q) PROVE UNCHANGED <<superseded, elapsed>>
    OBVIOUS
  <2>1. crlLock = q /\ pc[r] \notin CRLPoints
    BY <1>1 DEF MutexAt, Rewrites, CRLPoints
  <2>2. ~ListAppend(r) /\ ~ListWrite(r)
    BY <2>1 DEF ListAppend, ListWrite, At, CRLPoints
  <2> QED BY <2>2, StoreChanges
<1>5. TargetsAt(q)'
  BY <1>1, <1>2, <1>4 DEF TargetsAt, Rewrites, Revokes, Kind
<1> QED BY <1>3, <1>5

\* What other replicas have established about the subject they work on.
LEMMA OthersKeepSubject ==
  ASSUME Undisturbed, Inv, Consistent, NEW r \in Replicas, Moves(r), Guarantee(r),
         NEW q \in Replicas \ {r},
         pc[q] \in SubjectPoints \/ (InCRL(q) /\ Kind(q) \in SubjectOps)
  PROVE  /\ IssuesAt(q)' /\ ReplacesAt(q)' /\ RevokesAt(q)'
         /\ CleansAt(q)' /\ SettledAt(q)'
<1> DEFINE s == job[q].subject
<1>1. /\ pc'[q] = pc[q] /\ job'[q] = job[q] /\ Grows
      /\ IssuesAt(q) /\ ReplacesAt(q) /\ RevokesAt(q) /\ CleansAt(q) /\ SettledAt(q)
      /\ AskedAt(q) /\ ControlAt(q) /\ MutexAt(q) /\ MutexAt(r)
  BY MovesGrow DEF Guarantee, Apart, Consistent, SubjectAt, Inv, Own, OwnAt
<1>2. Kept(s)
  BY Working, OthersKept
<1>3. /\ (Kind(q) = Kind(q)') /\ (Renews(q) <=> Renews(q)') /\ (InCRL(q) <=> InCRL(q)')
      /\ (Rewrites(q) <=> Rewrites(q)') /\ (Revokes(q) <=> Revokes(q)')
  BY <1>1 DEF Kind, Renews, InCRL, Rewrites, Revokes
<1>4. Issued(q) => Issued(q)'
  BY <1>1, <1>2, <1>3 DEF Issued, Kept
<1>5. pc[q] \in {"recheckList", "saveCert"} /\ Renews(q)
        => /\ job[q].serial \in Of(s)
           /\ job[q].serial \notin superseded \cap elapsed
  BY <1>1 DEF AskedAt
<1>6. pc[q] = "recheckList" => Renews(q)
  BY <1>1 DEF ControlAt, Renews
<1>7. IssuesAt(q)'
  <2>1. pc[q] = "recheckList" => job[q].serial \notin crl'.revoked
    BY <1>1, <1>2, <1>5, <1>6 DEF IssuesAt, Kept
  <2>2. pc[q] = "saveCert" /\ ~Renews(q) => Valid(s)' = {}
    BY <1>1, <1>2 DEF IssuesAt, Kept
  <2>3. pc[q] = "saveCert" /\ Renews(q) =>
          Valid(s)' \subseteq {job[q].old} /\ job[q].serial \notin crl'.revoked \cup superseded'
    BY <1>1, <1>2, <1>5 DEF IssuesAt, Kept
  <2>4. LatestSerialForSubject(s)' = LatestSerialForSubject(s)
    BY <1>2 DEF Kept
  <2> QED BY <1>1, <1>3, <1>4, <2>1, <2>2, <2>3, <2>4 DEF IssuesAt
<1>8. ReplacesAt(q)'
  BY <1>1, <1>2, <1>3 DEF ReplacesAt, Kept
<1>9. pc[q] \in CRLPoints => UNCHANGED superseded
  BY <1>1 DEF MutexAt, Guarantee
<1>10. RevokesAt(q)'
  <2>1. Rewrites(q) \/ pc[q] \in {"listWrite", "latest"} => pc[q] \in CRLPoints
    BY DEF Rewrites, CRLPoints
  <2> QED BY <1>1, <1>2, <1>3, <1>9, <2>1 DEF RevokesAt, Kept
<1>11. CleansAt(q)'
  BY <1>1, <1>2, <1>3 DEF CleansAt, Kept, Grows
<1>12. SettledAt(q)'
  BY <1>1, <1>2, <1>3, SettledKept DEF SettledAt
<1> QED BY <1>7, <1>8, <1>10, <1>11, <1>12

-----------------------------------------------------------------------------
(* Steps that keep Consistent *)

\* Nobody comes by a lock through another replica's step.
LEMMA LocksApart ==
  ASSUME Undisturbed, Inv, Consistent, NEW r \in Replicas, Moves(r), Guarantee(r),
         NEW s \in Subjects
  PROVE  /\ \A q \in Replicas \ {r} : subjectLock'[s] = q <=> subjectLock[s] = q
         /\ subjectLock'[s] = NoOne => subjectLock[s] \in {r, NoOne}
<1>1. subjectLock'[s] \in {subjectLock[s], r, NoOne}
  <2>1. CASE AcquireSubject(r)
    BY <2>1 DEF AcquireSubject, Inv, TypeOK
  <2>2. CASE Return(r)
    BY <2>2 DEF Return
  <2> QED BY <2>1, <2>2, LockChanges
<1>2. subjectLock[s] \in Replicas \cup {NoOne}
  BY DEF Inv, TypeOK
<1> QED BY SMTT(30), <1>1, <1>2, ConstantsAssumption DEF Guarantee, Apart

\* What the replica that moves keeps and leaves alone is enough.
LEMMA MovesConsistent ==
  ASSUME Undisturbed, Inv, Consistent, NEW r \in Replicas, Moves(r), Guarantee(r), Keeps(r),
         \A q \in Replicas : cached'[q] \in {cached[q], crl'}
  PROVE  Consistent'
<1>2. ASSUME NEW q \in Replicas \ {r} PROVE SubjectAt(q)'
  <2>1. /\ pc'[q] = pc[q] /\ job'[q] = job[q] /\ Kind(q)' = Kind(q) /\ ControlAt(q) /\ HeldAt(q)
    BY Facts DEF Guarantee, Apart, Kind
  <2>2. HeldAt(q)'
    BY SMTT(30), <2>1, LocksApart DEF HeldAt
  <2>3. AskedAt(q)' /\ TargetsAt(q)'
    BY OthersKeepAsked
  <2>4. CASE pc[q] \in SubjectPoints \/ (InCRL(q) /\ Kind(q) \in SubjectOps)
    BY <2>2, <2>3, <2>4, OthersKeepSubject DEF SubjectAt
  <2>5. CASE ~(pc[q] \in SubjectPoints \/ (InCRL(q) /\ Kind(q) \in SubjectOps))
    <3>1. /\ pc'[q] \notin SubjectPoints
          /\ InCRL(q)' => Kind(q)' \notin SubjectOps
      BY <2>1, <2>5 DEF InCRL
    <3>2. ~(InCRL(q)' /\ (Renews(q) \/ Revokes(q) \/ Kind(q) = "Generate")')
      BY <3>1 DEF Renews, Revokes, SubjectOps, Issuing
    <3>3. IssuesAt(q)' /\ ReplacesAt(q)'
      BY <3>1, <3>2 DEF IssuesAt, ReplacesAt, SubjectPoints
    <3>4. pc'[q] \notin {"latest"} /\ ~((Rewrites(q)' \/ pc'[q] = "listWrite") /\ Revokes(q)')
      <4>1. pc[q] = "latest" => Revokes(q)
        BY <2>1 DEF ControlAt, Revokes
      <4>2. pc[q] = "latest" \/ Rewrites(q) \/ pc[q] = "listWrite" => InCRL(q)
        BY DEF InCRL, CRLPoints, Rewrites
      <4> QED BY <2>1, <3>2, <4>1, <4>2 DEF Rewrites, InCRL, Revokes
    <3>5. RevokesAt(q)' /\ CleansAt(q)' /\ SettledAt(q)'
      BY <3>1, <3>2, <3>4 DEF RevokesAt, CleansAt, SettledAt, SubjectPoints, Before, Revokes
    <3> QED BY <2>2, <2>3, <3>3, <3>5 DEF SubjectAt
  <2> QED BY <2>4, <2>5
<1>3. ASSUME NEW s \in Subjects, subjectLock'[s] = NoOne PROVE Settled(s)'
  <2> USE <1>3
  <2>1. CASE subjectLock[s] = r
    BY <2>1 DEF Keeps, Released
  <2>2. CASE subjectLock[s] = NoOne
    BY <2>2, OthersKept, SettledKept, ConstantsAssumption DEF Consistent
  <2> QED BY <2>1, <2>2, LocksApart
<1>4. Books'
  BY BooksKept
<1> QED BY <1>2, <1>3, <1>4 DEF Consistent, Keeps

\* The clock and the background sync leave the operations where they are.
LEMMA EnvironmentConsistent ==
  ASSUME Undisturbed, Inv, Consistent,
         UNCHANGED <<csr, cert, owner, inventory, superseded, crl, subjectLock, pc, job>>,
         \A q \in Replicas : cached'[q] \in {cached[q], crl'},
         elapsed \subseteq elapsed',
         \A q \in Replicas : Renews(q) /\ pc[q] # "gate"
           => job[q].serial \notin elapsed' \ elapsed
  PROVE  Consistent'
<1>1. \A s : /\ Of(s)' = Of(s) /\ Valid(s)' = Valid(s) /\ (Settled(s)' <=> Settled(s))
             /\ LatestSerialForSubject(s)' = LatestSerialForSubject(s)
  BY SameStore
<1>2. Books'
  BY DEF Consistent, Books
<1>3. ASSUME NEW q \in Replicas PROVE SubjectAt(q)'
  <2>1. /\ HeldAt(q) /\ AskedAt(q) /\ TargetsAt(q) /\ IssuesAt(q) /\ ReplacesAt(q)
        /\ RevokesAt(q) /\ CleansAt(q) /\ SettledAt(q)
    BY Facts
  <2>2. /\ Kind(q)' = Kind(q) /\ (Renews(q)' <=> Renews(q)) /\ (Revokes(q)' <=> Revokes(q))
        /\ (Rewrites(q)' <=> Rewrites(q)) /\ (InCRL(q)' <=> InCRL(q))
    BY DEF Kind, Renews, Revokes, Rewrites, InCRL
  <2>3. PICK s : s = job[q].subject
    OBVIOUS
  <2>4. HeldAt(q)' /\ AskedAt(q)' /\ TargetsAt(q)'
    BY <1>1, <2>1, <2>2, <2>3 DEF HeldAt, AskedAt, TargetsAt
  <2>5. IssuesAt(q)' /\ ReplacesAt(q)'
    BY <1>1, <2>1, <2>2, <2>3 DEF IssuesAt, Issued, ReplacesAt
  <2>6. RevokesAt(q)' /\ CleansAt(q)' /\ SettledAt(q)'
    BY <1>1, <2>1, <2>2, <2>3 DEF RevokesAt, CleansAt, SettledAt
  <2> QED BY <2>4, <2>5, <2>6 DEF SubjectAt
<1>4. ASSUME NEW s \in Subjects, subjectLock'[s] = NoOne PROVE Settled(s)'
  BY <1>1, <1>4 DEF Consistent
<1> QED BY <1>2, <1>3, <1>4 DEF Consistent

\* Nothing is issued and nobody works initially.
LEMMA InitConsistent ==
  ASSUME Init PROVE Consistent
<1>1. Books
  BY SMTT(30) DEF Init, Books
<1>2. \A s \in Subjects : Settled(s)
  <2>1. DOMAIN owner = {} /\ DOMAIN inventory = {}
    BY SMTT(30) DEF Init
  <2> QED BY <2>1 DEF Init, Settled, Valid, Of
<1>3. ASSUME NEW r \in Replicas PROVE SubjectAt(r)
  <2>1. /\ pc[r] = "idle" /\ job[r] = NoJob /\ \A s \in Subjects : subjectLock[s] # r
    BY ConstantsAssumption DEF Init
  <2>2. HeldAt(r) /\ AskedAt(r) /\ TargetsAt(r) /\ IssuesAt(r) /\ ReplacesAt(r)
    BY SMTT(30), <2>1 DEF HeldAt, AskedAt, TargetsAt, IssuesAt, ReplacesAt, Kind, NoJob, Renews, Rewrites,
       InCRL, CRLPoints
  <2>3. RevokesAt(r) /\ CleansAt(r) /\ SettledAt(r)
    BY <2>1 DEF RevokesAt, CleansAt, SettledAt, Before, Kind, NoJob, Revokes, Rewrites, InCRL,
       CRLPoints
  <2> QED BY <2>2, <2>3 DEF SubjectAt
<1> QED BY <1>1, <1>2, <1>3 DEF Consistent

-----------------------------------------------------------------------------
(* The same while the operation renews, issues and revokes *)

\* Renewals.
LEMMA RenewalsKeep ==
  ASSUME Undisturbed, Inv, CRLNumberNamesContent, Consistent, NEW r \in Replicas,
         Gate(r) \/ RecheckCRL(r) \/ RecheckList(r)
  PROVE  Keeps(r)
<1>a. /\ TypeOK /\ ControlAt(r) /\ HeldAt(r) /\ AskedAt(r) /\ IssuesAt(r) /\ SettledAt(r)
      /\ job[r] \in Jobs
  BY Facts
<1>b. /\ UNCHANGED <<csr, cert, owner, inventory, crl, superseded, elapsed>>
      /\ pc[r] \in {"gate", "recheckCRL", "recheckList"}
  BY DEF Gate, RecheckCRL, RecheckList, store, time, At
<1>c. PICK s \in Subjects : s = job[r].subject /\ Kind(r) \in SubjectOps /\ Renews(r)
  BY <1>a, <1>b DEF ControlAt, SubjectPoints, Renews
<1>d. /\ Of(s)' = Of(s) /\ Valid(s)' = Valid(s) /\ (Settled(s)' <=> Settled(s))
      /\ LatestSerialForSubject(s)' = LatestSerialForSubject(s)
  BY <1>b, SameStore
<1>e. pc[r] # "gate" => Settled(s) /\ subjectLock[s] = r
  BY <1>a, <1>b, <1>c, Working DEF SubjectPoints, SettledAt, Before
<1>f. SyncFirst(r) => cached'[r].revoked = crl.revoked
  <2>1. cached[r].number \in Nat /\ crl.number \in Nat /\ cached \in [Replicas -> CRLs]
    BY <1>a DEF TypeOK, CRLs
  <2>2. cached[r].number <= crl.number /\ (cached[r].number = crl.number => cached[r] = crl)
    BY DEF CRLNumberNamesContent
  <2>3. SyncFirst(r) => cached'[r] = Newer(cached[r], crl)
    BY <2>1, Excluded DEF SyncFirst
  <2> QED BY SMTT(30), <2>1, <2>2, <2>3 DEF Newer
<1>1. ASSUME Return(r) PROVE Keeps(r)
  <2>1. \A u \in Subjects : subjectLock[u] = r => Settled(u)'
    BY <1>a, <1>b, <1>c, <1>d, <1>e DEF HeldAt, SubjectPoints, CRLPoints
  <2> QED BY <1>1, <1>a, <2>1, ReturnSubject
<1>2. ASSUME Gate(r), ~Return(r) PROVE Keeps(r)
  <2>1. /\ pc[r] = "gate" /\ pc'[r] = "wantSubject" /\ UNCHANGED <<subjectLock, job>>
        /\ job[r].serial \notin superseded
    BY <1>2, <1>a, GotoStep DEF Gate, At, locks
  <2>2. Kind(r)' = Kind(r) /\ Renews(r)' /\ Kind(r) # "Refresh"
    BY <2>1, <1>c DEF Kind, Renews
  <2>3. HeldAt(r)' /\ Released(r)
    BY <1>a, <2>1, KeepsLocks DEF HeldAt, SubjectPoints, CRLPoints
  <2>4. AskedAt(r)'
    BY <1>a, <1>b, <1>c, <1>d, <2>1, <2>2 DEF AskedAt
  <2>5. TargetsAt(r)' /\ IssuesAt(r)' /\ ReplacesAt(r)' /\ RevokesAt(r)'
    BY <2>1 DEF TargetsAt, IssuesAt, ReplacesAt, RevokesAt, Rewrites, InCRL, CRLPoints
  <2>6. CleansAt(r)' /\ SettledAt(r)'
    BY <2>1 DEF CleansAt, SettledAt, InCRL, CRLPoints, Before
  <2> QED BY <2>3, <2>4, <2>5, <2>6 DEF Keeps, SubjectAt
<1>3. ASSUME RecheckCRL(r), ~Return(r) PROVE Keeps(r)
  <2>1. /\ pc[r] = "recheckCRL" /\ pc'[r] = "recheckList" /\ UNCHANGED <<subjectLock, job>>
        /\ job[r].serial \notin crl.revoked
    BY <1>3, <1>a, <1>f, GotoStep DEF RecheckCRL, At, locks
  <2>2. HeldAt(r)' /\ AskedAt(r)' /\ TargetsAt(r)' /\ RevokesAt(r)' /\ Released(r)
    BY <1>b, <1>c, <1>d, <2>1, GoesOn DEF SubjectPoints
  <2>3. IssuesAt(r)' /\ ReplacesAt(r)' /\ CleansAt(r)'
    BY <1>b, <2>1 DEF IssuesAt, ReplacesAt, CleansAt, InCRL, CRLPoints
  <2>4. SettledAt(r)'
    BY <1>c, <1>d, <1>e, <2>1 DEF SettledAt
  <2> QED BY <2>2, <2>3, <2>4 DEF Keeps, SubjectAt
<1>4. ASSUME RecheckList(r), ~Return(r) PROVE Keeps(r)
  <2> DEFINE n == job[r].serial
  <2>1. /\ pc[r] = "recheckList" /\ pc'[r] = "saveCert" /\ UNCHANGED subjectLock
        /\ n \notin superseded
        /\ job'[r] = [job[r] EXCEPT !.old = Replaced(r), !.todo = {Replaced(r)} \ {0}]
    BY <1>4, <1>a, GotoStep, LocalsStep DEF RecheckList, At, locks
  <2>2. n \notin crl.revoked /\ n \in Of(s)
    BY <1>a, <1>c, <2>1 DEF IssuesAt, AskedAt
  <2>3. /\ n # 0 /\ cert[s] = n /\ LatestSerialForSubject(s) = n /\ s \notin csr
        /\ Valid(s) \subseteq {n}
    BY <1>e, <2>1, <2>2, ZeroIsNone DEF Settled, Valid
  <2>4. Replaced(r) = n
    BY <1>c, <2>3 DEF Replaced
  <2>5. /\ job'[r].old = n /\ job'[r].todo = {n} /\ job'[r].serial = n
        /\ job'[r].kind = job[r].kind /\ job'[r].subject = job[r].subject
    BY SMTT(30), <1>a, <2>1, <2>3, <2>4 DEF Jobs
  <2>6. /\ HeldAt(r)' /\ AskedAt(r)' /\ TargetsAt(r)' /\ RevokesAt(r)' /\ Released(r)
        /\ Renews(r)'
    BY <1>b, <1>c, <1>d, <2>1, <2>5, GoesOn DEF SubjectPoints
  <2>7. IssuesAt(r)'
    BY <1>b, <1>c, <1>d, <2>1, <2>2, <2>3, <2>5, <2>6 DEF IssuesAt, InCRL, CRLPoints
  <2>8. ReplacesAt(r)'
    BY <1>b, <1>c, <1>d, <2>1, <2>2, <2>3, <2>5, <2>6 DEF ReplacesAt, InCRL, CRLPoints
  <2>9. CleansAt(r)' /\ SettledAt(r)'
    BY <2>1 DEF CleansAt, SettledAt, InCRL, CRLPoints, Before
  <2> QED BY <2>6, <2>7, <2>8, <2>9 DEF Keeps, SubjectAt
<1> QED BY <1>1, <1>2, <1>3, <1>4

\* Replacements.
LEMMA ReplacementsKeep ==
  ASSUME Undisturbed, Inv, Consistent, NEW r \in Replicas, ReplaceRead(r) \/ Evict(r)
  PROVE  Keeps(r)
<1>a. /\ TypeOK /\ ControlAt(r) /\ HeldAt(r) /\ AskedAt(r) /\ SettledAt(r) /\ job[r] \in Jobs
      /\ Books
  BY Facts
<1>b. /\ UNCHANGED <<csr, owner, inventory, crl, superseded, elapsed>>
      /\ pc[r] \in {"replaceRead", "evict"}
  BY DEF ReplaceRead, Evict, store, time, At
<1>c. PICK s \in Subjects : /\ s = job[r].subject /\ subjectLock[s] = r
                            /\ Kind(r) \in SubjectOps /\ Settled(s) /\ Kind(r) = "Generate"
  BY <1>a, <1>b, Working DEF SubjectPoints, SettledAt, Before, ControlAt, AskedAt
<1>d. /\ Of(s)' = Of(s) /\ Valid(s)' = Valid(s)
      /\ LatestSerialForSubject(s)' = LatestSerialForSubject(s)
      /\ ~Renews(r)
  BY <1>b, <1>c, SameRows DEF Valid, Renews
<1>1. ASSUME ReplaceRead(r) PROVE Keeps(r)
  <2> USE <1>1
  <2>0. UNCHANGED <<cert, subjectLock>> /\ pc[r] = "replaceRead"
    BY DEF ReplaceRead, store, locks, At
  <2>1. Settled(s)'
    BY <1>b, <1>c, <1>d, <2>0 DEF Settled
  <2>2. CASE Goto(r, "evict") /\ UNCHANGED job
    <3> USE <2>2
    <3>1. pc'[r] = "evict"
      BY <1>a, GotoStep
    <3>2. HeldAt(r)' /\ AskedAt(r)' /\ TargetsAt(r)' /\ RevokesAt(r)' /\ Released(r)
      BY <1>b, <1>c, <1>d, <2>0, <3>1, GoesOn DEF SubjectPoints
    <3>3. IssuesAt(r)' /\ ReplacesAt(r)' /\ CleansAt(r)' /\ SettledAt(r)'
      BY <1>c, <2>1, <3>1 DEF IssuesAt, ReplacesAt, CleansAt, SettledAt, InCRL, CRLPoints
    <3> QED BY <3>2, <3>3 DEF Keeps, SubjectAt
  <2>3. CASE /\ cert[s] # 0 /\ Goto(r, "wantCRL")
             /\ Locals(r, [job[r] EXCEPT !.old = cert[s], !.todo = {cert[s]}])
    <3> USE <2>3
    <3>1. /\ pc'[r] = "wantCRL"
          /\ job'[r] = [job[r] EXCEPT !.old = cert[s], !.todo = {cert[s]}]
      BY <1>a, GotoStep, LocalsStep
    <3>2. /\ job'[r].old = cert[s] /\ job'[r].todo = {cert[s]}
          /\ job'[r].kind = job[r].kind /\ job'[r].subject = job[r].subject
          /\ job'[r].serial = job[r].serial
      BY <1>a, <3>1 DEF Jobs
    <3>3. /\ HeldAt(r)' /\ AskedAt(r)' /\ TargetsAt(r)' /\ RevokesAt(r)' /\ Released(r)
          /\ ~Renews(r)' /\ Kind(r)' = "Generate"
      BY <1>b, <1>c, <1>d, <2>0, <3>1, <3>2, GoesOn
    <3>4. cert[s] \in Of(s)
      BY <1>a, <1>c, LatestOf DEF Settled
    <3>5. IssuesAt(r)' /\ ReplacesAt(r)' /\ CleansAt(r)' /\ SettledAt(r)'
      BY <1>c, <1>d, <2>1, <3>1, <3>2, <3>3, <3>4 DEF IssuesAt, ReplacesAt, CleansAt, SettledAt
    <3> QED BY <3>3, <3>5 DEF Keeps, SubjectAt
  <2> QED BY <1>c, <2>2, <2>3 DEF ReplaceRead
<1>2. ASSUME Evict(r) PROVE Keeps(r)
  <2> USE <1>2
  <2>1. CASE Return(r) /\ UNCHANGED cert
    <3> USE <2>1
    <3>1. Settled(s)'
      BY <1>b, <1>c, <1>d DEF Settled
    <3> QED BY <1>a, <1>c, <3>1, ReturnSubject DEF HeldAt
  <2>2. CASE /\ cert[s] = 0 \/ cert[s] \in cached'[r].revoked
             /\ Goto(r, "saveCert") /\ UNCHANGED <<locks, job>>
    <3> USE <2>2
    <3>1. pc'[r] = "saveCert" /\ UNCHANGED <<subjectLock, job>> /\ pc[r] = "evict"
      BY <1>a, GotoStep DEF locks, Evict, At
    <3>2. cached'[r] \in {cached[r], crl}
      BY <1>a DEF Evict, TypeOK
    <3>3. cert[s] = 0 \/ cert[s] \in crl.revoked
      BY <1>a, <3>2 DEF Books
    <3>4. Valid(s) = {}
      BY <1>c, <3>3, ZeroIsNone DEF Settled, Valid
    <3>5. /\ HeldAt(r)' /\ AskedAt(r)' /\ TargetsAt(r)' /\ RevokesAt(r)' /\ Released(r)
          /\ ~Renews(r)'
      BY <1>b, <1>c, <1>d, <3>1, GoesOn DEF SubjectPoints
    <3>6. IssuesAt(r)' /\ ReplacesAt(r)' /\ CleansAt(r)' /\ SettledAt(r)'
      BY <1>c, <1>d, <3>1, <3>4, <3>5
      DEF IssuesAt, ReplacesAt, CleansAt, SettledAt, InCRL, CRLPoints, Before
    <3> QED BY <3>5, <3>6 DEF Keeps, SubjectAt
  <2> QED BY <1>c, <2>1, <2>2 DEF Evict
<1> QED BY <1>1, <1>2

\* Issuing: saving the certificate,
LEMMA SaveCertKeeps ==
  ASSUME Undisturbed, Inv, Consistent, NEW r \in Replicas, SaveCert(r)
  PROVE  Keeps(r)
<1>a. /\ TypeOK /\ HeldAt(r) /\ IssuesAt(r) /\ ReplacesAt(r) /\ job[r] \in Jobs
  BY Facts
<1>b. /\ UNCHANGED <<csr, inventory, crl, superseded, elapsed, subjectLock>>
      /\ pc[r] = "saveCert" /\ Goto(r, "append")
  BY DEF SaveCert, time, locks, At
<1>c. PICK s \in Subjects : s = job[r].subject /\ subjectLock[s] = r /\ Kind(r) \in SubjectOps
  BY <1>b, Working DEF SubjectPoints
<1>d. PICK n : n = Len(owner) + 1
  OBVIOUS
<1>e. cert' = [cert EXCEPT ![s] = n] /\ Locals(r, [job[r] EXCEPT !.new = n])
  BY <1>c, <1>d DEF SaveCert
<1>1. /\ pc'[r] = "append" /\ cert'[s] = n
      /\ job'[r] = [job[r] EXCEPT !.new = n]
  BY <1>a, <1>b, <1>e, GotoStep, LocalsStep DEF TypeOK
<1>2. /\ job'[r].new = n /\ job'[r].old = job[r].old /\ job'[r].todo = job[r].todo
      /\ job'[r].kind = job[r].kind /\ job'[r].subject = s /\ job'[r].serial = job[r].serial
  BY <1>a, <1>1, <1>c DEF Jobs
<1>3. /\ DOMAIN owner' = DOMAIN owner \cup {n} /\ owner'[n] = s
      /\ \A i \in DOMAIN owner : i \in DOMAIN owner' /\ owner'[i] = owner[i]
  BY <1>c, <1>d, SaveCertOwner
<1>4. Of(s)' = Of(s) \cup {n} /\ Valid(s)' \subseteq Valid(s) \cup {n}
  BY <1>b, <1>3 DEF Of, Valid
<1>5. /\ HeldAt(r)' /\ AskedAt(r)' /\ TargetsAt(r)' /\ RevokesAt(r)' /\ Released(r)
      /\ Kind(r)' = Kind(r) /\ (Renews(r)' <=> Renews(r))
  BY <1>b, <1>c, <1>1, <1>2, <1>3, GoesOn DEF SubjectPoints
<1>6. Issued(r)'
  BY <1>a, <1>b, <1>c, <1>1, <1>2, <1>4, <1>5 DEF IssuesAt, Issued
<1>7. IssuesAt(r)' /\ CleansAt(r)' /\ SettledAt(r)'
  BY <1>1, <1>6 DEF IssuesAt, CleansAt, SettledAt, InCRL, CRLPoints, Before
<1>8. ReplacesAt(r)'
  BY <1>a, <1>b, <1>c, <1>1, <1>2, <1>4, <1>5 DEF ReplacesAt, InCRL, CRLPoints
<1> QED BY <1>5, <1>7, <1>8 DEF Keeps, SubjectAt

\* recording what was issued,
LEMMA AppendKeeps ==
  ASSUME Undisturbed, Inv, Consistent, NEW r \in Replicas, AppendInventory(r)
  PROVE  Keeps(r)
<1>a. /\ TypeOK /\ HeldAt(r) /\ IssuesAt(r) /\ ReplacesAt(r) /\ job[r] \in Jobs /\ Books
      /\ AskedAt(r)
  BY Facts
<1>b. /\ UNCHANGED <<csr, cert, owner, crl, superseded, elapsed>>
      /\ pc[r] = "append" /\ inventory' = Append(inventory, job[r].new) /\ AfterIssue(r)
  BY DEF AppendInventory, time, At
<1>c. PICK s \in Subjects : s = job[r].subject /\ Kind(r) \in SubjectOps
  BY <1>b, Working DEF SubjectPoints
<1>d. /\ UNCHANGED <<subjectLock, job>>
      /\ \/ Kind(r) # "AutoRenew" /\ pc'[r] = "dropCSR" /\ Kind(r) # "Clean"
         \/ Kind(r) = "AutoRenew" /\ pc'[r] = "wantCRL"
  BY <1>a, <1>b, GotoStep DEF AfterIssue, locks, Undisturbed, AskedAt
<1>1. Of(s)' = Of(s) /\ Valid(s)' = Valid(s) /\ cert'[s] = cert[s]
  BY <1>b DEF Of, Valid
<1>2. /\ job[r].new \in Of(s) /\ cert[s] = job[r].new
      /\ Valid(s) \subseteq {job[r].new} \cup (IF Renews(r) THEN {job[r].old} ELSE {})
  BY <1>a, <1>b, <1>c DEF IssuesAt, Issued
<1>3. LatestSerialForSubject(s)' = job[r].new
  BY <1>a, <1>b, <1>2, LatestAppended DEF Of
<1>4. /\ HeldAt(r)' /\ AskedAt(r)' /\ TargetsAt(r)' /\ RevokesAt(r)' /\ Released(r)
      /\ Kind(r)' = Kind(r) /\ (Renews(r)' <=> Renews(r))
  BY <1>b, <1>c, <1>d, GoesOn DEF SubjectPoints
<1>5. Issued(r)'
  BY <1>c, <1>d, <1>1, <1>2, <1>4 DEF Issued
<1>6. IssuesAt(r)'
  BY <1>c, <1>d, <1>3, <1>4, <1>5 DEF IssuesAt
<1>7. ReplacesAt(r)'
  BY <1>a, <1>b, <1>c, <1>d, <1>1, <1>4 DEF ReplacesAt, InCRL, CRLPoints
<1>8. CleansAt(r)' /\ SettledAt(r)'
  BY <1>d, <1>4 DEF CleansAt, SettledAt, Before, InCRL, CRLPoints
<1> QED BY <1>4, <1>6, <1>7, <1>8 DEF Keeps, SubjectAt

\* and dropping the request.
LEMMA DropCSRKeeps ==
  ASSUME Undisturbed, Inv, Consistent, NEW r \in Replicas, DropCSR(r)
  PROVE  Keeps(r)
<1>a. /\ TypeOK /\ HeldAt(r) /\ IssuesAt(r) /\ ReplacesAt(r) /\ CleansAt(r) /\ job[r] \in Jobs
  BY Facts
<1>b. /\ UNCHANGED <<cert, owner, inventory, crl, superseded, elapsed>>
      /\ pc[r] = "dropCSR" /\ csr' = csr \ {job[r].subject}
  BY Excluded DEF DropCSR, time, At
<1>c. PICK s \in Subjects : s = job[r].subject /\ subjectLock[s] = r /\ Kind(r) \in SubjectOps
  BY <1>b, Working DEF SubjectPoints
<1>d. /\ Of(s)' = Of(s) /\ Valid(s)' = Valid(s) /\ cert'[s] = cert[s] /\ s \notin csr'
      /\ LatestSerialForSubject(s)' = LatestSerialForSubject(s)
  BY <1>b, <1>c, SameRows DEF Valid
<1>e. Kind(r) # "AutoRenew" /\ (Renews(r) <=> Kind(r) = "Renew")
  BY <1>a, <1>b DEF IssuesAt, Renews
<1>f. Kind(r) # "Clean" => Issued(r) /\ LatestSerialForSubject(s) = job[r].new
  BY <1>a, <1>b, <1>c DEF IssuesAt
<1>1. CASE Kind(r) = "Renew" /\ Goto(r, "wantCRL") /\ UNCHANGED <<locks, job>>
  <2> USE <1>1
  <2>1. pc'[r] = "wantCRL" /\ UNCHANGED <<subjectLock, job>>
    BY <1>a, GotoStep DEF locks
  <2>2. /\ HeldAt(r)' /\ AskedAt(r)' /\ TargetsAt(r)' /\ RevokesAt(r)' /\ Released(r)
        /\ Kind(r)' = Kind(r) /\ (Renews(r)' <=> Renews(r))
    BY <1>b, <1>c, <2>1, GoesOn
  <2>3. Issued(r)' /\ IssuesAt(r)'
    BY <1>c, <1>d, <1>f, <2>1, <2>2 DEF Issued, IssuesAt
  <2>4. ReplacesAt(r)'
    BY <1>a, <1>b, <1>c, <1>d, <1>e, <2>1, <2>2 DEF ReplacesAt
  <2>5. CleansAt(r)' /\ SettledAt(r)'
    BY <2>1, <2>2 DEF CleansAt, SettledAt, Before
  <2> QED BY <2>2, <2>3, <2>4, <2>5 DEF Keeps, SubjectAt
<1>2. CASE ~(Kind(r) = "Renew" /\ job[r].old # 0) /\ Return(r)
  <2> USE <1>2
  <2>1. ~Renews(r)
    BY <1>a, <1>b, <1>c, <1>e, ZeroIsNone DEF ReplacesAt
  <2>2. CASE Kind(r) = "Clean"
    <3>1. Settled(s)'
      BY <1>a, <1>b, <1>c, <1>d, <2>2 DEF CleansAt, Settled
    <3> QED BY <1>a, <1>c, <3>1, ReturnSubject DEF HeldAt
  <2>3. CASE Kind(r) # "Clean"
    <3>1. Settled(s)'
      BY <1>c, <1>d, <1>f, <2>1, <2>3 DEF Issued, Settled
    <3> QED BY <1>a, <1>c, <3>1, ReturnSubject DEF HeldAt
  <2> QED BY <2>2, <2>3
<1> QED BY <1>1, <1>2 DEF DropCSR

\* Clean, outside the CRL lock.
LEMMA CleansKeep ==
  ASSUME Undisturbed, Inv, Consistent, NEW r \in Replicas, CleanRead(r) \/ CleanDelete(r)
  PROVE  Keeps(r)
<1>a. /\ TypeOK /\ ControlAt(r) /\ HeldAt(r) /\ CleansAt(r) /\ SettledAt(r) /\ job[r] \in Jobs
  BY Facts
<1>b. /\ UNCHANGED <<csr, owner, inventory, crl, superseded, elapsed>>
      /\ pc[r] \in {"cleanRead", "cleanDelete"}
  BY DEF CleanRead, CleanDelete, store, time, At
<1>c. PICK s \in Subjects : /\ s = job[r].subject /\ subjectLock[s] = r
                            /\ Kind(r) \in SubjectOps /\ Settled(s) /\ Kind(r) = "Clean"
  BY <1>a, <1>b, Working DEF SubjectPoints, SettledAt, Before, ControlAt
<1>d. /\ Of(s)' = Of(s) /\ Valid(s)' = Valid(s) /\ ~Renews(r)
      /\ LatestSerialForSubject(s)' = LatestSerialForSubject(s)
  BY <1>b, <1>c, SameRows DEF Valid, Renews
<1>1. ASSUME UNCHANGED <<subjectLock, job>>,
             \/ pc'[r] = "dropCSR" /\ cert'[s] = 0 /\ Valid(s) = {}
             \/ pc'[r] = "wantCRL" /\ cert'[s] # 0 /\ Settled(s)'
      PROVE  Keeps(r)
  <2> USE <1>1
  <2>1. /\ HeldAt(r)' /\ AskedAt(r)' /\ TargetsAt(r)' /\ RevokesAt(r)' /\ Released(r)
        /\ Kind(r)' = "Clean" /\ ~Renews(r)'
    BY <1>b, <1>c, <1>d, GoesOn DEF SubjectPoints
  <2>2. IssuesAt(r)' /\ ReplacesAt(r)'
    BY <2>1 DEF IssuesAt, ReplacesAt
  <2>3. CleansAt(r)' /\ SettledAt(r)'
    BY <1>c, <1>d, <2>1 DEF CleansAt, SettledAt, InCRL, Rewrites, CRLPoints, Before
  <2> QED BY <2>1, <2>2, <2>3 DEF Keeps, SubjectAt
<1>2. ASSUME CleanRead(r) PROVE Keeps(r)
  <2> USE <1>2
  <2>1. UNCHANGED cert
    BY DEF CleanRead, store
  <2>2. Settled(s)'
    BY <1>b, <1>c, <1>d, <2>1 DEF Settled
  <2>3. CASE Return(r)
    BY <2>3, <1>a, <1>c, <2>2, ReturnSubject DEF HeldAt
  <2>4. CASE ~Return(r)
    <3>1. /\ UNCHANGED <<subjectLock, job>>
          /\ \/ pc'[r] = "dropCSR" /\ cert[s] = 0
             \/ pc'[r] = "wantCRL" /\ cert[s] # 0
      BY <1>a, <1>c, <2>4, GotoStep DEF CleanRead, locks
    <3>2. cert[s] = 0 => Valid(s) = {}
      BY <1>c, ZeroIsNone DEF Settled
    <3> QED BY <1>1, <2>1, <2>2, <3>1, <3>2
  <2> QED BY <2>3, <2>4
<1>3. ASSUME CleanDelete(r) PROVE Keeps(r)
  <2>1. /\ UNCHANGED <<subjectLock, job>> /\ cert' = [cert EXCEPT ![s] = 0]
        /\ pc[r] = "cleanDelete" /\ pc'[r] = "dropCSR"
    BY <1>3, <1>a, <1>c, Excluded, GotoStep DEF CleanDelete, locks, At
  <2>2. cert'[s] = 0
    BY <1>a, <2>1 DEF TypeOK
  <2>3. Valid(s) = {}
    BY <1>a, <1>c, <2>1 DEF CleansAt, Valid
  <2> QED BY <1>1, <2>1, <2>2, <2>3
<1> QED BY <1>2, <1>3

\* Who is to be revoked.
LEMMA TargetsKeep ==
  ASSUME Undisturbed, Inv, Consistent, NEW r \in Replicas,
         RetireRead(r) \/ Latest(r) \/ SweepRead(r)
  PROVE  Keeps(r)
<1>a. /\ TypeOK /\ ControlAt(r) /\ HeldAt(r) /\ AskedAt(r) /\ CleansAt(r) /\ RevokesAt(r)
      /\ SettledAt(r) /\ job[r] \in Jobs /\ Books
  BY Facts
<1>b. /\ UNCHANGED <<csr, cert, owner, inventory, crl, superseded, elapsed>>
      /\ pc[r] \in {"retireRead", "latest", "sweepRead"}
  BY DEF RetireRead, Latest, SweepRead, store, time, At
<1>1. ASSUME RetireRead(r) \/ Latest(r) PROVE Keeps(r)
  <2> USE <1>1
  <2>1. pc[r] \in {"retireRead", "latest"} /\ Revokes(r) /\ InCRL(r) /\ pc[r] \in CRLPoints
    BY <1>a DEF RetireRead, Latest, At, ControlAt, Revokes, InCRL, CRLPoints
  <2>2. PICK s \in Subjects : /\ s = job[r].subject /\ subjectLock[s] = r /\ Settled(s)
                              /\ Kind(r) \in SubjectOps
    BY <1>a, <2>1, Working DEF SettledAt, Revokes, SubjectOps, Issuing
  <2>3. /\ Of(s)' = Of(s) /\ Valid(s)' = Valid(s) /\ Settled(s)'
        /\ LatestSerialForSubject(s)' = LatestSerialForSubject(s)
    BY <1>b, <2>2, SameStore
  <2>4. ASSUME pc'[r] \in {"latest", "crlRead"}, UNCHANGED locks,
               job'[r].kind = job[r].kind, job'[r].subject = s,
               job'[r].serial = job[r].serial, job'[r].todo \subseteq Of(s),
               pc'[r] = "crlRead" /\ job'[r].stage = "retire"
                 => superseded \cap Of(s) \subseteq job'[r].todo,
               pc'[r] = "latest" \/ job'[r].stage = "own" => superseded \cap Of(s) = {},
               pc'[r] = "crlRead" /\ job'[r].stage = "own"
                 => job'[r].todo = {LatestSerialForSubject(s)}
        PROVE  Keeps(r)
    <3> USE <2>4
    <3>1. HeldAt(r)' /\ Released(r)
      BY <1>a, <2>2, StaySubject, KeepsLocks DEF locks, CRLPoints
    <3>2. /\ Kind(r)' = Kind(r) /\ Kind(r) \in {"Revoke", "Clean"} /\ ~Renews(r)' /\ InCRL(r)'
      BY <2>1 DEF Kind, Renews, Revokes, InCRL, CRLPoints
    <3>3. AskedAt(r)' /\ TargetsAt(r)'
      BY <1>a, <2>3, <3>2 DEF AskedAt, TargetsAt
    <3>4. IssuesAt(r)' /\ ReplacesAt(r)'
      BY <3>2 DEF IssuesAt, ReplacesAt
    <3>5. RevokesAt(r)'
      BY <1>b, <2>3 DEF RevokesAt, Rewrites
    <3>6. Kind(r) = "Clean" => cert[s] # 0 /\ cert[s] = LatestSerialForSubject(s)
      BY <1>a, <2>1, <2>2 DEF CleansAt, Settled
    <3>7. CleansAt(r)'
      BY <1>b, <3>2, <3>6 DEF CleansAt, Rewrites
    <3>8. SettledAt(r)'
      BY <2>3 DEF SettledAt
    <3> QED BY <3>1, <3>3, <3>4, <3>5, <3>7, <3>8 DEF Keeps, SubjectAt
  <2>5. CASE RetireRead(r)
    <3> DEFINE mine == {n \in superseded : owner[n] = s}
    <3>1. mine = superseded \cap Of(s)
      BY <1>a DEF Books, Of
    <3>2. /\ job'[r] = [job[r] EXCEPT !.list = superseded, !.todo = mine, !.stage = "retire"]
          /\ pc'[r] = IF mine = {} THEN "latest" ELSE "crlRead"
          /\ UNCHANGED locks
      BY SMTT(30), <2>5, <2>2, <1>a, GotoStep, LocalsStep DEF RetireRead
    <3>3. /\ job'[r].todo = mine /\ job'[r].stage = "retire" /\ job'[r].kind = job[r].kind
          /\ job'[r].subject = job[r].subject /\ job'[r].serial = job[r].serial
      BY <3>2, <1>a DEF Jobs
    <3> QED BY <2>2, <2>4, <3>1, <3>2, <3>3
  <2>6. CASE Latest(r)
    <3> USE <2>6
    <3>0. superseded \cap Of(s) = {} /\ pc[r] = "latest"
      BY <2>2, <1>a DEF RevokesAt, Latest, At
    <3>1. CASE LatestSerialForSubject(s) = 0 /\ RevokeEnds(r)
      <4> USE <3>1
      <4>1. Kind(r) # "Clean"
        BY <1>a, <2>1, <2>2 DEF CleansAt, Settled
      <4>2. Return(r)
        BY <4>1 DEF RevokeEnds
      <4> QED BY <1>a, <2>2, <2>3, <4>2, ReturnSubject DEF HeldAt
    <3>2. CASE /\ LatestSerialForSubject(s) # 0 /\ Goto(r, "crlRead") /\ UNCHANGED locks
               /\ Locals(r, [job[r] EXCEPT !.old = LatestSerialForSubject(s),
                                           !.todo = {LatestSerialForSubject(s)}, !.stage = "own"])
      <4> USE <3>2
      <4>1. /\ job'[r] = [job[r] EXCEPT !.old = LatestSerialForSubject(s),
                                        !.todo = {LatestSerialForSubject(s)}, !.stage = "own"]
            /\ pc'[r] = "crlRead" /\ UNCHANGED locks
        BY <1>a, GotoStep, LocalsStep
      <4>2. /\ job'[r].todo = {LatestSerialForSubject(s)} /\ job'[r].stage = "own"
            /\ job'[r].kind = job[r].kind
            /\ job'[r].subject = job[r].subject /\ job'[r].serial = job[r].serial
        BY <4>1, <1>a DEF Jobs
      <4>3. LatestSerialForSubject(s) \in Of(s)
        BY <1>a, LatestOf
      <4> QED BY <2>2, <2>4, <3>0, <4>1, <4>2, <4>3
    <3> QED BY <2>2, <3>1, <3>2 DEF Latest
  <2> QED BY <2>5, <2>6
<1>2. ASSUME SweepRead(r) PROVE Keeps(r)
  <2> USE <1>2
  <2>1. pc[r] = "sweepRead" /\ Kind(r) = "Sweep"
    BY <1>a DEF SweepRead, At, ControlAt
  <2>2. \A s \in Subjects : subjectLock[s] # r
    BY <1>a, <2>1 DEF HeldAt, SubjectOps, Issuing
  <2>3. CASE Return(r)
    BY <2>2, <2>3, <1>a, ReturnSubject
  <2>4. CASE ~Return(r)
    <3>1. /\ job'[r] = [job[r] EXCEPT !.list = superseded, !.todo = superseded \cap elapsed]
          /\ pc'[r] = "crlRead" /\ UNCHANGED locks
      BY <2>4, <1>a, GotoStep, LocalsStep DEF SweepRead
    <3>2. /\ job'[r].todo = superseded \cap elapsed /\ job'[r].kind = job[r].kind
          /\ job'[r].subject = job[r].subject
      BY <3>1, <1>a DEF Jobs
    <3>3. HeldAt(r)' /\ Released(r)
      BY <2>2, <3>1, ConstantsAssumption DEF HeldAt, Released, locks
    <3>4. Kind(r)' = "Sweep"
      BY <2>1, <3>2 DEF Kind
    <3>5. AskedAt(r)' /\ TargetsAt(r)' /\ IssuesAt(r)' /\ ReplacesAt(r)'
      BY <1>b, <3>1, <3>2, <3>4 DEF AskedAt, TargetsAt, IssuesAt, ReplacesAt, Renews, Revokes
    <3>6. RevokesAt(r)' /\ CleansAt(r)' /\ SettledAt(r)'
      BY <3>1, <3>4 DEF RevokesAt, CleansAt, SettledAt, Before, Revokes
    <3> QED BY <3>3, <3>5, <3>6 DEF Keeps, SubjectAt
  <2> QED BY <2>3, <2>4
<1> QED BY <1>1, <1>2
=============================================================================
