------------------------ MODULE CertLifecycleProofs -------------------------
(***************************************************************************)
(* The theorems about CertLifecycle: the two inductive invariants, Own     *)
(* (CertLifecycleOwn) and, where Undisturbed holds, Consistent             *)
(* (CertLifecycleSubjects), and what follows from them.                    *)
(*                                                                         *)
(* Then admission: whom a CRL bars is not served.                          *)
(***************************************************************************)
EXTENDS CertLifecycleOwn, CertLifecycleSubjects, WellFoundedInduction

\* Zenon proves what names no other prover.
USE ZenonT(60)

-----------------------------------------------------------------------------
(* Whatever fails *)

\* It holds initially: no replica runs anything.
LEMMA InitInv == Init => Inv
<1> SUFFICES ASSUME Init PROVE Inv
  OBVIOUS
<1>1. EmptyCRL \in CRLs
  BY DEF EmptyCRL, CRLs
<1>2. TypeOK
  BY SMTT(30), <1>1, NoJobType, ConstantsAssumption DEF Init, TypeOK, Points
<1>3. ASSUME NEW r \in Replicas PROVE OwnAt(r)
  <2>1. pc[r] = "idle" /\ job[r] = NoJob
    BY DEF Init
  <2>2. ControlAt(r)
    BY SMTT(30), <2>1 DEF ControlAt, Kind, NoJob, SubjectPoints, CRLPoints, SubjectOps, Issuing
  <2>3. MutexAt(r)
    BY <2>1 DEF MutexAt, SubjectPoints, CRLPoints
  <2>4. SnapshotAt(r)
    BY <2>1 DEF SnapshotAt, At, CRLPoints
  <2>5. DoneAt(r) /\ PendingAt(r)
    BY SMTT(30), <2>1 DEF DoneAt, PendingAt, Kind, NoJob, At, CRLPoints, SubjectOps, Issuing
  <2> QED BY <2>2, <2>3, <2>4, <2>5 DEF OwnAt
<1> QED BY <1>2, <1>3 DEF Inv, Own

\* The inductive invariant holds in every reachable state.
THEOREM Invariance == Spec => []Inv
<1>1. Inv /\ [Next]_vars => Inv'
  <2> SUFFICES ASSUME Inv, [Next]_vars PROVE Inv'
    OBVIOUS
  <2>1. Control
    BY DEF Inv, Own, OwnAt, Control
  <2> QED BY <2>1, TypeStep, OwnPreserved DEF Inv
<1> QED BY <1>1, InitInv, PTL DEF Spec

\* Every variable keeps its type, whatever the replicas do, crash or fail at.
THEOREM TypeCorrectness == Spec => []TypeOK
<1>1. Inv => TypeOK
  BY DEF Inv
<1> QED BY <1>1, Invariance, PTL

\* What a replica read under the CRL lock, the CRL and the superseded list, is
\* what is stored when it writes it back: for any number of replicas, subjects,
\* operations and failures.
THEOREM CRLReadModifyWrite == Spec => []SnapshotsAreCurrent
<1>1. Inv => SnapshotsAreCurrent
  BY DEF Inv, Own, OwnAt, SnapshotAt, SnapshotsAreCurrent
<1> QED BY <1>1, Invariance, PTL

\* A request is pending as long as it is being signed, so DeleteRequest never
\* acknowledges the rejection of a request that is signed all the same.
THEOREM NoRejectedRequestSigned == Spec => []SignsOnlyPendingRequests
<1>1. Inv => SignsOnlyPendingRequests
  BY DEF Inv, Own, OwnAt, PendingAt, SignsOnlyPendingRequests
<1> QED BY <1>1, Invariance, PTL

\* Neither the clock nor the background sync writes shared storage.
LEMMA OnlyMovesWrite ==
  ASSUME [Next]_vars
  PROVE  \/ \E r \in Replicas : Moves(r)
         \/ UNCHANGED <<crl, superseded>>
<1>1. ASSUME NEW r \in Replicas, Sync(r) PROVE UNCHANGED <<crl, superseded>>
  BY <1>1 DEF Sync, store
<1>2. ASSUME NEW n \in DOMAIN owner, Elapse(n) \/ Expire(n)
      PROVE  UNCHANGED <<crl, superseded>>
  BY <1>2 DEF Elapse, Expire, store
<1>3. ASSUME UNCHANGED vars PROVE UNCHANGED <<crl, superseded>>
  BY <1>3 DEF vars, store
<1> QED BY <1>1, <1>2, <1>3 DEF Next, Finished, Moves

\* The list about to be signed differs from the stored one by the batch: added,
\* or for the cleanup (whose batch has expired) taken off; the number is the
\* next one.
LEMMA Resigned ==
  ASSUME Inv, NEW r \in Replicas, At(r, "crlWrite"), NEW batch \in Batches(r),
         crl' = NextCRL(r, batch)
  PROVE  /\ crl'.number = crl.number + 1
         /\ crl.revoked \ crl'.revoked \subseteq expired
<1>1. /\ job[r].view = crl
      /\ Kind(r) = "Cleanup" => job[r].todo \subseteq expired
  BY DEF Inv, Own, OwnAt, SnapshotAt, DoneAt, At
<1>2. Kind(r) = "Cleanup" => batch \subseteq expired
  BY <1>1 DEF Batches
<1> QED BY <1>1, <1>2 DEF NextCRL, Entries

\* Whoever rewrites the stored CRL gives it the next number and drops no entry
\* but an expired one.
LEMMA CRLStep ==
  ASSUME Inv, [Next]_vars, crl' # crl
  PROVE  /\ crl'.number = crl.number + 1
         /\ crl.revoked \ crl'.revoked \subseteq expired
<1>1. PICK r \in Replicas : SignCRL(r) \/ CRLFails(r)
  BY OnlyMovesWrite, SharedChanges
<1>2. PICK batch \in Batches(r) : At(r, "crlWrite") /\ crl' = NextCRL(r, batch)
  BY <1>1 DEF SignCRL, CRLFails
<1> QED BY <1>2, Resigned

\* No interleaving of operations, failures and crashes of any number of replicas
\* loses a revocation or reuses a CRL number.
THEOREM RevocationsAreKept == Spec => CRLOnlyGrows
<1>1. Inv /\ [Next]_vars
        => [/\ crl'.number = crl.number + 1
            /\ crl.revoked \ crl'.revoked \subseteq expired]_crl
  BY CRLStep
<1> QED BY <1>1, Invariance, PTL DEF Spec, CRLOnlyGrows

\* Nor does any forget a superseded certificate before it is on the CRL.
THEOREM SupersededAreKept == Spec => SupersededReachesCRL
<1>1. Inv /\ [Next]_vars
        => [superseded \ superseded' \subseteq crl.revoked]_superseded
  <2> SUFFICES ASSUME Inv, [Next]_vars, superseded' # superseded
               PROVE  superseded \ superseded' \subseteq crl.revoked
    OBVIOUS
  <2>1. PICK r \in Replicas : ListAppend(r) \/ ListWrite(r)
    BY OnlyMovesWrite, SharedChanges
  <2>2. SnapshotAt(r) /\ DoneAt(r)
    BY DEF Inv, Own, OwnAt
  <2> QED BY <2>1, <2>2 DEF ListAppend, ListWrite, SnapshotAt, DoneAt, At
<1> QED BY <1>1, Invariance, PTL DEF Spec, SupersededReachesCRL

\* A step that writes the CRL writes the next number, and a step that installs a
\* CRL in a replica's cache installs the one stored when it is done.
LEMMA CacheChanges ==
  ASSUME Inv, [Next]_vars
  PROVE  \A q \in Replicas : cached'[q] \in {cached[q], crl'}
<1>a. cached \in [Replicas -> CRLs]
  BY DEF Inv, TypeOK
<1> SUFFICES \/ UNCHANGED cached
             \/ \E r \in Replicas : /\ cached' = [cached EXCEPT ![r] = cached'[r]]
                                    /\ cached'[r] \in {cached[r], crl'}
  BY <1>a
<1>1. ASSUME NEW r \in Replicas, Call(r) \/ CallSweep(r) PROVE UNCHANGED cached
  BY <1>1 DEF Call, CallSubject, CallRenewal, CallRevokeSerial, CallBackground,
     CallSweep, Begin
<1>2. ASSUME NEW r \in Replicas,
             \/ AcquireSubject(r) \/ AcquireCRL(r) \/ Submit(r) \/ Autosign(r)
             \/ SignRequest(r) \/ DeleteRequest(r) \/ RecheckList(r)
             \/ SaveCert(r) \/ AppendInventory(r) \/ DropCSR(r) \/ CleanRead(r)
             \/ CleanDelete(r) \/ RetireRead(r)
      PROVE  UNCHANGED cached
  BY <1>2 DEF AcquireSubject, AcquireCRL, Submit, Autosign, SignRequest,
     DeleteRequest, RecheckList, SaveCert, AppendInventory, DropCSR, CleanRead,
     CleanDelete, RetireRead
<1>3. ASSUME NEW r \in Replicas,
             \/ Latest(r) \/ Check(r) \/ SweepRead(r) \/ ReadCRL(r) \/ ListRead(r)
             \/ ListAppend(r) \/ ListWrite(r) \/ Prune(r) \/ BlobRead(r)
             \/ BlobDelete(r) \/ AppendFails(r) \/ SavePrivateKeyFails(r)
             \/ CRLFails(r) \/ StepFails(r)
      PROVE  UNCHANGED cached
  BY <1>3 DEF Latest, Check, SweepRead, ReadCRL, ListRead, ListAppend, ListWrite,
     Prune, BlobRead, BlobDelete, AppendFails, SavePrivateKeyFails, CRLFails,
     StepFails
<1>4. ASSUME NEW r \in Replicas, Gate(r) \/ RecheckCRL(r)
      PROVE  /\ cached' = [cached EXCEPT ![r] = cached'[r]]
             /\ cached'[r] \in {cached[r], crl'}
  BY <1>4, <1>a DEF Gate, RecheckCRL, SyncFirst, Newer
<1>5. ASSUME NEW r \in Replicas,
             ReplaceRead(r) \/ Evict(r) \/ Sync(r) \/ HasCertFails(r) \/ Crash(r)
      PROVE  /\ cached' = [cached EXCEPT ![r] = cached'[r]]
             /\ cached'[r] \in {cached[r], crl'}
  BY <1>5, <1>a DEF ReplaceRead, Evict, Sync, HasCertFails, Crash
<1>6. ASSUME NEW r \in Replicas, KeepCRL(r)
      PROVE  /\ cached' = [cached EXCEPT ![r] = cached'[r]]
             /\ cached'[r] \in {cached[r], crl'}
  <2> USE <1>6
  <2>1. job[r].view = crl
    BY DEF Inv, Own, OwnAt, SnapshotAt, KeepCRL, At
  <2> QED BY <1>a, <2>1 DEF KeepCRL, Newer
<1>7. ASSUME NEW r \in Replicas, SignCRL(r)
      PROVE  /\ cached' = [cached EXCEPT ![r] = cached'[r]]
             /\ cached'[r] \in {cached[r], crl'}
  BY <1>7, <1>a DEF SignCRL
<1>8. ASSUME NEW n \in DOMAIN owner, Elapse(n) \/ Expire(n) PROVE UNCHANGED cached
  BY <1>8 DEF Elapse, Expire
<1>9. ASSUME UNCHANGED vars PROVE UNCHANGED cached
  BY <1>9 DEF vars
<1> QED BY <1>1, <1>2, <1>3, <1>4, <1>5, <1>6, <1>7, <1>8, <1>9
        DEF Next, Step, Failure, Finished

\* Whatever replica answers with whatever CRL it has cached, a CRL number names
\* one list of revoked serials: comparing numbers is enough to tell the newer.
THEOREM NumbersNameCRLs == Spec => []CRLNumberNamesContent
<1>1. Init => CRLNumberNamesContent
  BY SMTT(30) DEF Init, CRLNumberNamesContent, EmptyCRL
<1>2. Inv /\ CRLNumberNamesContent /\ [Next]_vars => CRLNumberNamesContent'
  <2> SUFFICES ASSUME Inv, CRLNumberNamesContent, [Next]_vars
               PROVE  CRLNumberNamesContent'
    OBVIOUS
  <2>1. crl' = crl \/ crl'.number = crl.number + 1
    BY CRLStep
  <2>2. \A q \in Replicas : cached'[q] \in {cached[q], crl'}
    BY CacheChanges
  <2>3. /\ crl.number \in Nat
        /\ \A q \in Replicas : cached[q].number \in Nat
    BY DEF Inv, TypeOK, CRLs
  <2> QED BY SMTT(30), <2>1, <2>2, <2>3 DEF CRLNumberNamesContent
<1> QED BY <1>1, <1>2, Invariance, PTL DEF Spec

-----------------------------------------------------------------------------
(* The operations on the CRL and the superseded list keep what they established *)

\* Once a batch is on the CRL.
LEMMA AfterCRLKeeps ==
  ASSUME Undisturbed, Inv, Consistent, NEW r \in Replicas, pc[r] = "crlWrite",
         NEW batch \in Batches(r), AfterCRL(r, batch, TRUE),
         crl'.revoked = crl.revoked \cup batch,
         UNCHANGED <<csr, cert, owner, inventory, superseded, elapsed>>
  PROVE  Keeps(r)
<1>a. /\ TypeOK /\ ControlAt(r) /\ HeldAt(r) /\ AskedAt(r) /\ TargetsAt(r) /\ IssuesAt(r)
      /\ ReplacesAt(r) /\ CleansAt(r) /\ RevokesAt(r) /\ SettledAt(r) /\ job[r] \in Jobs
  BY Facts
<1>b. Rewrites(r) /\ InCRL(r)
  BY DEF Rewrites, InCRL, CRLPoints
<1>c. Kind(r) \in {"Revoke", "Clean", "Renew", "AutoRenew", "Generate", "Sweep", "Refresh"}
  BY <1>a DEF ControlAt, AskedAt, CRLKinds
<1>1. CASE Kind(r) \in {"Sweep", "Refresh"}
  <2> USE <1>1
  <2>1. \A s \in Subjects : subjectLock[s] # r
    BY <1>a DEF HeldAt, SubjectOps, Issuing
  <2>2. CASE Return(r)
    BY <2>1, <2>2, <1>a, ReturnSubject
  <2>3. CASE ~Return(r)
    <3>1. /\ job'[r] = [job[r] EXCEPT !.done = batch] /\ Kind(r) = "Sweep"
          /\ pc'[r] = "listWrite" /\ UNCHANGED locks
      BY <1>a, <2>3, GotoStep, LocalsStep DEF AfterCRL, RevokeEnds, ControlAt
    <3>2. job'[r].kind = job[r].kind
      BY <3>1, <1>a DEF Jobs
    <3>3. HeldAt(r)' /\ Released(r)
      BY <2>1, <3>1, ConstantsAssumption DEF HeldAt, Released, locks
    <3>4. Kind(r)' = "Sweep"
      BY <3>1, <3>2 DEF Kind
    <3>5. AskedAt(r)' /\ TargetsAt(r)' /\ IssuesAt(r)' /\ ReplacesAt(r)'
      BY <3>1, <3>4 DEF AskedAt, TargetsAt, IssuesAt, ReplacesAt, Renews, Revokes, Rewrites
    <3>6. RevokesAt(r)' /\ CleansAt(r)' /\ SettledAt(r)'
      BY <3>1, <3>4 DEF RevokesAt, CleansAt, SettledAt, Before, Revokes, Rewrites
    <3> QED BY <3>3, <3>5, <3>6 DEF Keeps, SubjectAt
  <2> QED BY <2>2, <2>3
<1>2. CASE Kind(r) \in {"Revoke", "Clean", "Renew", "AutoRenew", "Generate"}
  <2> USE <1>2
  <2>1. PICK s \in Subjects : s = job[r].subject /\ subjectLock[s] = r /\ Kind(r) \in SubjectOps
    BY <1>b, Working DEF SubjectOps, Issuing
  <2>2. Of(s)' = Of(s) /\ LatestSerialForSubject(s)' = LatestSerialForSubject(s)
    BY SameRows
  <2>3. Valid(s)' = Valid(s) \ batch
    BY <2>2 DEF Valid
  <2>4. Settled(s) => Settled(s)'
    BY <2>2, <2>3 DEF Settled
  <2>5. PICK n \in job[r].todo : batch = {n}
    BY DEF Batches
  <2>6. CASE Renews(r)
    <3> USE <2>6
    <3>1. Return(r)
      BY <1>a DEF AfterCRL, RevokeEnds, ControlAt, Renews
    <3>2. /\ batch = {job[r].old} /\ s \notin csr /\ cert[s] = job[r].new
          /\ Valid(s) \subseteq {job[r].new, job[r].old}
          /\ LatestSerialForSubject(s) = job[r].new
      BY <1>a, <1>b, <2>1, <2>5 DEF ReplacesAt, IssuesAt, Issued
    <3>3. Settled(s)'
      BY <2>2, <2>3, <3>2 DEF Settled
    <3> QED BY <1>a, <2>1, <3>1, <3>3, ReturnSubject DEF HeldAt
  <2>7. CASE Kind(r) = "Generate"
    <3> USE <2>7
    <3>0. Settled(s)'
      BY <1>a, <1>b, <2>1, <2>4 DEF SettledAt
    <3>1. pc'[r] = "evict" /\ UNCHANGED <<subjectLock, job>>
      BY <1>a, GotoStep DEF AfterCRL, LeaveCRL, RevokeEnds, ControlAt
    <3>2. /\ HeldAt(r)' /\ AskedAt(r)' /\ TargetsAt(r)' /\ RevokesAt(r)' /\ Released(r)
      BY <2>1, <2>2, <3>1, GoesOn DEF SubjectPoints
    <3>3. IssuesAt(r)' /\ ReplacesAt(r)' /\ CleansAt(r)' /\ SettledAt(r)'
      BY <2>1, <3>0, <3>1 DEF IssuesAt, ReplacesAt, CleansAt, SettledAt, InCRL, CRLPoints
    <3> QED BY <3>2, <3>3 DEF Keeps, SubjectAt
  <2>8. CASE Revokes(r) /\ job[r].stage = "own"
    <3> USE <2>8
    <3>0. Settled(s) /\ Settled(s)'
      BY <1>a, <1>b, <2>1, <2>4 DEF SettledAt, Revokes
    <3>1. CASE Return(r)
      BY <1>a, <2>1, <3>0, <3>1, ReturnSubject DEF HeldAt
    <3>2. CASE ~Return(r)
      <4>1. Kind(r) = "Clean" /\ pc'[r] = "cleanDelete" /\ UNCHANGED <<subjectLock, job>>
        BY <1>a, <3>2, GotoStep DEF AfterCRL, LeaveCRL, RevokeEnds, Revokes
      <4>2. /\ HeldAt(r)' /\ AskedAt(r)' /\ TargetsAt(r)' /\ RevokesAt(r)' /\ Released(r)
            /\ Kind(r)' = "Clean"
        BY <2>1, <2>2, <4>1, GoesOn DEF SubjectPoints
      <4>3. superseded \cap Of(s) = {} /\ batch = {cert[s]}
        BY <1>a, <1>b, <2>1, <2>5, <4>1 DEF RevokesAt, CleansAt
      <4>4. Of(s) \subseteq crl'.revoked
        BY <3>0, <4>3 DEF Settled, Valid
      <4>5. IssuesAt(r)' /\ ReplacesAt(r)' /\ CleansAt(r)' /\ SettledAt(r)'
        BY <2>1, <2>2, <3>0, <4>1, <4>4 DEF IssuesAt, ReplacesAt, CleansAt, SettledAt, InCRL,
           CRLPoints
      <4> QED BY <4>2, <4>5 DEF Keeps, SubjectAt
    <3> QED BY <3>1, <3>2
  <2>9. CASE Revokes(r) /\ job[r].stage = "retire"
    <3> USE <2>9
    <3>0. Settled(s)'
      BY <1>a, <1>b, <2>1, <2>4 DEF SettledAt, Revokes
    <3>1. /\ job'[r] = [job[r] EXCEPT !.todo = job[r].todo \ batch, !.done = job[r].done \cup batch]
          /\ pc'[r] = IF job[r].todo \subseteq batch THEN "listWrite" ELSE "crlRead"
          /\ UNCHANGED locks
      BY <1>a, GotoStep, LocalsStep DEF AfterCRL, Revokes
    <3>2. /\ job'[r].todo = job[r].todo \ batch /\ job'[r].done = job[r].done \cup batch
          /\ job'[r].kind = job[r].kind /\ job'[r].stage = "retire"
          /\ job'[r].subject = job[r].subject /\ job'[r].serial = job[r].serial
      BY <3>1, <1>a DEF Jobs
    <3>3. HeldAt(r)' /\ Released(r)
      BY <1>a, <3>1, <3>2, StaySubject, KeepsLocks DEF locks, CRLPoints
    <3>4. Kind(r)' = Kind(r) /\ Kind(r) \in {"Revoke", "Clean"} /\ ~Renews(r)' /\ InCRL(r)'
      BY <3>1, <3>2 DEF Kind, Renews, Revokes, InCRL, CRLPoints
    <3>5. job[r].todo \subseteq Of(s)
          /\ superseded \cap Of(s) \subseteq job[r].todo \cup job[r].done
      BY <1>a, <1>b, <2>1 DEF TargetsAt, RevokesAt
    <3>6. AskedAt(r)' /\ TargetsAt(r)'
      BY SMTT(30), <1>a, <2>1, <2>2, <3>1, <3>2, <3>4, <3>5 DEF AskedAt, TargetsAt
    <3>7. IssuesAt(r)' /\ ReplacesAt(r)'
      BY <3>1, <3>4 DEF IssuesAt, ReplacesAt
    <3>8. RevokesAt(r)'
      BY <2>1, <2>2, <3>1, <3>2, <3>5 DEF RevokesAt, Rewrites
    <3>9. CleansAt(r)' /\ SettledAt(r)'
      BY <1>a, <1>b, <2>1, <3>0, <3>1, <3>2, <3>4 DEF CleansAt, SettledAt
    <3> QED BY <3>3, <3>6, <3>7, <3>8, <3>9 DEF Keeps, SubjectAt
  <2>10. job[r].stage \in {"own", "retire"}
    BY <1>a DEF Jobs
  <2> QED BY <2>6, <2>7, <2>8, <2>9, <2>10 DEF Renews, Revokes
<1> QED BY <1>c, <1>1, <1>2

\* Reading, re-signing and writing the CRL.
LEMMA ResigningsKeep ==
  ASSUME Undisturbed, Inv, Consistent, NEW r \in Replicas,
         ReadCRL(r) \/ KeepCRL(r) \/ SignCRL(r)
  PROVE  Keeps(r)
<1>1. ASSUME ReadCRL(r) PROVE Keeps(r)
  <2>a. /\ TypeOK /\ HeldAt(r) /\ AskedAt(r) /\ TargetsAt(r) /\ IssuesAt(r)
        /\ ReplacesAt(r) /\ CleansAt(r) /\ RevokesAt(r) /\ SettledAt(r) /\ job[r] \in Jobs
    BY Facts
  <2>1. /\ UNCHANGED <<csr, cert, owner, inventory, crl, superseded, elapsed, subjectLock>>
        /\ pc[r] = "crlRead" /\ pc'[r] = "crlWrite"
        /\ job'[r] = [job[r] EXCEPT !.view = crl]
    BY <1>1, <2>a, GotoStep, LocalsStep DEF ReadCRL, store, time, locks, At
  <2>2. /\ job'[r].kind = job[r].kind /\ job'[r].subject = job[r].subject
        /\ job'[r].serial = job[r].serial /\ job'[r].new = job[r].new
        /\ job'[r].old = job[r].old /\ job'[r].todo = job[r].todo
        /\ job'[r].done = job[r].done /\ job'[r].stage = job[r].stage
    BY <2>1, <2>a DEF Jobs
  <2>3. PICK s : s = job[r].subject
    OBVIOUS
  <2>4. /\ Of(s)' = Of(s) /\ Valid(s)' = Valid(s) /\ (Settled(s)' <=> Settled(s))
        /\ LatestSerialForSubject(s)' = LatestSerialForSubject(s)
    BY <2>1, SameStore
  <2>5. /\ Kind(r)' = Kind(r) /\ (Renews(r)' <=> Renews(r)) /\ (Revokes(r)' <=> Revokes(r))
        /\ Rewrites(r) /\ Rewrites(r)' /\ InCRL(r) /\ InCRL(r)'
    BY <2>1, <2>2 DEF Kind, Renews, Revokes, Rewrites, InCRL, CRLPoints
  <2>6. HeldAt(r)' /\ Released(r)
    BY <2>a, <2>1, <2>2, StaySubject, KeepsLocks DEF CRLPoints
  <2>7. AskedAt(r)' /\ TargetsAt(r)'
    BY <2>a, <2>1, <2>2, <2>3, <2>4, <2>5 DEF AskedAt, TargetsAt
  <2>8. IssuesAt(r)'
    BY <2>a, <2>1, <2>2, <2>3, <2>4, <2>5 DEF IssuesAt, Issued
  <2>9. ReplacesAt(r)' /\ RevokesAt(r)'
    BY <2>a, <2>1, <2>2, <2>3, <2>4, <2>5 DEF ReplacesAt, RevokesAt
  <2>10. CleansAt(r)' /\ SettledAt(r)'
    BY <2>a, <2>1, <2>2, <2>3, <2>4, <2>5 DEF CleansAt, SettledAt, Before
  <2> QED BY <2>6, <2>7, <2>8, <2>9, <2>10 DEF Keeps, SubjectAt
<1>2. ASSUME KeepCRL(r) PROVE Keeps(r)
  <2> USE <1>2
  <2>1. PICK batch \in Batches(r) :
          Entries(r, batch) = job[r].view.revoked /\ AfterCRL(r, batch, TRUE)
    BY DEF KeepCRL
  <2>2. At(r, "crlWrite") /\ UNCHANGED <<csr, cert, owner, inventory, superseded, elapsed, crl>>
    BY DEF KeepCRL, store, time
  <2>3. crl'.revoked = crl.revoked \cup batch
    BY <2>1, <2>2, BatchTargets
  <2> QED BY <2>1, <2>2, <2>3, AfterCRLKeeps DEF At
<1>3. ASSUME SignCRL(r) PROVE Keeps(r)
  <2> USE <1>3
  <2>1. PICK batch \in Batches(r) : crl' = NextCRL(r, batch) /\ AfterCRL(r, batch, TRUE)
    BY DEF SignCRL
  <2>2. At(r, "crlWrite") /\ UNCHANGED <<csr, cert, owner, inventory, superseded, elapsed>>
    BY DEF SignCRL, store, time
  <2>3. crl'.revoked = crl.revoked \cup batch
    BY <2>1, <2>2, BatchTargets
  <2> QED BY <2>1, <2>2, <2>3, AfterCRLKeeps DEF At
<1> QED BY <1>1, <1>2, <1>3

\* The superseded list.
LEMMA ListsKeep ==
  ASSUME Undisturbed, Inv, Consistent, NEW r \in Replicas,
         ListRead(r) \/ ListAppend(r) \/ ListWrite(r)
  PROVE  Keeps(r)
<1>a. /\ TypeOK /\ ControlAt(r) /\ HeldAt(r) /\ AskedAt(r) /\ IssuesAt(r)
      /\ ReplacesAt(r) /\ CleansAt(r) /\ RevokesAt(r) /\ SettledAt(r) /\ job[r] \in Jobs
  BY Facts
<1>b. /\ UNCHANGED <<csr, cert, owner, inventory, crl>>
      /\ pc[r] \in {"listRead", "listAppend", "listWrite"}
  BY DEF ListRead, ListAppend, ListWrite, store, At
<1>c. InCRL(r) /\ pc[r] \in CRLPoints
  BY <1>b DEF InCRL, CRLPoints
<1>1. ASSUME ListRead(r) PROVE Keeps(r)
  <2>1. /\ UNCHANGED <<superseded, elapsed, subjectLock>>
        /\ pc[r] = "listRead" /\ pc'[r] = "listAppend"
        /\ job'[r] = [job[r] EXCEPT !.list = superseded]
    BY <1>1, <1>a, GotoStep, LocalsStep DEF ListRead, store, time, locks, At
  <2>2. /\ job'[r].kind = job[r].kind /\ job'[r].subject = job[r].subject
        /\ job'[r].serial = job[r].serial /\ job'[r].new = job[r].new
        /\ job'[r].old = job[r].old /\ job'[r].todo = job[r].todo
    BY <2>1, <1>a DEF Jobs
  <2>3. PICK s : s = job[r].subject
    OBVIOUS
  <2>4. /\ Of(s)' = Of(s) /\ Valid(s)' = Valid(s)
        /\ LatestSerialForSubject(s)' = LatestSerialForSubject(s)
    BY <1>b, <2>1, SameStore
  <2>5. Kind(r)' = Kind(r) /\ Renews(r) /\ Renews(r)' /\ InCRL(r)'
    BY <1>a, <2>1, <2>2 DEF ControlAt, Kind, Renews, InCRL, CRLPoints
  <2>6. HeldAt(r)' /\ Released(r)
    BY <1>a, <2>1, <2>2, StaySubject, KeepsLocks DEF CRLPoints
  <2>7. AskedAt(r)' /\ TargetsAt(r)'
    BY <1>a, <2>1, <2>2, <2>3, <2>4, <2>5 DEF AskedAt, TargetsAt, Rewrites
  <2>8. IssuesAt(r)' /\ ReplacesAt(r)'
    BY SMTT(30), <1>a, <1>b, <1>c, <2>1, <2>2, <2>3, <2>4, <2>5 DEF IssuesAt, Issued, ReplacesAt
  <2>9. RevokesAt(r)' /\ CleansAt(r)' /\ SettledAt(r)'
    BY <2>1, <2>5 DEF RevokesAt, CleansAt, SettledAt, Before, Revokes, Rewrites, Renews
  <2> QED BY <2>6, <2>7, <2>8, <2>9 DEF Keeps, SubjectAt
<1>2. ASSUME ListAppend(r) PROVE Keeps(r)
  <2> USE <1>2
  <2>1. Renews(r) /\ Return(r)
    BY <1>a DEF ListAppend, At, ControlAt, Renews
  <2>2. PICK s \in Subjects : s = job[r].subject
    BY <1>c, <2>1, Working DEF Renews, SubjectOps, Issuing
  <2>3. /\ superseded' = superseded \cup {job[r].old} /\ s \notin csr /\ cert[s] = job[r].new
        /\ Valid(s) \subseteq {job[r].new, job[r].old}
        /\ LatestSerialForSubject(s) = job[r].new
    BY <1>a, <1>c, <2>1, <2>2, ListTargets DEF ReplacesAt, IssuesAt, Issued
  <2>4. Of(s)' = Of(s) /\ LatestSerialForSubject(s)' = LatestSerialForSubject(s)
    BY <1>b, SameRows
  <2>5. Valid(s)' \subseteq Valid(s) \ {job[r].old}
    BY <1>b, <2>3, <2>4 DEF Valid
  <2>6. Settled(s)'
    BY <1>b, <2>3, <2>4, <2>5 DEF Settled
  <2> QED BY <1>a, <2>1, <2>2, <2>6, ReturnSubject DEF HeldAt
<1>3. ASSUME ListWrite(r) PROVE Keeps(r)
  <2> USE <1>3
  <2>0. /\ superseded' = superseded \ job[r].done /\ job[r].done \subseteq crl.revoked
        /\ UNCHANGED elapsed /\ pc[r] = "listWrite"
    BY ListTargets DEF ListWrite, time, At
  <2>1. CASE Kind(r) = "Sweep"
    <3>1. Return(r) /\ \A s \in Subjects : subjectLock[s] # r
      BY <1>a, <2>1 DEF ListWrite, HeldAt, SubjectOps, Issuing
    <3> QED BY <1>a, <3>1, ReturnSubject
  <2>2. CASE Kind(r) # "Sweep"
    <3>1. /\ Kind(r) \in {"Revoke", "Clean"} /\ pc'[r] = "latest"
          /\ UNCHANGED <<subjectLock, job>>
      BY <1>a, <2>0, <2>2, GotoStep DEF ListWrite, ControlAt, locks
    <3>2. PICK s \in Subjects : s = job[r].subject /\ Settled(s)
      BY <1>a, <1>c, <3>1, Working DEF SettledAt, SubjectOps, Issuing
    <3>3. Of(s)' = Of(s) /\ LatestSerialForSubject(s)' = LatestSerialForSubject(s)
      BY <1>b, SameRows
    <3>4. Valid(s)' \subseteq Valid(s) /\ superseded' \cap Of(s)' = {}
      BY <1>a, <1>b, <2>0, <3>1, <3>2, <3>3 DEF Valid, RevokesAt, Revokes
    <3>5. Settled(s)'
      BY <1>b, <3>2, <3>3, <3>4 DEF Settled
    <3>6. HeldAt(r)' /\ Released(r)
      BY <1>a, <3>1, StaySubject, KeepsLocks DEF CRLPoints
    <3>7. Kind(r)' = Kind(r) /\ ~Renews(r)' /\ InCRL(r)'
      BY <3>1 DEF Kind, Renews, InCRL, CRLPoints
    <3>8. AskedAt(r)' /\ TargetsAt(r)' /\ IssuesAt(r)' /\ ReplacesAt(r)'
      BY <1>a, <3>1, <3>7 DEF AskedAt, TargetsAt, IssuesAt, ReplacesAt, Rewrites
    <3>9. RevokesAt(r)' /\ CleansAt(r)' /\ SettledAt(r)'
      BY <1>a, <1>b, <1>c, <3>1, <3>2, <3>4, <3>5, <3>7
      DEF RevokesAt, CleansAt, SettledAt, Rewrites
    <3> QED BY <3>6, <3>8, <3>9 DEF Keeps, SubjectAt
  <2> QED BY <2>1, <2>2
<1> QED BY <1>1, <1>2, <1>3

\* Whatever a replica does, it keeps what it established about its subject.
LEMMA MovesKeep ==
  ASSUME Undisturbed, Inv, CRLNumberNamesContent, Consistent, NEW r \in Replicas, Moves(r)
  PROVE  Keeps(r)
BY CallsKeep, LocksKeep, RequestsKeep, RenewalsKeep, ReplacementsKeep, SaveCertKeeps,
   AppendKeeps, DropCSRKeeps, CleansKeep, TargetsKeep, ResigningsKeep, ListsKeep, Excluded
DEF Moves, Step

-----------------------------------------------------------------------------
(* Where nothing disturbs the subjects *)

\* Every step keeps Consistent.
LEMMA StepConsistent ==
  ASSUME Undisturbed, Inv, CRLNumberNamesContent, Consistent, [Next]_vars
  PROVE  Consistent'
<1>a. \A q \in Replicas : cached'[q] \in {cached[q], crl'}
  BY CacheChanges
<1>1. ASSUME NEW r \in Replicas, Moves(r) PROVE Consistent'
  <2>1. Guarantee(r)
    BY <1>1, OwnStep DEF Inv
  <2>2. Keeps(r)
    BY <1>1, MovesKeep
  <2> QED BY <1>a, <1>1, <2>1, <2>2, MovesConsistent
<1>2. ASSUME NEW r \in Replicas, Sync(r) PROVE Consistent'
  <2>1. UNCHANGED <<csr, cert, owner, inventory, superseded, crl, subjectLock, pc, job, elapsed>>
    BY <1>2 DEF Sync, store, time, locks
  <2> QED BY <1>a, <2>1, EnvironmentConsistent
<1>3. ASSUME NEW n \in DOMAIN owner, Elapse(n) PROVE Consistent'
  <2> USE <1>3
  <2>1. /\ UNCHANGED <<csr, cert, owner, inventory, superseded, crl, subjectLock, pc, job>>
        /\ elapsed' = elapsed \cup {n}
    BY DEF Elapse, store, locks
  <2>2. \A q \in Replicas : Renews(q) /\ pc[q] # "gate" => job[q].serial # n
    BY DEF Elapse, Renews, At
  <2> QED BY <1>a, <2>1, <2>2, EnvironmentConsistent
<1>4. ASSUME NEW n \in DOMAIN owner, Expire(n) PROVE Consistent'
  <2>1. UNCHANGED <<csr, cert, owner, inventory, superseded, crl, subjectLock, pc, job, elapsed>>
    BY <1>4 DEF Expire, store, locks
  <2> QED BY <1>a, <2>1, EnvironmentConsistent
<1>5. ASSUME UNCHANGED vars PROVE Consistent'
  <2>1. UNCHANGED <<csr, cert, owner, inventory, superseded, crl, subjectLock, pc, job, elapsed>>
    BY <1>5 DEF vars, store, time, locks
  <2> QED BY <1>a, <2>1, EnvironmentConsistent
<1> QED BY <1>1, <1>2, <1>3, <1>4, <1>5 DEF Next, Finished, Moves

\* Where nothing disturbs it, what the operations have established about their
\* subjects holds in every reachable state.
THEOREM SubjectsAreConsistent ==
  ASSUME Undisturbed
  PROVE  Spec => []Consistent
<1>1. Init => Consistent
  BY InitConsistent
<1>2. Inv /\ CRLNumberNamesContent /\ Consistent /\ [Next]_vars => Consistent'
  BY StepConsistent
<1> QED BY <1>1, <1>2, Invariance, NumbersNameCRLs, PTL DEF Spec

\* Whenever nobody works on a subject it has at most one certificate that is
\* neither revoked, nor waiting to be, nor expired: for any number of replicas
\* that sign, renew, generate, revoke, clean, refresh and sweep.
THEOREM OneCertificatePerSubject ==
  ASSUME Undisturbed
  PROVE  Spec => []OneLiveCertificate
<1>1. Consistent => OneLiveCertificate
  <2> SUFFICES ASSUME Consistent, NEW s \in Subjects, subjectLock[s] = NoOne
               PROVE  \A m, n \in Live(s) : m = n
    BY DEF OneLiveCertificate
  <2>1. Live(s) \subseteq {cert[s]}
    BY DEF Consistent, Settled, Valid, Of, Live
  <2> QED BY <2>1
<1> QED BY <1>1, SubjectsAreConsistent, PTL

\* The certificate agents download is the one Revoke and Clean find in the
\* inventory.
THEOREM StoredCertificateIsLatest ==
  ASSUME Undisturbed
  PROVE  Spec => []StoredIsLatest
<1>1. Consistent => StoredIsLatest
  BY DEF Consistent, Settled, StoredIsLatest
<1> QED BY <1>1, SubjectsAreConsistent, PTL

\* No renewal issues for a certificate that is revoked or superseded by then,
\* whatever happened between its gate and its lock.
THEOREM NoRenewalOfRevoked ==
  ASSUME Undisturbed
  PROVE  Spec => []RenewalHonoursRevocation
<1>1. Consistent => RenewalHonoursRevocation
  BY DEF Consistent, SubjectAt, IssuesAt, Renews, At, RenewalHonoursRevocation
<1> QED BY <1>1, SubjectsAreConsistent, PTL

\* When Clean deletes a subject's certificate all that were ever issued to the
\* subject are on the CRL.
THEOREM CleanLeavesNothingValid ==
  ASSUME Undisturbed
  PROVE  Spec => []CleanRevokesAll
<1>1. Consistent => CleanRevokesAll
  BY DEF Consistent, SubjectAt, CleansAt, Of, At, CleanRevokesAll
<1> QED BY <1>1, SubjectsAreConsistent, PTL

-----------------------------------------------------------------------------
(* Admission *)

CONSTANTS Anchors, Numbered, Ahead, Skew, Life, Deltas, Policy, Requests, Clients, Routes,
          AllowPublicStatus, ForeignAdmins, ForeignPpCliAuth, MaxNow, MaxCRLs, MaxFile,
          MaxChanges

VARIABLES now, revoked, published, file, readable, installed, ownDead, admins, op, changes

\* A bounded set of numbers that is not empty has a largest.
LEMMA LargestExists ==
  ASSUME NEW S, S \subseteq Nat, S # {}, NEW n \in Nat, \A i \in S : i <= n
  PROVE  \E m \in S : \A i \in S : m >= i
<1> DEFINE T == {k \in Nat : \A i \in S : i <= k}
           R == {p \in Nat \X Nat : p[1] < p[2]}
<1>1. IsWellFoundedOn(R, Nat)
  <2>1. R = OpToRel(<, Nat)
    BY DEF OpToRel
  <2> QED BY <2>1, NatLessThanWellFounded
<1>2. PICK k \in T : \A y \in T : ~(<<y, k>> \in R)
  <2>1. T \subseteq Nat /\ T # {}
    OBVIOUS
  <2> HIDE DEF T, R
  <2> QED BY <1>1, <2>1, WFMin
<1>3. k \in S
  <2>1. SUFFICES ASSUME k \notin S PROVE FALSE
    OBVIOUS
  <2>0. k \in Nat /\ \A i \in S : i <= k /\ i \in Nat /\ i # k
    BY <1>2, <2>1
  <2>a. PICK i \in S : TRUE
    OBVIOUS
  <2>b. k - 1 \in Nat
    BY ONLY SMTT(30), <2>0, <2>a
  <2>c. ASSUME NEW j \in S PROVE j <= k - 1
    BY ONLY SMTT(30), <2>0, <2>c
  <2>2. k - 1 \in T /\ k \in Nat
    BY <2>0, <2>b, <2>c
  <2>3. <<k - 1, k>> \in R
    BY SMTT(30), <2>2
  <2> QED BY <1>2, <2>2, <2>3
<1> QED BY SMTT(30), <1>3

Admit == INSTANCE Admission

\* Every CRL is one that an anchor published: a full one names the serials up to
\* its number.
Lists ==
  /\ DOMAIN revoked = Anchors /\ \A a \in Anchors : revoked[a] \in Nat
  /\ installed \subseteq published /\ file \subseteq published
  /\ \A c \in published :
       /\ c.by \in Anchors /\ c.num \in Nat /\ c.num > 0 /\ c.num <= revoked[c.by]
       /\ c.partial \/ c.dead = 1..c.num

OpFields == {"pc", "route", "subject", "client", "barred", "granted"}

\* A request between its steps: what was known against its client still is, and
\* what the allow list grants it has been noted.
Asking(q) ==
  /\ DOMAIN op[q] = OpFields
  /\ op[q].pc = "revocation" /\ op[q].barred => Admit!Barred(op[q].client)
  /\ op[q].pc = "authorise" => ~op[q].barred
  /\ op[q].pc \in {"revocation", "authorise"} =>
       /\ Admit!Attributed(op[q].client)
       /\ Admit!Granted(op[q].route, op[q].subject, op[q].client, admins) => op[q].granted
  /\ op[q].pc = "served" /\ Admit!lookupTier(op[q].route) # "public" =>
       ~op[q].barred /\ op[q].granted

AdmitInv == Lists /\ DOMAIN op = Requests /\ \A q \in Requests : Asking(q)

\* A file that is accepted has, for an anchor of the installed set, a full CRL with
\* a number as high (regressesCRLSet, losesCoverage).
LEMMA AcceptedIsNewer ==
  ASSUME Anchors \subseteq Numbered, Lists, Admit!Reload, NEW c \in installed, ~c.partial
  PROVE  \E d \in installed' : d.by = c.by /\ ~d.partial /\ c.dead \subseteq d.dead
<1> DEFINE a == c.by
           new == Admit!Numbers(file, a)
           old == Admit!Numbers(installed, a)
<1>1. a \in Anchors /\ c.num \in Nat /\ c.num > 0 /\ c.dead = 1..c.num /\ revoked[a] \in Nat
  BY DEF Lists
<1>2. installed' = file /\ ~Admit!Refused(file)
  BY DEF Admit!Reload
<1>3. c \in Admit!forIssuer(installed, a)
  BY DEF Admit!forIssuer
<1>4. Admit!forIssuer(file, a) # {} /\ ~Admit!regressedFrom(file, installed, a)
  BY <1>1, <1>2, <1>3 DEF Admit!Refused, Admit!losesCoverage, Admit!Regresses
<1>5. ASSUME NEW S, S \subseteq published
      PROVE  /\ \A d \in Admit!forIssuer(S, a) : d.num \in Admit!Numbers(S, a)
             /\ Admit!Numbers(S, a) \subseteq Nat
             /\ \A i \in Admit!Numbers(S, a) : i <= revoked[a]
  <2>1. ASSUME NEW d \in Admit!forIssuer(S, a)
        PROVE  d.num \in Nat /\ d.num > 0 /\ d.num <= revoked[a]
    BY <1>5, <2>1 DEF Lists, Admit!forIssuer
  <2>2. ASSUME NEW d \in Admit!forIssuer(S, a) PROVE d.num # 0
    BY ONLY SMTT(30), <2>1, <2>2
  <2> QED BY <2>1, <2>2 DEF Admit!Numbers
<1>6. /\ c.num \in old /\ new # {} /\ new \subseteq Nat /\ old \subseteq Nat
      /\ \A i \in old \cup new : i <= revoked[a]
  BY <1>3, <1>4, <1>5 DEF Lists
<1>7. Admit!Max(old) \in old /\ \A i \in old : Admit!Max(old) >= i
  <2>1. \E m \in old : \A i \in old : m >= i
    <3> HIDE DEF old
    <3> QED BY <1>1, <1>6, LargestExists
  <2> QED BY <2>1 DEF Admit!Max
<1>8. Admit!Max(new) \in new
  <2>1. \E m \in new : \A i \in new : m >= i
    <3> HIDE DEF new
    <3> QED BY <1>1, <1>6, LargestExists
  <2> QED BY <2>1 DEF Admit!Max
<1>9. ~(Admit!Max(new) < Admit!Max(old))
  BY <1>4, <1>6 DEF Admit!regressedFrom
<1>10. PICK d \in Admit!forIssuer(file, a) : d.num = Admit!Max(new)
  BY <1>8 DEF Admit!Numbers
<1>11. d \in installed' /\ d.by = a /\ ~d.partial /\ d.dead = 1..d.num
  BY <1>2, <1>10 DEF Admit!forIssuer, Lists
<1>12. c.num <= d.num /\ d.num \in Nat
  <2>1. ASSUME NEW x \in Nat, NEW y \in Nat, NEW z \in Nat, ~(x < y), y >= z PROVE z <= x
    BY ONLY SMTT(30), <2>1
  <2>2. Admit!Max(new) \in Nat /\ Admit!Max(old) \in Nat /\ Admit!Max(old) >= c.num
    <3> HIDE DEF new, old
    <3> QED BY <1>6, <1>7, <1>8
  <2> HIDE DEF new, old
  <2> QED BY <1>1, <1>9, <1>10, <2>1, <2>2
<1>13. c.dead \subseteq d.dead
  BY ONLY SMTT(30), <1>1, <1>11, <1>12
<1> QED BY <1>11, <1>13

\* So a client that a full CRL names stays barred after a reload (refreshClientCRLs).
LEMMA BarredStays ==
  ASSUME Anchors \subseteq Numbered, Lists, NEW c, Admit!Barred(c), ownDead \subseteq ownDead',
         installed' = installed \/ Admit!Reload
  PROVE  Admit!Barred(c)'
<1>1. CASE c.issuer = Admit!Own
  BY <1>1 DEF Admit!Barred
<1>2. CASE c.issuer # Admit!Own
  <2>1. PICK l \in c.links, d \in installed : d.by = l.by /\ ~d.partial /\ l.serial \in d.dead
    BY <1>2 DEF Admit!Barred
  <2>2. PICK e \in installed' : e.by = d.by /\ ~e.partial /\ d.dead \subseteq e.dead
    BY <2>1, AcceptedIsNewer
  <2>3. e.by = l.by /\ ~e.partial /\ l.serial \in e.dead
    BY <2>1, <2>2
  <2> QED BY <1>2, <2>3 DEF Admit!Barred
<1> QED BY <1>1, <1>2

\* Every step keeps the CRLs what their anchors published (refreshClientCRLs installs the
\* whole file or keeps what is there).
LEMMA ListsStep ==
  ASSUME Anchors \subseteq Numbered, Lists, Admit!Next PROVE Lists'
<1>1. ASSUME NEW q \in Requests,
             Admit!Arrive(q) \/ Admit!CheckRevocation(q) \/ Admit!Authorise(q) \/ Admit!Answered(q)
      PROVE  Lists'
  <2>1. UNCHANGED <<revoked, published, file, installed>>
    BY <1>1 DEF Admit!Arrive, Admit!CheckRevocation, Admit!Authorise, Admit!Answered
  <2> QED BY <2>1 DEF Lists
<1>2. CASE Admit!RevokeOwn \/ Admit!SetAdminCNs \/ Admit!Tick
  <2>1. UNCHANGED <<revoked, published, file, installed>>
    BY <1>2 DEF Admit!RevokeOwn, Admit!SetAdminCNs, Admit!Tick
  <2> QED BY <2>1 DEF Lists
<1>3. CASE Admit!Deliver
  <2>1. UNCHANGED <<revoked, published, installed>> /\ (file' = file \/ file' \subseteq published)
    BY <1>3 DEF Admit!Deliver
  <2> QED BY <2>1 DEF Lists
<1>4. CASE Admit!Reload
  BY <1>4 DEF Lists, Admit!Reload
<1>5. ASSUME NEW a \in Anchors, Admit!Publish(a) PROVE Lists'
  <2>1. UNCHANGED <<file, installed>> /\ revoked' = [revoked EXCEPT ![a] = @ + 1]
    BY <1>5 DEF Admit!Publish
  <2>2. PICK p, t, D : published' = published \cup
          {[by |-> a, num |-> revoked[a] + 1, at |-> t, next |-> t + Life, partial |-> p,
            dead |-> IF p THEN D ELSE 1..(revoked[a] + 1)]}
    <3>1. a \in Numbered
      OBVIOUS
    <3> QED BY <1>5, <3>1 DEF Admit!Publish
  <2>3. revoked'[a] = revoked[a] + 1 /\ \A b \in Anchors : b # a => revoked'[b] = revoked[b]
    BY <2>1 DEF Lists
  <2>4. revoked[a] + 1 \in Nat /\ revoked[a] + 1 > 0 /\ revoked[a] + 1 <= revoked[a] + 1
        /\ \A i \in Nat : i <= revoked[a] => i <= revoked[a] + 1
    <3>1. revoked[a] \in Nat
      BY DEF Lists
    <3> QED BY ONLY SMTT(30), <3>1
  <2>5. DOMAIN revoked' = Anchors /\ \A b \in Anchors : revoked'[b] \in Nat
    BY <2>1, <2>3, <2>4 DEF Lists
  <2>6. ASSUME NEW c \in published
        PROVE  /\ c.by \in Anchors /\ c.num \in Nat /\ c.num > 0 /\ c.num <= revoked'[c.by]
               /\ c.partial \/ c.dead = 1..c.num
    BY <2>3, <2>4, <2>6 DEF Lists
  <2>7. ASSUME NEW c, c = [by |-> a, num |-> revoked[a] + 1, at |-> t, next |-> t + Life,
                           partial |-> p, dead |-> IF p THEN D ELSE 1..(revoked[a] + 1)]
        PROVE  /\ c.by \in Anchors /\ c.num \in Nat /\ c.num > 0 /\ c.num <= revoked'[c.by]
               /\ c.partial \/ c.dead = 1..c.num
    <3>1. c.by = a /\ c.num = revoked[a] + 1 /\ c.partial = p
          /\ c.dead = IF p THEN D ELSE 1..(revoked[a] + 1)
      BY ONLY ZenonT(60), <2>7
    <3> QED BY <2>3, <2>4, <3>1
  <2> QED BY <2>1, <2>2, <2>5, <2>6, <2>7 DEF Lists
<1> QED BY <1>1, <1>2, <1>3, <1>4, <1>5 DEF Admit!Next

\* Who may use a route has been granted it (newAuthMiddleware's tiers).
LEMMA UseIsGranted ==
  ASSUME NEW q \in Requests, Admit!Attributed(op[q].client), Admit!MayUse(q)
  PROVE  Admit!Granted(op[q].route, op[q].subject, op[q].client, admins)
BY DEF Admit!MayUse, Admit!Granted, Admit!isAdmin, Admit!Attributed

\* The record of a request that has not arrived.
LEMMA IdleRecord ==
  ASSUME NEW u, u = Admit!Idle PROVE u.pc = "idle" /\ DOMAIN u = OpFields
BY DEF Admit!Idle, OpFields

\* Every step keeps what a request relies on: what bars its client still does after a
\* reload, and a grant that is withdrawn meanwhile has been noted (newAuthMiddleware).
LEMMA AskingStep ==
  ASSUME Anchors \subseteq Numbered, AdmitInv, Admit!Next, NEW x \in Requests PROVE Asking(x)'
<1>0. Lists /\ Asking(x) /\ DOMAIN op = Requests
  BY DEF AdmitInv
<1>1. ASSUME op'[x] = op[x], admins' = admins, ownDead \subseteq ownDead',
             installed' = installed \/ Admit!Reload
      PROVE  Asking(x)'
  BY <1>0, <1>1, BarredStays DEF Asking, Admit!Attributed, Admit!Granted, Admit!lookupTier
<1>2. CASE Admit!Reload \/ Admit!Deliver \/ Admit!RevokeOwn \/ Admit!Tick
           \/ \E a \in Anchors : Admit!Publish(a)
  <2>1. op' = op /\ admins' = admins /\ ownDead \subseteq ownDead'
        /\ (installed' = installed \/ Admit!Reload)
    BY <1>2 DEF Admit!Reload, Admit!Deliver, Admit!RevokeOwn, Admit!Tick, Admit!Publish
  <2> QED BY <1>1, <2>1
<1>3. CASE Admit!SetAdminCNs
  <2>1. PICK s : /\ admins' = s
                 /\ op' = [q \in Requests |-> [op[q] EXCEPT !.granted =
                      @ \/ Admit!Granted(op[q].route, op[q].subject, op[q].client, s)]]
    BY <1>3 DEF Admit!SetAdminCNs
  <2>2. /\ op'[x].pc = op[x].pc /\ op'[x].route = op[x].route /\ op'[x].subject = op[x].subject
        /\ op'[x].client = op[x].client /\ op'[x].barred = op[x].barred
        /\ op'[x].granted =
             (op[x].granted \/ Admit!Granted(op[x].route, op[x].subject, op[x].client, s))
        /\ DOMAIN op'[x] = OpFields
    BY <1>0, <2>1 DEF Asking, OpFields
  <2>3. UNCHANGED <<installed, ownDead>>
    BY <1>3 DEF Admit!SetAdminCNs
  <2>4. op[x].pc = "revocation" /\ op[x].barred => Admit!Barred(op[x].client)'
    BY <1>0, <2>2, <2>3 DEF Asking, Admit!Barred
  <2>5. op'[x].pc \in {"revocation", "authorise"} => Admit!Attributed(op[x].client)'
    BY <1>0, <2>2 DEF Asking, Admit!Attributed
  <2>6. op'[x].pc = "served" /\ Admit!lookupTier(op'[x].route) # "public" =>
          ~op'[x].barred /\ op'[x].granted
    BY <1>0, <2>2 DEF Asking
  <2>7. op'[x].pc \in {"revocation", "authorise"} =>
          (Admit!Granted(op'[x].route, op'[x].subject, op'[x].client, admins') => op'[x].granted)
    BY <2>1, <2>2
  <2>8. op'[x].pc = "authorise" => ~op'[x].barred
    BY <1>0, <2>2 DEF Asking
  <2>9. op'[x].pc = "revocation" /\ op'[x].barred => Admit!Barred(op[x].client)'
    BY <2>2, <2>4
  <2> QED BY ONLY ZenonT(60), <2>2, <2>5, <2>6, <2>7, <2>8, <2>9
          DEF Asking
<1>4. ASSUME NEW q \in Requests,
             Admit!Arrive(q) \/ Admit!CheckRevocation(q) \/ Admit!Authorise(q) \/ Admit!Answered(q)
      PROVE  Asking(x)'
  <2>1. UNCHANGED <<installed, ownDead, admins>>
    BY <1>4 DEF Admit!Arrive, Admit!CheckRevocation, Admit!Authorise, Admit!Answered
  <2>2. CASE x # q
    <3>1. op'[x] = op[x]
      BY <1>0, <1>4, <2>2 DEF Admit!Arrive, Admit!CheckRevocation, Admit!Authorise, Admit!Answered
    <3> QED BY <1>1, <2>1, <3>1
  <2>3. CASE x = q /\ Admit!Arrive(q)
    <3>1. PICK route, c, s : op' = [op EXCEPT ![q] =
            [pc |-> IF Admit!lookupTier(route) = "public" THEN "served"
                    ELSE IF ~Admit!Attributed(c) THEN "denied" ELSE "revocation",
             route |-> route, subject |-> s, client |-> c, barred |-> Admit!Barred(c),
             granted |-> Admit!Granted(route, s, c, admins)]]
      BY ONLY ZenonT(60), <2>3 DEF Admit!Arrive
    <3>2. op'[x] = [pc |-> IF Admit!lookupTier(route) = "public" THEN "served"
                    ELSE IF ~Admit!Attributed(c) THEN "denied" ELSE "revocation",
             route |-> route, subject |-> s, client |-> c, barred |-> Admit!Barred(c),
             granted |-> Admit!Granted(route, s, c, admins)]
      BY ONLY ZenonT(60), <1>0, <1>4, <2>3, <3>1
    <3>a. PICK p, b, g :
            /\ op'[x] = [pc |-> p, route |-> route, subject |-> s, client |-> c, barred |-> b,
                         granted |-> g]
            /\ p = IF Admit!lookupTier(route) = "public" THEN "served"
                   ELSE IF ~Admit!Attributed(c) THEN "denied" ELSE "revocation"
            /\ b = Admit!Barred(c) /\ g = Admit!Granted(route, s, c, admins)
      BY ONLY ZenonT(60), <3>2
    <3>b. /\ op'[x].pc = p /\ op'[x].route = route /\ op'[x].subject = s /\ op'[x].client = c
          /\ op'[x].barred = b /\ op'[x].granted = g /\ DOMAIN op'[x] = OpFields
      <4>1. op'[x] = [pc |-> p, route |-> route, subject |-> s, client |-> c, barred |-> b,
                      granted |-> g]
        BY ONLY ZenonT(60), <3>a
      <4> QED BY ONLY SMTT(30), <4>1 DEF OpFields
    <3>3. /\ op'[x].pc = IF Admit!lookupTier(route) = "public" THEN "served"
                         ELSE IF ~Admit!Attributed(c) THEN "denied" ELSE "revocation"
          /\ op'[x].route = route /\ op'[x].subject = s /\ op'[x].client = c
          /\ op'[x].barred = Admit!Barred(c)
          /\ op'[x].granted = Admit!Granted(route, s, c, admins)
          /\ DOMAIN op'[x] = OpFields
      BY ONLY ZenonT(60), <3>a, <3>b
    <3> QED BY <2>1, <3>3 DEF Asking, Admit!Barred, Admit!Granted, Admit!lookupTier,
               Admit!Attributed
  <2>4. CASE x = q /\ Admit!CheckRevocation(q)
    <3>1. /\ op'[x].pc = "denied" \/ (op'[x].pc = "authorise" /\ Admit!Unrevoked(op[x].client))
          /\ op'[x].route = op[x].route /\ op'[x].subject = op[x].subject
          /\ op'[x].client = op[x].client /\ op'[x].barred = op[x].barred
          /\ op'[x].granted = op[x].granted /\ DOMAIN op'[x] = OpFields
      <4>1. PICK p \in {"authorise", "denied"} :
              /\ op' = [op EXCEPT ![q].pc = p]
              /\ p = "authorise" => Admit!Unrevoked(op[q].client)
        BY <2>4 DEF Admit!CheckRevocation
      <4> QED BY <1>0, <2>4, <4>1 DEF Asking, OpFields
    <3>2. op[x].pc = "revocation"
      BY <2>4 DEF Admit!CheckRevocation
    <3>3. op[x].barred => ~Admit!Unrevoked(op[x].client)
      BY <1>0, <3>2 DEF Asking, Admit!Barred, Admit!Unrevoked, Admit!checkChainRevocation,
         Admit!Dead
    <3> QED BY <1>0, <2>1, <3>1, <3>2, <3>3 DEF Asking, Admit!Granted, Admit!lookupTier,
               Admit!Attributed
  <2>5. CASE x = q /\ Admit!Authorise(q)
    <3>1. /\ op'[x].pc = IF Admit!MayUse(x) THEN "served" ELSE "denied"
          /\ op'[x].route = op[x].route /\ op'[x].barred = op[x].barred
          /\ op'[x].granted = op[x].granted /\ DOMAIN op'[x] = OpFields
      BY <1>0, <2>5 DEF Admit!Authorise, Asking, OpFields
    <3>2. op[x].pc = "authorise"
      BY <2>5 DEF Admit!Authorise
    <3>3. ~op[x].barred /\ (Admit!MayUse(x) => op[x].granted)
      BY <1>0, <3>2, UseIsGranted DEF Asking
    <3> QED BY <3>1, <3>3 DEF Asking
  <2>6. CASE x = q /\ Admit!Answered(q)
    <3>1. op'[x] = Admit!Idle
      BY <1>0, <2>6 DEF Admit!Answered
    <3>2. op'[x].pc = "idle" /\ DOMAIN op'[x] = OpFields
      BY ONLY ZenonT(60), <3>1, IdleRecord
    <3> QED BY <3>2 DEF Asking
  <2> QED BY <1>4, <2>2, <2>3, <2>4, <2>5, <2>6
<1> QED BY <1>2, <1>3, <1>4 DEF Admit!Next

\* The invariant holds in every reachable state.
LEMMA AdmitReached ==
  ASSUME Anchors \subseteq Numbered PROVE Admit!Spec => []AdmitInv
<1>1. ASSUME Admit!Init PROVE AdmitInv
  <2>1. Lists
    BY <1>1 DEF Admit!Init, Lists
  <2>2. ASSUME NEW q \in Requests PROVE Asking(q)
    <3>1. op[q] = Admit!Idle
      BY <1>1, <2>2 DEF Admit!Init
    <3>2. op[q].pc = "idle" /\ DOMAIN op[q] = OpFields
      BY ONLY ZenonT(60), <3>1, IdleRecord
    <3> QED BY <3>2 DEF Asking
  <2> QED BY <1>1, <2>1, <2>2 DEF AdmitInv, Admit!Init
<1>2. ASSUME AdmitInv, Admit!Next PROVE AdmitInv'
  <2>1. DOMAIN op' = Requests
    BY <1>2 DEF AdmitInv, Admit!Next, Admit!Arrive, Admit!CheckRevocation, Admit!Authorise,
       Admit!Answered, Admit!Publish, Admit!Deliver, Admit!Reload, Admit!RevokeOwn,
       Admit!SetAdminCNs, Admit!Tick
  <2> QED BY <1>2, <2>1, ListsStep, AskingStep DEF AdmitInv
<1>3. ASSUME AdmitInv, UNCHANGED Admit!vars PROVE AdmitInv'
  <2>1. Lists' /\ DOMAIN op' = Requests
    BY <1>3 DEF AdmitInv, Lists, Admit!vars
  <2>2. ASSUME NEW q \in Requests PROVE Asking(q)'
    BY <1>3, <2>2 DEF AdmitInv, Admit!vars, Asking, Admit!Barred, Admit!Granted, Admit!lookupTier,
       Admit!Attributed
  <2> QED BY <2>1, <2>2 DEF AdmitInv
<1> QED BY <1>1, <1>2, <1>3, PTL DEF Admit!Spec

\* A client that was known to be revoked when its request arrived is served on no route that
\* asks for a certificate, and a request is served there only under a grant of its client's
\* own domain that was in force since it arrived, though CRLs are reloaded and the allow
\* list changes between the checks (newAuthMiddleware).  Every anchor numbers its CRLs.
THEOREM AdmissionIsFirm ==
  ASSUME Anchors \subseteq Numbered
  PROVE  Admit!Spec => [](Admit!BarredIsNotServed /\ Admit!ServedUnderItsOwnGrant)
<1>1. AdmitInv => Admit!BarredIsNotServed /\ Admit!ServedUnderItsOwnGrant
  BY DEF AdmitInv, Asking, Admit!BarredIsNotServed, Admit!ServedUnderItsOwnGrant
<1> QED BY <1>1, AdmitReached, PTL

\* A reload never re-admits a client that an installed full CRL names, whatever the file
\* offers: old lists, partial lists, lists without the anchor (refreshClientCRLs,
\* regressesCRLSet, losesCoverage).  Every anchor numbers its CRLs.
THEOREM ReloadNeverReadmits ==
  ASSUME Anchors \subseteq Numbered
  PROVE  Admit!Spec => [][Admit!NoReadmission]_(Admit!vars)
<1>1. ASSUME AdmitInv, Admit!Next PROVE Admit!NoReadmission
  <2>1. installed' = installed \/ Admit!Reload
    BY <1>1 DEF Admit!Next, Admit!Arrive, Admit!CheckRevocation, Admit!Authorise,
       Admit!Answered, Admit!Publish, Admit!Deliver, Admit!RevokeOwn, Admit!SetAdminCNs,
       Admit!Tick
  <2>2. ASSUME NEW a \in Anchors, NEW c \in Admit!forIssuer(installed, a), NEW i \in c.dead
        PROVE  i \in Admit!Dead(installed', a)
    <3>1. c \in installed /\ c.by = a /\ ~c.partial
      BY <2>2 DEF Admit!forIssuer
    <3>2. PICK d \in installed' : d.by = a /\ c.dead \subseteq d.dead
      BY <1>1, <2>1, <3>1, AcceptedIsNewer DEF AdmitInv
    <3> QED BY <2>2, <3>2 DEF Admit!Dead
  <2> QED BY <2>2 DEF Admit!NoReadmission
<1> QED BY <1>1, AdmitReached, PTL DEF Admit!Spec
=============================================================================
