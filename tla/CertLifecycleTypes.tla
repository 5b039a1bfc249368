------------------------- MODULE CertLifecycleTypes -------------------------
(***************************************************************************)
(* CertLifecycle keeps the types of its variables, and what the moves of   *)
(* one replica have in common.                                             *)
(*                                                                         *)
(* That a serial to be revoked is a serial, or a lock's holder a replica,  *)
(* depends on which operation stands at which control point: ControlAt     *)
(* states it, and TypeStep shows that TypeOK survives every step taken     *)
(* where Control holds.  Control itself is part of the inductive invariant *)
(* Own.                                                                    *)
(***************************************************************************)
EXTENDS CertLifecycleInvariants, TLAPS

\* Zenon proves what names no other prover.
USE ZenonT(60)

-----------------------------------------------------------------------------
(* A replica's local variables *)

\* A replica that runs nothing has well-typed local variables.
LEMMA NoJobType == NoJob \in Jobs
BY ConstantsAssumption DEF NoJob, Jobs, CRLs, EmptyCRL, Serials, Kinds, SubjectOps

\* A job keeps its type when its local variables are assigned.
LEMMA JobUpdates ==
  ASSUME NEW j \in Jobs
  PROVE  /\ \A n \in Serials \cup {0} : [j EXCEPT !.new = n] \in Jobs
         /\ \A v \in CRLs : [j EXCEPT !.view = v] \in Jobs
         /\ \A a \in SUBSET Serials :
              /\ [j EXCEPT !.list = a] \in Jobs
              /\ [j EXCEPT !.todo = a] \in Jobs
              /\ [j EXCEPT !.done = a] \in Jobs
         /\ \A a \in SUBSET Serials, n \in Serials \cup {0} :
              /\ [j EXCEPT !.old = n, !.todo = a] \in Jobs
              /\ [j EXCEPT !.todo = a, !.new = n] \in Jobs
              /\ [j EXCEPT !.old = n, !.todo = a, !.stage = "own"] \in Jobs
         /\ \A a \in SUBSET Serials, b \in SUBSET Serials :
              /\ [j EXCEPT !.todo = a, !.done = b] \in Jobs
              /\ [j EXCEPT !.list = a, !.todo = b] \in Jobs
              /\ [j EXCEPT !.list = a, !.todo = b, !.stage = "retire"] \in Jobs
<1>1. ASSUME NEW n \in Serials \cup {0} PROVE [j EXCEPT !.new = n] \in Jobs
  BY DEF Jobs
<1>2. ASSUME NEW v \in CRLs PROVE [j EXCEPT !.view = v] \in Jobs
  BY DEF Jobs
<1>3. ASSUME NEW a \in SUBSET Serials
      PROVE  /\ [j EXCEPT !.list = a] \in Jobs
             /\ [j EXCEPT !.todo = a] \in Jobs
             /\ [j EXCEPT !.done = a] \in Jobs
  BY DEF Jobs
<1>4. ASSUME NEW a \in SUBSET Serials, NEW n \in Serials \cup {0}
      PROVE  /\ [j EXCEPT !.old = n, !.todo = a] \in Jobs
             /\ [j EXCEPT !.todo = a, !.new = n] \in Jobs
             /\ [j EXCEPT !.old = n, !.todo = a, !.stage = "own"] \in Jobs
  BY DEF Jobs
<1>5. ASSUME NEW a \in SUBSET Serials, NEW b \in SUBSET Serials
      PROVE  /\ [j EXCEPT !.todo = a, !.done = b] \in Jobs
             /\ [j EXCEPT !.list = a, !.todo = b] \in Jobs
             /\ [j EXCEPT !.list = a, !.todo = b, !.stage = "retire"] \in Jobs
  BY DEF Jobs
<1> QED BY <1>1, <1>2, <1>3, <1>4, <1>5

\* Assigning local variables keeps their type.
LEMMA LocalsType ==
  ASSUME job \in [Replicas -> Jobs], NEW r \in Replicas, NEW l \in Jobs, Locals(r, l)
  PROVE  job' \in [Replicas -> Jobs]
BY DEF Locals

\* So does moving to another control point,
LEMMA GotoType ==
  ASSUME pc \in [Replicas -> Points], NEW r \in Replicas, NEW p \in Points, Goto(r, p)
  PROVE  pc' \in [Replicas -> Points]
BY DEF Goto

\* returning to the caller,
LEMMA ReturnType ==
  ASSUME LocalOK, NEW r \in Replicas, Return(r)
  PROVE  LocalOK'
BY NoJobType DEF LocalOK, Return, Goto, Locals, Points

\* releasing the CRL lock,
LEMMA LeaveCRLType ==
  ASSUME LocalOK, NEW r \in Replicas, NEW p \in Points, LeaveCRL(r, p)
  PROVE  LocalOK'
BY DEF LocalOK, LeaveCRL, Goto

\* ending a revocation,
LEMMA RevokeEndsType ==
  ASSUME LocalOK, NEW r \in Replicas, RevokeEnds(r)
  PROVE  LocalOK'
BY ReturnType, LeaveCRLType DEF RevokeEnds, SubjectPoints, Points

\* and starting an operation.
LEMMA BeginType ==
  ASSUME LocalOK, NEW r \in Replicas, NEW kind \in Kinds,
         NEW s \in Subjects \cup {NoOne}, NEW n \in Serials \cup {0},
         NEW force \in BOOLEAN, NEW p \in Points, Begin(r, kind, s, n, force, p)
  PROVE  LocalOK'
<1>1. [NoJob EXCEPT !.kind = kind, !.subject = s, !.serial = n, !.force = force]
        \in Jobs
  BY NoJobType DEF Jobs
<1>2. job' \in [Replicas -> Jobs]
  BY <1>1, LocalsType DEF LocalOK, Begin
<1> QED BY <1>2, GotoType DEF LocalOK, Begin, locks

\* Dealing with the CRL for some of the serials to do.
LEMMA AfterCRLType ==
  ASSUME LocalOK, NEW r \in Replicas, NEW batch \in SUBSET Serials,
         NEW ok \in BOOLEAN, AfterCRL(r, batch, ok)
  PROVE  LocalOK'
<1>1. job[r] \in Jobs
  BY DEF LocalOK
<1>2. job[r].todo \in SUBSET Serials /\ job[r].done \in SUBSET Serials
  BY <1>1 DEF Jobs
<1>3. [job[r] EXCEPT !.todo = @ \ batch, !.done = IF ok THEN @ \cup batch ELSE @]
        \in Jobs
  <2>1. job[r].todo \ batch \in SUBSET Serials
    BY <1>2
  <2>2. (IF ok THEN job[r].done \cup batch ELSE job[r].done) \in SUBSET Serials
    BY <1>2
  <2> QED BY <1>1, <2>1, <2>2, JobUpdates
<1>4. [job[r] EXCEPT !.done = IF ok THEN batch ELSE {}] \in Jobs
  <2>1. (IF ok THEN batch ELSE {}) \in SUBSET Serials
    OBVIOUS
  <2> QED BY <1>1, <2>1, JobUpdates
<1>5. CASE Return(r) \/ RevokeEnds(r) \/ LeaveCRL(r, "evict")
  BY <1>5, ReturnType, RevokeEndsType, LeaveCRLType DEF SubjectPoints, Points
<1>6. CASE UNCHANGED locks
  <2> USE <1>6
  <2>1. job' \in [Replicas -> Jobs]
    BY <1>3, <1>4, <1>5, LocalsType DEF LocalOK, AfterCRL
  <2>2. pc' \in [Replicas -> Points]
    BY <1>5, GotoType DEF LocalOK, AfterCRL, CRLPoints, Points
  <2> QED BY <2>1, <2>2 DEF LocalOK, locks
<1> QED BY <1>5, <1>6 DEF AfterCRL

\* The certificates issued are numbered by serials and belong to subjects.
LEMMA OwnersType ==
  ASSUME TypeOK
  PROVE  \A n \in DOMAIN owner : n \in Serials /\ owner[n] \in Subjects
BY SMTT(30) DEF TypeOK, Serials

\* The fields of a replica's local variables have their types.
LEMMA JobFieldsType ==
  ASSUME TypeOK, NEW r \in Replicas
  PROVE  /\ job[r] \in Jobs
         /\ job[r].todo \in SUBSET Serials
         /\ job[r].done \in SUBSET Serials
         /\ job[r].list \in SUBSET Serials
         /\ job[r].view.number \in Nat
         /\ job[r].view.revoked \in SUBSET Serials
         /\ job[r].serial \in Serials \cup {0}
         /\ job[r].new \in Serials \cup {0}
<1>1. job[r] \in Jobs
  BY DEF TypeOK
<1>2. job[r].view \in CRLs
  BY <1>1 DEF Jobs
<1> QED BY <1>1, <1>2 DEF Jobs, CRLs

\* The CRL that is signed next is a CRL.
LEMMA NextCRLType ==
  ASSUME TypeOK, NEW r \in Replicas, NEW batch \in Batches(r)
  PROVE  batch \in SUBSET Serials /\ NextCRL(r, batch) \in CRLs
<1>1. batch \in SUBSET Serials
  BY JobFieldsType DEF Batches
<1>2. Entries(r, batch) \in SUBSET Serials
  BY JobFieldsType, <1>1 DEF Entries
<1> QED BY SMTT(30), JobFieldsType, <1>1, <1>2 DEF NextCRL, CRLs

\* The serial Revoke and Renew look up is a serial, or 0 for no certificate.
LEMMA LatestType ==
  ASSUME TypeOK, NEW s \in Subjects
  PROVE  LatestSerialForSubject(s) \in Serials \cup {0}
<1> DEFINE rows == {i \in DOMAIN inventory :
                      inventory[i] # 0 /\ owner[inventory[i]] = s}
           last == {i \in rows : \A j \in rows : j <= i}
<1>1. CASE last = {}
  BY <1>1 DEF LatestSerialForSubject
<1>2. CASE last # {}
  <2>1. (CHOOSE i \in last : TRUE) \in DOMAIN inventory
    BY <1>2
  <2>2. \A i \in DOMAIN inventory : inventory[i] \in Serials \cup {0}
    BY SMTT(30) DEF TypeOK
  <2> QED BY <1>2, <2>1, <2>2 DEF LatestSerialForSubject
<1> QED BY <1>1, <1>2

-----------------------------------------------------------------------------
(* The moves of one replica *)

\* A move changes one replica's control point,
LEMMA GotoStep ==
  ASSUME TypeOK, NEW r \in Replicas, NEW p, Goto(r, p)
  PROVE  pc'[r] = p /\ \A q \in Replicas \ {r} : pc'[q] = pc[q]
BY DEF TypeOK, Goto

\* an assignment one replica's local variables,
LEMMA LocalsStep ==
  ASSUME TypeOK, NEW r \in Replicas, NEW l, Locals(r, l)
  PROVE  job'[r] = l /\ \A q \in Replicas \ {r} : job'[q] = job[q]
BY DEF TypeOK, Locals

\* Returning to the caller leaves r with no obligation and the others alone.
LEMMA ReturnStep ==
  ASSUME TypeOK, NEW r \in Replicas, Return(r)
  PROVE  /\ pc'[r] = "idle" /\ job'[r] = NoJob
         /\ OwnAt(r)' /\ Apart(r)
<1>1. pc'[r] = "idle" /\ job'[r] = NoJob
  BY DEF TypeOK, Return, Goto, Locals
<1>2. OwnAt(r)'
  BY SMTT(30), <1>1 DEF OwnAt, ControlAt, MutexAt, SnapshotAt, DoneAt, PendingAt, Kind, At,
     NoJob, SubjectOps, Issuing, CRLPoints, SubjectPoints
<1> QED BY <1>1, <1>2 DEF TypeOK, Return, Goto, Locals, Apart

\* and a new operation starts with nothing revoked and nothing superseded.
LEMMA BeginStep ==
  ASSUME TypeOK, NEW r \in Replicas, NEW kind, NEW s, NEW n, NEW force, NEW p,
         Begin(r, kind, s, n, force, p)
  PROVE  /\ pc'[r] = p
         /\ job'[r].kind = kind /\ job'[r].subject = s
         /\ job'[r].done = {} /\ job'[r].stage = "own"
<1>1. job'[r] = [NoJob EXCEPT !.kind = kind, !.subject = s, !.serial = n,
                              !.force = force]
  BY LocalsStep DEF Begin
<1> QED BY SMTT(30), <1>1, GotoStep DEF Begin, NoJob

-----------------------------------------------------------------------------
(* What the others may rely on, and the ways a replica goes on *)

\* Rely and guarantee: whatever r does, the invariant of q stays.
LEMMA OthersKeepOwn ==
  ASSUME TypeOK, Own, NEW r \in Replicas, Guarantee(r), NEW q \in Replicas \ {r}
  PROVE  OwnAt(q)'
<1>1. pc'[q] = pc[q] /\ job'[q] = job[q] /\ OwnAt(q) /\ OwnAt(r)
  BY DEF Guarantee, Apart, Own
<1>2. ControlAt(q)'
  BY <1>1 DEF OwnAt, ControlAt, Kind
<1>3. MutexAt(q)'
  BY SMTT(30), <1>1 DEF OwnAt, ControlAt, MutexAt, Guarantee, Apart, Kind
<1>4. pc[q] \in CRLPoints => UNCHANGED <<crl, superseded>>
  BY <1>1 DEF OwnAt, MutexAt, Guarantee, Apart
<1>5. SnapshotAt(q)'
  BY <1>1, <1>4 DEF OwnAt, SnapshotAt, At, Kind, CRLPoints
<1>6. DoneAt(q)'
  <2>1. pc[q] \in {"crlRead", "crlWrite"} => pc[q] \in CRLPoints
    BY DEF CRLPoints
  <2> QED BY <1>1, <1>4, <2>1 DEF OwnAt, DoneAt, Kind, Guarantee, Apart
<1>7. PendingAt(q)'
  <2>1. SUFFICES ASSUME Kind(q) \in {"SaveRequest", "Sign"},
                        pc[q] \in {"saveCert", "append"}
                 PROVE  job[q].subject \in csr'
    BY <1>1 DEF PendingAt, Kind
  <2>2. job[q].subject \in csr /\ subjectLock[job[q].subject] = q
    BY <1>1, <2>1 DEF OwnAt, MutexAt, PendingAt, SubjectPoints
  <2>3. pc[r] \in SubjectPoints => subjectLock[job[r].subject] = r
    BY <1>1 DEF OwnAt, MutexAt
  <2> QED BY <2>2, <2>3 DEF Guarantee, Apart
<1> QED BY <1>2, <1>3, <1>5, <1>6, <1>7 DEF OwnAt

\* A step that leaves r holding nothing and waiting for its first lock.
LEMMA WaitStep ==
  ASSUME NEW r \in Replicas,
         \/ /\ pc'[r] = "gate" /\ job'[r].kind \in {"Renew", "AutoRenew"}
            /\ job'[r].subject \in Subjects
         \/ /\ pc'[r] = "wantSubject" /\ job'[r].kind \in SubjectOps
            /\ job'[r].subject \in Subjects
         \/ /\ pc'[r] = "wantCRL"
            /\ job'[r].kind \in {"RevokeSerial", "Sweep", "Refresh", "Cleanup"},
         job'[r].done = {}, job'[r].stage # "retire"
  PROVE  OwnAt(r)'
<1>1. ControlAt(r)'
  BY DEF ControlAt, Kind, SubjectPoints, SubjectOps, Issuing, CRLKinds
<1>2. MutexAt(r)'
  BY DEF MutexAt, Kind, CRLPoints, SubjectPoints, SubjectOps, Issuing
<1>3. SnapshotAt(r)' /\ PendingAt(r)'
  BY DEF SnapshotAt, PendingAt, At
<1>4. DoneAt(r)'
  BY DEF DoneAt, CRLPoints
<1> QED BY <1>1, <1>2, <1>3, <1>4 DEF OwnAt

\* A step inside the subject lock that does not touch the locks.
LEMMA SubjectMove ==
  ASSUME TypeOK, NEW r \in Replicas, OwnAt(r), pc[r] \in SubjectPoints,
         pc'[r] \in {"autosign", "sign", "recheckList", "evict", "saveCert",
                     "append", "dropCSR", "wantCRL"},
         UNCHANGED locks,
         job'[r].kind = job[r].kind, job'[r].subject = job[r].subject,
         job'[r].stage = job[r].stage, job'[r].done = job[r].done,
         pc'[r] = "wantCRL" => Kind(r) \in CRLKinds,
         pc'[r] = "recheckList" => pc[r] = "recheckCRL",
         pc'[r] = "evict" => Kind(r) = "Generate",
         \/ pc'[r] = "dropCSR"
         \/ pc[r] \notin {"cleanDelete", "dropCSR"}
         \/ Kind(r) = "Renew"
  PROVE  ControlAt(r)' /\ MutexAt(r)' /\ SnapshotAt(r)' /\ DoneAt(r)'
<1>1. ControlAt(r)'
  BY DEF OwnAt, ControlAt, Kind, SubjectPoints
<1>2. MutexAt(r)'
  BY DEF OwnAt, ControlAt, MutexAt, Kind, CRLPoints, SubjectPoints, locks
<1>3. SnapshotAt(r)'
  BY DEF SnapshotAt, At
<1>4. DoneAt(r)'
  <2>1. job[r].done # {} => pc'[r] = "dropCSR" /\ Kind(r) \in {"Clean", "Revoke", "Sweep"}
    BY DEF OwnAt, DoneAt, CRLPoints, SubjectPoints
  <2> QED BY <2>1 DEF DoneAt, Kind, CRLPoints
<1> QED BY <1>1, <1>2, <1>3, <1>4

\* Leaving the CRL lock for a point inside the subject lock.
LEMMA LeaveStep ==
  ASSUME TypeOK, NEW r \in Replicas, OwnAt(r), pc[r] \in CRLPoints,
         NEW p, LeaveCRL(r, p),
         \/ p = "cleanDelete" /\ Kind(r) = "Clean"
         \/ p = "evict" /\ Kind(r) = "Generate"
  PROVE  OwnAt(r)' /\ Apart(r)
<1>1. pc'[r] = p /\ job' = job /\ subjectLock' = subjectLock /\ crlLock = r
  BY GotoStep DEF LeaveCRL, OwnAt, MutexAt
<1>2. ControlAt(r)'
  BY <1>1 DEF OwnAt, ControlAt, Kind, SubjectOps, Issuing
<1>3. MutexAt(r)'
  BY <1>1 DEF OwnAt, MutexAt, Kind, SubjectOps, Issuing, CRLPoints
<1>4. SnapshotAt(r)' /\ PendingAt(r)'
  BY <1>1 DEF SnapshotAt, PendingAt, At, Kind
<1>5. DoneAt(r)'
  BY <1>1 DEF OwnAt, DoneAt, Kind, CRLPoints
<1>6. Apart(r)
  BY <1>1, GotoStep DEF LeaveCRL, Apart
<1> QED BY <1>2, <1>3, <1>4, <1>5, <1>6 DEF OwnAt

\* Ending a revocation: Revoke returns, Clean goes on under the subject lock.
LEMMA RevokeEndsStep ==
  ASSUME TypeOK, NEW r \in Replicas, OwnAt(r), pc[r] \in CRLPoints, RevokeEnds(r)
  PROVE  OwnAt(r)' /\ Apart(r)
BY LeaveStep, ReturnStep DEF RevokeEnds, Apart

\* A step from one point inside the CRL lock to another.
LEMMA CRLMove ==
  ASSUME TypeOK, NEW r \in Replicas, OwnAt(r), pc[r] \in CRLPoints,
         pc'[r] \in CRLPoints, UNCHANGED locks,
         job'[r].kind = job[r].kind, job'[r].subject = job[r].subject
  PROVE  MutexAt(r)' /\ PendingAt(r)'
BY DEF OwnAt, MutexAt, PendingAt, Kind, CRLPoints, SubjectPoints, locks

\* What follows the dealing with the CRL for one batch of serials, which must be
\* on the CRL when it is taken for done.
LEMMA AfterCRLStep ==
  ASSUME TypeOK, NEW r \in Replicas, OwnAt(r), pc[r] \in {"crlRead", "crlWrite"},
         NEW batch \in SUBSET Serials, NEW ok \in BOOLEAN, AfterCRL(r, batch, ok),
         UNCHANGED <<superseded, expired>>,
         Kind(r) # "Cleanup" => crl.revoked \subseteq crl'.revoked,
         ok /\ Kind(r) # "Cleanup" => batch \subseteq crl'.revoked
  PROVE  OwnAt(r)' /\ Apart(r)
<1>a. pc[r] \in CRLPoints /\ job[r] \in Jobs
  BY DEF TypeOK, CRLPoints
<1>1. ASSUME job[r].stage = "retire", UNCHANGED locks,
             Locals(r, [job[r] EXCEPT !.todo = @ \ batch,
                                      !.done = IF ok THEN @ \cup batch ELSE @]),
             pc'[r] \in {"listWrite", "crlRead"}
      PROVE  OwnAt(r)'
  <2> USE <1>1
  <2>1. /\ job'[r].kind = job[r].kind /\ job'[r].subject = job[r].subject
        /\ job'[r].stage = "retire" /\ job'[r].list = job[r].list
        /\ job'[r].done \subseteq job[r].done \cup (IF ok THEN batch ELSE {})
    <3> DEFINE l == [job[r] EXCEPT !.todo = @ \ batch,
                                   !.done = IF ok THEN @ \cup batch ELSE @]
    <3>1. job'[r] = l
      BY LocalsStep
    <3> QED BY <1>a, <3>1 DEF Jobs
  <2>2. Kind(r) \in {"Revoke", "Clean"}
    BY DEF OwnAt, ControlAt
  <2>3. ControlAt(r)'
    BY <2>1, <2>2 DEF OwnAt, ControlAt, Kind, SubjectPoints, CRLKinds
  <2>4. MutexAt(r)' /\ PendingAt(r)'
    BY <1>a, <2>1, CRLMove DEF CRLPoints
  <2>5. SnapshotAt(r)'
    BY <2>1 DEF OwnAt, SnapshotAt, At, Kind
  <2>6. DoneAt(r)'
    BY <1>a, <2>1, <2>2 DEF OwnAt, DoneAt, Kind, CRLPoints
  <2> QED BY <2>3, <2>4, <2>5, <2>6 DEF OwnAt
<1>2. ASSUME Kind(r) = "Sweep", UNCHANGED locks, Goto(r, "listWrite"),
             Locals(r, [job[r] EXCEPT !.done = IF ok THEN batch ELSE {}])
      PROVE  OwnAt(r)'
  <2> USE <1>2
  <2>1. /\ job'[r].kind = "Sweep" /\ job'[r].subject = job[r].subject
        /\ job'[r].stage = job[r].stage /\ job'[r].list = job[r].list
        /\ job'[r].done = IF ok THEN batch ELSE {}
        /\ pc'[r] = "listWrite"
    <3> DEFINE l == [job[r] EXCEPT !.done = IF ok THEN batch ELSE {}]
    <3>1. job'[r] = l /\ pc'[r] = "listWrite"
      BY LocalsStep, GotoStep
    <3> QED BY <1>a, <3>1 DEF Jobs, Kind
  <2>2. ControlAt(r)'
    BY <2>1 DEF OwnAt, ControlAt, Kind, SubjectPoints
  <2>3. MutexAt(r)' /\ PendingAt(r)'
    BY <1>a, <2>1, CRLMove DEF CRLPoints, Kind
  <2>4. SnapshotAt(r)'
    BY <2>1 DEF OwnAt, SnapshotAt, At, Kind
  <2>5. DoneAt(r)'
    BY <2>1 DEF DoneAt, Kind, CRLPoints
  <2> QED BY <2>2, <2>3, <2>4, <2>5 DEF OwnAt
<1>3. ASSUME Kind(r) = "Cleanup", Goto(r, "blobRead"), UNCHANGED <<locks, job>>
      PROVE  OwnAt(r)'
  <2> USE <1>3
  <2>1. pc'[r] = "blobRead" /\ job'[r] = job[r] /\ job[r].done = {}
    BY GotoStep DEF OwnAt, DoneAt
  <2>2. ControlAt(r)' /\ SnapshotAt(r)' /\ DoneAt(r)'
    BY <2>1 DEF OwnAt, ControlAt, SnapshotAt, DoneAt, At, Kind, SubjectPoints
  <2> QED BY <1>a, <2>1, <2>2, CRLMove DEF OwnAt, CRLPoints
<1>4. ASSUME UNCHANGED locks PROVE Apart(r)
  BY SMTT(30), <1>4, GotoStep, LocalsStep, ReturnStep, LeaveStep, RevokeEndsStep, <1>a
  DEF AfterCRL, Apart, locks
<1>5. ASSUME Return(r) \/ RevokeEnds(r) \/ (LeaveCRL(r, "evict") /\ Kind(r) = "Generate")
      PROVE  OwnAt(r)' /\ Apart(r)
  BY <1>a, <1>5, ReturnStep, RevokeEndsStep, LeaveStep DEF Apart
<1> QED BY <1>1, <1>2, <1>3, <1>4, <1>5, GotoStep DEF AfterCRL

\* What a batch is and what re-signing with it lists.
LEMMA BatchStep ==
  ASSUME TypeOK, NEW r \in Replicas, NEW batch \in Batches(r)
  PROVE  /\ batch \in SUBSET Serials
         /\ Kind(r) # "Cleanup" => Entries(r, batch) = job[r].view.revoked \cup batch
         /\ NextCRL(r, batch).revoked = Entries(r, batch)
<1>1. job[r].todo \in SUBSET Serials
  BY DEF TypeOK, Jobs
<1> QED BY <1>1 DEF Batches, Entries, NextCRL

-----------------------------------------------------------------------------
(* Every step keeps the types *)

\* Every step keeps TypeOK where Control holds.
LEMMA TypeStep ==
  ASSUME TypeOK, Control, [Next]_vars
  PROVE  TypeOK'
<1>a. LocalOK
  BY DEF TypeOK, LocalOK
<1>b. UNCHANGED faults \/ Fault => faults' \in 0..MaxFaults
  BY SMTT(30), ConstantsAssumption DEF TypeOK, Fault
<1>c. Counted => started' \in 0..MaxRequests
  BY SMTT(30), ConstantsAssumption DEF TypeOK, Counted
\* The types are kept by: requests and background jobs arriving.
<1>1. ASSUME NEW r \in Replicas
      PROVE  Call(r) \/ CallSweep(r)
                 => TypeOK'
  <2>1. ASSUME NEW kind \in SubjectOps, NEW s \in Subjects,
               NEW force \in BOOLEAN, CallSubject(r, kind, s, force)
        PROVE  TypeOK'
    <3> USE <2>1
    <3>1. LocalOK'
      BY <1>a, BeginType DEF CallSubject, Kinds, Points
    <3> QED BY <3>1, <1>c
            DEF TypeOK, LocalOK, CallSubject, Begin, store, time
  <2>2. ASSUME NEW kind \in {"Renew", "AutoRenew"},
               NEW n \in DOMAIN owner, CallRenewal(r, kind, n)
        PROVE  TypeOK'
    <3> USE <2>2
    <3>1. LocalOK'
      BY <1>a, OwnersType, BeginType
      DEF CallRenewal, Kinds, SubjectOps, Issuing, Points
    <3> QED BY <3>1, <1>c
            DEF TypeOK, LocalOK, CallRenewal, Begin, store, time
  <2>3. ASSUME NEW n \in DOMAIN owner, NEW force \in BOOLEAN,
               CallRevokeSerial(r, n, force)
        PROVE  TypeOK'
    <3> USE <2>3
    <3>1. LocalOK'
      BY <1>a, OwnersType, BeginType DEF CallRevokeSerial, Kinds, CRLOps, Points
    <3> QED BY <3>1, <1>c
            DEF TypeOK, LocalOK, CallRevokeSerial, Begin, store, time
  <2>4. ASSUME NEW kind \in {"Refresh", "Cleanup"},
               CallBackground(r, kind)
        PROVE  TypeOK'
    <3> USE <2>4
    <3>1. LocalOK'
      BY <1>a, BeginType DEF CallBackground, Kinds, CRLOps, Points
    <3> QED BY <3>1, <1>c
            DEF TypeOK, LocalOK, CallBackground, Begin, store, time
  <2>5. ASSUME CallSweep(r)
        PROVE  TypeOK'
    <3> USE <2>5
    <3>1. LocalOK'
      BY <1>a, BeginType DEF CallSweep, Kinds, CRLOps, Points
    <3> QED BY <3>1 DEF TypeOK, LocalOK, CallSweep, Begin, store, time
  <2> QED BY <2>1, <2>2, <2>3, <2>4, <2>5 DEF Call
\* The types are kept by: the distributed locks.
<1>2. ASSUME NEW r \in Replicas
      PROVE  AcquireSubject(r) \/ AcquireCRL(r)
                 => TypeOK'
  <2>1. ASSUME AcquireSubject(r)
        PROVE  TypeOK'
    <3> USE <2>1
    <3>1. LocalOK'
      BY SMTT(30), <1>a DEF LocalOK, AcquireSubject, Control, ControlAt, Kind, At, Goto,
         SubjectEntry, SubjectOps, Issuing, SubjectPoints, Points
    <3> QED BY <3>1 DEF TypeOK, LocalOK, AcquireSubject, store, time
  <2>2. ASSUME AcquireCRL(r)
        PROVE  TypeOK'
    <3> USE <2>2
    <3>1. LocalOK'
      BY SMTT(30), <1>a DEF LocalOK, AcquireCRL, Control, ControlAt, Kind, At, Goto, CRLEntry,
         CRLKinds, CRLPoints, Points
    <3> QED BY <3>1 DEF TypeOK, LocalOK, AcquireCRL, store, time
  <2> QED BY <2>1, <2>2
\* The types are kept by: SaveRequest, signWithDuration and DeleteRequest.
<1>3. ASSUME NEW r \in Replicas
      PROVE  Submit(r) \/ Autosign(r) \/ SignRequest(r) \/ DeleteRequest(r)
                 => TypeOK'
  <2>1. ASSUME Submit(r)
        PROVE  TypeOK'
    <3> USE <2>1
    <3>1. LocalOK'
      BY <1>a, ReturnType, GotoType
      DEF Submit, LocalOK, locks, SubjectPoints, Points
    <3>2. csr' \in SUBSET Subjects
      BY SMTT(30) DEF TypeOK, Control, ControlAt, Submit, At, SubjectPoints
    <3> QED BY <3>1, <3>2 DEF TypeOK, LocalOK, Submit, time
  <2>2. ASSUME Autosign(r)
        PROVE  TypeOK'
    <3> USE <2>2
    <3>1. LocalOK'
      BY <1>a, ReturnType, GotoType
      DEF Autosign, LocalOK, locks, SubjectPoints, Points
    <3> QED BY <3>1 DEF TypeOK, LocalOK, Autosign, store, time
  <2>3. ASSUME SignRequest(r)
        PROVE  TypeOK'
    <3> USE <2>3
    <3>1. LocalOK'
      BY <1>a, ReturnType, GotoType
      DEF SignRequest, LocalOK, locks, SubjectPoints, Points
    <3> QED BY <3>1 DEF TypeOK, LocalOK, SignRequest, store, time
  <2>4. ASSUME DeleteRequest(r)
        PROVE  TypeOK'
    <3> USE <2>4
    <3>1. LocalOK'
      BY <1>a, ReturnType DEF DeleteRequest
    <3> QED BY <3>1 DEF TypeOK, LocalOK, DeleteRequest, time
  <2> QED BY <2>1, <2>2, <2>3, <2>4
\* The types are kept by: Renew and AutoRenew before they issue.
<1>4. ASSUME NEW r \in Replicas
      PROVE  Gate(r) \/ RecheckCRL(r) \/ RecheckList(r)
                 => TypeOK'
  <2>1. ASSUME Gate(r)
        PROVE  TypeOK'
    <3> USE <2>1
    <3>1. LocalOK'
      BY <1>a, ReturnType, GotoType DEF Gate, LocalOK, locks, Points
    <3>2. cached' \in [Replicas -> CRLs]
      BY DEF TypeOK, Gate, SyncFirst, Newer
    <3>3. faults' \in 0..MaxFaults
      BY <1>b DEF Gate, SyncFirst
    <3> QED BY <3>1, <3>2, <3>3 DEF TypeOK, LocalOK, Gate, store, time
  <2>2. ASSUME RecheckCRL(r)
        PROVE  TypeOK'
    <3> USE <2>2
    <3>1. LocalOK'
      BY <1>a, ReturnType, GotoType
      DEF RecheckCRL, LocalOK, locks, SubjectPoints, Points
    <3>2. cached' \in [Replicas -> CRLs]
      BY DEF TypeOK, RecheckCRL, SyncFirst, Newer
    <3>3. faults' \in 0..MaxFaults
      BY <1>b DEF RecheckCRL, SyncFirst
    <3> QED BY <3>1, <3>2, <3>3 DEF TypeOK, LocalOK, RecheckCRL, store, time
  <2>3. ASSUME RecheckList(r)
        PROVE  TypeOK'
    <3> USE <2>3
    <3>1. Replaced(r) \in Serials \cup {0}
      BY JobFieldsType, LatestType
      DEF RecheckList, Replaced, Control, ControlAt, At, SubjectPoints
    <3>2. [job[r] EXCEPT !.old = Replaced(r), !.todo = {Replaced(r)} \ {0}] \in Jobs
      BY JobFieldsType, <3>1, JobUpdates
    <3>3. LocalOK'
      BY <1>a, <3>2, ReturnType, GotoType, LocalsType
      DEF RecheckList, LocalOK, locks, SubjectPoints, Points
    <3> QED BY <3>3 DEF TypeOK, LocalOK, RecheckList, store, time
  <2> QED BY <2>1, <2>2, <2>3
\* The types are kept by: Generate and Import before they issue.
<1>5. ASSUME NEW r \in Replicas
      PROVE  ReplaceRead(r) \/ Evict(r)
                 => TypeOK'
  <2>1. ASSUME ReplaceRead(r)
        PROVE  TypeOK'
    <3> USE <2>1
    <3> DEFINE held == cert[job[r].subject]
    <3>1. held \in Serials \cup {0}
      BY DEF TypeOK, Control, ControlAt, ReplaceRead, At, SubjectPoints
    <3>2. held # 0 => [job[r] EXCEPT !.old = held, !.todo = {held}] \in Jobs
      BY JobFieldsType, <3>1, JobUpdates
    <3>3. LocalOK'
      BY <1>a, <3>2, GotoType, LocalsType
      DEF ReplaceRead, LocalOK, locks, SubjectPoints, Points
    <3> QED BY <3>3 DEF TypeOK, LocalOK, ReplaceRead, store, time
  <2>2. ASSUME Evict(r)
        PROVE  TypeOK'
    <3> USE <2>2
    <3>1. LocalOK'
      BY <1>a, ReturnType, GotoType
      DEF Evict, LocalOK, locks, SubjectPoints, Points
    <3> QED BY <3>1 DEF TypeOK, LocalOK, Evict, time
  <2> QED BY <2>1, <2>2
\* The types are kept by: the tail of every issuance.
<1>6. ASSUME NEW r \in Replicas
      PROVE  SaveCert(r) \/ AppendInventory(r) \/ DropCSR(r)
                 => TypeOK'
  <2>1. ASSUME SaveCert(r)
        PROVE  TypeOK'
    <3> USE <2>1
    <3>1. job[r].subject \in Subjects
      BY DEF Control, ControlAt, SaveCert, At, SubjectPoints
    <3>2. Len(owner) + 1 \in Serials
      BY SMTT(30) DEF TypeOK, Serials
    <3>3. [job[r] EXCEPT !.new = Len(owner) + 1] \in Jobs
      BY JobFieldsType, <3>2, JobUpdates
    <3>4. LocalOK'
      BY <1>a, <3>3, GotoType, LocalsType
      DEF SaveCert, LocalOK, locks, SubjectPoints, Points
    <3>5. owner' \in Seq(Subjects) /\ cert' \in [Subjects -> Serials \cup {0}]
      BY SMTT(30), <3>1, <3>2 DEF TypeOK, SaveCert
    <3> QED BY <3>4, <3>5 DEF TypeOK, LocalOK, SaveCert, time
  <2>2. ASSUME AppendInventory(r)
        PROVE  TypeOK'
    <3> USE <2>2
    <3>1. LocalOK'
      BY <1>a, ReturnType, GotoType
      DEF AppendInventory, AfterIssue, LocalOK, locks, SubjectPoints, Points
    <3> QED BY SMTT(30), JobFieldsType, <3>1 DEF TypeOK, LocalOK, AppendInventory, time
  <2>3. ASSUME DropCSR(r)
        PROVE  TypeOK'
    <3> USE <2>3
    <3>1. LocalOK'
      BY <1>a, ReturnType, GotoType DEF DropCSR, LocalOK, locks, Points
    <3> QED BY <3>1, <1>b
            DEF TypeOK, LocalOK, DropCSR, time
  <2> QED BY <2>1, <2>2, <2>3
\* The types are kept by: Clean.
<1>7. ASSUME NEW r \in Replicas
      PROVE  CleanRead(r) \/ CleanDelete(r)
                 => TypeOK'
  <2>1. ASSUME CleanRead(r)
        PROVE  TypeOK'
    <3> USE <2>1
    <3>1. LocalOK'
      BY <1>a, ReturnType, GotoType
      DEF CleanRead, LocalOK, locks, SubjectPoints, Points
    <3> QED BY <3>1 DEF TypeOK, LocalOK, CleanRead, store, time
  <2>2. ASSUME CleanDelete(r)
        PROVE  TypeOK'
    <3> USE <2>2
    <3>1. LocalOK'
      BY <1>a, GotoType DEF CleanDelete, LocalOK, locks, SubjectPoints, Points
    <3> QED BY <3>1, <1>b
            DEF TypeOK, LocalOK, CleanDelete, time
  <2> QED BY <2>1, <2>2
\* The types are kept by: what is to be revoked.
<1>8. ASSUME NEW r \in Replicas
      PROVE  RetireRead(r) \/ Latest(r) \/ Check(r) \/ SweepRead(r)
                 => TypeOK'
  <2>1. ASSUME RetireRead(r)
        PROVE  TypeOK'
    <3> USE <2>1
    <3> DEFINE mine == {n \in superseded : owner[n] = job[r].subject}
    <3>1. mine \in SUBSET Serials /\ superseded \in SUBSET Serials
      BY DEF TypeOK
    <3>2. [job[r] EXCEPT !.list = superseded, !.todo = mine, !.stage = "retire"]
            \in Jobs
      BY JobFieldsType, <3>1, JobUpdates
    <3>3. LocalOK'
      BY <1>a, <3>2, GotoType, LocalsType
      DEF RetireRead, LocalOK, locks, CRLPoints, Points
    <3> QED BY <3>3 DEF TypeOK, LocalOK, RetireRead, store, time
  <2>2. ASSUME Latest(r)
        PROVE  TypeOK'
    <3> USE <2>2
    <3> DEFINE n == LatestSerialForSubject(job[r].subject)
    <3>1. n \in Serials \cup {0}
      BY LatestType DEF Latest, Control, ControlAt, At, SubjectOps
    <3>2. n # 0 => [job[r] EXCEPT !.old = n, !.todo = {n}, !.stage = "own"] \in Jobs
      BY JobFieldsType, <3>1, JobUpdates
    <3>3. LocalOK'
      BY <1>a, <3>2, RevokeEndsType, GotoType, LocalsType
      DEF Latest, LocalOK, locks, CRLPoints, Points
    <3> QED BY <3>3 DEF TypeOK, LocalOK, Latest, store, time
  <2>3. ASSUME Check(r)
        PROVE  TypeOK'
    <3> USE <2>3
    <3>1. job[r].serial \in Rows => {job[r].serial} \in SUBSET Serials
      BY JobFieldsType DEF Rows
    <3>2. job[r].serial \in Rows
            => [job[r] EXCEPT !.todo = {job[r].serial}] \in Jobs
      BY JobFieldsType, <3>1, JobUpdates
    <3>3. LocalOK'
      BY <1>a, <3>2, ReturnType, GotoType, LocalsType
      DEF Check, LocalOK, locks, CRLPoints, Points
    <3> QED BY <3>3 DEF TypeOK, LocalOK, Check, store, time
  <2>4. ASSUME SweepRead(r)
        PROVE  TypeOK'
    <3> USE <2>4
    <3> DEFINE due == superseded \cap elapsed
    <3>1. due \in SUBSET Serials /\ superseded \in SUBSET Serials
      BY DEF TypeOK
    <3>2. [job[r] EXCEPT !.list = superseded, !.todo = due] \in Jobs
      BY JobFieldsType, <3>1, JobUpdates
    <3>3. LocalOK'
      BY <1>a, <3>2, ReturnType, GotoType, LocalsType
      DEF SweepRead, LocalOK, locks, CRLPoints, Points
    <3> QED BY <3>3 DEF TypeOK, LocalOK, SweepRead, store, time
  <2> QED BY <2>1, <2>2, <2>3, <2>4
\* The types are kept by: reading and re-signing the CRL.
<1>9. ASSUME NEW r \in Replicas
      PROVE  ReadCRL(r) \/ KeepCRL(r) \/ SignCRL(r)
                 => TypeOK'
  <2>1. ASSUME ReadCRL(r)
        PROVE  TypeOK'
    <3> USE <2>1
    <3>1. [job[r] EXCEPT !.view = crl] \in Jobs
      BY JobFieldsType, JobUpdates DEF TypeOK
    <3>2. LocalOK'
      BY <1>a, <3>1, GotoType, LocalsType
      DEF ReadCRL, LocalOK, locks, CRLPoints, Points
    <3> QED BY <3>2 DEF TypeOK, LocalOK, ReadCRL, store, time
  <2>2. ASSUME KeepCRL(r)
        PROVE  TypeOK'
    <3> USE <2>2
    <3>1. LocalOK'
      BY <1>a, NextCRLType, AfterCRLType DEF KeepCRL
    <3>2. job[r].view \in CRLs
      BY JobFieldsType DEF Jobs
    <3>3. cached' \in [Replicas -> CRLs]
      BY <3>2 DEF TypeOK, KeepCRL, Newer
    <3> QED BY <3>1, <3>3 DEF TypeOK, LocalOK, KeepCRL, store, time
  <2>3. ASSUME SignCRL(r)
        PROVE  TypeOK'
    <3> USE <2>3
    <3>1. LocalOK'
      BY <1>a, NextCRLType, AfterCRLType DEF SignCRL
    <3>2. crl' \in CRLs /\ cached' \in [Replicas -> CRLs]
      BY SMTT(30), NextCRLType DEF TypeOK, SignCRL
    <3> QED BY <3>1, <3>2 DEF TypeOK, LocalOK, SignCRL, store, time
  <2> QED BY <2>1, <2>2, <2>3
\* The types are kept by: the superseded list.
<1>10. ASSUME NEW r \in Replicas
      PROVE  ListRead(r) \/ ListAppend(r) \/ ListWrite(r)
                 => TypeOK'
  <2>1. ASSUME ListRead(r)
        PROVE  TypeOK'
    <3> USE <2>1
    <3>1. [job[r] EXCEPT !.list = superseded] \in Jobs
      BY JobFieldsType, JobUpdates DEF TypeOK
    <3>2. LocalOK'
      BY <1>a, <3>1, GotoType, LocalsType
      DEF ListRead, LocalOK, locks, CRLPoints, Points
    <3> QED BY <3>2 DEF TypeOK, LocalOK, ListRead, store, time
  <2>2. ASSUME ListAppend(r)
        PROVE  TypeOK'
    <3> USE <2>2
    <3>1. LocalOK'
      BY <1>a, ReturnType DEF ListAppend
    <3> QED BY JobFieldsType, <3>1 DEF TypeOK, LocalOK, ListAppend
  <2>3. ASSUME ListWrite(r)
        PROVE  TypeOK'
    <3> USE <2>3
    <3>1. LocalOK'
      BY <1>a, ReturnType, GotoType
      DEF ListWrite, LocalOK, locks, CRLPoints, Points
    <3> QED BY JobFieldsType, <3>1 DEF TypeOK, LocalOK, ListWrite, time
  <2> QED BY <2>1, <2>2, <2>3
\* The types are kept by: CleanupExpiredCerts.
<1>11. ASSUME NEW r \in Replicas
      PROVE  Prune(r) \/ BlobRead(r) \/ BlobDelete(r)
                 => TypeOK'
  <2>1. ASSUME Prune(r)
        PROVE  TypeOK'
    <3> USE <2>1
    <3>1. ASSUME NEW rows \in SUBSET (Rows \cap expired)
          PROVE  [job[r] EXCEPT !.todo = rows] \in Jobs
      <4>1. rows \in SUBSET Serials
        BY DEF TypeOK
      <4> QED BY JobFieldsType, <4>1, JobUpdates
    <3>2. LocalOK'
      BY <1>a, <3>1, ReturnType, GotoType, LocalsType
      DEF Prune, LocalOK, locks, CRLPoints, Points
    <3>3. inventory' \in Seq(Serials \cup {0})
      <4>1. ASSUME NEW rows
            PROVE  [i \in DOMAIN inventory |->
                      IF inventory[i] \in rows THEN 0 ELSE inventory[i]]
                     \in Seq(Serials \cup {0})
        BY SMTT(30) DEF TypeOK
      <4>2. inventory \in Seq(Serials \cup {0})
        BY DEF TypeOK
      <4> QED BY <4>1, <4>2 DEF Prune
    <3>4. faults' \in 0..MaxFaults
      <4>1. UNCHANGED faults \/ Fault
        BY DEF Prune
      <4> QED BY <1>b, <4>1
    <3> QED BY <3>2, <3>3, <3>4 DEF TypeOK, LocalOK, Prune, time
  <2>2. ASSUME BlobRead(r)
        PROVE  TypeOK'
    <3> USE <2>2
    <3>1. ASSUME NEW n \in job[r].todo
          PROVE  [job[r] EXCEPT !.todo = @ \ {n}, !.new = n] \in Jobs
      <4>1. n \in Serials /\ job[r].todo \ {n} \in SUBSET Serials
        BY JobFieldsType
      <4> QED BY JobFieldsType, <4>1, JobUpdates
    <3>2. LocalOK'
      BY <1>a, <3>1, ReturnType, GotoType, LocalsType
      DEF BlobRead, LocalOK, locks, CRLPoints, Points
    <3> QED BY <3>2 DEF TypeOK, LocalOK, BlobRead, store, time
  <2>3. ASSUME BlobDelete(r)
        PROVE  TypeOK'
    <3> USE <2>3
    <3>1. LocalOK'
      BY <1>a, GotoType DEF BlobDelete, LocalOK, locks, CRLPoints, Points
    <3> QED BY <3>1, <1>b
            DEF TypeOK, LocalOK, BlobDelete, time
  <2> QED BY <2>1, <2>2, <2>3
\* The types are kept by: failures and crashes.
<1>12. ASSUME NEW r \in Replicas
      PROVE  Failure(r)
                 => TypeOK'
  <2>1. ASSUME AppendFails(r)
        PROVE  TypeOK'
    <3> USE <2>1
    <3>1. LocalOK'
      BY <1>a, ReturnType DEF AppendFails
    <3>2. faults' \in 0..MaxFaults
      BY <1>b DEF AppendFails
    <3>3. cert' \in [Subjects -> Serials \cup {0}]
      BY DEF TypeOK, AppendFails
    <3> QED BY <3>1, <3>2, <3>3 DEF TypeOK, LocalOK, AppendFails, time
  <2>2. ASSUME SavePrivateKeyFails(r)
        PROVE  TypeOK'
    <3> USE <2>2
    <3>1. LocalOK'
      BY <1>a, ReturnType DEF SavePrivateKeyFails
    <3>2. faults' \in 0..MaxFaults
      BY <1>b DEF SavePrivateKeyFails
    <3> QED BY <3>1, <3>2 DEF TypeOK, LocalOK, SavePrivateKeyFails, time
  <2>3. ASSUME CRLFails(r)
        PROVE  TypeOK'
    <3> USE <2>3
    <3>1. LocalOK'
      BY <1>a, NextCRLType, AfterCRLType DEF CRLFails
    <3>2. crl' \in CRLs
      BY NextCRLType DEF TypeOK, CRLFails
    <3> QED BY <3>1, <3>2, <1>b
            DEF TypeOK, LocalOK, CRLFails, store, time
  <2>4. ASSUME StepFails(r)
        PROVE  TypeOK'
    <3> USE <2>4
    <3>1. LocalOK'
      BY <1>a, ReturnType, GotoType, RevokeEndsType
      DEF StepFails, LocalOK, locks, CRLPoints, SubjectPoints, Points
    <3> QED BY <3>1, <1>b
            DEF TypeOK, LocalOK, StepFails, store, time
  <2>5. ASSUME Crash(r)
        PROVE  TypeOK'
    <3> USE <2>5
    <3>1. LocalOK'
      BY <1>a, ReturnType DEF Crash
    <3>2. faults' \in 0..MaxFaults
      BY <1>b DEF Crash
    <3> QED BY <3>1, <3>2 DEF TypeOK, LocalOK, Crash, store, time
  <2>6. ASSUME HasCertFails(r)
        PROVE  TypeOK'
    <3> USE <2>6
    <3>1. LocalOK'
      BY <1>a, ReturnType, GotoType
      DEF HasCertFails, LocalOK, locks, SubjectPoints, Points
    <3>2. faults' \in 0..MaxFaults
      BY <1>b DEF HasCertFails
    <3>3. cached' \in [Replicas -> CRLs]
      BY DEF TypeOK, HasCertFails
    <3> QED BY <3>1, <3>2, <3>3 DEF TypeOK, LocalOK, HasCertFails, store, time
  <2> QED BY <2>1, <2>2, <2>3, <2>4, <2>5, <2>6 DEF Failure
\* The clock, the background sync and stuttering.
<1>13. ASSUME NEW r \in Replicas, Sync(r) PROVE TypeOK'
  BY <1>13 DEF TypeOK, Sync, store, time, locks
<1>14. ASSUME NEW n \in DOMAIN owner, Elapse(n) \/ Expire(n) PROVE TypeOK'
  BY <1>14, OwnersType DEF TypeOK, Elapse, Expire, store, locks
<1>15. CASE UNCHANGED vars
  BY <1>15 DEF TypeOK, vars, store, time, locks
<1> QED BY <1>1, <1>2, <1>3, <1>4, <1>5, <1>6, <1>7, <1>8, <1>9, <1>10, <1>11, <1>12,
           <1>13, <1>14, <1>15
        DEF Next, Step, Finished

-----------------------------------------------------------------------------
(* The newest row of a subject *)

\* The rows of a subject, and the last of them.
RowsOf(s) == {i \in DOMAIN inventory : inventory[i] # 0 /\ owner[inventory[i]] = s}

LastOf(rows) == {i \in rows : \A j \in rows : j <= i}

\* LatestSerialForSubject is the serial in the last row.
LEMMA LatestIs ==
  ASSUME NEW s
  PROVE  /\ LastOf(RowsOf(s)) = {} => LatestSerialForSubject(s) = 0
         /\ LastOf(RowsOf(s)) # {} => \E i \in LastOf(RowsOf(s)) :
              LatestSerialForSubject(s) = inventory[i]
BY DEF LatestSerialForSubject, RowsOf, LastOf

\* Nothing is issued and no row written.
LEMMA SameRows ==
  ASSUME UNCHANGED <<owner, inventory>>, NEW s
  PROVE  Of(s)' = Of(s) /\ LatestSerialForSubject(s)' = LatestSerialForSubject(s)
<1>1. Of(s)' = Of(s)
  BY DEF Of
<1>2. LatestSerialForSubject(s)' = LatestSerialForSubject(s)
  BY SMTT(30) DEF LatestSerialForSubject
<1> QED BY <1>1, <1>2

\* A subject's newest row, where it has one, is of a certificate issued to it.
LEMMA LatestOf ==
  ASSUME Books, NEW s
  PROVE  LatestSerialForSubject(s) \in Of(s) \cup {0}
BY SMTT(30), LatestIs DEF LastOf, RowsOf, Books, Of

\* Issuing a certificate adds no row.
LEMMA LatestKept ==
  ASSUME Books, NEW s,
         inventory' = inventory,
         \A n \in DOMAIN owner : n \in DOMAIN owner' /\ owner'[n] = owner[n]
  PROVE  LatestSerialForSubject(s)' = LatestSerialForSubject(s)
<1>1. RowsOf(s)' = RowsOf(s)
  BY DEF RowsOf, Books
<1>2. LatestSerialForSubject(s)
        = IF LastOf(RowsOf(s)) = {} THEN 0 ELSE inventory[CHOOSE i \in LastOf(RowsOf(s)) : TRUE]
  BY DEF LatestSerialForSubject, RowsOf, LastOf
<1>3. LatestSerialForSubject(s)'
        = IF LastOf(RowsOf(s)') = {} THEN 0 ELSE inventory'[CHOOSE i \in LastOf(RowsOf(s)') : TRUE]
  BY DEF LatestSerialForSubject, RowsOf, LastOf
<1> QED BY SMTT(30), <1>1, <1>2, <1>3

\* A new row is the newest of its subject and leaves the others alone.
LEMMA LatestAppended ==
  ASSUME TypeOK, Books, NEW n \in DOMAIN owner, NEW s,
         inventory' = Append(inventory, n), owner' = owner
  PROVE  LatestSerialForSubject(s)'
           = IF owner[n] = s THEN n ELSE LatestSerialForSubject(s)
<1>0. inventory \in Seq(Serials \cup {0}) /\ n \in Serials
  BY OwnersType DEF TypeOK
<1>1. PICK m \in Nat :
        /\ DOMAIN inventory = 1..m /\ DOMAIN inventory' = 1..(m + 1)
        /\ \A i \in 1..m : inventory'[i] = inventory[i]
        /\ inventory'[m + 1] = n /\ n # 0
  BY SMTT(30), <1>0 DEF Serials
<1>2. CASE owner[n] = s
  <2>1. m + 1 \in RowsOf(s)' /\ RowsOf(s)' \subseteq 1..(m + 1)
    BY SMTT(30), <1>1, <1>2 DEF RowsOf
  <2>2. LastOf(RowsOf(s)') = {m + 1}
    BY SMTT(30), <2>1 DEF LastOf
  <2> QED BY <1>1, <1>2, <2>2 DEF LatestSerialForSubject, RowsOf, LastOf
<1>3. CASE owner[n] # s
  <2>1. RowsOf(s)' = RowsOf(s) /\ RowsOf(s) \subseteq 1..m
    BY SMTT(30), <1>1, <1>3 DEF RowsOf
  <2> DEFINE last == LastOf(RowsOf(s))
  <2>2. last # {} => inventory'[CHOOSE i \in last : TRUE] = inventory[CHOOSE i \in last : TRUE]
    BY <1>1, <2>1 DEF LastOf
  <2> QED BY <1>3, <2>1, <2>2 DEF LatestSerialForSubject, RowsOf, LastOf
<1> QED BY <1>2, <1>3

-----------------------------------------------------------------------------
(* The subject an operation works on *)

\* The actions that only happen where something fails or where a subject is
\* worked on without its lock.
LEMMA Excluded ==
  ASSUME Undisturbed, Inv, Consistent, NEW r \in Replicas
  PROVE  /\ ~Fault /\ ~Failure(r)
         /\ ~Check(r) /\ ~Prune(r) /\ ~BlobRead(r) /\ ~BlobDelete(r)
<1>1. ~Fault
  BY SMTT(30) DEF Undisturbed, Inv, TypeOK, Fault
<1>2. ~Failure(r)
  BY <1>1 DEF Failure, AppendFails, SavePrivateKeyFails, CRLFails, StepFails,
     HasCertFails, Crash
<1>3. ControlAt(r) /\ AskedAt(r)
  BY DEF Inv, Own, OwnAt, Consistent, SubjectAt
<1>4. pc[r] \notin {"check", "prune", "blobRead", "blobDelete"}
  BY <1>3 DEF ControlAt, AskedAt
<1> QED BY <1>1, <1>2, <1>4 DEF Check, Prune, BlobRead, BlobDelete, At

\* Where an operation is inside its subject's lock.
LEMMA Working ==
  ASSUME Inv, NEW r \in Replicas,
         pc[r] \in SubjectPoints \/ (InCRL(r) /\ Kind(r) \in SubjectOps)
  PROVE  /\ subjectLock[job[r].subject] = r
         /\ job[r].subject \in Subjects /\ Kind(r) \in SubjectOps
BY DEF Inv, Own, OwnAt, MutexAt, ControlAt, InCRL

\* What is put on the CRL, of a subject that r does not work on, is over its
\* overlap; a batch is part of what is to do and what is signed adds it to what
\* is stored.
LEMMA BatchTargets ==
  ASSUME Undisturbed, Inv, Consistent, NEW r \in Replicas, At(r, "crlWrite"),
         NEW batch \in Batches(r)
  PROVE  /\ batch \subseteq job[r].todo
         /\ job[r].view = crl
         /\ Entries(r, batch) = crl.revoked \cup batch
         /\ NextCRL(r, batch).revoked = crl.revoked \cup batch
         /\ \A s \in Subjects : subjectLock[s] # r
              => Of(s) \cap job[r].todo \subseteq superseded \cap elapsed
<1>1. AskedAt(r) /\ TargetsAt(r) /\ ReplacesAt(r) /\ ControlAt(r) /\ job[r].view = crl
  BY DEF Inv, Own, OwnAt, SnapshotAt, Consistent, SubjectAt, At
<1>2. batch \subseteq job[r].todo
  BY DEF Batches
<1>3. Entries(r, batch) = crl.revoked \cup batch
  BY <1>1 DEF AskedAt, Entries
<1>4. NextCRL(r, batch).revoked = crl.revoked \cup batch
  BY <1>3 DEF NextCRL
<1>5. ASSUME NEW s \in Subjects, subjectLock[s] # r
      PROVE  Of(s) \cap job[r].todo \subseteq superseded \cap elapsed
  <2>1. Kind(r) \in {"Revoke", "Clean", "Renew", "AutoRenew", "Generate", "Sweep", "Refresh"}
    BY <1>1 DEF ControlAt, AskedAt, CRLKinds, At
  <2>2. InCRL(r) /\ Rewrites(r)
    BY DEF InCRL, Rewrites, CRLPoints, At
  <2>3. CASE Kind(r) \in {"Revoke", "Clean", "Renew", "AutoRenew", "Generate"}
    <3> USE <2>3
    <3>1. subjectLock[job[r].subject] = r
      BY <2>2, Working DEF SubjectOps, Issuing
    <3>2. job[r].todo \subseteq Of(job[r].subject)
      BY SMTT(30), <1>1, <2>2 DEF TargetsAt, ReplacesAt, Renews, Revokes
    <3> QED BY <1>5, <3>1, <3>2 DEF Of
  <2>4. CASE Kind(r) = "Sweep"
    BY <1>1, <2>2, <2>4 DEF TargetsAt
  <2>5. CASE Kind(r) = "Refresh"
    BY <1>1, <2>5 DEF AskedAt
  <2> QED BY <2>1, <2>3, <2>4, <2>5
<1> QED BY <1>1, <1>2, <1>3, <1>4, <1>5

\* The superseded list after a step: entries leave it for the CRL, and what a
\* renewal adds is the subject's.
LEMMA ListTargets ==
  ASSUME Undisturbed, Inv, Consistent, NEW r \in Replicas
  PROVE  /\ ListAppend(r) =>
              /\ job[r].todo = {job[r].old} /\ job[r].old \in Of(job[r].subject)
              /\ superseded' = superseded \cup {job[r].old}
              /\ elapsed' = elapsed \ {job[r].old}
              /\ subjectLock[job[r].subject] = r
         /\ ListWrite(r) =>
              /\ superseded' = superseded \ job[r].done
              /\ job[r].done \subseteq crl.revoked
<1>1. ControlAt(r) /\ SnapshotAt(r) /\ DoneAt(r) /\ ReplacesAt(r)
  BY DEF Inv, Own, OwnAt, Consistent, SubjectAt
<1>2. ASSUME ListAppend(r)
      PROVE  /\ job[r].todo = {job[r].old} /\ job[r].old \in Of(job[r].subject)
             /\ superseded' = superseded \cup {job[r].old}
             /\ elapsed' = elapsed \ {job[r].old}
             /\ subjectLock[job[r].subject] = r
  <2> USE <1>2
  <2>1. Renews(r) /\ InCRL(r)
    BY <1>1 DEF ListAppend, ControlAt, Renews, InCRL, At, CRLPoints
  <2>2. subjectLock[job[r].subject] = r
    BY <2>1, Working DEF Renews, SubjectOps, Issuing
  <2>3. job[r].todo = {job[r].old} /\ job[r].old \in Of(job[r].subject)
    BY <1>1, <2>1 DEF ReplacesAt
  <2>4. job[r].list = superseded
    BY <1>1 DEF SnapshotAt, ListAppend, At
  <2> QED BY <2>2, <2>3, <2>4 DEF ListAppend
<1>3. ASSUME ListWrite(r)
      PROVE  /\ superseded' = superseded \ job[r].done
             /\ job[r].done \subseteq crl.revoked
  BY <1>1, <1>3 DEF SnapshotAt, DoneAt, ListWrite, At, CRLPoints
<1> QED BY <1>2, <1>3

\* The certificate an operation saves is its subject's and has a new serial.
LEMMA SaveCertOwner ==
  ASSUME Inv, NEW r \in Replicas, SaveCert(r)
  PROVE  /\ Len(owner) + 1 \in Nat \ {0} /\ DOMAIN owner = 1..Len(owner)
         /\ DOMAIN owner' = DOMAIN owner \cup {Len(owner) + 1}
         /\ owner'[Len(owner) + 1] = job[r].subject
         /\ \A n \in DOMAIN owner : n \in DOMAIN owner' /\ owner'[n] = owner[n]
<1>1. owner' = Append(owner, job[r].subject) /\ At(r, "saveCert")
  BY DEF SaveCert
<1>2. job[r].subject \in Subjects
  BY <1>1, Working DEF At, SubjectPoints
<1>3. owner \in Seq(Subjects)
  BY DEF Inv, TypeOK
<1> QED BY SMTT(30), <1>1, <1>2, <1>3

\* Where nothing about certificates is written.
LEMMA SameStore ==
  ASSUME UNCHANGED <<csr, cert, owner, inventory, crl, superseded>>, NEW s
  PROVE  /\ Of(s)' = Of(s) /\ Valid(s)' = Valid(s) /\ (Settled(s)' <=> Settled(s))
         /\ LatestSerialForSubject(s)' = LatestSerialForSubject(s)
<1>1. Of(s)' = Of(s) /\ LatestSerialForSubject(s)' = LatestSerialForSubject(s)
  BY SameRows
<1>2. Valid(s)' = Valid(s)
  BY <1>1 DEF Valid
<1>3. Settled(s)' <=> Settled(s)
  BY <1>1, <1>2 DEF Settled
<1> QED BY <1>1, <1>2, <1>3

\* What the invariants say of the replica that moves.
LEMMA Facts ==
  ASSUME Inv, Consistent, NEW r \in Replicas
  PROVE  /\ TypeOK /\ ControlAt(r) /\ MutexAt(r) /\ SnapshotAt(r) /\ DoneAt(r)
         /\ HeldAt(r) /\ AskedAt(r) /\ TargetsAt(r) /\ IssuesAt(r) /\ ReplacesAt(r)
         /\ RevokesAt(r) /\ CleansAt(r) /\ SettledAt(r)
         /\ job[r] \in Jobs /\ Books
BY JobFieldsType DEF Inv, Own, OwnAt, Consistent, SubjectAt

-----------------------------------------------------------------------------
(* The ways an operation goes on *)

\* The subject is settled, the operation returns.
LEMMA ReturnSubject ==
  ASSUME Inv, NEW r \in Replicas, HeldAt(r), Return(r),
         \A s \in Subjects : subjectLock[s] = r => Settled(s)'
  PROVE  Keeps(r)
<1>1. pc'[r] = "idle" /\ job'[r] = NoJob
  BY ReturnStep DEF Inv
<1>2. \A s \in Subjects : subjectLock'[s] # r
  BY ConstantsAssumption DEF Return
<1>3. HeldAt(r)'
  BY <1>2 DEF HeldAt
<1>4. Kind(r)' = "none" /\ ~Renews(r)' /\ ~Revokes(r)'
  BY SMTT(30), <1>1 DEF Kind, NoJob, Renews, Revokes
<1>5. ~Rewrites(r)' /\ ~InCRL(r)'
  BY <1>1 DEF Rewrites, InCRL, CRLPoints
<1>6. AskedAt(r)' /\ TargetsAt(r)'
  BY <1>4, <1>5 DEF AskedAt, TargetsAt
<1>7. IssuesAt(r)' /\ ReplacesAt(r)'
  BY <1>1, <1>4, <1>5 DEF IssuesAt, ReplacesAt
<1>8. RevokesAt(r)' /\ CleansAt(r)' /\ SettledAt(r)'
  BY <1>1, <1>4, <1>5 DEF RevokesAt, CleansAt, SettledAt, Before
<1> QED BY <1>3, <1>6, <1>7, <1>8 DEF Keeps, SubjectAt, Released

\* The operation goes on inside its subject's lock, or without it.
LEMMA StaySubject ==
  ASSUME NEW r \in Replicas, HeldAt(r), UNCHANGED subjectLock,
         job'[r].kind = job[r].kind, job'[r].subject = job[r].subject,
         pc'[r] \in SubjectPoints \cup CRLPoints \cup {"wantCRL"}
  PROVE  HeldAt(r)'
BY DEF HeldAt, Kind

\* Releases nothing.
LEMMA KeepsLocks ==
  ASSUME Inv, NEW r \in Replicas, UNCHANGED subjectLock
  PROVE  Released(r)
BY ConstantsAssumption DEF Released

\* 0 is nobody's certificate.
LEMMA ZeroIsNone ==
  ASSUME Inv, NEW s
  PROVE  0 \notin Of(s) /\ (Valid(s) \subseteq {0} => Valid(s) = {})
BY OwnersType DEF Inv, Of, Valid, Serials

\* Going on to a point outside the CRL lock, the local variables but the new and
\* the replaced serial as they were.
LEMMA GoesOn ==
  ASSUME Inv, Consistent, NEW r \in Replicas,
         pc[r] # "gate", pc'[r] \in SubjectPoints \cup {"wantCRL"},
         Kind(r) \in SubjectOps,
         UNCHANGED <<subjectLock, superseded, elapsed>>,
         job'[r].kind = job[r].kind, job'[r].subject = job[r].subject,
         job'[r].serial = job[r].serial,
         \A n \in DOMAIN owner : n \in DOMAIN owner' /\ owner'[n] = owner[n]
  PROVE  /\ HeldAt(r)' /\ AskedAt(r)' /\ TargetsAt(r)' /\ RevokesAt(r)' /\ Released(r)
         /\ Kind(r)' = Kind(r) /\ (Renews(r)' <=> Renews(r))
<1>1. HeldAt(r) /\ AskedAt(r)
  BY Facts
<1>2. Kind(r)' = Kind(r) /\ (Renews(r)' <=> Renews(r)) /\ Kind(r) # "Refresh"
  BY DEF Kind, Renews, SubjectOps, Issuing
<1>3. HeldAt(r)' /\ Released(r)
  BY <1>1, StaySubject, KeepsLocks
<1>4. AskedAt(r)'
  BY <1>1, <1>2 DEF AskedAt, Of
<1>5. TargetsAt(r)' /\ RevokesAt(r)'
  BY DEF TargetsAt, RevokesAt, Rewrites, SubjectPoints
<1> QED BY <1>2, <1>3, <1>4, <1>5
=============================================================================
