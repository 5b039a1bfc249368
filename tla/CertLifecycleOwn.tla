-------------------------- MODULE CertLifecycleOwn --------------------------
(***************************************************************************)
(* Own is kept, for any number of replicas, subjects, requests and faults: *)
(* a step of r re-establishes OwnAt(r) and stays within Guarantee(r)       *)
(* (OwnStep), and Guarantee(r) is enough for OwnAt(q) of every other q     *)
(* (OthersKeepOwn).                                                        *)
(***************************************************************************)
EXTENDS CertLifecycleTypes

\* Zenon proves what names no other prover.
USE ZenonT(60)

-----------------------------------------------------------------------------
(* Every step *)

\* Every step of r keeps r's own part and its guarantee.
LEMMA OwnStep ==
  ASSUME TypeOK, Own, NEW r \in Replicas, Moves(r)
  PROVE  Guarantee(r) /\ OwnAt(r)'
<1>a. OwnAt(r) /\ job[r] \in Jobs
  BY DEF TypeOK, Own
<1> USE <1>a
\* Own part and guarantee are kept by: requests and background jobs arriving.
<1>1. Call(r) \/ CallSweep(r)
             => Guarantee(r) /\ OwnAt(r)'
  <2>1. ASSUME NEW kind \in SubjectOps, NEW s \in Subjects, NEW force \in BOOLEAN,
               CallSubject(r, kind, s, force)
        PROVE  Guarantee(r) /\ OwnAt(r)'
    <3> USE <2>1
    <3>1. /\ job'[r].kind = kind /\ job'[r].subject = s
          /\ job'[r].done = {} /\ job'[r].stage = "own"
      BY BeginStep DEF CallSubject
    <3>2. OwnAt(r)'
      <4>1. pc'[r] = "wantSubject"
        BY GotoStep DEF CallSubject, Begin
      <4> QED BY <3>1, <4>1, WaitStep
    <3> QED BY <3>2, GotoStep, LocalsStep DEF CallSubject, Begin, Guarantee, Apart,
       store, time, locks
  <2>2. ASSUME NEW kind \in {"Renew", "AutoRenew"}, NEW n \in DOMAIN owner,
               CallRenewal(r, kind, n)
        PROVE  Guarantee(r) /\ OwnAt(r)'
    <3> USE <2>2
    <3>1. /\ job'[r].kind = kind /\ job'[r].subject = owner[n]
          /\ job'[r].done = {} /\ job'[r].stage = "own"
      <4>1. PICK s \in Subjects : s = owner[n]
        BY OwnersType
      <4>2. Begin(r, kind, s, n, FALSE, "gate")
        BY <4>1 DEF CallRenewal
      <4>3. job'[r].kind = kind
        BY <4>2, BeginStep
      <4>4. job'[r].subject = s
        BY <4>2, BeginStep
      <4>5. job'[r].done = {} /\ job'[r].stage = "own"
        BY <4>2, BeginStep
      <4> QED BY <4>1, <4>3, <4>4, <4>5
    <3>2. OwnAt(r)'
      <4>1. pc'[r] = "gate"
        BY GotoStep DEF CallRenewal, Begin
      <4> QED BY OwnersType, <3>1, <4>1, WaitStep
    <3> QED BY <3>2, GotoStep, LocalsStep DEF CallRenewal, Begin, Guarantee, Apart,
       store, time, locks
  <2>3. ASSUME NEW n \in DOMAIN owner, NEW force \in BOOLEAN,
               CallRevokeSerial(r, n, force)
        PROVE  Guarantee(r) /\ OwnAt(r)'
    <3> USE <2>3
    <3>1. /\ job'[r].kind = "RevokeSerial"
          /\ job'[r].done = {} /\ job'[r].stage = "own"
      BY BeginStep DEF CallRevokeSerial
    <3>2. OwnAt(r)'
      <4>1. pc'[r] = "wantCRL"
        BY GotoStep DEF CallRevokeSerial, Begin
      <4> QED BY <3>1, <4>1, WaitStep
    <3> QED BY <3>2, GotoStep, LocalsStep DEF CallRevokeSerial, Begin,
       Guarantee, Apart, store, time, locks
  <2>4. ASSUME NEW kind \in {"Refresh", "Cleanup"}, CallBackground(r, kind)
        PROVE  Guarantee(r) /\ OwnAt(r)'
    <3> USE <2>4
    <3>1. /\ job'[r].kind = kind
          /\ job'[r].done = {} /\ job'[r].stage = "own"
      BY BeginStep DEF CallBackground
    <3>2. OwnAt(r)'
      <4>1. pc'[r] = "wantCRL"
        BY GotoStep DEF CallBackground, Begin
      <4> QED BY <3>1, <4>1, WaitStep
    <3> QED BY <3>2, GotoStep, LocalsStep DEF CallBackground, Begin,
       Guarantee, Apart, store, time, locks
  <2>5. ASSUME CallSweep(r)
        PROVE  Guarantee(r) /\ OwnAt(r)'
    <3> USE <2>5
    <3>1. /\ job'[r].kind = "Sweep"
          /\ job'[r].done = {} /\ job'[r].stage = "own"
      BY BeginStep DEF CallSweep
    <3>2. OwnAt(r)'
      <4>1. pc'[r] = "wantCRL"
        BY GotoStep DEF CallSweep, Begin
      <4> QED BY <3>1, <4>1, WaitStep
    <3> QED BY <3>2, GotoStep, LocalsStep DEF CallSweep, Begin, Guarantee, Apart,
       store, time, locks
  <2> QED BY <2>1, <2>2, <2>3, <2>4, <2>5 DEF Call
\* Own part and guarantee are kept by: the distributed locks.
<1>2. AcquireSubject(r) \/ AcquireCRL(r)
             => Guarantee(r) /\ OwnAt(r)'
  <2>1. ASSUME AcquireSubject(r)
        PROVE  Guarantee(r) /\ OwnAt(r)'
    <3> USE <2>1
    <3>1. /\ pc'[r] = SubjectEntry[Kind(r)] /\ job' = job /\ Kind(r) \in SubjectOps
          /\ job[r].done = {} /\ job[r].subject \in Subjects
      BY GotoStep
      DEF AcquireSubject, OwnAt, ControlAt, DoneAt, At, CRLPoints
    <3>2. /\ Kind(r)' = Kind(r)
          /\ \/ Kind(r) = "SaveRequest" /\ pc'[r] = "submit"
             \/ Kind(r) = "Sign" /\ pc'[r] = "sign"
             \/ Kind(r) = "DeleteRequest" /\ pc'[r] = "reject"
             \/ Kind(r) = "Clean" /\ pc'[r] = "cleanRead"
             \/ Kind(r) = "Revoke" /\ pc'[r] = "wantCRL"
             \/ Kind(r) \in {"Renew", "AutoRenew"} /\ pc'[r] = "recheckCRL"
             \/ Kind(r) = "Generate" /\ pc'[r] = "replaceRead"
             \/ Kind(r) = "Import" /\ pc'[r] = "evict"
      <4>1. ASSUME NEW k \in SubjectOps
            PROVE  \/ k = "SaveRequest" /\ SubjectEntry[k] = "submit"
                   \/ k = "Sign" /\ SubjectEntry[k] = "sign"
                   \/ k = "DeleteRequest" /\ SubjectEntry[k] = "reject"
                   \/ k = "Clean" /\ SubjectEntry[k] = "cleanRead"
                   \/ k = "Revoke" /\ SubjectEntry[k] = "wantCRL"
                   \/ k \in {"Renew", "AutoRenew"} /\ SubjectEntry[k] = "recheckCRL"
                   \/ k = "Generate" /\ SubjectEntry[k] = "replaceRead"
                   \/ k = "Import" /\ SubjectEntry[k] = "evict"
        BY SMTT(30) DEF SubjectEntry, SubjectOps, Issuing
      <4>2. Kind(r)' = Kind(r)
        BY <3>1 DEF Kind
      <4> QED BY <3>1, <4>1, <4>2
    <3>3. ControlAt(r)'
      <4>1. job[r].stage = "retire" => Kind(r) \in {"Revoke", "Clean"}
        BY DEF OwnAt, ControlAt
      <4> QED BY <3>1, <3>2, <4>1 DEF ControlAt, SubjectPoints, CRLKinds
    <3>4. subjectLock'[job[r].subject] = r
      BY <3>1 DEF AcquireSubject, TypeOK
    <3>5. MutexAt(r)'
      BY <3>1, <3>2, <3>4 DEF MutexAt, CRLPoints
    <3>6. SnapshotAt(r)' /\ PendingAt(r)'
      BY <3>2 DEF SnapshotAt, PendingAt, At
    <3>7. DoneAt(r)'
      BY <3>1, <3>2 DEF DoneAt, CRLPoints
    <3> QED BY SMTT(30), <3>3, <3>5, <3>6, <3>7, GotoStep, ConstantsAssumption
            DEF TypeOK, AcquireSubject, OwnAt, Guarantee, Apart, store, time
  <2>2. ASSUME AcquireCRL(r)
        PROVE  Guarantee(r) /\ OwnAt(r)'
    <3> USE <2>2
    <3>1. /\ pc'[r] = CRLEntry[Kind(r)] /\ job' = job /\ Kind(r) \in CRLKinds
          /\ job[r].done = {}
      BY GotoStep
      DEF AcquireCRL, OwnAt, ControlAt, DoneAt, At, CRLPoints
    <3>2. /\ Kind(r)' = Kind(r)
          /\ \/ Kind(r) \in {"Revoke", "Clean"} /\ pc'[r] = "retireRead"
             \/ Kind(r) = "RevokeSerial" /\ pc'[r] = "check"
             \/ /\ Kind(r) \in {"Renew", "AutoRenew"}
                /\ pc'[r] \in {"crlRead", "listRead"}
             \/ Kind(r) = "Generate" /\ pc'[r] = "crlRead"
             \/ Kind(r) = "Sweep" /\ pc'[r] = "sweepRead"
             \/ Kind(r) = "Refresh" /\ pc'[r] = "crlRead"
             \/ Kind(r) = "Cleanup" /\ pc'[r] = "prune"
      <4>1. ASSUME NEW k \in CRLKinds
            PROVE  \/ k \in {"Revoke", "Clean"} /\ CRLEntry[k] = "retireRead"
                   \/ k = "RevokeSerial" /\ CRLEntry[k] = "check"
                   \/ /\ k \in {"Renew", "AutoRenew"}
                      /\ CRLEntry[k] \in {"crlRead", "listRead"}
                   \/ k = "Generate" /\ CRLEntry[k] = "crlRead"
                   \/ k = "Sweep" /\ CRLEntry[k] = "sweepRead"
                   \/ k = "Refresh" /\ CRLEntry[k] = "crlRead"
                   \/ k = "Cleanup" /\ CRLEntry[k] = "prune"
        BY SMTT(30) DEF CRLEntry, CRLKinds
      <4>2. Kind(r)' = Kind(r)
        BY <3>1 DEF Kind
      <4> QED BY <3>1, <4>1, <4>2
    <3>3. job[r].stage = "retire" => Kind(r) \in {"Revoke", "Clean"}
      BY DEF OwnAt, ControlAt
    <3>4. ControlAt(r)'
      <4>1. Kind(r) \in SubjectOps => job[r].subject \in Subjects
        BY DEF OwnAt, ControlAt
      <4> QED BY <3>1, <3>2, <3>3, <4>1 DEF ControlAt, SubjectPoints, CRLKinds
    <3>5. MutexAt(r)'
      <4>1. Kind(r) \in SubjectOps => subjectLock[job[r].subject] = r
        BY DEF AcquireCRL, At, OwnAt, MutexAt
      <4>2. crlLock' = r /\ subjectLock' = subjectLock
        BY DEF AcquireCRL
      <4> QED BY <3>1, <3>2, <4>1, <4>2 DEF MutexAt, SubjectPoints
    <3>6. SnapshotAt(r)' /\ PendingAt(r)'
      BY <3>1, <3>2, <3>3 DEF SnapshotAt, PendingAt, At
    <3>7. DoneAt(r)'
      BY <3>1, <3>2 DEF DoneAt
    <3> QED BY <3>4, <3>5, <3>6, <3>7, GotoStep, ConstantsAssumption
            DEF TypeOK, AcquireCRL, OwnAt, Guarantee, Apart, store, time
  <2> QED BY <2>1, <2>2
\* Own part and guarantee are kept by: SaveRequest, signWithDuration and DeleteRequest.
<1>3. Submit(r) \/ Autosign(r) \/ SignRequest(r) \/ DeleteRequest(r)
             => Guarantee(r) /\ OwnAt(r)'
  <2>1. ASSUME Submit(r)
        PROVE  Guarantee(r) /\ OwnAt(r)'
    <3> USE <2>1
    <3>1. OwnAt(r)'
      <4>1. ASSUME Goto(r, "autosign"), UNCHANGED <<locks, job>> PROVE OwnAt(r)'
        <5> USE <4>1
        <5>1. pc[r] = "submit" /\ pc'[r] = "autosign" /\ job'[r] = job[r]
          BY GotoStep DEF Submit, At
        <5>2. ControlAt(r)' /\ MutexAt(r)' /\ SnapshotAt(r)' /\ DoneAt(r)'
          BY <5>1, SubjectMove DEF SubjectPoints
        <5> QED BY <5>1, <5>2 DEF OwnAt, PendingAt
      <4> QED BY <4>1, ReturnStep DEF Submit
    <3> QED BY <3>1, ReturnStep, GotoStep DEF Submit, Guarantee, Apart, time,
       locks
  <2>2. ASSUME Autosign(r)
        PROVE  Guarantee(r) /\ OwnAt(r)'
    <3> USE <2>2
    <3>1. OwnAt(r)'
      <4>1. ASSUME Goto(r, "sign"), UNCHANGED <<locks, job>> PROVE OwnAt(r)'
        <5> USE <4>1
        <5>1. pc[r] = "autosign" /\ pc'[r] = "sign" /\ job'[r] = job[r]
          BY GotoStep DEF Autosign, At
        <5>2. ControlAt(r)' /\ MutexAt(r)' /\ SnapshotAt(r)' /\ DoneAt(r)'
          BY <5>1, SubjectMove DEF SubjectPoints
        <5> QED BY <5>1, <5>2 DEF OwnAt, PendingAt
      <4> QED BY <4>1, ReturnStep DEF Autosign
    <3> QED BY <3>1, ReturnStep, GotoStep DEF Autosign, Guarantee, Apart,
       store, time, locks
  <2>3. ASSUME SignRequest(r)
        PROVE  Guarantee(r) /\ OwnAt(r)'
    <3> USE <2>3
    <3>1. ASSUME job[r].subject \in csr, Goto(r, "saveCert"), UNCHANGED <<locks, job>>
          PROVE  OwnAt(r)'
      <4> USE <3>1
      <4>1. pc'[r] = "saveCert" /\ job'[r] = job[r]
        BY GotoStep
      <4>2. PendingAt(r)'
        BY <4>1 DEF SignRequest, PendingAt, Kind, store
      <4>3. pc[r] \in SubjectPoints /\ pc[r] \notin {"cleanDelete", "dropCSR"}
        BY DEF SignRequest, At, SubjectPoints
      <4>4. ControlAt(r)' /\ MutexAt(r)' /\ SnapshotAt(r)' /\ DoneAt(r)'
        BY <4>1, <4>3, SubjectMove
      <4> QED BY <4>2, <4>4 DEF OwnAt
    <3>2. OwnAt(r)'
      BY <3>1, ReturnStep DEF SignRequest
    <3> QED BY <3>2, ReturnStep, GotoStep
            DEF SignRequest, Guarantee, Apart, store, time, locks
  <2>4. ASSUME DeleteRequest(r)
        PROVE  Guarantee(r) /\ OwnAt(r)'
    <3> USE <2>4
    <3>1. OwnAt(r)'
      BY ReturnStep DEF DeleteRequest
    <3> QED BY <3>1, ReturnStep, GotoStep DEF DeleteRequest,
       Guarantee, Apart, time, At, SubjectPoints
  <2> QED BY <2>1, <2>2, <2>3, <2>4
\* Own part and guarantee are kept by: Renew and AutoRenew before they issue.
<1>4. Gate(r) \/ RecheckCRL(r) \/ RecheckList(r)
             => Guarantee(r) /\ OwnAt(r)'
  <2>1. ASSUME Gate(r)
        PROVE  Guarantee(r) /\ OwnAt(r)'
    <3> USE <2>1
    <3>1. OwnAt(r)'
      <4>1. ASSUME Goto(r, "wantSubject"), UNCHANGED <<locks, job>> PROVE OwnAt(r)'
        <5>1. pc[r] = "gate" /\ pc'[r] = "wantSubject" /\ job'[r] = job[r]
          BY <4>1, GotoStep DEF Gate, At
        <5>2. /\ Kind(r) \in {"Renew", "AutoRenew"} /\ job[r].subject \in Subjects
              /\ job[r].stage # "retire" /\ job[r].done = {}
          BY <5>1 DEF OwnAt, ControlAt, DoneAt, SubjectOps, Issuing, CRLPoints
        <5> QED BY <5>1, <5>2, WaitStep DEF Kind, SubjectOps, Issuing
      <4> QED BY <4>1, ReturnStep DEF Gate
    <3> QED BY <3>1, ReturnStep, GotoStep DEF Gate, Guarantee, Apart, store,
       time, locks
  <2>2. ASSUME RecheckCRL(r)
        PROVE  Guarantee(r) /\ OwnAt(r)'
    <3> USE <2>2
    <3>1. OwnAt(r)'
      <4>1. ASSUME Goto(r, "recheckList"), UNCHANGED <<locks, job>> PROVE OwnAt(r)'
        <5> USE <4>1
        <5>1. pc[r] = "recheckCRL" /\ pc'[r] = "recheckList" /\ job'[r] = job[r]
          BY GotoStep DEF RecheckCRL, At
        <5>2. ControlAt(r)' /\ MutexAt(r)' /\ SnapshotAt(r)' /\ DoneAt(r)'
          BY <5>1, SubjectMove DEF SubjectPoints
        <5> QED BY <5>1, <5>2 DEF OwnAt, PendingAt
      <4> QED BY <4>1, ReturnStep DEF RecheckCRL
    <3> QED BY <3>1, ReturnStep, GotoStep DEF RecheckCRL, Guarantee, Apart,
       store, time, locks
  <2>3. ASSUME RecheckList(r)
        PROVE  Guarantee(r) /\ OwnAt(r)'
    <3> USE <2>3
    <3> DEFINE l == [job[r] EXCEPT !.old = Replaced(r), !.todo = {Replaced(r)} \ {0}]
    <3>1. ASSUME Locals(r, l), Goto(r, "saveCert"), UNCHANGED locks
          PROVE  OwnAt(r)'
      <4> USE <3>1
      <4>1. /\ pc'[r] = "saveCert"
            /\ job'[r].kind = job[r].kind /\ job'[r].subject = job[r].subject
            /\ job'[r].stage = job[r].stage /\ job'[r].done = job[r].done
        <5>1. job'[r] = l
          BY LocalsStep
        <5>2. /\ l.kind = job[r].kind /\ l.subject = job[r].subject
              /\ l.stage = job[r].stage /\ l.done = job[r].done
          BY DEF Jobs
        <5> QED BY <5>1, <5>2, GotoStep
      <4>2. PendingAt(r)'
        BY <4>1 DEF RecheckList, OwnAt, ControlAt, PendingAt, Kind, At, store
      <4> QED BY <4>1, <4>2, SubjectMove
              DEF RecheckList, OwnAt, At, SubjectPoints
    <3>2. OwnAt(r)'
      BY <3>1, ReturnStep DEF RecheckList
    <3> QED BY SMTT(30), <3>2, ReturnStep, GotoStep, LocalsStep
            DEF RecheckList, Guarantee, Apart, store, time, locks
  <2> QED BY <2>1, <2>2, <2>3
\* Own part and guarantee are kept by: Generate and Import before they issue.
<1>5. ReplaceRead(r) \/ Evict(r)
             => Guarantee(r) /\ OwnAt(r)'
  <2>1. ASSUME ReplaceRead(r)
        PROVE  Guarantee(r) /\ OwnAt(r)'
    <3> USE <2>1
    <3> DEFINE held == cert[job[r].subject]
               l == [job[r] EXCEPT !.old = held, !.todo = {held}]
    <3>1. /\ l.kind = job[r].kind /\ l.subject = job[r].subject
          /\ l.stage = job[r].stage /\ l.done = job[r].done
      BY DEF Jobs
    <3>2. /\ pc'[r] \in {"evict", "wantCRL"} /\ job'[r] \in {job[r], l}
          /\ UNCHANGED locks
      BY GotoStep, LocalsStep DEF ReplaceRead
    <3>3. Kind(r) = "Generate" /\ pc[r] = "replaceRead"
      BY DEF ReplaceRead, OwnAt, ControlAt, At
    <3>4. OwnAt(r)'
      <4>1. PendingAt(r)'
        BY <3>2 DEF PendingAt
      <4> QED BY <3>1, <3>2, <3>3, <4>1, SubjectMove
              DEF OwnAt, CRLKinds, SubjectPoints
    <3> QED BY <3>4, GotoStep, LocalsStep
            DEF ReplaceRead, Guarantee, Apart, store, time, locks
  <2>2. ASSUME Evict(r)
        PROVE  Guarantee(r) /\ OwnAt(r)'
    <3> USE <2>2
    <3>1. Kind(r) \in {"Generate", "Import"} /\ pc[r] = "evict"
      BY DEF Evict, OwnAt, ControlAt, At
    <3>2. ASSUME Goto(r, "saveCert"), UNCHANGED <<locks, job>>
          PROVE  OwnAt(r)'
      <4> USE <3>2
      <4>1. pc'[r] = "saveCert" /\ job'[r] = job[r]
        BY GotoStep
      <4>2. PendingAt(r)'
        BY <3>1, <4>1 DEF PendingAt, Kind
      <4> QED BY <3>1, <4>1, <4>2, SubjectMove DEF OwnAt, SubjectPoints
    <3>3. OwnAt(r)'
      BY <3>2, ReturnStep DEF Evict
    <3> QED BY <3>3, ReturnStep, GotoStep DEF Evict, Guarantee, Apart, time, locks
  <2> QED BY <2>1, <2>2
\* Own part and guarantee are kept by: the tail of every issuance.
<1>6. SaveCert(r) \/ AppendInventory(r) \/ DropCSR(r)
             => Guarantee(r) /\ OwnAt(r)'
  <2>1. ASSUME SaveCert(r)
        PROVE  Guarantee(r) /\ OwnAt(r)'
    <3> USE <2>1
    <3> DEFINE l == [job[r] EXCEPT !.new = Len(owner) + 1]
    <3>1. /\ l.kind = job[r].kind /\ l.subject = job[r].subject
          /\ l.stage = job[r].stage /\ l.done = job[r].done
      BY DEF Jobs
    <3>2. pc'[r] = "append" /\ job'[r] = l /\ pc[r] = "saveCert"
      BY GotoStep, LocalsStep DEF SaveCert, At
    <3>3. OwnAt(r)'
      <4>1. PendingAt(r)'
        BY <3>1, <3>2 DEF SaveCert, OwnAt, PendingAt, Kind
      <4> QED BY <3>1, <3>2, <4>1, SubjectMove
              DEF SaveCert, OwnAt, SubjectPoints
    <3> QED BY <3>3, GotoStep, LocalsStep DEF SaveCert, Guarantee, Apart, time, locks
  <2>2. ASSUME AppendInventory(r)
        PROVE  Guarantee(r) /\ OwnAt(r)'
    <3> USE <2>2
    <3>1. ASSUME pc'[r] \in {"dropCSR", "wantCRL"}, UNCHANGED <<locks, job>>,
                 pc'[r] = "wantCRL" => Kind(r) = "AutoRenew"
          PROVE  OwnAt(r)'
      <4> USE <3>1
      <4>1. PendingAt(r)'
        BY DEF PendingAt
      <4>2. pc[r] = "append"
        BY DEF AppendInventory, At
      <4> QED BY <4>1, <4>2, SubjectMove DEF OwnAt, CRLKinds, SubjectPoints
    <3>2. OwnAt(r)'
      BY SMTT(30), <3>1, ReturnStep, GotoStep DEF AppendInventory, AfterIssue
    <3> QED BY <3>2, ReturnStep, GotoStep
            DEF AppendInventory, AfterIssue, Guarantee, Apart, time, locks
  <2>3. ASSUME DropCSR(r)
        PROVE  Guarantee(r) /\ OwnAt(r)'
    <3> USE <2>3
    <3>1. ASSUME Goto(r, "wantCRL"), UNCHANGED <<locks, job>>, Kind(r) = "Renew"
          PROVE  OwnAt(r)'
      <4> USE <3>1
      <4>1. pc'[r] = "wantCRL" /\ job'[r] = job[r] /\ pc[r] = "dropCSR"
        BY GotoStep DEF DropCSR, At
      <4>2. PendingAt(r)'
        BY <4>1 DEF PendingAt
      <4> QED BY <4>1, <4>2, SubjectMove DEF OwnAt, CRLKinds, SubjectPoints
    <3>2. OwnAt(r)'
      BY <3>1, ReturnStep DEF DropCSR
    <3>3. csr \ {job[r].subject} \subseteq csr' /\ pc[r] \in SubjectPoints
      BY DEF DropCSR, At, SubjectPoints
    <3> QED BY <3>2, <3>3, ReturnStep, GotoStep DEF DropCSR, Guarantee, Apart, time, locks
  <2> QED BY <2>1, <2>2, <2>3
\* Own part and guarantee are kept by: Clean.
<1>7. CleanRead(r) \/ CleanDelete(r)
             => Guarantee(r) /\ OwnAt(r)'
  <2>1. ASSUME CleanRead(r)
        PROVE  Guarantee(r) /\ OwnAt(r)'
    <3> USE <2>1
    <3>1. ASSUME pc'[r] \in {"dropCSR", "wantCRL"}, UNCHANGED <<locks, job>>
          PROVE  OwnAt(r)'
      <4> USE <3>1
      <4>1. PendingAt(r)'
        BY DEF PendingAt
      <4>2. pc[r] = "cleanRead" /\ Kind(r) = "Clean"
        BY DEF CleanRead, OwnAt, ControlAt, At
      <4> QED BY <4>1, <4>2, SubjectMove DEF OwnAt, CRLKinds, SubjectPoints
    <3>2. OwnAt(r)'
      BY <3>1, ReturnStep, GotoStep DEF CleanRead
    <3> QED BY <3>2, ReturnStep, GotoStep
            DEF CleanRead, Guarantee, Apart, store, time, locks
  <2>2. ASSUME CleanDelete(r)
        PROVE  Guarantee(r) /\ OwnAt(r)'
    <3> USE <2>2
    <3>1. /\ pc'[r] = "dropCSR" /\ pc[r] = "cleanDelete" /\ UNCHANGED <<locks, job>>
      BY GotoStep DEF CleanDelete, At
    <3>2. PendingAt(r)'
      BY <3>1 DEF PendingAt
    <3>3. OwnAt(r)'
      BY <3>1, <3>2, SubjectMove DEF OwnAt, SubjectPoints
    <3> QED BY <3>3, GotoStep DEF CleanDelete, Guarantee, Apart, time, locks
  <2> QED BY <2>1, <2>2
\* Own part and guarantee are kept by: what is to be revoked.
<1>8. RetireRead(r) \/ Latest(r) \/ Check(r) \/ SweepRead(r)
             => Guarantee(r) /\ OwnAt(r)'
  <2>1. ASSUME RetireRead(r)
        PROVE  Guarantee(r) /\ OwnAt(r)'
    <3> USE <2>1
    <3> DEFINE mine == {n \in superseded : owner[n] = job[r].subject}
               l == [job[r] EXCEPT !.list = superseded, !.todo = mine,
                                   !.stage = "retire"]
    <3>1. /\ l.kind = job[r].kind /\ l.subject = job[r].subject
          /\ l.stage = "retire" /\ l.list = superseded /\ l.done = job[r].done
      BY DEF Jobs
    <3>2. /\ pc'[r] \in {"latest", "crlRead"} /\ job'[r] = l
          /\ Kind(r) \in {"Revoke", "Clean"} /\ pc[r] \in CRLPoints
      BY GotoStep, LocalsStep
      DEF RetireRead, OwnAt, ControlAt, At, CRLPoints
    <3>3. ControlAt(r)'
      BY <3>1, <3>2 DEF OwnAt, ControlAt, Kind, SubjectPoints, CRLKinds
    <3>4. MutexAt(r)' /\ PendingAt(r)'
      BY <3>1, <3>2, CRLMove DEF RetireRead, CRLPoints
    <3>5. SnapshotAt(r)'
      BY <3>1, <3>2 DEF RetireRead, SnapshotAt, At, store
    <3>6. DoneAt(r)'
      BY <3>1, <3>2 DEF RetireRead, OwnAt, DoneAt, Kind, CRLPoints
    <3> QED BY <3>3, <3>4, <3>5, <3>6, GotoStep, LocalsStep
            DEF RetireRead, OwnAt, Guarantee, Apart, store, time, locks
  <2>2. ASSUME Latest(r)
        PROVE  Guarantee(r) /\ OwnAt(r)'
    <3> USE <2>2
    <3> DEFINE n == LatestSerialForSubject(job[r].subject)
               l == [job[r] EXCEPT !.old = n, !.todo = {n}, !.stage = "own"]
    <3>1. /\ l.kind = job[r].kind /\ l.subject = job[r].subject
          /\ l.stage = "own" /\ l.done = job[r].done
      BY DEF Jobs
    <3>2. Kind(r) \in {"Revoke", "Clean"} /\ pc[r] \in CRLPoints
      BY DEF Latest, OwnAt, ControlAt, At, CRLPoints
    <3>3. ASSUME Locals(r, l), Goto(r, "crlRead"), UNCHANGED locks
          PROVE  OwnAt(r)' /\ Apart(r)
      <4> USE <3>3
      <4>1. pc'[r] = "crlRead" /\ job'[r] = l
        BY GotoStep, LocalsStep
      <4>2. ControlAt(r)'
        BY <3>1, <3>2, <4>1 DEF OwnAt, ControlAt, Kind, SubjectPoints, CRLKinds
      <4>3. MutexAt(r)' /\ PendingAt(r)'
        BY <3>1, <3>2, <4>1, CRLMove DEF CRLPoints
      <4>4. SnapshotAt(r)'
        BY <3>1, <3>2, <4>1 DEF SnapshotAt, At, Kind
      <4>5. DoneAt(r)'
        BY <3>1, <3>2, <4>1 DEF Latest, OwnAt, DoneAt, Kind, CRLPoints
      <4>6. Apart(r)
        BY GotoStep, LocalsStep DEF Apart, locks
      <4> QED BY <4>2, <4>3, <4>4, <4>5, <4>6 DEF OwnAt
    <3>4. OwnAt(r)' /\ Apart(r)
      BY <3>2, <3>3, RevokeEndsStep DEF Latest
    <3> QED BY <3>4 DEF Latest, Guarantee, Apart, store, time
  <2>3. ASSUME Check(r)
        PROVE  Guarantee(r) /\ OwnAt(r)'
    <3> USE <2>3
    <3> DEFINE l == [job[r] EXCEPT !.todo = {job[r].serial}]
    <3>1. /\ l.kind = job[r].kind /\ l.subject = job[r].subject
          /\ l.stage = job[r].stage /\ l.done = job[r].done
      BY DEF Jobs
    <3>2. Kind(r) = "RevokeSerial" /\ pc[r] \in CRLPoints
      BY DEF Check, OwnAt, ControlAt, At, CRLPoints
    <3>3. ASSUME Locals(r, l), Goto(r, "crlRead"), UNCHANGED locks
          PROVE  OwnAt(r)' /\ Apart(r)
      <4> USE <3>3
      <4>1. pc'[r] = "crlRead" /\ job'[r] = l
        BY GotoStep, LocalsStep
      <4>2. ControlAt(r)'
        BY <3>1, <3>2, <4>1 DEF OwnAt, ControlAt, Kind, SubjectPoints, CRLKinds
      <4>3. MutexAt(r)' /\ PendingAt(r)'
        BY <3>1, <3>2, <4>1, CRLMove DEF CRLPoints
      <4>4. SnapshotAt(r)'
        BY <3>1, <3>2, <4>1 DEF OwnAt, ControlAt, SnapshotAt, At, Kind
      <4>5. DoneAt(r)'
        BY <3>1, <3>2, <4>1 DEF OwnAt, DoneAt, Kind, CRLPoints
      <4>6. Apart(r)
        BY GotoStep, LocalsStep DEF Apart, locks
      <4> QED BY <4>2, <4>3, <4>4, <4>5, <4>6 DEF OwnAt
    <3>4. OwnAt(r)' /\ Apart(r)
      BY <3>3, ReturnStep DEF Check, Apart
    <3> QED BY <3>4 DEF Check, Guarantee, Apart, store, time
  <2>4. ASSUME SweepRead(r)
        PROVE  Guarantee(r) /\ OwnAt(r)'
    <3> USE <2>4
    <3> DEFINE l == [job[r] EXCEPT !.list = superseded, !.todo = superseded \cap elapsed]
    <3>1. /\ l.kind = job[r].kind /\ l.subject = job[r].subject
          /\ l.stage = job[r].stage /\ l.list = superseded /\ l.done = job[r].done
      BY DEF Jobs
    <3>2. Kind(r) = "Sweep" /\ pc[r] \in CRLPoints
      BY DEF SweepRead, OwnAt, ControlAt, At, CRLPoints
    <3>3. ASSUME Locals(r, l), Goto(r, "crlRead"), UNCHANGED locks
          PROVE  OwnAt(r)' /\ Apart(r)
      <4> USE <3>3
      <4>1. pc'[r] = "crlRead" /\ job'[r] = l
        BY GotoStep, LocalsStep
      <4>2. ControlAt(r)'
        BY <3>1, <3>2, <4>1 DEF OwnAt, ControlAt, Kind, SubjectPoints, CRLKinds
      <4>3. MutexAt(r)' /\ PendingAt(r)'
        BY <3>1, <3>2, <4>1, CRLMove DEF CRLPoints
      <4>4. SnapshotAt(r)'
        BY <3>1, <4>1 DEF SweepRead, SnapshotAt, At, store
      <4>5. DoneAt(r)'
        BY <3>1, <3>2, <4>1 DEF SweepRead, OwnAt, DoneAt, Kind, CRLPoints
      <4>6. Apart(r)
        BY GotoStep, LocalsStep DEF Apart, locks
      <4> QED BY <4>2, <4>3, <4>4, <4>5, <4>6 DEF OwnAt
    <3>4. OwnAt(r)' /\ Apart(r)
      BY <3>3, ReturnStep DEF SweepRead, Apart
    <3> QED BY <3>4 DEF SweepRead, Guarantee, Apart, store, time
  <2> QED BY <2>1, <2>2, <2>3, <2>4
\* Own part and guarantee are kept by: reading and re-signing the CRL.
<1>9. ReadCRL(r) \/ KeepCRL(r) \/ SignCRL(r)
             => Guarantee(r) /\ OwnAt(r)'
  <2>1. ASSUME ReadCRL(r)
        PROVE  Guarantee(r) /\ OwnAt(r)'
    <3> USE <2>1
    <3> DEFINE l == [job[r] EXCEPT !.view = crl]
    <3>1. /\ l.kind = job[r].kind /\ l.subject = job[r].subject
          /\ l.stage = job[r].stage /\ l.done = job[r].done
          /\ l.view = crl /\ l.list = job[r].list /\ l.todo = job[r].todo
      BY DEF Jobs
    <3>2. pc'[r] = "crlWrite" /\ job'[r] = l /\ pc[r] = "crlRead"
      BY GotoStep, LocalsStep DEF ReadCRL, At
    <3>3. ControlAt(r)'
      BY <3>1, <3>2 DEF OwnAt, ControlAt, Kind, SubjectPoints
    <3>4. MutexAt(r)' /\ PendingAt(r)'
      BY <3>1, <3>2, CRLMove DEF ReadCRL, CRLPoints
    <3>5. SnapshotAt(r)'
      BY <3>1, <3>2 DEF ReadCRL, OwnAt, SnapshotAt, At, Kind, store
    <3>6. DoneAt(r)'
      BY <3>1, <3>2 DEF ReadCRL, OwnAt, DoneAt, Kind, CRLPoints, time
    <3> QED BY <3>3, <3>4, <3>5, <3>6, GotoStep, LocalsStep
            DEF ReadCRL, OwnAt, Guarantee, Apart, store, time, locks
  <2>2. ASSUME KeepCRL(r)
        PROVE  Guarantee(r) /\ OwnAt(r)'
    <3> USE <2>2
    <3>1. PICK batch \in Batches(r) : /\ Entries(r, batch) = job[r].view.revoked
                                      /\ AfterCRL(r, batch, TRUE)
      BY DEF KeepCRL
    <3>2. pc[r] \in {"crlRead", "crlWrite"} /\ job[r].view = crl /\ UNCHANGED crl
      BY DEF KeepCRL, OwnAt, SnapshotAt, At
    <3>3. UNCHANGED <<superseded, expired>>
      BY DEF KeepCRL, store, time
    <3>4. Kind(r) # "Cleanup"
            => crl.revoked \subseteq crl'.revoked /\ batch \subseteq crl'.revoked
      BY SMTT(30), BatchStep, <3>1, <3>2
    <3>5. batch \in SUBSET Serials
      BY BatchStep
    <3>6. OwnAt(r)' /\ Apart(r)
      BY <3>1, <3>2, <3>3, <3>4, <3>5, AfterCRLStep
    <3> QED BY <3>6 DEF KeepCRL, Guarantee, Apart, store, time
  <2>3. ASSUME SignCRL(r)
        PROVE  Guarantee(r) /\ OwnAt(r)'
    <3> USE <2>3
    <3>1. PICK batch \in Batches(r) : /\ crl' = NextCRL(r, batch)
                                      /\ AfterCRL(r, batch, TRUE)
      BY DEF SignCRL
    <3>2. pc[r] \in {"crlRead", "crlWrite"} /\ job[r].view = crl
      BY DEF SignCRL, OwnAt, SnapshotAt, At
    <3>3. UNCHANGED <<superseded, expired>>
      BY DEF SignCRL, store, time
    <3>4. Kind(r) # "Cleanup"
            => crl.revoked \subseteq crl'.revoked /\ batch \subseteq crl'.revoked
      BY SMTT(30), BatchStep, <3>1, <3>2
    <3>5. batch \in SUBSET Serials
      BY BatchStep
    <3>6. OwnAt(r)' /\ Apart(r)
      BY <3>1, <3>2, <3>3, <3>4, <3>5, AfterCRLStep
    <3> QED BY <3>2, <3>6 DEF SignCRL, Guarantee, Apart, store, time, CRLPoints
  <2> QED BY <2>1, <2>2, <2>3
\* Own part and guarantee are kept by: the superseded list.
<1>10. ListRead(r) \/ ListAppend(r) \/ ListWrite(r)
             => Guarantee(r) /\ OwnAt(r)'
  <2>1. ASSUME ListRead(r)
        PROVE  Guarantee(r) /\ OwnAt(r)'
    <3> USE <2>1
    <3> DEFINE l == [job[r] EXCEPT !.list = superseded]
    <3>1. /\ l.kind = job[r].kind /\ l.subject = job[r].subject
          /\ l.stage = job[r].stage /\ l.done = job[r].done /\ l.list = superseded
      BY DEF Jobs
    <3>2. /\ pc'[r] = "listAppend" /\ job'[r] = l /\ pc[r] \in CRLPoints
          /\ Kind(r) \in {"Renew", "AutoRenew"}
      BY GotoStep, LocalsStep DEF ListRead, OwnAt, ControlAt, At, CRLPoints
    <3>3. ControlAt(r)'
      BY <3>1, <3>2 DEF OwnAt, ControlAt, Kind, SubjectPoints
    <3>4. MutexAt(r)' /\ PendingAt(r)'
      BY <3>1, <3>2, CRLMove DEF ListRead, CRLPoints
    <3>5. SnapshotAt(r)'
      BY <3>1, <3>2 DEF ListRead, SnapshotAt, At, store
    <3>6. DoneAt(r)'
      BY <3>1, <3>2 DEF OwnAt, DoneAt, Kind
    <3> QED BY <3>3, <3>4, <3>5, <3>6, GotoStep, LocalsStep
            DEF ListRead, OwnAt, Guarantee, Apart, store, time, locks
  <2>2. ASSUME ListAppend(r)
        PROVE  Guarantee(r) /\ OwnAt(r)'
    BY <2>2, ReturnStep DEF ListAppend, Guarantee, Apart, At, CRLPoints
  <2>3. ASSUME ListWrite(r)
        PROVE  Guarantee(r) /\ OwnAt(r)'
    <3> USE <2>3
    <3>1. pc[r] = "listWrite" /\ pc[r] \in CRLPoints
      BY DEF ListWrite, At, CRLPoints
    <3>2. ASSUME Kind(r) # "Sweep", Goto(r, "latest"), UNCHANGED <<locks, job>>
          PROVE  OwnAt(r)'
      <4> USE <3>2
      <4>1. pc'[r] = "latest" /\ job'[r] = job[r] /\ Kind(r) \in {"Revoke", "Clean"}
        BY <3>1, GotoStep DEF OwnAt, ControlAt
      <4>2. ControlAt(r)' /\ SnapshotAt(r)'
        BY <4>1 DEF OwnAt, ControlAt, SnapshotAt, At, Kind, SubjectPoints
      <4>3. MutexAt(r)' /\ PendingAt(r)'
        BY <3>1, <4>1, CRLMove DEF CRLPoints
      <4>4. DoneAt(r)'
        BY <3>1, <4>1 DEF ListWrite, OwnAt, DoneAt, Kind, CRLPoints
      <4> QED BY <4>2, <4>3, <4>4 DEF OwnAt
    <3>3. OwnAt(r)'
      BY <3>2, ReturnStep DEF ListWrite
    <3> QED BY <3>1, <3>3, ReturnStep, GotoStep
            DEF ListWrite, Guarantee, Apart, time, locks
  <2> QED BY <2>1, <2>2, <2>3
\* Own part and guarantee are kept by: CleanupExpiredCerts.
<1>11. Prune(r) \/ BlobRead(r) \/ BlobDelete(r)
             => Guarantee(r) /\ OwnAt(r)'
  <2>1. ASSUME Prune(r)
        PROVE  Guarantee(r) /\ OwnAt(r)'
    <3> USE <2>1
    <3>1. pc[r] \in CRLPoints /\ Kind(r) = "Cleanup"
      BY DEF Prune, OwnAt, ControlAt, At, CRLPoints
    <3>2. ASSUME NEW rows \in SUBSET (Rows \cap expired), Goto(r, "crlRead"),
                 Locals(r, [job[r] EXCEPT !.todo = rows]), UNCHANGED locks
          PROVE  OwnAt(r)' /\ Apart(r)
      <4> USE <3>2
      <4> DEFINE l == [job[r] EXCEPT !.todo = rows]
      <4>1. /\ l.kind = job[r].kind /\ l.subject = job[r].subject
            /\ l.stage = job[r].stage /\ l.done = job[r].done /\ l.todo = rows
        BY DEF Jobs
      <4>2. pc'[r] = "crlRead" /\ job'[r] = l
        BY GotoStep, LocalsStep
      <4>3. ControlAt(r)' /\ SnapshotAt(r)'
        BY <3>1, <4>1, <4>2
        DEF OwnAt, ControlAt, SnapshotAt, At, Kind, SubjectPoints, CRLKinds
      <4>4. MutexAt(r)' /\ PendingAt(r)'
        BY <3>1, <4>1, <4>2, CRLMove DEF CRLPoints
      <4>5. DoneAt(r)'
        BY <3>1, <4>1, <4>2 DEF Prune, OwnAt, DoneAt, Kind, time
      <4>6. Apart(r)
        BY GotoStep, LocalsStep DEF Apart, locks
      <4> QED BY <4>3, <4>4, <4>5, <4>6 DEF OwnAt
    <3>3. OwnAt(r)' /\ Apart(r)
      BY <3>2, ReturnStep DEF Prune, Apart
    <3> QED BY <3>3 DEF Prune, Guarantee, Apart, time
  <2>2. ASSUME BlobRead(r)
        PROVE  Guarantee(r) /\ OwnAt(r)'
    <3> USE <2>2
    <3>1. pc[r] \in CRLPoints /\ Kind(r) = "Cleanup"
      BY DEF BlobRead, OwnAt, ControlAt, At, CRLPoints
    <3>2. ASSUME NEW n \in job[r].todo, UNCHANGED locks,
                 Locals(r, [job[r] EXCEPT !.todo = @ \ {n}, !.new = n]),
                 Goto(r, IF cert[owner[n]] = n THEN "blobDelete" ELSE "blobRead")
          PROVE  OwnAt(r)'
      <4> USE <3>2
      <4> DEFINE l == [job[r] EXCEPT !.todo = @ \ {n}, !.new = n]
      <4>1. /\ l.kind = job[r].kind /\ l.subject = job[r].subject
            /\ l.stage = job[r].stage /\ l.done = job[r].done
        BY DEF Jobs
      <4>2. pc'[r] \in {"blobDelete", "blobRead"} /\ job'[r] = l
        BY SMTT(30), GotoStep, LocalsStep
      <4>3. ControlAt(r)' /\ SnapshotAt(r)' /\ DoneAt(r)'
        BY <3>1, <4>1, <4>2
        DEF OwnAt, ControlAt, SnapshotAt, DoneAt, At, Kind, SubjectPoints
      <4> QED BY <3>1, <4>1, <4>2, <4>3, CRLMove DEF OwnAt, CRLPoints
    <3>3. OwnAt(r)'
      BY <3>2, ReturnStep DEF BlobRead
    <3> QED BY <3>3, ReturnStep, GotoStep, LocalsStep
            DEF BlobRead, Guarantee, Apart, store, time, locks
  <2>3. ASSUME BlobDelete(r)
        PROVE  Guarantee(r) /\ OwnAt(r)'
    <3> USE <2>3
    <3>1. /\ pc[r] \in CRLPoints /\ Kind(r) = "Cleanup" /\ pc'[r] = "blobRead"
          /\ UNCHANGED <<locks, job>>
      BY GotoStep DEF BlobDelete, OwnAt, ControlAt, At, CRLPoints
    <3>2. ControlAt(r)' /\ SnapshotAt(r)' /\ DoneAt(r)'
      BY <3>1 DEF OwnAt, ControlAt, SnapshotAt, DoneAt, At, Kind, SubjectPoints
    <3>3. MutexAt(r)' /\ PendingAt(r)'
      BY <3>1, CRLMove DEF CRLPoints
    <3> QED BY <3>2, <3>3, GotoStep
            DEF BlobDelete, OwnAt, Guarantee, Apart, time, locks
  <2> QED BY <2>1, <2>2, <2>3
\* Own part and guarantee are kept by: failures and crashes.
<1>12. Failure(r)
             => Guarantee(r) /\ OwnAt(r)'
  <2>1. ASSUME AppendFails(r) \/ SavePrivateKeyFails(r) \/ Crash(r)
        PROVE  Guarantee(r) /\ OwnAt(r)'
    BY <2>1, ReturnStep
    DEF AppendFails, SavePrivateKeyFails, Crash, Guarantee, Apart, store, time
  <2>2. ASSUME CRLFails(r)
        PROVE  Guarantee(r) /\ OwnAt(r)'
    <3> USE <2>2
    <3>1. PICK batch \in Batches(r) :
            /\ UNCHANGED crl \/ (At(r, "crlWrite") /\ crl' = NextCRL(r, batch))
            /\ AfterCRL(r, batch, FALSE)
      BY DEF CRLFails
    <3>2. pc[r] \in {"crlRead", "crlWrite"} /\ (At(r, "crlWrite") => job[r].view = crl)
      BY DEF CRLFails, OwnAt, SnapshotAt
    <3>3. UNCHANGED <<superseded, expired>>
      BY DEF CRLFails, store, time
    <3>4. Kind(r) # "Cleanup" => crl.revoked \subseteq crl'.revoked
      BY SMTT(30), BatchStep, <3>1, <3>2
    <3>5. OwnAt(r)' /\ Apart(r)
      BY BatchStep, <3>1, <3>2, <3>3, <3>4, AfterCRLStep
    <3> QED BY <3>2, <3>5 DEF CRLFails, Guarantee, Apart, store, time, CRLPoints
  <2>3. ASSUME StepFails(r)
        PROVE  Guarantee(r) /\ OwnAt(r)'
    <3> USE <2>3
    <3>1. ASSUME Kind(r) = "Clean", At(r, "wantCRL"), Goto(r, "cleanDelete"),
                 UNCHANGED <<locks, job>>
          PROVE  OwnAt(r)' /\ Apart(r)
      <4> USE <3>1
      <4>1. pc'[r] = "cleanDelete" /\ job'[r] = job[r] /\ Kind(r) \in SubjectOps
        BY GotoStep DEF SubjectOps
      <4>2. ControlAt(r)' /\ SnapshotAt(r)' /\ PendingAt(r)'
        BY <4>1 DEF OwnAt, ControlAt, SnapshotAt, PendingAt, At, Kind
      <4>3. MutexAt(r)'
        BY <4>1 DEF OwnAt, MutexAt, At, Kind, CRLPoints, locks
      <4>4. DoneAt(r)'
        BY <4>1 DEF OwnAt, DoneAt, Kind, At, CRLPoints
      <4> QED BY <4>2, <4>3, <4>4, GotoStep DEF OwnAt, Apart, locks
    <3>2. ASSUME Kind(r) = "Clean", At(r, "latest"), RevokeEnds(r)
          PROVE  OwnAt(r)' /\ Apart(r)
      BY <3>2, RevokeEndsStep DEF At, CRLPoints
    <3>3. ASSUME At(r, "retireRead") \/ (At(r, "listWrite") /\ Kind(r) # "Sweep"),
                 Goto(r, "latest"), UNCHANGED <<locks, job>>, UNCHANGED crl
          PROVE  OwnAt(r)' /\ Apart(r)
      <4> USE <3>3
      <4>1. /\ pc'[r] = "latest" /\ job'[r] = job[r] /\ pc[r] \in CRLPoints
            /\ Kind(r) \in {"Revoke", "Clean"}
        BY GotoStep DEF OwnAt, ControlAt, At, CRLPoints
      <4>2. ControlAt(r)' /\ SnapshotAt(r)'
        BY <4>1 DEF OwnAt, ControlAt, SnapshotAt, At, Kind, SubjectPoints
      <4>3. MutexAt(r)' /\ PendingAt(r)'
        BY <4>1, CRLMove DEF CRLPoints
      <4>4. DoneAt(r)'
        BY <4>1 DEF OwnAt, DoneAt, Kind, CRLPoints
      <4> QED BY <4>2, <4>3, <4>4, GotoStep DEF OwnAt, Apart, locks
    <3>4. OwnAt(r)' /\ Apart(r)
      BY <3>1, <3>2, <3>3, ReturnStep DEF StepFails, Apart
    <3> QED BY <3>4 DEF StepFails, Guarantee, Apart, store, time
  <2>4. ASSUME HasCertFails(r)
        PROVE  Guarantee(r) /\ OwnAt(r)'
    <3> USE <2>4
    <3>1. ASSUME NEW p \in {"evict", "saveCert", "dropCSR"}, Goto(r, p),
                 pc[r] \in {"replaceRead", "evict", "cleanRead"},
                 p = "evict" => pc[r] = "replaceRead",
                 UNCHANGED <<locks, job>>
          PROVE  OwnAt(r)'
      <4> USE <3>1
      <4>1. pc'[r] = p /\ job'[r] = job[r]
        BY GotoStep
      <4>2. /\ Kind(r) \in {"Generate", "Import", "Clean"}
            /\ p = "evict" => Kind(r) = "Generate"
        BY DEF OwnAt, ControlAt
      <4>3. PendingAt(r)'
        BY <4>1, <4>2 DEF PendingAt, Kind
      <4> QED BY <4>1, <4>2, <4>3, SubjectMove DEF OwnAt, SubjectPoints
    <3>2. OwnAt(r)'
      BY <3>1, ReturnStep DEF HasCertFails, At
    <3> QED BY <3>2, ReturnStep, GotoStep
            DEF HasCertFails, Guarantee, Apart, store, time, locks
  <2> QED BY <2>1, <2>2, <2>3, <2>4 DEF Failure
<1> QED BY <1>1, <1>2, <1>3, <1>4, <1>5, <1>6, <1>7, <1>8, <1>9, <1>10, <1>11, <1>12
        DEF Moves, Step

\* Own is preserved by every step: r's own part by OwnStep, the others' by its
\* guarantee, and everyone's by the clock and the CRL sync.
LEMMA OwnPreserved ==
  ASSUME TypeOK, Own, [Next]_vars
  PROVE  Own'
<1>1. ASSUME NEW r \in Replicas, Moves(r) PROVE Own'
  <2>1. Guarantee(r) /\ OwnAt(r)'
    BY <1>1, OwnStep
  <2>2. \A q \in Replicas \ {r} : OwnAt(q)'
    BY <2>1, OthersKeepOwn
  <2> QED BY <2>1, <2>2 DEF Own
<1>2. ASSUME UNCHANGED <<csr, crl, superseded, pc, job, subjectLock, crlLock>>,
             expired \subseteq expired'
      PROVE  Own'
  <2> USE <1>2
  <2>1. ASSUME NEW q \in Replicas PROVE OwnAt(q)'
    <3>1. OwnAt(q)
      BY DEF Own
    <3>2. ControlAt(q)' /\ PendingAt(q)' /\ SnapshotAt(q)'
      BY <3>1 DEF OwnAt, ControlAt, PendingAt, SnapshotAt, Kind, At
    <3>3. MutexAt(q)'
      BY <3>1 DEF OwnAt, MutexAt, Kind, At
    <3>4. DoneAt(q)'
      BY <3>1 DEF OwnAt, DoneAt, Kind, At
    <3> QED BY <3>2, <3>3, <3>4 DEF OwnAt
  <2> QED BY <2>1 DEF Own
<1>3. ASSUME NEW r \in Replicas, Sync(r) PROVE Own'
  BY <1>2, <1>3 DEF Sync, store, time, locks
<1>4. ASSUME NEW n \in DOMAIN owner, Elapse(n) \/ Expire(n) PROVE Own'
  BY <1>2, <1>4 DEF Elapse, Expire, store, locks
<1>5. CASE UNCHANGED vars
  BY <1>2, <1>5 DEF vars, store, time, locks
<1> QED BY <1>1, <1>3, <1>4, <1>5 DEF Next, Finished, Moves
=============================================================================
