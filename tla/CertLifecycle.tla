--------------------------- MODULE CertLifecycle ---------------------------
(***************************************************************************)
(* The certificate lifecycle of openvox-ca as several replicas run it over *)
(* one shared storage backend (src/internal/ca: signing.go, generate.go,   *)
(* importcert.go, revoke.go, crl.go, supersede.go, cleanup.go).            *)
(*                                                                         *)
(* A replica carries one operation at a time, step by step; a step is at   *)
(* most one access to shared storage that another replica can observe.     *)
(* What keeps the steps of two replicas apart is only the two distributed  *)
(* locks of Storage.WithLock, "subject:<name>" and "crl".  The process     *)
(* mutex c.mu orders the operations of one replica, which here it cannot   *)
(* overlap.                                                                *)
(*                                                                         *)
(* Serial numbers are random in the code; here they are numbered in the    *)
(* order the certificates are stored.  0 stands for "no certificate".      *)
(***************************************************************************)
EXTENDS Naturals, Sequences, FiniteSets

CONSTANTS
  Replicas,             \* processes sharing the storage backend
  Subjects,             \* certnames
  NoOne,                \* "nobody holds this lock" / "no such subject"
  Duty,                 \* the operations each replica is given to run
  AllowDuplicateCerts,  \* allow_duplicate_certs
  RevokeOnAutoRenew,    \* revoke_on_auto_renew
  SupersedeAfter,       \* 0: retire a replaced certificate at once; else later
  MaxRequests,          \* bound: operations started, the sweep excepted
  MaxFaults             \* bound: storage failures, lock timeouts and crashes

\* The operations that issue a certificate.
Issuing == {"SaveRequest", "Sign", "Renew", "AutoRenew", "Generate", "Import"}

\* The operations that run under the subject lock.
SubjectOps == Issuing \cup {"DeleteRequest", "Clean", "Revoke"}

\* The operations that take the CRL lock and nothing before it.
CRLOps == {"RevokeSerial", "Sweep", "Refresh", "Cleanup"}

Kinds == SubjectOps \cup CRLOps

ASSUME ConstantsAssumption ==
  /\ NoOne \notin Replicas
  /\ NoOne \notin Subjects
  /\ Duty \in [Replicas -> SUBSET Kinds]
  /\ AllowDuplicateCerts \in BOOLEAN
  /\ RevokeOnAutoRenew \in BOOLEAN
  /\ SupersedeAfter \in Nat
  /\ MaxRequests \in Nat
  /\ MaxFaults \in Nat

Serials == Nat \ {0}

VARIABLES
  csr,          \* subjects with a pending request
  cert,         \* signed/<subject>: the stored certificate's serial, or 0
  owner,        \* the certificates issued: the n-th one's subject
  inventory,    \* the inventory's rows in order, 0 where one was pruned
  crl,          \* the stored CRL: its number and the serials it lists
  superseded,   \* the superseded list: serials waiting to be revoked
  elapsed,      \* superseded serials whose overlap window is over
  expired,      \* serials past NotAfter + retain
  subjectLock,  \* holder of "subject:<name>"
  crlLock,      \* holder of "crl"
  cached,       \* c.cachedCRL of each replica
  pc,           \* where each replica is in its operation
  job,          \* the operation's arguments and local variables
  started,      \* operations started so far
  faults        \* failures so far

store == <<csr, cert, owner, inventory, superseded>>
locks == <<subjectLock, crlLock>>
time  == <<elapsed, expired>>
vars  == <<store, crl, time, locks, cached, pc, job, started, faults>>

CRLs == [number : Nat, revoked : SUBSET Serials]

EmptyCRL == [number |-> 1, revoked |-> {}]

\* The local variables of an operation:
\*   serial  the presented certificate (renewals) or the argument (RevokeSerial)
\*   force   RevokeSerial's force, Generate's ReplaceExisting
\*   new     the serial just issued; the row whose blob Cleanup is looking at
\*   old     the serial this operation retires, 0 for none
\*   todo    serials still to be put on (Cleanup: taken off) the CRL
\*   done    serials of the superseded list that reached the CRL
\*   stage   "retire" while Revoke drains the subject's superseded entries
\*   view    the stored CRL as read under the CRL lock
\*   list    the superseded list as read under the CRL lock
Jobs == [kind : Kinds \cup {"none"}, subject : Subjects \cup {NoOne},
         serial : Serials \cup {0}, force : BOOLEAN,
         new : Serials \cup {0}, old : Serials \cup {0},
         todo : SUBSET Serials, done : SUBSET Serials,
         stage : {"retire", "own"}, view : CRLs, list : SUBSET Serials]

NoJob == [kind |-> "none", subject |-> NoOne, serial |-> 0, force |-> FALSE,
          new |-> 0, old |-> 0, todo |-> {}, done |-> {}, stage |-> "own",
          view |-> EmptyCRL, list |-> {}]

\* Control points inside the CRL lock, and inside the subject lock but outside
\* the CRL lock.
CRLPoints == {"check", "retireRead", "latest", "crlRead", "crlWrite",
              "listWrite", "listRead", "listAppend", "sweepRead", "prune",
              "blobRead", "blobDelete"}
SubjectPoints == {"submit", "autosign", "sign", "reject", "recheckCRL",
                  "recheckList", "replaceRead", "evict", "saveCert", "append",
                  "dropCSR", "cleanRead", "cleanDelete"}
Points == CRLPoints \cup SubjectPoints
            \cup {"idle", "gate", "wantSubject", "wantCRL"}

Init ==
  /\ csr = {}
  /\ cert = [s \in Subjects |-> 0]
  /\ owner = <<>>
  /\ inventory = <<>>
  /\ crl = EmptyCRL
  /\ superseded = {}
  /\ elapsed = {}
  /\ expired = {}
  /\ subjectLock = [s \in Subjects |-> NoOne]
  /\ crlLock = NoOne
  /\ cached = [r \in Replicas |-> EmptyCRL]
  /\ pc = [r \in Replicas |-> "idle"]
  /\ job = [r \in Replicas |-> NoJob]
  /\ started = 0
  /\ faults = 0

-----------------------------------------------------------------------------
(* Helpers *)

Goto(r, point) == pc' = [pc EXCEPT ![r] = point]

At(r, point) == pc[r] = point

Kind(r) == job[r].kind

\* r goes on with these local variables.
Locals(r, locals) == job' = [job EXCEPT ![r] = locals]

\* WithLock's deferred unlocks and the return to the caller: whatever r holds
\* is released and its local variables are gone.
Return(r) ==
  /\ subjectLock' = [s \in Subjects |->
                       IF subjectLock[s] = r THEN NoOne ELSE subjectLock[s]]
  /\ crlLock' = IF crlLock = r THEN NoOne ELSE crlLock
  /\ Goto(r, "idle")
  /\ Locals(r, NoJob)

\* One storage failure, lock timeout or crash out of the budget.
Fault == faults < MaxFaults /\ faults' = faults + 1

\* The serials the inventory holds a row for.
Rows == {inventory[i] : i \in DOMAIN inventory} \ {0}

\* LatestSerialForSubject: the serial of the subject's newest inventory row, or
\* 0 when it has none.
LatestSerialForSubject(s) ==
  LET rows == {i \in DOMAIN inventory :
                 inventory[i] # 0 /\ owner[inventory[i]] = s}
      last == {i \in rows : \A j \in rows : j <= i}
  IN  IF last = {} THEN 0 ELSE inventory[CHOOSE i \in last : TRUE]

\* SyncCRLCache installs the stored CRL only when it is newer.
Newer(held, stored) == IF stored.number > held.number THEN stored ELSE held

-----------------------------------------------------------------------------
(* Requests and background jobs arriving at an idle replica *)

Begin(r, kind, s, n, force, point) ==
  /\ At(r, "idle")
  /\ kind \in Duty[r]
  /\ Locals(r, [NoJob EXCEPT !.kind = kind, !.subject = s, !.serial = n,
                             !.force = force])
  /\ Goto(r, point)
  /\ UNCHANGED <<store, crl, time, locks, cached, faults>>

Counted == started < MaxRequests /\ started' = started + 1

\* Mutant: rejecting a request without the subject lock.
CallSubject_DeleteUnlocked(r, kind, s, force) ==
  /\ Counted
  /\ force => kind = "Generate"
  /\ Begin(r, kind, s, 0, force,
           IF kind = "DeleteRequest" THEN "reject" ELSE "wantSubject")

\* An operation named by its subject alone.
CallSubject(r, kind, s, force) ==
  /\ Counted
  /\ force => kind = "Generate"
  /\ Begin(r, kind, s, 0, force, "wantSubject")

\* A renewal authenticated by certificate n, which the TLS handshake found
\* unexpired.
CallRenewal(r, kind, n) ==
  /\ Counted
  /\ n \notin expired
  /\ Begin(r, kind, owner[n], n, FALSE, "gate")

CallRevokeSerial(r, n, force) ==
  /\ Counted
  /\ Begin(r, "RevokeSerial", NoOne, n, force, "wantCRL")

\* The CRL refresher (or an operator's reissue) and the expiry cleanup.
CallBackground(r, kind) ==
  /\ Counted
  /\ Begin(r, kind, NoOne, 0, FALSE, "wantCRL")

\* ReconcileSuperseded returns on its unlocked fast path when the list is empty.
CallSweep(r) ==
  /\ superseded # {}
  /\ Begin(r, "Sweep", NoOne, 0, FALSE, "wantCRL")
  /\ UNCHANGED started

Call(r) ==
  \/ \E kind \in SubjectOps \ {"Renew", "AutoRenew"}, s \in Subjects,
        force \in BOOLEAN : CallSubject(r, kind, s, force)
  \/ \E kind \in {"Renew", "AutoRenew"}, n \in DOMAIN owner :
        CallRenewal(r, kind, n)
  \/ \E n \in DOMAIN owner, force \in BOOLEAN : CallRevokeSerial(r, n, force)
  \/ \E kind \in {"Refresh", "Cleanup"} : CallBackground(r, kind)

-----------------------------------------------------------------------------
(* The distributed locks *)

\* The first step of each operation inside its subject lock.
SubjectEntry ==
  [SaveRequest |-> "submit", Sign |-> "sign", DeleteRequest |-> "reject",
   Clean |-> "cleanRead", Revoke |-> "wantCRL", Renew |-> "recheckCRL",
   AutoRenew |-> "recheckCRL", Generate |-> "replaceRead", Import |-> "evict"]

\* Mutant: the lock is granted while it is held.
AcquireSubject_Unguarded(r) ==
  /\ At(r, "wantSubject")
  /\ subjectLock' = [subjectLock EXCEPT ![job[r].subject] = r]
  /\ Goto(r, SubjectEntry[Kind(r)])
  /\ UNCHANGED <<store, crl, time, crlLock, cached, job, started, faults>>

AcquireSubject(r) ==
  /\ At(r, "wantSubject")
  /\ subjectLock[job[r].subject] = NoOne
  /\ subjectLock' = [subjectLock EXCEPT ![job[r].subject] = r]
  /\ Goto(r, SubjectEntry[Kind(r)])
  /\ UNCHANGED <<store, crl, time, crlLock, cached, job, started, faults>>

\* The first step of each operation inside the CRL lock; a renewal either
\* revokes the replaced certificate or records it as superseded
\* (supersedeReplacedAfter).
CRLEntry ==
  [Revoke |-> "retireRead", Clean |-> "retireRead", RevokeSerial |-> "check",
   Renew |-> IF SupersedeAfter = 0 THEN "crlRead" ELSE "listRead",
   AutoRenew |-> IF SupersedeAfter = 0 THEN "crlRead" ELSE "listRead",
   Generate |-> "crlRead", Sweep |-> "sweepRead", Refresh |-> "crlRead",
   Cleanup |-> "prune"]

\* Mutant: recording a superseded certificate without the CRL lock.
AcquireCRL_RecordUnlocked(r) ==
  LET records == CRLEntry[Kind(r)] = "listRead" IN
  /\ At(r, "wantCRL")
  /\ crlLock = NoOne \/ records
  /\ crlLock' = IF records THEN crlLock ELSE r
  /\ Goto(r, CRLEntry[Kind(r)])
  /\ UNCHANGED <<store, crl, time, subjectLock, cached, job, started, faults>>

AcquireCRL(r) ==
  /\ At(r, "wantCRL")
  /\ crlLock = NoOne
  /\ crlLock' = r
  /\ Goto(r, CRLEntry[Kind(r)])
  /\ UNCHANGED <<store, crl, time, subjectLock, cached, job, started, faults>>

-----------------------------------------------------------------------------
(* Requests: SaveRequest, signWithDuration, DeleteRequest *)

\* checkDuplicateLocked: what the subject holds already refuses the request.
Duplicate(s) == ~AllowDuplicateCerts /\ (cert[s] # 0 \/ s \in csr)

Submit(r) ==
  LET s == job[r].subject IN
  /\ At(r, "submit")
  /\ \/ Duplicate(s) /\ Return(r) /\ UNCHANGED csr
     \/ /\ ~Duplicate(s)
        /\ csr' = csr \cup {s}
        /\ Goto(r, "autosign")
        /\ UNCHANGED <<locks, job>>
  /\ UNCHANGED <<cert, owner, inventory, superseded, crl, time, cached,
                 started, faults>>

\* CheckAutosign says yes, or says no or fails and leaves the request pending.
Autosign(r) ==
  /\ At(r, "autosign")
  /\ \/ Goto(r, "sign") /\ UNCHANGED <<locks, job>>
     \/ Return(r)
  /\ UNCHANGED <<store, crl, time, cached, started, faults>>

\* signWithDuration reads the request, and signs it unless a policy refuses.
SignRequest(r) ==
  /\ At(r, "sign")
  /\ \/ job[r].subject \in csr /\ Goto(r, "saveCert") /\ UNCHANGED <<locks, job>>
     \/ Return(r)
  /\ UNCHANGED <<store, crl, time, cached, started, faults>>

DeleteRequest(r) ==
  /\ At(r, "reject")
  /\ csr' = csr \ {job[r].subject}
  /\ Return(r)
  /\ UNCHANGED <<cert, owner, inventory, superseded, crl, time, cached,
                 started, faults>>

-----------------------------------------------------------------------------
(* Renew and AutoRenew *)

\* SyncCRLCache as refuseIfRevoked calls it: a failed sync is not a refusal.
SyncFirst(r) ==
  \/ UNCHANGED faults /\ cached' = [cached EXCEPT ![r] = Newer(cached[r], crl)]
  \/ Fault /\ UNCHANGED cached

\* refuseIfRevoked before the lock.  Only a filter: the answer that counts is
\* the one asked again under the lock, so its two reads are one step here.
Gate(r) ==
  LET n == job[r].serial IN
  /\ At(r, "gate")
  /\ SyncFirst(r)
  /\ \/ n \in cached'[r].revoked \cup superseded /\ Return(r)
     \/ /\ n \notin cached'[r].revoked \cup superseded
        /\ Goto(r, "wantSubject")
        /\ UNCHANGED <<locks, job>>
  /\ UNCHANGED <<store, crl, time, started>>

\* Mutant: the revocation question is not asked again under the lock.
RecheckCRL_Skipped(r) ==
  /\ At(r, "recheckCRL")
  /\ Goto(r, "recheckList")
  /\ UNCHANGED <<store, crl, time, locks, cached, job, started, faults>>

\* refuseIfRevoked under the lock: SyncCRLCache and IsRevokedSerial ...
RecheckCRL(r) ==
  LET n == job[r].serial IN
  /\ At(r, "recheckCRL")
  /\ SyncFirst(r)
  /\ \/ n \in cached'[r].revoked /\ Return(r)
     \/ /\ n \notin cached'[r].revoked
        /\ Goto(r, "recheckList")
        /\ UNCHANGED <<locks, job>>
  /\ UNCHANGED <<store, crl, time, started>>

\* The serial a renewal retires: Renew the subject's newest row, AutoRenew the
\* certificate presented.
Replaced(r) == IF Kind(r) = "Renew"
               THEN LatestSerialForSubject(job[r].subject)
               ELSE job[r].serial

\* Mutant: a superseded certificate may renew itself.
RecheckList_Skipped(r) ==
  /\ At(r, "recheckList")
  /\ Locals(r, [job[r] EXCEPT !.old = Replaced(r),
                              !.todo = {Replaced(r)} \ {0}])
  /\ Goto(r, "saveCert")
  /\ UNCHANGED <<store, crl, time, locks, cached, started, faults>>

\* Mutant: Renew takes it that there is a predecessor (no hadOldCert).
RecheckList_NoHadOldCert(r) ==
  /\ At(r, "recheckList")
  /\ \/ job[r].serial \in superseded /\ Return(r)
     \/ /\ job[r].serial \notin superseded
        /\ Locals(r, [job[r] EXCEPT !.old = Replaced(r), !.todo = {Replaced(r)}])
        /\ Goto(r, "saveCert")
        /\ UNCHANGED locks
  /\ UNCHANGED <<store, crl, time, cached, started, faults>>

\* ... then refuseIfSuperseded, and the lookup of what is being replaced.
RecheckList(r) ==
  /\ At(r, "recheckList")
  /\ \/ job[r].serial \in superseded /\ Return(r)
     \/ /\ job[r].serial \notin superseded
        /\ Locals(r, [job[r] EXCEPT !.old = Replaced(r),
                                    !.todo = {Replaced(r)} \ {0}])
        /\ Goto(r, "saveCert")
        /\ UNCHANGED locks
  /\ UNCHANGED <<store, crl, time, cached, started, faults>>

-----------------------------------------------------------------------------
(* Generate and Import: what may happen before they issue *)

\* Generate's read phase: nothing stored goes straight to issuance; otherwise
\* the CRL cache is reloaded and, to replace, the stored serial is revoked.
ReplaceRead(r) ==
  LET held == cert[job[r].subject] IN
  /\ At(r, "replaceRead")
  /\ cached' = IF held = 0 THEN cached ELSE [cached EXCEPT ![r] = crl]
  /\ \/ /\ held = 0 \/ ~job[r].force
        /\ Goto(r, "evict")
        /\ UNCHANGED job
     \/ /\ held # 0 /\ job[r].force
        /\ Goto(r, "wantCRL")
        /\ Locals(r, [job[r] EXCEPT !.old = held, !.todo = {held}])
  /\ UNCHANGED <<store, crl, time, locks, started, faults>>

\* evictRevokedLocked judges the stored certificate by the cached CRL, which
\* Generate reloads once more after a replacement and Import does not.
Evict(r) ==
  LET s == job[r].subject IN
  /\ At(r, "evict")
  /\ cached' = IF job[r].old # 0 THEN [cached EXCEPT ![r] = crl] ELSE cached
  /\ \/ /\ cert[s] # 0 /\ cert[s] \notin cached'[r].revoked
        /\ Return(r)
        /\ UNCHANGED cert
     \/ /\ cert[s] = 0 \/ cert[s] \in cached'[r].revoked
        /\ cert' = [cert EXCEPT ![s] = 0]
        /\ Goto(r, "saveCert")
        /\ UNCHANGED <<locks, job>>
  /\ UNCHANGED <<csr, owner, inventory, superseded, crl, time, started,
                 faults>>

-----------------------------------------------------------------------------
(* issueLeafLocked and importCertificateLocked: the tail of every issuance *)

\* A fresh serial is signed and the certificate saved: from here it is public.
SaveCert(r) ==
  LET s == job[r].subject
      n == Len(owner) + 1
  IN
  /\ At(r, "saveCert")
  /\ owner' = Append(owner, s)
  /\ cert' = [cert EXCEPT ![s] = n]
  /\ Locals(r, [job[r] EXCEPT !.new = n])
  /\ Goto(r, "append")
  /\ UNCHANGED <<csr, inventory, superseded, crl, time, locks, cached, started,
                 faults>>

\* What each operation does once its certificate is issued.
AfterIssue(r) ==
  \/ /\ Kind(r) \in {"SaveRequest", "Sign", "Renew", "Generate"}
     /\ Goto(r, "dropCSR")
     /\ UNCHANGED <<locks, job>>
  \/ /\ Kind(r) = "AutoRenew" /\ RevokeOnAutoRenew
     /\ Goto(r, "wantCRL")
     /\ UNCHANGED <<locks, job>>
  \/ /\ Kind(r) = "Import" \/ (Kind(r) = "AutoRenew" /\ ~RevokeOnAutoRenew)
     /\ Return(r)

AppendInventory(r) ==
  /\ At(r, "append")
  /\ inventory' = Append(inventory, job[r].new)
  /\ AfterIssue(r)
  /\ UNCHANGED <<csr, cert, owner, superseded, crl, time, cached,
                 started, faults>>

\* The inventory write failed: the certificate is rolled back (the roll-back
\* may fail as well) and the operation with it.
AppendFails(r) ==
  /\ At(r, "append")
  /\ Fault
  /\ cert' \in {cert, [cert EXCEPT ![job[r].subject] = 0]}
  /\ Return(r)
  /\ UNCHANGED <<csr, owner, inventory, superseded, crl, time, cached,
                 started>>

\* DeleteCSR once the certificate is issued, and at the end of Clean; a failure
\* is logged and no more.  Renew then retires what it replaced.
DropCSR(r) ==
  /\ At(r, "dropCSR")
  /\ \/ csr' = csr \ {job[r].subject} /\ UNCHANGED faults
     \/ Fault /\ UNCHANGED csr
  /\ \/ /\ Kind(r) = "Renew" /\ job[r].old # 0
        /\ Goto(r, "wantCRL")
        /\ UNCHANGED <<locks, job>>
     \/ ~(Kind(r) = "Renew" /\ job[r].old # 0) /\ Return(r)
  /\ UNCHANGED <<cert, owner, inventory, superseded, crl, time, cached,
                 started>>

\* Generate could not keep the private key and deletes the certificate.
SavePrivateKeyFails(r) ==
  /\ At(r, "dropCSR")
  /\ Kind(r) = "Generate"
  /\ Fault
  /\ cert' \in {cert, [cert EXCEPT ![job[r].subject] = 0]}
  /\ Return(r)
  /\ UNCHANGED <<csr, owner, inventory, superseded, crl, time, cached,
                 started>>

-----------------------------------------------------------------------------
(* Clean *)

\* Mutant: Clean calls the public Revoke, which takes the subject lock again.
CleanRead_DoubleLock(r) ==
  LET s == job[r].subject IN
  /\ At(r, "cleanRead")
  /\ \/ cert[s] = 0 /\ s \notin csr /\ Return(r)
     \/ cert[s] = 0 /\ s \in csr /\ Goto(r, "dropCSR") /\ UNCHANGED <<locks, job>>
     \/ cert[s] # 0 /\ Goto(r, "wantSubject") /\ UNCHANGED <<locks, job>>
  /\ UNCHANGED <<store, crl, time, cached, started, faults>>

CleanRead(r) ==
  LET s == job[r].subject IN
  /\ At(r, "cleanRead")
  /\ \/ cert[s] = 0 /\ s \notin csr /\ Return(r)
     \/ cert[s] = 0 /\ s \in csr /\ Goto(r, "dropCSR") /\ UNCHANGED <<locks, job>>
     \/ cert[s] # 0 /\ Goto(r, "wantCRL") /\ UNCHANGED <<locks, job>>
  /\ UNCHANGED <<store, crl, time, cached, started, faults>>

CleanDelete(r) ==
  /\ At(r, "cleanDelete")
  /\ \/ cert' = [cert EXCEPT ![job[r].subject] = 0] /\ UNCHANGED faults
     \/ Fault /\ UNCHANGED cert
  /\ Goto(r, "dropCSR")
  /\ UNCHANGED <<csr, owner, inventory, superseded, crl, time, locks,
                 cached, job, started>>

-----------------------------------------------------------------------------
(* Inside the CRL lock: who is to be revoked *)

\* Mutant: Revoke and Clean leave the subject's superseded entries to the sweep.
RetireRead_Skipped(r) ==
  /\ At(r, "retireRead")
  /\ Goto(r, "latest")
  /\ UNCHANGED <<store, crl, time, locks, cached, job, started, faults>>

\* retireSupersededForSubjectLocked reads the list for the subject's entries.
RetireRead(r) ==
  LET mine == {n \in superseded : owner[n] = job[r].subject} IN
  /\ At(r, "retireRead")
  /\ Locals(r, [job[r] EXCEPT !.list = superseded, !.todo = mine,
                              !.stage = "retire"])
  /\ Goto(r, IF mine = {} THEN "latest" ELSE "crlRead")
  /\ UNCHANGED <<store, crl, time, locks, cached, started, faults>>

\* Leaving the CRL lock with the subject lock still held.
LeaveCRL(r, point) ==
  /\ crlLock' = NoOne
  /\ Goto(r, point)
  /\ UNCHANGED <<subjectLock, job>>

\* The end of revokeLocked, successful or not: Clean goes on to delete.
RevokeEnds(r) ==
  \/ Kind(r) = "Clean" /\ LeaveCRL(r, "cleanDelete")
  \/ Kind(r) = "Revoke" /\ Return(r)

\* revokeLocked looks up the newest serial: none is ErrSubjectUnknown.
Latest(r) ==
  LET n == LatestSerialForSubject(job[r].subject) IN
  /\ At(r, "latest")
  /\ \/ n = 0 /\ RevokeEnds(r)
     \/ /\ n # 0
        /\ Locals(r, [job[r] EXCEPT !.old = n, !.todo = {n}, !.stage = "own"])
        /\ Goto(r, "crlRead")
        /\ UNCHANGED locks
  /\ UNCHANGED <<store, crl, time, cached, started, faults>>

\* revokeSerialCheckedLocked: an unknown serial is refused, and so is the one
\* its subject is using unless forced.
Check(r) ==
  LET n == job[r].serial IN
  /\ At(r, "check")
  /\ \/ /\ n \notin Rows \/ (cert[owner[n]] = n /\ ~job[r].force)
        /\ Return(r)
     \/ /\ n \in Rows
        /\ cert[owner[n]] # n \/ job[r].force
        /\ Locals(r, [job[r] EXCEPT !.todo = {n}])
        /\ Goto(r, "crlRead")
        /\ UNCHANGED locks
  /\ UNCHANGED <<store, crl, time, cached, started, faults>>

\* ReconcileSuperseded reads the list again under the lock.
SweepRead(r) ==
  LET due == superseded \cap elapsed IN
  /\ At(r, "sweepRead")
  /\ \/ due = {} /\ Return(r)
     \/ /\ due # {}
        /\ Locals(r, [job[r] EXCEPT !.list = superseded, !.todo = due])
        /\ Goto(r, "crlRead")
        /\ UNCHANGED locks
  /\ UNCHANGED <<store, crl, time, cached, started, faults>>

-----------------------------------------------------------------------------
(* Inside the CRL lock: reading, re-signing and writing the CRL *)

\* Mutant: the list to re-sign is taken from the replica's cache.
ReadCRL_FromCache(r) ==
  /\ At(r, "crlRead")
  /\ Locals(r, [job[r] EXCEPT !.view = cached[r]])
  /\ Goto(r, "crlWrite")
  /\ UNCHANGED <<store, crl, time, locks, cached, started, faults>>

ReadCRL(r) ==
  /\ At(r, "crlRead")
  /\ Locals(r, [job[r] EXCEPT !.view = crl])
  /\ Goto(r, "crlWrite")
  /\ UNCHANGED <<store, crl, time, locks, cached, started, faults>>

\* What one re-signing covers: the sweep and the cleanup take all their serials
\* at once, every other operation revokes one serial at a time.
Batches(r) == IF Kind(r) \in {"Sweep", "Refresh", "Cleanup"}
              THEN {job[r].todo}
              ELSE {{n} : n \in job[r].todo}

\* The entries of the CRL to be signed.
Entries(r, batch) == IF Kind(r) = "Cleanup"
                     THEN job[r].view.revoked \ batch
                     ELSE job[r].view.revoked \cup batch

\* A refresh re-signs the entries as they are; the others only a changed list.
Resigns(r, batch) ==
  Kind(r) = "Refresh" \/ Entries(r, batch) # job[r].view.revoked

\* signCRLLocked: the number follows the one that was read.
NextCRL(r, batch) == [number |-> job[r].view.number + 1,
                      revoked |-> Entries(r, batch)]

\* Mutant: the sweep drops its due entries although the CRL was not written.
AfterCRL_IgnoresFailure(r, batch, ok) ==
  \/ /\ Kind(r) = "Sweep"
     /\ Locals(r, [job[r] EXCEPT !.done = batch])
     /\ Goto(r, "listWrite")
     /\ UNCHANGED locks
  \/ Kind(r) # "Sweep" /\ Return(r)

\* Where an operation goes once the CRL has been dealt with for one batch.
AfterCRL(r, batch, ok) ==
  \/ /\ job[r].stage = "retire"
     /\ Locals(r, [job[r] EXCEPT !.todo = @ \ batch,
                                 !.done = IF ok THEN @ \cup batch ELSE @])
     /\ Goto(r, IF job[r].todo \subseteq batch THEN "listWrite" ELSE "crlRead")
     /\ UNCHANGED locks
  \/ /\ Kind(r) = "Sweep"
     /\ Locals(r, [job[r] EXCEPT !.done = IF ok THEN batch ELSE {}])
     /\ Goto(r, "listWrite")
     /\ UNCHANGED locks
  \/ /\ Kind(r) = "Cleanup"
     /\ Goto(r, "blobRead")
     /\ UNCHANGED <<locks, job>>
  \/ job[r].stage = "own" /\ RevokeEnds(r)
  \/ /\ Kind(r) = "Generate" /\ ok
     /\ LeaveCRL(r, "evict")
  \/ /\ \/ Kind(r) \in {"Renew", "AutoRenew", "RevokeSerial", "Refresh"}
        \/ Kind(r) = "Generate" /\ ~ok
     /\ Return(r)

\* Nothing to change: the serial is listed already, or none of the pruned ones
\* is, or the CRL is not due for a refresh (which adopts a newer stored one).
KeepCRL(r) ==
  /\ At(r, "crlWrite")
  /\ \E batch \in Batches(r) :
       /\ Entries(r, batch) = job[r].view.revoked
       /\ AfterCRL(r, batch, TRUE)
  /\ cached' = IF Kind(r) = "Refresh"
               THEN [cached EXCEPT ![r] = Newer(cached[r], job[r].view)]
               ELSE cached
  /\ UNCHANGED <<store, crl, time, started, faults>>

\* signCRLLocked: store the new CRL, then install it as this replica's cache.
SignCRL(r) ==
  /\ At(r, "crlWrite")
  /\ \E batch \in Batches(r) :
       /\ Resigns(r, batch)
       /\ crl' = NextCRL(r, batch)
       /\ cached' = [cached EXCEPT ![r] = NextCRL(r, batch)]
       /\ AfterCRL(r, batch, TRUE)
  /\ UNCHANGED <<store, time, started, faults>>

\* Mutant: the cache is installed before the CRL is known to be stored.
CRLFails_Installed(r) ==
  /\ At(r, "crlWrite")
  /\ Fault
  /\ \E batch \in Batches(r) :
       /\ Resigns(r, batch)
       /\ cached' = [cached EXCEPT ![r] = NextCRL(r, batch)]
       /\ AfterCRL(r, batch, FALSE)
  /\ UNCHANGED <<store, crl, time, started>>

\* Reading, signing or storing the CRL failed; a write that reported failure may
\* still have reached the backend.
CRLFails(r) ==
  /\ pc[r] \in {"crlRead", "crlWrite"}
  /\ Fault
  /\ \E batch \in Batches(r) :
       /\ \/ UNCHANGED crl
          \/ At(r, "crlWrite") /\ Resigns(r, batch) /\ crl' = NextCRL(r, batch)
       /\ AfterCRL(r, batch, FALSE)
  /\ UNCHANGED <<store, time, cached, started>>

-----------------------------------------------------------------------------
(* Inside the CRL lock: the superseded list *)

\* recordSuperseded reads the list ...
ListRead(r) ==
  /\ At(r, "listRead")
  /\ Locals(r, [job[r] EXCEPT !.list = superseded])
  /\ Goto(r, "listAppend")
  /\ UNCHANGED <<store, crl, time, locks, cached, started, faults>>

\* ... and writes it back with the replaced certificate added.
ListAppend(r) ==
  /\ At(r, "listAppend")
  /\ superseded' = job[r].list \cup job[r].todo
  /\ elapsed' = elapsed \ job[r].todo
  /\ Return(r)
  /\ UNCHANGED <<csr, cert, owner, inventory, crl, expired, cached,
                 started, faults>>

\* The sweep, or Revoke for its subject, writes back the entries it did not
\* revoke.
ListWrite(r) ==
  /\ At(r, "listWrite")
  /\ superseded' = job[r].list \ job[r].done
  /\ \/ Kind(r) = "Sweep" /\ Return(r)
     \/ Kind(r) # "Sweep" /\ Goto(r, "latest") /\ UNCHANGED <<locks, job>>
  /\ UNCHANGED <<csr, cert, owner, inventory, crl, time, cached,
                 started, faults>>

-----------------------------------------------------------------------------
(* CleanupExpiredCerts, all of it under the CRL lock and no subject lock *)

\* PruneInventory drops the expired rows; a backend that prunes in batches may
\* fail half way with some of them gone.
Prune(r) ==
  LET dropped == Rows \cap expired IN
  /\ At(r, "prune")
  /\ \/ dropped = {} /\ Return(r) /\ UNCHANGED <<inventory, faults>>
     \/ \E rows \in (SUBSET dropped) \ {{}} :
          /\ \/ rows = dropped /\ UNCHANGED faults
             \/ rows # dropped /\ Fault
          /\ inventory' = [i \in DOMAIN inventory |->
                             IF inventory[i] \in rows THEN 0 ELSE inventory[i]]
          /\ Locals(r, [job[r] EXCEPT !.todo = rows])
          /\ Goto(r, "crlRead")
          /\ UNCHANGED locks
  /\ UNCHANGED <<csr, cert, owner, superseded, crl, time, cached,
                 started>>

\* deleteStoredCertIfSerialMatches reads and compares for one pruned row ...
BlobRead(r) ==
  /\ At(r, "blobRead")
  /\ \/ job[r].todo = {} /\ Return(r)
     \/ \E n \in job[r].todo :
          /\ Locals(r, [job[r] EXCEPT !.todo = @ \ {n}, !.new = n])
          /\ Goto(r, IF cert[owner[n]] = n THEN "blobDelete" ELSE "blobRead")
          /\ UNCHANGED locks
  /\ UNCHANGED <<store, crl, time, cached, started, faults>>

\* ... and deletes by subject, whatever is stored there by now.
BlobDelete(r) ==
  /\ At(r, "blobDelete")
  /\ \/ cert' = [cert EXCEPT ![owner[job[r].new]] = 0] /\ UNCHANGED faults
     \/ Fault /\ UNCHANGED cert
  /\ Goto(r, "blobRead")
  /\ UNCHANGED <<csr, owner, inventory, superseded, crl, time, locks,
                 cached, job, started>>

-----------------------------------------------------------------------------
(* Failures *)

\* The steps whose failure ends the operation with an error and no effect: a
\* lock that could not be had in LockTimeout, or a storage call that failed.
FailStop == {"gate", "wantSubject", "wantCRL", "submit", "sign", "reject",
             "recheckList", "replaceRead", "evict", "saveCert", "check",
             "latest", "sweepRead", "listRead", "listAppend", "prune"}

\* Clean's revocation is best-effort: it goes on to delete.
StepFails(r) ==
  /\ Fault
  /\ \/ /\ pc[r] \in FailStop
        /\ ~(Kind(r) = "Clean" /\ pc[r] \in {"wantCRL", "latest"})
        /\ Return(r)
     \/ /\ Kind(r) = "Clean" /\ At(r, "wantCRL")
        /\ Goto(r, "cleanDelete")
        /\ UNCHANGED <<locks, job>>
     \/ Kind(r) = "Clean" /\ At(r, "latest") /\ RevokeEnds(r)
     \/ /\ Kind(r) = "Sweep" /\ At(r, "listWrite")
        /\ Return(r)
     \/ /\ \/ At(r, "retireRead")
           \/ At(r, "listWrite") /\ Kind(r) # "Sweep"
        /\ Goto(r, "latest")
        /\ UNCHANGED <<locks, job>>
  /\ UNCHANGED <<store, crl, time, cached, started>>

\* HasCert and HasCSR drop the backend's error and answer "absent": Generate,
\* Import and Clean go on as if nothing were stored.  At "evict" this is also a
\* revoked certificate that could not be deleted.
HasCertFails(r) ==
  LET s == job[r].subject IN
  /\ Fault
  /\ \/ At(r, "replaceRead") /\ Goto(r, "evict") /\ UNCHANGED <<locks, job>>
     \/ At(r, "evict") /\ Goto(r, "saveCert") /\ UNCHANGED <<locks, job>>
     \/ /\ At(r, "cleanRead") /\ s \in csr
        /\ Goto(r, "dropCSR")
        /\ UNCHANGED <<locks, job>>
     \/ At(r, "cleanRead") /\ (s \notin csr \/ cert[s] = 0) /\ Return(r)
  /\ cached' = IF At(r, "evict") /\ job[r].old # 0
               THEN [cached EXCEPT ![r] = crl] ELSE cached
  /\ UNCHANGED <<store, crl, time, started>>

\* The process dies; its leases lapse (etcd, Redis), its session is reaped (SQL)
\* or the kernel drops its flock, and it restarts with the stored CRL.
Crash(r) ==
  /\ ~At(r, "idle")
  /\ Fault
  /\ Return(r)
  /\ cached' = [cached EXCEPT ![r] = crl]
  /\ UNCHANGED <<store, crl, time, started>>

-----------------------------------------------------------------------------
(* The environment and the background CRL sync *)

\* The overlap window of a superseded serial ends.  A bound: the window, 24 hours
\* unless configured, outlasts every renewal that had passed its gate when the
\* serial was recorded.  superseded_cert_revoke_after_sec sets no minimum; a window
\* of less than LockTimeout (60 seconds) is outside the model.
Elapse(n) ==
  /\ n \in superseded \ elapsed
  /\ \A r \in Replicas :
       Kind(r) \in {"Renew", "AutoRenew"} /\ job[r].serial = n => At(r, "gate")
  /\ elapsed' = elapsed \cup {n}
  /\ UNCHANGED <<store, crl, expired, locks, cached, pc, job, started, faults>>

\* A certificate passes its NotAfter (and the retain period); told apart only
\* where some replica runs the cleanup.
Expire(n) ==
  /\ n \in Rows \ expired
  /\ \E r \in Replicas : "Cleanup" \in Duty[r]
  /\ expired' = expired \cup {n}
  /\ UNCHANGED <<store, crl, elapsed, locks, cached, pc, job, started, faults>>

\* Mutant: the newest CRL is taken for the one already held.
Sync_OffByOne(r) ==
  /\ crl.number > cached[r].number + 1
  /\ cached' = [cached EXCEPT ![r] = crl]
  /\ UNCHANGED <<store, crl, time, locks, pc, job, started, faults>>

\* The periodic SyncCRLCache of replica r, whatever r is doing.
Sync(r) ==
  /\ crl.number > cached[r].number
  /\ cached' = [cached EXCEPT ![r] = crl]
  /\ UNCHANGED <<store, crl, time, locks, pc, job, started, faults>>

\* Every operation the model may start has been started and has returned.
Finished ==
  /\ started = MaxRequests
  /\ \A r \in Replicas : At(r, "idle")
  /\ UNCHANGED vars

\* What r does on its own account once it has an operation, the lock
\* acquisitions apart.
Step(r) ==
  \/ Submit(r) \/ Autosign(r) \/ SignRequest(r) \/ DeleteRequest(r)
  \/ Gate(r) \/ RecheckCRL(r) \/ RecheckList(r)
  \/ ReplaceRead(r) \/ Evict(r)
  \/ SaveCert(r) \/ AppendInventory(r) \/ DropCSR(r)
  \/ CleanRead(r) \/ CleanDelete(r)
  \/ RetireRead(r) \/ Latest(r) \/ Check(r) \/ SweepRead(r)
  \/ ReadCRL(r) \/ KeepCRL(r) \/ SignCRL(r)
  \/ ListRead(r) \/ ListAppend(r) \/ ListWrite(r)
  \/ Prune(r) \/ BlobRead(r) \/ BlobDelete(r)

Failure(r) ==
  \/ AppendFails(r) \/ SavePrivateKeyFails(r) \/ CRLFails(r)
  \/ StepFails(r) \/ HasCertFails(r) \/ Crash(r)

Next ==
  \/ \E r \in Replicas :
       \/ Call(r) \/ CallSweep(r)
       \/ AcquireSubject(r) \/ AcquireCRL(r)
       \/ Step(r) \/ Failure(r) \/ Sync(r)
  \/ \E n \in DOMAIN owner : Elapse(n) \/ Expire(n)
  \/ Finished

Spec == Init /\ [][Next]_vars

-----------------------------------------------------------------------------
(* Types *)

\* Every variable has its type: storage, locks and the replicas' local state.
TypeOK ==
  /\ csr \in SUBSET Subjects
  /\ cert \in [Subjects -> Serials \cup {0}]
  /\ owner \in Seq(Subjects)
  /\ inventory \in Seq(Serials \cup {0})
  /\ crl \in CRLs
  /\ superseded \in SUBSET Serials
  /\ elapsed \in SUBSET Serials
  /\ expired \in SUBSET Serials
  /\ subjectLock \in [Subjects -> Replicas \cup {NoOne}]
  /\ crlLock \in Replicas \cup {NoOne}
  /\ cached \in [Replicas -> CRLs]
  /\ pc \in [Replicas -> Points]
  /\ job \in [Replicas -> Jobs]
  /\ started \in 0..MaxRequests
  /\ faults \in 0..MaxFaults

-----------------------------------------------------------------------------
(* Safety *)

\* The subject's certificates that a relying party would accept: issued, not on
\* the CRL, not waiting to be put on it, not expired.
Live(s) == {n \in DOMAIN owner :
              owner[n] = s /\ n \notin crl.revoked \cup superseded \cup expired}

\* What the CRL lock is for: whatever a replica read under it (readStoredCRL,
\* readSuperseded) is still what storage holds when the replica writes it back,
\* so that no revocation and no superseded entry of another replica is
\* overwritten.
SnapshotsAreCurrent ==
  \A r \in Replicas :
    /\ At(r, "crlWrite") => job[r].view = crl
    /\ \/ pc[r] \in {"listAppend", "listWrite"}
       \/ pc[r] \in {"crlRead", "crlWrite"}
          /\ (Kind(r) = "Sweep" \/ job[r].stage = "retire")
       => job[r].list = superseded

\* A CRL number names one CRL (RFC 5280, and what SyncCRLCache's comparison by
\* number relies on): no replica's cached CRL is ahead of storage, and two CRLs
\* with one number, in storage or in any replica, are the same CRL.
CRLNumberNamesContent ==
  \A r \in Replicas :
    /\ cached[r].number <= crl.number
    /\ cached[r].number = crl.number => cached[r] = crl
    /\ \A q \in Replicas :
         cached[q].number = cached[r].number => cached[q] = cached[r]

\* What DeleteRequest takes the subject lock for: a request that is being signed
\* stays pending until its certificate is recorded, so no rejection is
\* acknowledged for a request that is signed all the same.
SignsOnlyPendingRequests ==
  \A r \in Replicas :
    Kind(r) \in {"SaveRequest", "Sign"} /\ pc[r] \in {"saveCert", "append"}
      => job[r].subject \in csr

\* Whenever nobody is working on a subject it has at most one certificate that
\* is neither revoked nor about to be ("only the newest serial should ever be
\* valid for a subject", AutoRenew), whichever replicas signed, renewed,
\* generated and revoked it.
OneLiveCertificate ==
  \A s \in Subjects : subjectLock[s] = NoOne => \A m, n \in Live(s) : m = n

\* Revoke and Clean find the serial to revoke in the inventory, agents download
\* the stored certificate: whenever nobody is working on the subject the two
\* are the same certificate.
StoredIsLatest ==
  \A s \in Subjects :
    subjectLock[s] = NoOne /\ cert[s] # 0 => cert[s] = LatestSerialForSubject(s)

\* refuseIfRevoked under the lock is authoritative: when a renewal issues, the
\* certificate it was asked with is neither revoked nor superseded.
RenewalHonoursRevocation ==
  \A r \in Replicas :
    Kind(r) \in {"Renew", "AutoRenew"} /\ At(r, "saveCert")
      => job[r].serial \notin crl.revoked \cup superseded

\* Clean leaves no credential behind: when it comes to delete the certificate,
\* every certificate of the subject is on the stored CRL, the predecessors still
\* inside their overlap window included (retireSupersededForSubjectLocked).
CleanRevokesAll ==
  \A r \in Replicas :
    Kind(r) = "Clean" /\ At(r, "cleanDelete")
      => \A n \in DOMAIN owner : owner[n] = job[r].subject => n \in crl.revoked

\* The roll-back of a failed issuance keeps storage and inventory in step: a
\* subject with no stored certificate has no live row in the inventory.
RollbackKeepsInStep ==
  \A s \in Subjects :
    subjectLock[s] = NoOne /\ cert[s] = 0 => Live(s) \cap Rows = {}

\* evictRevokedLocked blocks an issuance over a certificate that is not revoked:
\* Generate and Import never write over one.
EvictBlocksIssuance ==
  \A r \in Replicas :
    Kind(r) \in {"Generate", "Import"} /\ At(r, "saveCert")
      => cert[job[r].subject] \in crl.revoked \cup {0}

\* The expiry cleanup preserves a certificate renewed under its subject: the one
\* it is about to delete is still the expired one it compared, if any is left.
CleanupDeletesExpired ==
  \A r \in Replicas :
    At(r, "blobDelete") => cert[owner[job[r].new]] \in expired \cup {0}

-----------------------------------------------------------------------------
(* What no step may do *)

\* The stored CRL goes from one number to the next, and an entry leaves it only
\* when its certificate has expired: no interleaving, failure or crash loses a
\* revocation.
CRLOnlyGrows ==
  [][/\ crl'.number = crl.number + 1
     /\ crl.revoked \ crl'.revoked \subseteq expired]_crl

\* An entry leaves the superseded list only when its serial is on the stored
\* CRL: no interleaving, failure or crash of recordings, sweeps and revocations
\* forgets a certificate that was to be revoked.
SupersededReachesCRL ==
  [][superseded \ superseded' \subseteq crl.revoked]_superseded

-----------------------------------------------------------------------------
(* Progress *)

\* A replica's steps are taken; a lock that is free again and again is had in
\* the end (Go's mutexes, the SQL session locks and the etcd mutex queue); time
\* passes; the sweep and the CRL sync are periodic jobs.
Fairness ==
  /\ \A r \in Replicas :
       /\ WF_vars(Step(r))
       /\ SF_vars(AcquireSubject(r))
       /\ SF_vars(AcquireCRL(r))
       /\ WF_vars(CallSweep(r))
       /\ WF_vars(Sync(r))
  /\ \A n \in 1..MaxRequests : WF_vars(n \in DOMAIN owner /\ Elapse(n))

FairSpec == Spec /\ Fairness

\* Every operation returns: the order subject lock, CRL lock never leaves two
\* replicas waiting on each other.
OperationsReturn == \A r \in Replicas : ~At(r, "idle") ~> At(r, "idle")

\* A certificate recorded as superseded is revoked in the end.
SupersededIsRevoked ==
  \A n \in 1..MaxRequests : n \in superseded ~> n \in crl.revoked

\* A revocation reaches the CRL cache of every replica.
RevocationPropagates ==
  \A n \in 1..MaxRequests, r \in Replicas :
    n \in crl.revoked ~> n \in cached[r].revoked
=============================================================================
