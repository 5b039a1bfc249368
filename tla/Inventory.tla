----------------------------- MODULE Inventory -----------------------------
(***************************************************************************)
(* The structured certificate inventory that the replicas of a CA share:   *)
(* one record per issued certificate in issuance order, a by-serial and a  *)
(* by-subject index, and the head of a hash chain over the records.  Kind  *)
(* selects how a backend commits: etcd guards every transaction on the     *)
(* inventory/seq key, Redis runs one script guarded on the head it read,   *)
(* SQL runs one transaction.                                               *)
(*                                                                         *)
(* A MAC is an injective function of what it is computed over, so a head   *)
(* is the sequence of lines folded into it.  The head of an established    *)
(* inventory is never absent; InventoryStart models how it comes to be.    *)
(***************************************************************************)
EXTENDS Naturals, FiniteSets, FiniteSetsExt, Sequences, SequencesExt, Functions

CONSTANTS
  Kind,             \* "etcd", "redis" or "sql"
  Replicas,         \* each runs one inventory operation at a time
  SubjectOf,        \* SubjectOf[s]: the subject serial s is issued to
  Legacy,           \* the subjects that bear the serial "dup" in an imported blob
  MaxSeq,           \* bound: sequence numbers allocated
  MaxCalls,         \* bound: operations begun
  Edits,            \* the certificate-index writes that happen
  Batch,            \* etcdPruneBatch
  MaxBatches,       \* etcdPruneMaxBatchesPerCall
  PerCall,          \* redisPruneMaxPerCall
  Retries           \* etcdMaxTxnRetries, redisMaxRetries

Serials == DOMAIN SubjectOf

Ambiguous == 0

VARIABLES
  entries,          \* entries[n]: the record with sequence number n
  seq,              \* the last sequence number allocated
  head,             \* the stored head of the chain
  bySerial,         \* bySerial[s]: the record that bears s, or Ambiguous
  bySubject,        \* bySubject[c]: the serial last issued to c
  op,               \* op[r]: the operation replica r is in
  calls,            \* operations begun
  told              \* serials whose revocation was written to the index

store == <<entries, seq, head, bySerial, bySubject>>

vars == <<entries, seq, head, bySerial, bySubject, op, calls, told>>

Record(s, c, p) == [serial |-> s, subject |-> c, state |-> "signed", proj |-> p]

(* What feeds the chain: the canonical line holds no mutable field. *)
Line(rec) == <<rec.serial, rec.subject>>

Order(es) == SetToSortSeq(DOMAIN es, <)

Fold(es) == [i \in 1..Cardinality(DOMAIN es) |-> Line(es[Order(es)[i]])]

Bearing(es, s) == {n \in DOMAIN es : es[n].serial = s}

Naming(es, c) == {n \in DOMAIN es : es[n].subject = c}

SubjectIndex(es) ==
  [c \in {es[n].subject : n \in DOMAIN es} |-> es[Max(Naming(es, c))].serial]

Unset == [pc |-> "idle", serial |-> "-", proj |-> "none", edit |-> "-", expired |-> {},
          fresh |-> FALSE, head |-> <<>>, at |-> 0, snap |-> <<>>, batch |-> 0, last |-> 0,
          gone |-> {}, took |-> {}, budget |-> 0, tries |-> 0, result |-> "-"]

(* An established inventory: empty, one record written before ip_alt_names *)
(* existed, or a converted blob with a duplicated serial.                  *)
Init ==
  /\ entries \in {<<>>, <<Record("s1", SubjectOf["s1"], "old")>>}
                 \cup {SetToSeq({Record("dup", c, "none") : c \in Legacy})}
  /\ seq = Len(entries)
  /\ head = Fold(entries)
  /\ bySerial = [s \in {entries[n].serial : n \in DOMAIN entries} |->
                   IF s = "dup" THEN Ambiguous ELSE 1]
  /\ bySubject = SubjectIndex(entries)
  /\ op = [r \in Replicas |-> Unset]
  /\ calls = 0
  /\ told = {}

-----------------------------------------------------------------------------
(* Calls. *)

Begin(r, call) ==
  /\ op[r].pc = "idle"
  /\ calls < MaxCalls
  /\ calls' = calls + 1
  /\ op' = [op EXCEPT ![r] = call]
  /\ UNCHANGED <<store, told>>

Returned(o, result) == [o EXCEPT !.pc = "idle", !.result = result]

Return(r, result) == op' = [op EXCEPT ![r] = Returned(op[r], result)]

Retried(o, pc) == IF o.tries < Retries THEN [o EXCEPT !.pc = pc, !.tries = @ + 1]
                  ELSE Returned(o, "error")

(* What the other replicas find when r commits: those between their read   *)
(* and their guarded commit see a newer ModRevision.                       *)
Commit(r, o, moved, written) ==
  op' = [x \in Replicas |->
           IF x = r THEN o
           ELSE IF \/ moved /\ op[x].pc \in {"appendCommit", "pruneCommit"}
                   \/ op[x].pc = "editCommit" /\ op[x].at \in written
           THEN [op[x] EXCEPT !.fresh = FALSE]
           ELSE op[x]]

(* The answer to a write that has committed may get lost. *)
Answers == {"ok", "error"}

(* A read that fails, a guarded commit that never reached the store, or a  *)
(* context that ends during the backoff.                                   *)
Fail(r) ==
  /\ op[r].pc # "idle"
  /\ Return(r, "error")
  /\ UNCHANGED <<store, calls, told>>

Crash(r) ==
  /\ op[r].pc # "idle"
  /\ op' = [op EXCEPT ![r] = Unset]
  /\ UNCHANGED <<store, calls, told>>

-----------------------------------------------------------------------------
(* AppendInventoryRecord. *)

BeginAppend(r, s) ==
  /\ seq + Cardinality({x \in Replicas : op[x].pc \in {"append", "appendCommit"}}) < MaxSeq
  /\ Begin(r, [Unset EXCEPT !.pc = "append", !.serial = s, !.proj = "full"])

Insert(r, h) ==
  LET s == op[r].serial
      n == seq + 1
  IN /\ entries' = [i \in DOMAIN entries \cup {n} |->
                      IF i = n THEN Record(s, SubjectOf[s], op[r].proj) ELSE entries[i]]
     /\ seq' = n
     /\ head' = h
     /\ bySerial' = [x \in DOMAIN bySerial \cup {s} |-> IF x = s THEN n ELSE bySerial[x]]
     /\ bySubject' = [x \in DOMAIN bySubject \cup {SubjectOf[s]} |->
                        IF x = SubjectOf[s] THEN s ELSE bySubject[x]]
     /\ \E a \in Answers : Commit(r, Returned(op[r], a), TRUE, {n})

NewHead(r, prev) == Append(prev, <<op[r].serial, SubjectOf[op[r].serial]>>)

EtcdAppendRead(r) ==
  /\ Kind = "etcd" /\ op[r].pc = "append"
  /\ IF op[r].serial \in DOMAIN bySerial
     THEN Return(r, "dup")
     ELSE op' = [op EXCEPT ![r] = [@ EXCEPT !.pc = "appendCommit", !.fresh = TRUE, !.head = head]]
  /\ UNCHANGED <<store, calls, told>>

EtcdAppendCommit(r) ==
  /\ Kind = "etcd" /\ op[r].pc = "appendCommit"
  /\ \/ /\ op[r].fresh /\ op[r].serial \notin DOMAIN bySerial
        /\ Insert(r, NewHead(r, op[r].head))
     \/ /\ ~(op[r].fresh /\ op[r].serial \notin DOMAIN bySerial)
        /\ op' = [op EXCEPT ![r] = Retried(@, "append")]
        /\ UNCHANGED store
  /\ UNCHANGED <<calls, told>>

RedisReadHead(r) ==
  /\ Kind = "redis" /\ op[r].pc = "append"
  /\ op' = [op EXCEPT ![r] = [@ EXCEPT !.pc = "appendCommit", !.head = head]]
  /\ UNCHANGED <<store, calls, told>>

HeadConflicts(r) == head # op[r].head

AppendStatus(r) ==
  IF op[r].serial \in DOMAIN bySerial THEN "dup"
  ELSE IF HeadConflicts(r) THEN "conflict" ELSE "ok"

RedisAppendScript(r) ==
  /\ Kind = "redis" /\ op[r].pc = "appendCommit"
  /\ \/ AppendStatus(r) = "dup" /\ Return(r, "dup") /\ UNCHANGED store
     \/ /\ AppendStatus(r) = "conflict"
        /\ op' = [op EXCEPT ![r] = Retried(@, "append")]
        /\ UNCHANGED store
     \/ AppendStatus(r) = "ok" /\ Insert(r, NewHead(r, op[r].head))
  /\ UNCHANGED <<calls, told>>

(* The transaction locks the presence marker before it reads the head; the *)
(* unique index on serial refuses a duplicate.                             *)
SqlAppend(r) ==
  /\ Kind = "sql" /\ op[r].pc = "append"
  /\ \/ /\ op[r].serial \in DOMAIN bySerial
        /\ Return(r, "dup")
        /\ UNCHANGED store
     \/ /\ op[r].serial \notin DOMAIN bySerial
        /\ Insert(r, NewHead(r, head))
  /\ UNCHANGED <<calls, told>>

-----------------------------------------------------------------------------
(* Verification: the stored head is read first and the records afterwards, *)
(* in two requests.  PruneInventory verifies before it prunes.             *)

BeginVerify(r) == Begin(r, [Unset EXCEPT !.pc = "verify"])

BeginPrune(r, X) ==
  Begin(r, [Unset EXCEPT !.pc = "verify", !.expired = X, !.budget = MaxBatches])

VerifyHead(r) ==
  /\ op[r].pc = "verify"
  /\ op' = [op EXCEPT ![r] = [@ EXCEPT !.pc = "verifyEntries", !.head = head]]
  /\ UNCHANGED <<store, calls, told>>

VerifyEntries(r) ==
  /\ op[r].pc = "verifyEntries"
  /\ IF Fold(entries) # op[r].head
     THEN Return(r, "tampered")
     ELSE IF op[r].expired = {} THEN Return(r, "ok")
     ELSE op' = [op EXCEPT ![r].pc = "prune"]
  /\ UNCHANGED <<store, calls, told>>

(* InventoryEntries reads the records first and the stored head afterwards. *)
BeginList(r) == Begin(r, [Unset EXCEPT !.pc = "list"])

InventoryEntries(r) ==
  /\ op[r].pc = "list"
  /\ op' = [op EXCEPT ![r] = [@ EXCEPT !.pc = "listHead", !.head = Fold(entries)]]
  /\ UNCHANGED <<store, calls, told>>

CompareInventoryMAC(r) ==
  /\ op[r].pc = "listHead"
  /\ Return(r, IF op[r].head = head THEN "ok" ELSE "tampered")
  /\ UNCHANGED <<store, calls, told>>

-----------------------------------------------------------------------------
(* PruneEntries. *)

Expired(es, X) == {n \in DOMAIN es : es[n].serial \in X}

(* Drop the records ns: the by-serial key goes with its last bearer, so    *)
(* the sentinel of a duplicated serial stays while one copy does.          *)
Drop(es, ns) == Restrict(es, DOMAIN es \ ns)

Erase(r, ns, h, subjects) ==
  LET left == {entries[n].serial : n \in DOMAIN entries \ ns}
  IN /\ entries' = Drop(entries, ns)
     /\ head' = h
     /\ bySerial' = Restrict(bySerial, left)
     /\ bySubject' = subjects
     /\ told' = told \cap left
     /\ UNCHANGED seq

EtcdPruneRead(r) ==
  LET n == Cardinality(Expired(entries, op[r].expired))
      k == (n + Batch - 1) \div Batch
  IN /\ Kind = "etcd" /\ op[r].pc = "prune"
     /\ IF n = 0
        THEN Return(r, "ok")
        ELSE op' = [op EXCEPT ![r] =
                      [@ EXCEPT !.pc = "pruneCommit", !.fresh = TRUE, !.snap = entries,
                                !.batch = k, !.last = IF k > op[r].budget THEN k - op[r].budget ELSE 0]]
     /\ UNCHANGED <<store, calls, told>>

(* The k-th slice of the expired records of a snapshot, oldest first. *)
BatchOf(es, X, k) ==
  LET all == SetToSortSeq(Expired(es, X), <)
  IN {all[i] : i \in {j \in DOMAIN all : (k - 1) * Batch < j /\ j <= k * Batch}}

(* The head once batch ns is gone: the prefix before it, expired records   *)
(* of later batches included, and then the survivors.                      *)
ResumedHead(es, X, ns) ==
  Fold(Restrict(es, {n \in DOMAIN es : n < Min(ns) \/ n \notin Expired(es, X)}))

(* by-subject after the batch: the newest of what precedes the batch and   *)
(* of the survivors after it.                                              *)
Repoint(es, X, ns) ==
  LET gone == {es[n].subject : n \in ns}
      left == Restrict(es, {n \in DOMAIN es : n < Min(ns) \/ n \notin Expired(es, X)})
  IN [c \in DOMAIN bySubject \ (gone \ DOMAIN SubjectIndex(left)) |->
        IF c \in gone THEN SubjectIndex(left)[c] ELSE bySubject[c]]

\* Mutant: a retry forgets what earlier batches removed.
AfterConflict_Forgets(o) ==
  IF o.budget = 0 THEN Returned(o, "ok") ELSE Retried([o EXCEPT !.gone = {}], "prune")

AfterConflict(o) == IF o.budget = 0 THEN Returned(o, "ok") ELSE Retried(o, "prune")

(* One batch, from the tail of the snapshot towards its front. *)
EtcdPruneBatch(r) ==
  LET o == op[r]
      ns == BatchOf(o.snap, o.expired, o.batch)
      done == [o EXCEPT !.took = @ \cup ns, !.gone = @ \cup ns,
                        !.budget = @ - 1, !.batch = @ - 1]
  IN /\ Kind = "etcd" /\ o.pc = "pruneCommit"
     /\ \/ /\ o.fresh
           /\ Erase(r, ns, ResumedHead(o.snap, o.expired, ns), Repoint(o.snap, o.expired, ns))
           /\ \E a \in Answers :
                Commit(r, IF a = "error" THEN Returned([o EXCEPT !.took = @ \cup ns], a)
                          ELSE IF done.batch = o.last THEN Returned(done, a) ELSE done,
                       TRUE, ns)
        \/ /\ ~o.fresh
           /\ op' = [op EXCEPT ![r] = AfterConflict(o)]
           /\ UNCHANGED <<store, told>>
     /\ UNCHANGED calls

RedisPruneRead(r) ==
  /\ Kind = "redis" /\ op[r].pc = "prune"
  /\ IF Expired(entries, op[r].expired) = {}
     THEN Return(r, "ok")
     ELSE op' = [op EXCEPT ![r] = [@ EXCEPT !.pc = "pruneCommit", !.snap = entries,
                                            !.at = seq, !.head = head]]
  /\ UNCHANGED <<store, calls, told>>

(* The oldest PerCall expired records. *)
Oldest(es, X) ==
  LET all == SetToSortSeq(Expired(es, X), <)
  IN {all[i] : i \in {j \in DOMAIN all : j <= PerCall}}

PruneConflicts(r) == seq # op[r].at \/ head # op[r].head

RedisPruneScript(r) ==
  LET o == op[r]
      ns == Oldest(o.snap, o.expired)
  IN /\ Kind = "redis" /\ o.pc = "pruneCommit"
     /\ \/ /\ PruneConflicts(r)
           /\ op' = [op EXCEPT ![r] = Retried(o, "prune")]
           /\ UNCHANGED <<store, told>>
        \/ /\ ~PruneConflicts(r)
           /\ Erase(r, ns, Fold(Drop(o.snap, ns)), SubjectIndex(Drop(o.snap, ns)))
           /\ \E a \in Answers :
                Commit(r, Returned([o EXCEPT !.took = ns,
                                             !.gone = IF a = "ok" THEN ns ELSE {}], a), TRUE, ns)
     /\ UNCHANGED calls

SqlPrune(r) ==
  LET ns == Expired(entries, op[r].expired)
  IN /\ Kind = "sql" /\ op[r].pc = "prune"
     /\ Erase(r, ns, Fold(Drop(entries, ns)), SubjectIndex(Drop(entries, ns)))
     /\ \E a \in Answers :
          Commit(r, Returned([op[r] EXCEPT !.took = ns,
                                           !.gone = IF a = "ok" THEN ns ELSE {}], a), TRUE, ns)
     /\ UNCHANGED calls

-----------------------------------------------------------------------------
(* The certificate index: SetRevoked, ClearRevoked and SetProjection find  *)
(* the record through the by-serial index and write it back guarded on the *)
(* value they decoded; none of them is part of the chain.                  *)

BeginEdit(r, s, e) == Begin(r, [Unset EXCEPT !.pc = "edit", !.serial = s, !.edit = e])

(* A projection stored before ip_alt_names decodes as no projection. *)
Decode(rec) == IF rec.proj = "old" THEN [rec EXCEPT !.proj = "none"] ELSE rec

Mutate(rec, e) ==
  CASE e = "revoke" -> [rec EXCEPT !.state = "revoked"]
    [] e = "clear" -> [rec EXCEPT !.state = "signed"]
    [] e = "project" -> [rec EXCEPT !.proj = "full"]

Tell(s, e) ==
  told' = CASE e = "revoke" -> told \cup {s}
            [] e = "clear" -> told \ {s}
            [] e = "project" -> told

EditLookup(r) ==
  LET s == op[r].serial
  IN /\ Kind # "sql" /\ op[r].pc = "edit"
     /\ \/ /\ s \notin DOMAIN bySerial
           /\ Return(r, "ok")
           /\ UNCHANGED told
        \/ /\ s \in DOMAIN bySerial /\ bySerial[s] = Ambiguous
           /\ Return(r, "ok")
           /\ Tell(s, op[r].edit)
        \/ /\ s \in DOMAIN bySerial /\ bySerial[s] # Ambiguous
           /\ op' = [op EXCEPT ![r] = [@ EXCEPT !.pc = "editEntry", !.at = bySerial[s]]]
           /\ UNCHANGED told
     /\ UNCHANGED <<store, calls>>

EditRead(r) ==
  LET n == op[r].at
      e == op[r].edit
  IN /\ op[r].pc = "editEntry"
     /\ \/ /\ n \notin DOMAIN entries
           /\ Return(r, "ok")
           /\ UNCHANGED told
        \/ /\ n \in DOMAIN entries /\ e # "project"
           /\ Mutate(Decode(entries[n]), e) = Decode(entries[n])
           /\ Return(r, "ok")
           /\ Tell(op[r].serial, e)
        \/ /\ n \in DOMAIN entries
           /\ e = "project" \/ Mutate(Decode(entries[n]), e) # Decode(entries[n])
           /\ op' = [op EXCEPT ![r] = [@ EXCEPT !.pc = "editCommit", !.fresh = TRUE,
                                                !.snap = <<entries[n]>>]]
           /\ UNCHANGED told
     /\ UNCHANGED <<store, calls>>

WriteRecord(r) ==
  /\ entries' = [entries EXCEPT ![op[r].at] = Mutate(Decode(op[r].snap[1]), op[r].edit)]
  /\ Tell(op[r].serial, op[r].edit)
  /\ \E a \in Answers : Commit(r, Returned(op[r], a), FALSE, {op[r].at})
  /\ UNCHANGED <<seq, head, bySerial, bySubject>>

EtcdEditCommit(r) ==
  /\ Kind = "etcd" /\ op[r].pc = "editCommit"
  /\ \/ op[r].fresh /\ WriteRecord(r)
     \/ /\ ~op[r].fresh
        /\ op' = [op EXCEPT ![r] = Retried(@, "edit")]
        /\ UNCHANGED <<store, told>>
  /\ UNCHANGED calls

RecordStatus(r) ==
  IF op[r].at \notin DOMAIN entries THEN "missing"
  ELSE IF entries[op[r].at] # op[r].snap[1] THEN "conflict" ELSE "ok"

RedisEditCommit(r) ==
  /\ Kind = "redis" /\ op[r].pc = "editCommit"
  /\ \/ RecordStatus(r) = "missing" /\ Return(r, "ok") /\ UNCHANGED <<store, told>>
     \/ /\ RecordStatus(r) = "conflict"
        /\ op' = [op EXCEPT ![r] = Retried(@, "edit")]
        /\ UNCHANGED <<store, told>>
     \/ RecordStatus(r) = "ok" /\ WriteRecord(r)
  /\ UNCHANGED calls

(* One UPDATE of the columns the call is about, on every row of the serial. *)
SqlEdit(r) ==
  LET s == op[r].serial
  IN /\ Kind = "sql" /\ op[r].pc = "edit"
     /\ entries' = [n \in DOMAIN entries |->
                      IF entries[n].serial = s THEN Mutate(entries[n], op[r].edit) ELSE entries[n]]
     /\ IF s \in DOMAIN bySerial THEN Tell(s, op[r].edit) ELSE UNCHANGED told
     /\ \E a \in Answers : Commit(r, Returned(op[r], a), FALSE, Bearing(entries, s))
     /\ UNCHANGED <<seq, head, bySerial, bySubject, calls>>

(* One record per subject, the latest issuance; a serial that carries the  *)
(* sentinel has no known state.                                            *)
Statuses ==
  [c \in {entries[n].subject : n \in DOMAIN entries} |->
     LET rec == entries[Max(Naming(entries, c))]
     IN IF bySerial[rec.serial] = Ambiguous THEN [rec EXCEPT !.state = "unknown"] ELSE rec]

-----------------------------------------------------------------------------
Operation(r) ==
  \/ \E s \in Serials : BeginAppend(r, s)
  \/ \E s \in Serials, e \in Edits : BeginEdit(r, s, e)
  \/ \E X \in SUBSET Serials \ {{}} : BeginPrune(r, X)
  \/ BeginVerify(r) \/ BeginList(r)

Step(r) ==
  \/ EtcdAppendRead(r) \/ EtcdAppendCommit(r)
  \/ RedisReadHead(r) \/ RedisAppendScript(r)
  \/ SqlAppend(r)
  \/ VerifyHead(r) \/ VerifyEntries(r)
  \/ InventoryEntries(r) \/ CompareInventoryMAC(r)
  \/ EtcdPruneRead(r) \/ EtcdPruneBatch(r)
  \/ RedisPruneRead(r) \/ RedisPruneScript(r)
  \/ SqlPrune(r)
  \/ EditLookup(r) \/ EditRead(r)
  \/ EtcdEditCommit(r) \/ RedisEditCommit(r) \/ SqlEdit(r)

Next == \E r \in Replicas : Operation(r) \/ Step(r) \/ Fail(r) \/ Crash(r)

Spec == Init /\ [][Next]_vars

-----------------------------------------------------------------------------
States == {"signed", "revoked"}

Projections == {"none", "old", "full"}

(* Every record, index entry and operation is of the form the code stores. *)
TypeOK ==
  /\ seq \in 0..MaxSeq /\ DOMAIN entries \subseteq 1..seq
  /\ \A n \in DOMAIN entries : entries[n].state \in States /\ entries[n].proj \in Projections
  /\ DOMAIN bySerial \subseteq Serials
  /\ calls \in 0..MaxCalls /\ told \subseteq Serials
  /\ \A r \in Replicas : op[r].tries <= Retries /\ op[r].took \subseteq 1..MaxSeq

(* After every commit, of one batch of a prune or by a replica that then   *)
(* dies included, the stored head is the fold over exactly the records     *)
(* that are stored: verifyInventoryHMACLocked accepts what it would read   *)
(* in one request.                                                         *)
HeadCoversEntries == head = Fold(entries)

(* The indexes agree with the records after every commit: a by-serial key  *)
(* exists exactly while some record bears the serial, one that names a     *)
(* record names its only bearer (a serial is never issued twice), and      *)
(* LatestSerialForSubject answers with the last issuance still recorded.   *)
IndexesAgree ==
  /\ DOMAIN bySerial = {entries[n].serial : n \in DOMAIN entries}
  /\ \A s \in DOMAIN bySerial :
       bySerial[s] # Ambiguous => Bearing(entries, s) = {bySerial[s]}
  /\ bySubject = SubjectIndex(entries)

(* What one transaction of a prune removes at most; SQL removes all.       *)
InOneGo == IF Kind = "etcd" THEN Batch ELSE IF Kind = "redis" THEN PerCall ELSE MaxSeq

(* PruneEntries returns only records it durably removed and, without an    *)
(* error, all of them, however many times a concurrent writer made it      *)
(* start over.  With an error it leaves out at most what its last          *)
(* transaction removed, whose answer was lost: the clean-up of             *)
(* PruneInventory's caller misses those, and no others.                    *)
PruneReportsRemovals ==
  \A r \in Replicas : op[r].pc = "idle" =>
    /\ op[r].gone \subseteq op[r].took
    /\ op[r].result # "error" => op[r].gone = op[r].took
    /\ Cardinality(op[r].took \ op[r].gone) <= InOneGo

(* One call removes at most its budget, retries included. *)
PruneStaysInBudget ==
  \A r \in Replicas : Cardinality(op[r].took) <= (IF Kind = "etcd" THEN Batch * MaxBatches ELSE PerCall)

(* A certificate whose revocation SetRevoked acknowledged is never listed  *)
(* as signed again, whatever repairs, refused duplicates and prunes race   *)
(* with it: it is listed as revoked, or as unknown, which sends the reader *)
(* to the CRL.                                                             *)
RevokedNeverShownSigned ==
  \A c \in DOMAIN Statuses : Statuses[c].serial \in told => Statuses[c].state # "signed"

(* A verification that races with appends and prunes of other replicas     *)
(* never reports a mismatch on an inventory nobody altered.                *)
NoFalseAlarm == \A r \in Replicas : op[r].result # "tampered"
=============================================================================
