--------------------------- MODULE InventoryStart ---------------------------
(***************************************************************************)
(* What a replica does to the shared inventory before it serves: convert   *)
(* an inventory that an older version kept as one text blob into records,  *)
(* agree on the HMAC key, and verify or establish the integrity head.      *)
(* Replicas start, crash and restart in any order, the lease of the        *)
(* inventory-decompose lock may run out under its holder, and a replica of *)
(* the older version may still append to the blob.                         *)
(*                                                                         *)
(* A MAC is the lines it covers with the key of each: under the blob       *)
(* scheme one key covers all lines at once, under the chain scheme each    *)
(* link has the key of the replica that appended it.                       *)
(***************************************************************************)
EXTENDS Naturals, Sequences, FiniteSets

CONSTANTS
  Replicas,
  ByRevision,       \* TRUE: etcd's ModRevision fence; FALSE: Redis' counter value
  Text,             \* the lines of the blob an older store may hold
  OldLines,         \* those lines, and lines a replica of the older version appends
  NewLines,         \* lines running replicas append
  LockLapses,       \* whether the inventory-decompose lease may run out
  Retries,          \* etcdMaxTxnRetries, redisMaxRetries
  MaxCrashes        \* bound: crashes and refused starts that are retried

ASSUME StartAssumption == Text \in Seq(OldLines) /\ ByRevision \in BOOLEAN

VARIABLES
  blob,             \* the lines at inventory/data; empty is the bare marker
  entries,          \* the records, in sequence order from 1
  seq,              \* the value of inventory/seq
  head,             \* the stored integrity value
  key,              \* the stored HMAC key: NoKey, BadKey or a positive number
  decomposer,       \* who believes it holds the inventory-decompose lock
  keyHolder,        \* who holds the hmac-key lock
  rep,              \* rep[r]: the start replica r is in
  old,              \* the blob the older replica has yet to write the MAC of
  sent,             \* lines the older replica appended
  imported,         \* the blob the import that finished converted
  issued,           \* lines running replicas appended, in order
  crashes

shared == <<blob, entries, seq, head, key, imported, issued>>

vars == <<blob, entries, seq, head, key, decomposer, keyHolder, rep, old, sent,
          imported, issued, crashes>>

Holds(lines, l) == \E i \in DOMAIN lines : lines[i] = l

NoKey == 0

BadKey == 99

None == [scheme |-> "none", links |-> <<>>]

MAC(k, lines) == [scheme |-> "blob", links |-> [i \in DOMAIN lines |-> <<k, lines[i]>>], key |-> k]

Chain(k, lines) == [scheme |-> "chain", links |-> [i \in DOMAIN lines |-> <<k, lines[i]>>]]

Down == [pc |-> "down", blob |-> <<>>, markFresh |-> FALSE, seqFresh |-> FALSE, seq |-> 0,
         headFresh |-> FALSE, head |-> None, done |-> 0, key |-> NoKey, tries |-> 0]

(* A store of the older version: an empty or a filled blob under its MAC,  *)
(* or a fresh store; its key present, or truncated.                        *)
Init ==
  /\ \/ blob \in {<<>>, Text} /\ key \in {1, BadKey} /\ head = MAC(1, blob)
     \/ blob = <<>> /\ key \in {NoKey, BadKey} /\ head = None
  /\ entries = <<>> /\ seq = 0
  /\ decomposer = {} /\ keyHolder = {}
  /\ rep = [r \in Replicas |-> Down]
  /\ old = <<>> /\ sent = {}
  /\ imported = <<>> /\ issued = <<>>
  /\ crashes = 0

-----------------------------------------------------------------------------
Set(r, o) == rep' = [rep EXCEPT ![r] = o]

At(r, pc) == rep[r].pc = pc

Goto(r, pc) == Set(r, [rep[r] EXCEPT !.pc = pc])

(* Others lose the revision they compare with: of the marker, the sequence *)
(* counter, the head.                                                      *)
Commit(r, o, mark, fence, hd) ==
  rep' = [x \in Replicas |->
            IF x = r THEN o
            ELSE [rep[x] EXCEPT !.markFresh = @ /\ ~mark, !.seqFresh = @ /\ ~fence,
                                !.headFresh = @ /\ ~hd]]

Again(r, pc) ==
  IF rep[r].tries < Retries THEN [rep[r] EXCEPT !.pc = pc, !.tries = @ + 1]
  ELSE [rep[r] EXCEPT !.pc = "failed"]

Release(r) == decomposer' = decomposer \ {r}

Start(r) ==
  /\ At(r, "down")
  /\ Goto(r, "probe")
  /\ UNCHANGED <<shared, decomposer, keyHolder, old, sent, crashes>>

(* The process dies, or its start is refused and it is started again. *)
Crash(r) ==
  /\ ~At(r, "down") /\ crashes < MaxCrashes
  /\ crashes' = crashes + 1
  /\ Set(r, Down)
  /\ Release(r)
  /\ keyHolder' = keyHolder \ {r}
  /\ UNCHANGED <<shared, old, sent>>

-----------------------------------------------------------------------------
(* decomposeLegacyInventory. *)

Probe(r) ==
  /\ At(r, "probe")
  /\ Goto(r, IF blob = <<>> THEN "emptyHead" ELSE "lock")
  /\ UNCHANGED <<shared, decomposer, keyHolder, old, sent, crashes>>

(* Only a holder whose lease ran out can still be at work. *)
LockDecompose(r) ==
  /\ At(r, "lock")
  /\ decomposer = {} \/ LockLapses
  /\ decomposer' = {r}
  /\ Goto(r, "state")
  /\ UNCHANGED <<shared, keyHolder, old, sent, crashes>>

RecordsArePrefixOf(es, lines) ==
  Len(es) <= Len(lines) /\ \A i \in 1..Len(es) : es[i] = lines[i]

(* legacyInventoryState and the decisions on it. *)
ReadState(r) ==
  /\ At(r, "state")
  /\ \/ blob = <<>> /\ Goto(r, "key") /\ Release(r)
     \/ /\ blob # <<>> /\ ~RecordsArePrefixOf(entries, blob)
        /\ Goto(r, "mixed") /\ Release(r)
     \/ /\ blob # <<>> /\ RecordsArePrefixOf(entries, blob)
        /\ Set(r, [rep[r] EXCEPT !.pc = "mac", !.blob = blob, !.markFresh = TRUE])
        /\ UNCHANGED decomposer
  /\ UNCHANGED <<shared, keyHolder, old, sent, crashes>>

VerifyLegacyMAC(r) ==
  LET fine == head = None \/ (key \notin {NoKey, BadKey} /\ head = MAC(key, rep[r].blob))
  IN /\ At(r, "mac")
     /\ Goto(r, IF fine THEN "seq" ELSE "tampered")
     /\ IF fine THEN UNCHANGED decomposer ELSE Release(r)
     /\ UNCHANGED <<shared, keyHolder, old, sent, crashes>>

ReadSeq(r) ==
  /\ At(r, "seq")
  /\ Set(r, [rep[r] EXCEPT !.pc = "wipe", !.seqFresh = TRUE, !.seq = seq, !.done = 0])
  /\ UNCHANGED <<shared, decomposer, keyHolder, old, sent, crashes>>

\* Mutant: the replacement does not check the blob it read.
Guarded_SeqOnly(r) == IF ByRevision THEN rep[r].seqFresh ELSE seq = rep[r].seq

Guarded(r) ==
  /\ rep[r].markFresh
  /\ IF ByRevision THEN rep[r].seqFresh ELSE seq = rep[r].seq

(* A guard of the replacement failed: read the state again. *)
ReplaceConflict(r) ==
  /\ rep[r].pc \in {"wipe", "batch", "finish"} /\ ~Guarded(r)
  /\ Set(r, Again(r, "state"))
  /\ IF Again(r, "state").pc = "failed" THEN Release(r) ELSE UNCHANGED decomposer
  /\ UNCHANGED <<shared, keyHolder, old, sent, crashes>>

ReplaceWipe(r) ==
  /\ At(r, "wipe") /\ Guarded(r)
  /\ entries' = <<>> /\ seq' = 0
  /\ Commit(r, [rep[r] EXCEPT !.pc = "batch", !.seq = 0], FALSE, TRUE, FALSE)
  /\ UNCHANGED <<blob, head, key, imported, issued, decomposer, keyHolder, old, sent, crashes>>

(* One batch, of one record here: the record at its sequence number. *)
ReplaceBatch(r) ==
  LET n == rep[r].done + 1
      last == n = Len(rep[r].blob)
  IN /\ At(r, "batch") /\ Guarded(r)
     /\ entries' = [i \in 1..(IF n > Len(entries) THEN n ELSE Len(entries)) |->
                      IF i = n THEN rep[r].blob[n] ELSE entries[i]]
     /\ seq' = n
     /\ Commit(r, [rep[r] EXCEPT !.pc = IF last THEN "finish" ELSE "batch", !.done = n, !.seq = n],
               FALSE, TRUE, FALSE)
     /\ UNCHANGED <<blob, head, key, imported, issued, decomposer, keyHolder, old, sent, crashes>>

(* Empty the marker, drop the whole-blob head; only etcd rewrites the      *)
(* fence.                                                                  *)
ReplaceFinish(r) ==
  /\ At(r, "finish") /\ Guarded(r)
  /\ blob' = <<>> /\ imported' = rep[r].blob /\ seq' = Len(rep[r].blob)
  /\ head' = None
  /\ Commit(r, [rep[r] EXCEPT !.pc = "key"], TRUE, ByRevision, TRUE)
  /\ Release(r)
  /\ UNCHANGED <<entries, key, issued, keyHolder, old, sent, crashes>>

LegacyEmptyHead == entries = <<>> /\ key \notin {NoKey, BadKey} /\ head = MAC(key, <<>>)

ReadEmptyHead(r) ==
  /\ At(r, "emptyHead")
  /\ Set(r, IF LegacyEmptyHead
            THEN [rep[r] EXCEPT !.pc = "dropHead", !.headFresh = TRUE, !.head = head]
            ELSE [rep[r] EXCEPT !.pc = "key"])
  /\ UNCHANGED <<shared, decomposer, keyHolder, old, sent, crashes>>

(* Guarded on the head it read: a chained head is never dropped. *)
DropHead(r) ==
  LET same == IF ByRevision THEN rep[r].headFresh ELSE head = rep[r].head
  IN /\ At(r, "dropHead")
     /\ \/ /\ same /\ head' = None
           /\ Commit(r, [rep[r] EXCEPT !.pc = "key"], FALSE, FALSE, TRUE)
        \/ ~same /\ Set(r, Again(r, "emptyHead")) /\ UNCHANGED head
     /\ UNCHANGED <<blob, entries, seq, key, imported, issued, decomposer, keyHolder, old, sent, crashes>>

-----------------------------------------------------------------------------
(* EnsureHMACKey: look, lock, look again, generate. *)

Usable(k) == k \notin {NoKey, BadKey}

LoadKey(r) ==
  /\ At(r, "key")
  /\ Set(r, IF Usable(key) THEN [rep[r] EXCEPT !.pc = "verify", !.key = key]
            ELSE [rep[r] EXCEPT !.pc = "keyLock"])
  /\ UNCHANGED <<shared, decomposer, keyHolder, old, sent, crashes>>

LockKey(r) ==
  /\ At(r, "keyLock") /\ keyHolder = {}
  /\ keyHolder' = {r}
  /\ Goto(r, "keyAgain")
  /\ UNCHANGED <<shared, decomposer, old, sent, crashes>>

LoadKeyAgain(r) ==
  /\ At(r, "keyAgain")
  /\ \/ /\ Usable(key)
        /\ Set(r, [rep[r] EXCEPT !.pc = "verify", !.key = key])
        /\ keyHolder' = {}
     \/ ~Usable(key) /\ Goto(r, "keyPut") /\ UNCHANGED keyHolder
  /\ UNCHANGED <<shared, decomposer, old, sent, crashes>>

(* rand.Read: a key nobody else has. *)
Fresh == CHOOSE k \in 2..(BadKey - 1) : k # key /\ \A r \in Replicas : rep[r].key # k

PutKey(r) ==
  /\ At(r, "keyPut")
  /\ key' = Fresh
  /\ Set(r, [rep[r] EXCEPT !.pc = "verify", !.key = Fresh])
  /\ keyHolder' = {}
  /\ UNCHANGED <<blob, entries, seq, head, imported, issued, decomposer, old, sent, crashes>>

-----------------------------------------------------------------------------
(* VerifyInventoryHMAC: the head, then the records; or a new baseline. *)

VerifyHead(r) ==
  /\ At(r, "verify")
  /\ Set(r, [rep[r] EXCEPT !.pc = IF head = None THEN "baseline" ELSE "compare", !.head = head])
  /\ UNCHANGED <<shared, decomposer, keyHolder, old, sent, crashes>>

VerifyEntries(r) ==
  /\ At(r, "compare")
  /\ Goto(r, IF rep[r].head = Chain(rep[r].key, entries) THEN "up" ELSE "tampered")
  /\ UNCHANGED <<shared, decomposer, keyHolder, old, sent, crashes>>

BaselineRead(r) ==
  /\ At(r, "baseline")
  /\ Set(r, [rep[r] EXCEPT !.pc = "baselinePut", !.head = Chain(rep[r].key, entries)])
  /\ UNCHANGED <<shared, decomposer, keyHolder, old, sent, crashes>>

(* An unconditional Put. *)
BaselinePut(r) ==
  /\ At(r, "baselinePut")
  /\ head' = rep[r].head
  /\ Commit(r, [rep[r] EXCEPT !.pc = "up"], FALSE, FALSE, TRUE)
  /\ UNCHANGED <<blob, entries, seq, key, imported, issued, decomposer, keyHolder, old, sent, crashes>>

(* AppendEntry of a running replica, whose transaction Inventory models:   *)
(* the record, the chained head, the fence and a bare marker.              *)
AppendEntry(r, l) ==
  /\ At(r, "up") /\ ~Holds(issued, l)
  /\ entries' = Append(entries, l) /\ seq' = seq + 1
  /\ head' = [scheme |-> "chain", links |-> Append(head.links, <<rep[r].key, l>>)]
  /\ blob' = <<>> /\ issued' = Append(issued, l)
  /\ Commit(r, rep[r], TRUE, TRUE, TRUE)
  /\ UNCHANGED <<key, imported, decomposer, keyHolder, old, sent, crashes>>

-----------------------------------------------------------------------------
(* The older version appends to the blob and then writes its MAC.  It runs *)
(* only until the first replica of this version has converted the blob.    *)

OldAppend(l) ==
  /\ old = <<>> /\ blob # <<>> /\ imported = <<>> /\ key # BadKey
  /\ ~Holds(blob, l)
  /\ blob' = Append(blob, l) /\ sent' = sent \cup {l}
  /\ old' = Append(blob, l)
  /\ rep' = [x \in Replicas |-> [rep[x] EXCEPT !.markFresh = FALSE]]
  /\ UNCHANGED <<entries, seq, head, key, imported, issued, decomposer, keyHolder, crashes>>

OldMAC ==
  /\ old # <<>>
  /\ head' = MAC(key, old)
  /\ old' = <<>>
  /\ rep' = [x \in Replicas |-> [rep[x] EXCEPT !.headFresh = FALSE]]
  /\ UNCHANGED <<blob, entries, seq, key, imported, issued, decomposer, keyHolder, sent, crashes>>

-----------------------------------------------------------------------------
Decompose(r) ==
  \/ Probe(r) \/ LockDecompose(r) \/ ReadState(r) \/ VerifyLegacyMAC(r) \/ ReadSeq(r)
  \/ ReplaceConflict(r) \/ ReplaceWipe(r) \/ ReplaceBatch(r) \/ ReplaceFinish(r)
  \/ ReadEmptyHead(r) \/ DropHead(r)

EnsureHMACKey(r) == LoadKey(r) \/ LockKey(r) \/ LoadKeyAgain(r) \/ PutKey(r)

Verify(r) == VerifyHead(r) \/ VerifyEntries(r) \/ BaselineRead(r) \/ BaselinePut(r)

Advance(r) == Start(r) \/ Decompose(r) \/ EnsureHMACKey(r) \/ Verify(r)

Next ==
  \/ \E r \in Replicas : Advance(r) \/ Crash(r) \/ \E l \in NewLines : AppendEntry(r, l)
  \/ (\E l \in OldLines : OldAppend(l)) \/ OldMAC

Spec == Init /\ [][Next]_vars

-----------------------------------------------------------------------------
Pcs == {"down", "probe", "lock", "state", "mac", "seq", "wipe", "batch", "finish", "emptyHead",
        "dropHead", "key", "keyLock", "keyAgain", "keyPut", "verify", "compare", "baseline",
        "baselinePut", "up", "failed", "tampered", "mixed"}

(* Every replica is at a step of its start, and the locks are held by      *)
(* replicas inside them.                                                   *)
TypeOK ==
  /\ \A r \in Replicas : rep[r].pc \in Pcs /\ rep[r].tries <= Retries
  /\ Cardinality(decomposer) <= 1
  /\ \A r \in keyHolder : rep[r].pc \in {"keyAgain", "keyPut"}

(* The import loses, reorders and repeats nothing: once it has finished    *)
(* the records are the lines of the blob in their order, followed by what  *)
(* running replicas issued, although importers crash, overlap after a      *)
(* lapsed lease and race the older version's appends.                      *)
ImportIsExact == imported # <<>> => entries = imported \o issued

(* No line the older version wrote is dropped: it is in the blob, or, once *)
(* the blob is retired, in the records.                                    *)
OldLinesSurvive == \A l \in sent : Holds(blob, l) \/ Holds(entries, l)

(* An interrupted or overlapping import always leaves a state the next     *)
(* start resumes: no replica finds records that are no prefix of the blob. *)
AlwaysResumable == \A r \in Replicas : rep[r].pc # "mixed"

(* Every replica that got past EnsureHMACKey uses the stored key, however  *)
(* many of them met a store without a usable key at once.                  *)
OneKey == \A r \in Replicas : rep[r].key # NoKey => rep[r].key = key

(* However replicas of two versions start, crash and overlap, every line   *)
(* of the older inventory is imported once, in its place and resumably,    *)
(* and all replicas end up with one HMAC key (decomposeInventory,          *)
(* EnsureHMACKey).                                                         *)
ImportKeepsEveryLine == ImportIsExact /\ OldLinesSurvive /\ AlwaysResumable /\ OneKey

(* While a replica runs the stored head covers the records. *)
HeadCoversEntries ==
  (\E r \in Replicas : rep[r].pc = "up") => head = Chain(key, entries)
=============================================================================
