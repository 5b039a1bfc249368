---------------------------- MODULE StorageProofs ----------------------------
(***************************************************************************)
(* What the shared stores promise, for any number of processes.            *)
(*                                                                         *)
(* First the import of an older inventory: every line once and in its      *)
(* place, and one HMAC key, however replicas start, crash and overlap.     *)
(*                                                                         *)
(* Then the four lock tiers implement the abstract lock of Mutex: a caller *)
(* inside its critical section whose grant has not lapsed is alone there.  *)
(* With it, what each tier promises about lapses, retries and restarts.    *)
(* Each tier has its own section: the invariant that its local mutex, its  *)
(* tokens, sessions or files keep, one lemma per action on it, and the     *)
(* step-by-step refinement.  The sections share the names of variables and *)
(* nothing else.                                                           *)
(***************************************************************************)
EXTENDS InventoryStart, TLAPS

\* Zenon proves what names no other prover.
USE ZenonT(60)

CONSTANTS
  Procs, Crowded,                      \* of the Redis, etcd and SQL tiers
  MaxTokens, Sentinel,
  MaxSessions, MayClose,
  Pool, Faulty,
  Instances, Roles, Tasks, Flock, MaxFiles

VARIABLES
  local, pc,
  token, ttl, due, missed,
  using, cur, opened, renewing, leases, queue, retry, closed,
  held, phase, worked, owner,
  launched, instance, orphaned, open, fd, path, files, flocked

-----------------------------------------------------------------------------
(* The import of an older inventory *)

Lines == OldLines \cup NewLines

\* What a replica keeps of its start.
Fields == {"pc", "blob", "markFresh", "seqFresh", "seq", "headFresh", "head", "done", "key", "tries"}

\* Where a replica is: in replaceInventory, in the import as a whole, before it is
\* decided what the store holds, anywhere.
Replacing == {"wipe", "batch", "finish"}
Importing == Replacing \cup {"mac", "seq"}
Before == Importing \cup {"down", "probe", "lock", "state", "failed", "tampered"}
Steps == Before \cup {"emptyHead", "dropHead", "key", "keyLock", "keyAgain", "keyPut", "verify", "compare",
                      "baseline", "baselinePut", "up"}

\* What a replica knows about the store.  A blob it read under a mark that is still
\* fresh is the blob, a sequence number it read under a fresh one is the number, and
\* it has imported as many lines as it has counted; no replica is past the import
\* while the blob is there, and a usable HMAC key is never replaced.
Fits(o) ==
  /\ DOMAIN o = Fields
  /\ o.pc \in Steps /\ o.blob \in Seq(Lines) /\ o.seq \in Nat /\ o.done \in Nat
  /\ o.markFresh \in BOOLEAN /\ o.seqFresh \in BOOLEAN
  /\ o.pc \in Importing => o.blob # <<>> /\ (o.markFresh => o.blob = blob)
  /\ o.pc \in Replacing /\ o.seqFresh => o.seq = seq
  /\ o.pc = "wipe" => o.done = 0
  /\ o.pc \in {"batch", "finish"} => o.done = o.seq
  /\ o.pc = "batch" => o.done < Len(o.blob)
  /\ o.pc = "finish" => o.done = Len(o.blob)
  /\ blob # <<>> => o.pc \in Before
  /\ o.key # NoKey => o.key = key /\ Usable(key)
  /\ o.pc = "keyPut" => ~Usable(key)

\* The store: the records are numbered without gaps, while the blob is there they
\* are a prefix of it and nobody has issued through them, and every line that an
\* older replica was told is stored is in the one or the other.
StartStore ==
  /\ blob \in Seq(Lines) /\ entries \in Seq(Lines) /\ imported \in Seq(Lines) /\ issued \in Seq(Lines)
  /\ seq = Len(entries)
  /\ blob # <<>> => /\ imported = <<>> /\ issued = <<>> /\ RecordsArePrefixOf(entries, blob)
                    /\ \A l \in sent : Holds(blob, l)
  /\ blob = <<>> => \A l \in sent : Holds(entries, l)
  /\ ImportIsExact

\* Together, with the key lock held by whoever is about to write the key.
StartInv ==
  /\ StartStore
  /\ DOMAIN rep = Replicas /\ \A r \in Replicas : Fits(rep[r])
  /\ \A r \in Replicas : rep[r].pc \in {"keyAgain", "keyPut"} => keyHolder = {r}

\* However replicas of two versions start, crash, lose their locks and overlap, on
\* any number of hosts and for any older inventory, every line of it is imported
\* once and in its place, no line an older replica was told is stored is lost, what
\* a crash left can be resumed, and all replicas that serve have one HMAC key
\* (decomposeInventory, replaceInventory, EnsureHMACKey).
THEOREM ImportKept == Spec => []ImportKeepsEveryLine
<1>t. Text \in Seq(OldLines) /\ ByRevision \in BOOLEAN
  BY StartAssumption
<1> USE <1>t DEF NoKey, BadKey, Usable
<1>s. ASSUME NEW S, NEW s \in Seq(S), NEW t \in Seq(S), Len(s) = Len(t), \A i \in 1..Len(s) : s[i] = t[i]
      PROVE  s = t
  <2>1. s = [i \in 1..Len(s) |-> s[i]] /\ t = [i \in 1..Len(t) |-> t[i]]
    BY ONLY SMTT(30), <1>s
  <2> QED BY ONLY ZenonT(60), <1>s, <2>1
<1>a. ASSUME StartInv, NEW r \in Replicas, NEW o, Fits(o), rep' = [rep EXCEPT ![r] = o],
             UNCHANGED <<blob, entries, seq, key, sent, imported, issued>>,
             \A x \in Replicas : rep'[x].pc \in {"keyAgain", "keyPut"} => keyHolder' = {x}
      PROVE  StartInv'
  <2>1. StartStore'
    BY <1>a DEF StartInv, StartStore, ImportIsExact
  <2>2. ASSUME NEW x \in Replicas PROVE Fits(rep[x])'
    <3>1. Fits(rep'[x])
      BY <1>a DEF StartInv
    <3> QED BY ONLY SMTT(30), <1>a, <3>1 DEF Fits
  <2>3. DOMAIN rep' = Replicas
    BY <1>a DEF StartInv
  <2> QED BY ONLY ZenonT(60), <1>a, <2>1, <2>2, <2>3 DEF StartInv
<1>1. Init => StartInv
  <2> SUFFICES ASSUME Init PROVE StartInv
    OBVIOUS
  <2> USE DEF Init
  <2>1. StartStore
    <3>0. Text \in Seq(Lines) /\ <<>> \in Seq(Lines)
      BY SMTT(30) DEF Lines
    <3>1. blob \in Seq(Lines) /\ entries = <<>> /\ issued = <<>> /\ imported = <<>> /\ seq = 0 /\ sent = {}
      BY <3>0
    <3>2. <<>> \in Seq(Lines) /\ Len(<<>>) = 0
      BY SMTT(30)
    <3>3. 1..0 = {} /\ Len(blob) >= 0
      BY SMTT(30), <3>1
    <3> QED BY ONLY ZenonT(60), <3>1, <3>2, <3>3
               DEF StartStore, RecordsArePrefixOf, ImportIsExact
  <2>2. Fits(Down)
    BY SMTT(30) DEF Fits, Fields, Down, Replacing, Importing, Before, Steps
  <2> QED BY <2>1, <2>2 DEF StartInv, Down
<1>b. ASSUME StartInv, NEW r \in Replicas,
             NEW p \in Steps \ (Importing \cup {"keyAgain", "keyPut"}), blob # <<>> => p \in Before
      PROVE  Fits([rep[r] EXCEPT !.pc = p]) /\ [rep[r] EXCEPT !.pc = p].pc = p
  BY SMTT(30), <1>b DEF StartInv, Fits, Fields, Replacing, Importing, Before, Steps
<1>c. ASSUME StartInv, NEW r \in Replicas, NEW o, Fits(o), rep' = [rep EXCEPT ![r] = o],
             UNCHANGED <<blob, entries, seq, key, sent, imported, issued, keyHolder>>,
             o.pc \notin {"keyAgain", "keyPut"}
      PROVE  StartInv'
  <2>1. \A x \in Replicas : rep'[x].pc \in {"keyAgain", "keyPut"} => keyHolder' = {x}
    BY <1>c DEF StartInv
  <2> QED BY ONLY ZenonT(60), <1>a, <1>c, <2>1
<1>2. ASSUME StartInv, NEW r \in Replicas, Start(r) PROVE StartInv'
  <2>1. "probe" \in Steps \ (Importing \cup {"keyAgain", "keyPut"}) /\ "probe" \in Before
    BY DEF Steps, Before, Importing, Replacing
  <2>2. rep' = [rep EXCEPT ![r] = [rep[r] EXCEPT !.pc = "probe"]]
        /\ UNCHANGED <<blob, entries, seq, key, sent, imported, issued, keyHolder>>
    BY ONLY ZenonT(60), <1>2 DEF Start, Goto, Set, shared
  <2>3. Fits([rep[r] EXCEPT !.pc = "probe"]) /\ [rep[r] EXCEPT !.pc = "probe"].pc = "probe"
    BY ONLY ZenonT(60), <1>2, <1>b, <2>1
  <2> QED BY ONLY ZenonT(60), <1>2, <1>c, <2>2, <2>3
<1>3. ASSUME StartInv, NEW r \in Replicas, Crash(r) PROVE StartInv'
  <2>1. Fits(Down) /\ Down.pc = "down"
    BY SMTT(30) DEF Fits, Fields, Down, Replacing, Importing, Before, Steps
  <2>2. \A x \in Replicas : rep'[x].pc \in {"keyAgain", "keyPut"} => keyHolder' = {x}
    BY <1>3, <2>1 DEF StartInv, Crash, Set
  <2> QED BY ONLY ZenonT(60), <1>3, <1>a, <2>1, <2>2 DEF Crash, Set, shared
<1>4. ASSUME StartInv, NEW r \in Replicas, Probe(r) \/ LockDecompose(r) PROVE StartInv'
  <2>1. PICK p \in {"emptyHead", "lock", "state"} :
          rep' = [rep EXCEPT ![r] = [rep[r] EXCEPT !.pc = p]] /\ (blob # <<>> => p # "emptyHead")
    BY <1>4 DEF Probe, LockDecompose, Goto, Set
  <2>2. UNCHANGED <<blob, entries, seq, key, sent, imported, issued, keyHolder>>
    BY ONLY ZenonT(60), <1>4 DEF Probe, LockDecompose, shared
  <2>3. p \in Steps \ (Importing \cup {"keyAgain", "keyPut"}) /\ (blob # <<>> => p \in Before)
    BY <2>1 DEF Steps, Before, Importing, Replacing
  <2>4. Fits([rep[r] EXCEPT !.pc = p]) /\ [rep[r] EXCEPT !.pc = p].pc = p
    BY ONLY ZenonT(60), <1>4, <1>b, <2>3
  <2> QED BY ONLY ZenonT(60), <1>4, <1>c, <2>1, <2>2, <2>3, <2>4
<1>5. ASSUME StartInv, NEW r \in Replicas, ReadState(r) PROVE StartInv'
  <2>0. UNCHANGED <<blob, entries, seq, key, sent, imported, issued, keyHolder>>
    BY ONLY ZenonT(60), <1>5 DEF ReadState, shared
  <2>1. CASE blob = <<>>
    <3>1. rep' = [rep EXCEPT ![r] = [rep[r] EXCEPT !.pc = "key"]]
      BY <1>5, <2>1 DEF ReadState, Goto, Set
    <3>2. "key" \in Steps \ (Importing \cup {"keyAgain", "keyPut"})
      BY DEF Steps, Before, Importing, Replacing
    <3>3. Fits([rep[r] EXCEPT !.pc = "key"]) /\ [rep[r] EXCEPT !.pc = "key"].pc = "key"
      BY ONLY ZenonT(60), <1>5, <1>b, <2>1, <3>2
    <3> QED BY ONLY ZenonT(60), <1>5, <1>c, <2>0, <3>1, <3>3
  <2>2. CASE blob # <<>>
    <3> DEFINE o == [rep[r] EXCEPT !.pc = "mac", !.blob = blob, !.markFresh = TRUE]
    <3>1. rep' = [rep EXCEPT ![r] = o] /\ rep[r].pc = "state"
      BY <1>5, <2>2 DEF ReadState, Set, At, StartInv, StartStore
    <3>2. Fits(o) /\ o.pc = "mac"
      BY SMTT(30), <1>5, <2>2
         DEF StartInv, StartStore, Fits, Fields, Replacing, Importing, Before, Steps
    <3> HIDE DEF o
    <3> QED BY ONLY ZenonT(60), <1>5, <1>c, <2>0, <3>1, <3>2
  <2> QED BY ONLY ZenonT(60), <2>1, <2>2
<1>6. ASSUME StartInv, NEW r \in Replicas, VerifyLegacyMAC(r) PROVE StartInv'
  <2>0. UNCHANGED <<blob, entries, seq, key, sent, imported, issued, keyHolder>>
    BY ONLY ZenonT(60), <1>6 DEF VerifyLegacyMAC, shared
  <2>1. PICK p \in {"seq", "tampered"} : rep' = [rep EXCEPT ![r] = [rep[r] EXCEPT !.pc = p]]
    BY ONLY ZenonT(60), <1>6 DEF VerifyLegacyMAC, Goto, Set
  <2>2. rep[r].pc = "mac"
    BY ONLY ZenonT(60), <1>6 DEF VerifyLegacyMAC, At
  <2>3. Fits([rep[r] EXCEPT !.pc = p]) /\ [rep[r] EXCEPT !.pc = p].pc = p
    BY SMTT(30), <1>6, <2>1, <2>2 DEF StartInv, Fits, Fields, Replacing, Importing, Before, Steps
  <2> QED BY ONLY ZenonT(60), <1>6, <1>c, <2>0, <2>1, <2>3
<1>7. ASSUME StartInv, NEW r \in Replicas, ReadSeq(r) PROVE StartInv'
  <2> DEFINE o == [rep[r] EXCEPT !.pc = "wipe", !.seqFresh = TRUE, !.seq = seq, !.done = 0]
  <2>0. UNCHANGED <<blob, entries, seq, key, sent, imported, issued, keyHolder>>
    BY ONLY ZenonT(60), <1>7 DEF ReadSeq, shared
  <2>1. rep' = [rep EXCEPT ![r] = o] /\ rep[r].pc = "seq"
    BY ONLY ZenonT(60), <1>7 DEF ReadSeq, Set, At
  <2>2. Fits(o) /\ o.pc = "wipe"
    BY SMTT(30), <1>7, <2>1
       DEF StartInv, StartStore, Fits, Fields, Replacing, Importing, Before, Steps
  <2> HIDE DEF o
  <2> QED BY ONLY ZenonT(60), <1>7, <1>c, <2>0, <2>1, <2>2
<1>8. ASSUME StartInv, NEW r \in Replicas, ReplaceConflict(r) PROVE StartInv'
  <2>0. UNCHANGED <<blob, entries, seq, key, sent, imported, issued, keyHolder>>
    BY ONLY ZenonT(60), <1>8 DEF ReplaceConflict, shared
  <2>1. rep' = [rep EXCEPT ![r] = Again(r, "state")]
    BY ONLY ZenonT(60), <1>8 DEF ReplaceConflict, Set
  <2>2. Fits(Again(r, "state")) /\ Again(r, "state").pc \in {"state", "failed"}
    BY SMTT(30), <1>8 DEF StartInv, Again, Fits, Fields, Replacing, Importing, Before, Steps
  <2> QED BY ONLY ZenonT(60), <1>8, <1>c, <2>0, <2>1, <2>2
<1>9. ASSUME StartInv, NEW r \in Replicas, ReadEmptyHead(r) PROVE StartInv'
  <2> DEFINE o == rep[r]
  <2>0. UNCHANGED <<blob, entries, seq, key, sent, imported, issued, keyHolder>>
    BY ONLY ZenonT(60), <1>9 DEF ReadEmptyHead, shared
  <2>1. Fits(o) /\ o.pc = "emptyHead" /\ blob = <<>>
    BY <1>9 DEF ReadEmptyHead, At, StartInv, Fits, Before, Importing, Replacing
  <2>2. CASE LegacyEmptyHead
    <3> HIDE DEF o
    <3>1. Fits([o EXCEPT !.pc = "dropHead", !.headFresh = TRUE, !.head = head]) /\ [o EXCEPT !.pc = "dropHead", !.headFresh = TRUE, !.head = head].pc = "dropHead"
      BY ONLY ZenonT(60), <2>2, <2>1 DEF Fits, Fields, Replacing, Importing, Before, Steps
    <3>2. rep' = [rep EXCEPT ![r] = [o EXCEPT !.pc = "dropHead", !.headFresh = TRUE, !.head = head]]
      BY ONLY ZenonT(60), <1>9, <2>2 DEF o, ReadEmptyHead, Goto, Set
    <3> QED BY ONLY ZenonT(60), <1>9, <1>c, <2>0, <3>1, <3>2
  <2>3. CASE ~LegacyEmptyHead
    <3> HIDE DEF o
    <3>1. Fits([o EXCEPT !.pc = "key"]) /\ [o EXCEPT !.pc = "key"].pc = "key"
      BY ONLY ZenonT(60), <2>3, <2>1 DEF Fits, Fields, Replacing, Importing, Before, Steps
    <3>2. rep' = [rep EXCEPT ![r] = [o EXCEPT !.pc = "key"]]
      BY ONLY ZenonT(60), <1>9, <2>3 DEF o, ReadEmptyHead, Goto, Set
    <3> QED BY ONLY ZenonT(60), <1>9, <1>c, <2>0, <3>1, <3>2
  <2> QED BY ONLY ZenonT(60), <2>2, <2>3
<1>10. ASSUME StartInv, NEW r \in Replicas, LoadKey(r) PROVE StartInv'
  <2> DEFINE o == rep[r]
  <2>0. UNCHANGED <<blob, entries, seq, key, sent, imported, issued, keyHolder>>
    BY ONLY ZenonT(60), <1>10 DEF LoadKey, shared
  <2>1. Fits(o) /\ o.pc = "key" /\ blob = <<>>
    BY <1>10 DEF LoadKey, At, StartInv, Fits, Before, Importing, Replacing
  <2>2. CASE Usable(key)
    <3> HIDE DEF o
    <3>1. Fits([o EXCEPT !.pc = "verify", !.key = key]) /\ [o EXCEPT !.pc = "verify", !.key = key].pc = "verify"
      BY ONLY ZenonT(60), <2>2, <2>1 DEF Fits, Fields, Replacing, Importing, Before, Steps
    <3>2. rep' = [rep EXCEPT ![r] = [o EXCEPT !.pc = "verify", !.key = key]]
      BY ONLY ZenonT(60), <1>10, <2>2 DEF o, LoadKey, Goto, Set
    <3> QED BY ONLY ZenonT(60), <1>10, <1>c, <2>0, <3>1, <3>2
  <2>3. CASE ~Usable(key)
    <3> HIDE DEF o
    <3>1. Fits([o EXCEPT !.pc = "keyLock"]) /\ [o EXCEPT !.pc = "keyLock"].pc = "keyLock"
      BY ONLY ZenonT(60), <2>3, <2>1 DEF Fits, Fields, Replacing, Importing, Before, Steps
    <3>2. rep' = [rep EXCEPT ![r] = [o EXCEPT !.pc = "keyLock"]]
      BY ONLY ZenonT(60), <1>10, <2>3 DEF o, LoadKey, Goto, Set
    <3> QED BY ONLY ZenonT(60), <1>10, <1>c, <2>0, <3>1, <3>2
  <2> QED BY ONLY ZenonT(60), <2>2, <2>3
<1>11. ASSUME StartInv, NEW r \in Replicas, LockKey(r) PROVE StartInv'
  <2> DEFINE o == rep[r]
  <2>0. UNCHANGED <<blob, entries, seq, key, sent, imported, issued>>
    BY ONLY ZenonT(60), <1>11 DEF LockKey, shared
  <2>1. Fits(o) /\ o.pc = "keyLock" /\ blob = <<>>
    BY <1>11 DEF LockKey, At, StartInv, Fits, Before, Importing, Replacing
  <2> HIDE DEF o
  <2>2. Fits([o EXCEPT !.pc = "keyAgain"])
    BY ONLY ZenonT(60), <2>1 DEF Fits, Fields, Replacing, Importing, Before, Steps
  <2>3. /\ rep' = [rep EXCEPT ![r] = [o EXCEPT !.pc = "keyAgain"]]
        /\ keyHolder = {} /\ keyHolder' = {r}
    BY ONLY ZenonT(60), <1>11 DEF o, LockKey, Goto, Set
  <2>4. \A x \in Replicas : rep'[x].pc \in {"keyAgain", "keyPut"} => keyHolder' = {x}
    BY <1>11, <2>3 DEF StartInv
  <2> QED BY ONLY ZenonT(60), <1>11, <1>a, <2>0, <2>2, <2>3, <2>4
<1>12. ASSUME StartInv, NEW r \in Replicas, LoadKeyAgain(r) PROVE StartInv'
  <2> DEFINE o == rep[r]
  <2>0. UNCHANGED <<blob, entries, seq, key, sent, imported, issued>>
    BY ONLY ZenonT(60), <1>12 DEF LoadKeyAgain, shared
  <2>1. Fits(o) /\ o.pc = "keyAgain" /\ blob = <<>> /\ keyHolder = {r}
    BY <1>12 DEF LoadKeyAgain, At, StartInv, Fits, Before, Importing, Replacing
  <2>2. CASE Usable(key)
    <3> HIDE DEF o
    <3>1. /\ Fits([o EXCEPT !.pc = "verify", !.key = key])
          /\ [o EXCEPT !.pc = "verify", !.key = key].pc = "verify"
      BY ONLY ZenonT(60), <2>1, <2>2 DEF Fits, Fields, Replacing, Importing, Before, Steps
    <3>2. rep' = [rep EXCEPT ![r] = [o EXCEPT !.pc = "verify", !.key = key]]
      BY ONLY ZenonT(60), <1>12, <2>2 DEF o, LoadKeyAgain, Set
    <3>3. \A x \in Replicas : rep'[x].pc \in {"keyAgain", "keyPut"} => keyHolder' = {x}
      BY <1>12, <2>1, <3>1, <3>2 DEF StartInv
    <3> QED BY ONLY ZenonT(60), <1>12, <1>a, <2>0, <3>1, <3>2, <3>3
  <2>3. CASE ~Usable(key)
    <3> HIDE DEF o
    <3>1. Fits([o EXCEPT !.pc = "keyPut"])
      BY ONLY ZenonT(60), <2>1, <2>3 DEF Fits, Fields, Replacing, Importing, Before, Steps
    <3>2. rep' = [rep EXCEPT ![r] = [o EXCEPT !.pc = "keyPut"]] /\ keyHolder' = keyHolder
      BY ONLY ZenonT(60), <1>12, <2>3 DEF o, LoadKeyAgain, Goto, Set
    <3>3. \A x \in Replicas : rep'[x].pc \in {"keyAgain", "keyPut"} => keyHolder' = {x}
      BY <1>12, <2>1, <3>1, <3>2 DEF StartInv
    <3> QED BY ONLY ZenonT(60), <1>12, <1>a, <2>0, <3>1, <3>2, <3>3
  <2> QED BY ONLY ZenonT(60), <2>2, <2>3
<1>13. ASSUME StartInv, NEW r \in Replicas, VerifyHead(r) PROVE StartInv'
  <2> DEFINE o == rep[r]
  <2>0. UNCHANGED <<blob, entries, seq, key, sent, imported, issued, keyHolder>>
    BY ONLY ZenonT(60), <1>13 DEF VerifyHead, shared
  <2>1. Fits(o) /\ o.pc = "verify" /\ blob = <<>>
    BY <1>13 DEF VerifyHead, At, StartInv, Fits, Before, Importing, Replacing
  <2>2. CASE head = None
    <3> HIDE DEF o
    <3>1. Fits([o EXCEPT !.pc = "baseline", !.head = head]) /\ [o EXCEPT !.pc = "baseline", !.head = head].pc = "baseline"
      BY ONLY ZenonT(60), <2>2, <2>1 DEF Fits, Fields, Replacing, Importing, Before, Steps
    <3>2. rep' = [rep EXCEPT ![r] = [o EXCEPT !.pc = "baseline", !.head = head]]
      BY ONLY ZenonT(60), <1>13, <2>2 DEF o, VerifyHead, Goto, Set
    <3> QED BY ONLY ZenonT(60), <1>13, <1>c, <2>0, <3>1, <3>2
  <2>3. CASE head # None
    <3> HIDE DEF o
    <3>1. Fits([o EXCEPT !.pc = "compare", !.head = head]) /\ [o EXCEPT !.pc = "compare", !.head = head].pc = "compare"
      BY ONLY ZenonT(60), <2>3, <2>1 DEF Fits, Fields, Replacing, Importing, Before, Steps
    <3>2. rep' = [rep EXCEPT ![r] = [o EXCEPT !.pc = "compare", !.head = head]]
      BY ONLY ZenonT(60), <1>13, <2>3 DEF o, VerifyHead, Goto, Set
    <3> QED BY ONLY ZenonT(60), <1>13, <1>c, <2>0, <3>1, <3>2
  <2> QED BY ONLY ZenonT(60), <2>2, <2>3
<1>14. ASSUME StartInv, NEW r \in Replicas, VerifyEntries(r) PROVE StartInv'
  <2> DEFINE o == rep[r]
  <2>0. UNCHANGED <<blob, entries, seq, key, sent, imported, issued, keyHolder>>
    BY ONLY ZenonT(60), <1>14 DEF VerifyEntries, shared
  <2>1. Fits(o) /\ o.pc = "compare" /\ blob = <<>>
    BY <1>14 DEF VerifyEntries, At, StartInv, Fits, Before, Importing, Replacing
  <2>2. CASE rep[r].head = Chain(rep[r].key, entries)
    <3> HIDE DEF o
    <3>1. Fits([o EXCEPT !.pc = "up"]) /\ [o EXCEPT !.pc = "up"].pc = "up"
      BY ONLY ZenonT(60), <2>2, <2>1 DEF Fits, Fields, Replacing, Importing, Before, Steps
    <3>2. rep' = [rep EXCEPT ![r] = [o EXCEPT !.pc = "up"]]
      BY ONLY ZenonT(60), <1>14, <2>2 DEF o, VerifyEntries, Goto, Set
    <3> QED BY ONLY ZenonT(60), <1>14, <1>c, <2>0, <3>1, <3>2
  <2>3. CASE rep[r].head # Chain(rep[r].key, entries)
    <3> HIDE DEF o
    <3>1. Fits([o EXCEPT !.pc = "tampered"]) /\ [o EXCEPT !.pc = "tampered"].pc = "tampered"
      BY ONLY ZenonT(60), <2>3, <2>1 DEF Fits, Fields, Replacing, Importing, Before, Steps
    <3>2. rep' = [rep EXCEPT ![r] = [o EXCEPT !.pc = "tampered"]]
      BY ONLY ZenonT(60), <1>14, <2>3 DEF o, VerifyEntries, Goto, Set
    <3> QED BY ONLY ZenonT(60), <1>14, <1>c, <2>0, <3>1, <3>2
  <2> QED BY ONLY ZenonT(60), <2>2, <2>3
<1>15. ASSUME StartInv, NEW r \in Replicas, BaselineRead(r) PROVE StartInv'
  <2> DEFINE o == rep[r]
  <2>0. UNCHANGED <<blob, entries, seq, key, sent, imported, issued, keyHolder>>
    BY ONLY ZenonT(60), <1>15 DEF BaselineRead, shared
  <2>1. Fits(o) /\ o.pc = "baseline" /\ blob = <<>>
    BY <1>15 DEF BaselineRead, At, StartInv, Fits, Before, Importing, Replacing
  <2>2. StartInv'
    <3> HIDE DEF o
    <3>1. Fits([o EXCEPT !.pc = "baselinePut", !.head = Chain(rep[r].key, entries)]) /\ [o EXCEPT !.pc = "baselinePut", !.head = Chain(rep[r].key, entries)].pc = "baselinePut"
      BY ONLY ZenonT(60), <2>1 DEF Fits, Fields, Replacing, Importing, Before, Steps
    <3>2. rep' = [rep EXCEPT ![r] = [o EXCEPT !.pc = "baselinePut", !.head = Chain(rep[r].key, entries)]]
      BY ONLY ZenonT(60), <1>15 DEF o, BaselineRead, Goto, Set
    <3> QED BY ONLY ZenonT(60), <1>15, <1>c, <2>0, <3>1, <3>2
  <2> QED BY ONLY ZenonT(60), <2>2
<1>d. ASSUME StartInv, NEW r \in Replicas, NEW o, NEW m \in BOOLEAN, NEW f \in BOOLEAN, NEW h \in BOOLEAN,
             Commit(r, o, m, f, h), blob' = blob \/ m, seq' = seq \/ f, key' = key,
             blob' # <<>> => blob # <<>>, keyHolder' = keyHolder, StartStore',
             Fits(rep[r])', o.pc \notin {"keyAgain", "keyPut"}
      PROVE  StartInv'
  <2>0. /\ (blob' = blob \/ m = TRUE) /\ (seq' = seq \/ f = TRUE) /\ key' = key /\ (blob' # <<>> => blob # <<>>)
        /\ m \in BOOLEAN /\ f \in BOOLEAN
    BY ONLY ZenonT(60), <1>d
  <2>1. DOMAIN rep' = Replicas /\ rep'[r] = o
    BY ONLY ZenonT(60), <1>d DEF Commit
  <2>2. ASSUME NEW x \in Replicas, x # r PROVE Fits(rep[x])' /\ rep'[x].pc = rep[x].pc
    <3> DEFINE c == rep[x]
    <3>1. rep'[x] = [c EXCEPT !.markFresh = @ /\ ~m, !.seqFresh = @ /\ ~f, !.headFresh = @ /\ ~h]
      BY ONLY ZenonT(60), <1>d, <2>2 DEF c, Commit
    <3>2. Fits(c)
      BY <1>d DEF StartInv
    <3> HIDE DEF c
    <3>3. /\ DOMAIN rep'[x] = Fields /\ rep'[x].pc = c.pc /\ rep'[x].blob = c.blob /\ rep'[x].seq = c.seq
          /\ rep'[x].done = c.done /\ rep'[x].key = c.key
          /\ rep'[x].markFresh = (c.markFresh /\ ~m) /\ rep'[x].seqFresh = (c.seqFresh /\ ~f)
      BY ONLY ZenonT(60), <3>1, <3>2 DEF Fits, Fields
    <3>5. /\ rep'[x].markFresh \in BOOLEAN /\ rep'[x].seqFresh \in BOOLEAN
          /\ rep'[x].markFresh => c.markFresh /\ blob' = blob
          /\ rep'[x].seqFresh => c.seqFresh /\ seq' = seq
      BY ONLY ZenonT(60), <2>0, <3>3
    <3>4. Fits(rep[x])'
      <4>1. key' = key /\ (blob' # <<>> => blob # <<>>)
        BY ONLY ZenonT(60), <2>0
      <4>2. /\ DOMAIN rep'[x] = Fields /\ rep'[x].pc = c.pc /\ rep'[x].blob = c.blob /\ rep'[x].seq = c.seq
            /\ rep'[x].done = c.done /\ rep'[x].key = c.key
        BY ONLY ZenonT(60), <3>3
      <4> QED BY ONLY SMTT(30), <3>2, <3>5, <4>1, <4>2 DEF Fits, Usable
    <3> QED BY ONLY ZenonT(60), <3>3, <3>4 DEF c
  <2>3. \A x \in Replicas : Fits(rep[x])'
    BY ONLY ZenonT(60), <1>d, <2>2
  <2>4. \A x \in Replicas : rep'[x].pc \in {"keyAgain", "keyPut"} => keyHolder' = {x}
    BY ONLY ZenonT(60), <1>d, <2>1, <2>2 DEF StartInv
  <2> QED BY ONLY ZenonT(60), <1>d, <2>1, <2>3, <2>4 DEF StartInv
<1>16. ASSUME StartInv, NEW r \in Replicas, BaselinePut(r) PROVE StartInv'
  <2> DEFINE o == rep[r]
  <2>0. UNCHANGED <<blob, entries, seq, key, sent, imported, issued, keyHolder>>
    BY ONLY ZenonT(60), <1>16 DEF BaselinePut
  <2>1. Fits(o) /\ o.pc = "baselinePut" /\ blob = <<>>
    BY <1>16 DEF BaselinePut, At, StartInv, Fits, Before, Importing, Replacing
  <2>2. Commit(r, [o EXCEPT !.pc = "up"], FALSE, FALSE, TRUE)
    BY ONLY ZenonT(60), <1>16 DEF BaselinePut
  <2> HIDE DEF o
  <2>3. rep'[r] = [o EXCEPT !.pc = "up"]
    BY ONLY ZenonT(60), <1>16, <2>2 DEF Commit
  <2>4. Fits(rep[r])' /\ [o EXCEPT !.pc = "up"].pc = "up"
    BY ONLY SMTT(30), <2>0, <2>1, <2>3 DEF Fits, Fields, Replacing, Importing, Before, Steps
  <2>5. StartStore'
    BY ONLY ZenonT(60), <1>16, <2>0 DEF StartInv, StartStore, ImportIsExact
  <2> QED BY ONLY ZenonT(60), <1>16, <1>d, <2>0, <2>2, <2>4, <2>5
<1>17. ASSUME StartInv, NEW r \in Replicas, DropHead(r) PROVE StartInv'
  <2> DEFINE o == rep[r]
  <2>0. UNCHANGED <<blob, entries, seq, key, sent, imported, issued, keyHolder>>
    BY ONLY ZenonT(60), <1>17 DEF DropHead
  <2>1. Fits(o) /\ o.pc = "dropHead" /\ blob = <<>>
    BY <1>17 DEF DropHead, At, StartInv, Fits, Before, Importing, Replacing
  <2>2. CASE Commit(r, [o EXCEPT !.pc = "key"], FALSE, FALSE, TRUE)
    <3> HIDE DEF o
    <3>3. rep'[r] = [o EXCEPT !.pc = "key"]
      BY ONLY ZenonT(60), <1>17, <2>2 DEF Commit
    <3>4. Fits(rep[r])' /\ [o EXCEPT !.pc = "key"].pc = "key"
      BY ONLY SMTT(30), <2>0, <2>1, <3>3 DEF Fits, Fields, Replacing, Importing, Before, Steps
    <3>5. StartStore'
      BY ONLY ZenonT(60), <1>17, <2>0 DEF StartInv, StartStore, ImportIsExact
    <3> QED BY ONLY ZenonT(60), <1>17, <1>d, <2>0, <2>2, <3>4, <3>5
  <2>3. CASE Set(r, Again(r, "emptyHead"))
    <3>1. Fits(Again(r, "emptyHead")) /\ Again(r, "emptyHead").pc \in {"emptyHead", "failed"}
      BY ONLY ZenonT(60), <2>1 DEF Fits, Fields, Replacing, Importing, Before, Steps, Again
    <3>2. rep' = [rep EXCEPT ![r] = Again(r, "emptyHead")]
      BY ONLY ZenonT(60), <2>3 DEF Set
    <3> QED BY ONLY ZenonT(60), <1>17, <1>c, <2>0, <3>1, <3>2
  <2> QED BY ONLY ZenonT(60), <1>17, <2>2, <2>3 DEF DropHead
<1>18. ASSUME StartInv, NEW r \in Replicas, PutKey(r) PROVE StartInv'
  <2>0. UNCHANGED <<blob, entries, seq, sent, imported, issued>> /\ keyHolder' = {}
    BY ONLY ZenonT(60), <1>18 DEF PutKey
  <2>1. rep[r].pc = "keyPut" /\ ~Usable(key) /\ keyHolder = {r}
        /\ blob = <<>> /\ \A x \in Replicas : rep[x].key = NoKey
    BY <1>18 DEF PutKey, At, StartInv, Fits, Before, Importing, Replacing
  <2>2. Fresh \in 2..98 /\ key' = Fresh /\ Usable(key)'
    <3>1. \E k \in 2..(BadKey - 1) : k # key /\ \A x \in Replicas : rep[x].key # k
      BY SMTT(30), <2>1
    <3>2. Fresh \in 2..(BadKey - 1)
      BY ONLY ZenonT(60), <3>1 DEF Fresh
    <3>3. key' = Fresh
      BY ONLY ZenonT(60), <1>18 DEF PutKey
    <3> QED BY SMTT(30), <3>2, <3>3
  <2>3. StartStore'
    BY ONLY ZenonT(60), <1>18, <2>0 DEF StartInv, StartStore, ImportIsExact
  <2>4. rep' = [rep EXCEPT ![r] = [rep[r] EXCEPT !.pc = "verify", !.key = Fresh]]
    BY ONLY ZenonT(60), <1>18 DEF PutKey, Set
  <2>5. ASSUME NEW x \in Replicas PROVE Fits(rep[x])' /\ rep'[x].pc \notin {"keyAgain", "keyPut"}
    <3> DEFINE c == rep[x]
    <3>1. Fits(c) /\ c.key = NoKey /\ (c.pc \in {"keyAgain", "keyPut"} => x = r)
      BY SMTT(30), <1>18, <2>1 DEF StartInv
    <3>2. CASE x = r
      <4>1. rep'[x] = [c EXCEPT !.pc = "verify", !.key = Fresh]
        BY <1>18, <2>4, <3>2 DEF StartInv
      <4> HIDE DEF c
      <4> QED BY ONLY SMTT(30), <2>0, <2>1, <2>2, <3>1, <4>1
                 DEF Fits, Fields, Replacing, Importing, Before, Steps
    <3>3. CASE x # r
      <4>1. rep'[x] = c
        BY <1>18, <2>4, <3>3 DEF StartInv
      <4> HIDE DEF c
      <4> QED BY ONLY SMTT(30), <2>0, <2>1, <2>2, <3>1, <3>3, <4>1
                 DEF Fits, Fields, Replacing, Importing, Before, Steps
    <3> QED BY ONLY ZenonT(60), <3>2, <3>3
  <2>6. DOMAIN rep' = Replicas
    BY ONLY ZenonT(60), <1>18, <2>4 DEF StartInv
  <2> QED BY ONLY ZenonT(60), <2>3, <2>5, <2>6 DEF StartInv
<1>19. ASSUME StartInv, NEW r \in Replicas, ReplaceWipe(r) PROVE StartInv'
  <2> DEFINE o == rep[r]
             n == [o EXCEPT !.pc = "batch", !.seq = 0]
  <2>1. Fits(o) /\ o.pc = "wipe" /\ o.blob = blob /\ blob # <<>> /\ blob \in Seq(Lines)
    BY SMTT(30), <1>19
       DEF ReplaceWipe, At, Guarded, StartInv, StartStore, Fits, Importing, Replacing
  <2>2. Commit(r, n, FALSE, TRUE, FALSE)
    BY ONLY ZenonT(60), <1>19 DEF ReplaceWipe
  <2>3. UNCHANGED <<blob, key, sent, imported, issued, keyHolder>> /\ entries' = <<>> /\ seq' = 0
    BY ONLY ZenonT(60), <1>19 DEF ReplaceWipe
  <2>4. StartStore'
    BY ONLY SMTT(30), <1>19, <2>1, <2>3
       DEF StartInv, StartStore, ImportIsExact, RecordsArePrefixOf, Holds
  <2>5. rep'[r] = n
    BY ONLY ZenonT(60), <1>19, <2>2 DEF Commit
  <2> HIDE DEF o
  <2>6. Fits(rep[r])' /\ n.pc = "batch"
    BY ONLY SMTT(30), <2>1, <2>3, <2>5 DEF Fits, Fields, Replacing, Importing, Before, Steps
  <2> HIDE DEF n
  <2> QED BY ONLY ZenonT(60), <1>19, <1>d, <2>2, <2>3, <2>4, <2>6
<1>20. ASSUME StartInv, NEW r \in Replicas, ReplaceBatch(r) PROVE StartInv'
  <2> DEFINE o == rep[r]
             p == IF o.done + 1 = Len(o.blob) THEN "finish" ELSE "batch"
             n == [o EXCEPT !.pc = p, !.done = o.done + 1, !.seq = o.done + 1]
  <2>1. Fits(o) /\ o.pc = "batch" /\ o.blob = blob /\ blob # <<>> /\ blob \in Seq(Lines) /\ o.done = seq
    BY SMTT(30), <1>20
       DEF ReplaceBatch, At, Guarded, StartInv, StartStore, Fits, Importing, Replacing
  <2>2. Commit(r, n, FALSE, TRUE, FALSE)
    BY ONLY ZenonT(60), <1>20 DEF ReplaceBatch
  <2>3. /\ UNCHANGED <<blob, key, sent, imported, issued, keyHolder>> /\ seq' = o.done + 1
        /\ entries' = [i \in 1..(IF o.done + 1 > Len(entries) THEN o.done + 1 ELSE Len(entries)) |->
                         IF i = o.done + 1 THEN o.blob[o.done + 1] ELSE entries[i]]
    BY ONLY ZenonT(60), <1>20 DEF ReplaceBatch
  <2>4. StartStore'
    <3>1. /\ seq = Len(entries) /\ entries \in Seq(Lines) /\ imported \in Seq(Lines) /\ issued \in Seq(Lines)
          /\ imported = <<>> /\ issued = <<>> /\ Len(entries) <= Len(blob)
          /\ \A i \in 1..Len(entries) : entries[i] = blob[i]
          /\ \A l \in sent : Holds(blob, l)
      BY ONLY ZenonT(60), <1>20, <2>1 DEF StartInv, StartStore, RecordsArePrefixOf
    <3>2. o.done < Len(blob)
      BY ONLY ZenonT(60), <2>1 DEF Fits
    <3> HIDE DEF o
    <3>3. entries' = [i \in 1..(seq + 1) |-> IF i = seq + 1 THEN blob[seq + 1] ELSE entries[i]]
      BY ONLY SMTT(30), <2>1, <2>3, <3>1
    <3>4. /\ entries' \in Seq(Lines) /\ Len(entries') = seq + 1 /\ Len(entries') <= Len(blob)
          /\ \A i \in 1..Len(entries') : entries'[i] = blob[i]
      BY ONLY SMTT(30), <2>1, <3>1, <3>2, <3>3
    <3> QED BY ONLY SMTT(30), <2>1, <2>3, <3>1, <3>4
            DEF StartStore, ImportIsExact, RecordsArePrefixOf, Holds
  <2>5. rep'[r] = n
    BY ONLY ZenonT(60), <1>20, <2>2 DEF Commit
  <2> HIDE DEF o
  <2>6. Fits(rep[r])' /\ n.pc \in {"batch", "finish"}
    <3>1. o.done + 1 \in Nat /\ o.done + 1 <= Len(o.blob) /\ Len(o.blob) \in Nat
      BY ONLY SMTT(30), <2>1 DEF Fits
    <3> QED BY ONLY SMTT(30), <2>1, <2>3, <2>5, <3>1
               DEF Fits, Fields, Replacing, Importing, Before, Steps
  <2> HIDE DEF n
  <2> QED BY ONLY ZenonT(60), <1>20, <1>d, <2>2, <2>3, <2>4, <2>6
<1>21. ASSUME StartInv, NEW r \in Replicas, ReplaceFinish(r) PROVE StartInv'
  <2> DEFINE o == rep[r]
             n == [o EXCEPT !.pc = "key"]
  <2>1. /\ Fits(o) /\ o.pc = "finish" /\ o.blob = blob /\ blob # <<>> /\ blob \in Seq(Lines)
        /\ o.done = seq /\ o.done = Len(blob)
    BY SMTT(30), <1>21
       DEF ReplaceFinish, At, Guarded, StartInv, StartStore, Fits, Importing,
       Replacing
  <2>2. Commit(r, n, TRUE, ByRevision, TRUE)
    BY ONLY ZenonT(60), <1>21 DEF ReplaceFinish
  <2>3. /\ UNCHANGED <<entries, key, sent, issued, keyHolder>> /\ blob' = <<>> /\ imported' = blob
        /\ seq' = seq
    BY ONLY ZenonT(60), <1>21, <2>1 DEF o, ReplaceFinish
  <2>4. StartStore'
    <3>1. /\ seq = Len(entries) /\ entries \in Seq(Lines) /\ issued \in Seq(Lines) /\ issued = <<>>
          /\ \A i \in 1..Len(entries) : entries[i] = blob[i]
          /\ \A l \in sent : Holds(blob, l)
      BY ONLY ZenonT(60), <1>21, <2>1 DEF StartInv, StartStore, RecordsArePrefixOf
    <3>2. entries = blob
      BY ONLY ZenonT(60), <1>s, <2>1, <3>1
    <3>3. blob \o <<>> = blob /\ <<>> \in Seq(Lines)
      BY ONLY SMTT(30), <2>1
    <3> QED BY ONLY ZenonT(60), <2>1, <2>3, <3>1, <3>2, <3>3
               DEF StartStore, ImportIsExact, Holds
  <2>5. rep'[r] = n
    BY ONLY ZenonT(60), <1>21, <2>2 DEF Commit
  <2> HIDE DEF o
  <2>6. Fits(rep[r])' /\ n.pc = "key"
    BY ONLY ZenonT(60), <2>1, <2>3, <2>5 DEF Fits, Fields, Replacing, Importing, Before, Steps
  <2> HIDE DEF n
  <2>7. ByRevision \in BOOLEAN
    OBVIOUS
  <2> QED BY ONLY ZenonT(60), <1>21, <1>d, <2>2, <2>3, <2>4, <2>6, <2>7
<1>22. ASSUME StartInv, NEW r \in Replicas, NEW l \in NewLines, AppendEntry(r, l) PROVE StartInv'
  <2> DEFINE o == rep[r]
  <2>1. Fits(o) /\ o.pc = "up" /\ blob = <<>>
    <3>1. Fits(o) /\ o.pc = "up"
      BY ONLY ZenonT(60), <1>22 DEF AppendEntry, At, StartInv
    <3> HIDE DEF o
    <3> QED BY ONLY ZenonT(60), <3>1 DEF Fits, Before, Importing, Replacing
  <2>2. Commit(r, o, TRUE, TRUE, TRUE)
    BY ONLY ZenonT(60), <1>22 DEF AppendEntry
  <2>3. /\ UNCHANGED <<blob, key, sent, imported, keyHolder>> /\ seq' = seq + 1
        /\ entries' = Append(entries, l) /\ issued' = Append(issued, l)
    BY ONLY ZenonT(60), <1>22, <2>1 DEF AppendEntry
  <2>4. StartStore'
    <3>1. /\ seq = Len(entries) /\ entries \in Seq(Lines) /\ issued \in Seq(Lines) /\ imported \in Seq(Lines)
          /\ l \in Lines
          /\ imported # <<>> => entries = imported \o issued
          /\ \A x \in sent : Holds(entries, x)
      BY ONLY ZenonT(60), <1>22, <2>1 DEF StartInv, StartStore, ImportIsExact, Lines
    <3>2. imported # <<>> => entries' = imported' \o issued'
      <4>1. issued \in Seq(Lines) /\ imported \in Seq(Lines) /\ l \in Lines
        BY ONLY ZenonT(60), <3>1
      <4>2. Append(imported \o issued, l) = imported \o Append(issued, l)
        <5> DEFINE x == Append(imported \o issued, l)
                   y == imported \o Append(issued, l)
        <5>1. x \in Seq(Lines) /\ y \in Seq(Lines) /\ Len(x) = Len(y)
          BY ONLY SMTT(30), <4>1
        <5>2. \A i \in 1..Len(x) : x[i] = y[i]
          BY ONLY SMTT(30), <4>1
        <5> HIDE DEF x, y
        <5>3. x = y
          BY ONLY ZenonT(60), <1>s, <5>1, <5>2
        <5> QED BY ONLY ZenonT(60), <5>3 DEF x, y
      <4> QED BY ONLY ZenonT(60), <2>3, <3>1, <4>2
    <3>3. entries' \in Seq(Lines) /\ issued' \in Seq(Lines) /\ Len(entries') = seq'
          /\ DOMAIN entries \subseteq DOMAIN entries' /\ \A i \in DOMAIN entries : entries'[i] = entries[i]
      BY ONLY SMTT(30), <2>3, <3>1
    <3>4. \A x \in sent' : Holds(entries, x)'
      BY ONLY ZenonT(60), <2>3, <3>1, <3>3 DEF Holds
    <3>5. blob' = <<>> /\ imported' = imported /\ <<>> \in Seq(Lines)
      BY ONLY SMTT(30), <2>1, <2>3
    <3> QED BY ONLY ZenonT(60), <3>1, <3>2, <3>3, <3>4, <3>5 DEF StartStore, ImportIsExact
  <2>5. rep'[r] = o
    BY ONLY ZenonT(60), <1>22, <2>2 DEF Commit
  <2> HIDE DEF o
  <2>6. Fits(rep[r])'
    BY ONLY ZenonT(60), <2>1, <2>3, <2>5 DEF Fits, Fields, Replacing, Importing, Before, Steps
  <2>7. o.pc \notin {"keyAgain", "keyPut"}
    BY ONLY ZenonT(60), <2>1
  <2> QED BY ONLY ZenonT(60), <1>22, <1>d, <2>2, <2>3, <2>4, <2>6, <2>7
<1>23. ASSUME StartInv, NEW l \in OldLines, OldAppend(l) PROVE StartInv'
  <2>1. /\ blob # <<>> /\ blob' = Append(blob, l) /\ sent' = sent \cup {l}
        /\ rep' = [x \in Replicas |-> [rep[x] EXCEPT !.markFresh = FALSE]]
        /\ UNCHANGED <<entries, seq, key, imported, issued, keyHolder>>
    BY ONLY ZenonT(60), <1>23 DEF OldAppend
  <2>2. /\ blob \in Seq(Lines) /\ entries \in Seq(Lines) /\ l \in Lines /\ seq = Len(entries)
        /\ imported = <<>> /\ issued = <<>> /\ Len(entries) <= Len(blob)
        /\ \A i \in 1..Len(entries) : entries[i] = blob[i]
        /\ \A x \in sent : Holds(blob, x)
    BY ONLY ZenonT(60), <1>23, <2>1 DEF StartInv, StartStore, RecordsArePrefixOf, Lines
  <2>3. /\ blob' \in Seq(Lines) /\ blob' # <<>> /\ Len(blob') = Len(blob) + 1 /\ blob'[Len(blob) + 1] = l
        /\ \A i \in 1..Len(blob) : blob'[i] = blob[i]
    BY ONLY SMTT(30), <2>1, <2>2
  <2>4. StartStore'
    <3>1. \A x \in sent' : Holds(blob, x)'
      BY ONLY SMTT(30), <2>1, <2>2, <2>3 DEF Holds
    <3>2. RecordsArePrefixOf(entries, blob)'
      BY ONLY SMTT(30), <2>1, <2>2, <2>3 DEF RecordsArePrefixOf
    <3>3. <<>> \in Seq(Lines)
      BY ONLY SMTT(30)
    <3> QED BY ONLY ZenonT(60), <2>1, <2>2, <2>3, <3>1, <3>2, <3>3
               DEF StartStore, ImportIsExact
  <2>5. ASSUME NEW x \in Replicas PROVE Fits(rep[x])' /\ rep'[x].pc \notin {"keyAgain", "keyPut"}
    <3> DEFINE c == rep[x]
    <3>1. rep'[x] = [c EXCEPT !.markFresh = FALSE] /\ Fits(c)
      BY ONLY ZenonT(60), <1>23, <2>1 DEF StartInv
    <3> HIDE DEF c
    <3>2. /\ DOMAIN rep'[x] = Fields /\ rep'[x].pc = c.pc /\ rep'[x].blob = c.blob /\ rep'[x].seq = c.seq
          /\ rep'[x].done = c.done /\ rep'[x].key = c.key
          /\ rep'[x].markFresh = FALSE /\ rep'[x].seqFresh = c.seqFresh
      BY ONLY ZenonT(60), <3>1 DEF Fits, Fields
    <3>3. c.pc \in Before /\ key' = key /\ seq' = seq
      BY ONLY ZenonT(60), <2>1, <3>1 DEF Fits
    <3>4. Fits(rep[x])'
      BY ONLY SMTT(30), <3>1, <3>2, <3>3 DEF Fits, Usable
    <3> QED BY ONLY ZenonT(60), <3>2, <3>3, <3>4 DEF Before, Importing, Replacing
  <2>6. DOMAIN rep' = Replicas
    BY ONLY ZenonT(60), <2>1
  <2> QED BY ONLY ZenonT(60), <2>4, <2>5, <2>6 DEF StartInv
<1>24. ASSUME StartInv, OldMAC PROVE StartInv'
  <2>1. /\ rep' = [x \in Replicas |-> [rep[x] EXCEPT !.headFresh = FALSE]]
        /\ UNCHANGED <<blob, entries, seq, key, sent, imported, issued, keyHolder>>
    BY ONLY ZenonT(60), <1>24 DEF OldMAC
  <2>2. StartStore'
    BY ONLY ZenonT(60), <1>24, <2>1 DEF StartInv, StartStore, ImportIsExact
  <2>3. ASSUME NEW x \in Replicas PROVE Fits(rep[x])' /\ rep'[x].pc = rep[x].pc
    <3> DEFINE c == rep[x]
    <3>1. rep'[x] = [c EXCEPT !.headFresh = FALSE] /\ Fits(c)
      BY ONLY ZenonT(60), <1>24, <2>1 DEF StartInv
    <3> HIDE DEF c
    <3>2. Fits(rep[x])' /\ rep'[x].pc = c.pc
      BY ONLY SMTT(30), <2>1, <3>1 DEF Fits, Fields, Replacing, Importing, Before, Steps
    <3> QED BY ONLY ZenonT(60), <3>2 DEF c
  <2>4. DOMAIN rep' = Replicas
    BY ONLY ZenonT(60), <2>1
  <2> QED BY ONLY ZenonT(60), <1>24, <2>1, <2>2, <2>3, <2>4 DEF StartInv
<1>25. StartInv /\ UNCHANGED vars => StartInv'
  BY ONLY SMTT(30)
     DEF vars, StartInv, StartStore, Fits, ImportIsExact, RecordsArePrefixOf,
     Holds,
     Usable
<1>26. StartInv => ImportKeepsEveryLine
  <2> SUFFICES ASSUME StartInv PROVE ImportKeepsEveryLine
    OBVIOUS
  <2>1. ImportIsExact /\ OldLinesSurvive
    BY ONLY ZenonT(60), StartInv DEF StartInv, StartStore, OldLinesSurvive
  <2>2. AlwaysResumable /\ OneKey
    BY DEF StartInv, Fits, Steps, Before, Importing, Replacing, AlwaysResumable, OneKey
  <2> QED BY ONLY ZenonT(60), <2>1, <2>2 DEF ImportKeepsEveryLine
<1>27. StartInv /\ Next => StartInv'
  BY ONLY ZenonT(60), <1>2, <1>3, <1>4, <1>5, <1>6, <1>7, <1>8, <1>9, <1>10, <1>11, <1>12,
     <1>13, <1>14, <1>15,
     <1>16, <1>17, <1>18, <1>19, <1>20, <1>21, <1>22, <1>23, <1>24
     DEF Next, Advance, Decompose, EnsureHMACKey, Verify
<1> QED BY <1>1, <1>25, <1>26, <1>27, PTL DEF Spec

-----------------------------------------------------------------------------
(* The SQL tier *)

SQL == INSTANCE SessionLock

SQLMutex == INSTANCE Mutex WITH
  Owners <- SQL!Requests, holders <- SQL!Holders, lapsed <- SQL!Lapsed

\* The requests that hold the process-local mutex of the crl lock.
InCRL(r) == held[r] = 2 \/ (held[r] = 1 /\ phase[r] # "run")

\* One request of a process at a time holds the process-local mutex of the crl lock,
\* and nobody unlocks what they do not hold.
SQLInv ==
  /\ held \in [SQL!Requests -> 0..2]
  /\ phase \in [SQL!Requests -> {"run", "local", "conn"}]
  /\ worked \subseteq SQL!Requests
  /\ DOMAIN local = Procs
  /\ DOMAIN owner = SQL!Keys
  /\ \A r \in SQL!Requests : InCRL(r) => SQL!CRL \in local[r[1]]
  /\ \A r, q \in SQL!Requests : InCRL(r) /\ InCRL(q) /\ r[1] = q[1] => r = q
  /\ \A r \in SQL!Requests : held[r] = 2 => phase[r] = "run"
  /\ \A r \in worked : held[r] # 0

\* A tier nobody uses yet satisfies the invariant, and is the free abstract lock.
LEMMA SQLInit == SQL!Init => SQLInv /\ SQLMutex!Init
  BY SMTT(30) DEF SQL!Init, SQLInv, InCRL, SQLMutex!Init, SQL!Holders, SQL!Lapsed

\* A request takes its subject's lock, then the crl lock, on two different server keys;
\* a free key and one an unreaped session has are told apart from a request's.
LEMMA SQLNames ==
  ASSUME NEW r \in SQL!Requests
  PROVE  /\ SQL!Name(r, 1) # SQL!CRL /\ SQL!Name(r, 2) = SQL!CRL
         /\ SQL!LockKey(SQL!CRL) = "reserved" /\ SQL!LockKey(SQL!Name(r, 1)) = "derived"
         /\ SQL!Free # <<r, SQL!CRL>> /\ SQL!Ghost # <<r, SQL!CRL>>
  BY SMTT(30) DEF SQL!Name, SQL!Subject, SQL!CRL, SQL!LockKey, SQL!Free, SQL!Ghost, SQL!Requests

\* Every step preserves the invariant of the SQL tier.
LEMMA SQLInvariant ==
  ASSUME Crowded \subseteq Procs, SQLInv, [SQL!Next]_(SQL!vars)  PROVE SQLInv'
  <1>0. \A r \in SQL!Requests : r[1] \in Procs
    BY DEF SQL!Requests
  <1> USE DEF SQLInv, InCRL
  <1>1. ASSUME NEW r \in SQL!Requests, SQL!TakeLocal(r)  PROVE SQLInv'
    BY SMTT(30), <1>0, <1>1, SQLNames DEF SQL!TakeLocal, SQL!Next1, SQL!Wants
  <1>2. ASSUME NEW r \in SQL!Requests, SQL!TakeConn(r)  PROVE SQLInv'
    BY <1>2 DEF SQL!TakeConn
  <1>3. ASSUME NEW r \in SQL!Requests, SQL!Lock(r)  PROVE SQLInv'
    BY SMTT(30), <1>3 DEF SQL!Lock
  <1>4. ASSUME NEW r \in SQL!Requests, SQL!LockFails(r)  PROVE SQLInv'
    BY SMTT(30), <1>0, <1>4, SQLNames DEF SQL!LockFails, SQL!Next1
  <1>5. ASSUME NEW r \in SQL!Requests, SQL!Statement(r)  PROVE SQLInv'
    BY SMTT(30), <1>5 DEF SQL!Statement
  <1>6. ASSUME NEW r \in SQL!Requests, SQL!Unlock(r)  PROVE SQLInv'
    BY SMTT(30), <1>0, <1>6, SQLNames DEF SQL!Unlock, SQL!Last, SQL!Released, SQL!Abandoned
  <1>7. ASSUME NEW p \in Procs, SQL!Crash(p)  PROVE SQLInv'
    BY SMTT(30), <1>7 DEF SQL!Crash
  <1>8. ASSUME UNCHANGED <<local, held, phase, worked>>, DOMAIN owner' = DOMAIN owner  PROVE SQLInv'
    BY <1>8
  <1> QED
    BY <1>1, <1>2, <1>3, <1>4, <1>5, <1>6, <1>7, <1>8
       DEF SQL!Next, SQL!vars, SQL!Proceed, SQL!SessionDies, SQL!Reap, SQL!Released

\* A step of the lock is a grant, a lapse or a release of the abstract one, or
\* changes nothing there.
LEMMA SQLStep ==
  ASSUME Crowded \subseteq Procs, SQLInv, [SQL!Next]_(SQL!vars)
  PROVE  [SQLMutex!Next]_(SQLMutex!vars)
  <1> USE DEF SQLInv, SQL!Holders, SQL!Lapsed
  <1>0. ASSUME NEW r \in SQL!Requests,
               SQLMutex!Grant(r) \/ SQLMutex!Lapse(r) \/ SQLMutex!Release(r)
        PROVE  SQLMutex!Next
    BY <1>0 DEF SQLMutex!Next, SQLMutex!Grant, SQLMutex!Lapse, SQLMutex!Release
  <1>1. ASSUME UNCHANGED held,
               owner'["reserved"] # owner["reserved"] =>
                 {owner["reserved"], owner'["reserved"]} \subseteq {SQL!Free, SQL!Ghost}
        PROVE  UNCHANGED SQLMutex!vars
    BY <1>1, SQLNames DEF SQLMutex!vars
  <1>2. ASSUME NEW r \in SQL!Requests, SQL!Lock(r)  PROVE [SQLMutex!Next]_(SQLMutex!vars)
    <2>1. CASE held[r] = 0
      BY SMTT(30), <1>2, <2>1, SQLNames DEF SQL!Lock, SQL!Next1, SQL!Keys, SQLMutex!vars
    <2>2. CASE held[r] = 1
      <3>1. SQLMutex!Grant(r)
        BY SMTT(30), <1>2, <2>2, SQLNames DEF SQL!Lock, SQL!Next1, SQL!Keys, SQLMutex!Grant
      <3> QED BY <1>0, <3>1
    <2> QED BY SMTT(30), <1>2, <2>1, <2>2 DEF SQL!Lock
  <1>3. ASSUME NEW r \in SQL!Requests, SQL!LockFails(r)  PROVE UNCHANGED SQLMutex!vars
    BY <1>1, <1>3 DEF SQL!LockFails, SQL!LockKey, SQL!Keys
  <1>4. ASSUME NEW r \in SQL!Requests, SQL!Unlock(r)  PROVE [SQLMutex!Next]_(SQLMutex!vars)
    <2>1. CASE held[r] = 1
      BY SMTT(30), <1>4, <2>1, SQLNames
         DEF SQL!Unlock, SQL!Last, SQL!Released, SQL!Abandoned, SQL!Keys, SQLMutex!vars
    <2>2. CASE held[r] = 2
      <3>1. \A q \in SQL!Requests : SQL!Free # <<q, SQL!CRL>> /\ SQL!Ghost # <<q, SQL!CRL>>
        BY SQLNames
      <3>2. /\ held' = [held EXCEPT ![r] = 1]
            /\ owner'["reserved"] \in
                 IF owner["reserved"] = <<r, SQL!CRL>> THEN {SQL!Free, SQL!Ghost} ELSE {owner["reserved"]}
        BY SMTT(30), <1>4, <2>2, SQLNames
           DEF SQL!Unlock, SQL!Last, SQL!Released, SQL!Abandoned, SQL!Keys
      <3>3. ASSUME NEW q \in SQL!Requests, q # r
            PROVE  owner'["reserved"] = <<q, SQL!CRL>> <=> owner["reserved"] = <<q, SQL!CRL>>
        <4>1. <<q, SQL!CRL>> # <<r, SQL!CRL>>
          BY <3>3
        <4> QED BY <3>1, <3>2, <4>1
      <3>4. SQLMutex!Release(r)
        BY SMTT(30), <2>2, <3>2, <3>3 DEF SQLMutex!Release, SQL!LockKey
      <3> QED BY <1>0, <3>4
    <2> QED BY SMTT(30), <1>4, <2>1, <2>2 DEF SQL!Unlock
  <1>5. ASSUME NEW r \in SQL!Requests, SQL!SessionDies(r)  PROVE [SQLMutex!Next]_(SQLMutex!vars)
    <2>1. PICK i \in 1..held[r] : /\ owner[SQL!LockKey(SQL!Name(r, i))] = <<r, SQL!Name(r, i)>>
                                  /\ SQL!Released(<<r, SQL!Name(r, i)>>)
      BY <1>5 DEF SQL!SessionDies
    <2>2. UNCHANGED held
      BY <1>5 DEF SQL!SessionDies
    <2>3. CASE i = 1
      BY <2>1, <2>2, <2>3, SQLNames DEF SQL!Released, SQL!Keys, SQLMutex!vars
    <2>4. CASE i = 2
      <3>1. held[r] = 2 /\ owner["reserved"] = <<r, SQL!CRL>> /\ owner'["reserved"] = SQL!Free
        BY SMTT(30), <2>1, <2>4, SQLNames DEF SQL!Released, SQL!Keys
      <3>2. \A q \in SQL!Requests : <<q, SQL!CRL>> = <<r, SQL!CRL>> => q = r
        OBVIOUS
      <3>3. \A q \in SQL!Requests : SQL!Free # <<q, SQL!CRL>>
        BY SQLNames
      <3>4. SQLMutex!Lapse(r)
        BY <2>2, <3>1, <3>2, <3>3 DEF SQLMutex!Lapse, SQL!LockKey
      <3> QED BY <1>0, <3>4
    <2> QED BY SMTT(30), <2>1, <2>3, <2>4
  <1>6. ASSUME NEW p \in Procs, SQL!Crash(p)  PROVE [SQLMutex!Next]_(SQLMutex!vars)
    <2>1. owner'["reserved"] = IF owner["reserved"][1][1] = p THEN SQL!Ghost ELSE owner["reserved"]
      BY <1>6 DEF SQL!Crash, SQL!Keys
    <2>2. ASSUME NEW q \in SQL!Requests, q[1] # p
          PROVE  owner'["reserved"] = <<q, SQL!CRL>> <=> owner["reserved"] = <<q, SQL!CRL>>
      <3>1. ASSUME owner["reserved"] = <<q, SQL!CRL>>  PROVE owner'["reserved"] = <<q, SQL!CRL>>
        BY SMTT(30), <2>1, <2>2, <3>1
      <3>2. ASSUME owner'["reserved"] = <<q, SQL!CRL>>  PROVE owner["reserved"] = <<q, SQL!CRL>>
        BY <2>1, <3>2, SQLNames
      <3> QED BY <3>1, <3>2
    <2>3. \A q \in SQL!Requests : held'[q] = IF q[1] = p THEN 0 ELSE held[q]
      BY <1>6 DEF SQL!Crash
    <2>4. ASSUME NEW r \in SQL!Holders, r[1] = p  PROVE SQLMutex!Release(r)
      <3>1. \A q \in SQL!Holders : q[1] = p => q = r
        BY <2>4 DEF InCRL
      <3> QED BY SMTT(30), <2>2, <2>3, <2>4, <3>1 DEF SQLMutex!Release, SQL!LockKey
    <2>5. CASE \A r \in SQL!Holders : r[1] # p
      BY SMTT(30), <2>2, <2>3, <2>5 DEF SQLMutex!vars, SQL!LockKey
    <2> QED BY <1>0, <2>4, <2>5
  <1>7. ASSUME NEW k \in SQL!Keys, SQL!Reap(k)  PROVE UNCHANGED SQLMutex!vars
    BY <1>1, <1>7 DEF SQL!Reap, SQL!Keys
  <1> QED
    BY <1>1, <1>2, <1>3, <1>4, <1>5, <1>6, <1>7
       DEF SQL!Next, SQL!vars, SQL!Proceed, SQL!TakeLocal, SQL!TakeConn, SQL!Statement

\* The SQL tier's crl lock implements the abstract lock, whatever the pool holds and
\* whichever sessions die (sqlBackend.AcquireLock, sqlUnlocker).
THEOREM SQLImplementsMutex == ASSUME Crowded \subseteq Procs PROVE SQL!Spec => SQLMutex!Spec
  BY SQLInit, SQLInvariant, SQLStep, PTL DEF SQL!Spec, SQLMutex!Spec

-----------------------------------------------------------------------------
(* The Redis tier *)

Redis == INSTANCE RedisLock

RedisMutex == INSTANCE Mutex WITH
  Owners <- Redis!Callers, holders <- Redis!Holders, lapsed <- Redis!Lapsed

\* One goroutine of a process at a time is past the process-local mutex, and
\* whoever is past it has a token that nobody else ever had.
RedisInv ==
  /\ pc \in [Redis!Callers -> {"idle", "try", "hold"}]
  /\ token \in [Redis!Callers -> Nat]
  /\ issued \in Nat
  /\ key \in Nat
  /\ \A c \in Redis!Callers : token[c] <= issued
  /\ \A c \in Redis!Callers : pc[c] # "idle" => c[1] \in local /\ token[c] # 0
  /\ \A c, d \in Redis!Callers : pc[c] # "idle" /\ pc[d] # "idle" /\ c[1] = d[1] => c = d
  /\ \A c, d \in Redis!Callers : token[c] = token[d] /\ token[c] # 0 => c = d

\* A tier nobody uses yet satisfies the invariant, and is the free abstract lock.
LEMMA RedisInit == Redis!Init => RedisInv /\ RedisMutex!Init
  BY SMTT(30) DEF Redis!Init, RedisInv, RedisMutex!Init, Redis!Holders, Redis!Lapsed

\* Every step preserves the invariant of the Redis tier.
LEMMA RedisInvariant == ASSUME RedisInv, [Redis!Next]_(Redis!vars) PROVE RedisInv'
  <1> USE DEF RedisInv
  <1>1. ASSUME NEW c \in Redis!Callers, Redis!TakeLocal(c)  PROVE RedisInv'
    BY SMTT(30), <1>1 DEF Redis!TakeLocal
  <1>2. ASSUME NEW c \in Redis!Callers, Redis!AcquireLock(c) \/ Redis!GiveUp(c) PROVE RedisInv'
    BY SMTT(30), <1>2 DEF Redis!AcquireLock, Redis!GiveUp, Redis!SetNX
  <1>3. ASSUME NEW c \in Redis!Callers, Redis!Unlock(c) PROVE RedisInv'
    BY SMTT(30), <1>3 DEF Redis!Unlock, Redis!UnlockScript
  <1>4. ASSUME NEW p \in Procs, Redis!Crash(p) PROVE RedisInv'
    BY <1>4 DEF Redis!Crash
  <1>5. ASSUME UNCHANGED <<local, pc, token, issued>>, key' \in {0, key} PROVE RedisInv'
    BY SMTT(30), <1>5
  <1> QED
    BY <1>1, <1>2, <1>3, <1>4, <1>5
       DEF Redis!Next, Redis!vars, Redis!Renew, Redis!RenewFails, Redis!Tick, Redis!Expire,
           Redis!Failover

\* A step of the lock is a grant, a lapse or a release of the abstract one, or
\* changes nothing there.
LEMMA RedisStep ==
  ASSUME RedisInv, [Redis!Next]_(Redis!vars)
  PROVE  [RedisMutex!Next]_(RedisMutex!vars)
  <1> USE DEF RedisInv, Redis!Holders, Redis!Lapsed
  <1>1. ASSUME NEW c \in Redis!Callers, Redis!TakeLocal(c) \/ Redis!GiveUp(c)
        PROVE  UNCHANGED RedisMutex!vars
    BY SMTT(30), <1>1 DEF Redis!TakeLocal, Redis!GiveUp, Redis!SetNX, RedisMutex!vars
  <1>2. ASSUME NEW c \in Redis!Callers, Redis!AcquireLock(c)  PROVE  RedisMutex!Grant(c)
    BY <1>2 DEF Redis!AcquireLock, Redis!SetNX, RedisMutex!Grant
  <1>3. ASSUME NEW c \in Redis!Callers, Redis!Unlock(c)  PROVE  RedisMutex!Release(c)
    BY <1>3 DEF Redis!Unlock, Redis!UnlockScript, RedisMutex!Release
  <1>4. ASSUME NEW p \in Procs, Redis!Crash(p)
        PROVE  UNCHANGED RedisMutex!vars \/ \E c \in Redis!Holders : RedisMutex!Release(c)
    <2>1. CASE \E c \in Redis!Holders : c[1] = p
      BY SMTT(30), <1>4, <2>1 DEF Redis!Crash, RedisMutex!Release
    <2>2. CASE \A c \in Redis!Holders : c[1] # p
      BY <1>4, <2>2 DEF Redis!Crash, RedisMutex!vars
    <2> QED BY <2>1, <2>2
  <1>5. ASSUME Redis!Expire \/ Redis!Failover
        PROVE  UNCHANGED RedisMutex!vars \/ \E c \in Redis!Holders : RedisMutex!Lapse(c)
    <2>1. CASE \E c \in Redis!Holders : token[c] = key
      BY SMTT(30), <1>5, <2>1 DEF Redis!Expire, Redis!Failover, RedisMutex!Lapse
    <2>2. CASE \A c \in Redis!Holders : token[c] # key
      BY <1>5, <2>2 DEF Redis!Expire, Redis!Failover, RedisMutex!vars
    <2> QED BY <2>1, <2>2
  <1>6. ASSUME UNCHANGED <<pc, token, key>>  PROVE UNCHANGED RedisMutex!vars
    BY <1>6 DEF RedisMutex!vars
  <1>7. ASSUME NEW c \in Redis!Callers,
               RedisMutex!Grant(c) \/ RedisMutex!Lapse(c) \/ RedisMutex!Release(c)
        PROVE  RedisMutex!Next
    BY <1>7 DEF RedisMutex!Next, RedisMutex!Grant, RedisMutex!Lapse, RedisMutex!Release
  <1>8. Redis!Holders \subseteq Redis!Callers
    OBVIOUS
  <1> QED
    BY <1>1, <1>2, <1>3, <1>4, <1>5, <1>6, <1>7, <1>8
       DEF Redis!Next, Redis!vars, Redis!Renew, Redis!RenewFails, Redis!Tick

\* The Redis tier implements the abstract lock; a key lost to its TTL or a failover is a
\* lapse (RedisBackend.AcquireLock).
THEOREM RedisImplementsMutex == Redis!Spec => RedisMutex!Spec
  BY RedisInit, RedisInvariant, RedisStep, PTL DEF Redis!Spec, RedisMutex!Spec

\* How long a key can last: each heartbeat that is due or was missed since the last
\* renewal stands for one interval, and a holder that has lost its key missed two.
RedisBeats ==
  /\ ttl \in Nat
  /\ missed \in [Redis!Callers -> 0..Redis!Denom]
  /\ \A c \in Redis!Holders :
       IF key = token[c] THEN ttl + missed[c] + (IF c \in due THEN 1 ELSE 0) >= Redis!Denom
                         ELSE missed[c] >= Redis!Denom - 1

\* Every step keeps the account of the heartbeats, unless a failover loses the key.
LEMMA RedisBeatsStep ==
  ASSUME ~ Sentinel, RedisInv, RedisBeats, [Redis!Next]_(Redis!vars)  PROVE RedisBeats'
  <1> USE DEF RedisInv, RedisBeats, Redis!Holders, Redis!Denom
  <1>1. ASSUME NEW c \in Redis!Callers, Redis!TakeLocal(c)  PROVE RedisBeats'
    BY <1>1 DEF Redis!TakeLocal
  <1>2. ASSUME NEW c \in Redis!Callers, Redis!AcquireLock(c)  PROVE RedisBeats'
    BY SMTT(30), <1>2 DEF Redis!AcquireLock, Redis!SetNX
  <1>3. ASSUME NEW c \in Redis!Callers, Redis!GiveUp(c)  PROVE RedisBeats'
    BY SMTT(30), <1>3 DEF Redis!GiveUp, Redis!SetNX
  <1>4. ASSUME NEW c \in Redis!Callers, Redis!Renew(c)  PROVE RedisBeats'
    BY SMTT(30), <1>4 DEF Redis!Renew
  <1>5. ASSUME NEW c \in Redis!Callers, Redis!RenewFails(c)  PROVE RedisBeats'
    BY SMTT(30), <1>5 DEF Redis!RenewFails
  <1>6. ASSUME NEW c \in Redis!Callers, Redis!Unlock(c)  PROVE RedisBeats'
    BY <1>6 DEF Redis!Unlock, Redis!UnlockScript
  <1>7. ASSUME NEW p \in Procs, Redis!Crash(p)  PROVE RedisBeats'
    BY <1>7 DEF Redis!Crash
  <1>8. CASE Redis!Tick
    BY SMTT(30), <1>8 DEF Redis!Tick, Redis!Beating
  <1>9. CASE Redis!Expire
    BY SMTT(30), <1>9 DEF Redis!Expire
  <1>10. CASE UNCHANGED Redis!vars
    BY <1>10 DEF Redis!vars
  <1> QED
    BY <1>1, <1>2, <1>3, <1>4, <1>5, <1>6, <1>7, <1>8, <1>9, <1>10 DEF Redis!Next, Redis!Failover

\* Without failovers a live holder loses its key only after two missed heartbeats
\* (heartbeat, redisHeartbeatDenom).
THEOREM RedisMargin == ASSUME ~ Sentinel PROVE Redis!Spec => []Redis!LapsesOnlyAfterMisses
  <1>1. Redis!Init => RedisBeats
    BY SMTT(30) DEF Redis!Init, RedisBeats, Redis!Holders, Redis!Denom
  <1>2. RedisBeats => Redis!LapsesOnlyAfterMisses
    BY DEF RedisBeats, Redis!LapsesOnlyAfterMisses, Redis!Lapsed
  <1> QED BY <1>1, <1>2, RedisInit, RedisInvariant, RedisBeatsStep, PTL DEF Redis!Spec

\* No late release takes the key of another holder (unlockLuaScript).
THEOREM RedisLateUnlock ==
  ASSUME ~ Sentinel PROVE Redis!Spec => [][Redis!LateUnlockIsHarmless]_(Redis!vars)
  <1>1. ASSUME RedisInv, Redis!Next  PROVE Redis!LateUnlockIsHarmless
    <2> SUFFICES ASSUME NEW c \in Redis!Holders, key = token[c], key' # key, ttl # 0
                 PROVE  pc'[c] = "idle"
      BY DEF Redis!LateUnlockIsHarmless, Redis!Lapsed
    <2> USE <1>1 DEF RedisInv, Redis!Holders
    <2>1. ASSUME NEW d \in Redis!Callers, Redis!AcquireLock(d) \/ Redis!GiveUp(d)  PROVE FALSE
      BY <2>1 DEF Redis!AcquireLock, Redis!GiveUp, Redis!SetNX
    <2>2. ASSUME NEW d \in Redis!Callers, Redis!Unlock(d)  PROVE pc'[c] = "idle"
      BY <2>2 DEF Redis!Unlock, Redis!UnlockScript
    <2> QED
      BY <2>1, <2>2 DEF Redis!Next, Redis!TakeLocal, Redis!Renew, Redis!RenewFails, Redis!Crash,
         Redis!Tick, Redis!Expire, Redis!Failover
  <1> QED BY <1>1, RedisInit, RedisInvariant, PTL DEF Redis!Spec

-----------------------------------------------------------------------------
(* The etcd tier *)

Etcd == INSTANCE EtcdLock

EtcdMutex == INSTANCE Mutex WITH
  Owners <- Etcd!Callers, holders <- Etcd!Holders, lapsed <- Etcd!Lapsed

\* What the proofs need of the types: sessions are numbered from 1.
EtcdTypes ==
  /\ pc \in [Etcd!Callers -> {"idle", "session", "lock", "wait", "hold"}]
  /\ using \in [Etcd!Callers -> Nat]
  /\ cur \in [Procs -> Nat]
  /\ retry \in [Procs -> Nat]
  /\ opened \in Nat
  /\ leases \subseteq Nat \ {0}
  /\ renewing \subseteq Nat \ {0}

\* Every lock key is on a lease, and of two keys one is the older.
EtcdKeys ==
  /\ DOMAIN queue \subseteq leases
  /\ \A s, t \in DOMAIN queue : s = t \/ s \in queue[t] \/ t \in queue[s]

\* One goroutine of a process at a time is past the process-local mutex, a release
\* that is being retried included, and it has a session from ensureSession on.
EtcdLocal ==
  /\ \A c \in Etcd!Callers : pc[c] # "idle" => c[1] \in local
  /\ \A c, d \in Etcd!Callers : pc[c] # "idle" /\ pc[d] # "idle" /\ c[1] = d[1] => c = d
  /\ \A p \in Procs : retry[p] # 0 => p \in local
  /\ \A c \in Etcd!Callers : retry[c[1]] # 0 => pc[c] = "idle"
  /\ \A c \in Etcd!Callers : using[c] = 0 <=> pc[c] \in {"idle", "session"}

\* A session belongs to one process.
EtcdOwned ==
  /\ \A p \in Procs : \A s \in Etcd!Of(p) : s <= opened
  /\ \A p, q \in Procs : \A s \in Etcd!Of(p) \cap Etcd!Of(q) : s # 0 => p = q

\* The key of a holder is the oldest, or it is gone.
EtcdOldest ==
  \A c \in Etcd!Callers :
    pc[c] = "hold" /\ using[c] \in DOMAIN queue => queue[using[c]] = {}

EtcdInv == EtcdTypes /\ EtcdKeys /\ EtcdLocal /\ EtcdOwned /\ EtcdOldest

\* A tier nobody uses yet satisfies the invariant, and is the free abstract lock.
LEMMA EtcdInit == Etcd!Init => EtcdInv /\ EtcdMutex!Init
  <1> SUFFICES ASSUME Etcd!Init PROVE EtcdInv /\ EtcdMutex!Init
    OBVIOUS
  <1> USE DEF Etcd!Init
  <1>1. EtcdTypes /\ EtcdLocal
    BY DEF EtcdTypes, EtcdLocal
  <1>2. EtcdOwned
    BY SMTT(30) DEF EtcdOwned, Etcd!Of
  <1>3. EtcdKeys
    BY DEF EtcdKeys
  <1>4. EtcdOldest /\ EtcdMutex!Init
    BY DEF EtcdOldest, EtcdMutex!Init, Etcd!Holders, Etcd!Lapsed
  <1> QED BY <1>1, <1>2, <1>3, <1>4 DEF EtcdInv

\* What the actions do to the queue: a session's key goes, perhaps with its lease,
\* or a key comes last.
Removed(s) ==
  /\ queue' = Etcd!Without(s)
  /\ leases' \in {leases, leases \ {s}}

Added(s) ==
  /\ s \in leases \ DOMAIN queue
  /\ queue' = Etcd!With(s)
  /\ UNCHANGED leases

KeysStay == UNCHANGED queue /\ leases \subseteq leases'

\* Deleting one key or adding one at the end leaves the keys in their order.
LEMMA EtcdKeysStep ==
  ASSUME EtcdKeys, KeysStay \/ \E s : Removed(s) \/ Added(s)
  PROVE  EtcdKeys'
  <1> USE DEF EtcdKeys
  <1>1. CASE KeysStay
    BY <1>1 DEF KeysStay
  <1>2. ASSUME NEW s, Removed(s)  PROVE EtcdKeys'
    BY <1>2 DEF Removed, Etcd!Without
  <1>3. ASSUME NEW s, Added(s)  PROVE EtcdKeys'
    BY SMTT(30), <1>3 DEF Added, Etcd!With
  <1> QED BY <1>1, <1>2, <1>3

\* No action does anything else to the lock keys, and only a caller about to lock adds one.
LEMMA EtcdKeysMove ==
  ASSUME [Etcd!Next]_(Etcd!vars)
  PROVE  \/ KeysStay \/ \E s : Removed(s)
         \/ \E c \in Etcd!Callers : pc[c] = "lock" /\ Added(using[c])
  <1>1. ASSUME NEW c \in Etcd!Callers, Etcd!Release(c)
        PROVE  KeysStay \/ Removed(using[c])
    BY <1>1 DEF KeysStay, Removed, Etcd!Release, Etcd!Deleted, Etcd!NotDeleted
  <1>2. ASSUME NEW c \in Etcd!Callers, Etcd!TryAcquire(c)
        PROVE  KeysStay \/ (pc[c] = "lock" /\ Added(using[c]))
    BY <1>2 DEF KeysStay, Added, Etcd!TryAcquire
  <1>9. ASSUME NEW c \in Etcd!Callers, Etcd!CommitUnanswered(c)
        PROVE  pc[c] = "lock" /\ Added(using[c])
    BY <1>9 DEF Added, Etcd!CommitUnanswered
  <1>3. ASSUME NEW c \in Etcd!Callers,
               Etcd!TakeLocal(c) \/ Etcd!EnsureSession(c) \/ Etcd!NoSession(c)
        PROVE  KeysStay
    BY <1>3 DEF KeysStay, Etcd!TakeLocal, Etcd!EnsureSession, Etcd!NoSession,
       Etcd!ReuseSession, Etcd!OpenSession, Etcd!server
  <1>4. ASSUME NEW c \in Etcd!Callers, Etcd!Granted(c)
        PROVE  KeysStay \/ Removed(using[c])
    BY <1>1, <1>4 DEF KeysStay, Etcd!Granted, Etcd!server
  <1>5. ASSUME NEW p \in Procs, Etcd!RetryEnds(p) \/ Etcd!RetryUnanswered(p)
        PROVE  KeysStay \/ Removed(retry[p])
    BY <1>5 DEF KeysStay, Removed, Etcd!RetryEnds, Etcd!RetryUnanswered
  <1>6. ASSUME NEW p \in Procs, Etcd!Close(p) \/ Etcd!Restart(p)
        PROVE  KeysStay \/ Removed(cur[p])
    BY <1>6 DEF KeysStay, Removed, Etcd!Close, Etcd!Restart, Etcd!Drop, Etcd!server
  <1>7. ASSUME NEW s \in Etcd!Sessions, Etcd!LeaseExpires(s) \/ Etcd!KeepaliveStops(s)
        PROVE  KeysStay \/ Removed(s)
    BY <1>7 DEF KeysStay, Removed, Etcd!LeaseExpires, Etcd!KeepaliveStops, Etcd!Drop, Etcd!server
  <1>8. UNCHANGED Etcd!vars => KeysStay
    BY DEF KeysStay, Etcd!vars
  <1> QED
    BY <1>1, <1>2, <1>3, <1>4, <1>5, <1>6, <1>7, <1>8, <1>9
       DEF Etcd!Next, Etcd!Unlock, Etcd!LockFails

\* Every step keeps the types.
LEMMA EtcdTypesStep ==
  ASSUME Crowded \subseteq Procs, EtcdTypes, [Etcd!Next]_(Etcd!vars)
  PROVE  EtcdTypes'
  <1>0. \A c \in Etcd!Callers : c[1] \in Procs
    BY DEF Etcd!Callers
  <1> USE DEF EtcdTypes
  <1>1. ASSUME NEW c \in Etcd!Callers, Etcd!TakeLocal(c)  PROVE EtcdTypes'
    BY <1>1 DEF Etcd!TakeLocal
  <1>12. ASSUME NEW c \in Etcd!Callers, Etcd!NoSession(c)  PROVE EtcdTypes'
    BY <1>0, <1>12 DEF Etcd!NoSession, Etcd!server
  <1>2. ASSUME NEW c \in Etcd!Callers, Etcd!Release(c)  PROVE EtcdTypes'
    BY <1>0, <1>2 DEF Etcd!Release, Etcd!Deleted, Etcd!NotDeleted
  <1>3. ASSUME NEW c \in Etcd!Callers, Etcd!TryAcquire(c)  PROVE EtcdTypes'
    BY <1>3 DEF Etcd!TryAcquire
  <1>4. ASSUME NEW c \in Etcd!Callers, Etcd!CommitUnanswered(c)  PROVE EtcdTypes'
    BY <1>0, <1>4 DEF Etcd!CommitUnanswered
  <1>5. ASSUME NEW p \in Procs, Etcd!RetryEnds(p)  PROVE EtcdTypes'
    BY <1>5 DEF Etcd!RetryEnds
  <1>6. ASSUME NEW p \in Procs, Etcd!Close(p)  PROVE EtcdTypes'
    BY <1>6 DEF Etcd!Close, Etcd!Drop, Etcd!server
  <1>7. ASSUME NEW p \in Procs, Etcd!Restart(p)  PROVE EtcdTypes'
    BY <1>7 DEF Etcd!Restart, Etcd!server
  <1>8. ASSUME NEW s \in Etcd!Sessions, Etcd!LeaseExpires(s)  PROVE EtcdTypes'
    BY <1>8 DEF Etcd!LeaseExpires, Etcd!Drop
  <1>9. ASSUME NEW c \in Etcd!Callers, Etcd!Granted(c)  PROVE EtcdTypes'
    BY <1>2, <1>9 DEF Etcd!Granted, Etcd!server
  <1>10. ASSUME NEW c \in Etcd!Callers, Etcd!EnsureSession(c)  PROVE EtcdTypes'
    <2>1. CASE Etcd!ReuseSession(c)
      BY <1>0, <1>10, <2>1 DEF Etcd!EnsureSession, Etcd!ReuseSession
    <2>2. CASE Etcd!OpenSession(c)
      BY SMTT(30), <1>0, <1>10, <2>2 DEF Etcd!EnsureSession, Etcd!OpenSession
    <2> QED BY <1>10, <2>1, <2>2 DEF Etcd!EnsureSession
  <1>11. ASSUME UNCHANGED <<pc, using, cur, opened, leases, retry>>, renewing' \subseteq renewing
         PROVE  EtcdTypes'
    BY <1>11
  <1> QED
    BY <1>1, <1>2, <1>3, <1>4, <1>5, <1>6, <1>7, <1>8, <1>9, <1>10, <1>11, <1>12
       DEF Etcd!Next, Etcd!vars, Etcd!Unlock, Etcd!LockFails, Etcd!RetryUnanswered,
           Etcd!KeepaliveStops, Etcd!server

\* Every step keeps one goroutine of a process past its local mutex (AcquireLock, etcdUnlocker).
LEMMA EtcdLocalStep ==
  ASSUME Crowded \subseteq Procs, EtcdTypes, EtcdLocal, [Etcd!Next]_(Etcd!vars)
  PROVE  EtcdLocal'
  <1>0. \A c \in Etcd!Callers : c[1] \in Procs
    BY DEF Etcd!Callers
  <1> USE DEF EtcdTypes, EtcdLocal
  <1>1. ASSUME NEW c \in Etcd!Callers, Etcd!TakeLocal(c)  PROVE EtcdLocal'
    BY SMTT(30), <1>0, <1>1 DEF Etcd!TakeLocal
  <1>2. ASSUME NEW c \in Etcd!Callers, Etcd!Release(c), pc[c] # "idle"  PROVE EtcdLocal'
    <2>1. CASE Etcd!Deleted(c)
      BY <1>0, <1>2, <2>1 DEF Etcd!Release, Etcd!Deleted
    <2>2. CASE Etcd!NotDeleted(c)
      BY <1>0, <1>2, <2>2 DEF Etcd!Release, Etcd!NotDeleted
    <2> QED BY <1>2, <2>1, <2>2 DEF Etcd!Release
  <1>3. ASSUME NEW c \in Etcd!Callers, Etcd!TryAcquire(c)  PROVE EtcdLocal'
    BY <1>3 DEF Etcd!TryAcquire
  <1>4. ASSUME NEW c \in Etcd!Callers, Etcd!CommitUnanswered(c)  PROVE EtcdLocal'
    BY <1>0, <1>4 DEF Etcd!CommitUnanswered
  <1>5. ASSUME NEW p \in Procs, Etcd!RetryEnds(p)  PROVE EtcdLocal'
    BY <1>0, <1>5 DEF Etcd!RetryEnds
  <1>6. ASSUME NEW p \in Procs, Etcd!Restart(p)  PROVE EtcdLocal'
    BY <1>0, <1>6 DEF Etcd!Restart
  <1>7. ASSUME NEW c \in Etcd!Callers, Etcd!NoSession(c)  PROVE EtcdLocal'
    BY SMTT(30), <1>0, <1>7 DEF Etcd!NoSession
  <1>8. ASSUME NEW c \in Etcd!Callers, Etcd!Granted(c)  PROVE EtcdLocal'
    BY SMTT(30), <1>2, <1>8 DEF Etcd!Granted
  <1>9. ASSUME NEW c \in Etcd!Callers, Etcd!EnsureSession(c)  PROVE EtcdLocal'
    BY SMTT(30), <1>0, <1>9 DEF Etcd!EnsureSession, Etcd!ReuseSession, Etcd!OpenSession
  <1>10. ASSUME UNCHANGED <<local, pc, using, retry>>  PROVE EtcdLocal'
    BY <1>10
  <1> QED
    BY <1>1, <1>2, <1>3, <1>4, <1>5, <1>6, <1>7, <1>8, <1>9, <1>10
       DEF Etcd!Next, Etcd!vars, Etcd!Unlock, Etcd!LockFails, Etcd!RetryUnanswered, Etcd!Close,
           Etcd!KeepaliveStops, Etcd!LeaseExpires

\* A step gives a session to nobody, or a fresh one to one process.
LEMMA EtcdOwnedStep ==
  ASSUME Crowded \subseteq Procs, EtcdTypes, EtcdOwned, [Etcd!Next]_(Etcd!vars)
  PROVE  EtcdOwned'
  <1>0. \A c \in Etcd!Callers : c[1] \in Procs
    BY DEF Etcd!Callers
  <1>a. ASSUME UNCHANGED opened, \A p \in Procs : Etcd!Of(p)' \subseteq Etcd!Of(p) \cup {0}
        PROVE  EtcdOwned'
    BY SMTT(30), <1>a DEF EtcdOwned, EtcdTypes
  <1>1. ASSUME NEW c \in Etcd!Callers, Etcd!Release(c)
        PROVE  \A p \in Procs : Etcd!Of(p)' \subseteq Etcd!Of(p) \cup {0}
    BY <1>0, <1>1 DEF Etcd!Of, Etcd!Release, Etcd!Deleted, Etcd!NotDeleted, EtcdTypes
  <1>2. ASSUME NEW c \in Etcd!Callers, Etcd!CommitUnanswered(c)
        PROVE  \A p \in Procs : Etcd!Of(p)' \subseteq Etcd!Of(p) \cup {0}
    BY <1>0, <1>2 DEF Etcd!Of, Etcd!CommitUnanswered, EtcdTypes
  <1>3. ASSUME NEW c \in Etcd!Callers, Etcd!NoSession(c)
        PROVE  \A p \in Procs : Etcd!Of(p)' \subseteq Etcd!Of(p) \cup {0}
    BY <1>0, <1>3 DEF Etcd!Of, Etcd!NoSession, EtcdTypes
  <1>4. ASSUME NEW q \in Procs, Etcd!RetryEnds(q) \/ Etcd!Close(q)
        PROVE  \A p \in Procs : Etcd!Of(p)' \subseteq Etcd!Of(p) \cup {0}
    BY <1>0, <1>4 DEF Etcd!Of, Etcd!RetryEnds, Etcd!Close, EtcdTypes
  <1>5. ASSUME NEW q \in Procs, Etcd!Restart(q)
        PROVE  \A p \in Procs : Etcd!Of(p)' \subseteq Etcd!Of(p) \cup {0}
    BY <1>0, <1>5 DEF Etcd!Of, Etcd!Restart, EtcdTypes
  <1>6. ASSUME UNCHANGED <<using, cur, retry>>
        PROVE  \A p \in Procs : Etcd!Of(p)' \subseteq Etcd!Of(p) \cup {0}
    BY <1>6 DEF Etcd!Of
  <1>7. ASSUME NEW c \in Etcd!Callers, Etcd!EnsureSession(c)  PROVE EtcdOwned'
    <2>1. CASE Etcd!ReuseSession(c)
      <3>1. \A p \in Procs : Etcd!Of(p)' \subseteq Etcd!Of(p) \cup {0}
        BY <1>0, <1>7, <2>1 DEF Etcd!Of, Etcd!EnsureSession, Etcd!ReuseSession, EtcdTypes
      <3> QED BY <1>a, <2>1, <3>1 DEF Etcd!ReuseSession
    <2>2. CASE Etcd!OpenSession(c)
      <3>1. \A p \in Procs : /\ p # c[1] => Etcd!Of(p)' \subseteq Etcd!Of(p)
                             /\ Etcd!Of(p)' \subseteq Etcd!Of(p) \cup {opened + 1}
        BY <1>0, <1>7, <2>2 DEF Etcd!Of, Etcd!EnsureSession, Etcd!OpenSession, EtcdTypes
      <3>2. \A p \in Procs : \A s \in Etcd!Of(p) : s \in Nat
        BY <1>0 DEF Etcd!Of, EtcdTypes
      <3> QED BY SMTT(30), <1>0, <2>2, <3>1, <3>2 DEF Etcd!OpenSession, EtcdOwned, EtcdTypes
    <2> QED BY <1>7, <2>1, <2>2 DEF Etcd!EnsureSession
  <1>8. CASE UNCHANGED <<using, cur, retry, opened>>
    BY <1>6, <1>8, <1>a
  <1>9. ASSUME NEW c \in Etcd!Callers,
               Etcd!Release(c) \/ Etcd!CommitUnanswered(c) \/ Etcd!NoSession(c)
        PROVE  EtcdOwned'
    BY <1>1, <1>2, <1>3, <1>9, <1>a DEF Etcd!Release, Etcd!CommitUnanswered, Etcd!NoSession
  <1>10. ASSUME NEW p \in Procs, Etcd!RetryEnds(p) \/ Etcd!Close(p) \/ Etcd!Restart(p)
         PROVE  EtcdOwned'
    BY <1>4, <1>5, <1>10, <1>a DEF Etcd!RetryEnds, Etcd!Close, Etcd!Restart
  <1> QED
    BY <1>7, <1>8, <1>9, <1>10
       DEF Etcd!Next, Etcd!vars, Etcd!Unlock, Etcd!LockFails, Etcd!RetryUnanswered, Etcd!TakeLocal,
           Etcd!TryAcquire, Etcd!Granted, Etcd!KeepaliveStops, Etcd!LeaseExpires

\* Two callers with one session are one.
LEMMA EtcdApart ==
  ASSUME Crowded \subseteq Procs, EtcdLocal, EtcdOwned,
         NEW c \in Etcd!Callers, NEW d \in Etcd!Callers, using[c] = using[d], using[c] # 0
  PROVE  c = d
  <1>1. c[1] \in Procs /\ d[1] \in Procs
    BY DEF Etcd!Callers
  <1>2. using[c] \in Etcd!Of(c[1]) \cap Etcd!Of(d[1])
    BY DEF Etcd!Of
  <1> QED BY <1>1, <1>2 DEF EtcdLocal, EtcdOwned

\* A holder's key stays the oldest: later keys queue behind it, and no other caller has
\* its session.
LEMMA EtcdOldestStep ==
  ASSUME Crowded \subseteq Procs, EtcdInv, [Etcd!Next]_(Etcd!vars)
  PROVE  EtcdOldest'
  <1> USE DEF EtcdInv
  <1>0. \A c \in Etcd!Callers : pc'[c] = "hold" => UNCHANGED <<pc[c], using[c]>> \/ Etcd!Granted(c)
    <2>1. ASSUME NEW c \in Etcd!Callers, NEW d \in Etcd!Callers, Etcd!Release(d), pc'[c] = "hold"
          PROVE  UNCHANGED <<pc[c], using[c]>>
      BY <2>1 DEF Etcd!Release, EtcdTypes
    <2>2. ASSUME NEW c \in Etcd!Callers, NEW d \in Etcd!Callers, pc'[c] = "hold",
                 \/ Etcd!TakeLocal(d) \/ Etcd!EnsureSession(d) \/ Etcd!NoSession(d)
                 \/ Etcd!TryAcquire(d) \/ Etcd!CommitUnanswered(d)
          PROVE  UNCHANGED <<pc[c], using[c]>>
      BY <2>2 DEF EtcdTypes, Etcd!TakeLocal, Etcd!EnsureSession, Etcd!ReuseSession,
         Etcd!OpenSession,
         Etcd!NoSession, Etcd!TryAcquire, Etcd!CommitUnanswered
    <2>3. ASSUME NEW c \in Etcd!Callers, NEW d \in Etcd!Callers, pc'[c] = "hold", Etcd!Granted(d)
          PROVE  UNCHANGED <<pc[c], using[c]>> \/ Etcd!Granted(c)
      BY <2>1, <2>3 DEF EtcdTypes, Etcd!Granted
    <2>4. ASSUME NEW c \in Etcd!Callers, NEW p \in Procs, pc'[c] = "hold", Etcd!Restart(p)
          PROVE  UNCHANGED <<pc[c], using[c]>>
      BY <2>4 DEF EtcdTypes, Etcd!Restart
    <2> QED
      BY <2>1, <2>2, <2>3, <2>4
         DEF Etcd!Next, Etcd!vars, Etcd!Unlock, Etcd!LockFails, Etcd!RetryEnds, Etcd!RetryUnanswered,
             Etcd!Close, Etcd!KeepaliveStops, Etcd!LeaseExpires
  <1> SUFFICES ASSUME NEW c \in Etcd!Callers, pc'[c] = "hold", using'[c] \in DOMAIN queue'
               PROVE  queue'[using'[c]] = {}
    BY DEF EtcdOldest
  <1>1. CASE pc[c] = "hold" /\ using'[c] = using[c]
    <2>1. CASE KeysStay
      BY <1>1, <2>1 DEF KeysStay, EtcdOldest
    <2>2. ASSUME NEW s, Removed(s)  PROVE queue'[using'[c]] = {}
      BY <1>1, <2>2 DEF Removed, Etcd!Without, EtcdOldest
    <2>3. ASSUME NEW d \in Etcd!Callers, pc[d] = "lock", Added(using[d])
          PROVE  queue'[using'[c]] = {}
      <3>1. using[c] # using[d]
        BY <1>1, <2>3, EtcdApart DEF EtcdLocal
      <3> QED BY <1>1, <2>3, <3>1 DEF Added, Etcd!With, EtcdOldest
    <2> QED BY <2>1, <2>2, <2>3, EtcdKeysMove
  <1>2. CASE Etcd!Granted(c)
    BY <1>2 DEF Etcd!Granted, Etcd!Release, Etcd!server, EtcdTypes
  <1> QED BY <1>0, <1>1, <1>2

\* Every step preserves the invariant of the etcd tier.
LEMMA EtcdInvariant ==
  ASSUME Crowded \subseteq Procs, EtcdInv, [Etcd!Next]_(Etcd!vars)  PROVE EtcdInv'
  BY EtcdTypesStep, EtcdKeysStep, EtcdKeysMove, EtcdLocalStep, EtcdOwnedStep, EtcdOldestStep
     DEF EtcdInv

\* A step of the lock is a grant, a lapse or a release of the abstract one, or
\* changes nothing there.
LEMMA EtcdStep ==
  ASSUME Crowded \subseteq Procs, EtcdInv, [Etcd!Next]_(Etcd!vars)
  PROVE  [EtcdMutex!Next]_(EtcdMutex!vars)
  <1> USE DEF EtcdInv
  <1>0. ASSUME NEW c \in Etcd!Callers,
               EtcdMutex!Grant(c) \/ EtcdMutex!Lapse(c) \/ EtcdMutex!Release(c)
        PROVE  EtcdMutex!Next
    BY <1>0 DEF EtcdMutex!Next, EtcdMutex!Grant, EtcdMutex!Lapse, EtcdMutex!Release
  <1>1. ASSUME Etcd!Holders' = Etcd!Holders, \A c \in Etcd!Holders : using'[c] = using[c]
        PROVE  [EtcdMutex!Next]_(EtcdMutex!vars)
    <2>1. CASE KeysStay
      BY <1>1, <2>1 DEF KeysStay, EtcdMutex!vars, Etcd!Lapsed
    <2>2. ASSUME NEW s, Removed(s)  PROVE [EtcdMutex!Next]_(EtcdMutex!vars)
      <3>1. CASE \A c \in Etcd!Holders : using[c] # s \/ s \notin DOMAIN queue
        BY <1>1, <2>2, <3>1 DEF Removed, Etcd!Without, EtcdMutex!vars, Etcd!Lapsed
      <3>2. ASSUME NEW c \in Etcd!Holders, using[c] = s, s \in DOMAIN queue
            PROVE  EtcdMutex!Lapse(c)
        <4>1. \A d \in Etcd!Holders : using[d] = s => d = c
          BY <3>2, EtcdApart DEF Etcd!Holders, EtcdLocal
        <4> QED BY <1>1, <2>2, <3>2, <4>1 DEF Removed, Etcd!Without, EtcdMutex!Lapse, Etcd!Lapsed
      <3> QED BY <1>0, <3>1, <3>2 DEF Etcd!Holders
    <2>3. ASSUME NEW d \in Etcd!Callers, pc[d] = "lock", Added(using[d])
          PROVE  UNCHANGED EtcdMutex!vars
      <3>1. \A c \in Etcd!Holders : using[c] # using[d]
        BY <2>3, EtcdApart DEF Etcd!Holders, EtcdLocal
      <3> QED BY <1>1, <2>3, <3>1 DEF Added, Etcd!With, EtcdMutex!vars, Etcd!Lapsed
    <2> QED BY <2>1, <2>2, <2>3, EtcdKeysMove
  <1>2. ASSUME NEW c \in Etcd!Callers, Etcd!Unlock(c)  PROVE EtcdMutex!Release(c)
    <2>1. \A d \in Etcd!Holders \ {c} : using[d] # using[c]
      BY <1>2, EtcdApart DEF Etcd!Holders, EtcdLocal, Etcd!Unlock
    <2> QED
      BY <1>2, <2>1 DEF Etcd!Unlock, Etcd!Release, Etcd!Deleted, Etcd!NotDeleted, Etcd!Without,
         EtcdMutex!Release, Etcd!Holders, Etcd!Lapsed, EtcdTypes
  <1>3. ASSUME NEW c \in Etcd!Callers, Etcd!Granted(c), using[c] \in renewing
        PROVE  EtcdMutex!Grant(c)
    <2>1. \A d \in Etcd!Holders : using[d] \notin DOMAIN queue
      BY <1>3, EtcdApart DEF Etcd!Granted, Etcd!Holders, EtcdLocal, EtcdKeys, EtcdOldest
    <2> QED
      BY <1>3, <2>1
         DEF Etcd!Granted, Etcd!server, EtcdMutex!Grant, Etcd!Holders, Etcd!Lapsed, EtcdTypes
  <1>4. ASSUME NEW c \in Etcd!Callers,
               \/ Etcd!TakeLocal(c) \/ Etcd!EnsureSession(c) \/ Etcd!NoSession(c)
               \/ Etcd!TryAcquire(c) \/ Etcd!CommitUnanswered(c)
        PROVE  Etcd!Holders' = Etcd!Holders /\ \A d \in Etcd!Holders : using'[d] = using[d]
    BY <1>4 DEF Etcd!TakeLocal, Etcd!EnsureSession, Etcd!ReuseSession, Etcd!OpenSession,
       Etcd!NoSession,
       Etcd!TryAcquire, Etcd!CommitUnanswered, Etcd!Holders, EtcdTypes
  <1>5. ASSUME NEW c \in Etcd!Callers, Etcd!Release(c), pc[c] # "hold"
        PROVE  Etcd!Holders' = Etcd!Holders /\ \A d \in Etcd!Holders : using'[d] = using[d]
    BY <1>5 DEF Etcd!Release, Etcd!Holders, EtcdTypes
  <1>6. ASSUME NEW p \in Procs, Etcd!Restart(p)
        PROVE  UNCHANGED EtcdMutex!vars \/ \E c \in Etcd!Holders : EtcdMutex!Release(c)
    <2>1. ASSUME NEW c \in Etcd!Holders, c[1] = p  PROVE EtcdMutex!Release(c)
      <3>1. \A d \in Etcd!Holders : d[1] = p => d = c
        BY <2>1 DEF Etcd!Holders, EtcdLocal
      <3> QED
        BY <1>6, <2>1, <3>1
           DEF Etcd!Restart, Etcd!server, EtcdMutex!Release, Etcd!Holders, Etcd!Lapsed
    <2>2. CASE \A c \in Etcd!Holders : c[1] # p
      BY <1>6, <2>2 DEF Etcd!Restart, Etcd!server, EtcdMutex!vars, Etcd!Holders, Etcd!Lapsed
    <2> QED BY <2>1, <2>2
  <1>7. ASSUME UNCHANGED <<pc, using>>
        PROVE  Etcd!Holders' = Etcd!Holders /\ \A d \in Etcd!Holders : using'[d] = using[d]
    BY <1>7 DEF Etcd!Holders
  <1>8. Etcd!Holders \subseteq Etcd!Callers
    BY DEF Etcd!Holders
  <1>9. ASSUME NEW c \in Etcd!Callers, Etcd!Granted(c)  PROVE [EtcdMutex!Next]_(EtcdMutex!vars)
    BY <1>0, <1>1, <1>3, <1>5, <1>9 DEF Etcd!Granted
  <1>10. ASSUME NEW c \in Etcd!Callers, Etcd!LockFails(c)  PROVE [EtcdMutex!Next]_(EtcdMutex!vars)
    BY <1>1, <1>5, <1>10 DEF Etcd!LockFails
  <1>11. CASE UNCHANGED <<pc, using>>
    BY <1>1, <1>7, <1>11
  <1> QED
    BY <1>0, <1>1, <1>2, <1>4, <1>6, <1>8, <1>9, <1>10, <1>11
       DEF Etcd!Next, Etcd!vars, Etcd!RetryEnds, Etcd!RetryUnanswered, Etcd!Close, Etcd!KeepaliveStops,
           Etcd!LeaseExpires

\* The etcd tier implements the abstract lock: nobody is granted it while a grant that
\* has not lapsed lasts (EtcdBackend.AcquireLock).
THEOREM EtcdImplementsMutex == ASSUME Crowded \subseteq Procs PROVE Etcd!Spec => EtcdMutex!Spec
  BY EtcdInit, EtcdInvariant, EtcdStep, PTL DEF Etcd!Spec, EtcdMutex!Spec

\* A lock key that was committed stays as long as its lease, until its caller is done.
EtcdKept ==
  \A c \in Etcd!Callers :
    pc[c] \in {"wait", "hold"} /\ using[c] \in leases => using[c] \in DOMAIN queue

\* Every step leaves committed keys alone: a retried release is another session's, or
\* the local mutex keeps the process from having a new key.
LEMMA EtcdKeptStep ==
  ASSUME Crowded \subseteq Procs, EtcdInv, EtcdKept, [Etcd!Next]_(Etcd!vars)  PROVE EtcdKept'
  <1>0. \A c \in Etcd!Callers : c[1] \in Procs
    BY DEF Etcd!Callers
  <1> USE DEF EtcdInv, EtcdKept, EtcdTypes
  <1>1. ASSUME NEW c \in Etcd!Callers, Etcd!TakeLocal(c) \/ Etcd!NoSession(c)  PROVE EtcdKept'
    BY <1>1 DEF Etcd!TakeLocal, Etcd!NoSession, Etcd!server
  <1>2. ASSUME NEW c \in Etcd!Callers, Etcd!EnsureSession(c)  PROVE EtcdKept'
    <2>1. \A d \in Etcd!Callers : using[d] <= opened
      BY SMTT(30), <1>0 DEF EtcdOwned, Etcd!Of
    <2> QED BY SMTT(30), <1>2, <2>1 DEF Etcd!EnsureSession, Etcd!ReuseSession, Etcd!OpenSession
  <1>3. ASSUME NEW c \in Etcd!Callers, Etcd!TryAcquire(c)  PROVE EtcdKept'
    BY <1>3 DEF Etcd!TryAcquire, Etcd!With
  <1>4. ASSUME NEW c \in Etcd!Callers, Etcd!CommitUnanswered(c)  PROVE EtcdKept'
    BY <1>4 DEF Etcd!CommitUnanswered, Etcd!With
  <1>5. ASSUME NEW c \in Etcd!Callers, Etcd!Release(c), pc[c] \in {"lock", "wait", "hold"}
        PROVE  EtcdKept'
    <2>1. \A d \in Etcd!Callers : pc[d] \in {"wait", "hold"} /\ d # c => using[d] # using[c]
      BY <1>5, EtcdApart DEF EtcdLocal
    <2> QED BY <1>5, <2>1 DEF Etcd!Release, Etcd!Deleted, Etcd!NotDeleted, Etcd!Without
  <1>6. ASSUME NEW c \in Etcd!Callers, Etcd!Granted(c)  PROVE EtcdKept'
    BY <1>5, <1>6 DEF Etcd!Granted, Etcd!server
  <1>7. ASSUME NEW p \in Procs, Etcd!RetryEnds(p) \/ Etcd!RetryUnanswered(p)  PROVE EtcdKept'
    <2>1. \A c \in Etcd!Callers : pc[c] \in {"wait", "hold"} => using[c] # retry[p]
      <3> SUFFICES ASSUME NEW c \in Etcd!Callers, pc[c] \in {"wait", "hold"}, using[c] = retry[p]
                   PROVE  FALSE
        OBVIOUS
      <3>1. retry[p] # 0 /\ c[1] # p
        BY <1>7, <1>0 DEF Etcd!RetryEnds, Etcd!RetryUnanswered, EtcdLocal
      <3>2. using[c] \in Etcd!Of(c[1]) \cap Etcd!Of(p)
        BY DEF Etcd!Of
      <3> QED BY <1>0, <3>1, <3>2 DEF EtcdOwned
    <2> QED BY SMTT(30), <1>7, <2>1 DEF Etcd!RetryEnds, Etcd!RetryUnanswered, Etcd!Without
  <1>8. ASSUME NEW p \in Procs, Etcd!Close(p)  PROVE EtcdKept'
    BY <1>8 DEF Etcd!Close, Etcd!Drop, Etcd!Without, Etcd!server
  <1>9. ASSUME NEW p \in Procs, Etcd!Restart(p)  PROVE EtcdKept'
    BY <1>9 DEF Etcd!Restart, Etcd!server
  <1>10. ASSUME NEW s \in Etcd!Sessions, Etcd!LeaseExpires(s)  PROVE EtcdKept'
    BY <1>10 DEF Etcd!LeaseExpires, Etcd!Drop, Etcd!Without
  <1>11. CASE UNCHANGED <<pc, using, leases, queue>>
    BY <1>11
  <1> QED
    BY <1>1, <1>2, <1>3, <1>4, <1>5, <1>6, <1>7, <1>8, <1>9, <1>10, <1>11
       DEF Etcd!Next, Etcd!vars, Etcd!Unlock, Etcd!LockFails, Etcd!KeepaliveStops, Etcd!server

\* No release, retried or late, deletes the key of a lock that is held on a lease the
\* server still has (etcdUnlocker, retryRelease).
THEOREM EtcdRetrySpares ==
  ASSUME Crowded \subseteq Procs PROVE Etcd!Spec => []Etcd!RetrySparesHeldLock
  <1>1. Etcd!Init => EtcdKept
    BY DEF Etcd!Init, EtcdKept
  <1>2. EtcdKept => Etcd!RetrySparesHeldLock
    BY DEF EtcdKept, Etcd!RetrySparesHeldLock, Etcd!Lapsed, Etcd!Holders
  <1> QED BY <1>1, <1>2, EtcdInit, EtcdInvariant, EtcdKeptStep, PTL DEF Etcd!Spec

-----------------------------------------------------------------------------
(* The same-host tier *)

Host == INSTANCE HostLock

HostMutex == INSTANCE Mutex WITH
  Owners <- Host!Callers, holders <- Host!Holders, lapsed <- {}

\* One goroutine of a process at a time is past the process-local mutex.
HostLocal ==
  /\ pc \in [Host!Callers -> {"idle", "local", "open", "hold"}]
  /\ \A c \in Host!Callers : pc[c] # "idle" => c[1] \in local
  /\ \A c, d \in Host!Callers : pc[c] # "idle" /\ pc[d] # "idle" /\ c[1] = d[1] => c = d

\* Whoever has the lock file open has the one at the lock's path, and a holder has
\* it locked.
HostFile ==
  /\ fd \in [Host!Callers -> Nat]
  /\ path \in Nat /\ files \in Nat
  /\ \A c \in Host!Callers : pc[c] \in {"open", "hold"} => fd[c] = path /\ path # 0
  /\ \A c \in Host!Callers : pc[c] = "hold" => c \in flocked

\* An instance that is up holds the instance lock, and a process with the store
\* open belongs to one that is up or was left behind by its launcher.
HostInstances ==
  /\ launched \subseteq instance
  /\ \A i, j \in instance : i = j
  /\ \A p \in open : p[1] \in launched \cup orphaned

\* A host nobody uses yet satisfies the invariant, and is the free abstract lock.
LEMMA HostInit == Host!Init => HostLocal /\ HostFile /\ HostInstances /\ HostMutex!Init
  BY SMTT(30) DEF Host!Init, HostLocal, HostFile, HostInstances, HostMutex!Init, Host!Holders

\* Every step keeps one goroutine of a process past its local mutex (fileLocks.acquire).
LEMMA HostLocalStep == ASSUME HostLocal, [Host!Next]_(Host!vars) PROVE HostLocal'
  <1> USE DEF HostLocal
  <1>1. ASSUME NEW p \in Host!Procs, Host!Die(p)  PROVE HostLocal'
    BY <1>1 DEF Host!Die
  <1>2. ASSUME NEW c \in Host!Callers, Host!TakeLocal(c)  PROVE HostLocal'
    BY <1>2 DEF Host!TakeLocal
  <1>3. ASSUME NEW c \in Host!Callers, Host!OpenFile(c) \/ Host!TryLock(c)  PROVE HostLocal'
    BY <1>3 DEF Host!OpenFile, Host!TryLock
  <1>4. ASSUME NEW c \in Host!Callers, Host!Close(c), pc[c] # "idle"  PROVE HostLocal'
    BY <1>4 DEF Host!Close
  <1>5. CASE UNCHANGED <<local, pc>>
    BY <1>5
  <1> QED
    BY <1>1, <1>2, <1>3, <1>4, <1>5
       DEF Host!Next, Host!vars, Host!Launch, Host!Leave, Host!LauncherDies, Host!Open, Host!CloseStore,
           Host!AcquireFails, Host!Unlock

\* Every step keeps the file at the path the one that is open: nobody unlinks it
\* (fileUnlocker.Unlock).
LEMMA HostFileStep == ASSUME Flock, HostLocal, HostFile, [Host!Next]_(Host!vars) PROVE HostFile'
  <1> USE DEF HostLocal, HostFile
  <1>1. ASSUME NEW p \in Host!Procs, Host!Die(p)  PROVE HostFile'
    BY <1>1 DEF Host!Die
  <1>2. ASSUME NEW c \in Host!Callers, Host!TakeLocal(c)  PROVE HostFile'
    BY <1>2 DEF Host!TakeLocal
  <1>3. ASSUME NEW c \in Host!Callers, Host!OpenFile(c)  PROVE HostFile'
    BY SMTT(30), <1>3 DEF Host!OpenFile
  <1>4. ASSUME NEW c \in Host!Callers, Host!TryLock(c)  PROVE HostFile'
    BY <1>4 DEF Host!TryLock
  <1>5. ASSUME NEW c \in Host!Callers, Host!Close(c), UNCHANGED path  PROVE HostFile'
    BY <1>5 DEF Host!Close
  <1>6. CASE UNCHANGED <<pc, fd, path, files, flocked>>
    BY <1>6
  <1> QED
    BY <1>1, <1>2, <1>3, <1>4, <1>5, <1>6
       DEF Host!Next, Host!vars, Host!Launch, Host!Leave, Host!LauncherDies, Host!Open, Host!CloseStore,
           Host!AcquireFails, Host!Unlock

\* Every step keeps the instance lock with the instances that are up (AcquireInstanceLock).
LEMMA HostInstancesStep == ASSUME Flock, HostInstances, [Host!Next]_(Host!vars) PROVE HostInstances'
  <1> USE DEF HostInstances
  <1>1. ASSUME NEW i \in Instances, Host!Launch(i)  PROVE HostInstances'
    BY <1>1 DEF Host!Launch
  <1>2. ASSUME NEW i \in Instances, Host!Leave(i)  PROVE HostInstances'
    BY <1>2 DEF Host!Leave
  <1>3. ASSUME NEW i \in Instances, Host!LauncherDies(i)  PROVE HostInstances'
    BY <1>3 DEF Host!LauncherDies
  <1>4. ASSUME NEW p \in Host!Procs, Host!Open(p) \/ Host!CloseStore(p)  PROVE HostInstances'
    BY <1>4 DEF Host!Open, Host!CloseStore
  <1>5. ASSUME NEW p \in Host!Procs, Host!Die(p)  PROVE HostInstances'
    BY <1>5 DEF Host!Die
  <1>6. CASE UNCHANGED Host!instances
    BY <1>6 DEF Host!instances
  <1> QED
    BY <1>1, <1>2, <1>3, <1>4, <1>5, <1>6
       DEF Host!Next, Host!vars, Host!TakeLocal, Host!OpenFile, Host!TryLock, Host!AcquireFails,
           Host!Unlock, Host!Close

\* A step of the lock is a grant or a release of the abstract one, or changes nothing
\* there: flock(2) never lapses.
LEMMA HostStep ==
  ASSUME Flock, HostLocal, HostFile, [Host!Next]_(Host!vars)
  PROVE  [HostMutex!Next]_(HostMutex!vars)
  <1> USE DEF HostLocal, Host!Holders
  <1>0. ASSUME NEW c \in Host!Callers, HostMutex!Grant(c) \/ HostMutex!Release(c)
        PROVE  HostMutex!Next
    BY <1>0 DEF HostMutex!Next, HostMutex!Grant, HostMutex!Release
  <1>1. ASSUME NEW c \in Host!Callers, Host!TryLock(c)  PROVE HostMutex!Grant(c)
    BY <1>1 DEF Host!TryLock, HostMutex!Grant, HostFile
  <1>2. ASSUME NEW c \in Host!Callers, Host!Unlock(c)  PROVE HostMutex!Release(c)
    BY <1>2 DEF Host!Unlock, Host!Close, HostMutex!Release
  <1>3. ASSUME NEW p \in Host!Procs, Host!Die(p)
        PROVE  UNCHANGED HostMutex!vars \/ \E c \in Host!Holders : HostMutex!Release(c)
    <2>1. ASSUME NEW c \in Host!Holders, c[1] = p  PROVE HostMutex!Release(c)
      <3>1. \A d \in Host!Holders : d[1] = p => d = c
        BY <2>1
      <3> QED BY <1>3, <2>1, <3>1 DEF Host!Die, HostMutex!Release
    <2>2. CASE \A c \in Host!Holders : c[1] # p
      BY <1>3, <2>2 DEF Host!Die, HostMutex!vars
    <2> QED BY <2>1, <2>2
  <1>4. ASSUME NEW c \in Host!Callers, Host!TakeLocal(c) \/ Host!OpenFile(c) \/ Host!AcquireFails(c)
        PROVE  UNCHANGED HostMutex!vars
    BY <1>4 DEF Host!TakeLocal, Host!OpenFile, Host!AcquireFails, Host!Close, HostMutex!vars
  <1>5. CASE UNCHANGED pc
    BY <1>5 DEF HostMutex!vars
  <1>6. Host!Holders \subseteq Host!Callers
    OBVIOUS
  <1> QED
    BY <1>0, <1>1, <1>2, <1>3, <1>4, <1>5, <1>6
       DEF Host!Next, Host!vars, Host!Launch, Host!Leave, Host!LauncherDies, Host!Open, Host!CloseStore

\* Where there is flock(2) the same-host tier implements the abstract lock, and no grant
\* lapses (fileLocks.acquire).
THEOREM HostImplementsMutex == ASSUME Flock PROVE Host!Spec => HostMutex!Spec
  BY HostInit, HostLocalStep, HostFileStep, HostStep, PTL DEF Host!Spec, HostMutex!Spec

\* While an instance holds the instance lock, only processes that a killed launcher
\* left behind share the store with it (AcquireInstanceLock, holdInstanceLock).
THEOREM HostOneInstance == ASSUME Flock PROVE Host!Spec => []Host!OneInstance
  <1>1. HostInstances => Host!OneInstance
    BY DEF HostInstances, Host!OneInstance
  <1> QED BY <1>1, HostInit, HostInstancesStep, PTL DEF Host!Spec

\* WithLock excludes the goroutines of one process with or without flock(2)
\* (fileLocks.acquire, localNamedLock).
THEOREM HostExcludesInProcess == Host!Spec => []Host!ExcludesInProcess
  <1>1. HostLocal => Host!ExcludesInProcess
    BY DEF HostLocal, Host!ExcludesInProcess, Host!Holders
  <1> QED BY <1>1, HostInit, HostLocalStep, PTL DEF Host!Spec
=============================================================================
