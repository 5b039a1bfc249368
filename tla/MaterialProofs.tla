--------------------------- MODULE MaterialProofs ---------------------------
(***************************************************************************)
(* What becomes of the CA's own material, for every value of the           *)
(* constants: what the file backend keeps through failed calls, kills and  *)
(* power losses, that one CA comes to be, that a rebuilt integrity value   *)
(* is earned, and that a migration is faithful.  A name that two           *)
(* components share is declared once.                                      *)
(***************************************************************************)
EXTENDS FileStore, TLAPS

\* Zenon proves what names no other prover.
USE ZenonT(60)

-----------------------------------------------------------------------------
(* The file backend *)

Writes ==
  [pc : {"idle", "clear", "temp", "rename", "dirsync", "flush", "mac", "macsync"},
   key : KeyValues \cup {Absent}, at : {"top", "legacy"}, synced : BOOLEAN, n : Nat]

Reads ==
  [pc : {"idle", "top?", "top", "legacy?", "legacy", "file?", "file", "key", "absent",
         "conflict", "broken"},
   at : {"top", "legacy"}, data : KeyValues \cup {Absent},
   from : KeyValues \cup {Absent, Conflict}]

\* What the proofs need of the types.
DiskTypes ==
  /\ dir \in left /\ sunk = dir
  /\ \A d \in left : DOMAIN d = Files
  /\ inv \in Seq({"line", "part"}) /\ flushed \in 0..Len(inv)
  /\ write \in Writes /\ get \in Reads /\ trusted \in BOOLEAN /\ short \in Nat

\* The keys: every directory that a power loss may leave answers with what a reader
\* may be given, and the write of a key has cleared the way for it.
DiskKeys ==
  /\ \A d \in left : Answer(d) \in may
  /\ \A d \in left : d["top"] \in KeyValues \cup {Absent, Link}
                     /\ d["legacy"] \in KeyValues \cup {Absent}
  /\ write.pc \in {"clear", "temp", "rename", "dirsync"} =>
       write.key \in KeyValues /\ ~checkCAKeyConflict(dir) /\ write.at = caKeyLocation(dir)
  /\ write.pc \in {"temp", "rename", "dirsync"} =>
       dir[IF write.at = "top" THEN "legacy" ELSE "top"] = Absent
  /\ write.pc = "rename" => write.synced
  /\ write.pc = "dirsync" => dir[write.at] = write.key

\* A reader that began when there was a key: it still looks where the key is, and
\* it has read nothing that the other copy can contradict.
DiskGet ==
  get.from \in KeyValues /\ get.pc # "idle" =>
    /\ get.pc \notin {"absent", "conflict"}
    /\ Answer(dir) \in KeyValues /\ get.at = caKeyLocation(dir)
    /\ get.pc \in {"top", "legacy?", "legacy", "broken"} => get.at = "top"
    /\ get.pc \in {"legacy?", "legacy"} => ~Differ(get.data, dir["legacy"])
    /\ get.pc \in {"legacy?", "legacy", "key"} => get.data \in KeyValues
    /\ get.pc = "broken" => dir["legacy"] = Absent

\* The inventory, as long as no line was cut short: only its last piece may be
\* part of a line, and then no server runs on it.
DiskLines ==
  /\ write.pc \in {"flush", "mac", "macsync"} => trusted /\ write.n = Len(inv) /\ Len(inv) > 0
  /\ write.pc \in {"mac", "macsync"} => flushed = Len(inv)
  /\ short = 0 =>
       /\ \A i \in 1..(Len(inv) - 1) : inv[i] = "line"
       /\ trusted => \A i \in 1..Len(inv) : inv[i] = "line"
       /\ acked \subseteq {i \in 1..flushed : inv[i] = "line"}
       /\ \A d \in left : \A i \in DOMAIN d["mac"] : d["mac"][i] = "line"

\* Together.
DiskInv == DiskTypes /\ DiskKeys /\ DiskGet /\ DiskLines

\* A failed call, a kill or a power loss between any two system calls, in any order
\* and number, leaves a CA key to read, or the one being written, and every entry
\* that was appended, unless a line was cut short (AtomicWriteFile, FilesystemBackend.Put,
\* AppendInventoryRecord).  A reader in another process that began with a key there
\* gets a key, or fails on the copy a writer took away under it and finds the key
\* when it asks again (FilesystemBackend.Get, checkCAKeyConflict).
THEOREM DiskSurvives == Spec => []FilesSurviveFailures
<1> USE KeyAssumption DEF Absent, Empty, Link, Conflict, Files
<1>a. ASSUME NEW S, NEW s \in Seq(S), NEW m \in 0..Len(s)
      PROVE  /\ SubSeq(s, 1, m) \in Seq(S) /\ Len(SubSeq(s, 1, m)) = m
             /\ \A i \in 1..m : SubSeq(s, 1, m)[i] = s[i]
  BY ONLY SMTT(30)
<1>b. ASSUME NEW S, NEW s \in Seq(S), NEW x \in S
      PROVE  /\ Append(s, x) \in Seq(S) /\ Len(Append(s, x)) = Len(s) + 1
             /\ \A i \in 1..Len(s) : Append(s, x)[i] = s[i]
             /\ Append(s, x)[Len(s) + 1] = x
  BY ONLY SMTT(30)
<1>c. NoOp \in Writes /\ NoOp.pc = "idle" /\ NoGet \in Reads /\ NoGet.pc = "idle"
  BY DEF NoOp, NoGet, Writes, Reads
<1>d. ASSUME NEW r \in Writes, NEW p \in {"temp", "rename", "dirsync", "mac", "macsync"}
      PROVE  /\ [r EXCEPT !.pc = p] \in Writes /\ [r EXCEPT !.pc = p].pc = p
             /\ [r EXCEPT !.pc = p].key = r.key /\ [r EXCEPT !.pc = p].at = r.at
             /\ [r EXCEPT !.pc = p].synced = r.synced /\ [r EXCEPT !.pc = p].n = r.n
  BY ONLY ZenonT(60) DEF Writes
<1>1. Init => DiskInv
  <2> SUFFICES ASSUME Init PROVE DiskInv
    OBVIOUS
  <2>1. DiskTypes
    BY SMTT(30), <1>c DEF DiskTypes, Init
  <2>2. DiskKeys
    BY DEF DiskKeys, Init, NoOp
  <2>3. DiskGet
    BY DEF DiskGet, Init, NoGet
  <2>4. DiskLines
    BY SMTT(30) DEF DiskLines, Init, NoOp
  <2> QED BY <2>1, <2>2, <2>3, <2>4 DEF DiskInv
<1>2. ASSUME DiskInv, Put PROVE DiskInv'
  <2> USE <1>2 DEF keyFiles, records, Put, NoOp
  <2>0. caKeyLocation(dir) \in {"top", "legacy"}
    BY DEF caKeyLocation
  <2>1. DiskTypes'
    <3>1. ASSUME NEW k \in KeyValues
          PROVE  [pc |-> "clear", key |-> k, at |-> caKeyLocation(dir), synced |-> FALSE, n |-> 0]
                   \in Writes
      BY ONLY ZenonT(60), <2>0 DEF Writes
    <3>2. write' \in Writes
      BY ONLY ZenonT(60), <1>2, <1>c, <3>1 DEF Put
    <3> QED BY ONLY ZenonT(60), <1>2, <3>2 DEF DiskInv, DiskTypes, keyFiles, records, Put
  <2>2. DiskKeys'
    BY SMTT(30)
       DEF DiskInv, DiskTypes, DiskKeys, checkCAKeyConflict, caKeyLocation, Answer
  <2>3. DiskGet'
    BY DEF DiskInv, DiskGet
  <2>4. DiskLines'
    BY SMTT(30) DEF DiskInv, DiskTypes, DiskLines
  <2> QED BY <2>1, <2>2, <2>3, <2>4 DEF DiskInv
<1>3. ASSUME DiskInv, removeLegacyCAKeyCopy PROVE DiskInv'
  <2> USE <1>3 DEF keyFiles, records, removeLegacyCAKeyCopy, Change
  <2>1. DiskTypes'
    BY SMTT(30) DEF DiskInv, DiskTypes, Writes
  <2>2. DiskKeys'
    BY SMTT(30)
       DEF DiskInv, DiskTypes, DiskKeys, checkCAKeyConflict, caKeyLocation,
       Answer, Differ
  <2>3. DiskGet'
    BY DEF DiskInv, DiskTypes, DiskGet, DiskKeys, checkCAKeyConflict, caKeyLocation,
       Answer, Differ
  <2>4. DiskLines'
    <3>1. \A d \in left' : \E c \in left : d["mac"] = c["mac"]
      BY SMTT(30) DEF DiskInv, DiskTypes
    <3>2. write'.pc = "temp"
      BY SMTT(30) DEF DiskInv, DiskTypes
    <3> QED BY ONLY SMTT(30), <1>3, <3>1, <3>2
               DEF DiskInv, DiskLines, records, removeLegacyCAKeyCopy
  <2> QED BY <2>1, <2>2, <2>3, <2>4 DEF DiskInv
<1>4. ASSUME DiskInv, PowerLoss PROVE DiskInv'
  <2> USE <1>4 DEF NoOp, NoGet
  <2>1. PICK m \in flushed..Len(inv) :
          \/ inv' = SubSeq(inv, 1, m)
          \/ m < Len(inv) /\ inv' = Append(SubSeq(inv, 1, m), "part")
    BY DEF PowerLoss
  <2>2. /\ inv' \in Seq({"line", "part"}) /\ Len(inv') \in {m, m + 1} /\ m \in Nat
        /\ \A i \in 1..m : inv'[i] = inv[i]
        /\ m = Len(inv) => Len(inv') = m
    <3>1. inv \in Seq({"line", "part"}) /\ m \in 0..Len(inv) /\ Len(inv) \in Nat
      BY SMTT(30), <2>1 DEF DiskInv, DiskTypes
    <3> DEFINE t == SubSeq(inv, 1, m)
    <3>2. t \in Seq({"line", "part"}) /\ Len(t) = m /\ \A i \in 1..m : t[i] = inv[i]
      BY ONLY ZenonT(60), <1>a, <3>1
    <3>3. inv' = t \/ (m < Len(inv) /\ inv' = Append(t, "part"))
      BY <2>1
    <3> HIDE DEF t
    <3>4. /\ Append(t, "part") \in Seq({"line", "part"}) /\ Len(Append(t, "part")) = Len(t) + 1
          /\ \A i \in 1..Len(t) : Append(t, "part")[i] = t[i]
      BY ONLY SMTT(30), <1>b, <3>2
    <3>5. CASE inv' = t
      BY ONLY SMTT(30), <3>1, <3>2, <3>5
    <3>6. CASE m < Len(inv) /\ inv' = Append(t, "part")
      BY ONLY SMTT(30), <3>1, <3>2, <3>4, <3>6
    <3> QED BY ONLY ZenonT(60), <3>3, <3>5, <3>6
  <2>3. DiskTypes'
    <3>1. write' \in Writes /\ get' \in Reads /\ trusted' \in BOOLEAN /\ short' = short
          /\ flushed' = Len(inv')
      BY ONLY ZenonT(60), <1>4, <1>c DEF PowerLoss
    <3>2. dir' \in left' /\ sunk' = dir' /\ \A d \in left' : DOMAIN d = Files
      BY ONLY ZenonT(60), <1>4 DEF DiskInv, DiskTypes, PowerLoss
    <3>3. short \in Nat
      BY ONLY ZenonT(60), <1>4 DEF DiskInv, DiskTypes
    <3> QED BY ONLY SMTT(30), <2>2, <3>1, <3>2, <3>3 DEF DiskTypes
  <2>4. DiskKeys'
    BY DEF DiskInv, DiskTypes, DiskKeys, PowerLoss
  <2>5. DiskGet'
    BY DEF DiskInv, DiskTypes, DiskGet, PowerLoss
  <2>6. DiskLines'
    <3>1. write'.pc = "idle" /\ short' = short /\ acked' = acked /\ flushed' = Len(inv')
          /\ left' = {dir'} /\ dir' \in left /\ trusted' = (dir'["mac"] = inv')
      BY DEF PowerLoss
    <3>2. ASSUME short = 0
          PROVE  acked \subseteq {i \in 1..flushed' : inv'[i] = "line"}
      BY SMTT(30), <2>1, <2>2, <3>1, <3>2 DEF DiskInv, DiskTypes, DiskLines
    <3>3. ASSUME short = 0
          PROVE  \A i \in 1..(Len(inv') - 1) : inv'[i] = "line"
      <4>1. Len(inv) \in Nat /\ m <= Len(inv) /\ \A i \in 1..(Len(inv) - 1) : inv[i] = "line"
        BY SMTT(30), <2>1, <2>2, <3>3 DEF DiskInv, DiskTypes, DiskLines
      <4> QED BY ONLY SMTT(30), <2>2, <4>1
    <3>4. ASSUME short = 0
          PROVE  \A d \in left' : \A i \in DOMAIN d["mac"] : d["mac"][i] = "line"
      BY <3>1, <3>4 DEF DiskInv, DiskLines
    <3>5. ASSUME short = 0, trusted'
          PROVE  \A i \in 1..Len(inv') : inv'[i] = "line"
      <4>1. inv' = dir'["mac"] /\ DOMAIN inv' = 1..Len(inv')
        <5>1. DOMAIN inv' = 1..Len(inv')
          BY ONLY SMTT(30), <2>2
        <5> QED BY ONLY ZenonT(60), <3>1, <3>5, <5>1
      <4> QED BY ONLY ZenonT(60), <3>1, <3>4, <3>5, <4>1
    <3> QED BY ONLY ZenonT(60), <3>1, <3>2, <3>3, <3>4, <3>5 DEF DiskLines
  <2> QED BY <2>3, <2>4, <2>5, <2>6 DEF DiskInv
<1>5. ASSUME DiskInv, AppendLine PROVE DiskInv'
  <2> USE <1>5 DEF keyFiles, records, NoOp
  <2>a. UNCHANGED <<dir, sunk, left, may, flushed, acked, trusted, get>> /\ trusted
    BY DEF AppendLine
  <2>b. PICK x \in {"line", "part"} :
          /\ inv' = Append(inv, x)
          /\ x = "line" => write' = [pc |-> "flush", key |-> Absent, at |-> "top", synced |-> FALSE,
                                  n |-> Len(inv) + 1] /\ short' = short
          /\ x = "part" => write' = NoOp /\ short' = short + 1
    BY DEF AppendLine
  <2>c. /\ Len(inv) \in Nat /\ Len(inv') = Len(inv) + 1 /\ inv' \in Seq({"line", "part"})
        /\ inv'[Len(inv) + 1] = x
        /\ \A i \in 1..Len(inv) : inv'[i] = inv[i]
    BY SMTT(30), <2>b DEF DiskInv, DiskTypes
  <2>1. DiskTypes'
    <3>1. [pc |-> "flush", key |-> Absent, at |-> "top", synced |-> FALSE, n |-> Len(inv) + 1]
            \in Writes
      BY ONLY SMTT(30), <2>c DEF Writes
    <3>2. write' \in Writes /\ short' \in Nat
      <4>1. short \in Nat
        BY ONLY ZenonT(60), <1>5 DEF DiskInv, DiskTypes
      <4>2. CASE x = "line"
        BY ONLY ZenonT(60), <2>b, <3>1, <4>1, <4>2
      <4>3. CASE x = "part"
        <5>1. write' = NoOp /\ short' = short + 1
          BY ONLY ZenonT(60), <2>b, <4>3
        <5>2. short' \in Nat
          BY ONLY SMTT(30), <4>1, <5>1
        <5> QED BY ONLY ZenonT(60), <1>c, <5>1, <5>2
      <4> QED BY <4>2, <4>3
    <3>3. flushed' \in 0..Len(inv')
      <4>1. flushed \in 0..Len(inv)
        BY ONLY ZenonT(60), <1>5 DEF DiskInv, DiskTypes
      <4> QED BY ONLY SMTT(30), <2>a, <2>c, <4>1
    <3> QED BY ONLY ZenonT(60), <1>5, <2>a, <2>c, <3>2, <3>3 DEF DiskInv, DiskTypes
  <2>2. DiskKeys'
    <3>1. write'.pc \in {"idle", "flush"}
      BY SMTT(30), <2>b
    <3> QED BY ONLY ZenonT(60), <1>5, <2>a, <3>1 DEF DiskInv, DiskKeys
  <2>3. DiskGet'
    BY ONLY ZenonT(60), <1>5, <2>a DEF DiskInv, DiskGet
  <2>4. DiskLines'
    BY SMTT(30), <2>a, <2>b, <2>c DEF DiskInv, DiskTypes, DiskLines
  <2> QED BY <2>1, <2>2, <2>3, <2>4 DEF DiskInv
<1>6. ASSUME DiskInv, WriteTemp PROVE DiskInv'
  <2> USE <1>6 DEF keyFiles, records, WriteTemp
  <2>1. DiskTypes'
    BY DEF DiskInv, DiskTypes, Writes
  <2>2. DiskKeys'
    BY SMTT(30) DEF DiskInv, DiskTypes, DiskKeys
  <2>3. DiskGet'
    BY DEF DiskInv, DiskGet
  <2>4. DiskLines'
    BY SMTT(30) DEF DiskInv, DiskTypes, DiskLines
  <2> QED BY <2>1, <2>2, <2>3, <2>4 DEF DiskInv
<1>7. ASSUME DiskInv, Rename PROVE DiskInv'
  <2> USE <1>7 DEF keyFiles, records, Rename, Change
  <2>1. DiskTypes'
    BY DEF DiskInv, DiskTypes, DiskKeys, Writes
  <2>2. DiskKeys'
    BY SMTT(30)
       DEF DiskInv, DiskTypes, DiskKeys, checkCAKeyConflict, caKeyLocation,
       Answer, Differ
  <2>3. DiskGet'
    BY DEF DiskInv, DiskTypes, DiskGet, DiskKeys, checkCAKeyConflict, caKeyLocation,
       Answer, Differ
  <2>4. DiskLines'
    <3>1. \A d \in left' : \E c \in left : d["mac"] = c["mac"]
      BY DEF DiskInv, DiskTypes, DiskKeys, Writes
    <3>2. write'.pc = "dirsync"
      BY SMTT(30) DEF DiskInv, DiskTypes
    <3> QED BY ONLY SMTT(30), <1>7, <3>1, <3>2 DEF DiskInv, DiskLines, records, Rename
  <2> QED BY <2>1, <2>2, <2>3, <2>4 DEF DiskInv
<1>8. ASSUME DiskInv, SyncDir PROVE DiskInv'
  <2> USE <1>8 DEF keyFiles, records, SyncDir, FlushNames, NoOp
  <2>0. Answer(dir) = write.key
    BY DEF DiskInv, DiskTypes, DiskKeys, Answer
  <2>1. DiskTypes'
    BY DEF DiskInv, DiskTypes, Writes
  <2>2. DiskKeys'
    BY <2>0 DEF DiskInv, DiskTypes, DiskKeys
  <2>3. DiskGet'
    BY DEF DiskInv, DiskGet
  <2>4. DiskLines'
    BY DEF DiskInv, DiskTypes, DiskLines
  <2> QED BY <2>1, <2>2, <2>3, <2>4 DEF DiskInv
<1>9. ASSUME DiskInv, GetBegins \/ GetReadsTop \/ GetReadsLegacy \/ GetReadsFile \/ GetEnds
      PROVE  DiskInv'
  <2> DEFINE Moved(p, v) == /\ get' \in Reads /\ get'.pc = p /\ get'.data = v
                            /\ get'.at = get.at /\ get'.from = get.from
  <2>0. UNCHANGED <<dir, sunk, left, may, inv, flushed, acked, trusted, short, write>>
    BY <1>9 DEF keyFiles, records, GetBegins, GetReadsTop, GetReadsLegacy, GetReadsFile,
       GetEnds
  <2>1. DiskKeys' /\ DiskLines'
    BY ONLY ZenonT(60), <1>9, <2>0 DEF DiskInv, DiskKeys, DiskLines
  <2>a. /\ dir["top"] \in KeyValues \cup {Absent, Link}
        /\ dir["legacy"] \in KeyValues \cup {Absent}
        /\ get \in Reads /\ dir' = dir
    BY <1>9, <2>0 DEF DiskInv, DiskTypes, DiskKeys
  <2>b. caKeyLocation(dir) \in {"top", "legacy"} /\ Answer(dir) \in KeyValues \cup {Absent, Conflict}
    BY <2>a DEF caKeyLocation, Answer, checkCAKeyConflict
  <2>c. ASSUME Answer(dir) \in KeyValues
        PROVE  /\ dir[caKeyLocation(dir)] \in KeyValues /\ ~Differ(dir["top"], dir["legacy"])
               /\ dir["top"] # Link
               /\ caKeyLocation(dir) = "legacy" => dir["top"] = Absent
               /\ caKeyLocation(dir) = "top" => dir["top"] \in KeyValues
    BY <2>a, <2>c DEF caKeyLocation, Answer, checkCAKeyConflict
  <2>d. ASSUME NEW p \in {"top", "legacy?", "legacy", "file?", "file", "key", "absent",
                          "conflict", "broken"},
               NEW v \in KeyValues \cup {Absent},
               get' = [get EXCEPT !.pc = p, !.data = v] \/ (v = get.data /\ GetGoes(p))
        PROVE  Moved(p, v)
    BY <2>a, <2>d DEF Reads, GetGoes
  <2>e. DiskGet /\ get.data \in KeyValues \cup {Absent} /\ get.at \in {"top", "legacy"}
    BY <1>9, <2>a DEF DiskInv, Reads
  <2>2. get' \in Reads /\ DiskGet'
    <3>1. CASE GetBegins
      <4>1. get' = [pc |-> "top?", at |-> caKeyLocation(dir), data |-> Absent, from |-> Answer(dir)]
        BY <3>1 DEF GetBegins
      <4> QED BY <2>a, <2>b, <4>1 DEF Reads, DiskGet, caKeyLocation, Answer
    <3>2. CASE GetReadsTop
      <4>1. CASE get.pc = "top?"
        <5>1. Moved(IF dir["top"] = Absent THEN "file?" ELSE "top", get.data)
          BY <2>a, <2>d, <2>e, <3>2, <4>1 DEF GetReadsTop, LeadsNowhere, GetGoes
        <5> QED BY <2>a, <2>c, <2>e, <3>2, <4>1, <5>1 DEF GetReadsTop, LeadsNowhere, DiskGet
      <4>2. CASE get.pc = "top" /\ LeadsNowhere("top")
        <5>1. Moved("broken", get.data)
          BY <2>a, <2>d, <2>e, <3>2, <4>2 DEF GetReadsTop, LeadsNowhere, GetGoes
        <5> QED BY <2>a, <2>c, <2>e, <3>2, <4>2, <5>1 DEF GetReadsTop, LeadsNowhere, DiskGet
      <4>3. CASE get.pc = "top" /\ ~LeadsNowhere("top")
        <5>1. Moved("legacy?", dir["top"])
          BY <2>a, <2>d, <2>e, <3>2, <4>3 DEF GetReadsTop, LeadsNowhere, GetGoes
        <5> QED BY <2>a, <2>c, <2>e, <3>2, <4>3, <5>1 DEF GetReadsTop, LeadsNowhere, DiskGet
      <4> QED BY <3>2, <4>1, <4>2, <4>3 DEF GetReadsTop
    <3>3. CASE GetReadsLegacy
      <4>1. CASE get.pc = "legacy?"
        <5>1. Moved(IF dir["legacy"] = Absent THEN "file?" ELSE "legacy", get.data)
          BY <2>a, <2>d, <2>e, <3>3, <4>1 DEF GetReadsLegacy, LeadsNowhere, GetGoes
        <5> QED BY <2>a, <2>c, <2>e, <3>3, <4>1, <5>1 DEF GetReadsLegacy, LeadsNowhere, DiskGet
      <4>2. CASE get.pc = "legacy" /\ LeadsNowhere("legacy")
        <5>1. Moved("broken", get.data)
          BY <2>a, <2>d, <2>e, <3>3, <4>2 DEF GetReadsLegacy, LeadsNowhere, GetGoes
        <5> QED BY <2>a, <2>c, <2>e, <3>3, <4>2, <5>1 DEF GetReadsLegacy, LeadsNowhere, DiskGet
      <4>3. CASE get.pc = "legacy" /\ ~LeadsNowhere("legacy")
        <5>1. Moved(IF Differ(get.data, dir["legacy"]) THEN "conflict" ELSE "file?", get.data)
          BY <2>a, <2>d, <2>e, <3>3, <4>3 DEF GetReadsLegacy, LeadsNowhere, GetGoes
        <5> QED BY <2>a, <2>c, <2>e, <3>3, <4>3, <5>1 DEF GetReadsLegacy, LeadsNowhere, DiskGet
      <4> QED BY <3>3, <4>1, <4>2, <4>3 DEF GetReadsLegacy
    <3>4. CASE GetReadsFile
      <4>1. CASE get.pc = "file?"
        <5>1. Moved(IF dir[get.at] = Absent THEN "absent" ELSE "file", get.data)
          BY <2>a, <2>d, <2>e, <3>4, <4>1 DEF GetReadsFile, LeadsNowhere, GetGoes
        <5> QED BY <2>a, <2>c, <2>e, <3>4, <4>1, <5>1 DEF GetReadsFile, LeadsNowhere, DiskGet
      <4>2. CASE get.pc = "file" /\ LeadsNowhere(get.at)
        <5>1. Moved("broken", get.data)
          BY <2>a, <2>d, <2>e, <3>4, <4>2 DEF GetReadsFile, LeadsNowhere, GetGoes
        <5> QED BY <2>a, <2>c, <2>e, <3>4, <4>2, <5>1 DEF GetReadsFile, LeadsNowhere, DiskGet
      <4>3. CASE get.pc = "file" /\ ~LeadsNowhere(get.at)
        <5>1. Moved("key", dir[get.at])
          BY <2>a, <2>d, <2>e, <3>4, <4>3 DEF GetReadsFile, LeadsNowhere, GetGoes
        <5> QED BY <2>a, <2>c, <2>e, <3>4, <4>3, <5>1 DEF GetReadsFile, LeadsNowhere, DiskGet
      <4> QED BY <3>4, <4>1, <4>2, <4>3 DEF GetReadsFile
    <3>5. CASE GetEnds
      BY <1>c, <3>5 DEF GetEnds, DiskGet
    <3> QED BY ONLY ZenonT(60), <1>9, <3>1, <3>2, <3>3, <3>4, <3>5
  <2>3. DiskTypes'
    BY ONLY ZenonT(60), <1>9, <2>0, <2>2 DEF DiskInv, DiskTypes
  <2> QED BY <2>1, <2>2, <2>3 DEF DiskInv
<1>10. ASSUME DiskInv, Flush PROVE DiskInv'
  <2> USE <1>10 DEF keyFiles, records, Flush
  <2>1. DiskTypes'
    BY SMTT(30) DEF DiskInv, DiskTypes, Writes
  <2>2. DiskKeys'
    BY SMTT(30) DEF DiskInv, DiskTypes, DiskKeys
  <2>3. DiskGet'
    BY DEF DiskInv, DiskGet
  <2>4. DiskLines'
    BY SMTT(30) DEF DiskInv, DiskTypes, DiskLines
  <2> QED BY <2>1, <2>2, <2>3, <2>4 DEF DiskInv
<1>11. ASSUME DiskInv, PutMac PROVE DiskInv'
  <2> USE <1>11 DEF keyFiles, records, PutMac, Change
  <2>1. DiskTypes'
    BY DEF DiskInv, DiskTypes, Writes
  <2>2. DiskKeys'
    BY SMTT(30)
       DEF DiskInv, DiskTypes, DiskKeys, checkCAKeyConflict, caKeyLocation, Answer
  <2>3. DiskGet'
    BY DEF DiskInv, DiskTypes, DiskGet, checkCAKeyConflict, caKeyLocation, Answer
  <2>4. DiskLines'
    BY SMTT(30) DEF DiskInv, DiskTypes, DiskLines
  <2> QED BY <2>1, <2>2, <2>3, <2>4 DEF DiskInv
<1>12. ASSUME DiskInv, SyncMac PROVE DiskInv'
  <2> USE <1>12 DEF keyFiles, records, SyncMac, FlushNames, NoOp
  <2>1. DiskTypes'
    BY DEF DiskInv, DiskTypes, Writes
  <2>2. DiskKeys'
    BY DEF DiskInv, DiskTypes, DiskKeys
  <2>3. DiskGet'
    BY DEF DiskInv, DiskGet
  <2>4. DiskLines'
    <3>1. /\ write'.pc = "idle" /\ acked' = acked \cup {Len(inv)} /\ left' \subseteq left /\ trusted
          /\ flushed = Len(inv) /\ Len(inv) \in Nat /\ Len(inv) > 0
          /\ UNCHANGED <<inv, flushed, trusted, short>>
      BY SMTT(30) DEF DiskInv, DiskTypes, DiskLines
    <3>2. DiskLines
      BY DEF DiskInv
    <3> QED BY ONLY SMTT(30), <3>1, <3>2 DEF DiskLines
  <2> QED BY <2>1, <2>2, <2>3, <2>4 DEF DiskInv
<1>13. ASSUME DiskInv, Fail \/ Restart PROVE DiskInv'
  <2> USE <1>13 DEF keyFiles, records, Fail, Restart, NoOp, Verifies
  <2>1. DiskTypes'
    <3>1. UNCHANGED <<dir, sunk, left, inv, flushed, get, short>> /\ write' = NoOp
      BY ONLY ZenonT(60), <1>13 DEF keyFiles, records, Fail, Restart
    <3>2. trusted' \in BOOLEAN
      BY ONLY ZenonT(60), <1>13
         DEF DiskInv, DiskTypes, records, Fail, Restart, Verifies
    <3> QED BY ONLY ZenonT(60), <1>13, <1>c, <3>1, <3>2 DEF DiskInv, DiskTypes
  <2>2. DiskKeys'
    BY SMTT(30) DEF DiskInv, DiskTypes, DiskKeys
  <2>3. DiskGet'
    BY DEF DiskInv, DiskGet
  <2>4. DiskLines'
    <3>1. UNCHANGED <<left, inv, flushed, acked, short>> /\ write' = NoOp
      BY ONLY ZenonT(60), <1>13 DEF keyFiles, records, Fail, Restart
    <3>2. trusted' => trusted \/ dir["mac"] = inv
      BY ONLY ZenonT(60), <1>13 DEF records, Fail, Restart, Verifies
    <3>3. dir \in left /\ inv \in Seq({"line", "part"})
      BY ONLY ZenonT(60), <1>13 DEF DiskInv, DiskTypes
    <3>4. DiskLines
      BY ONLY ZenonT(60), <1>13 DEF DiskInv
    <3> QED BY ONLY SMTT(30), <3>1, <3>2, <3>3, <3>4 DEF DiskLines, NoOp
  <2> QED BY <2>1, <2>2, <2>3, <2>4 DEF DiskInv
<1>14. DiskInv /\ UNCHANGED vars => DiskInv'
  <2> SUFFICES ASSUME DiskInv, UNCHANGED vars PROVE DiskInv'
    OBVIOUS
  <2>0. UNCHANGED <<dir, sunk, left, may, inv, flushed, acked, trusted, short, write, get>>
    BY DEF vars, keyFiles, records
  <2>1. DiskTypes'
    BY <2>0 DEF DiskInv, DiskTypes
  <2>2. DiskKeys'
    BY <2>0 DEF DiskInv, DiskKeys, checkCAKeyConflict, caKeyLocation
  <2>3. DiskGet'
    BY <2>0 DEF DiskInv, DiskGet, caKeyLocation
  <2>4. DiskLines'
    BY <2>0 DEF DiskInv, DiskLines
  <2> QED BY <2>1, <2>2, <2>3, <2>4 DEF DiskInv
<1>15. DiskInv => FilesSurviveFailures
  <2> SUFFICES ASSUME DiskInv PROVE FilesSurviveFailures
    OBVIOUS
  <2>1. KeyNeverLost
    BY DEF DiskInv, DiskTypes, DiskKeys, KeyNeverLost
  <2>2. ReadersFindTheKey
    BY DEF DiskInv, DiskGet, ReadersFindTheKey
  <2>3. AppendedIsListed
    BY SMTT(30) DEF DiskInv, DiskTypes, DiskLines, AppendedIsListed, Listed
  <2> QED BY <2>1, <2>2, <2>3 DEF FilesSurviveFailures
<1> QED
  BY <1>1, <1>2, <1>3, <1>4, <1>5, <1>6, <1>7, <1>8, <1>9, <1>10, <1>11, <1>12, <1>13, <1>14,
     <1>15,
     PTL DEF Spec, Next

-----------------------------------------------------------------------------
(* How a CA comes to be *)

CONSTANTS Replicas, Operators, Provider, OneInstance, MaxKeys, MaxGens, MaxCrashes, MaxRevocations

VARIABLES key, cert, pub, crl, serial, inventory, lock, up, csr, import, requested, retired,
          halfway, keys, gens, revoked, crashes

Boot == INSTANCE Bootstrap

\* A certificate of this key.
Certifies(c, k) == \E g : c = {[key |-> k, gen |-> g]}

\* The steps of a start that hold the bootstrap lock, and those that have found or
\* made the CA.
Inside == {"decide", "bootstrap key", "bootstrap cert", "bootstrap pub", "bootstrap crl",
           "bootstrap touch", "seed pub", "seed crl", "seed rest"}
Loaded == {"load crl", "want seed", "seed pub", "seed crl", "seed rest", "up", "bootstrap pub",
           "bootstrap crl", "bootstrap touch"}

\* The stored key, and those an operator has replaced.
KnownKey(k) == k # 0 /\ (k = key \/ k \in retired)

\* The store: a certificate is of a known key.
BootStore ==
  /\ keys \in Nat /\ 0 \notin requested
  /\ cert # {} => \E k : Certifies(cert, k) /\ KnownKey(k)
  /\ crl # {} => cert # {}

\* An import under way that has the store to itself.
Alone == import.own /\ import.pc # "idle"

\* A replica: what it loaded is a pair of a known key, a bootstrap has found nothing,
\* and an import that holds no bootstrap lock has the store to itself.
BootAt(r) ==
  /\ DOMAIN up[r] = {"pc", "key", "cert", "crl"}
  /\ up[r].pc \in Inside => lock = r
  /\ up[r].pc \in Loaded => cert # {} /\ KnownKey(up[r].key) /\ Certifies(up[r].cert, up[r].key)
  /\ up[r].pc = "bootstrap key" => cert = {} /\ (~Provider => key = 0)
  /\ up[r].pc = "bootstrap cert" => cert = {} /\ key # 0 /\ up[r].key = key
        /\ Certifies(up[r].cert, key)
  /\ up[r].pc \in {"bootstrap pub", "bootstrap crl"} => crl = {}
  /\ Alone => up[r].pc = "down"

\* An import is of a certificate for a key that is known once it is written.
BootImport ==
  /\ DOMAIN import = {"pc", "own", "key", "cert", "crl"}
  /\ import.pc \notin {"idle", "lock"} => import.own \/ lock = "import"
  /\ Alone => OneInstance
  /\ import.pc # "idle" => import.key # 0 /\ Certifies(import.cert, import.key)
  /\ import.pc # "idle" /\ ~import.own => import.key \in requested
  /\ import.pc = "key" => import.own
  /\ import.pc \notin {"idle", "key"} => KnownKey(import.key)
  /\ import.pc \in {"pub", "crl", "rest"} => cert # {}

BootInv == BootStore /\ DOMAIN up = Replicas /\ (\A r \in Replicas : BootAt(r)) /\ BootImport

\* What a step of x leaves to the others: certificates and known keys stay, and so
\* does what the holder of the lock relies on.
BootApart(x) ==
  /\ cert # {} => cert' # {}
  /\ requested \subseteq requested'
  /\ \A k : KnownKey(k) /\ (cert # {} \/ k \in requested \/ Alone) => KnownKey(k)'
  /\ lock \notin {x, "free"} => lock' = lock /\ (crl = {} => crl' = {})
  /\ lock \notin {x, "free"} /\ cert = {} =>
       /\ cert' = {}
       /\ key # 0 \/ ~Provider => key' = key

\* A certificate of a key names that key, so AssertSignerMatchesCert accepts the pair.
LEMMA OnlyCertificate ==
  ASSUME NEW c, NEW k, Certifies(c, k)
  PROVE  c # {} /\ Boot!Only(c).key = k
<1>1. PICK g : c = {[key |-> k, gen |-> g]}
  BY DEF Certifies
<1>2. \E x \in c : TRUE
  BY <1>1
<1>3. Boot!Only(c) \in c
  BY ONLY SMTT(30), <1>2 DEF Boot!Only
<1> QED BY SMTT(30), <1>1, <1>2, <1>3

\* A replica or an import that takes no part in a step keeps what it relies on (the
\* bootstrap lock of CA.Init).
LEMMA BootOthers ==
  ASSUME BootInv, NEW x, BootApart(x)
  PROVE  /\ \A q \in Replicas \ {x, "free"} : up'[q] = up[q] /\ (Alone' => Alone) => BootAt(q)'
         /\ import' = import /\ x # "import" => BootImport'
<1>1. ASSUME NEW q \in Replicas \ {x, "free"}, up'[q] = up[q], Alone' => Alone PROVE BootAt(q)'
  <2>1. BootAt(q) /\ up'[q] = up[q]
    BY <1>1 DEF BootInv
  <2>2. up[q].pc \in Inside => lock' = lock
    BY <1>1, <2>1 DEF BootAt, BootApart
  <2>3. ASSUME up[q].pc \in Loaded PROVE cert' # {} /\ KnownKey(up[q].key)'
    BY <1>1, <2>1, <2>3 DEF BootAt, BootApart
  <2>4. ASSUME up[q].pc \in {"bootstrap key", "bootstrap cert"}
        PROVE  cert' = {} /\ (key # 0 \/ ~Provider => key' = key)
    BY <1>1, <2>1, <2>4 DEF BootAt, BootApart, Inside
  <2>5. ASSUME up[q].pc \in {"bootstrap pub", "bootstrap crl"} PROVE crl' = {}
    BY <1>1, <2>1, <2>5 DEF BootAt, BootApart, Inside
  <2> QED BY <1>1, <2>1, <2>2, <2>3, <2>4, <2>5 DEF BootAt, Alone
<1>2. ASSUME import' = import, x # "import" PROVE BootImport'
  <2>1. BootImport /\ Alone' = Alone /\ "import" # "free"
    BY <1>2 DEF BootInv, Alone
  <2>2. ASSUME import.pc \notin {"idle", "key"} PROVE KnownKey(import.key)'
    BY <1>2, <2>1, <2>2 DEF BootImport, BootApart, Alone
  <2> QED BY <1>2, <2>1, <2>2 DEF BootImport, BootApart
<1> QED BY <1>1, <1>2

\* Every step keeps the invariant, and the key that is certified or requested
\* (bootstrapCA, seedSupportingState, LoadOrCreateCAKey, importCAMaterial).
LEMMA BootStep ==
  ASSUME {"free", "import"} \cap Replicas = {}, BootInv, [Boot!Next]_(Boot!vars)
  PROVE  BootInv' /\ Boot!KeySurvives
<1> USE DEF Boot!blobs, Boot!budget, Boot!Free, Boot!replaced
<1>0. BootStore /\ DOMAIN up = Replicas /\ (\A r \in Replicas : BootAt(r)) /\ BootImport
  BY DEF BootInv
<1>c. ASSUME NEW k, Boot!Matches(k, cert) PROVE Certifies(cert, k) /\ KnownKey(k) /\ cert # {}
  BY <1>0, <1>c, OnlyCertificate DEF BootStore, Boot!Matches
<1>n. "free" # "import"
  OBVIOUS
<1>1. ASSUME NEW r \in Replicas, Boot!Starting(r) \/ Boot!Crash(r) \/ Boot!Revoke(r)
      PROVE  BootInv' /\ Boot!KeySurvives
  <2>a. r \notin {"free", "import"} /\ BootAt(r)
    BY <1>0
  <2>c. up[r].pc \in Loaded \cup {"bootstrap cert"} => up[r].cert # {}
        /\ Boot!Only(up[r].cert).key = up[r].key
    BY <2>a, OnlyCertificate DEF BootAt
  <2>b. SUFFICES /\ BootStore' /\ BootApart(r) /\ BootAt(r)' /\ import' = import
                 /\ DOMAIN up' = Replicas /\ \A q \in Replicas \ {r} : up'[q] = up[q]
                 /\ Boot!KeySurvives
    <3>1. ASSUME NEW q \in Replicas \ {r}, up'[q] = up[q], BootApart(r), import' = import
          PROVE  BootAt(q)'
      BY <3>1, <2>a, BootOthers DEF Alone
    <3>2. ASSUME import' = import, BootApart(r) PROVE BootImport'
      BY <2>a, <3>2, BootOthers
    <3> QED BY <3>1, <3>2 DEF BootInv, Boot!KeySurvives, BootApart
  <2>q. ASSUME UNCHANGED <<key, keys, cert, retired, requested, import>>, crl' # {} => cert # {},
               lock \notin {r, "free"} => lock' = lock /\ (crl = {} => crl' = {})
        PROVE  BootStore' /\ BootApart(r) /\ import' = import /\ Boot!KeySurvives
    BY <2>q, <1>0 DEF BootStore, BootApart, Boot!KeySurvives, KnownKey
  <2>1. CASE Boot!Start(r)
    <3>1. BootStore' /\ BootApart(r) /\ import' = import /\ Boot!KeySurvives
      BY <2>q, <2>1, <2>a, <1>0 DEF Boot!Start, Boot!Down, BootStore, BootAt, Inside, Loaded,
         KnownKey, Alone
    <3>2. BootAt(r)'
      <4>1. ~Alone /\ UNCHANGED import
        BY <2>1, <1>0 DEF Boot!Start, Boot!InstanceFree, BootImport, Alone
      <4> QED BY <2>1, <1>0, <4>1 DEF Boot!Start, Boot!Down, BootAt, Inside, Loaded, Alone
    <3>3. DOMAIN up' = Replicas /\ \A q \in Replicas \ {r} : up'[q] = up[q]
      BY <2>1, <1>0 DEF Boot!Start, Boot!Down
    <3> QED BY ONLY ZenonT(60), <3>1, <3>2, <3>3
  <2>2. CASE Boot!LoadCert(r)
    <3>1. BootStore' /\ BootApart(r) /\ import' = import /\ Boot!KeySurvives
      BY <2>q, <2>2, <2>a, <1>0 DEF Boot!LoadCert, BootStore, BootAt, Inside, Loaded, KnownKey,
         Alone
    <3>2. BootAt(r)'
      BY <2>2, <2>a, <1>0, <1>c, <2>c DEF Boot!LoadCert, Boot!Matches, BootStore, BootAt,
         Inside,
         Loaded, KnownKey, Alone
    <3>3. DOMAIN up' = Replicas /\ \A q \in Replicas \ {r} : up'[q] = up[q]
      BY <2>2, <1>0 DEF Boot!LoadCert, Boot!Matches
    <3> QED BY ONLY ZenonT(60), <3>1, <3>2, <3>3
  <2>3. CASE Boot!LoadCRL(r)
    <3>1. BootStore' /\ BootApart(r) /\ import' = import /\ Boot!KeySurvives
      BY <2>q, <2>3, <2>a, <1>0 DEF Boot!LoadCRL, Boot!loadCRLCache, BootStore, BootAt, Inside,
         Loaded, KnownKey, Alone
    <3>2. BootAt(r)'
      BY <2>3, <2>a, <1>0 DEF Boot!LoadCRL, Boot!loadCRLCache, BootStore, BootAt, Inside,
         Loaded, KnownKey, Alone
    <3>3. DOMAIN up' = Replicas /\ \A q \in Replicas \ {r} : up'[q] = up[q]
      BY <2>3, <1>0 DEF Boot!LoadCRL, Boot!loadCRLCache
    <3> QED BY ONLY ZenonT(60), <3>1, <3>2, <3>3
  <2>4. CASE Boot!Lock(r)
    <3>1. BootStore' /\ BootApart(r) /\ import' = import /\ Boot!KeySurvives
      BY <2>q, <2>4, <2>a, <1>0 DEF Boot!Lock, Boot!Goto, BootStore, BootAt, Inside, Loaded,
         KnownKey, Alone
    <3>2. BootAt(r)'
      <4>0. DOMAIN up[r] = {"pc", "key", "cert", "crl"} /\ r \in DOMAIN up /\ lock' = r
            /\ UNCHANGED <<key, cert, crl, retired, import>>
        BY <1>0, <2>a, <2>4 DEF BootAt, Boot!Lock
      <4>1. DOMAIN up'[r] = {"pc", "key", "cert", "crl"} /\ up'[r].key = up[r].key
            /\ up'[r].cert = up[r].cert
        BY <2>4, <4>0 DEF Boot!Lock, Boot!Goto
      <4>2. \/ up[r].pc = "want seed" /\ up'[r].pc = "seed pub"
            \/ up'[r].pc = "decide"
        BY <2>4, <4>0 DEF Boot!Lock, Boot!Goto
      <4>3. ~Alone' /\ (KnownKey(up[r].key) => KnownKey(up[r].key)')
        BY <2>a, <2>4, <4>0, <4>1 DEF BootAt, Boot!Lock, Alone, KnownKey
      <4> QED BY <2>a, <4>0, <4>1, <4>2, <4>3 DEF BootAt, Inside, Loaded
    <3>3. DOMAIN up' = Replicas /\ \A q \in Replicas \ {r} : up'[q] = up[q]
      BY <2>4, <1>0 DEF Boot!Lock, Boot!Goto
    <3> QED BY ONLY ZenonT(60), <3>1, <3>2, <3>3
  <2>5. CASE Boot!LockTimesOut(r)
    <3>1. BootStore' /\ BootApart(r) /\ import' = import /\ Boot!KeySurvives
      BY <2>q, <2>5, <2>a, <1>0 DEF Boot!LockTimesOut, Boot!Down, BootStore, BootAt, Inside,
         Loaded, KnownKey, Alone
    <3>2. BootAt(r)'
      BY <2>5, <2>a, <1>0 DEF Boot!LockTimesOut, Boot!Down, BootStore, BootAt, Inside, Loaded,
         KnownKey, Alone
    <3>3. DOMAIN up' = Replicas /\ \A q \in Replicas \ {r} : up'[q] = up[q]
      BY <2>5, <1>0 DEF Boot!LockTimesOut, Boot!Down
    <3> QED BY ONLY ZenonT(60), <3>1, <3>2, <3>3
  <2>6. CASE Boot!Decide(r)
    <3>1. BootStore' /\ BootApart(r) /\ import' = import /\ Boot!KeySurvives
      BY <2>q, <2>6, <2>a, <1>0 DEF Boot!Decide, Boot!Goto, Boot!Down, BootStore, BootAt,
         Inside, Loaded, KnownKey, Alone
    <3>2. BootAt(r)'
      <4>1. UNCHANGED <<key, cert, crl, retired>> /\ lock = r /\ ~Alone'
            /\ DOMAIN up[r] = {"pc", "key", "cert", "crl"}
        BY <2>6, <2>a DEF Boot!Decide, BootAt, Inside, Alone
      <4>2. CASE Boot!Matches(key, cert)
        <5>0. \E p \in {"up", "seed pub"} :
                /\ up' = [up EXCEPT ![r] = [pc |-> p, key |-> key, cert |-> cert, crl |-> crl]]
                /\ p = "seed pub" => lock' = lock
          BY <2>6, <4>2 DEF Boot!Decide
        <5>a. PICK p \in {"up", "seed pub"} :
                /\ up' = [up EXCEPT ![r] = [pc |-> p, key |-> key, cert |-> cert, crl |-> crl]]
                /\ p = "seed pub" => lock' = lock
          BY <5>0
        <5>b. up'[r] = [pc |-> p, key |-> key, cert |-> cert, crl |-> crl]
          BY <1>0, <5>a
        <5>c. ASSUME NEW u, u = [pc |-> p, key |-> key, cert |-> cert, crl |-> crl]
              PROVE  DOMAIN u = {"pc", "key", "cert", "crl"} /\ u.key = key /\ u.cert = cert
                     /\ u.pc = p
          BY ONLY ZenonT(60), <5>c
        <5>1. DOMAIN up'[r] = {"pc", "key", "cert", "crl"} /\ up'[r].key = key
              /\ up'[r].cert = cert /\ up'[r].pc = p
          BY ONLY ZenonT(60), <5>b, <5>c
        <5>2. \/ up'[r].pc = "up"
              \/ up'[r].pc = "seed pub" /\ lock' = lock
          BY <5>a, <5>1
        <5>3. Certifies(cert, key) /\ KnownKey(key)' /\ cert # {}
          BY <1>c, <4>1, <4>2 DEF KnownKey
        <5> QED BY <4>1, <5>1, <5>2, <5>3 DEF BootAt, Inside, Loaded
      <4>3. CASE key = 0 /\ cert = {} /\ Boot!Goto(r, "bootstrap key") /\ UNCHANGED lock
        <5>1. DOMAIN up'[r] = {"pc", "key", "cert", "crl"} /\ up'[r].pc = "bootstrap key"
          BY <1>0, <4>1, <4>3 DEF Boot!Goto
        <5> QED BY <4>1, <4>3, <5>1 DEF BootAt, Inside, Loaded
      <4>4. CASE up' = [up EXCEPT ![r] = Boot!Down]
        BY <1>0, <4>1, <4>4 DEF BootAt, Boot!Down, Inside, Loaded
      <4> QED BY <2>6, <4>2, <4>3, <4>4 DEF Boot!Decide
    <3>3. DOMAIN up' = Replicas /\ \A q \in Replicas \ {r} : up'[q] = up[q]
      BY <2>6, <1>0 DEF Boot!Decide, Boot!Matches, Boot!Goto, Boot!Down
    <3> QED BY ONLY ZenonT(60), <3>1, <3>2, <3>3
  <2>7. CASE Boot!BootstrapKey(r)
    <3>a. lock = r /\ cert = {} /\ crl = {} /\ (~Provider => key = 0) /\ ~Alone
          /\ UNCHANGED <<cert, pub, crl, requested, retired, import>>
      BY <2>7, <2>a, <1>0 DEF Boot!BootstrapKey, Boot!SaveKey, BootAt, BootStore, Inside
    <3>b. CASE up' = [up EXCEPT ![r] = Boot!Down] /\ UNCHANGED <<key, keys>>
      <4>1. BootAt(r)'
        BY <1>0, <3>b DEF BootAt, Boot!Down, Inside, Loaded
      <4>2. BootStore' /\ BootApart(r) /\ Boot!KeySurvives
        BY <1>0, <3>a, <3>b DEF BootStore, BootApart, KnownKey, Boot!KeySurvives
      <4> QED BY <1>0, <3>a, <3>b, <4>1, <4>2
    <3>c. CASE /\ keys' = IF Boot!Generated = key THEN keys ELSE keys + 1
               /\ key' = Boot!Generated /\ UNCHANGED lock
               /\ up' = [up EXCEPT ![r].key = Boot!Generated, ![r].pc = "bootstrap cert",
                                   ![r].cert = {[key |-> Boot!Generated, gen |-> gens + 1]}]
      <4>1. keys' \in Nat /\ key' # 0 /\ (key # 0 => key' = key)
        <5>1. Boot!Generated = (IF Provider /\ key # 0 THEN key ELSE keys + 1)
          BY DEF Boot!Generated
        <5> HIDE DEF Boot!Generated
        <5>2. keys' = (IF key' = key THEN keys ELSE keys + 1) /\ key' = (IF Provider
              /\ key # 0 THEN key ELSE keys + 1)
          BY <3>c, <5>1
        <5>3. keys \in Nat
          BY <1>0 DEF BootStore
        <5> QED BY ONLY SMTT(30), <3>a, <5>2, <5>3
      <4>2. DOMAIN up'[r] = {"pc", "key", "cert", "crl"}
        BY <1>0, <2>a, <3>c DEF BootAt
      <4>3. up'[r].key = key' /\ up'[r].pc = "bootstrap cert" /\ Certifies(up'[r].cert, key')
        BY <1>0, <2>a, <3>c DEF BootAt, Certifies
      <4>4. BootAt(r)'
        BY <3>a, <3>c, <4>1, <4>2, <4>3 DEF BootAt, Inside, Loaded, Alone
      <4>5. BootStore' /\ BootApart(r) /\ Boot!KeySurvives
        BY <1>0, <3>a, <3>c, <4>1 DEF BootStore, BootApart, KnownKey, Boot!KeySurvives
      <4>6. DOMAIN up' = Replicas /\ \A q \in Replicas \ {r} : up'[q] = up[q]
        BY <1>0, <3>c
      <4> QED BY ONLY ZenonT(60), <3>a, <4>1, <4>4, <4>5, <4>6
    <3> QED BY <2>7, <3>b, <3>c DEF Boot!BootstrapKey, Boot!SaveKey
  <2>8. CASE Boot!BootstrapCert(r)
    <3>1. /\ cert' = up[r].cert /\ cert = {} /\ UNCHANGED <<key, keys, pub, crl, lock>>
          /\ lock = r
          /\ UNCHANGED <<requested, retired, import>> /\ up[r].pc = "bootstrap cert" /\ ~Alone
          /\ Certifies(up[r].cert, key) /\ key # 0 /\ up[r].key = key
      BY <2>8, <2>a DEF Boot!BootstrapCert, Boot!SaveCert, BootAt, Inside
    <3>2. BootStore' /\ BootApart(r) /\ Boot!KeySurvives
      BY <1>0, <3>1 DEF BootStore, BootApart, KnownKey, Boot!KeySurvives
    <3>3. BootAt(r)'
      <4>1. DOMAIN up'[r] = {"pc", "key", "cert", "crl"} /\ up'[r].key = up[r].key
            /\ up'[r].cert = up[r].cert /\ up'[r].pc = "bootstrap pub"
        BY <2>8, <1>0, <2>a DEF Boot!BootstrapCert, Boot!Goto, BootAt
      <4>2. cert' # {} /\ crl = {}
        BY <1>0, <3>1, OnlyCertificate DEF BootStore
      <4> QED BY <3>1, <4>1, <4>2 DEF BootAt, Inside, Loaded, KnownKey, Alone
    <3>4. DOMAIN up' = Replicas /\ \A q \in Replicas \ {r} : up'[q] = up[q]
      BY <2>8, <1>0 DEF Boot!BootstrapCert, Boot!Goto
    <3> QED BY ONLY ZenonT(60), <3>1, <3>2, <3>3, <3>4
  <2>9. CASE Boot!BootstrapPub(r)
    <3>1. BootStore' /\ BootApart(r) /\ import' = import /\ Boot!KeySurvives
      BY <2>q, <2>9, <2>a, <1>0 DEF Boot!BootstrapPub, Boot!SavePub, Boot!Goto, BootStore,
         BootAt, Inside, Loaded, KnownKey, Alone
    <3>2. BootAt(r)'
      BY <2>9, <2>a, <1>0 DEF Boot!BootstrapPub, Boot!SavePub, Boot!Goto, BootStore, BootAt,
         Inside, Loaded, KnownKey, Alone
    <3>3. DOMAIN up' = Replicas /\ \A q \in Replicas \ {r} : up'[q] = up[q]
      BY <2>9, <1>0 DEF Boot!BootstrapPub, Boot!SavePub, Boot!Goto
    <3> QED BY ONLY ZenonT(60), <3>1, <3>2, <3>3
  <2>10. CASE Boot!BootstrapCRL(r)
    <3>1. BootStore' /\ BootApart(r) /\ import' = import /\ Boot!KeySurvives
      BY <2>q, <2>10, <2>a, <1>0 DEF Boot!BootstrapCRL, Boot!SaveCRL, Boot!newEmptyCRL,
         BootStore, BootAt, Inside, Loaded, KnownKey, Alone
    <3>2. BootAt(r)'
      BY <2>10, <2>a, <1>0 DEF Boot!BootstrapCRL, Boot!SaveCRL, Boot!newEmptyCRL, BootStore,
         BootAt, Inside, Loaded, KnownKey, Alone
    <3>3. DOMAIN up' = Replicas /\ \A q \in Replicas \ {r} : up'[q] = up[q]
      BY <2>10, <1>0 DEF Boot!BootstrapCRL, Boot!SaveCRL, Boot!newEmptyCRL
    <3> QED BY ONLY ZenonT(60), <3>1, <3>2, <3>3
  <2>11. CASE Boot!BootstrapTouch(r)
    <3>1. BootStore' /\ BootApart(r) /\ import' = import /\ Boot!KeySurvives
      BY <2>q, <2>11, <2>a, <1>0 DEF Boot!BootstrapTouch, Boot!Goto, BootStore, BootAt, Inside,
         Loaded, KnownKey, Alone
    <3>2. BootAt(r)'
      BY <2>11, <2>a, <1>0 DEF Boot!BootstrapTouch, Boot!Goto, BootStore, BootAt, Inside,
         Loaded, KnownKey, Alone
    <3>3. DOMAIN up' = Replicas /\ \A q \in Replicas \ {r} : up'[q] = up[q]
      BY <2>11, <1>0 DEF Boot!BootstrapTouch, Boot!Goto
    <3> QED BY ONLY ZenonT(60), <3>1, <3>2, <3>3
  <2>12. CASE Boot!SeedPub(r)
    <3>1. BootStore' /\ BootApart(r) /\ import' = import /\ Boot!KeySurvives
      BY <2>q, <2>12, <2>a, <1>0 DEF Boot!SeedPub, Boot!SavePub, Boot!Goto, BootStore, BootAt,
         Inside, Loaded, KnownKey, Alone
    <3>2. BootAt(r)'
      BY <2>12, <2>a, <1>0, <1>c, <2>c DEF Boot!SeedPub, Boot!SavePub, Boot!Goto, BootStore,
         BootAt, Inside, Loaded, KnownKey, Alone
    <3>3. DOMAIN up' = Replicas /\ \A q \in Replicas \ {r} : up'[q] = up[q]
      BY <2>12, <1>0 DEF Boot!SeedPub, Boot!SavePub, Boot!Goto
    <3> QED BY ONLY ZenonT(60), <3>1, <3>2, <3>3
  <2>13. CASE Boot!SeedCRL(r)
    <3>1. BootStore' /\ BootApart(r) /\ import' = import /\ Boot!KeySurvives
      BY <2>q, <2>13, <2>a, <1>0 DEF Boot!SeedCRL, Boot!SaveCRL, Boot!newEmptyCRL,
         Boot!loadCRLCache, BootStore, BootAt, Inside, Loaded, KnownKey, Alone
    <3>2. BootAt(r)'
      <4>0. DOMAIN up[r] = {"pc", "key", "cert", "crl"} /\ r \in DOMAIN up
        BY <1>0, <2>a DEF BootAt
      <4>a. ASSUME crl # {}
            PROVE DOMAIN up'[r] = {"pc", "key", "cert", "crl"} /\ up'[r].key = up[r].key
                   /\ up'[r].cert = up[r].cert /\ up'[r].pc = "up"
        <5>1. up' = [up EXCEPT ![r] = [[up[r] EXCEPT !.crl = crl] EXCEPT !.pc = "up"]]
          BY <2>13, <4>a DEF Boot!SeedCRL, Boot!loadCRLCache
        <5> QED BY <4>0, <5>1
      <4>b. ASSUME crl = {}
            PROVE DOMAIN up'[r] = {"pc", "key", "cert", "crl"} /\ up'[r].key = up[r].key
                   /\ up'[r].cert = up[r].cert /\ up'[r].pc = "seed rest" /\ lock' = lock
        <5>1. up' = [up EXCEPT ![r].crl = Boot!newEmptyCRL(up[r].key), ![r].pc = "seed rest"]
              /\ lock' = lock
          BY <2>13, <4>b DEF Boot!SeedCRL
        <5> QED BY <4>0, <5>1
      <4>2. DOMAIN up'[r] = {"pc", "key", "cert", "crl"} /\ up'[r].key = up[r].key
            /\ up'[r].cert = up[r].cert
            /\ (up'[r].pc = "up" \/ (up'[r].pc = "seed rest" /\ lock' = lock))
        BY <4>a, <4>b
      <4>3. up[r].pc = "seed crl" /\ UNCHANGED <<key, cert, retired, import>>
        BY <2>13 DEF Boot!SeedCRL, Boot!SaveCRL
      <4>4. ~Alone' /\ (KnownKey(up[r].key) => KnownKey(up[r].key)')
        BY <2>a, <4>2, <4>3 DEF BootAt, Alone, KnownKey
      <4> QED BY <2>a, <4>2, <4>3, <4>4 DEF BootAt, Inside, Loaded
    <3>3. DOMAIN up' = Replicas /\ \A q \in Replicas \ {r} : up'[q] = up[q]
      BY <2>13, <1>0 DEF Boot!SeedCRL, Boot!SaveCRL, Boot!newEmptyCRL, Boot!loadCRLCache
    <3> QED BY ONLY ZenonT(60), <3>1, <3>2, <3>3
  <2>14. CASE Boot!SeedRest(r)
    <3>1. BootStore' /\ BootApart(r) /\ import' = import /\ Boot!KeySurvives
      BY <2>q, <2>14, <2>a, <1>0 DEF Boot!SeedRest, Boot!Goto, BootStore, BootAt, Inside,
         Loaded, KnownKey, Alone
    <3>2. BootAt(r)'
      BY <2>14, <2>a, <1>0 DEF Boot!SeedRest, Boot!Goto, BootStore, BootAt, Inside, Loaded,
         KnownKey, Alone
    <3>3. DOMAIN up' = Replicas /\ \A q \in Replicas \ {r} : up'[q] = up[q]
      BY <2>14, <1>0 DEF Boot!SeedRest, Boot!Goto
    <3> QED BY ONLY ZenonT(60), <3>1, <3>2, <3>3
  <2>15. CASE Boot!Crash(r)
    <3>1. BootStore' /\ BootApart(r) /\ import' = import /\ Boot!KeySurvives
      BY <2>q, <2>15, <2>a, <1>0 DEF Boot!Crash, Boot!Down, BootStore, BootAt, Inside, Loaded,
         KnownKey, Alone
    <3>2. BootAt(r)'
      BY <2>15, <2>a, <1>0 DEF Boot!Crash, Boot!Down, BootStore, BootAt, Inside, Loaded, KnownKey,
         Alone
    <3>3. DOMAIN up' = Replicas /\ \A q \in Replicas \ {r} : up'[q] = up[q]
      BY <2>15, <1>0 DEF Boot!Crash, Boot!Down
    <3> QED BY ONLY ZenonT(60), <3>1, <3>2, <3>3
  <2>16. CASE Boot!Revoke(r)
    <3>1. BootStore' /\ BootApart(r) /\ import' = import /\ Boot!KeySurvives
      BY <2>q, <2>16, <2>a, <1>0 DEF Boot!Revoke, Boot!SaveCRL, BootStore, BootAt, Inside,
         Loaded, KnownKey, Alone
    <3>2. BootAt(r)'
      BY <2>16, <2>a, <1>0 DEF Boot!Revoke, Boot!SaveCRL, BootStore, BootAt, Inside, Loaded,
         KnownKey, Alone
    <3>3. DOMAIN up' = Replicas /\ \A q \in Replicas \ {r} : up'[q] = up[q]
      BY <2>16, <1>0 DEF Boot!Revoke, Boot!SaveCRL
    <3> QED BY ONLY ZenonT(60), <3>1, <3>2, <3>3
  <2> QED BY <1>1, <2>1, <2>2, <2>3, <2>4, <2>5, <2>6, <2>7, <2>8, <2>9, <2>10, <2>11, <2>12,
             <2>13, <2>14, <2>15, <2>16 DEF Boot!Starting
<1>2. ASSUME UNCHANGED <<up, import, lock, cert, crl>>, requested \subseteq requested',
             BootStore', Boot!KeySurvives,
             key # 0 \/ ~Provider => lock = "free" \/ cert # {} \/ key' = key,
             \A k : KnownKey(k) /\ (cert # {} \/ k \in requested \/ Alone) => KnownKey(k)'
      PROVE  BootInv' /\ Boot!KeySurvives
  <2>1. BootApart("free")
    BY <1>2 DEF BootApart
  <2>2. \A q \in Replicas : BootAt(q)'
    BY <1>2, <1>n, <2>1, BootOthers DEF Alone
  <2>3. BootImport'
    BY <1>2, <1>n, <2>1, BootOthers
  <2> QED BY ONLY ZenonT(60), <1>0, <1>2, <2>2, <2>3 DEF BootInv
<1>3. ASSUME NEW u \in Operators, Boot!CSRBegin(u) \/ Boot!CSRCreate(u)
      PROVE  BootInv' /\ Boot!KeySurvives
  <2> USE DEF Boot!BuildCSR, Boot!SaveKey
  <2>1. UNCHANGED <<up, import, lock, cert, crl, retired>>
    BY <1>3 DEF Boot!CSRBegin, Boot!CSRCreate
  <2>2. \/ UNCHANGED <<key, keys>> /\ (requested' = requested
            \/ (key # 0 /\ requested' = requested \cup {key}))
        \/ /\ key = 0 /\ keys' = keys + 1 /\ key' = keys' /\ requested' = requested \cup {keys'}
           /\ Provider \/ lock = "free"
    BY <1>3 DEF Boot!CSRBegin, Boot!CSRCreate
  <2>3. keys' \in Nat /\ 0 \notin requested' /\ (key # 0 => key' = key)
        /\ requested \subseteq requested'
    BY SMTT(30), <1>0, <2>2 DEF BootStore
  <2>4. \A k : KnownKey(k) => KnownKey(k)'
    BY <2>1, <2>3 DEF KnownKey
  <2>5. BootStore' /\ Boot!KeySurvives
    BY <1>0, <2>1, <2>3, <2>4 DEF BootStore, Boot!KeySurvives
  <2> QED BY <1>2, <2>1, <2>2, <2>3, <2>4, <2>5
<1>4. ASSUME Boot!RemoveOrphan \/ Boot!ReplaceKey PROVE BootInv' /\ Boot!KeySurvives
  <2> USE DEF Boot!SaveKey
  <2>1. CASE Boot!RemoveOrphan
    <3>1. UNCHANGED <<up, import, lock, cert, crl, retired, requested, keys>> /\ cert = {}
          /\ key \notin requested /\ ~Alone /\ lock = "free"
      BY <1>0, <2>1 DEF Boot!RemoveOrphan, Boot!InstanceFree, BootImport, Alone
    <3>2. BootStore' /\ Boot!KeySurvives
      BY <1>0, <3>1 DEF BootStore, Boot!KeySurvives
    <3>3. \A k : KnownKey(k) /\ (cert # {} \/ k \in requested \/ Alone) => KnownKey(k)'
      BY <3>1 DEF KnownKey
    <3> QED BY <1>2, <3>1, <3>2, <3>3
  <2>2. CASE Boot!ReplaceKey
    <3>1. UNCHANGED <<up, import, lock, cert, crl>> /\ cert # {} /\ retired' = retired \cup {key}
          /\ keys' = keys + 1 /\ requested' = requested \cup {keys + 1}
      BY <2>2 DEF Boot!ReplaceKey, Boot!BuildCSR
    <3>2. keys' \in Nat /\ 0 \notin requested' /\ requested \subseteq requested'
      BY SMTT(30), <1>0, <3>1 DEF BootStore
    <3>3. \A k : KnownKey(k) => KnownKey(k)'
      BY <3>1 DEF KnownKey
    <3>4. BootStore' /\ Boot!KeySurvives
      BY <1>0, <3>1, <3>2, <3>3 DEF BootStore, Boot!KeySurvives
    <3> QED BY <1>2, <3>1, <3>2, <3>3, <3>4
  <2> QED BY <1>4, <2>1, <2>2
<1>6. ASSUME Boot!ImportKeyBegins PROVE BootInv' /\ Boot!KeySurvives
  <2>1. OneInstance /\ (\A q \in Replicas : up[q].pc = "down")
        /\ UNCHANGED <<up, lock, cert, crl, key, retired, requested>>
    BY <1>6 DEF Boot!ImportKeyBegins, Boot!InstanceFree
  <2>2. PICK k, chain : /\ k # 0 /\ keys' = (IF k = keys + 1 THEN k ELSE keys)
                        /\ import' = [pc |-> "key", own |-> TRUE, key |-> k,
                                      cert |-> {[key |-> k, gen |-> gens + 1]}, crl |-> chain]
    BY <1>6 DEF Boot!ImportKeyBegins
  <2>3. keys' \in Nat
    BY SMTT(30), <1>0, <2>2 DEF BootStore
  <2>4. BootStore' /\ Boot!KeySurvives
    BY <1>0, <2>1, <2>3 DEF BootStore, KnownKey, Boot!KeySurvives
  <2>5. \A q \in Replicas : BootAt(q)'
    BY <1>0, <2>1 DEF BootAt, Inside, Loaded
  <2>6. BootImport'
    <3>1. DOMAIN import' = {"pc", "own", "key", "cert", "crl"} /\ import'.pc = "key"
          /\ import'.own
          /\ import'.key = k /\ Certifies(import'.cert, k)
      BY <2>2 DEF Certifies
    <3> QED BY <2>1, <2>2, <3>1 DEF BootImport, Alone
  <2> QED BY <1>0, <2>1, <2>4, <2>5, <2>6 DEF BootInv
<1>7. ASSUME Boot!Import PROVE BootInv' /\ Boot!KeySurvives
  <2>0. BootImport /\ DOMAIN import = {"pc", "own", "key", "cert", "crl"}
    BY <1>0 DEF BootImport
  <2>a. SUFFICES /\ BootStore' /\ BootImport' /\ up' = up /\ (Alone' => Alone) /\ Boot!KeySurvives
                 /\ ~Alone => BootApart("import")
    <3>1. ASSUME NEW q \in Replicas, up' = up, Alone, Alone' => Alone PROVE BootAt(q)'
      BY <1>0, <3>1 DEF BootAt, Inside, Loaded
    <3>2. ASSUME NEW q \in Replicas, up' = up, BootApart("import"), Alone' => Alone
          PROVE  BootAt(q)'
      BY <3>2, BootOthers
    <3> QED BY <1>0, <3>1, <3>2 DEF BootInv
  <2>k. CASE Boot!ImportKey
    <3>1. Alone /\ import.pc = "key" /\ key' = import.key /\ import.key # 0 /\ import.own
          /\ retired' = retired \cup ({key} \ {0, import.key})
          /\ UNCHANGED <<up, lock, cert, crl, keys, requested>>
          /\ import' = [import EXCEPT !.pc = "cert"]
      BY <2>k, <2>0 DEF Boot!ImportKey, Boot!SaveKey, BootImport, Alone
    <3>2. \A k : KnownKey(k) => KnownKey(k)'
      BY <3>1 DEF KnownKey
    <3>3. BootStore' /\ Boot!KeySurvives
      BY <1>0, <3>1, <3>2 DEF BootStore, Boot!KeySurvives
    <3>4. import'.pc = "cert" /\ import'.own = import.own /\ import'.key = import.key
          /\ import'.cert = import.cert /\ DOMAIN import' = {"pc", "own", "key", "cert", "crl"}
      BY <2>0, <3>1
    <3>5. BootImport'
      BY <2>0, <3>1, <3>4 DEF BootImport, Alone, KnownKey
    <3> QED BY <3>1, <3>3, <3>5
  <2>b. SUFFICES ASSUME ~Boot!ImportKey
        PROVE  BootStore' /\ BootImport' /\ (~Alone => BootApart("import")) /\ (Alone' => Alone)
    BY <1>7, <2>k DEF Boot!Import, Boot!ImportBegins, Boot!ImportLock, Boot!ImportTimesOut,
       Boot!ImportResign, Boot!ImportCert, Boot!ImportPub, Boot!ImportCRL, Boot!ImportRest,
       Boot!ImportCrash, Boot!SaveCert, Boot!SavePub, Boot!SaveCRL, Boot!KeySurvives
  <2>q. ASSUME UNCHANGED <<key, keys, retired, requested>>, cert' # {} \/ cert' = cert,
               cert' = cert \/ (Certifies(cert', import.key) /\ KnownKey(import.key)),
               cert' = cert \/ lock = "import" \/ Alone, crl' # {} => cert' # {},
               lock' = lock \/ lock \in {"import", "free"},
               crl' = crl \/ lock = "import" \/ Alone
        PROVE  BootStore' /\ (~Alone => BootApart("import"))
    BY <2>q, <1>0 DEF BootStore, BootApart, KnownKey
  <2>i. ASSUME UNCHANGED <<key, retired, requested>>, cert' # {} \/ cert' = cert,
               DOMAIN import' = {"pc", "own", "key", "cert", "crl"},
               import'.own = import.own, import'.key = import.key, import'.cert = import.cert,
               import.pc # "idle", import'.pc \notin {"idle", "key", "lock"},
               import'.pc \in {"pub", "crl", "rest"} => cert' # {},
               import.own \/ lock' = "import", import.pc # "key"
        PROVE  BootImport' /\ (Alone' => Alone)
    BY <2>q, <2>i, <2>0 DEF BootImport, Alone, KnownKey
  <2>e. ASSUME import' = Boot!NoImport PROVE BootImport' /\ (Alone' => Alone)
    <3>1. DOMAIN import' = {"pc", "own", "key", "cert", "crl"} /\ import'.pc = "idle"
          /\ ~import'.own
      BY <2>e DEF Boot!NoImport
    <3> QED BY <3>1 DEF BootImport, Alone
  <2>1. CASE Boot!ImportBegins
    <3>1. UNCHANGED <<key, keys, retired, requested, cert, crl, lock>> /\ key \in requested
      BY <2>1 DEF Boot!ImportBegins
    <3>2. import' = [pc |-> "lock", own |-> FALSE, key |-> key,
                     cert |-> {[key |-> key, gen |-> gens + 1]}, crl |-> {}]
      BY <2>1 DEF Boot!ImportBegins
    <3>3. DOMAIN import' = {"pc", "own", "key", "cert", "crl"} /\ import'.pc = "lock"
          /\ ~import'.own
          /\ import'.key = key /\ Certifies(import'.cert, key)
      BY <3>2 DEF Certifies
    <3>4. key # 0
      BY <1>0, <3>1 DEF BootStore
    <3>5. BootImport' /\ (Alone' => Alone)
      BY <3>1, <3>3, <3>4 DEF BootImport, Alone, KnownKey
    <3>6. crl' # {} => cert' # {}
      BY <1>0, <3>1 DEF BootStore
    <3> QED BY <2>q, <3>1, <3>5, <3>6
  <2>2. CASE Boot!ImportLock
    <3>1. UNCHANGED <<key, keys, retired, requested, cert, crl>> /\ import.pc = "lock"
          /\ lock = "free"
      BY <2>2 DEF Boot!ImportLock
    <3>2. crl' # {} => cert' # {}
      BY <1>0, <3>1 DEF BootStore
    <3>3. CASE import' = Boot!NoImport
      BY <2>q, <2>e, <3>1, <3>2, <3>3
    <3>4. CASE /\ lock' = "import"
               /\ import' = [import EXCEPT !.pc = IF cert # {} THEN "resign" ELSE "cert"]
      <4>1. import'.pc \in {"resign", "cert"} /\ import'.own = import.own
            /\ import'.key = import.key
            /\ import'.cert = import.cert /\ DOMAIN import' = {"pc", "own", "key", "cert", "crl"}
        BY <2>0, <3>4
      <4>2. BootImport' /\ (Alone' => Alone)
        BY <2>i, <3>1, <3>4, <4>1
      <4> QED BY <2>q, <3>1, <3>2, <4>2
    <3> QED BY <2>2, <3>3, <3>4 DEF Boot!ImportLock
  <2>3. CASE Boot!ImportResign
    <3>1. /\ UNCHANGED <<key, keys, retired, requested>> /\ import.pc = "resign"
          /\ (import.own \/ lock = "import") /\ (lock = "import" \/ Alone) /\ lock' = lock
          /\ UNCHANGED <<cert, crl>> /\ (crl' # {} => cert' # {})
      BY <2>3, <2>0, <1>0 DEF Boot!ImportResign, BootImport, BootStore, Alone
    <3>2. import'.pc = "cert" /\ import'.own = import.own /\ import'.key = import.key
          /\ import'.cert = import.cert /\ DOMAIN import' = {"pc", "own", "key", "cert", "crl"}
      BY <2>3, <2>0 DEF Boot!ImportResign
    <3>3. BootImport' /\ (Alone' => Alone)
      BY <2>i, <3>1, <3>2
    <3> QED BY <2>q, <3>1, <3>3
  <2>4. CASE Boot!ImportCert
    <3>1. /\ UNCHANGED <<key, keys, retired, requested>> /\ import.pc = "cert"
          /\ (import.own \/ lock = "import") /\ (lock = "import" \/ Alone) /\ lock' = lock
          /\ cert' = import.cert /\ crl' = crl
          /\ Certifies(import.cert, import.key) /\ KnownKey(import.key)
      BY <2>4, <2>0, <1>0 DEF Boot!ImportCert, Boot!SaveCert, BootImport, BootStore, Alone
    <3>2. import'.pc = "pub" /\ import'.own = import.own /\ import'.key = import.key
          /\ import'.cert = import.cert /\ DOMAIN import' = {"pc", "own", "key", "cert", "crl"}
      BY <2>4, <2>0 DEF Boot!ImportCert
    <3>3. BootImport' /\ (Alone' => Alone)
      BY <2>i, <3>1, <3>2, OnlyCertificate
    <3> QED BY <2>q, <3>1, <3>3, OnlyCertificate
  <2>5. CASE Boot!ImportPub
    <3>1. /\ UNCHANGED <<key, keys, retired, requested>> /\ import.pc = "pub"
          /\ (import.own \/ lock = "import") /\ (lock = "import" \/ Alone) /\ lock' = lock
          /\ UNCHANGED <<cert, crl>> /\ cert # {}
      BY <2>5, <2>0, <1>0 DEF Boot!ImportPub, Boot!SavePub, BootImport, BootStore, Alone
    <3>2. import'.pc = "crl" /\ import'.own = import.own /\ import'.key = import.key
          /\ import'.cert = import.cert /\ DOMAIN import' = {"pc", "own", "key", "cert", "crl"}
      BY <2>5, <2>0 DEF Boot!ImportPub
    <3>3. BootImport' /\ (Alone' => Alone)
      BY <2>i, <3>1, <3>2
    <3> QED BY <2>q, <3>1, <3>3
  <2>6. CASE Boot!ImportCRL
    <3>1. /\ UNCHANGED <<key, keys, retired, requested>> /\ import.pc = "crl"
          /\ (import.own \/ lock = "import") /\ (lock = "import" \/ Alone) /\ lock' = lock
          /\ cert' = cert /\ cert # {}
      BY <2>6, <2>0, <1>0 DEF Boot!ImportCRL, Boot!SaveCRL, BootImport, BootStore, Alone
    <3>2. import'.pc = "rest" /\ import'.own = import.own /\ import'.key = import.key
          /\ import'.cert = import.cert /\ DOMAIN import' = {"pc", "own", "key", "cert", "crl"}
      BY <2>6, <2>0 DEF Boot!ImportCRL
    <3>3. BootImport' /\ (Alone' => Alone)
      BY <2>i, <3>1, <3>2
    <3> QED BY <2>q, <3>1, <3>3
  <2>7. CASE Boot!ImportRest \/ Boot!ImportCrash \/ Boot!ImportTimesOut
    <3>1. /\ UNCHANGED <<key, keys, retired, requested, cert, crl>> /\ import' = Boot!NoImport
          /\ lock' = lock \/ lock = "import"
      BY <2>7 DEF Boot!ImportRest, Boot!ImportCrash, Boot!ImportTimesOut, Boot!ImportEnds
    <3>2. crl' # {} => cert' # {}
      BY <1>0, <3>1 DEF BootStore
    <3> QED BY <2>q, <2>e, <3>1, <3>2
  <2> QED BY <1>7, <2>b, <2>1, <2>2, <2>3, <2>4, <2>5, <2>6, <2>7 DEF Boot!Import
<1>5. ASSUME UNCHANGED Boot!vars PROVE BootInv' /\ Boot!KeySurvives
  <2>1. UNCHANGED <<up, import, lock, cert, crl, key, keys, requested, retired>>
    BY <1>5 DEF Boot!vars
  <2>2. BootStore' /\ Boot!KeySurvives /\ \A k : KnownKey(k) => KnownKey(k)'
    BY <1>0, <2>1 DEF BootStore, Boot!KeySurvives, KnownKey
  <2> QED BY <1>2, <2>1, <2>2
<1> QED BY <1>1, <1>3, <1>4, <1>5, <1>6, <1>7 DEF Boot!Next

\* The invariant holds of an empty store on which no CA.Init has run.
LEMMA BootInit == Boot!Init => BootInv
<1> SUFFICES ASSUME Boot!Init PROVE BootInv
  OBVIOUS
<1>1. BootStore
  <2>1. keys = 0 /\ requested = {} /\ cert = {} /\ crl = {}
    BY DEF Boot!Init
  <2>2. keys \in Nat
    BY ONLY SMTT(30), <2>1
  <2> QED BY <2>1, <2>2 DEF BootStore
<1>2. \A r \in Replicas : BootAt(r)
  BY DEF Boot!Init, Boot!Down, Boot!NoImport, BootAt, Inside, Loaded, Alone
<1>3. BootImport
  BY DEF Boot!Init, Boot!NoImport, BootImport, Alone
<1>4. DOMAIN up = Replicas
  BY DEF Boot!Init
<1> QED BY <1>1, <1>2, <1>3, <1>4 DEF BootInv

\* It holds in every reachable state of the starts and the commands.
LEMMA BootReached ==
  ASSUME {"free", "import"} \cap Replicas = {}
  PROVE  Boot!Spec => []BootInv
<1>1. BootInv /\ [Boot!Next]_(Boot!vars) => BootInv'
  BY BootStep
<1> QED BY <1>1, BootInit, PTL DEF Boot!Spec

\* Starts of any number of replicas, csr --create-key, import-ca-cert, an import with
\* a private key and a key the operator replaces, in any order and with crashes
\* between any two writes, leave one CA: every replica that serves holds a key of its
\* certificate, the stored one or one the operator has replaced (CA.Init,
\* bootstrapCA, importCAMaterial).
THEOREM BootOneCA ==
  ASSUME {"free", "import"} \cap Replicas = {}
  PROVE  Boot!Spec => []Boot!OneCA
<1>1. ASSUME BootInv PROVE Boot!OneCA
  <2>1. ASSUME NEW r \in Replicas, up[r].pc = "up"
        PROVE  (up[r].key = key \/ up[r].key \in retired) /\ Boot!Matches(up[r].key, up[r].cert)
    <3>1. KnownKey(up[r].key) /\ Certifies(up[r].cert, up[r].key)
      BY <1>1, <2>1 DEF BootInv, BootAt, Loaded
    <3> QED BY <3>1, OnlyCertificate DEF Boot!Matches, KnownKey
  <2> QED BY <2>1 DEF Boot!OneCA
<1> QED BY <1>1, BootReached, PTL

\* No step but the operator's own replacement takes away a key beside a certificate
\* or one that a parent has been asked to certify (bootstrapCA, LoadOrCreateCAKey,
\* importCAMaterial).
THEOREM BootKeySurvives ==
  ASSUME {"free", "import"} \cap Replicas = {}
  PROVE  Boot!Spec => [][Boot!KeySurvives]_(Boot!vars)
<1>1. BootInv /\ [Boot!Next]_(Boot!vars) => [Boot!KeySurvives]_(Boot!vars)
  BY BootStep
<1> QED BY <1>1, BootReached, PTL DEF Boot!Spec

\* Without a provisioning command there is no import, and a store without a CRL has
\* had no revocation.
Unprovisioned ==
  /\ requested = {} /\ import.pc = "idle"
  /\ crl = {} => revoked = {}
  /\ Boot!RevocationsKept

\* The only element of a set of one: the blob that is stored.
LEMMA OnlyOne == ASSUME NEW x PROVE Boot!Only({x}) = x
<1>1. \E y \in {x} : TRUE
  OBVIOUS
<1> QED BY SMTT(30), <1>1 DEF Boot!Only

\* Starting replicas never take a revocation off the stored list (bootstrapCA,
\* seedSupportingStateLocked).
LEMMA UnprovisionedStep ==
  ASSUME Operators = {}, BootInv, Unprovisioned, [Boot!Next]_(Boot!vars)
  PROVE  Unprovisioned'
<1> USE DEF Boot!blobs, Boot!budget, Boot!replaced
<1>1. ASSUME UNCHANGED <<crl, revoked, requested, import>> PROVE Unprovisioned'
  BY <1>1 DEF Unprovisioned, Boot!RevocationsKept
<1>2. ASSUME crl = {}, NEW k, crl' = Boot!newEmptyCRL(k), UNCHANGED <<revoked, requested, import>>
      PROVE  Unprovisioned'
  BY <1>2 DEF Unprovisioned, Boot!RevocationsKept, Boot!newEmptyCRL
<1>3. ASSUME NEW r \in Replicas, Boot!Starting(r) PROVE Unprovisioned'
  <2>1. CASE Boot!BootstrapCRL(r)
    <3>1. crl = {}
      BY <2>1 DEF Boot!BootstrapCRL, BootInv, BootAt
    <3> QED BY <1>2, <2>1, <3>1 DEF Boot!BootstrapCRL, Boot!SaveCRL
  <2>2. CASE Boot!SeedCRL(r)
    BY <1>1, <1>2, <2>2 DEF Boot!SeedCRL, Boot!SaveCRL
  <2>3. CASE Boot!Start(r) \/ Boot!LoadCert(r) \/ Boot!LoadCRL(r) \/ Boot!Lock(r)
             \/ Boot!LockTimesOut(r)
             \/ Boot!Decide(r)
    BY <1>1, <2>3 DEF Boot!Start, Boot!LoadCert, Boot!LoadCRL, Boot!Lock, Boot!LockTimesOut,
       Boot!Decide
  <2>4. CASE Boot!BootstrapKey(r) \/ Boot!BootstrapCert(r) \/ Boot!BootstrapPub(r)
             \/ Boot!BootstrapTouch(r)
             \/ Boot!SeedPub(r) \/ Boot!SeedRest(r)
    BY <1>1, <2>4 DEF Boot!BootstrapKey, Boot!BootstrapCert, Boot!BootstrapPub,
       Boot!BootstrapTouch,
       Boot!SeedPub, Boot!SeedRest, Boot!SaveKey, Boot!SaveCert, Boot!SavePub
  <2> QED BY <1>3, <2>1, <2>2, <2>3, <2>4 DEF Boot!Starting
<1>4. ASSUME NEW r \in Replicas, Boot!Crash(r) PROVE Unprovisioned'
  BY <1>1, <1>4 DEF Boot!Crash
<1>5. ASSUME NEW r \in Replicas, Boot!Revoke(r) PROVE Unprovisioned'
  <2>1. PICK n, b, m : /\ revoked' = revoked \cup {n} /\ crl # {}
                       /\ crl' = {[by |-> b, num |-> m, dead |-> Boot!Only(crl).dead \cup {n}]}
                       /\ UNCHANGED <<requested, import>>
    BY <1>5 DEF Boot!Revoke, Boot!SaveCRL
  <2>2. Boot!Only(crl').dead = Boot!Only(crl).dead \cup {n}
    <3> DEFINE c == [by |-> b, num |-> m, dead |-> Boot!Only(crl).dead \cup {n}]
    <3>1. c.dead = Boot!Only(crl).dead \cup {n}
      OBVIOUS
    <3>2. crl' = {c}
      BY <2>1
    <3> HIDE DEF c
    <3>3. Boot!Only({c}) = c
      BY OnlyOne
    <3> QED BY <3>1, <3>2, <3>3
  <2>3. revoked \subseteq Boot!Only(crl).dead
    BY <2>1 DEF Unprovisioned, Boot!RevocationsKept
  <2> QED BY <2>1, <2>2, <2>3 DEF Unprovisioned, Boot!RevocationsKept
<1>6. ~ Boot!Import
  BY DEF Unprovisioned, Boot!Import, Boot!ImportKey, Boot!ImportBegins, Boot!ImportLock,
     Boot!ImportTimesOut, Boot!ImportResign, Boot!ImportCert, Boot!ImportPub, Boot!ImportCRL,
     Boot!ImportRest, Boot!ImportCrash
<1>7. ASSUME Boot!RemoveOrphan PROVE Unprovisioned'
  BY <1>1, <1>7 DEF Boot!RemoveOrphan, Boot!SaveKey
<1>8. ASSUME UNCHANGED Boot!vars PROVE Unprovisioned'
  BY <1>1, <1>8 DEF Boot!vars
<1> QED BY <1>3, <1>4, <1>5, <1>6, <1>7, <1>8 DEF Boot!Next

\* Where no provisioning command runs, a revocation that was published stays on the
\* stored list, whichever replica starts, crashes or seeds a missing CRL (bootstrapCA,
\* seedSupportingStateLocked, its second look at the CRL under the lock).
THEOREM BootKeepsRevocations ==
  ASSUME {"free", "import"} \cap Replicas = {}, Operators = {}
  PROVE  Boot!Spec => []Boot!RevocationsKept
<1>1. Boot!Init => Unprovisioned
  <2> SUFFICES ASSUME Boot!Init PROVE Unprovisioned
    OBVIOUS
  <2>1. requested = {} /\ import.pc = "idle" /\ crl = {} /\ revoked = {}
    BY DEF Boot!Init, Boot!NoImport
  <2> QED BY ONLY ZenonT(60), <2>1 DEF Unprovisioned, Boot!RevocationsKept
<1>2. BootInv /\ Unprovisioned /\ [Boot!Next]_(Boot!vars) => Unprovisioned'
  BY UnprovisionedStep
<1>3. Unprovisioned => Boot!RevocationsKept
  BY DEF Unprovisioned
<1> QED BY <1>1, <1>2, <1>3, BootReached, PTL DEF Boot!Spec

-----------------------------------------------------------------------------
(* The rebuilt integrity value *)

CONSTANTS Chained, Distributed, Known, Enforced, MaxRuns

VARIABLES rows, head, hkey, legacy, server, pend, inst, cmd, runs

Rebuild == INSTANCE RebuildHMAC

\* The command is past its gates.
Committed == cmd.pc \in {"lock", "key", "snap", "write", "reread", "compare"}

CmdFields == DOMAIN cmd = {"pc", "confirm", "quiet", "rep", "now", "key", "snap"}

\* Who may be writing: a server excludes the command wherever the lock does, and
\* nobody who holds the lock meets a legacy blob.
Writers ==
  /\ inst = "cmd" =>
       /\ Enforced /\ ~Rebuild!Unchecked /\ server = Rebuild!None
       /\ cmd.pc \in {"key", "snap", "write", "reread", "compare"}
  /\ server # Rebuild!None => legacy = {} /\ (Enforced => inst = "server")
  /\ pend # {} => server # Rebuild!None /\ ~Chained

\* A key that the report found usable stays the store's key.
Reported ==
  /\ Committed => legacy = {} /\ hkey # Rebuild!None
  /\ Committed \/ cmd.pc = "gates" =>
       /\ Rebuild!Usable(cmd.rep.hkey) => hkey = cmd.rep.hkey
       /\ cmd.rep.hkey # Rebuild!None => hkey # Rebuild!None

\* An entry that the second report missed is in the value of the chain.
Reread ==
  cmd.pc = "compare" =>
    /\ cmd.now \subseteq rows
    /\ Chained /\ cmd.now # rows =>
         head # Rebuild!NoHead /\ \E e \in head.over : e \notin cmd.now

\* Under the lock the two writes leave a value over the rows that are there.
Repaired ==
  inst = "cmd" =>
    /\ cmd.pc \in {"snap", "write"} => Rebuild!Usable(hkey) /\ cmd.key = hkey
    /\ cmd.pc = "write" => cmd.snap = rows
    /\ cmd.pc \in {"reread", "compare"} =>
         Rebuild!Usable(hkey) /\ head = Rebuild!Mac(hkey, rows)
    /\ cmd.pc = "compare" => cmd.now = rows

RebuildInv == CmdFields /\ Writers /\ Reported /\ Reread /\ Repaired

\* No command runs yet.
LEMMA RebuildInit == Rebuild!Init => RebuildInv
<1> SUFFICES ASSUME Rebuild!Init PROVE RebuildInv
  OBVIOUS
<1>1. cmd.pc = "idle" /\ CmdFields
  BY DEF Rebuild!Init, Rebuild!Idle, CmdFields
<1>2. server = Rebuild!None /\ pend = {} /\ inst # "cmd"
  BY DEF Rebuild!Init, Rebuild!None
<1> QED BY <1>1, <1>2 DEF RebuildInv, Writers, Committed, Reported, Reread, Repaired

\* Every step keeps the invariant: the command writes under the instance lock it holds
\* (holdInstanceLock, EnsureHMACKey), and a server appends to what it has verified.
LEMMA RebuildStep ==
  ASSUME RebuildInv, Rebuild!Next PROVE RebuildInv'
<1> USE DEF RebuildInv, CmdFields, Writers, Reported, Reread, Repaired, Committed,
            Rebuild!store, Rebuild!None, Rebuild!Ends
<1>1. CASE Rebuild!Begin
  <2>1. PICK c, q \in BOOLEAN :
          cmd' = [Rebuild!Idle EXCEPT !.pc = "rows", !.confirm = c, !.quiet = q]
    BY <1>1 DEF Rebuild!Begin
  <2>2. cmd'.pc = "rows" /\ CmdFields'
    BY ONLY SMTT(30), <2>1 DEF Rebuild!Idle, CmdFields
  <2> QED BY <1>1, <2>2 DEF Rebuild!Begin
<1>2. CASE Rebuild!ReadRows
  BY <1>2 DEF Rebuild!ReadRows
<1>3. CASE Rebuild!ReadHead
  BY <1>3 DEF Rebuild!ReadHead
<1>4. CASE Rebuild!Gates
  BY <1>4 DEF Rebuild!Gates
<1>5. CASE Rebuild!HoldLock
  BY <1>5 DEF Rebuild!HoldLock
<1>6. CASE Rebuild!RebuildKey
  BY <1>6 DEF Rebuild!RebuildKey, Rebuild!Usable, Rebuild!KeyNames
<1>7. CASE Rebuild!ComputeHead
  BY <1>7 DEF Rebuild!ComputeHead
<1>8. CASE Rebuild!WriteHead
  BY <1>8 DEF Rebuild!WriteHead
<1>9. CASE Rebuild!ReRead
  BY <1>9 DEF Rebuild!ReRead
<1>10. CASE Rebuild!Compare
  BY <1>10 DEF Rebuild!Compare
<1>11. CASE Rebuild!Done
  BY <1>11 DEF Rebuild!Done, Rebuild!Idle
<1>12. CASE Rebuild!Fail
  BY <1>12 DEF Rebuild!Fail
<1>13. CASE Rebuild!Start
  BY <1>13 DEF Rebuild!Start, Rebuild!Usable, Rebuild!KeyNames
<1>14. CASE Rebuild!Append
  <2>1. PICK e \in Rebuild!Fresh :
          /\ rows' = rows \cup {e}
          /\ \/ /\ Chained /\ pend' = pend
                /\ head' \in {Rebuild!Mac(server, head.over \cup {e}), Rebuild!Mac("mixed", {e})}
             \/ ~Chained
    BY <1>14 DEF Rebuild!Append
  <2>2. UNCHANGED <<hkey, legacy, server, inst, cmd, runs>> /\ server # Rebuild!None /\ inst # "cmd"
    BY <1>14 DEF Rebuild!Append
  <2>3. e \notin rows
    BY <2>1 DEF Rebuild!Fresh
  <2>4. Chained => head' # Rebuild!NoHead /\ e \in head'.over
    BY ONLY SMTT(30), <2>1 DEF Rebuild!Mac, Rebuild!NoHead
  <2>5. Reread'
    <3>1. SUFFICES ASSUME cmd.pc = "compare" PROVE Reread'
      BY <2>2
    <3> QED BY <2>1, <2>2, <2>3, <2>4, <3>1
  <2> QED BY ONLY ZenonT(60), RebuildInv, <2>1, <2>2, <2>5
          DEF RebuildInv, CmdFields, Writers, Reported, Repaired, Committed
<1>15. CASE Rebuild!AppendMac
  BY <1>15 DEF Rebuild!AppendMac
<1>16. CASE Rebuild!Stop
  BY <1>16 DEF Rebuild!Stop
<1> QED BY <1>1, <1>2, <1>3, <1>4, <1>5, <1>6, <1>7, <1>8, <1>9, <1>10, <1>11, <1>12, <1>13,
           <1>14, <1>15, <1>16 DEF Rebuild!Next, Rebuild!Command

\* The command reports success from the comparison of its two reports alone
\* (newRebuildInventoryHMACCmdWith).
LEMMA OnlyCompareSucceeds ==
  ASSUME CmdFields, Rebuild!Next, cmd.pc # "rebuilt", cmd'.pc = "rebuilt"
  PROVE  Rebuild!Compare
<1>1. ASSUME NEW p, p # "rebuilt", cmd' = [cmd EXCEPT !.pc = p] PROVE FALSE
  BY <1>1 DEF CmdFields
<1>2. ASSUME Rebuild!Begin PROVE FALSE
  <2>1. PICK c, q \in BOOLEAN :
          cmd' = [Rebuild!Idle EXCEPT !.pc = "rows", !.confirm = c, !.quiet = q]
    BY <1>2 DEF Rebuild!Begin
  <2>2. cmd'.pc = "rows"
    BY ONLY SMTT(30), <2>1 DEF Rebuild!Idle
  <2> QED BY <2>2
<1>3. ~Rebuild!ReadRows
  BY DEF Rebuild!ReadRows, CmdFields
<1>4. ~Rebuild!ReadHead
  BY DEF Rebuild!ReadHead, CmdFields
<1>5. ~Rebuild!Gates
  BY <1>1 DEF Rebuild!Gates, Rebuild!Ends
<1>6. ~Rebuild!HoldLock
  BY <1>1 DEF Rebuild!HoldLock, Rebuild!Ends
<1>7. ~Rebuild!RebuildKey
  BY DEF Rebuild!RebuildKey, CmdFields
<1>8. ~Rebuild!ComputeHead /\ ~Rebuild!ReRead /\ ~Rebuild!WriteHead
  BY DEF Rebuild!ComputeHead, Rebuild!ReRead, Rebuild!WriteHead, CmdFields
<1>9. ASSUME Rebuild!Done PROVE FALSE
  <2>1. cmd' = Rebuild!Idle
    BY <1>9 DEF Rebuild!Done
  <2>2. cmd'.pc = "idle"
    BY ONLY SMTT(30), <2>1 DEF Rebuild!Idle
  <2> QED BY <2>2
<1>10. ~Rebuild!Fail
  BY <1>1 DEF Rebuild!Fail, Rebuild!Ends
<1>11. ~Rebuild!Start /\ ~Rebuild!Append /\ ~Rebuild!AppendMac /\ ~Rebuild!Stop
  BY DEF Rebuild!Start, Rebuild!Append, Rebuild!AppendMac, Rebuild!Stop
<1> QED BY <1>2, <1>3, <1>4, <1>5, <1>6, <1>7, <1>8, <1>9, <1>10, <1>11
        DEF Rebuild!Next, Rebuild!Command

\* rebuild-inventory-hmac reports success on a structured store only when the store
\* verifies then, and anywhere only over the entries it showed; it leaves the value of a
\* legacy blob alone, and a last run that holds the instance lock and meets no new entry
\* repairs the store (newRebuildInventoryHMACCmdWith).  For any number of runs, killed
\* ones among them, and servers that start and append between any two steps.
THEOREM RebuildEarnsItsValue ==
  ASSUME MaxRuns \in Nat
  PROVE  Rebuild!Spec => [][/\ Rebuild!SuccessIsCurrent /\ Rebuild!BlessedAsShown
                            /\ Rebuild!LegacyBaselineKept /\ Rebuild!RepairLands]_(Rebuild!vars)
<1>1. RebuildInv /\ UNCHANGED Rebuild!vars => RebuildInv'
  BY DEF RebuildInv, CmdFields, Writers, Reported, Reread, Repaired, Committed, Rebuild!vars
<1>2. ASSUME RebuildInv, Rebuild!Next, cmd.pc # "rebuilt", cmd'.pc = "rebuilt"
      PROVE  Rebuild!SuccessIsCurrent /\ Rebuild!BlessedAsShown
  <2>1. Rebuild!Compare
    BY <1>2, OnlyCompareSucceeds DEF RebuildInv
  <2>2. Rebuild!Matches(hkey, head, cmd.now) /\ ~Rebuild!Changed(cmd.rep, cmd.now)
    BY <1>2, <2>1 DEF Rebuild!Compare, Rebuild!Ends, RebuildInv, CmdFields
  <2>3. head.over = cmd.now
    <3>1. head = Rebuild!Mac(hkey, cmd.now)
      BY <2>2 DEF Rebuild!Matches
    <3> QED BY ONLY SMTT(30), <3>1 DEF Rebuild!Mac
  <2>4. Chained => cmd.now = rows
    BY <1>2, <2>1, <2>3 DEF RebuildInv, Reread, Rebuild!Compare
  <2>5. ASSUME Rebuild!Usable(cmd.rep.hkey) PROVE head.over = cmd.rep.rows
    <3>1. head = Rebuild!Mac(cmd.rep.hkey, cmd.rep.rows)
      BY <2>2, <2>5 DEF Rebuild!Changed
    <3> QED BY ONLY SMTT(30), <3>1 DEF Rebuild!Mac
  <2>6. Rebuild!Cardinality(head.over) = Rebuild!Cardinality(cmd.rep.rows)
    <3>1. CASE Rebuild!Usable(cmd.rep.hkey)
      BY <2>5, <3>1
    <3>2. CASE ~Rebuild!Usable(cmd.rep.hkey)
      <4>1. Rebuild!Cardinality(cmd.now) = Rebuild!Cardinality(cmd.rep.rows)
        BY <2>2, <3>2 DEF Rebuild!Changed
      <4> QED BY <2>3, <4>1
    <3> QED BY <3>1, <3>2
  <2>7. Rebuild!SuccessIsCurrent
    BY <2>2, <2>4 DEF Rebuild!SuccessIsCurrent
  <2>8. Rebuild!BlessedAsShown
    BY <2>5, <2>6 DEF Rebuild!BlessedAsShown
  <2> QED BY <2>7, <2>8
<1>4. ASSUME RebuildInv, Rebuild!Next PROVE Rebuild!LegacyBaselineKept
  <2>1. SUFFICES ASSUME legacy # {}, legacy' # {} PROVE head' = head
    BY DEF Rebuild!LegacyBaselineKept
  <2>2. ~Rebuild!Start
    BY <2>1 DEF Rebuild!Start
  <2>3. ~Rebuild!Append /\ ~Rebuild!AppendMac
    BY <1>4, <2>1 DEF RebuildInv, Writers, Rebuild!Append, Rebuild!AppendMac
  <2>4. ~Rebuild!WriteHead
    BY <1>4, <2>1 DEF RebuildInv, Reported, Committed, Rebuild!WriteHead
  <2>5. Rebuild!Command => head' = head
    BY <2>4 DEF Rebuild!Command, Rebuild!ReadRows, Rebuild!ReadHead, Rebuild!Gates,
       Rebuild!HoldLock, Rebuild!RebuildKey, Rebuild!ComputeHead, Rebuild!ReRead,
       Rebuild!Compare, Rebuild!Done, Rebuild!store
  <2> QED BY <1>4, <2>2, <2>3, <2>5 DEF Rebuild!Next, Rebuild!Begin, Rebuild!Fail,
             Rebuild!Stop, Rebuild!store
<1>5. ASSUME RebuildInv, Rebuild!Next PROVE Rebuild!RepairLands
  <2>1. SUFFICES ASSUME cmd.pc = "compare", inst = "cmd", runs = MaxRuns, rows = cmd.rep.rows
                 PROVE  cmd'.pc # "error"
    BY DEF Rebuild!RepairLands
  <2>2. /\ Rebuild!Usable(hkey) /\ head = Rebuild!Mac(hkey, rows) /\ cmd.now = rows
        /\ Rebuild!Usable(cmd.rep.hkey) => hkey = cmd.rep.hkey
    BY <1>5, <2>1 DEF RebuildInv, Repaired, Reported, Committed
  <2>3. head # Rebuild!NoHead
    BY SMTT(30), <2>2 DEF Rebuild!Usable, Rebuild!KeyNames, Rebuild!Mac, Rebuild!NoHead,
       Rebuild!None
  <2>4. Rebuild!Matches(hkey, head, cmd.now) /\ ~Rebuild!Changed(cmd.rep, cmd.now)
    BY <2>1, <2>2, <2>3 DEF Rebuild!Matches, Rebuild!Changed
  <2>5. Rebuild!Compare => cmd'.pc # "error"
    BY <1>5, <2>4 DEF Rebuild!Compare, Rebuild!Ends, RebuildInv, CmdFields
  <2>6. ~Rebuild!Fail
    BY SMTT(30), <2>1 DEF Rebuild!Fail
  <2>7. Rebuild!Command => Rebuild!Compare
    BY <2>1 DEF Rebuild!Command, Rebuild!ReadRows, Rebuild!ReadHead, Rebuild!Gates,
       Rebuild!HoldLock, Rebuild!RebuildKey, Rebuild!ComputeHead, Rebuild!WriteHead,
       Rebuild!ReRead, Rebuild!Done
  <2> QED BY <1>5, <2>1, <2>5, <2>6, <2>7 DEF Rebuild!Next, Rebuild!Begin, Rebuild!Start,
             Rebuild!Append, Rebuild!AppendMac, Rebuild!Stop
<1>6. RebuildInv /\ Rebuild!Next => Rebuild!SuccessIsCurrent /\ Rebuild!BlessedAsShown
  BY <1>2 DEF Rebuild!SuccessIsCurrent, Rebuild!BlessedAsShown
<1> QED BY <1>1, <1>4, <1>5, <1>6, RebuildInit, RebuildStep, PTL DEF Rebuild!Spec

-----------------------------------------------------------------------------
(* Migrations *)

CONSTANTS Stores, Structured, Live, Jobs, Route

VARIABLES st, boot, job, waived, faults

Move == INSTANCE Migrate

\* What a migration is given: stores that exist, and a name that is not "none".
Routed == Move!None \notin Jobs /\ \A j \in Jobs : Move!Src(j) \in Stores /\ Move!Dst(j) \in Stores

Fields == {"cert", "key", "crl", "inventory", "head", "hkey", "certs"}
\* What no server touches while the bootstrap lock is held.
Guarded == Fields \ {"head", "hkey"}

Stored ==
  /\ DOMAIN st = Stores /\ DOMAIN boot = Stores /\ DOMAIN job = Jobs
  /\ \A s \in Stores : DOMAIN st[s] = Fields

Ledgers == \A s \in Stores : DOMAIN st[s].inventory = {"of", "rows", "form"}

MoveLocks(j) ==
  /\ DOMAIN job[j] = {"pc", "force", "allow", "next"}
  /\ job[j].pc \in {"verify", "boot-dst", "check", "copy", "rebuild"} => boot[Move!Src(j)] = j
  /\ job[j].pc \in {"check", "copy", "rebuild"} =>
       boot[Move!Dst(j)] = j /\ Move!Src(j) # Move!Dst(j)

\* What a migration copies or has copied, nobody else writes while it holds the store's
\* bootstrap lock: another migration, bootstrapCA and the CRL of CA.Init wait for it.
LEMMA LockGuards ==
  ASSUME Routed, Stored, \A i \in Jobs : MoveLocks(i), Move!Next,
         NEW j \in Jobs, NEW s \in Stores, boot[s] = j,
         NEW k \in Guarded, ~Move!copyKey(j)
  PROVE  st'[s][k] = st[s][k]
<1>0. DOMAIN st = Stores /\ DOMAIN st[s] = Fields /\ k \in Fields /\ k # "head" /\ k # "hkey"
  BY DEF Stored, Guarded
<1>1. ASSUME NEW i \in Jobs, Move!copyKey(i) PROVE st'[s][k] = st[s][k]
  <2>1. i # j
    BY <1>1
  <2>2. Move!Dst(i) # s
    BY <1>1, <2>1 DEF Move!copyKey, MoveLocks
  <2> QED BY <1>0, <1>1, <2>2 DEF Move!copyKey
<1>2. ASSUME NEW i \in Jobs, Move!Rebuild(i) PROVE st'[s][k] = st[s][k]
  BY <1>0, <1>2 DEF Move!Rebuild
<1>3. ASSUME NEW i \in Jobs, Move!Begin(i) \/ Move!LockStores(i) \/ Move!LockSource(i)
               \/ Move!verifyMigrationSource(i) \/ Move!LockDestination(i) \/ Move!CheckEmpty(i)
               \/ Move!Fail(i)
      PROVE  st' = st
  BY <1>3 DEF Move!Begin, Move!LockStores, Move!LockSource, Move!verifyMigrationSource,
     Move!LockDestination, Move!CheckEmpty, Move!Fail
<1>4. ASSUME NEW t \in Stores, Move!InitHMAC(t) PROVE st'[s][k] = st[s][k]
  BY <1>0, <1>4 DEF Move!InitHMAC
<1>5. ASSUME NEW t \in Stores, Move!LoadCA(t) PROVE st'[s][k] = st[s][k]
  BY <1>0, <1>5 DEF Move!LoadCA, Routed
<1>6. ASSUME NEW t \in Stores, Move!Bootstrap(t) PROVE st'[s][k] = st[s][k]
  BY <1>0, <1>6 DEF Move!Bootstrap, Routed
<1>7. ASSUME NEW t \in Stores, Move!ServerLocks(t) \/ Move!ServerStops(t) PROVE st' = st
  BY <1>7 DEF Move!ServerLocks, Move!ServerStops
<1> QED BY <1>1, <1>2, <1>3, <1>4, <1>5, <1>6, <1>7 DEF Move!Next, Move!Step

\* A migration leaves the other migrations and the locks they hold (lockStore,
\* MigrateService).
LEMMA OtherJobs ==
  ASSUME Routed, Stored, NEW i \in Jobs, NEW j \in Jobs, i # j,
         Move!Begin(i) \/ Move!Step(i) \/ Move!Fail(i)
  PROVE  job'[j] = job[j] /\ \A s \in Stores : boot[s] = j => boot'[s] = j
<1>0. DOMAIN job = Jobs /\ DOMAIN boot = Stores /\ j # Move!None
  BY DEF Stored, Routed
<1>1. ASSUME NEW how, Move!End(i, how)
      PROVE  job'[j] = job[j] /\ \A s \in Stores : boot[s] = j => boot'[s] = j
  BY <1>0, <1>1 DEF Move!End, Move!Released
<1>2. CASE Move!Begin(i)
  BY <1>0, <1>2 DEF Move!Begin
<1>3. CASE Move!Fail(i)
  BY <1>1, <1>3 DEF Move!Fail
<1>4. CASE Move!LockStores(i)
  <2>1. ASSUME NEW s, NEW then, Move!lockStore(i, s, then)
        PROVE  job'[j] = job[j] /\ \A t \in Stores : boot[t] = j => boot'[t] = j
    BY <1>0, <1>1, <2>1 DEF Move!lockStore
  <2> QED BY <1>4, <2>1 DEF Move!LockStores
<1>5. CASE Move!LockSource(i)
  BY <1>0, <1>5 DEF Move!LockSource
<1>6. CASE Move!verifyMigrationSource(i)
  BY <1>0, <1>1, <1>6 DEF Move!verifyMigrationSource
<1>7. CASE Move!LockDestination(i)
  BY <1>0, <1>7 DEF Move!LockDestination
<1>8. CASE Move!CheckEmpty(i)
  BY <1>0, <1>1, <1>8 DEF Move!CheckEmpty
<1>9. CASE Move!copyKey(i)
  BY <1>0, <1>9 DEF Move!copyKey
<1>10. CASE Move!Rebuild(i)
  BY <1>0, <1>1, <1>10 DEF Move!Rebuild
<1> QED BY <1>2, <1>3, <1>4, <1>5, <1>6, <1>7, <1>8, <1>9, <1>10 DEF Move!Step

\* Every step of a migration or a server keeps the keys that a store has.
LEMMA StoredStep ==
  ASSUME Routed, Stored, Move!Next PROVE Stored'
<1>1. /\ DOMAIN st = Stores /\ DOMAIN boot = Stores /\ DOMAIN job = Jobs
      /\ \A s \in Stores : DOMAIN st[s] = Fields
  BY DEF Stored
<1>2. ASSUME NEW j \in Jobs, Move!Begin(j) \/ Move!Step(j) \/ Move!Fail(j)
      PROVE  DOMAIN boot' = Stores /\ DOMAIN job' = Jobs
  BY <1>1, <1>2 DEF Move!Begin, Move!Fail, Move!Step, Move!LockStores, Move!lockStore,
     Move!End, Move!Released, Move!LockSource, Move!verifyMigrationSource,
     Move!LockDestination, Move!CheckEmpty, Move!copyKey, Move!Rebuild
<1>3. ASSUME NEW j \in Jobs, Move!Begin(j) \/ Move!Step(j) \/ Move!Fail(j)
      PROVE  DOMAIN st' = Stores /\ \A s \in Stores : DOMAIN st'[s] = Fields
  <2>1. CASE Move!copyKey(j)
    BY <1>1, <2>1 DEF Move!copyKey
  <2>2. CASE Move!Rebuild(j)
    BY <1>1, <2>2 DEF Move!Rebuild
  <2>3. CASE st' = st
    BY <1>1, <2>3
  <2> QED BY <1>3, <2>1, <2>2, <2>3 DEF Move!Begin, Move!Fail, Move!Step, Move!LockStores,
             Move!LockSource, Move!verifyMigrationSource, Move!LockDestination,
             Move!CheckEmpty
<1>4. ASSUME NEW t \in Stores, Move!ServerLocks(t) \/ Move!InitHMAC(t) \/ Move!LoadCA(t)
               \/ Move!Bootstrap(t) \/ Move!ServerStops(t)
      PROVE  job' = job /\ boot' = boot /\ DOMAIN st' = Stores
             /\ \A s \in Stores : DOMAIN st'[s] = Fields
  <2>1. job' = job /\ boot' = boot
    BY <1>4 DEF Move!ServerLocks, Move!InitHMAC, Move!LoadCA, Move!Bootstrap, Move!ServerStops
  <2>2. CASE Move!InitHMAC(t)
    BY <1>1, <2>1, <2>2 DEF Move!InitHMAC
  <2>3. CASE Move!LoadCA(t)
    BY <1>1, <2>1, <2>3 DEF Move!LoadCA
  <2>4. CASE Move!Bootstrap(t)
    BY <1>1, <2>1, <2>4 DEF Move!Bootstrap
  <2>5. CASE Move!ServerLocks(t) \/ Move!ServerStops(t)
    BY <1>1, <2>1, <2>5 DEF Move!ServerLocks, Move!ServerStops
  <2> QED BY <1>4, <2>2, <2>3, <2>4, <2>5
<1> QED BY <1>1, <1>2, <1>3, <1>4 DEF Stored, Move!Next

\* A migration holds the bootstrap locks of the stores it works on (MigrateService).
LEMMA LocksStep ==
  ASSUME Routed, Stored, NEW j \in Jobs, MoveLocks(j), Move!Next PROVE MoveLocks(j)'
<1>0. DOMAIN job = Jobs /\ DOMAIN boot = Stores /\ j # Move!None
      /\ Move!Src(j) \in Stores /\ Move!Dst(j) \in Stores
      /\ DOMAIN job[j] = {"pc", "force", "allow", "next"}
  BY DEF Stored, Routed, MoveLocks
<1>1. ASSUME job'[j] = job[j], \A s \in Stores : boot[s] = j => boot'[s] = j
      PROVE  MoveLocks(j)'
  BY <1>0, <1>1 DEF MoveLocks, Move!Src, Move!Dst
<1>2. ASSUME NEW i \in Jobs, i # j, Move!Begin(i) \/ Move!Step(i) \/ Move!Fail(i)
      PROVE  MoveLocks(j)'
  BY <1>1, <1>2, OtherJobs
<1>3. ASSUME NEW t \in Stores, Move!ServerLocks(t) \/ Move!InitHMAC(t) \/ Move!LoadCA(t)
               \/ Move!Bootstrap(t) \/ Move!ServerStops(t)
      PROVE  MoveLocks(j)'
  <2>1. job' = job /\ boot' = boot
    BY <1>3 DEF Move!ServerLocks, Move!InitHMAC, Move!LoadCA, Move!Bootstrap, Move!ServerStops
  <2> QED BY <1>1, <2>1
<1>4. ASSUME NEW how \in {"done", "failed"}, Move!End(j, how) PROVE MoveLocks(j)'
  <2>1. job'[j].pc = how /\ DOMAIN job'[j] = {"pc", "force", "allow", "next"}
    BY <1>0, <1>4 DEF Move!End
  <2> QED BY <1>4, <2>1 DEF MoveLocks
<1>5. CASE Move!Begin(j)
  <2>1. PICK f, a \in BOOLEAN :
          job' = [job EXCEPT ![j] = [pc |-> "inst-src", force |-> f, allow |-> a,
                                     next |-> 1]]
    BY <1>5 DEF Move!Begin
  <2>2. job'[j] = [pc |-> "inst-src", force |-> f, allow |-> a, next |-> 1]
    BY <1>0, <2>1
  <2>3. job'[j].pc = "inst-src" /\ DOMAIN job'[j] = {"pc", "force", "allow", "next"}
    BY ONLY <2>2, SMTT(30)
  <2> QED BY <2>3 DEF MoveLocks
<1>6. CASE Move!Fail(j)
  BY <1>4, <1>6 DEF Move!Fail
<1>7. CASE Move!LockStores(j)
  <2>1. ASSUME NEW s, NEW then \in {"inst-dst", "boot-src"}, Move!lockStore(j, s, then)
        PROVE  MoveLocks(j)'
    <3>1. CASE Move!End(j, "failed")
      BY <1>4, <3>1
    <3>2. CASE job' = [job EXCEPT ![j].pc = then]
      <4>1. job'[j].pc = then /\ DOMAIN job'[j] = {"pc", "force", "allow", "next"}
        BY <1>0, <3>2
      <4> QED BY <2>1, <4>1 DEF MoveLocks
    <3> QED BY <2>1, <3>1, <3>2 DEF Move!lockStore
  <2> QED BY <1>7, <2>1 DEF Move!LockStores
<1>8. CASE Move!LockSource(j)
  <2>1. job'[j].pc = "verify" /\ DOMAIN job'[j] = {"pc", "force", "allow", "next"}
        /\ boot'[Move!Src(j)] = j
    BY <1>0, <1>8 DEF Move!LockSource
  <2> QED BY <2>1 DEF MoveLocks, Move!Src
<1>9. CASE Move!verifyMigrationSource(j)
  <2>1. CASE Move!End(j, "failed")
    BY <1>4, <2>1
  <2>2. CASE ~Move!End(j, "failed")
    <3>1. job'[j].pc = "boot-dst" /\ DOMAIN job'[j] = {"pc", "force", "allow", "next"}
          /\ boot' = boot /\ job[j].pc = "verify"
      BY <1>0, <1>9, <2>2 DEF Move!verifyMigrationSource
    <3> QED BY <3>1 DEF MoveLocks, Move!Src
  <2> QED BY <2>1, <2>2
<1>10. CASE Move!LockDestination(j)
  <2>1. /\ job'[j].pc = "check" /\ DOMAIN job'[j] = {"pc", "force", "allow", "next"}
        /\ boot[Move!Dst(j)] = Move!None /\ boot'[Move!Dst(j)] = j
        /\ job[j].pc = "boot-dst"
    BY <1>0, <1>10 DEF Move!LockDestination
  <2>2. boot[Move!Src(j)] = j
    BY <2>1 DEF MoveLocks
  <2>3. Move!Src(j) # Move!Dst(j) /\ boot'[Move!Src(j)] = j
    BY <1>0, <1>10, <2>1, <2>2 DEF Move!LockDestination
  <2> QED BY <2>1, <2>3 DEF MoveLocks, Move!Src, Move!Dst
<1>11. CASE Move!CheckEmpty(j)
  <2>1. CASE Move!End(j, "failed")
    BY <1>4, <2>1
  <2>2. CASE ~Move!End(j, "failed")
    <3>1. job'[j].pc = "copy" /\ DOMAIN job'[j] = {"pc", "force", "allow", "next"}
          /\ boot' = boot /\ job[j].pc = "check"
      BY <1>0, <1>11, <2>2 DEF Move!CheckEmpty
    <3> QED BY <3>1 DEF MoveLocks, Move!Src, Move!Dst
  <2> QED BY <2>1, <2>2
<1>12. CASE Move!copyKey(j)
  <2>1. job'[j].pc \in {"copy", "rebuild"} /\ DOMAIN job'[j] = {"pc", "force", "allow", "next"}
        /\ boot' = boot /\ job[j].pc = "copy"
    BY <1>0, <1>12 DEF Move!copyKey
  <2> QED BY <2>1 DEF MoveLocks, Move!Src, Move!Dst
<1>13. CASE Move!Rebuild(j)
  BY <1>4, <1>13 DEF Move!Rebuild
<1> QED BY <1>2, <1>3, <1>5, <1>6, <1>7, <1>8, <1>9, <1>10, <1>11, <1>12, <1>13
        DEF Move!Next, Move!Step

\* The keys the copy goes through, each once (migratableSingletons).
LEMMA KeyOrder ==
  /\ Len(Move!Keys) = 7
  /\ \A i \in 1..7 : Move!Keys[i] \in Fields
  /\ \A i, n \in 1..7 : Move!Keys[i] = Move!Keys[n] => i = n
  /\ \A k \in Fields : \E i \in 1..7 : Move!Keys[i] = k
<1>1. /\ Move!Keys[1] = "cert" /\ Move!Keys[2] = "key" /\ Move!Keys[3] = "crl"
      /\ Move!Keys[4] = "inventory" /\ Move!Keys[5] = "head" /\ Move!Keys[6] = "hkey"
      /\ Move!Keys[7] = "certs" /\ Len(Move!Keys) = 7
  BY SMTT(30) DEF Move!Keys
<1>2. \A i \in 1..7 : i = 1 \/ i = 2 \/ i = 3 \/ i = 4 \/ i = 5 \/ i = 6 \/ i = 7
  BY SMTT(30)
<1>3. \A i \in 1..7 : Move!Keys[i] \in Fields
  BY <1>1, <1>2 DEF Fields
<1>4. \A i, n \in 1..7 : Move!Keys[i] = Move!Keys[n] => i = n
  BY SMTT(30), <1>1, <1>2
<1>5. \A k \in Fields : \E i \in 1..7 : Move!Keys[i] = k
  <2>1. 1 \in 1..7 /\ 2 \in 1..7 /\ 3 \in 1..7 /\ 4 \in 1..7 /\ 5 \in 1..7 /\ 6 \in 1..7
        /\ 7 \in 1..7
    BY SMTT(30)
  <2> QED BY <1>1, <2>1 DEF Fields
<1> QED BY <1>1, <1>3, <1>4, <1>5

\* A copy writes an inventory that is one (canonicaliseBlobInventory).
LEMMA LedgersStep ==
  ASSUME Routed, Stored, Ledgers, NEW j \in Jobs, Move!copyKey(j) PROVE Ledgers'
<1> DEFINE k == Move!Keys[job[j].next]
           data == Move!Converted(k, st[Move!Src(j)][k], Move!Dst(j))
<1>1. CASE st' = st
  BY <1>1 DEF Ledgers
<1>2. CASE st' = [st EXCEPT ![Move!Dst(j)][k] = data]
  <2>1. DOMAIN st = Stores /\ Move!Dst(j) \in Stores /\ DOMAIN st[Move!Dst(j)] = Fields
        /\ Move!Src(j) \in Stores
    BY DEF Stored, Routed
  <2>2. CASE k = "inventory"
    <3>1. DOMAIN data = {"of", "rows", "form"}
      BY <2>1, <2>2 DEF Move!Converted, Ledgers
    <3>2. st'[Move!Dst(j)].inventory = data
      BY <1>2, <2>1, <2>2 DEF Fields
    <3>3. \A s \in Stores : s # Move!Dst(j) => st'[s] = st[s]
      BY <1>2, <2>1
    <3> QED BY <3>1, <3>2, <3>3 DEF Ledgers
  <2>3. CASE k # "inventory"
    <3>1. \A s \in Stores : st'[s].inventory = st[s].inventory
      BY <1>2, <2>1, <2>3 DEF Fields
    <3> QED BY <3>1 DEF Ledgers
  <2> QED BY <2>2, <2>3
<1> QED BY <1>1, <1>2 DEF Move!copyKey

\* What the destination holds of a key that has been copied.
Same(j, k) ==
  \/ st[Move!Src(j)][k] = Move!Empty[k]
  \/ /\ k # "inventory"
     /\ st[Move!Dst(j)][k] = st[Move!Src(j)][k]
  \/ /\ k = "inventory"
     /\ st[Move!Dst(j)][k].of = st[Move!Src(j)][k].of
     /\ st[Move!Dst(j)][k].rows = st[Move!Src(j)][k].rows

\* Before the copy; every run starts from the first key.
Before == {"inst-src", "inst-dst", "boot-src", "verify", "boot-dst", "check"}
Fresh(j) == job[j].pc \in Before => job[j].next = 1

Copied(j) ==
  job[j].pc \in {"copy", "rebuild"} =>
    /\ job[j].next \in 1..8
    /\ IF job[j].pc = "copy" THEN job[j].next # 8 ELSE job[j].next = 8
    /\ \A i \in 1..7 :
         i < job[j].next /\ Move!Keys[i] \in Guarded => Same(j, Move!Keys[i])

Unforced(j) ==
  job[j].pc \in {"copy", "rebuild"} /\ ~job[j].force =>
    st[Move!Dst(j)].cert \in {Move!None, st[Move!Src(j)].cert}

\* What a step may make of a migration, but for copying a key (MigrateService).
LEMMA JobSteps ==
  ASSUME Routed, Stored, NEW j \in Jobs, MoveLocks(j), Move!Next, ~Move!copyKey(j)
  PROVE  \/ job'[j] = job[j]
         \/ job'[j].pc \in {"done", "failed"}
         \/ job'[j].pc = "inst-src" /\ job'[j].next = 1
         \/ /\ job[j].pc \in Before /\ job'[j].pc \in Before
            /\ job'[j].next = job[j].next
         \/ /\ job[j].pc = "check" /\ job'[j].pc = "copy" /\ st' = st
            /\ job'[j].next = job[j].next /\ job'[j].force = job[j].force
            /\ job[j].force \/ st[Move!Dst(j)].cert = Move!None
<1>0. DOMAIN job = Jobs /\ DOMAIN job[j] = {"pc", "force", "allow", "next"}
  BY DEF Stored, MoveLocks
<1>1. ASSUME NEW i \in Jobs, i # j, Move!Begin(i) \/ Move!Step(i) \/ Move!Fail(i)
      PROVE  job'[j] = job[j]
  BY <1>1, OtherJobs
<1>2. ASSUME NEW t \in Stores, Move!ServerLocks(t) \/ Move!InitHMAC(t) \/ Move!LoadCA(t)
               \/ Move!Bootstrap(t) \/ Move!ServerStops(t)
      PROVE  job'[j] = job[j]
  BY <1>2 DEF Move!ServerLocks, Move!InitHMAC, Move!LoadCA, Move!Bootstrap, Move!ServerStops
<1>3. ASSUME NEW how \in {"done", "failed"}, Move!End(j, how)
      PROVE  job'[j].pc \in {"done", "failed"}
  BY <1>0, <1>3 DEF Move!End
<1>4. CASE Move!Begin(j)
  <2>1. PICK f, a \in BOOLEAN :
          job' = [job EXCEPT ![j] = [pc |-> "inst-src", force |-> f, allow |-> a,
                                     next |-> 1]]
    BY <1>4 DEF Move!Begin
  <2>2. job'[j] = [pc |-> "inst-src", force |-> f, allow |-> a, next |-> 1]
    BY <1>0, <2>1
  <2>3. job'[j].pc = "inst-src" /\ job'[j].next = 1
    BY ONLY <2>2, SMTT(30)
  <2> QED BY <2>3
<1>5. CASE Move!Fail(j)
  BY <1>3, <1>5 DEF Move!Fail
<1>6. CASE Move!LockStores(j)
  <2>1. ASSUME NEW s, NEW then \in Before, Move!lockStore(j, s, then)
        PROVE  \/ job'[j].pc \in {"done", "failed"}
               \/ job'[j].pc \in Before /\ job'[j].next = job[j].next
    BY <1>0, <1>3, <2>1 DEF Move!lockStore
  <2>2. "inst-dst" \in Before /\ "boot-src" \in Before /\ job[j].pc \in Before
    BY <1>6 DEF Before, Move!LockStores
  <2> QED BY <1>6, <2>1, <2>2 DEF Move!LockStores
<1>7. CASE Move!LockSource(j) \/ Move!LockDestination(j)
  BY <1>0, <1>7 DEF Move!LockSource, Move!LockDestination, Before
<1>8. CASE Move!verifyMigrationSource(j)
  <2>1. CASE Move!End(j, "failed")
    BY <1>3, <2>1
  <2>2. CASE ~Move!End(j, "failed")
    <3>1. job' = [job EXCEPT ![j].pc = "boot-dst"] /\ job[j].pc = "verify"
      BY <1>8, <2>2 DEF Move!verifyMigrationSource
    <3> QED BY <1>0, <3>1 DEF Before
  <2> QED BY <2>1, <2>2
<1>9. CASE Move!CheckEmpty(j)
  <2>1. CASE Move!End(j, "failed")
    BY <1>3, <2>1
  <2>2. CASE ~Move!End(j, "failed")
    BY <1>0, <1>9, <2>2 DEF Move!CheckEmpty
  <2> QED BY <2>1, <2>2
<1>10. CASE Move!Rebuild(j)
  BY <1>3, <1>10 DEF Move!Rebuild
<1> QED BY <1>1, <1>2, <1>4, <1>5, <1>6, <1>7, <1>8, <1>9, <1>10 DEF Move!Next, Move!Step

\* A step other than its own copy leaves a migration what it has copied (the bootstrap
\* locks of MigrateService).
LEMMA SameKept ==
  ASSUME Routed, Stored, \A i \in Jobs : MoveLocks(i), Move!Next,
         NEW j \in Jobs, ~Move!copyKey(j), job[j].pc \in {"copy", "rebuild"},
         NEW k \in Guarded
  PROVE  /\ Same(j, k) => Same(j, k)'
         /\ st'[Move!Dst(j)][k] = st[Move!Dst(j)][k]
         /\ st'[Move!Src(j)][k] = st[Move!Src(j)][k]
<1>1. Move!Src(j) \in Stores /\ Move!Dst(j) \in Stores
      /\ boot[Move!Src(j)] = j /\ boot[Move!Dst(j)] = j
  BY DEF Routed, MoveLocks
<1>2. st'[Move!Dst(j)][k] = st[Move!Dst(j)][k] /\ st'[Move!Src(j)][k] = st[Move!Src(j)][k]
  BY <1>1, LockGuards
<1> QED BY <1>2 DEF Same, Move!Src, Move!Dst, Move!Empty

\* The copy of one key leaves the others, and makes this one the same (Migrate's
\* copyKey).
LEMMA OneKey ==
  ASSUME Routed, Stored, Ledgers, NEW j \in Jobs, MoveLocks(j), Move!copyKey(j),
         NEW n \in 1..7, job[j].next = n
  PROVE  /\ st'[Move!Src(j)] = st[Move!Src(j)]
         /\ \A k \in Fields : k # Move!Keys[n] =>
              st'[Move!Dst(j)][k] = st[Move!Dst(j)][k]
         /\ Same(j, Move!Keys[n])'
<1> DEFINE k == Move!Keys[n]
           s == Move!Src(j)
           d == Move!Dst(j)
           data == Move!Converted(k, st[s][k], d)
<1>0. /\ DOMAIN st = Stores /\ s \in Stores /\ d \in Stores /\ s # d
      /\ DOMAIN st[d] = Fields /\ k \in Fields
      /\ DOMAIN st[s].inventory = {"of", "rows", "form"}
  BY KeyOrder DEF Stored, Routed, Ledgers, MoveLocks, Move!copyKey
<1>1. st' = IF data = Move!Empty[k] THEN st ELSE [st EXCEPT ![d][k] = data]
  BY DEF Move!copyKey
<1>2. st'[s] = st[s]
  BY <1>0, <1>1
<1>3. \A m \in Fields : m # k => st'[d][m] = st[d][m]
  BY <1>0, <1>1
<1>4. data # Move!Empty[k] => st'[d][k] = data
  BY <1>0, <1>1
<1>5. CASE k # "inventory"
  <2>1. data = st[s][k]
    BY <1>5 DEF Move!Converted
  <2>2. st'[s][k] = Move!Empty[k] \/ st'[d][k] = st'[s][k]
    BY <1>2, <1>4, <2>1
  <2>3. Same(j, k)'
    BY <1>5, <2>2 DEF Same, Move!Src, Move!Dst, Move!Empty
  <2> QED BY <1>2, <1>3, <2>3
<1>6. CASE k = "inventory"
  <2> DEFINE held == st[s].inventory
  <2>0. Move!Empty[k] = Move!NoRows
    <3>1. Move!Empty["inventory"] = Move!NoRows
      BY SMTT(30) DEF Move!Empty
    <3> QED BY <1>6, <3>1
  <2>1. CASE held = Move!NoRows
    <3>1. st'[s][k] = Move!Empty[k]
      BY <1>2, <1>6, <2>0, <2>1
    <3>2. Same(j, k)'
      BY <3>1 DEF Same, Move!Src, Move!Dst, Move!Empty
    <3> QED BY <1>2, <1>3, <3>2
  <2>2. CASE held # Move!NoRows
    <3>1. data = [held EXCEPT !.form = Move!Scheme(d)]
      BY <1>6, <2>2 DEF Move!Converted
    <3>2. data.of = held.of /\ data.rows = held.rows /\ data.form = Move!Scheme(d)
      BY <1>0, <3>1
    <3>3. Move!Scheme(d) # Move!None
      BY DEF Move!Scheme, Move!None
    <3>4. Move!NoRows.form = Move!None
      BY DEF Move!NoRows
    <3>5. data # Move!Empty[k]
      BY <2>0, <3>2, <3>3, <3>4
    <3>6. st'[d][k].of = st'[s][k].of /\ st'[d][k].rows = st'[s][k].rows
      BY <1>2, <1>4, <1>6, <3>2, <3>5
    <3>7. Same(j, k)'
      BY <1>6, <3>6 DEF Same, Move!Src, Move!Dst, Move!Keys
    <3> QED BY <1>2, <1>3, <3>7
  <2> QED BY <2>1, <2>2
<1> QED BY <1>5, <1>6

\* Only the copy writes an inventory: RebuildInventoryHMAC and InitHMAC write values.
LEMMA InventoryKept ==
  ASSUME Stored, Move!Next, \A i \in Jobs : ~Move!copyKey(i), NEW s \in Stores
  PROVE  st'[s].inventory = st[s].inventory
<1>0. /\ DOMAIN st = Stores /\ DOMAIN st[s] = Fields /\ "inventory" \in Fields
      /\ "inventory" # "head" /\ "inventory" # "hkey" /\ "inventory" # "crl"
      /\ "inventory" # "cert" /\ "inventory" # "key"
  BY DEF Stored, Fields
<1>1. ASSUME NEW i \in Jobs, Move!Begin(i) \/ Move!LockStores(i) \/ Move!LockSource(i)
               \/ Move!verifyMigrationSource(i) \/ Move!LockDestination(i)
               \/ Move!CheckEmpty(i) \/ Move!Fail(i)
      PROVE  st' = st
  BY <1>1 DEF Move!Begin, Move!LockStores, Move!LockSource, Move!verifyMigrationSource,
     Move!LockDestination, Move!CheckEmpty, Move!Fail
<1>2. ASSUME NEW i \in Jobs, Move!Rebuild(i) PROVE st'[s].inventory = st[s].inventory
  BY <1>0, <1>2 DEF Move!Rebuild
<1>3. ASSUME NEW t \in Stores, Move!InitHMAC(t) PROVE st'[s].inventory = st[s].inventory
  BY <1>0, <1>3 DEF Move!InitHMAC
<1>4. ASSUME NEW t \in Stores, Move!LoadCA(t) PROVE st'[s].inventory = st[s].inventory
  BY <1>0, <1>4 DEF Move!LoadCA
<1>5. ASSUME NEW t \in Stores, Move!Bootstrap(t) PROVE st'[s].inventory = st[s].inventory
  <2>1. CASE st' = st
    BY <2>1
  <2>2. CASE st' = [st EXCEPT ![t] = [st[t] EXCEPT !.cert = "new", !.key = "new",
                                                   !.crl = "new"]]
    <3>1. t = s => st'[s] = [st[s] EXCEPT !.cert = "new", !.key = "new", !.crl = "new"]
      BY <1>0, <2>2
    <3>2. t # s => st'[s] = st[s]
      BY <1>0, <2>2
    <3> QED BY <1>0, <3>1, <3>2
  <2> QED BY <1>5, <2>1, <2>2 DEF Move!Bootstrap
<1>6. ASSUME NEW t \in Stores, Move!ServerLocks(t) \/ Move!ServerStops(t) PROVE st' = st
  BY <1>6 DEF Move!ServerLocks, Move!ServerStops
<1> QED BY <1>1, <1>2, <1>3, <1>4, <1>5, <1>6 DEF Move!Next, Move!Step

MoveInv ==
  /\ Stored /\ Ledgers
  /\ \A j \in Jobs : MoveLocks(j) /\ Fresh(j) /\ Copied(j) /\ Unforced(j)

\* No migration runs yet.
LEMMA MoveInit ==
  ASSUME Routed, Move!Init PROVE MoveInv
<1>1. \A s \in Stores : \A v \in Move!Given(s) :
        DOMAIN v = Fields /\ DOMAIN v.inventory = {"of", "rows", "form"}
  <2>1. DOMAIN Move!Empty = Fields /\ DOMAIN Move!Empty.inventory = {"of", "rows", "form"}
    BY SMTT(30) DEF Move!Empty, Move!NoRows, Fields
  <2>2. ASSUME NEW s \in Stores
        PROVE  DOMAIN Move!Whole(s, s) = Fields
               /\ DOMAIN Move!Whole(s, s).inventory = {"of", "rows", "form"}
    BY SMTT(30) DEF Move!Whole, Move!Entries, Fields
  <2>3. ASSUME NEW s \in Stores, NEW v \in Move!Given(s)
        PROVE  DOMAIN v = Fields /\ DOMAIN v.inventory = {"of", "rows", "form"}
    <3> DEFINE w == Move!Whole(s, s)
    <3>0. DOMAIN w = Fields /\ DOMAIN w.inventory = {"of", "rows", "form"}
      BY <2>2
    <3> HIDE DEF w
    <3>1. CASE v = Move!Empty \/ v = w
      BY <2>1, <3>0, <3>1
    <3>2. CASE v = [w EXCEPT !.inventory.rows = "altered"]
      BY <3>0, <3>2 DEF Fields
    <3>3. CASE v = [w EXCEPT !.head = Move!NoHead, !.hkey = Move!None]
      BY <3>0, <3>3 DEF Fields
    <3>4. CASE v = [w EXCEPT !.inventory.rows = "altered", !.head = Move!NoHead]
      BY <3>0, <3>4 DEF Fields
    <3>5. CASE v = [w EXCEPT !.hkey = Move!Short]
      BY <3>0, <3>5 DEF Fields
    <3> QED BY <2>3, <3>1, <3>2, <3>3, <3>4, <3>5 DEF Move!Given, w
  <2> QED BY <2>3
<1>2. DOMAIN st = Stores /\ \A s \in Stores : st[s] \in Move!Given(s)
  BY DEF Move!Init
<1>3. Stored /\ Ledgers
  BY <1>1, <1>2 DEF Stored, Ledgers, Move!Init
<1>4. \A j \in Jobs : job[j] = Move!Off
  BY DEF Move!Init
<1>5. Move!Off.pc = "off" /\ DOMAIN Move!Off = {"pc", "force", "allow", "next"}
  BY SMTT(30) DEF Move!Off
<1>6. \A j \in Jobs : MoveLocks(j) /\ Fresh(j) /\ Copied(j) /\ Unforced(j)
  BY <1>4, <1>5 DEF MoveLocks, Fresh, Copied, Unforced, Before
<1> QED BY <1>3, <1>6 DEF MoveInv

\* After the copy of a key what was copied still is, and one key more (copyKey).
LEMMA CopyStep ==
  ASSUME Routed, MoveInv, NEW j \in Jobs, Move!copyKey(j)
  PROVE  Fresh(j)' /\ Copied(j)' /\ Unforced(j)'
<1>0. /\ DOMAIN job = Jobs /\ DOMAIN job[j] = {"pc", "force", "allow", "next"}
      /\ Stored /\ Ledgers /\ MoveLocks(j) /\ Copied(j) /\ Unforced(j)
      /\ job[j].pc = "copy"
  BY DEF MoveInv, Stored, MoveLocks, Move!copyKey
<1>1. PICK n \in 1..7 : job[j].next = n
  <2>1. job[j].next \in 1..8 /\ job[j].next # 8
    BY <1>0 DEF Copied
  <2>2. \A n \in 1..8 : n # 8 => n \in 1..7
    BY SMTT(30)
  <2> QED BY <2>1, <2>2
<1>2. /\ job'[j].next = n + 1 /\ job'[j].force = job[j].force
      /\ job'[j].pc = IF n = 7 THEN "rebuild" ELSE "copy"
  <2>1. job' = [job EXCEPT ![j].next = @ + 1,
                           ![j].pc = IF job[j].next = Len(Move!Keys) THEN "rebuild"
                                     ELSE "copy"]
    BY DEF Move!copyKey
  <2> QED BY <1>0, <1>1, <2>1, KeyOrder
<1>3. /\ n + 1 \in 1..8 /\ (n = 7 => n + 1 = 8) /\ (n # 7 => n + 1 # 8)
      /\ \A i \in 1..7 : i < n + 1 => i < n \/ i = n
  BY SMTT(30)
<1>4. /\ st'[Move!Src(j)] = st[Move!Src(j)]
      /\ \A k \in Fields : k # Move!Keys[n] =>
           st'[Move!Dst(j)][k] = st[Move!Dst(j)][k]
      /\ Same(j, Move!Keys[n])'
  BY <1>0, <1>1, OneKey
<1>5. ASSUME NEW i \in 1..7, i < n + 1, Move!Keys[i] \in Guarded
      PROVE  Same(j, Move!Keys[i])'
  <2>1. CASE i = n
    BY <1>4, <2>1
  <2>2. CASE i # n
    <3>1. PICK k \in Guarded : k = Move!Keys[i]
      BY <1>5
    <3>2. k \in Fields /\ k # Move!Keys[n]
      BY <2>2, <3>1, KeyOrder DEF Guarded
    <3>3. Same(j, k)
      BY <1>0, <1>1, <1>3, <1>5, <2>2, <3>1 DEF Copied
    <3>4. Same(j, k)'
      BY <1>4, <3>2, <3>3 DEF Same, Move!Src, Move!Dst, Move!Empty
    <3> QED BY <3>1, <3>4 DEF Move!Keys
  <2> QED BY <2>1, <2>2
<1>6. Copied(j)'
  BY <1>2, <1>3, <1>5 DEF Copied
<1>7. Fresh(j)'
  BY <1>2 DEF Fresh, Before
<1>8. Unforced(j)'
  <2>1. CASE Move!Keys[n] = "cert"
    <3>2. st'[Move!Dst(j)].cert = st[Move!Dst(j)].cert
          \/ st'[Move!Dst(j)].cert = st'[Move!Src(j)].cert
      <4>1. Move!Converted("cert", st[Move!Src(j)].cert, Move!Dst(j)) = st[Move!Src(j)].cert
        BY DEF Move!Converted
      <4>2. st' = st \/ st' = [st EXCEPT ![Move!Dst(j)]["cert"] = st[Move!Src(j)].cert]
        BY <1>1, <2>1, <4>1 DEF Move!copyKey
      <4>3. /\ DOMAIN st = Stores /\ Move!Dst(j) \in Stores /\ "cert" \in Fields
            /\ DOMAIN st[Move!Dst(j)] = Fields
        BY <1>0 DEF Stored, Routed, Fields
      <4>4. CASE st' = [st EXCEPT ![Move!Dst(j)]["cert"] = st[Move!Src(j)].cert]
        <5>1. st'[Move!Dst(j)].cert = st[Move!Src(j)].cert
          BY <4>3, <4>4
        <5> QED BY <1>4, <5>1
      <4> QED BY <4>2, <4>4
    <3> QED BY <1>0, <1>2, <1>4, <3>2 DEF Unforced, Move!Src, Move!Dst
  <2>2. CASE Move!Keys[n] # "cert"
    <3>1. st'[Move!Dst(j)].cert = st[Move!Dst(j)].cert
      BY <1>4, <2>2 DEF Fields
    <3> QED BY <1>0, <1>2, <1>4, <3>1 DEF Unforced, Move!Src, Move!Dst
  <2> QED BY <2>1, <2>2
<1> QED BY <1>6, <1>7, <1>8

\* The other steps keep what was copied, and the destination check holds on
\* (MigrateService).
LEMMA OtherStep ==
  ASSUME Routed, MoveInv, Move!Next, NEW j \in Jobs, ~Move!copyKey(j)
  PROVE  Fresh(j)' /\ Copied(j)' /\ Unforced(j)'
<1>0. Stored /\ (\A i \in Jobs : MoveLocks(i)) /\ Fresh(j) /\ Copied(j) /\ Unforced(j)
  BY DEF MoveInv
<1>1. CASE job'[j] = job[j]
  <2>1. CASE job[j].pc \in {"copy", "rebuild"}
    <3>1. \A k \in Guarded : Same(j, k) => Same(j, k)'
      BY <1>0, <2>1, SameKept
    <3>2. st'[Move!Dst(j)].cert = st[Move!Dst(j)].cert
          /\ st'[Move!Src(j)].cert = st[Move!Src(j)].cert
      <4>1. "cert" \in Guarded
        BY DEF Guarded, Fields
      <4> QED BY <1>0, <2>1, <4>1, SameKept
    <3>3. Copied(j)'
      <4>1. ASSUME NEW i \in 1..7, i < job'[j].next, Move!Keys[i] \in Guarded
            PROVE  Same(j, Move!Keys[i])'
        BY <1>0, <1>1, <2>1, <3>1, <4>1 DEF Copied, Move!Keys
      <4>2. job'[j].next \in 1..8
            /\ IF job'[j].pc = "copy" THEN job'[j].next # 8 ELSE job'[j].next = 8
        BY <1>0, <1>1, <2>1 DEF Copied
      <4> QED BY <4>1, <4>2 DEF Copied
    <3>4. Unforced(j)'
      BY <1>0, <1>1, <3>2 DEF Unforced, Move!Src, Move!Dst
    <3>5. Fresh(j)'
      BY <1>0, <1>1 DEF Fresh
    <3> QED BY <3>3, <3>4, <3>5
  <2>2. CASE job[j].pc \notin {"copy", "rebuild"}
    BY <1>0, <1>1, <2>2 DEF Fresh, Copied, Unforced
  <2> QED BY <2>1, <2>2
<1>2. CASE job'[j].pc \in {"done", "failed"}
  BY <1>2 DEF Fresh, Copied, Unforced, Before
<1>3. CASE job'[j].pc = "inst-src" /\ job'[j].next = 1
  BY <1>3 DEF Fresh, Copied, Unforced
<1>4. CASE job[j].pc \in Before /\ job'[j].pc \in Before /\ job'[j].next = job[j].next
  BY <1>0, <1>4 DEF Fresh, Copied, Unforced, Before
<1>5. CASE /\ job[j].pc = "check" /\ job'[j].pc = "copy" /\ st' = st
           /\ job'[j].next = job[j].next /\ job'[j].force = job[j].force
           /\ job[j].force \/ st[Move!Dst(j)].cert = Move!None
  <2>1. job'[j].next = 1
    BY <1>0, <1>5 DEF Fresh, Before
  <2>2. 1 \in 1..8 /\ 1 # 8 /\ \A i \in 1..7 : ~(i < 1)
    BY SMTT(30)
  <2>3. Copied(j)' /\ Fresh(j)'
    BY <1>5, <2>1, <2>2 DEF Copied, Fresh, Before
  <2>4. Unforced(j)'
    BY <1>5 DEF Unforced, Move!Dst
  <2> QED BY <2>3, <2>4
<1> QED BY <1>0, <1>1, <1>2, <1>3, <1>4, <1>5, JobSteps

\* Every step keeps the invariant.
LEMMA MoveStep ==
  ASSUME Routed, MoveInv, [Move!Next]_(Move!vars) PROVE MoveInv'
<1>1. CASE UNCHANGED Move!vars
  <2>1. st' = st /\ job' = job /\ boot' = boot
    BY <1>1 DEF Move!vars
  <2>2. Stored' /\ Ledgers'
    BY <2>1 DEF MoveInv, Stored, Ledgers
  <2>3. ASSUME NEW j \in Jobs
        PROVE  MoveLocks(j)' /\ Fresh(j)' /\ Copied(j)' /\ Unforced(j)'
    <3>1. MoveLocks(j) /\ Fresh(j) /\ Copied(j) /\ Unforced(j)
      BY DEF MoveInv
    <3>2. MoveLocks(j)' /\ Fresh(j)' /\ Unforced(j)'
      BY <2>1, <3>1 DEF MoveLocks, Fresh, Unforced, Move!Src, Move!Dst
    <3>3. \A i \in 1..7 : Same(j, Move!Keys[i]) => Same(j, Move!Keys[i])'
      BY <2>1 DEF Same, Move!Src, Move!Dst, Move!Empty, Move!Keys
    <3>4. Copied(j)'
      BY <2>1, <3>1, <3>3 DEF Copied, Move!Keys
    <3> QED BY <3>1, <3>2, <3>4
  <2> QED BY <2>2, <2>3 DEF MoveInv
<1>2. CASE Move!Next
  <2>1. Stored'
    BY <1>2, StoredStep DEF MoveInv
  <2>2. Ledgers'
    <3>1. ASSUME NEW j \in Jobs, Move!copyKey(j) PROVE Ledgers'
      BY <3>1, LedgersStep DEF MoveInv
    <3>2. CASE \A j \in Jobs : ~Move!copyKey(j)
      <4>1. \A s \in Stores : st'[s].inventory = st[s].inventory
        BY <1>2, <3>2, InventoryKept DEF MoveInv
      <4> QED BY <4>1 DEF MoveInv, Ledgers
    <3> QED BY <3>1, <3>2
  <2>3. \A j \in Jobs : MoveLocks(j)'
    BY <1>2, LocksStep DEF MoveInv
  <2>4. \A j \in Jobs : Fresh(j)' /\ Copied(j)' /\ Unforced(j)'
    BY <1>2, CopyStep, OtherStep
  <2> QED BY <2>1, <2>2, <2>3, <2>4 DEF MoveInv
<1> QED BY <1>1, <1>2

\* The two promises of a migration, from the invariant (MigrateService, Migrate).
LEMMA MovePromises ==
  ASSUME Routed, MoveInv, [Move!Next]_(Move!vars)
  PROVE  Move!CompletedIsFaithful /\ Move!SparesALiveCA
<1>1. Move!SparesALiveCA
  BY DEF Move!SparesALiveCA, MoveInv, Unforced
<1>2. ASSUME NEW j \in Jobs, job[j].pc = "rebuild", job'[j].pc = "done"
      PROVE  /\ \A k \in Move!Held(Move!Src(j)) \ {"inventory", "head", "hkey"} :
                  st'[Move!Dst(j)][k] = st[Move!Src(j)][k]
             /\ "inventory" \in Move!Held(Move!Src(j)) =>
                  /\ st'[Move!Dst(j)].inventory.of = st[Move!Src(j)].inventory.of
                  /\ st'[Move!Dst(j)].inventory.rows = st[Move!Src(j)].inventory.rows
             /\ st'[Move!Dst(j)].hkey # Move!None => Move!Verifies(Move!Dst(j))'
  <2>0. /\ Stored /\ (\A i \in Jobs : MoveLocks(i)) /\ Copied(j) /\ DOMAIN job = Jobs
        /\ DOMAIN job[j] = {"pc", "force", "allow", "next"} /\ Move!Dst(j) \in Stores
        /\ DOMAIN st = Stores /\ DOMAIN st[Move!Dst(j)] = Fields
    BY DEF MoveInv, Stored, MoveLocks, Routed
  <2>1. Move!Next /\ ~Move!copyKey(j)
    BY <1>2 DEF Move!vars, Move!copyKey
  <2>2. Move!Rebuild(j)
    <3>1. ASSUME NEW i \in Jobs, i # j, Move!Begin(i) \/ Move!Step(i) \/ Move!Fail(i)
          PROVE  FALSE
      BY <1>2, <2>0, <3>1, OtherJobs
    <3>2. ASSUME NEW t \in Stores, Move!ServerLocks(t) \/ Move!InitHMAC(t) \/ Move!LoadCA(t)
                   \/ Move!Bootstrap(t) \/ Move!ServerStops(t)
          PROVE  FALSE
      <4>1. job' = job
        BY <3>2 DEF Move!ServerLocks, Move!InitHMAC, Move!LoadCA, Move!Bootstrap,
           Move!ServerStops
      <4> QED BY <1>2, <4>1
    <3>3. ~Move!Begin(j) /\ ~Move!LockStores(j) /\ ~Move!LockSource(j)
          /\ ~Move!verifyMigrationSource(j) /\ ~Move!LockDestination(j) /\ ~Move!CheckEmpty(j)
      BY <1>2 DEF Move!Begin, Move!LockStores, Move!LockSource, Move!verifyMigrationSource,
         Move!LockDestination, Move!CheckEmpty
    <3>4. ~Move!Fail(j)
      BY <1>2, <2>0 DEF Move!Fail, Move!End
    <3> QED BY <2>1, <3>1, <3>2, <3>3, <3>4 DEF Move!Next, Move!Step
  <2>3. \A k \in Guarded : Same(j, k)
    <3>1. job[j].next = 8
      BY <1>2, <2>0 DEF Copied
    <3>2. \A i \in 1..7 : i < 8
      BY SMTT(30)
    <3>3. ASSUME NEW k \in Guarded PROVE Same(j, k)
      <4>1. PICK i \in 1..7 : Move!Keys[i] = k
        BY <3>3, KeyOrder DEF Guarded
      <4> QED BY <1>2, <2>0, <3>1, <3>2, <4>1 DEF Copied
    <3> QED BY <3>3
  <2>4. \A k \in Guarded : st'[Move!Dst(j)][k] = st[Move!Dst(j)][k]
    BY <1>2, <2>0, <2>1, SameKept
  <2>5. ASSUME NEW k \in Move!Held(Move!Src(j)) \ {"inventory", "head", "hkey"}
        PROVE  st'[Move!Dst(j)][k] = st[Move!Src(j)][k]
    <3>1. k \in Guarded /\ k # "inventory" /\ st[Move!Src(j)][k] # Move!Empty[k]
      BY <2>5 DEF Move!Held, Move!Empty, Guarded, Fields
    <3> QED BY <2>3, <2>4, <3>1 DEF Same
  <2>6. "inventory" \in Guarded
    BY DEF Guarded, Fields
  <2>7. "inventory" \in Move!Held(Move!Src(j)) =>
          /\ st'[Move!Dst(j)].inventory.of = st[Move!Src(j)].inventory.of
          /\ st'[Move!Dst(j)].inventory.rows = st[Move!Src(j)].inventory.rows
    BY <2>3, <2>4, <2>6 DEF Same, Move!Held
  <2>8. st'[Move!Dst(j)].hkey # Move!None => Move!Verifies(Move!Dst(j))'
    <3> DEFINE d == Move!Dst(j)
    <3>1. PICK k : k = IF st[d].hkey = Move!Short THEN "mint" ELSE st[d].hkey
      OBVIOUS
    <3>2. k # Move!Short
      BY <3>1 DEF Move!Short
    <3>3. st' = IF k = Move!None THEN st
                ELSE [st EXCEPT ![d].hkey = k, ![d].head = Move!Mac(k, st[d].inventory, d)]
      BY <2>2, <3>1 DEF Move!Rebuild
    <3>4. CASE k = Move!None
      BY <3>1, <3>3, <3>4 DEF Move!None
    <3>5. CASE k # Move!None
      <4>1. /\ st'[d].hkey = k /\ st'[d].head = Move!Mac(k, st[d].inventory, d)
            /\ st'[d].inventory = st[d].inventory
        BY <2>0, <3>3, <3>5 DEF Fields
      <4>2. Move!Mac(k, st[d].inventory, d).key = k /\ Move!NoHead.key = Move!None
        BY DEF Move!Mac, Move!NoHead
      <4> QED BY <3>2, <3>5, <4>1, <4>2 DEF Move!Verifies, Move!Usable, Move!Dst, Move!Mac,
                 Move!Scheme
    <3> QED BY <3>4, <3>5
  <2> QED BY <2>5, <2>7, <2>8
<1>3. Move!CompletedIsFaithful
  BY <1>2 DEF Move!CompletedIsFaithful
<1> QED BY <1>1, <1>3

\* A migration that reports success has left each blob that the source held, with an
\* integrity value that verifies under the destination's scheme, and one without --force
\* writes only where there was no CA or the source's own, whatever other migrations and
\* servers do meanwhile and wherever earlier runs stopped (MigrateService, Migrate,
\* RebuildInventoryHMAC).
THEOREM MigrationIsFaithful ==
  ASSUME Routed
  PROVE  Move!Spec => [][Move!CompletedIsFaithful /\ Move!SparesALiveCA]_(Move!vars)
<1>1. Move!Init => MoveInv
  BY MoveInit
<1>2. MoveInv /\ [Move!Next]_(Move!vars) => MoveInv'
  BY MoveStep
<1>3. MoveInv /\ [Move!Next]_(Move!vars) => Move!CompletedIsFaithful /\ Move!SparesALiveCA
  BY MovePromises
<1> QED BY <1>1, <1>2, <1>3, PTL DEF Move!Spec
=============================================================================
