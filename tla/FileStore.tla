----------------------------- MODULE FileStore -----------------------------
(***************************************************************************)
(* The filesystem backend (internal/storage/filesystem.go): the CA key at  *)
(* OpenVox Server's path or at the older one under private/, written by    *)
(* AtomicWriteFile; the inventory file, appended to by AppendLine; and the *)
(* value over it that AppendInventoryRecord writes next.  Any call may     *)
(* fail, the process may be killed and the machine may lose power between  *)
(* any two system calls.                                                   *)
(*                                                                         *)
(* Changes to directories reach the disk in their order but late: a power  *)
(* loss keeps some of the first ones, so that "left" is what it may leave. *)
(* The bytes of a file that was not flushed may be lost though its name    *)
(* survived.  The inventory is the pieces that were written to it, whole   *)
(* lines or parts of one; the piece at place n is of entry n.              *)
(***************************************************************************)
EXTENDS Integers, Sequences

CONSTANTS KeyValues,             \* the CA keys that are written
          MaxEntry, MaxOps, MaxFaults,
          MaxShort               \* writes that end in the middle of a line

VARIABLES dir,                   \* the files as the processes see them
          sunk,                  \* the same with all names on disk, and no other bytes
          left,                  \* what a power loss may leave of them
          inv, flushed,          \* the inventory, and how much of it is on disk
          write,                 \* the write under way
          get,                   \* a read of the CA key under way
          may,                   \* what a reader of the CA key may be given
          acked,                 \* entries whose append succeeded
          trusted,               \* the CA runs: its inventory verified
          ops, failures, short

keyFiles == <<dir, sunk, left, may>>
records == <<inv, flushed, acked, trusted, short>>
vars == <<keyFiles, records, write, get, ops, failures>>

Absent == "absent"
Empty == "empty"                 \* a file whose bytes were lost
Link == "link"                   \* a symbolic link that leads nowhere
Conflict == "conflict"

\* A key is none of the answers that stand for no key.
ASSUME KeyAssumption == KeyValues \cap {Absent, Empty, Link, Conflict} = {}

NoOp == [pc |-> "idle", key |-> Absent, at |-> "top", synced |-> FALSE, n |-> 0]
NoGet == [pc |-> "idle", at |-> "top", data |-> Absent, from |-> Absent]

Files == {"top", "legacy", "mac"}

\* caKeyLocation decides by existence alone.
caKeyLocation(d) ==
  IF d["top"] = Absent /\ d["legacy"] # Absent THEN "legacy" ELSE "top"

\* readCAKeyCopy and checkCAKeyConflict.
Differ(t, l) == t # Absent /\ l # Absent /\ t # l

checkCAKeyConflict(d) ==
  Differ(d["top"], d["legacy"]) \/ d["top"] = Link \/ (d["top"] # Absent /\ d["legacy"] = Link)

\* What a Get that nothing overlaps answers.
Answer(d) ==
  IF checkCAKeyConflict(d) THEN Conflict ELSE d[caKeyLocation(d)]

----------------------------------------------------------------------------
(***************************************************************************)
(* The inventory.                                                          *)
(***************************************************************************)
\* The lines that parse: a whole piece that starts a line.
Listed(s) == {n \in 1..Len(s) : s[n] = "line" /\ (n = 1 \/ s[n - 1] = "line")}

\* A value is the text it covers.
Init ==
  /\ \E t \in KeyValues \cup {Absent, Link}, l \in KeyValues \cup {Absent} :
       dir = [f \in Files |-> CASE f = "top" -> t [] f = "legacy" -> l [] f = "mac" -> <<>>]
  /\ sunk = dir /\ left = {dir} /\ inv = <<>> /\ flushed = 0
  /\ write = NoOp /\ get = NoGet /\ may = {Answer(dir)} /\ acked = {}
  /\ trusted = TRUE /\ ops = 0 /\ failures = 0 /\ short = 0

\* A file is renamed or removed; its bytes are on disk if safe.
Change(f, v, safe) ==
  /\ dir' = [dir EXCEPT ![f] = v]
  /\ sunk' = [sunk EXCEPT ![f] = IF safe THEN v ELSE Empty]
  /\ left' = left \cup {sunk'}

----------------------------------------------------------------------------
(***************************************************************************)
(* Put of the CA key.                                                      *)
(***************************************************************************)
Put ==
  /\ write.pc = "idle" /\ ops < MaxOps /\ ops' = ops + 1
  /\ \/ checkCAKeyConflict(dir) /\ write' = NoOp
     \/ /\ ~checkCAKeyConflict(dir)
        /\ \E k \in KeyValues :
             write' = [pc |-> "clear", key |-> k, at |-> caKeyLocation(dir), synced |-> FALSE, n |-> 0]
  /\ UNCHANGED <<keyFiles, records, get, failures>>

\* The copy under private/ goes first.
removeLegacyCAKeyCopy ==
  /\ write.pc = "clear" /\ write' = [write EXCEPT !.pc = "temp"]
  /\ IF write.at = "top" /\ dir["legacy"] # Absent
     THEN Change("legacy", Absent, TRUE) ELSE UNCHANGED <<dir, sunk, left>>
  /\ UNCHANGED <<may, records, get, ops, failures>>

\* AtomicWriteFile: the temporary file is written, given its mode and flushed.
WriteTemp ==
  /\ write.pc = "temp" /\ write' = [write EXCEPT !.pc = "rename", !.synced = TRUE]
  /\ UNCHANGED <<keyFiles, records, get, ops, failures>>

Rename ==
  /\ write.pc = "rename"
  /\ Change(write.at, write.key, write.synced) /\ may' = may \cup {write.key}
  /\ write' = [write EXCEPT !.pc = "dirsync"]
  /\ UNCHANGED <<records, get, ops, failures>>

\* A directory that cannot be flushed is only logged.
FlushNames(last) ==
  \/ left' = {sunk} /\ may' = last /\ UNCHANGED <<dir, sunk, failures>>
  \/ failures < MaxFaults /\ failures' = failures + 1 /\ UNCHANGED keyFiles

SyncDir ==
  /\ write.pc = "dirsync" /\ write' = NoOp
  /\ FlushNames({write.key})
  /\ UNCHANGED <<records, get, ops>>

----------------------------------------------------------------------------
(***************************************************************************)
(* Get of the CA key by another process, which shares no lock with the     *)
(* writer: the location, then the top-level copy, then the one under       *)
(* private/ and then the file itself, each with a Lstat and a ReadFile.    *)
(***************************************************************************)
GetBegins ==
  /\ get.pc = "idle"
  /\ get' = [pc |-> "top?", at |-> caKeyLocation(dir), data |-> Absent, from |-> Answer(dir)]
  /\ UNCHANGED <<keyFiles, records, write, ops, failures>>

GetGoes(p) == get' = [get EXCEPT !.pc = p]

\* A file that is gone when it is read is taken for a link that leads nowhere.
LeadsNowhere(f) == dir[f] \in {Absent, Link}

\* readCAKeyCopy of the top-level file; without it there is nothing to differ.
GetReadsTop ==
  /\ \/ get.pc = "top?" /\ GetGoes(IF dir["top"] = Absent THEN "file?" ELSE "top")
     \/ get.pc = "top" /\ LeadsNowhere("top") /\ GetGoes("broken")
     \/ /\ get.pc = "top" /\ ~LeadsNowhere("top")
        /\ get' = [get EXCEPT !.pc = "legacy?", !.data = dir["top"]]
  /\ UNCHANGED <<keyFiles, records, write, ops, failures>>

\* readCAKeyCopy of the copy under private/, and the comparison.
GetReadsLegacy ==
  /\ \/ get.pc = "legacy?" /\ GetGoes(IF dir["legacy"] = Absent THEN "file?" ELSE "legacy")
     \/ get.pc = "legacy" /\ LeadsNowhere("legacy") /\ GetGoes("broken")
     \/ /\ get.pc = "legacy" /\ ~LeadsNowhere("legacy")
        /\ GetGoes(IF Differ(get.data, dir["legacy"]) THEN "conflict" ELSE "file?")
  /\ UNCHANGED <<keyFiles, records, write, ops, failures>>

\* readCAKeyCopy of the file itself.
GetReadsFile ==
  /\ \/ get.pc = "file?" /\ GetGoes(IF dir[get.at] = Absent THEN "absent" ELSE "file")
     \/ get.pc = "file" /\ LeadsNowhere(get.at) /\ GetGoes("broken")
     \/ /\ get.pc = "file" /\ ~LeadsNowhere(get.at)
        /\ get' = [get EXCEPT !.pc = "key", !.data = dir[get.at]]
  /\ UNCHANGED <<keyFiles, records, write, ops, failures>>

GetEnds ==
  /\ get.pc \in {"key", "absent", "conflict", "broken"} /\ get' = NoGet
  /\ UNCHANGED <<keyFiles, records, write, ops, failures>>

----------------------------------------------------------------------------
(***************************************************************************)
(* AppendInventoryRecord on this backend.  A CA only starts on an          *)
(* inventory that verifies.                                                *)
(***************************************************************************)
Verifies == dir["mac"] = inv

AppendLine ==
  LET e == Len(inv) + 1
  IN /\ trusted /\ write.pc = "idle" /\ ops < MaxOps /\ ops' = ops + 1 /\ e <= MaxEntry
     /\ \/ /\ inv' = Append(inv, "line") /\ UNCHANGED short
           /\ write' = [pc |-> "flush", key |-> Absent, at |-> "top", synced |-> FALSE, n |-> e]
        \/ /\ short < MaxShort /\ short' = short + 1
           /\ inv' = Append(inv, "part") /\ write' = NoOp
     /\ UNCHANGED <<keyFiles, flushed, acked, trusted, get, failures>>

\* Mutant: the line is not flushed before the value is written.
Flush_Later ==
  /\ write.pc = "flush" /\ write' = [write EXCEPT !.pc = "mac"]
  /\ UNCHANGED <<keyFiles, records, get, ops, failures>>

Flush ==
  /\ write.pc = "flush" /\ write' = [write EXCEPT !.pc = "mac"]
  /\ flushed' = Len(inv)
  /\ UNCHANGED <<keyFiles, inv, acked, trusted, short, get, ops, failures>>

\* The value over what was read before and the line, by AtomicWriteFile.
PutMac ==
  /\ write.pc = "mac" /\ write' = [write EXCEPT !.pc = "macsync"]
  /\ Change("mac", inv, TRUE)
  /\ UNCHANGED <<may, records, get, ops, failures>>

SyncMac ==
  /\ write.pc = "macsync" /\ write' = NoOp
  /\ FlushNames({Answer(dir)})
  /\ acked' = acked \cup {write.n}
  /\ UNCHANGED <<inv, flushed, trusted, short, get, ops>>

----------------------------------------------------------------------------
\* A system call fails and the write ends there.
Fail ==
  /\ write.pc # "idle" /\ failures < MaxFaults /\ failures' = failures + 1
  /\ write' = NoOp
  /\ UNCHANGED <<keyFiles, records, get, ops>>

\* The names go back to some moment since the last flush, and so does the end of
\* the inventory, or to the middle of one of its lines.
PowerLoss ==
  /\ failures < MaxFaults /\ failures' = failures + 1
  /\ dir' \in left /\ sunk' = dir' /\ left' = {dir'} /\ may' = {Answer(dir')}
  /\ \E m \in flushed..Len(inv) :
       \/ inv' = SubSeq(inv, 1, m)
       \/ m < Len(inv) /\ inv' = Append(SubSeq(inv, 1, m), "part")
  /\ flushed' = Len(inv')
  /\ trusted' = (dir'["mac"] = inv')
  /\ write' = NoOp /\ get' = NoGet
  /\ UNCHANGED <<acked, ops, short>>

\* The process is killed, and started again.
Restart ==
  /\ failures < MaxFaults /\ failures' = failures + 1
  /\ write' = NoOp /\ trusted' = Verifies
  /\ UNCHANGED <<keyFiles, inv, flushed, acked, short, get, ops>>

Next ==
  \/ Put \/ removeLegacyCAKeyCopy \/ WriteTemp \/ Rename \/ SyncDir
  \/ GetBegins \/ GetReadsTop \/ GetReadsLegacy \/ GetReadsFile \/ GetEnds
  \/ AppendLine \/ Flush \/ PutMac \/ SyncMac
  \/ Fail \/ PowerLoss \/ Restart

Spec == Init /\ [][Next]_vars

----------------------------------------------------------------------------
(***************************************************************************)
(* Properties.                                                             *)
(***************************************************************************)

\* Every component keeps its shape, and a line is on disk before the value
\* that covers it is written (AppendLine's Sync).
TypeOK ==
  /\ flushed \in 0..Len(inv) /\ ops \in 0..MaxOps /\ failures \in 0..MaxFaults
  /\ acked \subseteq 1..MaxEntry /\ short \in 0..MaxShort /\ trusted \in BOOLEAN
  /\ write.pc = "macsync" => flushed = Len(inv)

\* Whatever call fails and whenever the power goes, the CA key that can be read
\* is the one that was there or the one being written: never an empty file,
\* nothing, or two different copies; and two copies that differ, or a link that
\* leads nowhere, stay as they are (AtomicWriteFile, removeLegacyCAKeyCopy).
KeyNeverLost == \A d \in left \cup {dir} : Answer(d) \in may

\* A process that reads the CA key while another replaces it is never told that
\* there is no key, which callers take for leave to make one, nor of two keys that
\* differ.  It is given a key, or the error of a broken link if the copy under
\* private/ was removed between its Lstat and its ReadFile; then the other copy is
\* in place, and reading again succeeds (Get's three reads against Put's removal
\* and rename).
ReadersFindTheKey ==
  get.from \in KeyValues =>
    /\ get.pc \notin {"absent", "conflict"}
    /\ get.pc = "key" => get.data \in KeyValues
    /\ get.pc = "broken" =>
         get.at = "top" /\ dir["legacy"] = Absent /\ Answer(dir) \in KeyValues

\* An entry whose append succeeded stays on a line of its own, whatever fails
\* later, as long as no write ended in the middle of a line
\* (AppendInventoryRecord: the line, its flush, then the value).
AppendedIsListed == short = 0 => acked \subseteq Listed(inv)

\* A failed call, a kill or a power loss between any two system calls leaves a CA
\* key to read, which a reader finds whatever it overlaps, and every entry that was
\* appended (filesystem.go, AtomicWriteFile, AppendInventoryRecord).
FilesSurviveFailures == KeyNeverLost /\ ReadersFindTheKey /\ AppendedIsListed
============================================================================
