---------------------------- MODULE RebuildHMAC ----------------------------
(***************************************************************************)
(* openvox-ca rebuild-inventory-hmac                                       *)
(* (cmd/openvox-ca/rebuildinventoryhmac.go): the report, the gates, the    *)
(* instance lock, the one or two writes of RebuildInventoryHMAC, the       *)
(* second report and the comparison of the two, beside a server that may   *)
(* start, append and stop, and with the command killed between any two     *)
(* steps and run again.                                                    *)
(*                                                                         *)
(* An integrity value is the key it was computed with and the set of       *)
(* entries it covers; an append on a structured store chains onto the      *)
(* value it finds, on a blob store it recomputes the whole value.          *)
(***************************************************************************)
EXTENDS Integers, FiniteSets

CONSTANTS Chained,               \* a structured store: rows, and a hash chain
          Distributed, Known,    \* distributed locking, and whether the probe answered
          Enforced,              \* the store has an instance lock that excludes
          MaxEntry, MaxRuns

VARIABLES rows, head, hkey,      \* the store
          legacy,                \* entries of an undecomposed legacy blob
          server, pend,          \* the server's cached key, and its append in flight
          inst,                  \* the holder of the instance lock
          cmd, runs

store == <<rows, head, hkey, legacy>>
vars == <<rows, head, hkey, legacy, server, pend, inst, cmd, runs>>

None == "none"
Short == "short"
KeyNames == {"k0", "mint", "start"}
NoHead == [key |-> None, over |-> {}]
NoReport == [rows |-> {}, hkey |-> None, head |-> NoHead]
Idle == [pc |-> "idle", confirm |-> FALSE, quiet |-> FALSE, rep |-> NoReport,
         now |-> {}, key |-> None, snap |-> {}]

Usable(k) == k \in KeyNames

\* What a chain or a whole-blob MAC under k over the entries e is.
Mac(k, e) == [key |-> k, over |-> e]

\* InventoryIntegrityReport.Verifies; StoredHead # nil is part of it.
Matches(k, h, e) == Usable(k) /\ h # NoHead /\ h = Mac(k, e)

\* A legacy store keeps its entries in the blob and has no rows.
Init ==
  /\ head \in {NoHead, Mac("k0", {1}), Mac("k0", {1, 2})}
  /\ \/ legacy = {} /\ rows \in {{1}, {1, 2}} /\ hkey \in {"k0", Short, None}
     \/ legacy = {1, 2} /\ rows = {} /\ hkey = "k0" /\ Chained
  /\ server = None /\ pend = {} /\ inst = None /\ cmd = Idle /\ runs = 0

----------------------------------------------------------------------------
(***************************************************************************)
(* The command.                                                            *)
(***************************************************************************)
Begin ==
  /\ cmd.pc = "idle" /\ runs < MaxRuns /\ runs' = runs + 1
  /\ \E c, q \in BOOLEAN :
       cmd' = [Idle EXCEPT !.pc = "rows", !.confirm = c, !.quiet = q]
  /\ UNCHANGED <<store, server, pend, inst>>

Ends(how) ==
  /\ cmd' = [cmd EXCEPT !.pc = how]
  /\ inst' = IF inst = "cmd" THEN None ELSE inst

ReadRows ==
  /\ cmd.pc = "rows"
  /\ cmd' = [cmd EXCEPT !.pc = "head", !.now = rows]
  /\ UNCHANGED <<store, server, pend, inst, runs>>

ReadHead ==
  /\ cmd.pc = "head"
  /\ cmd' = [cmd EXCEPT !.pc = "gates",
                        !.rep = [rows |-> cmd.now, hkey |-> hkey, head |-> head]]
  /\ UNCHANGED <<store, server, pend, inst, runs>>

Unchecked == Distributed \/ ~Known

\* The gates in their order; legacy is read with the report.
Gates ==
  LET r == cmd.rep
      v == Matches(r.hkey, r.head, r.rows)
      stale == legacy = {} /\ r.hkey # None /\ ~v /\ r.head # NoHead
      asked == cmd.confirm /\ (Unchecked => cmd.quiet)
  IN /\ cmd.pc = "gates"
     /\ \/ (legacy # {} \/ r.hkey = None) /\ Ends("refused")
        \/ legacy = {} /\ r.hkey # None /\ (v \/ r.head = NoHead) /\ Ends("nothing")
        \/ stale /\ ~asked /\ Ends("refused")
        \/ stale /\ asked /\ cmd' = [cmd EXCEPT !.pc = "lock"] /\ UNCHANGED inst
     /\ UNCHANGED <<store, server, pend, runs>>

\* A lock that excludes nobody needs --replicas-stopped.
HoldLock ==
  LET enforced == Enforced /\ ~Unchecked
  IN /\ cmd.pc = "lock"
     /\ \/ /\ enforced /\ inst = None
           /\ inst' = "cmd" /\ cmd' = [cmd EXCEPT !.pc = "key"]
        \/ enforced /\ inst # None /\ Ends("refused")
        \/ ~enforced /\ cmd.quiet /\ cmd' = [cmd EXCEPT !.pc = "key"] /\ UNCHANGED inst
        \/ ~enforced /\ ~cmd.quiet /\ Ends("refused")
     /\ UNCHANGED <<store, server, pend, runs>>

\* RebuildInventoryHMAC: EnsureHMACKey persists a new key for a short one.
RebuildKey ==
  /\ cmd.pc = "key"
  /\ \/ /\ hkey # None
        /\ hkey' = IF Usable(hkey) THEN hkey ELSE "mint"
        /\ cmd' = [cmd EXCEPT !.pc = "snap", !.key = hkey']
     \/ hkey = None /\ UNCHANGED hkey /\ cmd' = [cmd EXCEPT !.pc = "reread"]
  /\ UNCHANGED <<rows, head, legacy, server, pend, inst, runs>>

ComputeHead ==
  /\ cmd.pc = "snap"
  /\ cmd' = [cmd EXCEPT !.pc = "write", !.snap = rows]
  /\ UNCHANGED <<store, server, pend, inst, runs>>

WriteHead ==
  /\ cmd.pc = "write"
  /\ head' = Mac(cmd.key, cmd.snap)
  /\ cmd' = [cmd EXCEPT !.pc = "reread"]
  /\ UNCHANGED <<rows, hkey, legacy, server, pend, inst, runs>>

ReRead ==
  /\ cmd.pc = "reread"
  /\ cmd' = [cmd EXCEPT !.pc = "compare", !.now = rows]
  /\ UNCHANGED <<store, server, pend, inst, runs>>

\* Two values under one key, or the counts when the reported key was unusable.
Changed(r, now) ==
  IF Usable(r.hkey) THEN head # Mac(r.hkey, r.rows)
  ELSE Cardinality(now) # Cardinality(r.rows)

Compare ==
  /\ cmd.pc = "compare"
  /\ Ends(IF Matches(hkey, head, cmd.now) /\ ~Changed(cmd.rep, cmd.now)
          THEN "rebuilt" ELSE "error")
  /\ UNCHANGED <<store, server, pend, runs>>

\* An error of the store, an interrupt or a kill at any step.
Fail ==
  /\ cmd.pc \notin {"idle", "refused", "nothing", "rebuilt", "error"}
  /\ runs < MaxRuns /\ Ends("error")
  /\ UNCHANGED <<store, server, pend, runs>>

Done ==
  /\ cmd.pc \in {"refused", "nothing", "rebuilt", "error"} /\ cmd' = Idle
  /\ UNCHANGED <<store, server, pend, inst, runs>>

----------------------------------------------------------------------------
(***************************************************************************)
(* The server: the instance lock where it is enforced, the decomposition   *)
(* of a legacy blob that verifies, InitHMAC, then appends.                 *)
(***************************************************************************)
Start ==
  LET k == IF Usable(hkey) THEN hkey ELSE "start"
      all == rows \cup legacy
  IN /\ server = None /\ (Enforced => inst = None)
     /\ legacy # {} => head \in {NoHead, Mac(hkey, all)}
     /\ hkey' = k
     /\ rows' = all /\ legacy' = {}
     /\ head' = IF head = NoHead \/ legacy # {} THEN Mac(k, all) ELSE head
     /\ IF head' = Mac(k, all)
        THEN server' = k /\ inst' = IF Enforced THEN "server" ELSE inst
        ELSE UNCHANGED <<server, inst>>
     /\ UNCHANGED <<pend, cmd, runs>>

Fresh == {e \in 1..MaxEntry : e \notin rows /\ \A i \in rows : i < e}

Append ==
  /\ server # None /\ pend = {}
  /\ \E e \in Fresh :
       /\ \A i \in Fresh : e <= i
       /\ rows' = rows \cup {e}
       /\ IF Chained
          THEN /\ head' = IF head.key = server THEN Mac(server, head.over \cup {e})
                          ELSE Mac("mixed", {e})
               /\ UNCHANGED pend
          ELSE pend' = rows' /\ UNCHANGED head
  /\ UNCHANGED <<hkey, legacy, server, inst, cmd, runs>>

\* A blob store writes the recomputed value after the line.
AppendMac ==
  /\ pend # {} /\ head' = Mac(server, pend) /\ pend' = {}
  /\ UNCHANGED <<rows, hkey, legacy, server, inst, cmd, runs>>

Stop ==
  /\ server # None /\ server' = None /\ pend' = {}
  /\ inst' = IF inst = "server" THEN None ELSE inst
  /\ UNCHANGED <<store, cmd, runs>>

Command ==
  \/ ReadRows \/ ReadHead \/ Gates \/ HoldLock \/ RebuildKey \/ ComputeHead
  \/ WriteHead \/ ReRead \/ Compare \/ Done

Next ==
  \/ Begin \/ Command \/ Fail
  \/ Start \/ Append \/ AppendMac \/ Stop

Spec == Init /\ [][Next]_vars

----------------------------------------------------------------------------
(***************************************************************************)
(* Properties.                                                             *)
(***************************************************************************)

\* Every component keeps its shape, and the command's writes happen under the
\* instance lock wherever there is one that excludes (HoldLock).
TypeOK ==
  /\ rows \subseteq 1..MaxEntry /\ hkey \in KeyNames \cup {None, Short}
  /\ inst \in {None, "cmd", "server"} /\ runs \in 0..MaxRuns
  /\ inst = "cmd" => cmd.pc \in {"key", "snap", "write", "reread", "compare"}
  /\ Enforced /\ ~Unchecked /\ cmd.pc \in {"key", "snap", "write"} => inst = "cmd"

\* On a structured store success is only reported when the store verifies at
\* that moment, though a server nobody stopped appends between the reads and
\* the writes (the second report of rebuild-inventory-hmac).
SuccessIsCurrent ==
  Chained /\ cmd.pc # "rebuilt" /\ cmd'.pc = "rebuilt" => Matches(hkey, head, rows)

\* Success is only reported when the value covers what the operator was shown:
\* the very entries when the key was usable, as many when it was not (the
\* comparison of the two reports).
BlessedAsShown ==
  cmd.pc # "rebuilt" /\ cmd'.pc = "rebuilt" =>
    /\ Cardinality(head.over) = Cardinality(cmd.rep.rows)
    /\ Usable(cmd.rep.hkey) => head.over = cmd.rep.rows

\* As long as a legacy blob awaits its decomposition, the value that covers it
\* stays: only a starting server replaces it (the legacy gate of the command).
LegacyBaselineKept == legacy # {} /\ legacy' # {} => head' = head

\* Under an enforced instance lock a run nobody interrupts repairs the store,
\* whatever an earlier run that was killed between the new key and the new
\* value left behind, unless entries were added after the report (EnsureHMACKey
\* before UpdateInventoryHMAC, "Re-running with --yes-re-bless completes the
\* repair").
RepairLands ==
  cmd.pc = "compare" /\ inst = "cmd" /\ runs = MaxRuns /\ rows = cmd.rep.rows =>
    cmd'.pc # "error"
============================================================================
