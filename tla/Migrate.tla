------------------------------ MODULE Migrate ------------------------------
(***************************************************************************)
(* openvox-ca-ctl migrate (cmd/openvox-ca-ctl/migrate.go,                  *)
(* internal/storage/migrate.go): the instance locks of both stores, the    *)
(* "bootstrap" locks of both, the verdict on the source's inventory, the   *)
(* copy key by key, and the rebuilt integrity value.  A run may fail or be *)
(* killed between two keys and be run again; a server may start on a store *)
(* meanwhile.                                                              *)
(*                                                                         *)
(* A blob is the name of the CA it belongs to.  Seven keys stand for the   *)
(* eleven the code copies: "cert" for the certificate and its public key,  *)
(* "crl" for the CRL and the serial, "certs" for the superseded list, the  *)
(* requests and the certificates.                                          *)
(***************************************************************************)
EXTENDS Integers, Sequences, FiniteSets

CONSTANTS Stores,
          Structured,            \* stores that keep the inventory as rows
          Distributed,           \* stores with distributed locking
          Live,                  \* stores a server may start on
          Jobs, Route,           \* migrations, and the stores each names
          MaxRuns, MaxFaults

VARIABLES st,                    \* what each store holds
          inst, boot,            \* the instance and bootstrap locks, per store
          job,                   \* each migration
          server,                \* each store's server
          waived,                \* inventories copied without being verified
          runs, faults

vars == <<st, inst, boot, job, server, waived, runs, faults>>

None == "none"
Short == "short"                 \* an HMAC key of the wrong length
Keys == <<"cert", "key", "crl", "inventory", "head", "hkey", "certs">>
Off == [pc |-> "off", force |-> FALSE, allow |-> FALSE, next |-> 1]
Down == [pc |-> "off", key |-> None]

Scheme(s) == IF s \in Structured THEN "rows" ELSE "blob"

NoRows == [of |-> None, rows |-> None, form |-> None]
NoHead == [key |-> None, inv |-> NoRows, scheme |-> None]

Empty == [cert |-> None, key |-> None, crl |-> None, inventory |-> NoRows,
          head |-> NoHead, hkey |-> None, certs |-> None]

Entries(c, rows, s) == [of |-> c, rows |-> rows, form |-> Scheme(s)]

\* An empty structured inventory folds to a head like any other here.
Mac(k, inv, s) == [key |-> k, inv |-> inv, scheme |-> Scheme(s)]

Whole(c, s) ==
  [cert |-> c, key |-> c, crl |-> c, inventory |-> Entries(c, "own", s),
   head |-> Mac(c, Entries(c, "own", s), s), hkey |-> c, certs |-> c]

(***************************************************************************)
(* A store starts empty, with a CA of its own, with an inventory that was  *)
(* altered behind the CA's back, or with a CA that never had an integrity  *)
(* value, lost it with its rows altered, or has a truncated HMAC key.      *)
(***************************************************************************)
Given(s) ==
  {Empty, Whole(s, s),
   [Whole(s, s) EXCEPT !.inventory.rows = "altered"],
   [Whole(s, s) EXCEPT !.head = NoHead, !.hkey = None],
   [Whole(s, s) EXCEPT !.inventory.rows = "altered", !.head = NoHead],
   [Whole(s, s) EXCEPT !.hkey = Short]}

Init ==
  /\ st \in {f \in [Stores -> UNION {Given(s) : s \in Stores}] :
               \A s \in Stores : f[s] \in Given(s)}
  /\ inst = [s \in Stores |-> None] /\ boot = [s \in Stores |-> None]
  /\ job = [j \in Jobs |-> Off] /\ server = [s \in Stores |-> Down]
  /\ waived = {} /\ runs = 0 /\ faults = 0

----------------------------------------------------------------------------
(***************************************************************************)
(* The command.  lockStore never waits: it refuses a store another process *)
(* has, and enforces nothing where locks are distributed.                  *)
(***************************************************************************)
Src(j) == Route[j].src
Dst(j) == Route[j].dst

Begin(j) ==
  /\ job[j].pc \in {"off", "done", "failed"} /\ runs < MaxRuns
  /\ runs' = runs + 1
  /\ \E f, a \in BOOLEAN :
       job' = [job EXCEPT ![j] = [pc |-> "inst-src", force |-> f, allow |-> a,
                                  next |-> 1]]
  /\ UNCHANGED <<st, inst, boot, server, waived, faults>>

Released(locks, j) == [s \in Stores |-> IF locks[s] = j THEN None ELSE locks[s]]

End(j, how) ==
  /\ job' = [job EXCEPT ![j].pc = how]
  /\ inst' = Released(inst, j) /\ boot' = Released(boot, j)

\* Mutant: it waits for the instance lock.
lockStore_Waits(j, s, then) ==
  /\ s \in Distributed \/ inst[s] = None
  /\ job' = [job EXCEPT ![j].pc = then]
  /\ inst' = IF s \in Distributed THEN inst ELSE [inst EXCEPT ![s] = j]
  /\ UNCHANGED boot

lockStore(j, s, then) ==
  IF s \in Distributed \/ inst[s] = None
  THEN /\ job' = [job EXCEPT ![j].pc = then]
       /\ inst' = IF s \in Distributed THEN inst ELSE [inst EXCEPT ![s] = j]
       /\ UNCHANGED boot
  ELSE End(j, "failed")

LockStores(j) ==
  /\ \/ job[j].pc = "inst-src" /\ lockStore(j, Src(j), "inst-dst")
     \/ job[j].pc = "inst-dst" /\ lockStore(j, Dst(j), "boot-src")
  /\ UNCHANGED <<st, server, waived, runs, faults>>

\* MigrateService: WithLock waits, with no deadline.
LockSource(j) ==
  /\ job[j].pc = "boot-src" /\ boot[Src(j)] = None
  /\ boot' = [boot EXCEPT ![Src(j)] = j]
  /\ job' = [job EXCEPT ![j].pc = "verify"]
  /\ UNCHANGED <<st, inst, server, waived, runs, faults>>

Usable(k) == k \notin {None, Short}

Verifies(s) ==
  /\ Usable(st[s].hkey) /\ st[s].head # NoHead
  /\ st[s].head = Mac(st[s].hkey, st[s].inventory, s)

NeverRecorded(s) == st[s].hkey = None /\ st[s].head = NoHead

verifyMigrationSource(j) ==
  /\ job[j].pc = "verify"
  /\ IF Verifies(Src(j)) \/ NeverRecorded(Src(j)) \/ job[j].allow
     THEN /\ job' = [job EXCEPT ![j].pc = "boot-dst"]
          /\ waived' = IF Verifies(Src(j)) THEN waived
                       ELSE waived \cup {st[Src(j)].inventory}
          /\ UNCHANGED <<inst, boot>>
     ELSE End(j, "failed") /\ UNCHANGED waived
  /\ UNCHANGED <<st, server, runs, faults>>

\* Mutant: the destination's bootstrap lock is not taken.
LockDestination_Unlocked(j) ==
  /\ job[j].pc = "boot-dst"
  /\ job' = [job EXCEPT ![j].pc = "check"]
  /\ UNCHANGED <<st, inst, boot, server, waived, runs, faults>>

LockDestination(j) ==
  /\ job[j].pc = "boot-dst" /\ boot[Dst(j)] = None
  /\ boot' = [boot EXCEPT ![Dst(j)] = j]
  /\ job' = [job EXCEPT ![j].pc = "check"]
  /\ UNCHANGED <<st, inst, server, waived, runs, faults>>

\* Migrate: EnsureReady, and the refusal to write over a CA.
CheckEmpty(j) ==
  /\ job[j].pc = "check"
  /\ IF job[j].force \/ st[Dst(j)].cert = None
     THEN job' = [job EXCEPT ![j].pc = "copy"] /\ UNCHANGED <<inst, boot>>
     ELSE End(j, "failed")
  /\ UNCHANGED <<st, server, waived, runs, faults>>

\* canonicaliseBlobInventory and openVoxBlobInventory.
Converted(k, data, s) ==
  IF k = "inventory" /\ data # NoRows THEN [data EXCEPT !.form = Scheme(s)] ELSE data

\* A key that is absent in the source is skipped.
copyKey(j) ==
  LET k == Keys[job[j].next]
      data == Converted(k, st[Src(j)][k], Dst(j))
  IN /\ job[j].pc = "copy"
     /\ st' = IF data = Empty[k] THEN st ELSE [st EXCEPT ![Dst(j)][k] = data]
     /\ job' = [job EXCEPT ![j].next = @ + 1,
                           ![j].pc = IF job[j].next = Len(Keys) THEN "rebuild"
                                     ELSE "copy"]
     /\ UNCHANGED <<inst, boot, server, waived, runs, faults>>

\* RebuildInventoryHMAC: nothing without a key, and a new key for a short one.
Rebuild(j) ==
  LET d == Dst(j)
      k == IF st[d].hkey = Short THEN "mint" ELSE st[d].hkey
  IN /\ job[j].pc = "rebuild"
     /\ st' = IF k = None THEN st
              ELSE [st EXCEPT ![d].hkey = k,
                              ![d].head = Mac(k, st[d].inventory, d)]
     /\ End(j, "done")
     /\ UNCHANGED <<server, waived, runs, faults>>

Working(j) == job[j].pc \notin {"off", "done", "failed"}

\* A read or a write fails, the command is interrupted or killed: the locks
\* go with the process.
Fail(j) ==
  /\ Working(j) /\ faults < MaxFaults /\ faults' = faults + 1
  /\ End(j, "failed")
  /\ UNCHANGED <<st, server, waived, runs>>

----------------------------------------------------------------------------
(***************************************************************************)
(* A server that starts on a store: the instance lock, InitHMAC, which no  *)
(* lock orders against a migration, then the fast path without a lock or   *)
(* the bootstrap under it.                                                 *)
(***************************************************************************)
ServerLocks(s) ==
  /\ s \in Live /\ server[s].pc = "off"
  /\ inst[s] = None \/ s \in Distributed
  /\ inst' = IF s \in Distributed THEN inst ELSE [inst EXCEPT ![s] = s]
  /\ server' = [server EXCEPT ![s].pc = "hmac"]
  /\ UNCHANGED <<st, boot, job, waived, runs, faults>>

Stopped(s) ==
  /\ server' = [server EXCEPT ![s] = [Down EXCEPT !.pc = "stopped"]]
  /\ inst' = IF inst[s] = s THEN [inst EXCEPT ![s] = None] ELSE inst

InitHMAC(s) ==
  LET k == IF Usable(st[s].hkey) THEN st[s].hkey ELSE "boot"
      h == IF st[s].head = NoHead THEN Mac(k, st[s].inventory, s) ELSE st[s].head
  IN /\ server[s].pc = "hmac"
     /\ st' = [st EXCEPT ![s].hkey = k, ![s].head = h]
     /\ IF h = Mac(k, st[s].inventory, s)
        THEN server' = [server EXCEPT ![s] = [pc |-> "load", key |-> k]]
             /\ UNCHANGED inst
        ELSE Stopped(s)
     /\ UNCHANGED <<boot, job, waived, runs, faults>>

LoadCA(s) ==
  /\ server[s].pc = "load" /\ st[s].cert # None /\ st[s].cert = st[s].key
  /\ st[s].crl # None \/ boot[s] = None
  /\ st' = [st EXCEPT ![s].crl = IF @ = None THEN st[s].cert ELSE @]
  /\ server' = [server EXCEPT ![s].pc = "up"]
  /\ UNCHANGED <<inst, boot, job, waived, runs, faults>>

\* Under the bootstrap lock: a new CA in an empty store, or a refusal.
Bootstrap(s) ==
  /\ server[s].pc = "load" /\ boot[s] = None
  /\ st[s].cert = None \/ st[s].cert # st[s].key
  /\ IF st[s].cert = None /\ st[s].key = None
     THEN /\ st' = [st EXCEPT ![s] = [@ EXCEPT !.cert = "new", !.key = "new", !.crl = "new"]]
          /\ server' = [server EXCEPT ![s].pc = "up"] /\ UNCHANGED inst
     ELSE Stopped(s) /\ UNCHANGED st
  /\ UNCHANGED <<boot, job, waived, runs, faults>>

ServerStops(s) ==
  /\ server[s].pc = "up" /\ Stopped(s)
  /\ UNCHANGED <<st, boot, job, waived, runs, faults>>

Step(j) ==
  \/ LockStores(j) \/ LockSource(j) \/ verifyMigrationSource(j)
  \/ LockDestination(j) \/ CheckEmpty(j) \/ copyKey(j) \/ Rebuild(j)

Next ==
  \/ \E j \in Jobs : Begin(j) \/ Step(j) \/ Fail(j)
  \/ \E s \in Stores :
       ServerLocks(s) \/ InitHMAC(s) \/ LoadCA(s) \/ Bootstrap(s) \/ ServerStops(s)

Spec == Init /\ [][Next]_vars

----------------------------------------------------------------------------
(***************************************************************************)
(* Properties.                                                             *)
(***************************************************************************)

\* Every component keeps its shape; a copy runs under both bootstrap locks and
\* under the instance locks that exist.
TypeOK ==
  /\ \A s \in Stores : DOMAIN st[s] = DOMAIN Empty
  /\ runs \in 0..MaxRuns /\ faults \in 0..MaxFaults
  /\ \A j \in Jobs :
       /\ job[j].next \in 1..(Len(Keys) + 1)
       /\ job[j].pc \in {"copy", "rebuild"} =>
            /\ boot[Src(j)] = j /\ boot[Dst(j)] = j
            /\ \A s \in {Src(j), Dst(j)} \ Distributed : inst[s] = j

Held(s) == {k \in DOMAIN Empty : st[s][k] # Empty[k]}

\* A migration that reports success has left what the source held, each blob
\* of it, with an integrity value that verifies under the destination's own
\* scheme, whatever earlier runs or other migrations left half copied there
\* (MigrateService).
CompletedIsFaithful ==
  \A j \in Jobs :
    job[j].pc = "rebuild" /\ job'[j].pc = "done" =>
      /\ \A k \in Held(Src(j)) \ {"inventory", "head", "hkey"} :
           st'[Dst(j)][k] = st[Src(j)][k]
      /\ "inventory" \in Held(Src(j)) =>
           /\ st'[Dst(j)].inventory.of = st[Src(j)].inventory.of
           /\ st'[Dst(j)].inventory.rows = st[Src(j)].inventory.rows
      /\ st'[Dst(j)].hkey # None => Verifies(Dst(j))'

\* No integrity value ever vouches for altered rows that came from another
\* store unless an operator allowed it, or the source never recorded a value:
\* failed copies, retries and a later start of the server included
\* (verifyMigrationSource).
VouchingWasWaived ==
  \A s \in Stores :
    st[s].inventory.of # s /\ st[s].inventory.rows = "altered" /\ Verifies(s) =>
      \E i \in waived : i.of = st[s].inventory.of /\ i.rows = "altered"

\* A migration without --force never writes into a store that holds another
\* CA's certificate, though a server may bootstrap one while the migration
\* waits or copies (the check under the destination's bootstrap lock).
SparesALiveCA ==
  \A j \in Jobs :
    job[j].pc = "copy" /\ ~job[j].force /\ st'[Dst(j)] # st[Dst(j)] =>
      st[Dst(j)].cert \in {None, st[Src(j)].cert}
============================================================================
