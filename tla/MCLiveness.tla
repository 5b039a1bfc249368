---------------------------- MODULE MCLiveness ----------------------------
(***************************************************************************)
(* What must happen in the end, for TLC: locks are handed on, starts,      *)
(* migrations and handshakes end, renewals, reloads and published lists    *)
(* arrive.  The first state chooses the component, on a small instance;    *)
(* the variables of the others stay 0.                                     *)
(***************************************************************************)
EXTENDS Naturals, Sequences

VARIABLES
  part,
  local, pc, token, issued, key, closed, seq, crashes, cert, crl, lock,
  revoked, st, job, server, faults, mine, now, op, edits, file, admins,
  watcher, made, hup, signals,   \* of several
  ttl, due, missed,   \* RedisLock
  using, cur, opened, renewing, leases, queue, retry,   \* EtcdLock
  held, phase, worked, owner,   \* SessionLock
  blob, entries, head, decomposer, keyHolder, rep, old, sent, imported,   \* InventoryStart
  pub, serial, inventory, up, csr, import, requested, retired, halfway,
  keys, gens,   \* Bootstrap
  inst, boot, waived, runs,   \* Migrate
  certs, record, cache, superseded, store, want, fails, stray, adrift,   \* ManagedCert
  upstream, bundle, hung, reads,   \* CRLChain
  published, readable, installed, ownDead, changes,   \* Admission
  live, last, fileToken, keyVersion, granted, ended, recent, mu, cancelled, loop,
  close, signs,   \* TokenManager
  main, signer, proved, handler, term, armed, told, fatalHup,   \* Service
  list, pair, failed, errs, readCert, beat, state, text, stopped, asked,   \* Reload
  pipe, psk, toSigner, toFrontend, call, refusable, pending, wire, work,
  replies, box, resp, got   \* SignerRPC

redisVars == <<ttl, due, missed>>
etcdVars == <<using, cur, opened, renewing, leases, queue, retry>>
sqlVars == <<held, phase, worked, owner>>
inventoryVars == <<blob, entries, head, decomposer, keyHolder, rep, old, sent,
                   imported>>
startVars == <<pub, serial, inventory, up, csr, import, requested, retired,
               halfway, keys, gens>>
migrateVars == <<inst, boot, waived, runs>>
managedVars == <<certs, record, cache, superseded, store, want, fails, stray,
                 adrift>>
chainVars == <<upstream, bundle, hung, reads>>
admissionVars == <<published, readable, installed, ownDead, changes>>
tokenVars == <<live, last, fileToken, keyVersion, granted, ended, recent, mu,
               cancelled, loop, close, signs>>
serviceVars == <<main, signer, proved, handler, term, armed, told, fatalHup>>
reloadVars == <<list, pair, failed, errs, readCert, beat, state, text,
                stopped, asked>>
signerRPCVars == <<pipe, psk, toSigner, toFrontend, call, refusable, pending,
                   wire, work, replies, box, resp, got>>
sharedVars == <<local, pc, token, issued, key, closed, seq, crashes, cert,
                crl, lock, revoked, st, job, server, faults, mine, now, op,
                edits, file, admins, watcher, made, hup, signals>>

vars == <<part, sharedVars, redisVars, etcdVars, sqlVars, inventoryVars,
          startVars, migrateVars, managedVars, chainVars, admissionVars,
          tokenVars, serviceVars, reloadVars, signerRPCVars>>

Redis == INSTANCE RedisLock WITH Procs <- {"p1", "p2"}, Crowded <- {}, MaxTokens <- 2,
  Sentinel <- TRUE

Etcd == INSTANCE EtcdLock WITH Procs <- {"p1", "p2"}, Crowded <- {}, MaxSessions <- 2,
  MayClose <- {}

\* Nothing fails, so that only the pool and the locks can hold a request up.
SQL == INSTANCE SessionLock WITH Procs <- {"p1", "p2"}, Crowded <- {"p1"}, Pool <- 4,
  Faulty <- FALSE

Import == INSTANCE InventoryStart WITH Replicas <- {"r1", "r2"}, ByRevision <- TRUE,
  Text <- <<"l1", "l2">>, OldLines <- {"l1", "l2"}, NewLines <- {}, LockLapses <- FALSE, Retries <- 1, MaxCrashes <- 1

Start == INSTANCE Bootstrap WITH Replicas <- {"r1", "r2"}, Operators <- {"o1"},
  Provider <- FALSE, OneInstance <- FALSE, MaxKeys <- 1, MaxGens <- 1, MaxCrashes <- 1, MaxRevocations <- 0

\* Two migrations in opposite directions between stores with an instance lock.
\* What the stores hold decides how a migration ends, not whether it waits.
Cross == INSTANCE Migrate WITH Stores <- {"a", "b"}, Structured <- {},
  Distributed <- {}, Live <- {}, Jobs <- {"m1", "m2"},
  Route <- [m1 |-> [src |-> "a", dst |-> "b"], m2 |-> [src |-> "b", dst |-> "a"]],
  MaxRuns <- 2, MaxFaults <- 0

Sound == \A s \in {"a", "b"} : st[s] \in {Cross!Empty, Cross!Whole(s, s)}

\* Two failures, or one and an operator's edit, while the clock has room for the
\* backoff they earn (see Next).
Pair == INSTANCE ManagedCert WITH Replicas <- {"r1"}, Kind <- "files",
  Adopt <- FALSE, ReuseKey <- FALSE, Overlap <- FALSE, TTL <- 4, RenewBefore <- 3,
  Backdate <- 1, CAEnd <- 5, BackoffCap <- 2, MaxNow <- 2, MaxFaults <- 2, MaxEdits <- 1

C(by, num, at) == [by |-> by, num |-> num, at |-> at]
Holding(crls)  == [there |-> TRUE, whole |-> TRUE, crls |-> crls]

Chain == INSTANCE CRLChain WITH Replicas <- {"r1"}, Ancestors <- {"a", "b"},
  Files <- {[there |-> FALSE, whole |-> TRUE, crls |-> <<>>],
            Holding(<<C("a", 2, 2), C("b", 0, 1)>>), Holding(<<C("a", 3, 3)>>)},
  Published <- {<<C("a", 1, 1)>>},
  MaxFileEntries <- 3, ReadSlots <- 1, MaxEdits <- 1, MaxFaults <- 1

Early == INSTANCE Admission WITH Anchors <- {"x"}, Numbered <- {"x"},
  Ahead <- 2, Skew <- 1, Life <- 2, Deltas <- FALSE, Policy <- "require",
  Requests <- {}, Clients <- {}, Routes <- {}, AllowPublicStatus <- FALSE,
  ForeignAdmins <- {}, ForeignPpCliAuth <- FALSE,
  MaxNow <- 3, MaxCRLs <- 2, MaxFile <- 2, MaxChanges <- 2

Login == INSTANCE TokenManager WITH Requests <- {"q1"}, OwnsToken <- TRUE,
  Revocable <- TRUE, MaxWatchers <- 3, MaxTokens <- 3, MaxSigns <- 1, MaxFaults <- 1

Tree == INSTANCE Service WITH Instances <- {"i1"}, Isolated <- {"i1"},
  MaxSignals <- 2, MaxFaults <- 1

Files == INSTANCE Reload WITH MaxEdits <- 1, MaxSignals <- 2

Signer == INSTANCE SignerRPC WITH Callers <- {"c1", "c2"}, Limit <- 1, MaxCalls <- 2

NoRedis ==
  /\ ttl = 0 /\ due = 0 /\ missed = 0
NoEtcd ==
  /\ using = 0 /\ cur = 0 /\ opened = 0 /\ renewing = 0 /\ leases = 0
  /\ queue = 0 /\ retry = 0
NoSql ==
  /\ held = 0 /\ phase = 0 /\ worked = 0 /\ owner = 0
NoInventory ==
  /\ blob = 0 /\ entries = 0 /\ head = 0 /\ decomposer = 0 /\ keyHolder = 0
  /\ rep = 0 /\ old = 0 /\ sent = 0 /\ imported = 0
NoStart ==
  /\ pub = 0 /\ serial = 0 /\ inventory = 0 /\ up = 0 /\ csr = 0 /\ import = 0
  /\ requested = 0 /\ retired = 0 /\ halfway = 0 /\ keys = 0 /\ gens = 0
NoMigrate ==
  /\ inst = 0 /\ boot = 0 /\ waived = 0 /\ runs = 0
NoManaged ==
  /\ certs = 0 /\ record = 0 /\ cache = 0 /\ superseded = 0 /\ store = 0
  /\ want = 0 /\ fails = 0 /\ stray = 0 /\ adrift = 0
NoChain ==
  /\ upstream = 0 /\ bundle = 0 /\ hung = 0 /\ reads = 0
NoAdmission ==
  /\ published = 0 /\ readable = 0 /\ installed = 0 /\ ownDead = 0
  /\ changes = 0
NoToken ==
  /\ live = 0 /\ last = 0 /\ fileToken = 0 /\ keyVersion = 0 /\ granted = 0 /\ ended = 0
  /\ recent = 0 /\ mu = 0 /\ cancelled = 0 /\ loop = 0 /\ close = 0
  /\ signs = 0
NoService ==
  /\ main = 0 /\ signer = 0 /\ proved = 0 /\ handler = 0 /\ term = 0
  /\ armed = 0 /\ told = 0 /\ fatalHup = 0
NoReload ==
  /\ list = 0 /\ pair = 0 /\ failed = 0 /\ errs = 0 /\ readCert = 0
  /\ beat = 0 /\ state = 0 /\ text = 0 /\ stopped = 0 /\ asked = 0
NoSignerRPC ==
  /\ pipe = 0 /\ psk = 0 /\ toSigner = 0 /\ toFrontend = 0 /\ call = 0
  /\ refusable = 0 /\ pending = 0 /\ wire = 0 /\ work = 0 /\ replies = 0
  /\ box = 0 /\ resp = 0 /\ got = 0

Init ==
  \/ part = "redis" /\ Redis!Init /\ NoEtcd /\ NoSql /\ NoInventory /\ NoStart
       /\ NoMigrate /\ NoManaged /\ NoChain /\ NoAdmission /\ NoToken
       /\ NoService /\ NoReload /\ NoSignerRPC /\ closed = 0 /\ seq = 0
       /\ crashes = 0 /\ cert = 0 /\ crl = 0 /\ lock = 0 /\ revoked = 0
       /\ st = 0 /\ job = 0 /\ server = 0 /\ faults = 0 /\ mine = 0 /\ now = 0
       /\ op = 0 /\ edits = 0 /\ file = 0 /\ admins = 0 /\ watcher = 0
       /\ made = 0 /\ hup = 0 /\ signals = 0
  \/ part = "etcd" /\ Etcd!Init /\ NoRedis /\ NoSql /\ NoInventory /\ NoStart
       /\ NoMigrate /\ NoManaged /\ NoChain /\ NoAdmission /\ NoToken
       /\ NoService /\ NoReload /\ NoSignerRPC /\ token = 0 /\ issued = 0
       /\ key = 0 /\ seq = 0 /\ crashes = 0 /\ cert = 0 /\ crl = 0 /\ lock = 0
       /\ revoked = 0 /\ st = 0 /\ job = 0 /\ server = 0 /\ faults = 0
       /\ mine = 0 /\ now = 0 /\ op = 0 /\ edits = 0 /\ file = 0 /\ admins = 0
       /\ watcher = 0 /\ made = 0 /\ hup = 0 /\ signals = 0
  \/ part = "sql" /\ SQL!Init /\ NoRedis /\ NoEtcd /\ NoInventory /\ NoStart
       /\ NoMigrate /\ NoManaged /\ NoChain /\ NoAdmission /\ NoToken
       /\ NoService /\ NoReload /\ NoSignerRPC /\ pc = 0 /\ token = 0
       /\ issued = 0 /\ key = 0 /\ closed = 0 /\ seq = 0 /\ crashes = 0
       /\ cert = 0 /\ crl = 0 /\ lock = 0 /\ revoked = 0 /\ st = 0 /\ job = 0
       /\ server = 0 /\ faults = 0 /\ mine = 0 /\ now = 0 /\ op = 0
       /\ edits = 0 /\ file = 0 /\ admins = 0 /\ watcher = 0 /\ made = 0
       /\ hup = 0 /\ signals = 0
  \/ part = "import" /\ Import!Init /\ NoRedis /\ NoEtcd /\ NoSql /\ NoStart
       /\ NoMigrate /\ NoManaged /\ NoChain /\ NoAdmission /\ NoToken
       /\ NoService /\ NoReload /\ NoSignerRPC /\ local = 0 /\ pc = 0
       /\ token = 0 /\ closed = 0 /\ cert = 0 /\ crl = 0 /\ lock = 0
       /\ revoked = 0 /\ st = 0 /\ job = 0 /\ server = 0 /\ faults = 0
       /\ mine = 0 /\ now = 0 /\ op = 0 /\ edits = 0 /\ file = 0 /\ admins = 0
       /\ watcher = 0 /\ made = 0 /\ hup = 0 /\ signals = 0
  \/ part = "start" /\ Start!Init /\ NoRedis /\ NoEtcd /\ NoSql /\ NoInventory
       /\ NoMigrate /\ NoManaged /\ NoChain /\ NoAdmission /\ NoToken
       /\ NoService /\ NoReload /\ NoSignerRPC /\ local = 0 /\ pc = 0
       /\ token = 0 /\ issued = 0 /\ closed = 0 /\ seq = 0 /\ st = 0
       /\ job = 0 /\ server = 0 /\ faults = 0 /\ mine = 0 /\ now = 0 /\ op = 0
       /\ edits = 0 /\ file = 0 /\ admins = 0 /\ watcher = 0 /\ made = 0
       /\ hup = 0 /\ signals = 0
  \/ part = "migrate" /\ Cross!Init /\ Sound /\ NoRedis /\ NoEtcd /\ NoSql
       /\ NoInventory /\ NoStart /\ NoManaged /\ NoChain /\ NoAdmission
       /\ NoToken /\ NoService /\ NoReload /\ NoSignerRPC /\ local = 0
       /\ pc = 0 /\ token = 0 /\ issued = 0 /\ key = 0 /\ closed = 0
       /\ seq = 0 /\ crashes = 0 /\ cert = 0 /\ crl = 0 /\ lock = 0
       /\ revoked = 0 /\ mine = 0 /\ now = 0 /\ op = 0 /\ edits = 0
       /\ file = 0 /\ admins = 0 /\ watcher = 0 /\ made = 0 /\ hup = 0
       /\ signals = 0
  \/ part = "managed" /\ Pair!Init /\ NoRedis /\ NoEtcd /\ NoSql
       /\ NoInventory /\ NoStart /\ NoMigrate /\ NoChain /\ NoAdmission
       /\ NoToken /\ NoService /\ NoReload /\ NoSignerRPC /\ local = 0
       /\ pc = 0 /\ token = 0 /\ issued = 0 /\ key = 0 /\ closed = 0
       /\ seq = 0 /\ crashes = 0 /\ cert = 0 /\ revoked = 0 /\ st = 0
       /\ job = 0 /\ server = 0 /\ file = 0 /\ admins = 0 /\ watcher = 0
       /\ made = 0 /\ hup = 0 /\ signals = 0
  \/ part = "chain" /\ Chain!Init /\ NoRedis /\ NoEtcd /\ NoSql /\ NoInventory
       /\ NoStart /\ NoMigrate /\ NoManaged /\ NoAdmission /\ NoToken
       /\ NoService /\ NoReload /\ NoSignerRPC /\ local = 0 /\ pc = 0
       /\ token = 0 /\ issued = 0 /\ key = 0 /\ closed = 0 /\ seq = 0
       /\ crashes = 0 /\ cert = 0 /\ crl = 0 /\ revoked = 0 /\ st = 0
       /\ job = 0 /\ server = 0 /\ mine = 0 /\ now = 0 /\ admins = 0
       /\ watcher = 0 /\ made = 0 /\ hup = 0 /\ signals = 0
  \/ part = "admission" /\ Early!Init /\ NoRedis /\ NoEtcd /\ NoSql
       /\ NoInventory /\ NoStart /\ NoMigrate /\ NoManaged /\ NoChain
       /\ NoToken /\ NoService /\ NoReload /\ NoSignerRPC /\ local = 0
       /\ pc = 0 /\ token = 0 /\ issued = 0 /\ key = 0 /\ closed = 0
       /\ seq = 0 /\ crashes = 0 /\ cert = 0 /\ crl = 0 /\ lock = 0 /\ st = 0
       /\ job = 0 /\ server = 0 /\ faults = 0 /\ mine = 0 /\ edits = 0
       /\ watcher = 0 /\ made = 0 /\ hup = 0 /\ signals = 0
  \/ part = "login" /\ Login!Init /\ NoRedis /\ NoEtcd /\ NoSql /\ NoInventory
       /\ NoStart /\ NoMigrate /\ NoManaged /\ NoChain /\ NoAdmission
       /\ NoService /\ NoReload /\ NoSignerRPC /\ local = 0 /\ pc = 0
       /\ issued = 0 /\ key = 0 /\ seq = 0 /\ crashes = 0 /\ cert = 0
       /\ crl = 0 /\ lock = 0 /\ revoked = 0 /\ st = 0 /\ job = 0
       /\ server = 0 /\ mine = 0 /\ now = 0 /\ edits = 0 /\ file = 0
       /\ admins = 0 /\ hup = 0 /\ signals = 0
  \/ part = "tree" /\ Tree!Init /\ NoRedis /\ NoEtcd /\ NoSql /\ NoInventory
       /\ NoStart /\ NoMigrate /\ NoManaged /\ NoChain /\ NoAdmission
       /\ NoToken /\ NoReload /\ NoSignerRPC /\ local = 0 /\ pc = 0
       /\ token = 0 /\ issued = 0 /\ key = 0 /\ closed = 0 /\ seq = 0
       /\ crashes = 0 /\ cert = 0 /\ crl = 0 /\ revoked = 0 /\ st = 0
       /\ mine = 0 /\ now = 0 /\ op = 0 /\ edits = 0 /\ file = 0 /\ admins = 0
       /\ watcher = 0
  \/ part = "reload" /\ Files!Init /\ NoRedis /\ NoEtcd /\ NoSql
       /\ NoInventory /\ NoStart /\ NoMigrate /\ NoManaged /\ NoChain
       /\ NoAdmission /\ NoToken /\ NoService /\ NoSignerRPC /\ local = 0
       /\ pc = 0 /\ token = 0 /\ issued = 0 /\ closed = 0 /\ seq = 0
       /\ crashes = 0 /\ crl = 0 /\ lock = 0 /\ revoked = 0 /\ st = 0
       /\ job = 0 /\ server = 0 /\ faults = 0 /\ mine = 0 /\ now = 0 /\ op = 0
       /\ file = 0 /\ made = 0
  \/ part = "signer" /\ Signer!Init /\ NoRedis /\ NoEtcd /\ NoSql
       /\ NoInventory /\ NoStart /\ NoMigrate /\ NoManaged /\ NoChain
       /\ NoAdmission /\ NoToken /\ NoService /\ NoReload /\ local = 0
       /\ pc = 0 /\ token = 0 /\ issued = 0 /\ key = 0 /\ closed = 0
       /\ crashes = 0 /\ cert = 0 /\ crl = 0 /\ lock = 0 /\ revoked = 0
       /\ job = 0 /\ server = 0 /\ faults = 0 /\ now = 0 /\ op = 0
       /\ edits = 0 /\ file = 0 /\ admins = 0 /\ watcher = 0 /\ made = 0
       /\ hup = 0 /\ signals = 0

Next ==
  \/ part = "redis" /\ Redis!Next
       /\ UNCHANGED <<part, etcdVars, sqlVars, inventoryVars, startVars,
                      migrateVars, managedVars, chainVars, admissionVars,
                      tokenVars, serviceVars, reloadVars, signerRPCVars,
                      closed, seq, crashes, cert, crl, lock, revoked, st, job,
                      server, faults, mine, now, op, edits, file, admins,
                      watcher, made, hup, signals>>
  \/ part = "etcd" /\ Etcd!Next
       /\ UNCHANGED <<part, redisVars, sqlVars, inventoryVars, startVars,
                      migrateVars, managedVars, chainVars, admissionVars,
                      tokenVars, serviceVars, reloadVars, signerRPCVars,
                      token, issued, key, seq, crashes, cert, crl, lock,
                      revoked, st, job, server, faults, mine, now, op, edits,
                      file, admins, watcher, made, hup, signals>>
  \/ part = "sql" /\ SQL!Next
       /\ UNCHANGED <<part, redisVars, etcdVars, inventoryVars, startVars,
                      migrateVars, managedVars, chainVars, admissionVars,
                      tokenVars, serviceVars, reloadVars, signerRPCVars, pc,
                      token, issued, key, closed, seq, crashes, cert, crl,
                      lock, revoked, st, job, server, faults, mine, now, op,
                      edits, file, admins, watcher, made, hup, signals>>
  \/ part = "import" /\ Import!Next
       /\ UNCHANGED <<part, redisVars, etcdVars, sqlVars, startVars,
                      migrateVars, managedVars, chainVars, admissionVars,
                      tokenVars, serviceVars, reloadVars, signerRPCVars,
                      local, pc, token, closed, cert, crl, lock, revoked, st,
                      job, server, faults, mine, now, op, edits, file, admins,
                      watcher, made, hup, signals>>
  \/ part = "start" /\ Start!Next
       /\ UNCHANGED <<part, redisVars, etcdVars, sqlVars, inventoryVars,
                      migrateVars, managedVars, chainVars, admissionVars,
                      tokenVars, serviceVars, reloadVars, signerRPCVars,
                      local, pc, token, issued, closed, seq, st, job, server,
                      faults, mine, now, op, edits, file, admins, watcher,
                      made, hup, signals>>
  \/ part = "migrate" /\ Cross!Next
       /\ UNCHANGED <<part, redisVars, etcdVars, sqlVars, inventoryVars,
                      startVars, managedVars, chainVars, admissionVars,
                      tokenVars, serviceVars, reloadVars, signerRPCVars,
                      local, pc, token, issued, key, closed, seq, crashes,
                      cert, crl, lock, revoked, mine, now, op, edits, file,
                      admins, watcher, made, hup, signals>>
  \/ part = "managed" /\ Pair!Next /\ faults' + edits' <= 2
       /\ (now > 0 => faults' = faults)
       /\ UNCHANGED <<part, redisVars, etcdVars, sqlVars, inventoryVars,
                      startVars, migrateVars, chainVars, admissionVars,
                      tokenVars, serviceVars, reloadVars, signerRPCVars,
                      local, pc, token, issued, key, closed, seq, crashes,
                      cert, revoked, st, job, server, file, admins, watcher,
                      made, hup, signals>>
  \/ part = "chain" /\ Chain!Next
       /\ UNCHANGED <<part, redisVars, etcdVars, sqlVars, inventoryVars,
                      startVars, migrateVars, managedVars, admissionVars,
                      tokenVars, serviceVars, reloadVars, signerRPCVars,
                      local, pc, token, issued, key, closed, seq, crashes,
                      cert, crl, revoked, st, job, server, mine, now, admins,
                      watcher, made, hup, signals>>
  \/ part = "admission" /\ Early!Next
       /\ UNCHANGED <<part, redisVars, etcdVars, sqlVars, inventoryVars,
                      startVars, migrateVars, managedVars, chainVars,
                      tokenVars, serviceVars, reloadVars, signerRPCVars,
                      local, pc, token, issued, key, closed, seq, crashes,
                      cert, crl, lock, st, job, server, faults, mine, edits,
                      watcher, made, hup, signals>>
  \/ part = "login" /\ Login!Next
       /\ UNCHANGED <<part, redisVars, etcdVars, sqlVars, inventoryVars,
                      startVars, migrateVars, managedVars, chainVars,
                      admissionVars, serviceVars, reloadVars, signerRPCVars,
                      local, pc, issued, key, seq, crashes, cert, crl, lock,
                      revoked, st, job, server, mine, now, edits, file,
                      admins, hup, signals>>
  \/ part = "tree" /\ Tree!Next
       /\ UNCHANGED <<part, redisVars, etcdVars, sqlVars, inventoryVars,
                      startVars, migrateVars, managedVars, chainVars,
                      admissionVars, tokenVars, reloadVars, signerRPCVars,
                      local, pc, token, issued, key, closed, seq, crashes,
                      cert, crl, revoked, st, mine, now, op, edits, file,
                      admins, watcher>>
  \/ part = "reload" /\ Files!Next
       /\ UNCHANGED <<part, redisVars, etcdVars, sqlVars, inventoryVars,
                      startVars, migrateVars, managedVars, chainVars,
                      admissionVars, tokenVars, serviceVars, signerRPCVars,
                      local, pc, token, issued, closed, seq, crashes, crl,
                      lock, revoked, st, job, server, faults, mine, now, op,
                      file, made>>
  \/ part = "signer" /\ Signer!Next
       /\ UNCHANGED <<part, redisVars, etcdVars, sqlVars, inventoryVars,
                      startVars, migrateVars, managedVars, chainVars,
                      admissionVars, tokenVars, serviceVars, reloadVars,
                      local, pc, token, issued, key, closed, crashes, cert,
                      crl, lock, revoked, job, server, faults, now, op, edits,
                      file, admins, watcher, made, hup, signals>>

Spec == Init /\ [][Next]_vars

-----------------------------------------------------------------------------
\* Redis: time passes, tickers run, the server expires keys.  etcd: critical
\* sections end, a retried delete is answered in the end, the server expires what
\* is no longer renewed and wakes the oldest waiter.  SQL: the Go mutex, the pool
\* and the server's lock queue are first come, first served.
LockFairness ==
  /\ WF_(Redis!vars)(part = "redis" /\ Redis!Tick)
  /\ WF_(Redis!vars)(part = "redis" /\ Redis!Expire)
  /\ \A c \in Redis!Callers :
       WF_(Redis!vars)(part = "redis" /\ (Redis!Renew(c) \/ Redis!RenewFails(c)))
  /\ \A c \in Etcd!Callers : WF_(Etcd!vars)(part = "etcd" /\ Etcd!Proceed(c))
  /\ \A p \in {"p1", "p2"} : WF_(Etcd!vars)(part = "etcd" /\ Etcd!RetryEnds(p))
  /\ \A s \in Etcd!Sessions :
       WF_(Etcd!vars)(part = "etcd" /\ s \notin renewing /\ Etcd!LeaseExpires(s))
  /\ \A r \in SQL!Requests : SF_(SQL!vars)(part = "sql" /\ SQL!Proceed(r))

\* A start, a command and a pass that have begun go on; the jobs' tickers and the
\* clock do too; a stranded read returns when its file system recovers.
StoreFairness ==
  /\ \A r \in {"r1", "r2"} :
       /\ WF_(Import!vars)(part = "import" /\ Import!Advance(r))
       /\ WF_(Start!vars)(part = "start" /\ up[r].pc # "down" /\ Start!Starting(r))
  /\ WF_(Start!vars)(part = "start" /\ import.pc # "idle" /\ Start!Import)
  /\ \A j \in {"m1", "m2"} : WF_(Cross!vars)(part = "migrate" /\ Cross!Step(j))
  /\ WF_(Pair!vars)(part = "managed" /\ Pair!Step("r1"))
  /\ WF_(Pair!vars)(part = "managed" /\ Pair!SyncCRLCache("r1"))
  /\ WF_(Pair!vars)(part = "managed" /\ Pair!Tick)
  /\ SF_(Chain!vars)(part = "chain" /\ Chain!Begin("r1", "refresh"))
  /\ WF_(Chain!vars)(part = "chain" /\ Chain!Pass("r1"))
  /\ WF_(Chain!vars)(part = "chain" /\ Chain!StrandedReturns("r1"))
  /\ WF_(Chain!vars)(part = "chain" /\ Chain!Recovers("r1"))

\* The goroutines of live processes run and their timers fire; a background pass,
\* a handler or the signer's answer may not come, and nobody need hang up.
ProcessFairness ==
  /\ WF_(Early!vars)(part = "admission" /\ Early!Reload)
  /\ WF_(Early!vars)(part = "admission" /\ Early!Tick)
  /\ WF_(Login!vars)(part = "login" /\ Login!Loop)
  /\ WF_(Login!vars)(part = "login" /\ Login!WatcherGivesUp)
  /\ WF_(Login!vars)(part = "login" /\ Login!Tick)
  /\ WF_(Login!vars)(part = "login" /\ Login!Close)
  /\ WF_(Login!vars)(part = "login" /\ Login!Request("q1"))
  /\ WF_(Tree!vars)(part = "tree" /\ Tree!Steps("i1"))
  /\ WF_(Tree!vars)(part = "tree" /\ Tree!SignerSteps("i1"))
  /\ WF_(Tree!vars)(part = "tree" /\ Tree!ServerSteps("i1"))
  /\ WF_(Files!vars)(part = "reload" /\ Files!Watcher)
  /\ WF_(Files!vars)(part = "reload" /\ Files!Compose)
  /\ WF_(Files!vars)(part = "reload" /\ Files!Send)
  /\ WF_(Signer!vars)(part = "signer" /\ Signer!SignerEnd)
  /\ WF_(Signer!vars)(part = "signer" /\ Signer!FrontendEnd)
  /\ WF_(Signer!vars)(part = "signer" /\ \E r \in replies : Signer!Deliver(r))
  /\ \A c \in {"c1", "c2"} :
       /\ WF_(Signer!vars)(part = "signer" /\ Signer!Send(c))
       /\ WF_(Signer!vars)(part = "signer" /\ (Signer!Sign(c) \/ Signer!signTimeout(c)))

FairSpec == Spec /\ LockFairness /\ StoreFairness /\ ProcessFairness

-----------------------------------------------------------------------------
(* Properties.  Where two processes are interchangeable the first stands   *)
(* for both: every branch of a temporal property costs a pass over the     *)
(* behaviours.                                                             *)

\* A key left behind by a dead process, a lost SetNX answer or a failed release is
\* gone in the end, so the other replicas are not shut out (LockTTL).
StaleKeyExpires ==
  \A t \in 1..2 :
    (part = "redis" /\ key = t /\ \A c \in Redis!Holders : token[c] # t)
      ~> (part = "redis" /\ key # t)

\* A replica that waits for the etcd lock gets it or an error: no failed
\* acquisition or release leaves a key behind on a lease that is renewed for ever
\* (AcquireLock, retryRelease).
WaiterProceeds ==
  LET c == <<"p1", 1>>
  IN  (part = "etcd" /\ pc[c] = "wait") ~> (part = "etcd" /\ pc[c] # "wait")

\* Whatever names hash alike, nested locks never wait for each other in a circle,
\* and a pool of two more connections than requests is enough for all of them to
\* finish (acquirePostgresLock, advisoryLockKey).
RequestsComplete ==
  \A r \in SQL!Requests :
    (part = "sql" /\ held[r] # 0) ~> (part = "sql" /\ held[r] = 0)

\* Every start over an older inventory ends: the replica serves or reports why it
\* does not (decomposeInventory, EnsureHMACKey, InitHMAC).
ImportEnds ==
  (part = "import" /\ rep["r1"].pc = "probe")
    ~> (part = "import" /\ rep["r1"].pc \in {"up", "failed", "tampered", "mixed", "down"})

\* A start ends, with the server up or with an error; nobody waits for the
\* bootstrap lock for good, the holder's own second acquisition included (CA.Init).
StartEnds ==
  (part = "start" /\ up["r1"].pc # "down")
    ~> (part = "start" /\ up["r1"].pc \in {"up", "down"})

\* Every migration that was started ends: the instance locks are refused, not
\* waited for, so migrations that cross each other do not wait on each other
\* (lockStore before MigrateService's two bootstrap locks).
MigrationsEnd ==
  (part = "migrate" /\ Cross!Working("m1")) ~> (part = "migrate" /\ ~Cross!Working("m1"))

\* Once failures and edits end, a managed entry has a usable certificate again and
\* keeps one, at whichever step the replica died or failed (ReconcileManagedCerts).
ServiceReturns == <>[](part = "managed" => Pair!InService)

\* What an acceptable crl_chain_file says is published in the end, although reads
\* of it were stranded and held every slot for a time (crlChainReadSem).
FileIsPublished ==
  <>[](part = "chain" => Chain!Stated("r1")) => []<>(part = "chain" => Chain!Caught("r1"))

\* A crl_file that holds the latest full CRL of every anchor is installed in the
\* end: no guard of the reload pins an anchor for good (regressedFrom).
LatestIsInstalled ==
  <>[](part = "admission" => Early!FullFile) => <>[](part = "admission" => installed = file)

\* A dead token is replaced, as long as OpenBao hands out tokens: the loop gets
\* there with no request to help it (renewLoop).
TokenRecovers ==
  (part = "login" /\ token \notin live /\ ~cancelled)
    ~> (part = "login" /\ (token \in live \/ cancelled \/ last = 3))

\* A shutdown of the token manager ends: the loop stops and the lock comes free
\* (Close).
CloseEnds == (part = "login" /\ cancelled) ~> (part = "login" /\ closed)

\* A launcher that has begun to stop ends, with both children gone, even when a
\* pass or a handler hangs or a child never reaches its signal handling
\* (stopBoth's hard kill).
StopsInTheEnd ==
  (part = "tree" /\ main["i1"] \in {"stop", "crash"})
    ~> (part = "tree" /\
        (main["i1"] = "killed" \/
         (main["i1"] \in {"exit", "failed"} /\ {signer["i1"], server["i1"]} = {"exit"})))

\* The signer never outlives its frontend for good: with no other holder of the
\* frontend's end of the socketpair it reads EOF and returns, launcher or no
\* launcher (spawnChild, Serve).
SignerFollowsFrontend ==
  (part = "tree" /\ server["i1"] = "exit") ~> (part = "tree" /\ signer["i1"] \in Tree!Gone)

\* A SIGHUP after the last edit puts every readable input into effect, however the
\* signal falls against a reload in progress and whatever is wrong with the other
\* input (configReloader.reload, the buffered hupCh).
ReloadLands ==
  (part = "reload" /\ asked) ~> (part = "reload" /\ (Files!InEffect \/ ~asked \/ stopped))

\* A reload that has begun is always closed towards the service manager, or
\* `systemctl reload` would hang (runReloadWatcher's READY=1).
ReloadIsClosed ==
  (part = "reload" /\ state = "reloading") ~> (part = "reload" /\ state # "reloading")

\* The status text settles on the outcome of the last reload: a heartbeat that
\* composed its text before does not hide a failure for good (statusSuffix).
StatusSettles ==
  <>[](part = "reload" => stopped \/ watcher # "wait" \/ text = Files!StatusText)

\* What the signer has answered leaves the client's map of pending calls, though
\* nobody listens any more (the buffered Done channel of RemoteSigner.Sign).
PendingDrains ==
  \A s \in 1..2 :
    (part = "signer" /\ \E r \in replies : r[1] = s) ~> (part = "signer" /\ s \notin pending)

\* Every Sign returns and gives its slot back, against a signer that has stopped
\* answering too: whoever queues for a slot gets one (signTimeout).
SlotsComeBack ==
  (part = "signer" /\ call["c1"] # "idle") ~> (part = "signer" /\ call["c1"] = "idle")

\* The handshake settles: both ends come up or both end, whatever either pipe
\* holds (readPSK's timer).
HandshakeEnds ==
  <>(part = "signer" => \/ st["signer"] = "up" /\ st["frontend"] = "up"
                        \/ Signer!Closed("signer") /\ Signer!Closed("frontend"))

-----------------------------------------------------------------------------
(* What each group of components promises in the end *)

\* No lock is shut for good: not by a dead holder, a lost answer, names that hash
\* alike or a small pool (redis.go, etcd.go, sql.go).
LocksComeFree == StaleKeyExpires /\ WaiterProceeds /\ RequestsComplete

\* Starts, imports and migrations end, and what an operator's files and the managed
\* entries call for is in force in the end (CA.Init, MigrateService,
\* ReconcileManagedCerts, crlchainfile.go, clientca.go).
StoresSettle ==
  /\ ImportEnds /\ StartEnds /\ MigrationsEnd
  /\ ServiceReturns /\ FileIsPublished /\ LatestIsInstalled

\* Handshakes, signatures, logins, reloads and shutdowns end, whoever has stopped
\* answering (launcher.go, signer.go, openbao/lease.go, reload.go).
ProcessesSettle ==
  /\ TokenRecovers /\ CloseEnds /\ StopsInTheEnd /\ SignerFollowsFrontend
  /\ ReloadLands /\ ReloadIsClosed /\ StatusSettles
  /\ PendingDrains /\ SlotsComeBack /\ HandshakeEnds

=============================================================================
