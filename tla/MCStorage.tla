----------------------------- MODULE MCStorage -----------------------------
(***************************************************************************)
(* The storage backends for TLC: the named lock of each, and the inventory *)
(* on each, running and starting over an older store.  A deployment has    *)
(* one backend; the first state chooses it, with the instance to check it  *)
(* on; the variables of the others stay 0, and the inventory of the older  *)
(* version stays empty.                                                    *)
(***************************************************************************)
EXTENDS InventoryStart, TLC

CONSTANTS p1, p2, i1, i2, t1, t2, signer, frontend

VARIABLES
  part,
  local, pc,   \* of several
  tokens, lockKey, token, ttl, due, missed,   \* RedisLock
  using, cur, opened, renewing, leases, queue, retry, closed,   \* EtcdLock
  held, phase, worked, owner,   \* SessionLock
  launched, instance, orphaned, open, fd, path, files, flocked,   \* HostLock
  records, counter, chain, bySerial, bySubject, op, calls, told   \* Inventory

redisVars == <<tokens, lockKey, token, ttl, due, missed>>
etcdVars == <<using, cur, opened, renewing, leases, queue, retry, closed>>
sqlVars == <<held, phase, worked, owner>>
hostVars == <<launched, instance, orphaned, open, fd, path, files, flocked>>
runVars == <<records, counter, chain, bySerial, bySubject, op, calls, told>>
sharedVars == <<local, pc>>

allVars == <<part, sharedVars, redisVars, etcdVars, sqlVars, hostVars, runVars,
             vars>>

Procs == {p1, p2}

Redis == INSTANCE RedisLock WITH Crowded <- {p1}, MaxTokens <- 3, Sentinel <- FALSE,
  issued <- tokens, key <- lockKey

\* With Sentinel failovers, which may lose the key.
Failover == INSTANCE RedisLock WITH Crowded <- {}, MaxTokens <- 3, Sentinel <- TRUE,
  issued <- tokens, key <- lockKey

Etcd == INSTANCE EtcdLock WITH Crowded <- {p1}, MaxSessions <- 3, MayClose <- {p1}

SQL == INSTANCE SessionLock WITH Crowded <- {p1}, Pool <- 4, Faulty <- TRUE

\* Nothing fails, so that only the pool and the locks can hold a request up.
Pool == INSTANCE SessionLock WITH Crowded <- {p1}, Pool <- 4, Faulty <- FALSE

Host == INSTANCE HostLock WITH Instances <- {i1, i2}, Roles <- {signer, frontend},
  Tasks <- {t1, t2}, Flock <- TRUE, MaxFiles <- 2

\* On a file system without flock(2).
NoFlock == INSTANCE HostLock WITH Instances <- {i1, i2}, Roles <- {signer, frontend},
  Tasks <- {t1, t2}, Flock <- FALSE, MaxFiles <- 1

\* Three serials, of which two share a subject.
SubjectOf == [s \in {"s1", "s2", "dup"} |-> IF s = "s2" THEN "b" ELSE "a"]

EtcdRows == INSTANCE Inventory WITH Kind <- "etcd", Legacy <- {"a", "b"},
  MaxSeq <- 3, MaxCalls <- 3, Edits <- {"revoke"}, Batch <- 1,
  MaxBatches <- 2, PerCall <- 1, Retries <- 1,
  entries <- records, seq <- counter, head <- chain

RedisRows == INSTANCE Inventory WITH Kind <- "redis", Legacy <- {"a", "b"},
  MaxSeq <- 3, MaxCalls <- 3, Edits <- {"revoke", "project"}, Batch <- 1,
  MaxBatches <- 2, PerCall <- 1, Retries <- 1,
  entries <- records, seq <- counter, head <- chain

SQLRows == INSTANCE Inventory WITH Kind <- "sql", Legacy <- {},
  MaxSeq <- 3, MaxCalls <- 3, Edits <- {"revoke", "clear", "project"}, Batch <- 1,
  MaxBatches <- 2, PerCall <- 1, Retries <- 1,
  entries <- records, seq <- counter, head <- chain

\* The inventory of the older version, with etcd as the module stands and on Redis.
OldText == <<"l1", "l2">>

RedisStart == INSTANCE InventoryStart WITH ByRevision <- FALSE

NoRedis ==
  /\ tokens = 0 /\ lockKey = 0 /\ token = 0 /\ ttl = 0 /\ due = 0 /\ missed = 0
NoEtcd ==
  /\ using = 0 /\ cur = 0 /\ opened = 0 /\ renewing = 0 /\ leases = 0
  /\ queue = 0 /\ retry = 0 /\ closed = 0
NoSql ==
  /\ held = 0 /\ phase = 0 /\ worked = 0 /\ owner = 0
NoHost ==
  /\ launched = 0 /\ instance = 0 /\ orphaned = 0 /\ open = 0 /\ fd = 0
  /\ path = 0 /\ files = 0 /\ flocked = 0
NoRun ==
  /\ records = 0 /\ counter = 0 /\ chain = 0 /\ bySerial = 0 /\ bySubject = 0 /\ op = 0 /\ calls = 0 /\ told = 0
NoStart == Init /\ key = NoKey

AnyInit ==
  \/ part = "redis" /\ Redis!Init /\ NoEtcd /\ NoSql /\ NoHost /\ NoRun
       /\ NoStart
  \/ part = "failover" /\ Failover!Init /\ NoEtcd /\ NoSql /\ NoHost /\ NoRun
       /\ NoStart
  \/ part = "etcd" /\ Etcd!Init /\ NoRedis /\ NoSql /\ NoHost /\ NoRun
       /\ NoStart
  \/ part = "sql" /\ SQL!Init /\ NoRedis /\ NoEtcd /\ NoHost /\ NoRun
       /\ NoStart /\ pc = 0
  \/ part = "pool" /\ Pool!Init /\ NoRedis /\ NoEtcd /\ NoHost /\ NoRun
       /\ NoStart /\ pc = 0
  \/ part = "host" /\ Host!Init /\ NoRedis /\ NoEtcd /\ NoSql /\ NoRun
       /\ NoStart
  \/ part = "noflock" /\ NoFlock!Init /\ NoRedis /\ NoEtcd /\ NoSql /\ NoRun
       /\ NoStart
  \/ part = "etcd rows" /\ EtcdRows!Init /\ NoRedis /\ NoEtcd /\ NoSql
       /\ NoHost /\ NoStart /\ local = 0 /\ pc = 0
  \/ part = "redis rows" /\ RedisRows!Init /\ NoRedis /\ NoEtcd /\ NoSql
       /\ NoHost /\ NoStart /\ local = 0 /\ pc = 0
  \/ part = "sql rows" /\ SQLRows!Init /\ NoRedis /\ NoEtcd /\ NoSql /\ NoHost
       /\ NoStart /\ local = 0 /\ pc = 0
  \/ part = "etcd start" /\ Init /\ NoRedis /\ NoEtcd /\ NoSql /\ NoHost
       /\ NoRun /\ local = 0 /\ pc = 0
  \/ part = "redis start" /\ RedisStart!Init /\ NoRedis /\ NoEtcd /\ NoSql
       /\ NoHost /\ NoRun /\ local = 0 /\ pc = 0

AnyNext ==
  \/ part = "redis" /\ Redis!Next
       /\ UNCHANGED <<part, etcdVars, sqlVars, hostVars, runVars, vars>>
  \/ part = "failover" /\ Failover!Next
       /\ UNCHANGED <<part, etcdVars, sqlVars, hostVars, runVars, vars>>
  \/ part = "etcd" /\ Etcd!Next
       /\ UNCHANGED <<part, redisVars, sqlVars, hostVars, runVars, vars>>
  \/ part = "sql" /\ SQL!Next
       /\ UNCHANGED <<part, redisVars, etcdVars, hostVars, runVars, vars, pc>>
  \/ part = "pool" /\ Pool!Next
       /\ UNCHANGED <<part, redisVars, etcdVars, hostVars, runVars, vars, pc>>
  \/ part = "host" /\ Host!Next
       /\ UNCHANGED <<part, redisVars, etcdVars, sqlVars, runVars, vars>>
  \/ part = "noflock" /\ NoFlock!Next
       /\ UNCHANGED <<part, redisVars, etcdVars, sqlVars, runVars, vars>>
  \/ part = "etcd rows" /\ EtcdRows!Next
       /\ UNCHANGED <<part, redisVars, etcdVars, sqlVars, hostVars, vars,
                      local, pc>>
  \/ part = "redis rows" /\ RedisRows!Next
       /\ UNCHANGED <<part, redisVars, etcdVars, sqlVars, hostVars, vars,
                      local, pc>>
  \/ part = "sql rows" /\ SQLRows!Next
       /\ UNCHANGED <<part, redisVars, etcdVars, sqlVars, hostVars, vars,
                      local, pc>>
  \/ part = "etcd start" /\ Next
       /\ UNCHANGED <<part, redisVars, etcdVars, sqlVars, hostVars, runVars,
                      local, pc>>
  \/ part = "redis start" /\ RedisStart!Next
       /\ UNCHANGED <<part, redisVars, etcdVars, sqlVars, hostVars, runVars,
                      local, pc>>

AnySpec == AnyInit /\ [][AnyNext]_allVars

Symmetry == Permutations(Replicas)

Running == part \in {"etcd rows", "redis rows", "sql rows"}

-----------------------------------------------------------------------------
(* Properties *)

\* Each part keeps the types of its state and its retry budgets.
PartsTyped ==
  /\ part = "redis" => Redis!TypeOK
  /\ part = "failover" => Failover!TypeOK
  /\ part = "etcd" => Etcd!TypeOK
  /\ part = "sql" => SQL!TypeOK
  /\ part = "pool" => Pool!TypeOK
  /\ part = "host" => Host!TypeOK
  /\ part = "noflock" => NoFlock!TypeOK
  /\ part = "etcd rows" => EtcdRows!TypeOK
  /\ part = "redis rows" => RedisRows!TypeOK
  /\ part = "sql rows" => SQLRows!TypeOK
  /\ TypeOK

Lock == INSTANCE Mutex WITH
  Owners  <- Redis!Callers \cup SQL!Requests \cup Host!Callers,
  holders <- CASE part = "redis"    -> Redis!Holders
               [] part = "failover" -> Failover!Holders
               [] part = "etcd"     -> Etcd!Holders
               [] part \in {"sql", "pool"} -> SQL!Holders
               [] part = "host"     -> Host!Holders
               [] OTHER             -> {},
  lapsed  <- CASE part = "redis"    -> Redis!Lapsed
               [] part = "failover" -> Failover!Lapsed
               [] part = "etcd"     -> Etcd!Lapsed
               [] part \in {"sql", "pool"} -> SQL!Lapsed
               [] OTHER             -> {}

\* The lock of every part is a lock: whatever answers are lost, processes die,
\* keys fail over, leases expire or sessions end, AcquireLock grants it only when
\* every earlier grant was released or has lapsed.  On the file system with
\* flock(2) a grant never lapses (AcquireLock and Unlock of redis.go, etcd.go,
\* sql.go and filelock.go).
ImplementsLock == Lock!Spec

\* Without flock(2), WithLock still excludes the goroutines of one process
\* (fileLocks.acquire).
ExcludesInProcess == part = "noflock" => NoFlock!ExcludesInProcess

\* While an instance holds the instance lock no other instance has the store open,
\* unless its launcher was killed and left its processes behind
\* (AcquireInstanceLock, holdInstanceLock).
OneInstance == part = "host" => Host!OneInstance

\* The margin of LockTTL over the heartbeat interval: without a failover, a live
\* holder loses its key only after two heartbeats in a row have failed, so no
\* single lost answer lets a second replica in (heartbeat).
LapsesOnlyAfterMisses == part = "redis" => Redis!LapsesOnlyAfterMisses

\* A key that is the token of a caller inside its critical section disappears
\* only when that caller releases it or dies, or its TTL has run out: an Unlock
\* that comes late, after its own key has lapsed, leaves the new holder's lock
\* alone (unlockLuaScript).
LateUnlockIsHarmless == [][part = "redis" => Redis!LateUnlockIsHarmless]_allVars

\* An etcd lock that is held on a lease the server still has is never deleted
\* under its holder: a background retry of an earlier release, which deletes the
\* very same key, is over before the process acquires the name again
\* (etcdUnlocker).
RetrySparesHeldLock == part = "etcd" => Etcd!RetrySparesHeldLock

\* AcquireLock does not hand out a lock on a session that is already Done, so no
\* caller starts a read-modify-write that another replica may enter at any time.
GrantedOnLiveSession == [][part = "etcd" => Etcd!GrantedOnLiveSession]_allVars

\* After every commit, of one batch of a prune or by a replica that then dies
\* included, the stored head is the fold over exactly the records that are
\* stored: verifyInventoryHMACLocked accepts what it would read in one request.
HeadCoversRecords == Running => EtcdRows!HeadCoversEntries

\* The by-serial and by-subject indexes agree with the records after every commit
\* of AppendEntry and PruneEntries, and a serial is never issued twice.
IndexesAgree == Running => EtcdRows!IndexesAgree

\* PruneEntries returns only records it durably removed and, without an error, all
\* of them, however many times a concurrent writer made it start over; with one it
\* leaves out at most what its last transaction removed, whose answer was lost.
PruneReportsRemovals ==
  /\ part = "etcd rows" => EtcdRows!PruneReportsRemovals
  /\ part = "redis rows" => RedisRows!PruneReportsRemovals
  /\ part = "sql rows" => SQLRows!PruneReportsRemovals

\* One PruneEntries call removes at most its budget, retries included.
PruneStaysInBudget ==
  /\ part = "etcd rows" => EtcdRows!PruneStaysInBudget
  /\ part = "redis rows" => RedisRows!PruneStaysInBudget

\* A certificate whose revocation SetRevoked acknowledged is never listed as
\* signed again, whatever repairs, refused duplicates and prunes race with it.
RevokedNeverShownSigned ==
  /\ part = "etcd rows" => EtcdRows!RevokedNeverShownSigned
  /\ part = "redis rows" => RedisRows!RevokedNeverShownSigned
  /\ part = "sql rows" => SQLRows!RevokedNeverShownSigned

-----------------------------------------------------------------------------
(* What each component promises *)

\* The locks keep what callers build on besides exclusion: one instance per store,
\* no grant that lapses for less than the code allows, none handed out on a dead
\* session, and none taken away by a late release (redis.go, etcd.go, filelock.go,
\* instancelock.go).
LocksHold ==
  /\ [](/\ PartsTyped /\ ExcludesInProcess /\ OneInstance
        /\ LapsesOnlyAfterMisses /\ RetrySparesHeldLock)
  /\ LateUnlockIsHarmless /\ GrantedOnLiveSession

\* After every transaction of every replica the records, both indexes, the head
\* and what callers were told agree (etcd_inventory.go, redis_inventory.go,
\* sql_inventory.go).
InventoryAgrees ==
  /\ HeadCoversRecords /\ IndexesAgree
  /\ PruneReportsRemovals /\ PruneStaysInBudget /\ RevokedNeverShownSigned
=============================================================================
