------------------------------ MODULE EtcdLock ------------------------------
(***************************************************************************)
(* One named lock of the etcd backend: a process-local mutex, then a key   *)
(* under the lock's prefix on the lease of a session that the whole        *)
(* process shares.  The server grants the lock to the oldest key.  Answers *)
(* get lost, keepalives stop, leases expire, and a process may close its   *)
(* backend or die and start again.                                         *)
(*                                                                         *)
(* The etcd client (concurrency.Session, concurrency.Mutex) is external: a *)
(* session is Done once its keepalive has stopped, a lock key is named by  *)
(* its lease and so is the same for every acquisition of one session.      *)
(***************************************************************************)
EXTENDS Naturals

CONSTANTS
  Procs,            \* the processes (replicas)
  Crowded,          \* those where two goroutines want the lock, not one
  MaxSessions,      \* bound: sessions opened
  MayClose          \* the processes that may close their backend

Callers == (Procs \X {1}) \cup (Crowded \X {2})

Sessions == 1..MaxSessions

VARIABLES
  local,            \* the processes whose mutex for the name is taken
  pc,               \* pc[c]: "idle", "session", "lock", "wait" or "hold"
  using,            \* using[c]: the session c acquires the lock on, 0 for none
  cur,              \* cur[p]: EtcdBackend.session, 0 for none
  opened,           \* sessions opened so far
  renewing,         \* the sessions that are not Done
  leases,           \* the sessions whose lease the server still has
  queue,            \* queue[s]: the older keys s waits for, if s has a lock key
  retry,            \* retry[p]: the session retryRelease works for, 0 for none
  closed            \* the processes whose backend is closed

vars == <<local, pc, using, cur, opened, renewing, leases, queue, retry, closed>>

TypeOK ==
  /\ local \subseteq Procs
  /\ pc \in [Callers -> {"idle", "session", "lock", "wait", "hold"}]
  /\ using \in [Callers -> 0..opened]
  /\ cur \in [Procs -> 0..opened]
  /\ opened \in 0..MaxSessions
  /\ renewing \subseteq 1..opened
  /\ leases \subseteq 1..opened
  /\ DOMAIN queue \subseteq leases
  /\ \A s \in DOMAIN queue : queue[s] \subseteq DOMAIN queue
  /\ retry \in [Procs -> 0..opened]
  /\ closed \subseteq MayClose

Init ==
  /\ local = {}
  /\ pc = [c \in Callers |-> "idle"]
  /\ using = [c \in Callers |-> 0]
  /\ cur = [p \in Procs |-> 0]
  /\ opened = 0
  /\ renewing = {}
  /\ leases = {}
  /\ queue = [s \in {} |-> {}]
  /\ retry = [p \in Procs |-> 0]
  /\ closed = {}

-----------------------------------------------------------------------------
(* Release: etcdUnlocker *)

server == <<leases, queue>>

\* The lock keys on the server when s's is deleted, and when it is created: a key
\* waits for the deletion of those created before it.
Without(s) == [t \in DOMAIN queue \ {s} |-> queue[t] \ {s}]

With(s) == [t \in DOMAIN queue \cup {s} |-> IF t = s THEN DOMAIN queue ELSE queue[t]]

\* release, answered: the key is deleted, and the local mutex freed.
Deleted(c) ==
  /\ c[1] \notin closed
  /\ queue' = Without(using[c])
  /\ local' = local \ {c[1]}
  /\ UNCHANGED retry

\* Mutant: the local mutex is freed while the retry goes on.
NotDeleted_FreesLocal(c) ==
  /\ queue' \in {queue, Without(using[c])}
  /\ retry' = [retry EXCEPT ![c[1]] = using[c]]
  /\ local' = local \ {c[1]}

\* release, not answered: the key may be deleted all the same; retryRelease goes
\* on in the background and keeps the local mutex.
NotDeleted(c) ==
  /\ queue' \in {queue, Without(using[c])}
  /\ retry' = [retry EXCEPT ![c[1]] = using[c]]
  /\ UNCHANGED local

\* etcdUnlocker.Unlock, on whatever path it is called.
Release(c) ==
  /\ Deleted(c) \/ NotDeleted(c)
  /\ pc' = [pc EXCEPT ![c] = "idle"]
  /\ using' = [using EXCEPT ![c] = 0]
  /\ UNCHANGED <<cur, opened, renewing, leases, closed>>

Unlock(c) == pc[c] = "hold" /\ Release(c)

\* retryRelease stops: the delete is answered, or the session is Done.
RetryEnds(p) ==
  /\ retry[p] # 0
  /\ \/ p \notin closed /\ queue' = Without(retry[p])
     \/ retry[p] \notin renewing /\ UNCHANGED queue
  /\ retry' = [retry EXCEPT ![p] = 0]
  /\ local' = local \ {p}
  /\ UNCHANGED <<pc, using, cur, opened, renewing, leases, closed>>

\* One of its deletes arrives and the answer is lost.
RetryUnanswered(p) ==
  /\ retry[p] # 0 /\ p \notin closed
  /\ retry[p] \in DOMAIN queue
  /\ queue' = Without(retry[p])
  /\ UNCHANGED <<local, pc, using, cur, opened, renewing, leases, retry, closed>>

-----------------------------------------------------------------------------
(* Acquisition *)

\* AcquireLock up to ensureSession.
TakeLocal(c) ==
  /\ pc[c] = "idle"
  /\ c[1] \notin local
  /\ local' = local \cup {c[1]}
  /\ pc' = [pc EXCEPT ![c] = "session"]
  /\ UNCHANGED <<using, cur, opened, renewing, leases, queue, retry, closed>>

\* ensureSession returns the process's session while it is not Done.
ReuseSession(c) ==
  /\ cur[c[1]] \in renewing
  /\ using' = [using EXCEPT ![c] = cur[c[1]]]
  /\ UNCHANGED <<cur, opened, renewing, leases>>

\* Otherwise it is granted a lease and opens a session on it.
OpenSession(c) ==
  /\ cur[c[1]] \notin renewing
  /\ opened < MaxSessions
  /\ opened' = opened + 1
  /\ cur' = [cur EXCEPT ![c[1]] = opened']
  /\ using' = [using EXCEPT ![c] = opened']
  /\ renewing' = renewing \cup {opened'}
  /\ leases' = leases \cup {opened'}

EnsureSession(c) ==
  /\ pc[c] = "session"
  /\ c[1] \notin closed
  /\ ReuseSession(c) \/ OpenSession(c)
  /\ pc' = [pc EXCEPT ![c] = "lock"]
  /\ UNCHANGED <<local, queue, retry, closed>>

\* It fails: the backend is closed, or the lease is not granted.
NoSession(c) ==
  /\ pc[c] = "session"
  /\ c[1] \in closed \/ cur[c[1]] \notin renewing
  /\ cur' = [cur EXCEPT ![c[1]] = 0]
  /\ local' = local \ {c[1]}
  /\ pc' = [pc EXCEPT ![c] = "idle"]
  /\ UNCHANGED <<using, opened, renewing, server, retry, closed>>

\* mu.Lock commits its key, unless the session already has it.
TryAcquire(c) ==
  /\ pc[c] = "lock"
  /\ using[c] \in leases
  /\ queue' = IF using[c] \in DOMAIN queue THEN queue ELSE With(using[c])
  /\ pc' = [pc EXCEPT ![c] = "wait"]
  /\ UNCHANGED <<local, using, cur, opened, renewing, leases, retry, closed>>

\* mu.Lock fails: before its key is there, with the commit's answer lost, or while
\* it waits.  The key is deleted directly, under the same retry.
LockFails(c) ==
  /\ pc[c] \in {"lock", "wait"}
  /\ Release(c)

\* Mutant: a failed acquisition leaves its key to the lease.
CommitUnanswered_Forgets(c) ==
  /\ pc[c] = "lock"
  /\ using[c] \in leases
  /\ using[c] \notin DOMAIN queue
  /\ queue' = With(using[c])
  /\ local' = local \ {c[1]}
  /\ pc' = [pc EXCEPT ![c] = "idle"]
  /\ using' = [using EXCEPT ![c] = 0]
  /\ UNCHANGED <<cur, opened, renewing, leases, retry, closed>>

CommitUnanswered(c) ==
  /\ pc[c] = "lock"
  /\ using[c] \in leases
  /\ using[c] \notin DOMAIN queue
  /\ queue' = With(using[c])
  /\ retry' = [retry EXCEPT ![c[1]] = using[c]]
  /\ pc' = [pc EXCEPT ![c] = "idle"]
  /\ using' = [using EXCEPT ![c] = 0]
  /\ UNCHANGED <<local, cur, opened, renewing, leases, closed>>

\* mu.Lock finds its key the oldest.  The grant is refused when the session is Done.
Granted(c) ==
  /\ pc[c] = "wait"
  /\ using[c] \in DOMAIN queue /\ queue[using[c]] = {}
  /\ \/ /\ using[c] \in renewing
        /\ pc' = [pc EXCEPT ![c] = "hold"]
        /\ UNCHANGED <<local, using, cur, opened, renewing, server, retry, closed>>
     \/ using[c] \notin renewing /\ Release(c)

-----------------------------------------------------------------------------
(* Sessions, leases and processes *)

\* The keepalive of a session stops: its Done channel is closed.
KeepaliveStops(s) ==
  /\ s \in renewing
  /\ renewing' = renewing \ {s}
  /\ UNCHANGED <<local, pc, using, cur, opened, server, retry, closed>>

Drop(s) ==
  /\ leases' = leases \ {s}
  /\ queue' = Without(s)

\* The server expires a lease it has not heard of for the TTL.  Its client may be
\* cut off and not know yet.
LeaseExpires(s) ==
  /\ s \in leases
  /\ Drop(s)
  /\ UNCHANGED <<local, pc, using, cur, opened, renewing, retry, closed>>

\* Close revokes the session's lease, or is cut off at the request timeout.
Close(p) ==
  /\ p \in MayClose \ closed
  /\ closed' = closed \cup {p}
  /\ renewing' = renewing \ {cur[p]}
  /\ cur' = [cur EXCEPT ![p] = 0]
  /\ Drop(cur[p]) \/ UNCHANGED server
  /\ UNCHANGED <<local, pc, using, opened, retry>>

\* The sessions a process has opened and may still use.
Of(p) == {cur[p], retry[p]} \cup {using[c] : c \in {d \in Callers : d[1] = p}}

\* A process dies and starts again.
Restart(p) ==
  /\ p \in local \cup closed
  /\ local' = local \ {p}
  /\ pc' = [c \in Callers |-> IF c[1] = p THEN "idle" ELSE pc[c]]
  /\ cur' = [cur EXCEPT ![p] = 0]
  /\ renewing' = renewing \ Of(p)
  /\ retry' = [retry EXCEPT ![p] = 0]
  /\ closed' = closed \ {p}
  /\ using' = [c \in Callers |-> IF c[1] = p THEN 0 ELSE using[c]]
  /\ UNCHANGED <<opened, server>>

-----------------------------------------------------------------------------
\* What a caller does next when nothing fails but its own lease.
Proceed(c) ==
  TryAcquire(c) \/ Granted(c) \/ Unlock(c) \/ (using[c] \notin leases /\ LockFails(c))

Next ==
  \/ \E c \in Callers :
       \/ TakeLocal(c) \/ EnsureSession(c) \/ NoSession(c) \/ TryAcquire(c)
       \/ CommitUnanswered(c) \/ LockFails(c) \/ Granted(c) \/ Unlock(c)
  \/ \E p \in Procs : RetryEnds(p) \/ RetryUnanswered(p) \/ Close(p) \/ Restart(p)
  \/ \E s \in Sessions : KeepaliveStops(s) \/ LeaseExpires(s)

Spec == Init /\ [][Next]_vars

-----------------------------------------------------------------------------
(* Properties *)

\* A caller inside its critical section, and one that is there although its key
\* is gone.
Holders == {c \in Callers : pc[c] = "hold"}
Lapsed == {c \in Holders : using[c] \notin DOMAIN queue}

\* An etcd lock that is held on a lease the server still has is never deleted
\* under its holder: a background retry of an earlier release, which deletes the
\* very same key, is over before the process acquires the name again
\* (etcdUnlocker).
RetrySparesHeldLock == \A c \in Lapsed : using[c] \notin leases

\* AcquireLock does not hand out a lock on a session that is already Done, so no
\* caller starts a read-modify-write that another replica may enter at any time.
GrantedOnLiveSession ==
  \A c \in Callers : pc[c] # "hold" /\ pc'[c] = "hold" => using[c] \in renewing
=============================================================================
