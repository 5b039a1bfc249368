---------------------------- MODULE SessionLock ----------------------------
(***************************************************************************)
(* The named locks of the SQL backend on PostgreSQL and MySQL, as the      *)
(* requests of several replicas nest them: a subject's lock, statements,   *)
(* the crl lock, statements.  Each lock is a process-local mutex, then a   *)
(* connection of its own from the process's bounded pool, then             *)
(* pg_advisory_lock or GET_LOCK on that connection's session.  The server  *)
(* frees the locks of a session that ends, when it notices.                *)
(*                                                                         *)
(* The driver and the server are external: a session is one connection, a  *)
(* failed statement costs the connection.                                  *)
(***************************************************************************)
EXTENDS Naturals, FiniteSets

CONSTANTS
  Procs,            \* the processes (replicas)
  Crowded,          \* those that serve two requests at once, not one
  Pool,             \* MaxOpenConns of each process
  Faulty            \* whether connections fail and processes die

Requests == (Procs \X {1}) \cup (Crowded \X {2})

\* Requests about the same subject are kept apart by its lock, so each request
\* here is about a subject of its own.
Subject(r) == <<"subject", r[1], r[2]>>

CRL == <<"crl", 0, 0>>

Names == {Subject(r) : r \in Requests} \cup {CRL}

\* The locks of a request, outermost first.
Name(r, i) == IF i = 1 THEN Subject(r) ELSE CRL

Sessions == Requests \X Names

Free == <<<<"free", 0>>, CRL>>

\* The session of a dead client, until the server notices.
Ghost == <<<<"ghost", 0>>, CRL>>

\* advisoryLockKey and mysqlLockName: singletons have reserved keys, all other
\* names share the hashed half.  In the worst case they all hash alike.
LockKey(n) == IF n = CRL THEN "reserved" ELSE "derived"

Keys == {"reserved", "derived"}

VARIABLES
  local,            \* local[p]: the names whose process-local mutex is taken
  held,             \* held[r]: how many locks r holds: none, Name(r, 1), or both
  phase,            \* phase[r]: "run", or "local", "conn" while it acquires one
  worked,           \* the requests that are past their last statement
  owner             \* owner[k]: the session that has the server's lock k

vars == <<local, held, phase, worked, owner>>

TypeOK ==
  /\ local \in [Procs -> SUBSET Names]
  /\ held \in [Requests -> 0..2]
  /\ phase \in [Requests -> {"run", "local", "conn"}]
  /\ worked \subseteq Requests
  /\ owner \in [Keys -> Sessions \cup {Free, Ghost}]

Init ==
  /\ local = [p \in Procs |-> {}]
  /\ held = [r \in Requests |-> 0]
  /\ phase = [r \in Requests |-> "run"]
  /\ worked = {}
  /\ owner = [k \in Keys |-> Free]

\* The lock a request takes next, and the one it took last.
Next1(r) == Name(r, held[r] + 1)
Last(r)  == Name(r, held[r])

Wants(r) == held[r] = 0 \/ (held[r] = 1 /\ r \notin worked)

\* The connections of p that hold a lock or wait for one.
Pinned(p) ==
  Cardinality({s \in Requests \X {1, 2} :
    s[1][1] = p /\ s[2] <= held[s[1]] + (IF phase[s[1]] = "conn" THEN 1 ELSE 0)})

-----------------------------------------------------------------------------
(* Acquisition *)

\* local.Lock()
TakeLocal(r) ==
  /\ phase[r] = "run" /\ Wants(r)
  /\ Next1(r) \notin local[r[1]]
  /\ local' = [local EXCEPT ![r[1]] = @ \cup {Next1(r)}]
  /\ phase' = [phase EXCEPT ![r] = "local"]
  /\ UNCHANGED <<held, worked, owner>>

\* db.Conn: a connection of the pool, if there is one.
TakeConn(r) ==
  /\ phase[r] = "local"
  /\ Pinned(r[1]) < Pool
  /\ phase' = [phase EXCEPT ![r] = "conn"]
  /\ UNCHANGED <<local, held, worked, owner>>

\* pg_advisory_lock or GET_LOCK is granted.
Lock(r) ==
  /\ phase[r] = "conn"
  /\ owner[LockKey(Next1(r))] = Free
  /\ owner' = [owner EXCEPT ![LockKey(Next1(r))] = <<r, Next1(r)>>]
  /\ held' = [held EXCEPT ![r] = @ + 1]
  /\ phase' = [phase EXCEPT ![r] = "run"]
  /\ UNCHANGED <<local, worked>>

\* db.Conn or the lock statement fails or times out, the lock granted unseen in the
\* worst case.  The request goes on to its end without the lock.
LockFails(r) ==
  /\ Faulty
  /\ phase[r] \in {"local", "conn"}
  /\ \/ UNCHANGED owner
     \/ /\ phase[r] = "conn"
        /\ owner[LockKey(Next1(r))] = Free
        /\ owner' = [owner EXCEPT ![LockKey(Next1(r))] = Ghost]
  /\ local' = [local EXCEPT ![r[1]] = @ \ {Next1(r)}]
  /\ phase' = [phase EXCEPT ![r] = "run"]
  /\ worked' = IF held[r] = 0 THEN worked ELSE worked \cup {r}
  /\ UNCHANGED held

-----------------------------------------------------------------------------
(* Work and release *)

\* A statement under both locks: it needs one more connection for a moment.
Statement(r) ==
  /\ phase[r] = "run" /\ held[r] = 2 /\ r \notin worked
  /\ Pinned(r[1]) < Pool
  /\ worked' = worked \cup {r}
  /\ UNCHANGED <<local, held, phase, owner>>

\* The server's side of a release that is answered, and of one that is not: the
\* connection is lost, and the lock with it once the server notices.
Released(s) ==
  LET k == LockKey(s[2])
  IN  owner' = IF owner[k] = s THEN [owner EXCEPT ![k] = Free] ELSE owner

Abandoned(s) ==
  LET k == LockKey(s[2])
  IN  owner' = IF owner[k] = s THEN [owner EXCEPT ![k] = Ghost] ELSE owner

\* pgUnlocker.Unlock, mysqlUnlocker.Unlock: the connection and the local mutex are
\* given back in either case.
Unlock(r) ==
  /\ phase[r] = "run" /\ r \in worked
  /\ Released(<<r, Last(r)>>) \/ (Faulty /\ Abandoned(<<r, Last(r)>>))
  /\ local' = [local EXCEPT ![r[1]] = @ \ {Last(r)}]
  /\ held' = [held EXCEPT ![r] = @ - 1]
  /\ worked' = IF held[r] = 1 THEN worked \ {r} ELSE worked
  /\ UNCHANGED phase

-----------------------------------------------------------------------------
(* Faults *)

\* The server ends the session of a lock that is held: the holder is not told.
SessionDies(r) ==
  /\ Faulty
  /\ \E i \in 1..held[r] :
       /\ owner[LockKey(Name(r, i))] = <<r, Name(r, i)>>
       /\ Released(<<r, Name(r, i)>>)
  /\ UNCHANGED <<local, held, phase, worked>>

\* The server notices that a client is gone.
Reap(k) ==
  /\ owner[k] = Ghost
  /\ owner' = [owner EXCEPT ![k] = Free]
  /\ UNCHANGED <<local, held, phase, worked>>

\* A process dies; its sessions are left to the server.
Crash(p) ==
  /\ Faulty
  /\ local[p] # {}
  /\ owner' = [k \in Keys |-> IF owner[k][1][1] = p THEN Ghost ELSE owner[k]]
  /\ local' = [local EXCEPT ![p] = {}]
  /\ held' = [r \in Requests |-> IF r[1] = p THEN 0 ELSE held[r]]
  /\ phase' = [r \in Requests |-> IF r[1] = p THEN "run" ELSE phase[r]]
  /\ worked' = {r \in worked : r[1] # p}

-----------------------------------------------------------------------------
Proceed(r) == TakeLocal(r) \/ TakeConn(r) \/ Lock(r) \/ Statement(r) \/ Unlock(r)

Next ==
  \/ \E r \in Requests : Proceed(r) \/ LockFails(r) \/ SessionDies(r)
  \/ \E p \in Procs : Crash(p)
  \/ \E k \in Keys : Reap(k)

Spec == Init /\ [][Next]_vars

-----------------------------------------------------------------------------
(* Properties *)

Holders == {r \in Requests : held[r] = 2}
Lapsed == {r \in Holders : owner[LockKey(CRL)] # <<r, CRL>>}
=============================================================================
