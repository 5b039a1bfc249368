----------------------------- MODULE RedisLock -----------------------------
(***************************************************************************)
(* One named lock of the Redis backend: a process-local mutex, then SET NX *)
(* PX with a token of its own per acquisition, a heartbeat that extends    *)
(* the TTL while the lock is held, and compare-and-delete on release.      *)
(* Every answer of the server may be lost, a process may die, and under    *)
(* Sentinel a failover may forget the key.                                 *)
(*                                                                         *)
(* Time is counted in heartbeat intervals.  A key whose TTL has run out is *)
(* gone before the next interval starts; a heartbeat due in the interval   *)
(* in which it runs out races it.                                          *)
(***************************************************************************)
EXTENDS Naturals, FiniteSets

CONSTANTS
  Procs,            \* the processes (replicas)
  Crowded,          \* those where two goroutines want the lock, not one
  MaxTokens,        \* bound: acquisitions attempted
  Sentinel          \* whether failovers may lose the key

Callers == (Procs \X {1}) \cup (Crowded \X {2})

\* How many heartbeats fit in a TTL (redisHeartbeatDenom).
Denom == 3

VARIABLES
  local,            \* the processes whose local mutex is taken
  pc,               \* pc[c]: "idle", "try" (local mutex held), "hold"
  token,            \* token[c]: the token of c's last acquisition
  issued,           \* the tokens drawn so far
  key,              \* the token stored under the lock's key, 0 for none
  ttl,              \* intervals the key has left
  due,              \* the holders whose heartbeat ticker has fired
  missed            \* missed[c]: heartbeats c has missed in a row

vars == <<local, pc, token, issued, key, ttl, due, missed>>

TypeOK ==
  /\ local \subseteq Procs
  /\ pc \in [Callers -> {"idle", "try", "hold"}]
  /\ token \in [Callers -> 0..MaxTokens]
  /\ issued \in 0..MaxTokens
  /\ key \in 0..issued
  /\ ttl \in 0..Denom
  /\ due \subseteq {c \in Callers : pc[c] = "hold"}
  /\ missed \in [Callers -> 0..Denom]

Init ==
  /\ local = {}
  /\ pc = [c \in Callers |-> "idle"]
  /\ token = [c \in Callers |-> 0]
  /\ issued = 0
  /\ key = 0
  /\ ttl = 0
  /\ due = {}
  /\ missed = [c \in Callers |-> 0]

-----------------------------------------------------------------------------
(* Acquisition *)

\* AcquireLock up to its loop: the local mutex, then a fresh token.
TakeLocal(c) ==
  /\ pc[c] = "idle"
  /\ c[1] \notin local
  /\ issued < MaxTokens
  /\ issued' = issued + 1
  /\ local' = local \cup {c[1]}
  /\ pc' = [pc EXCEPT ![c] = "try"]
  /\ token' = [token EXCEPT ![c] = issued + 1]
  /\ UNCHANGED <<key, ttl, due, missed>>

\* Mutant: SET without NX.
SetNX_Overwrites(c) ==
  /\ key' = token[c]
  /\ ttl' = Denom

\* SET NX PX finds no key and sets it.
SetNX(c) ==
  /\ key = 0
  /\ key' = token[c]
  /\ ttl' = Denom

\* The loop's SetNX answers yes: the lock is held and the heartbeat starts.
AcquireLock(c) ==
  /\ pc[c] = "try"
  /\ SetNX(c)
  /\ pc' = [pc EXCEPT ![c] = "hold"]
  /\ missed' = [missed EXCEPT ![c] = 0]
  /\ UNCHANGED <<local, token, issued, due>>

\* The loop ends without the lock: the context is done while the key is taken,
\* or a SetNX fails, which may have set the key all the same.
GiveUp(c) ==
  /\ pc[c] = "try"
  /\ SetNX(c) \/ UNCHANGED <<key, ttl>>
  /\ pc' = [pc EXCEPT ![c] = "idle"]
  /\ local' = local \ {c[1]}
  /\ UNCHANGED <<token, issued, due, missed>>

-----------------------------------------------------------------------------
(* Heartbeats and expiry *)

\* The goroutines whose ticker fires: those that have not stopped theirs.
Beating == {c \in Callers : pc[c] = "hold"}

\* A heartbeat interval passes.
Tick ==
  /\ due = {}
  /\ key # 0 => ttl > 0
  /\ key # 0 \/ Beating # {}
  /\ due' = Beating
  /\ ttl' = IF key = 0 THEN ttl ELSE ttl - 1
  /\ UNCHANGED <<local, pc, token, issued, key, missed>>

\* The renew script of heartbeat finds the holder's token.
Renew(c) ==
  /\ c \in due
  /\ key = token[c]
  /\ ttl' = Denom
  /\ due' = due \ {c}
  /\ missed' = [missed EXCEPT ![c] = 0]
  /\ UNCHANGED <<local, pc, token, issued, key>>

\* It fails, comes too late or finds another token: heartbeat only logs.
RenewFails(c) ==
  /\ c \in due
  /\ due' = due \ {c}
  /\ missed' = [missed EXCEPT ![c] = IF @ < Denom THEN @ + 1 ELSE @]
  /\ UNCHANGED <<local, pc, token, issued, key, ttl>>

\* The server drops a key whose TTL has run out.
Expire ==
  /\ key # 0
  /\ ttl = 0
  /\ key' = 0
  /\ UNCHANGED <<local, pc, token, issued, ttl, due, missed>>

\* Asynchronous replication: the new primary has not seen the key.
Failover ==
  /\ Sentinel
  /\ key # 0
  /\ key' = 0
  /\ UNCHANGED <<local, pc, token, issued, ttl, due, missed>>

-----------------------------------------------------------------------------
(* Release *)

\* Compare-and-delete.
UnlockScript(c) == key' = IF key = token[c] THEN 0 ELSE key

\* Unlock: the heartbeat is stopped, the script runs or fails, and the local
\* mutex is released in either case.
Unlock(c) ==
  /\ pc[c] = "hold"
  /\ UnlockScript(c) \/ UNCHANGED key
  /\ pc' = [pc EXCEPT ![c] = "idle"]
  /\ local' = local \ {c[1]}
  /\ due' = due \ {c}
  /\ UNCHANGED <<token, issued, ttl, missed>>

\* A process dies: its goroutines are gone and its key stays.
Crash(p) ==
  /\ p \in local
  /\ local' = local \ {p}
  /\ pc' = [c \in Callers |-> IF c[1] = p THEN "idle" ELSE pc[c]]
  /\ due' = {c \in due : c[1] # p}
  /\ UNCHANGED <<token, issued, key, ttl, missed>>

-----------------------------------------------------------------------------
Next ==
  \/ \E c \in Callers : \/ TakeLocal(c) \/ AcquireLock(c) \/ GiveUp(c)
                        \/ Renew(c) \/ RenewFails(c) \/ Unlock(c)
  \/ \E p \in Procs : Crash(p)
  \/ Tick \/ Expire \/ Failover

Spec == Init /\ [][Next]_vars

-----------------------------------------------------------------------------
(* Properties *)

\* A caller inside its critical section, and one that is there although the key
\* no longer holds its token.
Holders == {c \in Callers : pc[c] = "hold"}
Lapsed == {c \in Holders : key # token[c]}

\* The margin of LockTTL over the heartbeat interval: without a failover, a live
\* holder loses its key only after two heartbeats in a row have failed, so no
\* single lost answer lets a second replica in (heartbeat).
LapsesOnlyAfterMisses == \A c \in Lapsed : missed[c] >= Denom - 1

\* A key that is the token of a caller inside its critical section disappears
\* only when that caller releases it or dies, or its TTL has run out: an Unlock
\* that comes late, after its own key has lapsed, leaves the new holder's lock
\* alone (unlockLuaScript).
LateUnlockIsHarmless ==
  \A c \in Holders \ Lapsed : key' # key => pc'[c] = "idle" \/ ttl = 0
=============================================================================
