------------------------------ MODULE HostLock ------------------------------
(***************************************************************************)
(* Locking on a store without distributed locks (a directory, SQLite): the *)
(* store-wide instance lock, and one named lock that WithLock takes on the *)
(* same-host tier or, failing that, in the process alone.                  *)
(*                                                                         *)
(* An instance is a launcher with the instance lock and the processes it   *)
(* starts, each with a handle of its own on the store.  flock(2) is        *)
(* external: a lock belongs to an open file, of which a path may name      *)
(* several in succession, and ends with its last descriptor.               *)
(***************************************************************************)
EXTENDS Naturals, FiniteSets

CONSTANTS
  Instances,        \* launchers, and commands that work on the store
  Roles,            \* the processes of an instance
  Tasks,            \* the goroutines of a process that want the named lock
  Flock,            \* whether the file system and the kernel have flock(2)
  MaxFiles          \* bound: files created at the lock's path

Procs == Instances \X Roles

Callers == Procs \X Tasks

VARIABLES
  launched,         \* the instances that are up
  instance,         \* the holders of the instance lock
  orphaned,         \* the instances whose launcher died before its processes
  open,             \* the processes with a handle on the store
  local,            \* the processes whose mutex for the name is taken
  pc,               \* pc[c]: "idle", "local", "open" or "hold"
  fd,               \* fd[c]: the file c has open, 0 for none
  path,             \* the file at the lock's path, 0 for none
  files,            \* files created there so far
  flocked           \* the callers whose descriptor has its file locked

instances == <<launched, instance, orphaned, open>>
vars == <<instances, local, pc, fd, path, files, flocked>>

TypeOK ==
  /\ launched \subseteq Instances
  /\ instance \subseteq launched
  /\ orphaned \subseteq Instances
  /\ open \subseteq Procs
  /\ local \subseteq open
  /\ pc \in [Callers -> {"idle", "local", "open", "hold"}]
  /\ fd \in [Callers -> 0..files]
  /\ path \in 0..files
  /\ files \in 0..MaxFiles
  /\ flocked \subseteq Callers

Init ==
  /\ launched = {} /\ instance = {} /\ orphaned = {} /\ open = {}
  /\ local = {}
  /\ pc = [c \in Callers |-> "idle"]
  /\ fd = [c \in Callers |-> 0]
  /\ path = 0
  /\ files = 0
  /\ flocked = {}

-----------------------------------------------------------------------------
(* The instance lock *)

\* lockStoreInstance, holdInstanceLock: AcquireInstanceLock never waits.  It is
\* granted, or does not apply; a StoreLockedError ends the start, which leaves
\* nothing behind.
Launch(i) ==
  /\ i \notin launched \cup orphaned
  /\ \/ Flock /\ instance = {} /\ instance' = {i}
     \/ ~ Flock /\ UNCHANGED instance
  /\ launched' = launched \cup {i}
  /\ UNCHANGED <<orphaned, open, local, pc, fd, path, files, flocked>>

\* A process of the instance opens the store.
Open(p) ==
  /\ p[1] \in launched
  /\ p \notin open
  /\ open' = open \cup {p}
  /\ UNCHANGED <<launched, instance, orphaned, local, pc, fd, path, files, flocked>>

\* It closes the store once its work is done.
CloseStore(p) ==
  /\ p \in open \ local
  /\ open' = open \ {p}
  /\ UNCHANGED <<launched, instance, orphaned, local, pc, fd, path, files, flocked>>

\* The instance lock is released last, after every handle it protects.
Leave(i) ==
  /\ i \in launched
  /\ \A p \in open : p[1] # i
  /\ launched' = launched \ {i}
  /\ instance' = instance \ {i}
  /\ UNCHANGED <<orphaned, open, local, pc, fd, path, files, flocked>>

\* The launcher is killed and its processes live on.
LauncherDies(i) ==
  /\ i \in launched
  /\ launched' = launched \ {i}
  /\ instance' = instance \ {i}
  /\ orphaned' = IF \E p \in open : p[1] = i THEN orphaned \cup {i} ELSE orphaned
  /\ UNCHANGED <<open, local, pc, fd, path, files, flocked>>

\* A process dies: the kernel closes its descriptors.
Die(p) ==
  /\ p \in open
  /\ open' = open \ {p}
  /\ local' = local \ {p}
  /\ pc' = [c \in Callers |-> IF c[1] = p THEN "idle" ELSE pc[c]]
  /\ fd' = [c \in Callers |-> IF c[1] = p THEN 0 ELSE fd[c]]
  /\ flocked' = {c \in flocked : c[1] # p}
  /\ orphaned' = IF \E q \in open' : q[1] = p[1] THEN orphaned ELSE orphaned \ {p[1]}
  /\ UNCHANGED <<launched, instance, path, files>>

-----------------------------------------------------------------------------
(* The named lock *)

\* acquire, or WithLock's localNamedLock: the process-local mutex.
TakeLocal(c) ==
  /\ pc[c] = "idle"
  /\ c[1] \in open \ local
  /\ local' = local \cup {c[1]}
  /\ pc' = [pc EXCEPT ![c] = IF Flock THEN "local" ELSE "hold"]
  /\ UNCHANGED <<instances, fd, path, files, flocked>>

\* OpenFile with O_CREATE.
OpenFile(c) ==
  /\ pc[c] = "local"
  /\ \/ path # 0 /\ UNCHANGED <<path, files>>
     \/ path = 0 /\ files < MaxFiles /\ files' = files + 1 /\ path' = files'
  /\ fd' = [fd EXCEPT ![c] = path']
  /\ pc' = [pc EXCEPT ![c] = "open"]
  /\ UNCHANGED <<instances, local, flocked>>

\* tryLock: exclusive among the descriptors of one file.
TryLock(c) ==
  /\ pc[c] = "open"
  /\ \A d \in flocked : fd[d] # fd[c]
  /\ flocked' = flocked \cup {c}
  /\ pc' = [pc EXCEPT ![c] = "hold"]
  /\ UNCHANGED <<instances, local, fd, path, files>>

\* Closing the descriptor drops its flock; then the local mutex is freed.
Close(c) ==
  /\ fd' = [fd EXCEPT ![c] = 0]
  /\ flocked' = flocked \ {c}
  /\ local' = local \ {c[1]}
  /\ pc' = [pc EXCEPT ![c] = "idle"]
  /\ UNCHANGED <<instances, files>>

\* acquire fails: the file cannot be opened, or the context is done.
AcquireFails(c) == pc[c] \in {"local", "open"} /\ Close(c) /\ UNCHANGED path

\* fileUnlocker.Unlock: the file stays.
Unlock(c) == pc[c] = "hold" /\ Close(c) /\ UNCHANGED path

-----------------------------------------------------------------------------
Next ==
  \/ \E i \in Instances : Launch(i) \/ Leave(i) \/ LauncherDies(i)
  \/ \E p \in Procs : Open(p) \/ CloseStore(p) \/ Die(p)
  \/ \E c \in Callers : \/ TakeLocal(c) \/ OpenFile(c) \/ TryLock(c)
                        \/ AcquireFails(c) \/ Unlock(c)

Spec == Init /\ [][Next]_vars

-----------------------------------------------------------------------------
(* Properties *)

Holders == {c \in Callers : pc[c] = "hold"}

\* WithLock excludes the goroutines of one process, on a file system without
\* flock(2) too (fileLocks.acquire).
ExcludesInProcess == \A c, d \in Holders : c[1] = d[1] => c = d

\* While an instance holds the instance lock no other instance has the store open,
\* unless its launcher was killed and left its processes behind
\* (AcquireInstanceLock, holdInstanceLock).
OneInstance == \A i \in instance, p \in open : p[1] \in {i} \cup orphaned
=============================================================================
