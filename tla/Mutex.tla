------------------------------- MODULE Mutex -------------------------------
(***************************************************************************)
(* What a named lock promises StorageService.WithLock's callers (Locker    *)
(* and Unlocker of the backend interface).  A grant lasts until its holder *)
(* releases it or until it lapses: a lease that runs out, a session the    *)
(* server reaps.  A holder whose grant has lapsed is not told and goes on; *)
(* no one is granted the lock while a grant lasts.                         *)
(***************************************************************************)
CONSTANT Owners     \* the callers that may hold the lock

VARIABLES
  holders,          \* the callers inside their critical section
  lapsed            \* the holders whose grant has lapsed

vars == <<holders, lapsed>>

Init == holders = {} /\ lapsed = {}

Grant(o) ==
  /\ o \notin holders
  /\ holders \subseteq lapsed
  /\ holders' = holders \cup {o}
  /\ UNCHANGED lapsed

Lapse(o) ==
  /\ o \in holders \ lapsed
  /\ lapsed' = lapsed \cup {o}
  /\ UNCHANGED holders

Release(o) ==
  /\ o \in holders
  /\ holders' = holders \ {o}
  /\ lapsed' = lapsed \ {o}

\* A step concerns a caller that is inside before it or after it.
Next ==
  \E o \in Owners \cap (holders \cup holders') : Grant(o) \/ Lapse(o) \/ Release(o)

Spec == Init /\ [][Next]_vars
=============================================================================
