------------------------------ MODULE Service ------------------------------
(***************************************************************************)
(* The processes of openvox-ca on a store without distributed locking, from *)
(* the instance lock to the last exit: the launcher with its signer and     *)
(* frontend children, or the single-process server (cmd/openvox-ca/main.go, *)
(* launcher.go, goroutine_group.go, internal/signer/signer.go,              *)
(* internal/storage/instancelock.go).                                       *)
(*                                                                          *)
(* An instance is one run of the command; two of them share the store, as   *)
(* a restart that overlaps its predecessor does.  main is the process the   *)
(* operator started, server the one that answers HTTP (main itself when     *)
(* it is not Isolated).  A process may die at any point.  Signals are       *)
(* delivered at once: a SIGTERM to a Go process that has registered for it  *)
(* is remembered in term, and has its default effect before that.           *)
(***************************************************************************)
EXTENDS Integers, FiniteSets

CONSTANTS Instances,
          Isolated,                        \* those without --single-process
          MaxSignals, MaxFaults

VARIABLES lock,           \* the flock on the store, and who holds it
          made,           \* the store holds a CA
          main, signer, server,
          proved,         \* the signer's proof is in the socket
          job, handler,   \* a background pass, an HTTP handler is running
          term, hup,      \* signals remembered by the processes
          armed,          \* stopBoth's hard-kill timer
          told,           \* the last thing said on the notify socket
          fatalHup,       \* a SIGHUP has ended a process
          signals, faults

vars == <<lock, made, main, signer, server, proved, job, handler, term, hup,
          armed, told, fatalHup, signals, faults>>

children == <<signer, server, proved, job, handler>>
heard == <<term, hup, armed, told, fatalHup>>
counts == <<signals, faults>>

Free == "free"
Gone == {"off", "exit"}

ASSUME ServiceAssumption == Free \notin Instances /\ Isolated \subseteq Instances

Init ==
  /\ lock = Free /\ made = FALSE
  /\ main = [i \in Instances |-> "off"]
  /\ signer = [i \in Instances |-> "off"]
  /\ server = [i \in Instances |-> "off"]
  /\ proved = [i \in Instances |-> FALSE]
  /\ job = [i \in Instances |-> FALSE] /\ handler = [i \in Instances |-> FALSE]
  /\ term = [i \in Instances |-> {}] /\ hup = [i \in Instances |-> {}]
  /\ armed = [i \in Instances |-> FALSE]
  /\ told = [i \in Instances |-> "status"]
  /\ fatalHup = FALSE
  /\ signals = 0 /\ faults = 0

----------------------------------------------------------------------------
(***************************************************************************)
(* The process the operator started.  AcquireInstanceLock never waits: it  *)
(* refuses while another process holds the store.                          *)
(***************************************************************************)
Lock(i) ==
  /\ main[i] = "off"
  /\ IF lock = Free
     THEN /\ lock' = i
          /\ main' = [main EXCEPT ![i] = IF i \in Isolated THEN "locked" ELSE "serve"]
          /\ server' = [server EXCEPT ![i] = IF i \in Isolated THEN "off" ELSE "open"]
     ELSE main' = [main EXCEPT ![i] = "exit"] /\ UNCHANGED <<lock, server>>
  /\ UNCHANGED <<made, signer, proved, job, handler, heard, counts>>

Unlock(i) == lock' = IF lock = i THEN Free ELSE lock

SpawnSigner(i) ==
  /\ main[i] = "locked"
  /\ main' = [main EXCEPT ![i] = "spawn"]
  /\ signer' = [signer EXCEPT ![i] = "exec"]
  /\ UNCHANGED <<lock, made, server, proved, job, handler, heard, counts>>

\* The frontend, and then the signal registration and the Wait goroutines.
SpawnFrontend(i) ==
  /\ main[i] = "spawn"
  /\ main' = [main EXCEPT ![i] = "supervise"]
  /\ server' = [server EXCEPT ![i] = "exec"]
  /\ UNCHANGED <<lock, made, signer, proved, job, handler, heard, counts>>

killAndReap(i) == signer' = [signer EXCEPT ![i] = "exit"]

SpawnFails(i) ==
  /\ main[i] = "spawn" /\ faults < MaxFaults
  /\ killAndReap(i)
  /\ main' = [main EXCEPT ![i] = "exit"] /\ Unlock(i)
  /\ faults' = faults + 1
  /\ UNCHANGED <<made, server, proved, job, handler, heard, signals>>

----------------------------------------------------------------------------
(***************************************************************************)
(* supervisor.run.  A child that has not registered for a signal yet is    *)
(* ended by it.                                                            *)
(***************************************************************************)
Forward(i) ==
  /\ main[i] = "supervise" /\ "main" \in hup[i]
  /\ IF server[i] = "exec"
     THEN /\ server' = [server EXCEPT ![i] = "exit"] /\ fatalHup' = TRUE
          /\ hup' = [hup EXCEPT ![i] = @ \ {"main"}]
     ELSE /\ hup' = [hup EXCEPT ![i] = IF server[i] \in Gone THEN @ \ {"main"}
                                       ELSE (@ \ {"main"}) \cup {"server"}]
          /\ UNCHANGED <<server, fatalHup>>
  /\ UNCHANGED <<lock, made, main, signer, proved, job, handler, term, armed,
                 told, counts>>

Ended(s) == IF s = "exec" THEN "exit" ELSE s

stopBoth(i) ==
  /\ server' = [server EXCEPT ![i] = Ended(@)]
  /\ signer' = [signer EXCEPT ![i] = Ended(@)]
  /\ term' = [term EXCEPT ![i] = @ \cup {"signer", "server"}]
  /\ armed' = [armed EXCEPT ![i] = TRUE]

StopOnSignal(i) ==
  /\ main[i] = "supervise" /\ "main" \in term[i]
  /\ main' = [main EXCEPT ![i] = "stop"]
  /\ told' = [told EXCEPT ![i] = "stopping"]
  /\ stopBoth(i)
  /\ UNCHANGED <<lock, made, proved, job, handler, hup, fatalHup, counts>>

StopOnExit(i) ==
  /\ main[i] = "supervise" /\ "exit" \in {signer[i], server[i]}
  /\ main' = [main EXCEPT ![i] = "crash"]
  /\ told' = [told EXCEPT ![i] = "cause"]
  /\ stopBoth(i)
  /\ UNCHANGED <<lock, made, proved, job, handler, hup, fatalHup, counts>>

\* Mutant: there is no hard kill.
Kill_Never(i) == FALSE /\ UNCHANGED vars

Kill(i) ==
  /\ armed[i] /\ main[i] \in {"stop", "crash"}
  /\ {signer[i], server[i]} # {"exit"}
  /\ signer' = [signer EXCEPT ![i] = "exit"]
  /\ server' = [server EXCEPT ![i] = "exit"]
  /\ job' = [job EXCEPT ![i] = FALSE] /\ handler' = [handler EXCEPT ![i] = FALSE]
  /\ UNCHANGED <<lock, made, main, proved, heard, counts>>

\* Both results are in; a crash is reported once more, and main returns.
Finish(i) ==
  /\ main[i] \in {"stop", "crash"} /\ signer[i] = "exit" /\ server[i] = "exit"
  /\ told' = IF main[i] = "crash" THEN [told EXCEPT ![i] = "cause"] ELSE told
  /\ main' = [main EXCEPT ![i] = IF @ = "crash" THEN "failed" ELSE "exit"]
  /\ Unlock(i)
  /\ UNCHANGED <<made, children, term, hup, armed, fatalHup, counts>>

----------------------------------------------------------------------------
(***************************************************************************)
(* The isolated signer: runSignerMode, initSignerKey and signer.Serve.     *)
(* Its Init makes the CA on a first run; only then does it shake hands.    *)
(***************************************************************************)
SignerStarts(i) ==
  /\ signer[i] = "exec"
  /\ signer' = [signer EXCEPT ![i] = "init"]
  /\ UNCHANGED <<lock, made, main, server, proved, job, handler, heard, counts>>

SignerInits(i) ==
  /\ signer[i] = "init"
  /\ \/ signer' = [signer EXCEPT ![i] = "hand"] /\ made' = TRUE
     \/ "signer" \in term[i] /\ signer' = [signer EXCEPT ![i] = "exit"]
        /\ UNCHANGED made
  /\ UNCHANGED <<lock, main, server, proved, job, handler, heard, counts>>

\* Serve registers for signals after the handshake: one that came earlier has
\* cancelled a context that nothing here looks at.
serverHandshake(i) ==
  /\ signer[i] = "hand" /\ server[i] = "dial"
  /\ signer' = [signer EXCEPT ![i] = "serve"]
  /\ proved' = [proved EXCEPT ![i] = TRUE]
  /\ term' = [term EXCEPT ![i] = @ \ {"signer"}]
  /\ UNCHANGED <<lock, made, main, server, job, handler, hup, armed, told, fatalHup,
                 counts>>

\* The frontend's end of the socketpair is open in the launcher until it has
\* spawned the frontend, and in the frontend alone from then on.
EndOpen(i) == main[i] = "spawn" \/ server[i] \notin {"off", "exit", "close"}

SignerEnds(i) ==
  /\ \/ signer[i] = "hand" /\ ~EndOpen(i)
     \/ signer[i] = "serve" /\ (~EndOpen(i) \/ "signer" \in term[i])
  /\ signer' = [signer EXCEPT ![i] = "exit"]
  /\ UNCHANGED <<lock, made, main, server, proved, job, handler, heard, counts>>

----------------------------------------------------------------------------
(***************************************************************************)
(* The server, frontend or single process.  Returning by any path joins    *)
(* the goroutine group, then closes the signer connection and the store.   *)
(***************************************************************************)
To(i, s) ==
  /\ server' = [server EXCEPT ![i] = s]
  /\ UNCHANGED <<lock, main, signer, proved, handler, term, hup, armed,
                 fatalHup, counts>>

ServerStarts(i) ==
  server[i] = "exec" /\ To(i, "open") /\ UNCHANGED <<made, job, told>>

ServerOpens(i) ==
  /\ server[i] = "open"
  /\ To(i, IF i \in Isolated THEN "dial" ELSE "init")
  /\ UNCHANGED <<made, job, told>>

\* DialConn does not watch the context; what follows it does.
DialConn(i) ==
  /\ server[i] = "dial"
  /\ \/ proved[i] /\ To(i, "init")
     \/ signer[i] = "exit" /\ ~proved[i] /\ To(i, "close")
  /\ UNCHANGED <<made, job, told>>

ServerInits(i) ==
  /\ server[i] = "init"
  /\ \/ To(i, "bind") /\ made' = TRUE
     \/ "server" \in term[i] /\ To(i, "close") /\ UNCHANGED made
  /\ UNCHANGED <<job, told>>

\* net.Listen, and READY=1 once it accepts; a failed bind joins the group.
Listen(i) ==
  /\ server[i] = "bind"
  /\ \/ To(i, "serve") /\ told' = [told EXCEPT ![i] = "ready"]
     \/ To(i, "join") /\ UNCHANGED told
  /\ UNCHANGED <<made, job>>

\* The shutdown goroutine.
Drain(i) ==
  /\ server[i] = "serve" /\ "server" \in term[i]
  /\ To(i, "drain")
  /\ told' = [told EXCEPT ![i] = "stopping"]
  /\ UNCHANGED <<made, job>>

\* server.Shutdown returns with the last handler, or when the drain is up.
Drained(i) ==
  server[i] = "drain" /\ To(i, "join") /\ UNCHANGED <<made, job, told>>

\* Mutant: Stop cancels and does not wait.
Stop_NotJoined(i) ==
  server[i] = "join" /\ To(i, "close") /\ UNCHANGED <<made, job, told>>

\* goroutineGroup.Stop: cancel, and wait for every goroutine.
Stop(i) ==
  /\ server[i] = "join" /\ ~job[i]
  /\ To(i, "close")
  /\ UNCHANGED <<made, job, told>>

ServerExits(i) ==
  /\ server[i] = "close"
  /\ IF i \in Isolated
     THEN /\ server' = [server EXCEPT ![i] = "exit"]
          /\ handler' = [handler EXCEPT ![i] = FALSE]
          /\ job' = [job EXCEPT ![i] = FALSE] /\ UNCHANGED <<lock, main>>
     ELSE /\ server' = [server EXCEPT ![i] = "unlocked"] /\ Unlock(i)
          /\ UNCHANGED <<main, handler, job>>
  /\ UNCHANGED <<made, signer, proved, heard, counts>>

\* The single process ends, and the handlers still running with it.
ProcessEnds(i) ==
  /\ server[i] = "unlocked"
  /\ server' = [server EXCEPT ![i] = "exit"] /\ main' = [main EXCEPT ![i] = "exit"]
  /\ handler' = [handler EXCEPT ![i] = FALSE] /\ job' = [job EXCEPT ![i] = FALSE]
  /\ UNCHANGED <<lock, made, signer, proved, heard, counts>>

JobBegins(i) ==
  /\ server[i] \in {"bind", "serve"} /\ ~job[i] /\ "server" \notin term[i]
  /\ job' = [job EXCEPT ![i] = TRUE]
  /\ UNCHANGED <<lock, made, main, signer, server, proved, handler, heard, counts>>

JobEnds(i) ==
  /\ job[i] /\ job' = [job EXCEPT ![i] = FALSE]
  /\ UNCHANGED <<lock, made, main, signer, server, proved, handler, heard, counts>>

HandlerBegins(i) ==
  /\ server[i] = "serve" /\ ~handler[i]
  /\ handler' = [handler EXCEPT ![i] = TRUE]
  /\ UNCHANGED <<lock, made, main, signer, server, proved, job, heard, counts>>

HandlerEnds(i) ==
  /\ handler[i] /\ handler' = [handler EXCEPT ![i] = FALSE]
  /\ UNCHANGED <<lock, made, main, signer, server, proved, job, heard, counts>>

\* runReloadWatcher takes the signal from its buffer.
Reload(i) ==
  /\ server[i] = "serve" /\ "server" \in hup[i]
  /\ hup' = [hup EXCEPT ![i] = @ \ {"server"}]
  /\ told' = [told EXCEPT ![i] = "ready"]
  /\ UNCHANGED <<lock, made, main, children, term, armed, fatalHup, counts>>

----------------------------------------------------------------------------
(***************************************************************************)
(* The service manager and the operator; the crashes.                      *)
(***************************************************************************)
Target(i) == IF i \in Isolated THEN "main" ELSE "server"

\* The launcher reads sigCh once it supervises; a SIGTERM it receives while
\* it is still spawning cancels a context that it does not consult.
Terminate(i) ==
  /\ main[i] \in {"locked", "spawn", "supervise", "serve"}
  /\ signals < MaxSignals /\ signals' = signals + 1
  /\ term' = IF main[i] \in {"supervise", "serve"}
             THEN [term EXCEPT ![i] = @ \cup {Target(i)}] ELSE term
  /\ UNCHANGED <<lock, made, main, children, hup, armed, told, fatalHup, faults>>

Hangup(i) ==
  /\ main[i] \in {"locked", "spawn", "supervise", "serve"}
  /\ signals < MaxSignals /\ signals' = signals + 1
  /\ hup' = [hup EXCEPT ![i] = @ \cup {Target(i)}]
  /\ UNCHANGED <<lock, made, main, children, term, armed, told, fatalHup, faults>>

Fault == faults < MaxFaults /\ faults' = faults + 1

SignerDies(i) ==
  /\ signer[i] \notin Gone /\ Fault
  /\ signer' = [signer EXCEPT ![i] = "exit"]
  /\ UNCHANGED <<lock, made, main, server, proved, job, handler, heard, signals>>

ServerDies(i) ==
  /\ server[i] \notin Gone /\ Fault
  /\ server' = [server EXCEPT ![i] = "exit"]
  /\ job' = [job EXCEPT ![i] = FALSE] /\ handler' = [handler EXCEPT ![i] = FALSE]
  /\ IF i \in Isolated THEN UNCHANGED <<lock, main>>
     ELSE main' = [main EXCEPT ![i] = "exit"] /\ Unlock(i)
  /\ UNCHANGED <<made, signer, proved, heard, signals>>

\* The kernel drops the flock with the launcher; its children live on.
LauncherDies(i) ==
  /\ i \in Isolated /\ main[i] \in {"locked", "spawn", "supervise", "stop", "crash"}
  /\ Fault
  /\ main' = [main EXCEPT ![i] = "killed"] /\ Unlock(i)
  /\ UNCHANGED <<made, children, heard, signals>>

Next ==
  \E i \in Instances :
    \/ Lock(i) \/ SpawnSigner(i) \/ SpawnFrontend(i) \/ SpawnFails(i)
    \/ Forward(i) \/ StopOnSignal(i) \/ StopOnExit(i) \/ Kill(i) \/ Finish(i)
    \/ SignerStarts(i) \/ SignerInits(i) \/ serverHandshake(i) \/ SignerEnds(i)
    \/ ServerStarts(i) \/ ServerOpens(i) \/ DialConn(i) \/ ServerInits(i)
    \/ Listen(i) \/ Drain(i) \/ Drained(i) \/ Stop(i) \/ ServerExits(i)
    \/ ProcessEnds(i) \/ JobBegins(i) \/ JobEnds(i) \/ HandlerBegins(i)
    \/ HandlerEnds(i) \/ Reload(i) \/ Terminate(i) \/ Hangup(i)
    \/ SignerDies(i) \/ ServerDies(i) \/ LauncherDies(i)

Spec == Init /\ [][Next]_vars

(***************************************************************************)
(* The steps a process takes by itself, the hard-kill timer's included; a  *)
(* background pass or a handler may hang.                                  *)
(***************************************************************************)
Steps(i) ==
  \/ Lock(i) \/ SpawnSigner(i) \/ SpawnFrontend(i) \/ StopOnSignal(i)
  \/ StopOnExit(i) \/ Kill(i) \/ Finish(i)

SignerSteps(i) ==
  SignerStarts(i) \/ SignerInits(i) \/ serverHandshake(i) \/ SignerEnds(i)

ServerSteps(i) ==
  \/ ServerStarts(i) \/ ServerOpens(i) \/ DialConn(i) \/ ServerInits(i)
  \/ Listen(i) \/ Drain(i) \/ Drained(i) \/ Stop(i) \/ ServerExits(i)
  \/ ProcessEnds(i)

----------------------------------------------------------------------------
(***************************************************************************)
(* Properties.                                                             *)
(***************************************************************************)

\* Every component keeps its shape; a child has a launcher that spawned it.
TypeOK ==
  /\ lock \in Instances \cup {Free} /\ made \in BOOLEAN /\ fatalHup \in BOOLEAN
  /\ \A i \in Instances :
       /\ main[i] \in {"off", "locked", "spawn", "supervise", "serve", "stop",
                       "crash", "exit", "failed", "killed"}
       /\ signer[i] \in {"off", "exec", "init", "hand", "serve", "exit"}
       /\ server[i] \in {"off", "exec", "open", "dial", "init", "bind", "serve",
                         "drain", "join", "close", "unlocked", "exit"}
       /\ main[i] \in {"off", "locked"} => server[i] = "off"
       /\ term[i] \subseteq {"main", "signer", "server"}
       /\ hup[i] \subseteq {"main", "server"}
       /\ job[i] => server[i] \notin Gone

\* What the code promises never happens without the lock: the signer's or the
\* server's Init, a background pass, and under the launcher a handler too.  A
\* single process does not wait for a handler that outlasts the drain.
Writing(i) ==
  \/ signer[i] = "init"
  \/ server[i] \in {"init", "bind", "serve", "drain", "join", "close"}
  \/ job[i]
  \/ i \in Isolated /\ handler[i]

\* One writer: whatever instance writes to the store holds its lock, through
\* every order of crashes, spawn failures, drains and hard kills; only a
\* launcher killed outright leaves children that write without it
\* (the instance lock in main.go, supervisor.run, goroutineGroup.Stop).
WritersHoldTheLock ==
  \A i \in Instances : Writing(i) => lock = i \/ main[i] = "killed"

\* When the handshake lets the frontend go on, the signer's Init has left a CA
\* in the store for it to read (runSignerMode, DialConn).
FrontendFindsTheCA ==
  \A i \in Instances :
    i \in Isolated /\ server[i] \in {"init", "bind", "serve"} => made

\* A launcher that failed has named the child that died last of all, whatever
\* the other child said while it was stopping (supervisor.run).
CauseIsTheLastWord ==
  \A i \in Instances : main[i] = "failed" => told[i] = "cause"

\* One instance at a time writes to a store without distributed locks, its
\* frontend finds the CA its signer made, and a failure is reported as what it was
\* (main.go, launcher.go, goroutine_group.go).
StoreHasOneWriter == WritersHoldTheLock /\ FrontendFindsTheCA /\ CauseIsTheLastWord
============================================================================
