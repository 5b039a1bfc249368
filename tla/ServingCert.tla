---------------------------- MODULE ServingCert ----------------------------
(***************************************************************************)
(* The CA's own serving certificate: each replica's listener presents what *)
(* its holder has, the holder is filled from a store the replicas share,   *)
(* and a renewal retires the predecessor, which the sweep revokes when the *)
(* overlap is up (cmd/openvox-ca/servingcert.go, with the reconcile pass   *)
(* of internal/ca/managedcert.go).  ManagedCert has the pass in detail;    *)
(* here it is the read, the decision and the write, under the subject's    *)
(* lock.  Certificates are numbered as they are issued.  Time is counted   *)
(* in reconcile intervals: it advances when every listening replica has    *)
(* had its pass.                                                           *)
(***************************************************************************)
EXTENDS Integers, FiniteSets

CONSTANTS Replicas,
          Overlap,               \* supersede_after, in reconcile intervals
          BackoffCap,            \* managedSaveBackoffCap, in reconcile intervals
          MaxIssued, MaxFaults, MaxRestarts

VARIABLES store,                 \* what the serving store holds
          issued, retired, revoked, now,
          lost,                  \* stored by a write taken for a failure, and revoked
          lock,
          run,                   \* each replica: off, starting, bound, dead
          op,                    \* the pass it runs
          fails,                 \* CA.saveBackoff: failed writes in a row, the last
          holder,                \* servingCertHolder.current
          passed,                \* it has had its pass in this interval
          blind,                 \* its last read gave it nothing to install
          faults, restarts

vars == <<store, issued, retired, revoked, now, lost, lock, run, op, fails,
          holder, passed, blind, faults, restarts>>

certs == <<issued, retired, revoked, now, lost>>

Absent == 0
Unusable == -1                   \* does not form a keypair
Free == "free"
Idle == [pc |-> "idle", read |-> Absent]
NoFailures == [count |-> 0, last |-> 0]

Init ==
  /\ store \in {Absent, Unusable}
  /\ issued = 0 /\ retired = [s \in 1..MaxIssued |-> -1] /\ revoked = {} /\ now = 0
  /\ lost = {} /\ fails = [r \in Replicas |-> NoFailures]
  /\ lock = Free
  /\ run = [r \in Replicas |-> "off"] /\ op = [r \in Replicas |-> Idle]
  /\ holder = [r \in Replicas |-> Absent]
  /\ passed = [r \in Replicas |-> FALSE] /\ blind = [r \in Replicas |-> FALSE]
  /\ faults = 0 /\ restarts = 0

----------------------------------------------------------------------------
install(r, m) == holder' = [holder EXCEPT ![r] = IF m > 0 THEN m ELSE @]

Fault == faults < MaxFaults /\ faults' = faults + 1

Start(r) ==
  /\ run[r] \in {"off", "dead"} /\ restarts < MaxRestarts
  /\ restarts' = restarts + 1
  /\ run' = [run EXCEPT ![r] = "starting"]
  /\ passed' = [passed EXCEPT ![r] = FALSE]
  /\ fails' = [fails EXCEPT ![r] = NoFailures]
  /\ UNCHANGED <<store, certs, lock, op, holder, blind, faults>>

MayPass(r) == run[r] \in {"starting", "bound"} /\ ~passed[r]

\* Mutant: a pass reads the store and installs nothing.
Load_ReadsOnly(r) ==
  /\ MayPass(r) /\ op[r].pc = "idle" /\ lock = Free
  /\ lock' = r /\ op' = [op EXCEPT ![r] = [pc |-> "loaded", read |-> store]]
  /\ blind' = [blind EXCEPT ![r] = store <= 0]
  /\ UNCHANGED <<store, certs, run, fails, holder, passed, faults, restarts>>

\* The pass: the subject lock, then the entry's Load, which installs what the
\* store holds -- a peer's renewal among it.
Load(r) ==
  /\ MayPass(r) /\ op[r].pc = "idle" /\ lock = Free
  /\ lock' = r /\ op' = [op EXCEPT ![r] = [pc |-> "loaded", read |-> store]]
  /\ install(r, store)
  /\ blind' = [blind EXCEPT ![r] = store <= 0]
  /\ UNCHANGED <<store, certs, run, fails, passed, faults, restarts>>

\* The lock times out, or the store cannot be read.
PassFails(r) ==
  /\ MayPass(r) /\ op[r].pc = "idle" /\ Fault
  /\ passed' = [passed EXCEPT ![r] = TRUE] /\ blind' = [blind EXCEPT ![r] = TRUE]
  /\ UNCHANGED <<store, certs, lock, run, op, fails, holder, restarts>>

EndPass(r) ==
  /\ lock' = Free /\ op' = [op EXCEPT ![r] = Idle]
  /\ passed' = [passed EXCEPT ![r] = TRUE]

\* One failed write is free; from the second in a row on a reissue waits for one
\* interval, then two, four and so on.  A failure is dated at the end of its
\* pass, so that the pass just one wait later is still withheld.
Wait(n) == IF 2^(n - 2) > BackoffCap THEN BackoffCap ELSE 2^(n - 2)
Withheld(r) ==
  fails[r].count > 1 /\ now - fails[r].last <= Wait(fails[r].count)

\* Nothing is issued: the certificate is current, or it is not known to be
\* revoked (the CRL at hand does not list it or cannot be read), or it is time
\* for another and the last writes failed.
Current(r) ==
  /\ op[r].pc = "loaded" /\ (op[r].read > 0 \/ Withheld(r))
  /\ EndPass(r)
  /\ UNCHANGED <<store, certs, run, fails, holder, blind, faults, restarts>>

\* Issuance, and the entry's Save, which installs what it has written; the
\* certificate that was replaced goes on the superseded list, unless it is
\* revoked already.
Save(r) ==
  /\ op[r].pc = "loaded" /\ ~Withheld(r) /\ issued < MaxIssued
  /\ issued' = issued + 1 /\ store' = issued + 1
  /\ retired' = IF op[r].read > 0 /\ op[r].read \notin revoked
                THEN [retired EXCEPT ![op[r].read] = now]
                ELSE retired
  /\ install(r, issued + 1)
  /\ fails' = [fails EXCEPT ![r] = NoFailures]
  /\ blind' = [blind EXCEPT ![r] = FALSE]
  /\ EndPass(r)
  /\ UNCHANGED <<revoked, now, lost, run, faults, restarts>>

\* The write fails and the new certificate is revoked, unless that fails too.
\* The store is as it was; or the file store has the new key beside the old
\* certificate; or the Secret has both, and only the answer was lost.
SaveFails(r) ==
  /\ op[r].pc = "loaded" /\ ~Withheld(r) /\ issued < MaxIssued /\ Fault
  /\ issued' = issued + 1
  /\ revoked' \in {revoked, revoked \cup {issued + 1}}
  /\ \/ store' \in {store, Unusable} /\ UNCHANGED lost
     \/ store' = issued + 1 /\ lost' = lost \cup ({issued + 1} \cap revoked')
  /\ fails' = [fails EXCEPT ![r] = [count |-> @.count + 1, last |-> now]]
  /\ EndPass(r)
  /\ UNCHANGED <<retired, now, run, holder, blind, restarts>>

----------------------------------------------------------------------------
(***************************************************************************)
(* provisionServingCert: one pass, and then the store decides.             *)
(***************************************************************************)
Bind(r) ==
  IF store > 0
  THEN run' = [run EXCEPT ![r] = "bound"] /\ install(r, store)
  ELSE run' = [run EXCEPT ![r] = "dead"] /\ UNCHANGED holder

Provision(r) ==
  /\ run[r] = "starting" /\ passed[r] /\ op[r].pc = "idle"
  /\ Bind(r)
  /\ UNCHANGED <<store, certs, lock, op, fails, passed, blind, faults, restarts>>

ProvisionFails(r) ==
  /\ run[r] = "starting" /\ passed[r] /\ op[r].pc = "idle" /\ Fault
  /\ run' = [run EXCEPT ![r] = "dead"] /\ holder' = [holder EXCEPT ![r] = Absent]
  /\ UNCHANGED <<store, certs, lock, op, fails, passed, blind, restarts>>

\* The process ends; its lock lapses.
Crash(r) ==
  /\ run[r] \in {"starting", "bound"} /\ Fault
  /\ run' = [run EXCEPT ![r] = "off"] /\ op' = [op EXCEPT ![r] = Idle]
  /\ holder' = [holder EXCEPT ![r] = Absent]
  /\ lock' = IF lock = r THEN Free ELSE lock
  /\ UNCHANGED <<store, certs, fails, passed, blind, restarts>>

----------------------------------------------------------------------------
(***************************************************************************)
(* The sweep of superseded certificates, the ticker, and somebody else who *)
(* writes into the store.                                                  *)
(***************************************************************************)
Sweep ==
  /\ \E s \in 1..issued :
       /\ s \notin revoked /\ retired[s] >= 0 /\ now - retired[s] >= Overlap
       /\ revoked' = revoked \cup {s}
  /\ UNCHANGED <<store, issued, retired, now, lost, lock, run, op, fails, holder,
                 passed, blind, faults, restarts>>

Tick ==
  /\ now < MaxIssued + Overlap
  /\ \A r \in Replicas : run[r] = "bound" => passed[r]
  /\ now' = now + 1
  /\ passed' = [r \in Replicas |-> run[r] = "starting" /\ passed[r]]
  /\ UNCHANGED <<store, issued, retired, revoked, lost, lock, run, op, fails,
                 holder, blind, faults, restarts>>

Spoil ==
  /\ store # Unusable /\ lock = Free /\ Fault /\ store' = Unusable
  /\ UNCHANGED <<certs, lock, run, op, fails, holder, passed, blind, restarts>>

Next ==
  \/ \E r \in Replicas :
       \/ Start(r) \/ Load(r) \/ PassFails(r) \/ Current(r) \/ Save(r)
       \/ SaveFails(r) \/ Provision(r) \/ ProvisionFails(r) \/ Crash(r)
  \/ Sweep \/ Tick \/ Spoil

Spec == Init /\ [][Next]_vars

----------------------------------------------------------------------------
(***************************************************************************)
(* Properties.                                                             *)
(***************************************************************************)

\* Every component keeps its shape; one replica at most is between its read
\* and its write, and it holds the subject lock.
TypeOK ==
  /\ store \in Unusable..MaxIssued /\ issued \in 0..MaxIssued
  /\ revoked \subseteq 1..issued /\ lost \subseteq 1..issued
  /\ \A r \in Replicas :
       /\ run[r] \in {"off", "starting", "bound", "dead"}
       /\ holder[r] \in 0..issued
       /\ op[r].pc = "loaded" => lock = r

\* A listener that has bound has a certificate to present, through unusable
\* material in the store, failed passes and failed writes (the branch of
\* servingCertHolder.GetCertificate that its comment calls unreachable).
ListenerHasACertificate ==
  \A r \in Replicas : run[r] = "bound" => holder[r] > 0

\* A replica whose reads succeed never presents a revoked certificate: a
\* renewal made by a peer reaches its listener with its own next pass, before
\* the overlap ends and the sweep revokes the predecessor (newServingCert's
\* Load).  The overlap must cover two intervals.  The exception is a certificate
\* that reached the store in a write taken for a failure: the roll-back revokes it,
\* the next pass installs it, and skipForSaveBackoff may withhold its successor.
NeverPresentsRevoked ==
  \A r \in Replicas :
    run[r] = "bound" /\ holder[r] \in revoked \ lost => blind[r]

\* A start dies only for want of usable material: a pass that failed over a
\* certificate that can be served is not fatal (provisionServingCert).
StartsOnWhatIsStored ==
  \A r \in Replicas :
    run[r] = "starting" /\ run'[r] = "dead" => store <= 0 \/ faults' > faults
============================================================================
