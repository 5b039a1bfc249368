---------------------------- MODULE ManagedCert ----------------------------
(***************************************************************************)
(* One managed_certs entry: the CA issues a certificate to itself, or to   *)
(* a component beside it, and keeps the pair in a store of the entry's     *)
(* (two files, or one Kubernetes Secret).  Every replica reconciles the    *)
(* entry on a ticker (internal/ca/managedcert.go, internal/certstore,      *)
(* cmd/openvox-ca/managed_certs.go); a pass holds the subject's lock.      *)
(*                                                                         *)
(* Issued certificates are numbered in order and a fresh key has the       *)
(* number of the certificate it was made for.  What else a store can hold  *)
(* is one of the negative numbers below.  The issuance itself, the CRL     *)
(* and the superseded list are atomic here: CertLifecycle has their steps. *)
(***************************************************************************)
EXTENDS Integers, Sequences, FiniteSets, FiniteSetsExt

CONSTANTS Replicas,     \* processes that reconcile the entry
          Kind,         \* "files" or "secret": the entry's store
          Adopt,        \* adopt_existing of a Secret
          ReuseKey,     \* reuse_key of the entry
          Overlap,      \* whether supersede_after is positive
          TTL, RenewBefore, Backdate,
          CAEnd,        \* when the CA certificate expires
          BackoffCap,   \* managedSaveBackoffCap in units of the base
          MaxNow, MaxFaults, MaxEdits

VARIABLES certs,        \* certificates this CA issued for the subject
          record,       \* the one cert/<subject> holds, 0 for none
          crl,          \* serials on the stored CRL
          cache,        \* c.cachedCRL of each replica
          superseded,   \* serials on the superseded list
          store,        \* the entry's pair
          mine,         \* a Secret: our field manager applied it
          want,         \* names and usage the configuration asks for
          now,
          lock,         \* holder of the subject lock
          op,           \* the pass each replica runs
          fails,        \* c.saveBackoff, this entry's record in each replica
          stray,        \* history: live certificates some failure let go
          adrift,       \* history: cert/<subject> was left behind
          faults, edits

vars == <<certs, record, crl, cache, superseded, store, mine, want, now,
          lock, op, fails, stray, adrift, faults, edits>>

Absent    == 0
Junk      == -1         \* does not parse
Foreign   == -2         \* a pair of another CA
Neighbour == -3         \* a pair this CA issued for another subject
Discarded == -4         \* signed and recorded by an issuance that then failed

None  == "none"
Issued == 1..Len(certs)
Names == {{"a"}, {"a", "b"}}
Usages == {"both", "server"}
Idle == [pc |-> "idle", at |-> 0, cert |-> Absent, key |-> Absent,
         revoked |-> FALSE, known |-> FALSE, seen |-> {}, pin |-> Absent]
NoFailure == [count |-> 0, first |-> 0, last |-> 0]

Init ==
  /\ certs = <<>> /\ record = Absent
  /\ crl = {} /\ cache = [r \in Replicas |-> {}] /\ superseded = {}
  /\ store \in {[cert |-> c, key |-> c] : c \in {Absent, Foreign}}
  /\ mine = FALSE
  /\ want = [names |-> {"a"}, usage |-> "both"]
  /\ now = 0 /\ lock = None
  /\ op = [r \in Replicas |-> Idle]
  /\ fails = [r \in Replicas |-> NoFailure]
  /\ stray = {} /\ adrift = FALSE
  /\ faults = 0 /\ edits = 0

----------------------------------------------------------------------------
(***************************************************************************)
(* What a pass decides from what it loaded.                                *)
(***************************************************************************)
KeyOf(c) == IF c \in Issued THEN certs[c].key ELSE c

\* A certificate of this CA that names this subject.
currentIsThisSubjects(c) == c \in Issued

leafCarriesNames(c) == c \in Issued /\ want.names \subseteq certs[c].names

leafCarriesUsages(c) == certs[c].usage = want.usage

renewWindowFor(c) ==
  LET forward == certs[c].until - certs[c].from - Backdate
  IN  IF forward <= 0 THEN 0 ELSE Min({RenewBefore, forward \div 2})

\* issueDecision: the first reason that applies.
issueDecision(o) ==
  CASE o.cert = Absent                      -> "absent"
    [] o.cert = Junk                        -> "unparseable"
    [] o.cert = Foreign                     -> "not ours"
    [] o.key \in {Absent, Junk}             -> "key unusable"
    [] o.key # KeyOf(o.cert)                -> "key mismatch"
    [] ~leafCarriesNames(o.cert)            -> "names missing"
    [] ~leafCarriesUsages(o.cert)           -> "usage mismatch"
    [] o.revoked                            -> "revoked"
    [] o.at >= certs[o.cert].until - renewWindowFor(o.cert) -> "renew window"
    [] OTHER                                -> "current"

\* skipForSaveBackoff: after two failed writes in a row, not yet.
skipForSaveBackoff(f, at) ==
  /\ f.count > 1
  /\ LET wait == Min({2 ^ (f.count - 2), BackoffCap}) IN wait > at - f.last

\* issuanceKeyFor: the stored key when the entry pins it, it is the key of a
\* certificate issued for this subject, and the CRL clears that certificate.
issuanceKeyFor(o) ==
  IF /\ ReuseKey
     /\ o.key > 0 /\ currentIsThisSubjects(o.cert) /\ o.key = KeyOf(o.cert)
     /\ o.known /\ ~o.revoked
  THEN o.key ELSE Absent

----------------------------------------------------------------------------
(***************************************************************************)
(* The steps of a pass.                                                    *)
(***************************************************************************)
Fault == faults < MaxFaults /\ faults' = faults + 1
NoFault == UNCHANGED faults

Goto(r, pc) == op' = [op EXCEPT ![r].pc = pc]
Leave(r) == op' = [op EXCEPT ![r] = Idle] /\ lock' = None

\* The tick: now is read before the lock is asked for.
Begin(r) ==
  /\ op[r].pc = "idle"
  /\ op' = [op EXCEPT ![r] = [Idle EXCEPT !.pc = "lock", !.at = now]]
  /\ UNCHANGED <<certs, record, crl, cache, superseded, store, mine, want,
                 now, lock, fails, stray, adrift, faults, edits>>

Lock(r) ==
  /\ op[r].pc = "lock" /\ lock = None
  /\ lock' = r /\ Goto(r, "load")
  /\ UNCHANGED <<certs, record, crl, cache, superseded, store, mine, want,
                 now, fails, stray, adrift, faults, edits>>

\* LockTimeout runs out behind another replica's pass.
LockTimesOut(r) ==
  /\ op[r].pc = "lock" /\ lock # None
  /\ op' = [op EXCEPT ![r] = Idle]
  /\ UNCHANGED <<certs, record, crl, cache, superseded, store, mine, want,
                 now, lock, fails, stray, adrift, faults, edits>>

\* m.Load and storedMaterialRevoked, which answers from the cached CRL and
\* not at all when this replica has none.
Load(r) ==
  /\ op[r].pc = "load"
  /\ \E known \in BOOLEAN :
       /\ IF known THEN NoFault ELSE Fault
       /\ LET readable == known /\ store.cert \notin {Absent, Junk}
          IN  op' = [op EXCEPT ![r] = [@ EXCEPT
                !.pc = "decide", !.cert = store.cert, !.key = store.key,
                !.known = readable,
                !.revoked = readable /\ store.cert \in cache[r],
                !.seen = cache[r]]]
  /\ UNCHANGED <<certs, record, crl, cache, superseded, store, mine, want,
                 now, lock, fails, stray, adrift, edits>>

LoadFails(r) ==
  /\ op[r].pc = "load" /\ Fault
  /\ Leave(r)
  /\ UNCHANGED <<certs, record, crl, cache, superseded, store, mine, want,
                 now, fails, stray, adrift, edits>>

Decide(r) ==
  /\ op[r].pc = "decide"
  /\ IF issueDecision(op[r]) = "current" \/ skipForSaveBackoff(fails[r], op[r].at)
     THEN Leave(r)
     ELSE /\ op' = [op EXCEPT ![r].pc = "sign", ![r].pin = issuanceKeyFor(op[r])]
          /\ UNCHANGED lock
  /\ UNCHANGED <<certs, record, crl, cache, superseded, store, mine, want,
                 now, fails, stray, adrift, faults, edits>>

\* issueLeafLocked: the leaf ends no later than the CA, and replaces
\* cert/<subject>.
Sign(r) ==
  /\ op[r].pc = "sign" /\ now < CAEnd
  /\ LET n == Len(certs) + 1
     IN  /\ certs' = Append(certs,
              [key   |-> IF op[r].pin = Absent THEN n ELSE op[r].pin,
               names |-> want.names, usage |-> want.usage,
               from  |-> now - Backdate, until |-> Min({now + TTL, CAEnd})])
         /\ record' = n
  /\ Goto(r, "save")
  /\ UNCHANGED <<crl, cache, superseded, store, mine, want, now, lock, fails,
                 stray, adrift, faults, edits>>

\* The pass ends with the issuance and restores nothing: cert/<subject> is still
\* the predecessor, or deleted because the inventory refused the new one, or it
\* names what was signed (its answer was lost, or the deletion failed too).
SignFails(r) ==
  /\ op[r].pc = "sign"
  /\ \/ (IF now < CAEnd THEN Fault ELSE NoFault) /\ UNCHANGED <<record, adrift>>
     \/ now < CAEnd /\ Fault /\ record' = Absent /\ UNCHANGED adrift
     \/ now < CAEnd /\ Fault /\ record' = Discarded /\ adrift' = TRUE
  /\ Leave(r)
  /\ UNCHANGED <<certs, crl, cache, superseded, store, mine, want, now, fails,
                 stray, edits>>

New == Len(certs)           \* the certificate the pass has just signed

recordSaveOutcome(r, failed) ==
  fails' = [fails EXCEPT ![r] =
    IF ~failed THEN NoFailure
    ELSE [count |-> @.count + 1, last |-> now,
          first |-> IF @.count = 0 THEN now ELSE @.first]]

Saved(r) ==
  /\ recordSaveOutcome(r, FALSE)
  /\ Goto(r, "retire") /\ adrift' = FALSE

NotSaved(r) ==
  /\ recordSaveOutcome(r, TRUE)
  /\ Goto(r, "revoke") /\ UNCHANGED adrift

\* SecretStore.Save: one server-side apply, forced only over what is ours.
MayApply == mine \/ Adopt \/ store.cert = Absent

SaveSecret(r) ==
  /\ Kind = "secret" /\ op[r].pc = "save" /\ MayApply
  /\ store' = [cert |-> New, key |-> KeyOf(New)] /\ mine' = TRUE
  /\ Saved(r)
  /\ UNCHANGED <<certs, record, crl, cache, superseded, want, now, lock,
                 stray, faults, edits>>

\* The apply is refused, or fails, or lands with its answer lost.
SaveSecretFails(r) ==
  /\ Kind = "secret" /\ op[r].pc = "save"
  /\ \/ ~MayApply /\ NoFault /\ UNCHANGED <<store, mine, stray>>
     \/ MayApply /\ Fault /\ UNCHANGED <<store, mine, stray>>
     \/ /\ MayApply /\ Fault
        /\ store' = [cert |-> New, key |-> KeyOf(New)] /\ mine' = TRUE
        /\ stray' = stray \cup ({op[r].cert} \cap Issued)
  /\ NotSaved(r)
  /\ UNCHANGED <<certs, record, crl, cache, superseded, want, now, lock, edits>>

\* FileStore.Save: every directory is probed, then the key is replaced, then
\* the certificate, each by a rename.  A write of the certificate that fails
\* leaves the new key beside the old certificate.
SaveKeyFile(r) ==
  /\ Kind = "files" /\ op[r].pc = "save"
  /\ store' = [store EXCEPT !.key = KeyOf(New)]
  /\ Goto(r, "save cert")
  /\ UNCHANGED <<certs, record, crl, cache, superseded, mine, want, now, lock,
                 fails, stray, adrift, faults, edits>>

SaveCertFile(r) ==
  /\ op[r].pc = "save cert"
  /\ store' = [store EXCEPT !.cert = New]
  /\ Saved(r)
  /\ UNCHANGED <<certs, record, crl, cache, superseded, mine, want, now, lock,
                 stray, faults, edits>>

SaveFileFails(r) ==
  /\ \/ Kind = "files" /\ op[r].pc = "save"
     \/ op[r].pc = "save cert"
  /\ Fault /\ NotSaved(r)
  /\ UNCHANGED <<certs, record, crl, cache, superseded, store, mine, want, now,
                 lock, stray, edits>>

\* The write failed: revoke what could not be stored ...
RevokeNew(r) ==
  /\ op[r].pc = "revoke"
  /\ \/ /\ NoFault /\ crl' = crl \cup {New}
        /\ cache' = [cache EXCEPT ![r] = crl']
        /\ UNCHANGED stray
     \/ /\ Fault /\ stray' = stray \cup {New}
        /\ UNCHANGED <<crl, cache>>
  /\ Goto(r, "restore")
  /\ UNCHANGED <<certs, record, superseded, store, mine, want, now, lock, fails,
                 adrift, edits>>

\* Mutant: the predecessor is not put back.
Restore_Skipped(r) ==
  /\ op[r].pc = "restore"
  /\ Leave(r)
  /\ UNCHANGED <<certs, record, crl, cache, superseded, store, mine, want, now,
                 fails, stray, adrift, faults, edits>>

\* ... and put the predecessor back as the CA's record of the subject.
Restore(r) ==
  /\ op[r].pc = "restore"
  /\ IF currentIsThisSubjects(op[r].cert)
     THEN \/ NoFault /\ record' = op[r].cert /\ UNCHANGED adrift
          \/ Fault /\ adrift' = TRUE /\ UNCHANGED record
     ELSE NoFault /\ UNCHANGED <<record, adrift>>
  /\ Leave(r)
  /\ UNCHANGED <<certs, crl, cache, superseded, store, mine, want, now, fails,
                 stray, edits>>

\* The write succeeded: supersedeReplacedAfter, best effort.
Retire(r) ==
  /\ op[r].pc = "retire"
  /\ LET old == IF currentIsThisSubjects(op[r].cert) /\ ~op[r].revoked
                THEN {op[r].cert} ELSE {}
     IN  \/ /\ old # {} /\ Fault /\ stray' = stray \cup old
            /\ UNCHANGED <<crl, cache, superseded>>
         \/ /\ Overlap /\ NoFault /\ superseded' = superseded \cup old
            /\ UNCHANGED <<crl, cache, stray>>
         \/ /\ ~Overlap /\ NoFault /\ crl' = crl \cup old
            /\ cache' = [cache EXCEPT ![r] = IF old = {} THEN @ ELSE crl']
            /\ UNCHANGED <<superseded, stray>>
  /\ Leave(r)
  /\ UNCHANGED <<certs, record, store, mine, want, now, fails, adrift, edits>>

\* The process ends.  Its backoff is forgotten and its lock lapses.
Crash(r) ==
  /\ op[r].pc # "idle" /\ Fault
  /\ op' = [op EXCEPT ![r] = Idle]
  /\ lock' = IF lock = r THEN None ELSE lock
  /\ fails' = [fails EXCEPT ![r] = NoFailure]
  /\ cache' = [cache EXCEPT ![r] = crl]
  /\ stray' = stray \cup
       CASE op[r].pc \in {"save", "save cert", "revoke"} -> {New}
         [] op[r].pc = "retire" -> {op[r].cert} \cap Issued
         [] OTHER -> {}
  /\ record' \in IF op[r].pc = "sign" THEN {record, Discarded} ELSE {record}
  /\ adrift' = \/ adrift \/ record' # record
               \/ op[r].pc \in {"save", "save cert", "revoke", "restore"}
  /\ UNCHANGED <<certs, crl, superseded, store, mine, want, now, edits>>

----------------------------------------------------------------------------
(***************************************************************************)
(* Around the passes.                                                      *)
(***************************************************************************)
\* ReconcileSuperseded, once the window has passed.
Sweep ==
  /\ superseded # {}
  /\ crl' = crl \cup superseded /\ superseded' = {}
  /\ UNCHANGED <<certs, record, cache, store, mine, want, now, lock, op, fails,
                 stray, adrift, faults, edits>>

SyncCRLCache(r) ==
  /\ cache[r] # crl
  /\ cache' = [cache EXCEPT ![r] = crl]
  /\ UNCHANGED <<certs, record, crl, superseded, store, mine, want, now, lock,
                 op, fails, stray, adrift, faults, edits>>

Edit == edits < MaxEdits /\ edits' = edits + 1

\* An operator revokes the certificate in service, empties the store, loses
\* the key, puts another pair in its place, or changes the configuration.
Revoke ==
  /\ Edit /\ store.cert \in Issued \ crl
  /\ crl' = crl \cup {store.cert}
  /\ UNCHANGED <<certs, record, cache, superseded, store, mine, want, now, lock,
                 op, fails, stray, adrift, faults>>

Replace ==
  /\ Edit
  /\ store' \in {[cert |-> c, key |-> c] : c \in {Absent, Junk, Foreign, Neighbour}}
                \cup {[store EXCEPT !.key = Absent]}
  /\ store' # store
  /\ stray' = stray \cup (({store.cert} \cap Issued) \ {store'.cert})
  /\ UNCHANGED <<certs, record, crl, cache, superseded, mine, want, now, lock,
                 op, fails, adrift, faults>>

Reconfigure ==
  /\ Edit /\ \A r \in Replicas : op[r].pc = "idle"
  /\ want' \in [names : Names, usage : Usages] \ {want}
  /\ UNCHANGED <<certs, record, crl, cache, superseded, store, mine, now, lock,
                 op, fails, stray, adrift, faults>>

Tick ==
  /\ now < MaxNow /\ now' = now + 1
  /\ UNCHANGED <<certs, record, crl, cache, superseded, store, mine, want, lock,
                 op, fails, stray, adrift, faults, edits>>

Step(r) ==
  \/ Begin(r) \/ Lock(r) \/ LockTimesOut(r) \/ Load(r) \/ Decide(r)
  \/ Sign(r) \/ SaveSecret(r) \/ SaveKeyFile(r) \/ SaveCertFile(r)
  \/ RevokeNew(r) \/ Restore(r) \/ Retire(r)

Fails(r) ==
  \/ LoadFails(r) \/ SignFails(r) \/ SaveSecretFails(r) \/ SaveFileFails(r)
  \/ Crash(r)

Next ==
  \/ \E r \in Replicas : Step(r) \/ Fails(r) \/ SyncCRLCache(r)
  \/ Sweep \/ Revoke \/ Replace \/ Reconfigure \/ Tick

Spec == Init /\ [][Next]_vars

----------------------------------------------------------------------------
TypeOK ==
  /\ \A n \in Issued : certs[n] \in [key : 1..n, names : Names, usage : Usages,
                                    from : Int, until : 0..CAEnd]
  /\ record \in {Discarded} \cup 0..Len(certs) /\ store.cert \in -3..Len(certs)
  /\ store.key \in -3..Len(certs)
  /\ lock \in Replicas \cup {None}
  /\ \A r \in Replicas : cache[r] \subseteq crl /\ fails[r].count \in Nat

\* Between passes every certificate issued for the entry is the one in its
\* store, or revoked, or waiting on the superseded list, unless a crash, a
\* failed revocation or an edit of the store let it go: the roll-back of
\* issueManagedUnderSubjectLock and its retirement of the predecessor leave no
\* credential behind.
OnlyTheStoredLives ==
  lock = None => (Issued \ (crl \cup superseded)) \subseteq {store.cert} \cup stray

\* Between passes cert/<subject>, which status, IsRevoked and the next pass's
\* displacement check read, is the certificate in service, although a failed
\* store write had replaced it.  Only an issuance whose inventory row was refused
\* leaves it missing, and only a crash, a failed restore or a failed deletion
\* leaves it naming another.
RecordFollowsStore ==
  (lock = None /\ ~adrift /\ store.cert \in Issued \ (crl \cup stray))
    => record = store.cert \/ (record = Absent /\ faults > 0)

\* A pass never revokes nor retires a certificate issued for another subject
\* that it found in the entry's store (currentIsThisSubjectsUnderSubjectLock).
SparesNeighbours == (crl \cup superseded) \subseteq Issued

\* A write that keeps failing puts one revoked serial on the CRL at once, one
\* more at the next pass, and then at most one per managedSaveBackoffBase.
FailuresAreSpaced ==
  \A r \in Replicas :
    fails[r].count > 0 => fails[r].count <= 2 + (fails[r].last - fails[r].first)

\* A certificate is issued over a stored key only when the key is that of a
\* certificate of this subject which the replica's CRL did not list, whatever
\* else had drifted from the configuration and made the pass reissue.
PinsOnlyClearedKeys ==
  LET n == Len(certs') IN
  (n > Len(certs) /\ certs'[n].key # n) =>
    \E r \in Replicas : /\ op[r].pc = "sign"
                        /\ op[r].cert \in Issued \ op[r].seen
                        /\ certs[op[r].cert].key = certs'[n].key

\* A certificate replaced for its age has served half of its forward life: an
\* entry whose renew_before exceeds what the CA can still issue does not
\* reissue on every pass.
ServesHalfItsLife ==
  \A r \in Replicas :
    (op[r].pc = "decide" /\ op'[r].pc = "sign"
       /\ issueDecision(op[r]) = "renew window") =>
    LET c == certs[op[r].cert]
        start == c.from + Backdate
    IN  now - start >= (c.until - start) \div 2

\* The store holds a matching pair that the configuration accepts.
InService ==
  /\ store.cert \in Issued \ crl /\ store.key = KeyOf(store.cert)
  /\ leafCarriesNames(store.cert) /\ leafCarriesUsages(store.cert)
  /\ now < certs[store.cert].until
=============================================================================
