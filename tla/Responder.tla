----------------------------- MODULE Responder -----------------------------
(***************************************************************************)
(* The OCSP responder of one replica (src/internal/ca: ocsp.go,            *)
(* serialsync.go, crlsync.go, signbound.go): its response cache, its       *)
(* serial index and its cached CRL, kept in step with storage that its     *)
(* peers change as well.                                                   *)
(*                                                                         *)
(* The process mutex c.mu is held by an operation of the CA (op) from its  *)
(* start to its end.  OCSP requests, index passes and CRL polls take it    *)
(* for single steps and read storage or sign without it: what they do then *)
(* was decided on a state that may be gone.                                *)
(***************************************************************************)
EXTENDS Naturals, FiniteSets

CONSTANTS
  Certs,        \* serial numbers
  Hashes,       \* the request hashes whose answers are cached
  Clients,      \* goroutines in AnswerOCSP
  Passes,       \* goroutines in SyncSerialIndex
  Polls,        \* goroutines in SyncCRLCache
  Slots,        \* ca_signing_concurrency
  MaxCRL,       \* bound: CRL number
  MaxEpoch,     \* bound: changes of the index before the inventory is left alone
  MaxFaults,    \* bound: storage failures
  MaxRestarts   \* bound: restarts of the process

ASSUME ResponderAssumption ==
  /\ IsFiniteSet(Certs) /\ IsFiniteSet(Clients)
  /\ Slots \in Nat \ {0}
  /\ MaxCRL \in Nat
  /\ MaxEpoch \in Nat
  /\ MaxFaults \in Nat
  /\ MaxRestarts \in Nat

VARIABLES
  inventory,     \* serials with a row in the stored inventory
  pruned,        \* history: serials that have lost their row at some time
  crl,           \* the stored CRL
  peer,          \* serials a peer's cleanup has pruned and is taking off the CRL
  op,            \* the operation that holds c.mu
  cachedCRL,     \* c.cachedCRL
  serialIndex,   \* c.serialIndex
  epoch,         \* c.serialIndexEpoch
  removalEpoch,  \* c.serialIndexRemovalEpoch
  forgotten,     \* history: serials it took off and storage has not held since
  ocspCache,     \* c.ocspCache, by serial and request hash
  slots,         \* c.signSlots: signatures in flight
  client,        \* each OCSP request
  pass,          \* each index pass
  poll,          \* each CRL poll
  faults,        \* storage failures so far
  life           \* restarts so far

storage == <<inventory, pruned, crl, peer>>
index   == <<serialIndex, epoch, removalEpoch, forgotten>>
workers == <<client, pass, poll>>
vars    == <<storage, op, cachedCRL, index, ocspCache, slots, workers, faults,
             life>>

CRLs == [number : Nat, revoked : SUBSET Certs]

EmptyCRL == [number |-> 1, revoked |-> {}]

\* The operations of the CA that hold c.mu; those on the CRL hold the cluster's
\* CRL lock as well.
CRLKinds == {"Revoke", "Refresh", "Cleanup"}
Kinds == CRLKinds \cup {"Issue", "Import"}

NoOp == [kind |-> "none", serials |-> {}, point |-> "none", view |-> EmptyCRL]

Ops == [kind : Kinds, serials : SUBSET Certs,
        point : {"slot", "sign", "append", "prune", "read", "write"},
        view : CRLs]

Answers == {"good", "revoked", "unknown"}

NoRequest == [at |-> "idle"]

Requests == [at : {"slot", "sign", "store"}, serial : Certs, hash : Hashes,
             nonce : BOOLEAN, status : Answers]

NoPass == [at |-> "idle"]

PassStates == [at : {"read", "apply"}, epoch : Nat, removalEpoch : Nat,
               stored : SUBSET Certs]

NoBlob == [number |-> 0, revoked |-> {}]

Empty == [k \in Certs \X Hashes |-> "none"]

Init ==
  /\ inventory = {} /\ pruned = {}
  /\ crl = EmptyCRL /\ peer = {}
  /\ op = NoOp
  /\ cachedCRL = EmptyCRL
  /\ serialIndex = {} /\ epoch = 0 /\ removalEpoch = 0 /\ forgotten = {}
  /\ ocspCache = Empty
  /\ slots = 0
  /\ client = [c \in Clients |-> NoRequest]
  /\ pass = [p \in Passes |-> NoPass]
  /\ poll = [q \in Polls |-> NoBlob]
  /\ faults = 0 /\ life = 0

-----------------------------------------------------------------------------
(* Helpers *)

\* Nobody holds c.mu across steps.
Free == op = NoOp

Fault == faults < MaxFaults /\ faults' = faults + 1

\* evictOCSPLocked for a set of serials, whichever hash they were asked with.
Evict(S) == [k \in Certs \X Hashes |-> IF k[1] \in S THEN "none" ELSE ocspCache[k]]

\* installCachedCRLLocked: the responses for newly revoked serials go.
Install(next) ==
  /\ cachedCRL' = next
  /\ ocspCache' = Evict(next.revoked \ cachedCRL.revoked)

\* Mutants: a CRL is installed whatever its number, or only when it is two ahead.
InstallNewer_Any(next) == Install(next)

InstallNewer_Skips(next) ==
  \/ next.number > cachedCRL.number + 1 /\ Install(next)
  \/ next.number <= cachedCRL.number + 1 /\ UNCHANGED <<cachedCRL, ocspCache>>

\* SyncCRLCache and RefreshCRLIfDue install only a newer CRL.
InstallNewer(next) ==
  \/ next.number > cachedCRL.number /\ Install(next)
  \/ next.number <= cachedCRL.number /\ UNCHANGED <<cachedCRL, ocspCache>>

\* dropSerialLocked for a set of serials; the index itself is its callers'.
Drop(S) ==
  /\ ocspCache' = Evict(S)
  /\ removalEpoch' = removalEpoch + Cardinality(S)
  /\ forgotten' = (forgotten \cup S) \ inventory'

\* A row for each serial of S enters the inventory, or leaves it.
AddRows(S) ==
  /\ inventory' = inventory \cup S
  /\ UNCHANGED pruned

PruneRows(S) ==
  /\ inventory' = inventory \ S
  /\ pruned' = pruned \cup S

\* The inventory may still change: a bound on the length of behaviours.
Churning == epoch + removalEpoch < MaxEpoch

\* decideOCSPStatus.
Decide(list, n, known) ==
  CASE ~known                         -> "unknown"
    [] known /\ n \in list.revoked    -> "revoked"
    [] known /\ n \notin list.revoked -> "good"

-----------------------------------------------------------------------------
(* The operations of the CA, each under c.mu *)

Start(kind, S, point) ==
  /\ Free
  /\ op' = [kind |-> kind, serials |-> S, point |-> point, view |-> EmptyCRL]
  /\ UNCHANGED <<storage, cachedCRL, index, ocspCache, slots, workers, faults,
                 life>>

\* issueLeafLocked draws a serial never used before, and signs first.
StartIssue(n) ==
  /\ n \notin inventory \cup pruned
  /\ Churning
  /\ Start("Issue", {n}, "slot")

\* importCertificateLocked takes any serial that is not in the inventory, one that
\* has been pruned included, and has nothing to sign.
StartImport(n) ==
  /\ n \notin inventory
  /\ Churning
  /\ Start("Import", {n}, "append")

\* The operations on the CRL, when no peer holds the CRL lock.
StartCRL(kind, S, point) ==
  /\ peer = {}
  /\ crl.number < MaxCRL
  /\ Start(kind, S, point)

\* Revoke, RevokeSerial and Clean revoke one serial, the sweep one or several.
StartRevoke(S) ==
  /\ S # {} /\ S \subseteq inventory \cup pruned
  /\ StartCRL("Revoke", S, "read")

\* RefreshCRLIfDue, ReissueCRL and RefreshCRLChainFile.
StartRefresh == StartCRL("Refresh", {}, "read")

StartCleanup == Churning /\ StartCRL("Cleanup", {}, "prune")

StartOp ==
  \/ \E n \in Certs : StartIssue(n) \/ StartImport(n)
  \/ \E S \in SUBSET Certs : StartRevoke(S)
  \/ StartRefresh
  \/ StartCleanup

\* acquireSigningSlot: an operation queues for its slot, c.mu held.
OpSlot ==
  /\ op.point = "slot"
  /\ slots < Slots
  /\ slots' = slots + 1
  /\ op' = [op EXCEPT !.point = "sign"]
  /\ UNCHANGED <<storage, cachedCRL, index, ocspCache, workers, faults, life>>

\* It stops waiting when its context is done.
OpGivesUp ==
  /\ op.point = "slot"
  /\ op' = NoOp
  /\ UNCHANGED <<storage, cachedCRL, index, ocspCache, slots, workers, faults,
                 life>>

\* Mutant: a signature that fails keeps its slot.
OpSign_Leak ==
  /\ op.point = "sign"
  /\ \/ /\ slots' = slots - 1
        /\ op' = [op EXCEPT !.point = IF op.kind = "Issue" THEN "append" ELSE "write"]
        /\ UNCHANGED faults
     \/ Fault /\ op' = NoOp /\ UNCHANGED slots
  /\ UNCHANGED <<storage, cachedCRL, index, ocspCache, workers, life>>

\* The CA key signs, or fails to, and the slot is released either way.
OpSign ==
  /\ op.point = "sign"
  /\ slots' = slots - 1
  /\ \/ /\ op' = [op EXCEPT !.point = IF op.kind = "Issue" THEN "append" ELSE "write"]
        /\ UNCHANGED faults
     \/ Fault /\ op' = NoOp
  /\ UNCHANGED <<storage, cachedCRL, index, ocspCache, workers, life>>

\* Mutant: the serial is indexed and the change is not counted.
OpAppend_Uncounted ==
  /\ op.point = "append" /\ op.serials \cap inventory = {}
  /\ AddRows(op.serials)
  /\ serialIndex' = serialIndex \cup op.serials
  /\ forgotten' = forgotten \ op.serials
  /\ op' = NoOp
  /\ UNCHANGED <<crl, peer, cachedCRL, epoch, removalEpoch, ocspCache, slots,
                 workers, faults, life>>

\* AppendInventoryRecord, then indexSerialLocked, which nobody sees before c.mu
\* is released.
OpAppend ==
  /\ op.point = "append" /\ op.serials \cap inventory = {}
  /\ AddRows(op.serials)
  /\ serialIndex' = serialIndex \cup op.serials
  /\ epoch' = epoch + 1
  /\ forgotten' = forgotten \ op.serials
  /\ op' = NoOp
  /\ UNCHANGED <<crl, peer, cachedCRL, removalEpoch, ocspCache, slots, workers,
                 faults, life>>

\* The append failed, or only said so, and the serial is not indexed; or a peer's
\* import has taken the serial (ErrDuplicateSerial).
OpAppendFails ==
  /\ op.point = "append"
  /\ \/ /\ op.serials \cap inventory # {}
        /\ UNCHANGED <<inventory, pruned, forgotten, faults>>
     \/ Fault /\ UNCHANGED <<inventory, pruned, forgotten>>
     \/ Fault /\ AddRows(op.serials) /\ forgotten' = forgotten \ op.serials
  /\ op' = NoOp
  /\ UNCHANGED <<crl, peer, cachedCRL, serialIndex, epoch, removalEpoch, ocspCache,
                 slots, workers, life>>

\* CleanupExpiredCerts prunes some rows and unindexes each (unindexSerialLocked).
OpPrune ==
  /\ op.point = "prune"
  /\ \E S \in (SUBSET inventory) \ {{}} :
       /\ PruneRows(S)
       /\ serialIndex' = serialIndex \ S
       /\ epoch' = epoch + Cardinality(S)
       /\ Drop(S)
       /\ op' = [op EXCEPT !.serials = S, !.point = "read"]
  /\ UNCHANGED <<crl, peer, cachedCRL, slots, workers, faults, life>>

\* Nothing had expired, or the prune failed; it may have landed all the same.
OpPruneNothing ==
  /\ op.point = "prune"
  /\ \/ UNCHANGED <<inventory, pruned, faults>>
     \/ Fault /\ \E S \in SUBSET inventory : PruneRows(S)
  /\ op' = NoOp
  /\ UNCHANGED <<crl, peer, cachedCRL, index, ocspCache, slots, workers, life>>

\* The operation has something to sign over the stored CRL.
Signs ==
  \/ op.kind = "Refresh"
  \/ op.kind = "Revoke" /\ ~(op.serials \subseteq crl.revoked)
  \/ op.kind = "Cleanup" /\ op.serials \cap crl.revoked # {}

\* readStoredCRL, and on to the signature.
OpRead ==
  /\ op.point = "read"
  /\ Signs
  /\ op' = [op EXCEPT !.view = crl, !.point = "slot"]
  /\ UNCHANGED <<storage, cachedCRL, index, ocspCache, slots, workers, faults,
                 life>>

\* readStoredCRL shows that there is nothing to sign, or fails.  A refresh that is
\* not due adopts a newer stored CRL; the others leave the cached one alone.
OpReadNothing ==
  /\ op.point = "read"
  /\ \/ op.kind = "Refresh" /\ InstallNewer(crl) /\ UNCHANGED faults
     \/ ~Signs /\ UNCHANGED <<cachedCRL, ocspCache, faults>>
     \/ Fault /\ UNCHANGED <<cachedCRL, ocspCache>>
  /\ op' = NoOp
  /\ UNCHANGED <<storage, index, slots, workers, life>>

\* The CRL that signCRLLocked signs.
NextCRL ==
  [number  |-> op.view.number + 1,
   revoked |-> IF op.kind = "Cleanup" THEN op.view.revoked \ op.serials
               ELSE op.view.revoked \cup op.serials]

\* UpdateCRL, then installCachedCRLLocked.
OpWrite ==
  /\ op.point = "write"
  /\ crl' = NextCRL
  /\ Install(NextCRL)
  /\ op' = NoOp
  /\ UNCHANGED <<inventory, pruned, peer, index, slots, workers, faults, life>>

\* The write failed, or only said so, and nothing is installed.
OpWriteFails ==
  /\ op.point = "write"
  /\ Fault
  /\ crl' \in {crl, NextCRL}
  /\ op' = NoOp
  /\ UNCHANGED <<inventory, pruned, peer, cachedCRL, index, ocspCache, slots,
                 workers, life>>

OpWork ==
  \/ OpSign
  \/ OpAppend \/ OpAppendFails
  \/ OpPrune \/ OpPruneNothing
  \/ OpRead \/ OpReadNothing \/ OpWrite \/ OpWriteFails

OpStep == OpSlot \/ OpGivesUp \/ OpWork

\* loadCRLCache, as Generate calls it before it judges a stored certificate.
Reload ==
  /\ Free
  /\ Install(crl)
  /\ UNCHANGED <<storage, op, index, slots, workers, faults, life>>

-----------------------------------------------------------------------------
(* Peers, seen through storage *)

\* Another replica, or the offline generate, issues or imports a certificate.  A
\* serial that an issuance here has drawn is nobody else's.
PeerAppend(n) ==
  /\ n \notin inventory
  /\ op.kind = "Issue" => n \notin op.serials
  /\ Churning
  /\ AddRows({n})
  /\ forgotten' = forgotten \ {n}
  /\ UNCHANGED <<crl, peer, op, cachedCRL, serialIndex, epoch, removalEpoch,
                 ocspCache, slots, workers, faults, life>>

\* A peer holds the CRL lock: no operation here does, and no other peer.
PeerLocks == op.kind \notin CRLKinds /\ peer = {} /\ crl.number < MaxCRL

PeerRevoke(n) ==
  /\ PeerLocks
  /\ n \in (inventory \cup pruned) \ crl.revoked
  /\ crl' = [number |-> crl.number + 1, revoked |-> crl.revoked \cup {n}]
  /\ UNCHANGED <<inventory, pruned, peer, op, cachedCRL, index, ocspCache, slots,
                 workers, faults, life>>

\* A peer's CleanupExpiredCerts: it prunes the inventory, then re-signs the CRL
\* without the serials it pruned.
PeerPrune(S) ==
  /\ PeerLocks
  /\ Churning
  /\ PruneRows(S)
  /\ peer' = S
  /\ UNCHANGED <<crl, op, cachedCRL, index, ocspCache, slots, workers, faults,
                 life>>

PeerTrim ==
  /\ peer # {}
  /\ crl' = IF peer \cap crl.revoked = {} THEN crl
            ELSE [number |-> crl.number + 1, revoked |-> crl.revoked \ peer]
  /\ peer' = {}
  /\ UNCHANGED <<inventory, pruned, op, cachedCRL, index, ocspCache, slots,
                 workers, faults, life>>

Peer ==
  \/ \E n \in Certs : PeerAppend(n) \/ PeerRevoke(n)
  \/ \E S \in (SUBSET inventory) \ {{}} : PeerPrune(S)
  \/ PeerTrim

-----------------------------------------------------------------------------
(* AnswerOCSP *)

\* Under the read lock: no cached response to serve, and a snapshot to answer
\* from.  (A response served from the cache changes nothing.)
Ask(c, n, h, nonce) ==
  /\ Free
  /\ client[c] = NoRequest
  /\ nonce \/ ocspCache[<<n, h>>] = "none"
  /\ client' = [client EXCEPT ![c] =
       [at |-> "slot", serial |-> n, hash |-> h, nonce |-> nonce,
        status |-> Decide(cachedCRL, n, n \in serialIndex)]]
  /\ UNCHANGED <<storage, op, cachedCRL, index, ocspCache, slots, pass, poll,
                 faults, life>>

\* acquireSigningSlotOrShed, with no lock held.
TakeSlot(c) ==
  /\ client[c].at = "slot"
  /\ slots < Slots
  /\ slots' = slots + 1
  /\ client' = [client EXCEPT ![c].at = "sign"]
  /\ UNCHANGED <<storage, op, cachedCRL, index, ocspCache, pass, poll, faults,
                 life>>

\* Mutant: a request that is shed releases a slot it never had.
Shed_Releases(c) ==
  /\ client[c].at = "slot"
  /\ slots' = slots - 1
  /\ client' = [client EXCEPT ![c] = NoRequest]
  /\ UNCHANGED <<storage, op, cachedCRL, index, ocspCache, pass, poll, faults,
                 life>>

\* The wait was too long (ErrSigningBusy), or the client has gone.
Shed(c) ==
  /\ client[c].at = "slot"
  /\ client' = [client EXCEPT ![c] = NoRequest]
  /\ UNCHANGED <<storage, op, cachedCRL, index, ocspCache, slots, pass, poll,
                 faults, life>>

\* Mutant: a request gives its slot back only when its answer may be cached.
Sign_Leak(c) ==
  /\ client[c].at = "sign"
  /\ \/ /\ ~client[c].nonce /\ client[c].status # "unknown"
        /\ client' = [client EXCEPT ![c].at = "store"]
        /\ slots' = slots - 1
     \/ /\ client[c].nonce \/ client[c].status = "unknown"
        /\ client' = [client EXCEPT ![c] = NoRequest]
        /\ UNCHANGED slots
  /\ UNCHANGED <<storage, op, cachedCRL, index, ocspCache, pass, poll, faults,
                 life>>

\* The CA key signs the answer, or fails to.  A nonced answer is for this request
\* alone, and unknown is never cached.
Sign(c) ==
  /\ client[c].at = "sign"
  /\ slots' = slots - 1
  /\ \/ /\ client' = [client EXCEPT ![c] =
             IF client[c].nonce \/ client[c].status = "unknown" THEN NoRequest
             ELSE [client[c] EXCEPT !.at = "store"]]
        /\ UNCHANGED faults
     \/ Fault /\ client' = [client EXCEPT ![c] = NoRequest]
  /\ UNCHANGED <<storage, op, cachedCRL, index, ocspCache, pass, poll, life>>

\* Mutant: the answer is cached as it was signed.
Store_Unchecked(c) ==
  /\ Free
  /\ client[c].at = "store"
  /\ ocspCache' = [ocspCache EXCEPT ![<<client[c].serial, client[c].hash>>] =
                     client[c].status]
  /\ client' = [client EXCEPT ![c] = NoRequest]
  /\ UNCHANGED <<storage, op, cachedCRL, index, slots, pass, poll, faults, life>>

\* Under the write lock the status is decided again, and the answer is cached only
\* if it still is the answer.
Store(c) ==
  LET n == client[c].serial
      k == <<n, client[c].hash>>
  IN
  /\ Free
  /\ client[c].at = "store"
  /\ ocspCache' = IF Decide(cachedCRL, n, n \in serialIndex) = client[c].status
                  THEN [ocspCache EXCEPT ![k] = client[c].status]
                  ELSE ocspCache
  /\ client' = [client EXCEPT ![c] = NoRequest]
  /\ UNCHANGED <<storage, op, cachedCRL, index, slots, pass, poll, faults, life>>

Client(c) ==
  \/ \E n \in Certs, h \in Hashes, nonce \in BOOLEAN : Ask(c, n, h, nonce)
  \/ TakeSlot(c) \/ Shed(c) \/ Sign(c) \/ Store(c)

\* A cached response reaches its expiresAt and is served no more.
Lapse(k) ==
  /\ ocspCache[k] # "none"
  /\ ocspCache' = [ocspCache EXCEPT ![k] = "none"]
  /\ UNCHANGED <<storage, op, cachedCRL, index, slots, workers, faults, life>>

-----------------------------------------------------------------------------
(* SyncSerialIndex *)

\* Both counters, under the read lock.
Sample(p) ==
  /\ Free
  /\ pass[p] = NoPass
  /\ pass' = [pass EXCEPT ![p] =
       [at |-> "read", epoch |-> epoch, removalEpoch |-> removalEpoch,
        stored |-> {}]]
  /\ UNCHANGED <<storage, op, cachedCRL, index, ocspCache, slots, client, poll,
                 faults, life>>

\* readSerialIndex, with no lock held.
ReadInventory(p) ==
  /\ pass[p].at = "read"
  /\ \/ /\ pass' = [pass EXCEPT ![p].at = "apply", ![p].stored = inventory]
        /\ UNCHANGED faults
     \/ Fault /\ pass' = [pass EXCEPT ![p] = NoPass]
  /\ UNCHANGED <<storage, op, cachedCRL, index, ocspCache, slots, client, poll,
                 life>>

\* reconcileSerialIndexLocked with given additions and removals.  Additions count
\* as one change of the index; removals only as removals.
Reconcile(p, added, removed) ==
  /\ Free
  /\ pass[p].at = "apply"
  /\ pass' = [pass EXCEPT ![p] = NoPass]
  /\ UNCHANGED <<storage, op, cachedCRL, slots, client, poll, faults, life>>
  /\ serialIndex' = (serialIndex \cup added) \ removed
  /\ epoch' = IF added = {} THEN epoch ELSE epoch + 1
  /\ Drop(removed)

\* What the pass read and the index has not, and the other way round.
Missing(p) == pass[p].stored \ serialIndex
Extra(p)   == serialIndex \ pass[p].stored

\* Mutants: the pass adds although a serial has left the index since its read, or
\* never removes.
Apply_AddPruned(p) ==
  Reconcile(p, Missing(p), IF epoch # pass[p].epoch THEN {} ELSE Extra(p))

Apply_AddOnly(p) ==
  Reconcile(p, IF removalEpoch # pass[p].removalEpoch THEN {} ELSE Missing(p), {})

\* Nothing is added when a serial has left the index since the read (sawRemoval),
\* and nothing removed when the index has changed (raced).
Apply(p) ==
  Reconcile(p, IF removalEpoch # pass[p].removalEpoch THEN {} ELSE Missing(p),
            IF epoch # pass[p].epoch THEN {} ELSE Extra(p))

Pass(p) == Sample(p) \/ ReadInventory(p) \/ Apply(p)

-----------------------------------------------------------------------------
(* SyncCRLCache, and restarts *)

\* GetCRL, with no lock held.
PollRead(q) ==
  /\ poll[q] = NoBlob
  /\ poll' = [poll EXCEPT ![q] = crl]
  /\ UNCHANGED <<storage, op, cachedCRL, index, ocspCache, slots, client, pass,
                 faults, life>>

PollInstall(q) ==
  /\ Free
  /\ poll[q] # NoBlob
  /\ InstallNewer(poll[q])
  /\ poll' = [poll EXCEPT ![q] = NoBlob]
  /\ UNCHANGED <<storage, op, index, slots, client, pass, faults, life>>

Poll(q) == PollRead(q) \/ PollInstall(q)

\* The process dies and finishLoadExisting starts the next one.  An index that
\* cannot be built starts empty; a CRL that cannot be loaded ends the start.
Restart ==
  /\ life < MaxRestarts
  /\ life' = life + 1
  /\ \/ serialIndex' = inventory /\ UNCHANGED faults
     \/ Fault /\ serialIndex' = {}
  /\ op' = NoOp
  /\ cachedCRL' = crl
  /\ epoch' = 0 /\ removalEpoch' = 0 /\ forgotten' = {}
  /\ ocspCache' = Empty
  /\ slots' = 0
  /\ client' = [c \in Clients |-> NoRequest]
  /\ pass' = [p \in Passes |-> NoPass]
  /\ poll' = [q \in Polls |-> NoBlob]
  /\ UNCHANGED storage

Next ==
  \/ StartOp \/ OpStep \/ Reload
  \/ Peer
  \/ \E c \in Clients : Client(c)
  \/ \E k \in Certs \X Hashes : Lapse(k)
  \/ \E p \in Passes : Pass(p)
  \/ \E q \in Polls : Poll(q)
  \/ Restart

Spec == Init /\ [][Next]_vars

\* The process schedules its goroutines fairly.  c.mu (a sync.RWMutex) and the
\* slots (a channel) serve those who wait in order, so a step that is possible
\* again and again is taken; the jobs' tickers go on.  Nobody has to give up: no
\* fairness is asked of OpGivesUp and Shed.
Fairness ==
  /\ SF_vars(OpSlot) /\ WF_vars(OpWork)
  /\ \A c \in Clients : WF_vars(Sign(c))
  /\ \A p \in Passes : SF_vars(Sample(p)) /\ WF_vars(ReadInventory(p)) /\ SF_vars(Apply(p))
  /\ \A q \in Polls : WF_vars(PollRead(q)) /\ SF_vars(PollInstall(q))

FairSpec == Spec /\ Fairness

-----------------------------------------------------------------------------
(* Properties *)

\* Type correctness.
TypeOK ==
  /\ inventory \in SUBSET Certs /\ pruned \in SUBSET Certs
  /\ crl \in CRLs /\ peer \in SUBSET Certs
  /\ op \in Ops \cup {NoOp}
  /\ cachedCRL \in CRLs
  /\ serialIndex \in SUBSET Certs /\ forgotten \in SUBSET Certs
  /\ epoch \in Nat /\ removalEpoch \in Nat
  /\ ocspCache \in [Certs \X Hashes -> Answers \cup {"none"}]
  /\ slots \in 0 .. Slots
  /\ client \in [Clients -> Requests \cup {NoRequest}]
  /\ pass \in [Passes -> PassStates \cup {NoPass}]
  /\ poll \in [Polls -> CRLs]
  /\ faults \in 0 .. MaxFaults /\ life \in 0 .. MaxRestarts

\* The response cache never contradicts the CRL and the index the process decides
\* from: no pre-signed good for a serial that CRL revokes, whichever operation,
\* poll or reload installed it and whatever was being signed meanwhile, and no
\* answer at all for a serial the index has let go.
CacheVouches ==
  \A k \in Certs \X Hashes : ocspCache[k] # "none" =>
    /\ k[1] \in serialIndex
    /\ ocspCache[k] # "unknown"
    /\ ocspCache[k] = "good" => k[1] \notin cachedCRL.revoked

\* Every slot that is taken is held for a signature in flight, by the operation
\* under c.mu or by a request: a failed signature or a shed request leaks none.
SlotsAccounted ==
  slots = Cardinality({c \in Clients : client[c].at = "sign"})
          + (IF op.point = "sign" THEN 1 ELSE 0)

\* The index never drops a serial whose row has been in the inventory all the
\* time, whatever pass read the inventory when: not one this process has issued,
\* nor one that another pass has just added.
IndexNeverForgets ==
  [][life' = life => serialIndex \ serialIndex' \subseteq pruned']_vars

\* A serial this process has taken off its index, and that storage does not hold,
\* never comes back through a pass that read the inventory before.
PrunedStaysOut ==
  [][life' = life => (serialIndex' \ serialIndex) \cap forgotten' = {}]_vars

\* The cached CRL never goes back to an older one, in one process: neither a late
\* poll nor a refresh installs what an operation has superseded.
CRLAdvances == [][cachedCRL'.number >= cachedCRL.number]_vars

\* Once the inventory is left alone, a certificate that a peer has issued becomes
\* known to the responder, and one that a peer has pruned is forgotten.
IndexConverges ==
  \A n \in Certs : (n \in inventory) # (n \in serialIndex)
                     ~> (n \in inventory) = (n \in serialIndex)

\* A revocation that any replica has stored is enforced by this one, or cleaned up.
RevocationArrives ==
  \A n \in Certs : n \in crl.revoked ~> n \in cachedCRL.revoked \/ n \notin crl.revoked

\* An operation that waits for a signing slot, c.mu held, gets one and completes,
\* however many requests sign meanwhile.
OperationCompletes == op # NoOp ~> op = NoOp

\* What the operator's manual says of a certificate made offline: a running server
\* does not know it until it restarts.
UnknownUntilRestart ==
  [][life' = life /\ serialIndex' # serialIndex /\ serialIndex \subseteq serialIndex'
       => op.point = "append"]_vars
=============================================================================
