# A TLA+ verification of openvox-ca

openvox-ca is a certificate authority for OpenVox (Puppet) agents. Several
replicas may run over one shared storage backend, and named distributed locks are
all that keeps their operations apart; each replica is two or three processes.
This directory models the system in TLA+, checks the models with TLC on small
instances, and proves the central safety properties with TLAPS for any number of
replicas, subjects, requests and faults.

Contents: 1 the system and its modules; 2 the certificate lifecycle; 3 the OCSP
responder; 4 locks; 5 the inventory; 6 the CA's material; 7 processes and
admission; 8 the runs; 9 fairness; 10 proofs; 11 where code and comments
disagree; 12 what is not modelled; 13 running.

## 1. The system and its modules

| Part of the system (source) | Module | What makes it correct |
|---|---|---|
| Requests, signing, renewal, generation, import, revocation, CRL, superseded list, expiry cleanup (`internal/ca`) | `CertLifecycle` | no revocation is lost; a rejected request is never signed; at most one live certificate per subject |
| OCSP responses, serial index, CRL poll, signing slots (`ocsp.go`, `serialsync.go`, `crlsync.go`, `signbound.go`) | `Responder` | no cached `good` for a revoked serial; the index neither loses live nor resurrects pruned serials |
| The named lock (`storage/backend.go`) and its implementations (`redis.go`, `etcd.go`, `sql.go`, `filelock.go`, `instancelock.go`) | `Mutex`; `RedisLock`, `EtcdLock`, `SessionLock`, `HostLock` | exclusion while grants last; a dead holder's lock is freed |
| Inventory records, indexes and integrity head (`*_inventory.go`, `*_certindex.go`, `storage.go`) | `Inventory`, `InventoryStart` | records, indexes, head and what callers are told agree; a conversion loses no line |
| `rebuild-inventory-hmac` | `RebuildHMAC` | nothing is vouched for that the operator was not shown |
| Filesystem backend (`filesystem.go`) | `FileStore` | the CA key survives every failure; a verifying inventory is complete |
| Start-up, `csr --create-key`, `import-ca-cert`, `openvox-ca-ctl import` (`init.go`, `keyprovider.go`, `caImport.go`) | `Bootstrap` | one CA however many replicas start; a half-written CA is completed or refused |
| `openvox-ca-ctl migrate` (`storage/migrate.go`) | `Migrate` | success means a faithful copy; no live CA is overwritten |
| Managed certificates (`managedcert.go`, `certstore/`) | `ManagedCert` | what is issued is stored, revoked or on the superseded list |
| The CA's serving certificate (`servingcert.go`) | `ServingCert` | a listener has a certificate, and not one it could know to be revoked |
| Upstream CRLs (`crlchainfile.go`, `crlchain.go`) | `CRLChain` | an ancestor's CRL never goes back |
| Client CRLs and authorisation (`clientca.go`, `api/clientcrl.go`, `api/auth.go`) | `Admission` | no reload re-admits a client a numbered CRL names; a barred client is not served |
| Launcher, children, jobs, shutdown (`main.go`, `launcher.go`, `goroutine_group.go`) | `Service` | whoever writes holds the instance lock; a shutdown ends |
| SIGHUP and readiness (`reload.go`, `notify.go`) | `Reload` | a failed reload keeps what was loaded, a good one lands |
| Isolated signer (`signer/signer.go`) | `SignerRPC` | an answer belongs to its call; a slot always comes back |
| OpenBao token (`signer/openbao`) | `TokenManager` | the token in use is the one renewed; a closed manager logs in no more |
| Memory budget (`launcher_memlimit.go`) | `MemoryBudget` | the limits of a divided budget fit the ceiling |

How they interact. Every operation of the CA goes through
`StorageService.WithLock` with one or both of two names, always in the order
`subject:<name>`, then `crl`; inside them it takes the process mutex `c.mu` and
then the storage mutexes. `bootstrap` then `crl` occurs in CA import only.
Replicas share nothing but the store: a replica learns of its peers' revocations
by polling the stored CRL and of their issuances by polling the inventory.
Background jobs run on every replica without a leader. On a store without
distributed locks one launcher holds the instance lock for its children.

How the modules fit together. `CertLifecycle` takes a lock as exclusion that ends
with its holder; the four lock modules are shown to implement exactly that
(`Mutex`), with the lapses their leases allow. It takes an inventory append or
prune as one step that may fail or stop half way; `Inventory` and `FileStore` show
what one such step consists of. `Responder` sees the CRL of `CertLifecycle` as a
number and a set, `ManagedCert` and `ServingCert` see its issuance and revocation
as single steps. `Service` uses the instance lock `HostLock` models. Modules meet
at the stored state, so each is checked with the other side's steps as its
environment, not in one product, which TLC could not explore.

Conventions. A storage call is at most one action, and everything the code leaves
unlocked between two calls is a point where other actors step in. A call may fail,
a failed write may have landed, a process may die anywhere, where the module's
bounds (`MaxFaults`, `MaxCrashes`) allow it. Cryptographic values are what they
are computed over: a MAC is the lines it covers, a signature the call or key it
belongs to. Every `Max...` constant is a bound of the model, not of the code;
other constants are settings of the code. Constants are instantiated in the MC
modules and the `.cfg` files only.

## 2. The certificate lifecycle

### State

Shared storage: `csr` (pending requests), `cert` (the stored certificate's serial
per subject, 0 for none), `owner` (every certificate ever stored, in order; its
index is its serial number), `inventory` (rows in order, 0 where pruned), `crl`
(number and listed serials), `superseded`. Locks: `subjectLock`, `crlLock`. Per
replica: `cached` (its CRL), `pc` and `job` (where it is in its operation, and
the operation's local variables). Environment: `elapsed` (superseded serials
whose window is over), `expired`. `started` and `faults` count against the bounds
`MaxRequests` and `MaxFaults`.

### Actions

A replica runs one operation at a time and each action is at most one access to
shared storage, so every interleaving of two replicas' storage calls is a
behaviour. `Call...` starts an operation; `AcquireSubject` and `AcquireCRL` are
`WithLock`; then

| Operation | Control points |
|---|---|
| `SaveRequest` | `submit`, `autosign`, `sign`, `saveCert`, `append`, `dropCSR` |
| `Sign` | `sign`, `saveCert`, `append`, `dropCSR` |
| `DeleteRequest` | `reject` |
| `Renew`, `AutoRenew` | `gate`, `recheckCRL`, `recheckList`, `saveCert`, `append`, (`dropCSR`,) then under `crl` either `crlRead`, `crlWrite` or `listRead`, `listAppend` |
| `Generate` | `replaceRead`, (under `crl` `crlRead`, `crlWrite`,) `evict`, `saveCert`, `append`, `dropCSR` |
| `Import` | `evict`, `saveCert`, `append` |
| `Revoke`, `Clean` | (`cleanRead`,) under `crl` `retireRead`, per superseded serial `crlRead`, `crlWrite`, then `listWrite`, `latest`, `crlRead`, `crlWrite`(, `cleanDelete`, `dropCSR`) |
| `RevokeSerial` | under `crl` `check`, `crlRead`, `crlWrite` |
| `Sweep` | under `crl` `sweepRead`, `crlRead`, `crlWrite`, `listWrite` |
| `Refresh` | under `crl` `crlRead`, `crlWrite` |
| `Cleanup` | under `crl` `prune`, `crlRead`, `crlWrite`, then per row `blobRead`, `blobDelete` |

Failures: `StepFails` (a lock timeout or a failed call that ends the operation),
`CRLFails` (reading, signing or writing the CRL; the write may have landed),
`AppendFails` and `SavePrivateKeyFails` (with the roll-back, which may fail too),
`HasCertFails` (`HasCert` and `HasCSR` answer an error with "absent"), the failed
sync inside `SyncFirst`, the logged failures inside `DropCSR`, `CleanDelete` and
`BlobDelete`, a partial `Prune`, and `Crash` at any point, after which the locks
lapse and the replica restarts with the stored CRL.

### Abstractions

Serial numbers are numbered in the order certificates are stored (the code draws
them at random and refuses a duplicate). Certificate and CSR contents, SAN policy
and autosign rules are one nondeterministic refusal. `refuseIfRevoked` before the
lock is one step, because only the answer under the lock decides. `c.mu` is not a
variable: it orders operations of one replica, which here do not overlap. A
crashed holder's lock is free at once; a lease that expires under a *live*
holder is the subject of `RedisLock` and `EtcdLock`. The overlap window outlasts every
renewal in flight when the serial was recorded, which is `Elapse`'s guard: the
default is 24 hours against `LockTimeout`'s 60 seconds (section 12).

## 3. The OCSP responder

One replica's in-memory state (`ocsp.go`, `serialsync.go`, `crlsync.go`,
`signbound.go`) against storage that its peers change too. `CertLifecycle` asks
whether storage is right when replicas race; `Responder` asks whether one
process's answers follow it. The two overlap in the CRL only, which `Responder`
sees as a number and a set of serials.

### State

| Variable | Code |
|---|---|
| `inventory`, `crl` | the stored inventory's serials, the stored CRL |
| `op` | the operation that holds `c.mu`: what it is, which serials, where it stands, the CRL it has read |
| `cachedCRL`, `serialIndex`, `ocspCache` | the fields of `CA` with those names; the cache is by serial and request hash |
| `epoch`, `removalEpoch` | `serialIndexEpoch`, `serialIndexRemovalEpoch` |
| `slots` | the length of the channel `signSlots` |
| `client`, `pass`, `poll` | goroutines in `AnswerOCSP`, `SyncSerialIndex`, `SyncCRLCache`, with what they read before they let go of `c.mu` or before they took it |
| `peer` | the serials of a peer's cleanup between its prune and its CRL |
| `pruned`, `forgotten` | history: serials that lost their row; serials taken off the index that storage has not held since |
| `faults`, `life` | failures and restarts so far |

### Actions

An operation of the CA is a sequence of steps under `c.mu` (`Start...`, then
`OpSlot`, `OpSign`, `OpAppend`, `OpPrune`, `OpRead`, `OpWrite` and their failing
forms), because it waits for a slot, and OCSP requests and polls go on without
`c.mu` meanwhile. An OCSP request is `Ask` (snapshot under the read lock),
`TakeSlot` or `Shed`, `Sign`, `Store` (re-check and cache under the write lock). An
index pass is `Sample`, `ReadInventory`, `Apply`; a CRL poll is `PollRead`,
`PollInstall`. Everything between two of these steps is what the code leaves
unlocked. A storage write that fails may have landed; `Restart` rebuilds the state
from storage as `finishLoadExisting` does, with an empty index if it cannot be
read.

### Abstractions

A response is its status. Signature, validity and encoding are left out, and
`Lapse` lets a cached response expire at any time. The cache's size limit only
removes entries, so it is a case of `Lapse`. Which rows have expired is a free
choice of `OpPrune` and `PeerPrune`. A serial that has been pruned can be imported
again, since `ImportCertificate` takes an expired certificate. A request served
from the cache changes nothing and has no action. The one-second wait and the
contexts are `Shed` and `OpGivesUp`, possible at any time while waiting.


## 4. Locks

`Mutex` is what `StorageService.WithLock` promises: `Grant`, `Lapse`, `Release`.
Nobody is granted the lock while a grant lasts; a holder whose lease ran out is
not told and goes on, so exclusion is promised only up to lapses. Each tier maps
its own state to `Mutex`'s two variables, `holders` and `lapsed`.

| Module | State | What it adds to a plain mutex |
|---|---|---|
| `RedisLock` | the key and its TTL in heartbeat intervals, a token per acquisition, heartbeats due and missed | lost answers to `SET NX`, to heartbeats and to the compare-and-delete; death of a holder; failovers that forget the key |
| `EtcdLock` | the session a process shares, leases, the queue of lock keys, releases being retried | a session is replaced while callers use it, a key is named by its lease, a failed delete is retried in the background, `Close` and restart |
| `SessionLock` | each request's nested locks, connections of a bounded pool, the server's owners | two names that hash alike, a lost statement costs the session, the server reaps sessions late |
| `HostLock` | the instance lock, launchers and their processes, the lock file and its descriptors | the file system may have no `flock(2)`; a killed launcher leaves its children |

All four begin with the process-local mutex, which the code has for two reasons
that both matter to the proofs: it keeps goroutines of one process from sharing a
session's key, and without `flock(2)` it is all there is. The servers and drivers
are external and modelled from how the code uses them.

## 5. The inventory

`Inventory` is the running system: replicas append, list, verify, prune and edit
records. `Kind` selects how a backend commits, since that is where they differ:
etcd guards a transaction on `inventory/seq`, Redis runs a script guarded on the
head it has read, SQL one transaction. A conflict sends the caller back to its
read, a lost reply may have landed, and a prune runs in batches that stop half
way. A call whose answer is lost may have landed, on every backend: the caller
reports an error then, and a prune leaves out of its report what that one
transaction removed (`InOneGo` bounds it). A head is the sequence of lines folded into it, so "verifies" is equality.

`InventoryStart` is what happens before: a replica finds an inventory that an older
version kept as one text, and turns it into records under the
`inventory-decompose` lock, whose lease may run out, while replicas of the older
version still append to the text. `rep[r]` is the start a replica is in, with what
it has read and whether it is still fresh (the etcd revision, or the value of the
Redis counter: `ByRevision`). Then it agrees on the HMAC key and verifies the head
or establishes one.

`RebuildHMAC` is the operator's command: report, gates, instance lock, the new key,
the new value, second report, comparison, with a server that starts and appends
and with the command killed anywhere. An integrity value is a key and the entries
it covers.

## 6. The CA's material

| Module | Operations | Abstractions |
|---|---|---|
| `Bootstrap` | `Init` on several replicas, `csr --create-key`, `import-ca-cert`, the import with a private key (`ImportCA`), a key the operator replaces, revocation by a serving replica; each write of `seedCAState` and of the import is a step | keys are numbers, a certificate is its key and generation, a CRL its signer, number and serials; `retired` are the keys an operator has replaced, `halfway` an import that died between certificate and CRL |
| `Migrate` | the two instance locks, the two bootstrap locks, the verdict on the source's inventory, the copy key by key, the rebuilt value | a blob is the CA it belongs to; seven keys stand for eleven |
| `FileStore` | `AtomicWriteFile`, `AppendLine`, `Get` (each of its reads a step beside a writer) and the two paths of the CA key at the level of system calls | `left` is what a power loss may leave of the directories; the inventory is the pieces written to it |
| `ManagedCert` | a reconcile pass step by step: read, decide, issue, store, restore, revoke or retire, back off; an issuance that fails may have left its record or taken the predecessor's | issuance, CRL and superseded list are atomic (`CertLifecycle` has their steps) |
| `CRLChain` | refresh and publication of the ancestors' CRLs from a file per replica, read slots and stranded reads | a CRL is its signer, number and date |

## 7. Processes and admission

`Service` has one instance per start of the command: in one process, or
(`Isolated`) as a launcher with signer and frontend. `lock` is the instance lock,
`main`, `signer` and `server` say how far each process is, `job` and `handler`
whether a background pass or a request may still write, `term` and `hup` which
signals a process has been sent, `told` what the service manager last heard. Its
actions are the code's steps from the lock to the last exit; `Terminate`,
`Hangup` and the three `...Dies` may come at any point.

`Reload` is the SIGHUP watcher against files that are rewritten one at a time, the
status heartbeat and a shutdown. `ServingCert` is each replica's listener, the
shared store and the sweep; time is counted in reconcile intervals, and a store
that refuses writes is left alone for a while as in `skipForSaveBackoff`. `SignerRPC` is
the pre-shared key, the handshake and the multiplexed calls with their timers
and slots. `TokenManager` is the renewal loop against refused requests and `Close`; a
request is refused because its token is dead or because the policy says so, which
the code cannot tell apart.
`Admission` is the reload of client CRLs and the authorisation of requests in
progress: a client is its verified chain below the anchor, every link of which is
looked up under the policy, and the read of the CA's own CRL may fail.
`MemoryBudget` is arithmetic, with integers that wrap beyond `MaxInt`, so
that the order of dividing and multiplying matters as it does in the code.

## 8. The runs

Several components share a run: the first state chooses a *part* (a component and
an instance of its constants) and the variables of the other parts rest. A run's
property is the conjunction of what those components promise; the conjuncts are
definitions of their own in the component's module, with a comment each.

| Run | Instances | Question |
|---|---|---|
| `certificates` | 2 replicas (issuing; revoking, sweeping, cleaning up), 1 subject, 3 requests, 2 faults | does a failure or a crash lose a revocation, a superseded entry or a rejection? |
| `subjects` | all requests about one subject at 2 replicas (6 requests); renewals with an overlap, revocations and the sweep at 3 replicas for 2 subjects (4 requests); no faults | do two replicas ever leave two live certificates, renew a revoked one, leave one behind in cleaning? |
| `progress` | 2 replicas, 1 subject, 4 requests, fairness | do operations return, superseded serials get revoked, revocations propagate? |
| `ocsp_answers` | two instances: cache and slots (requests contend for the one slot), and index (2 serials, 2 passes) with a fault and a restart | can the cache contradict the CRL or the index, the cached CRL go back, a pass with a stale read drop a serial or bring one back? |
| `ocsp_convergence` | one serial, request, pass, poll and slot, fairness | do index, cached CRL and waiting operations get there? |
| `storage` | Redis (2 processes, 3 tokens), with failovers, etcd (3 sessions, one process may close), SQL (pool of 4, with and without faults), one host (2 instances, 2 roles, 2 tasks) with and without `flock(2)`; running inventories on etcd, Redis and SQL (3 serials, batches of 1); starts over a text of two lines on etcd and Redis (1 crash, lapsing lock, 2 retries) | does each tier implement `Mutex`; do records, indexes and head agree; does the import keep every line? |
| `material` | 2 replicas and 1 or 2 operators over an empty store, with a key provider, and revoking; one server and the commands that replace its CA, one at a time (3 keys, 2 crashes, 2 revocations); migrations into a live store and two into one; rebuilding on three kinds of store; the file backend (2 keys, 3 operations, 2 faults); managed certificates (Secret, with edits, files over the CA's life, a foreign Secret); the CRL chain (8 files) | is there one CA, is its key kept, does nothing unverified get vouched for? |
| `processes` | two launchers, two single processes or one of each (2 signals, 2 faults); reloads; the serving certificate with 2 failed writes; signer connection; OpenBao by login (2 faults) and by token file; client CRLs (two anchors with deltas; clocks ahead, numbered and not; requests under `require` and under `check`, by leaf and by intermediate); the memory budget (`MaxInt` 1023, `Unit` 8) | who writes, what is presented, signed and admitted; do the limits fit? |
| `liveness` | thirteen parts, one or two actors each, fairness; a managed pair meets two failures, or one and an edit, with room for the back-off they earn | does everything that was started end, and everything asked for arrive? |
| `cleanup_race`, `overwrite`, `import_race` | 1 or 2 replicas, up to 4 requests | section 11 |

Why these bounds are enough: each race of interest involves two actors in one
operation each and at most one failure in between, and a second failure covers the
recovery. The instances have room for that and for one more step (a third CRL
number, token or session), so that what a stale actor does to its successor's
successor occurs too. A memory ceiling needs no particular width, only one that
wraps; 1023 has all residues of the percentages and of the unit. Where the proofs
of section 10 apply the bounds do not matter.

`OneLiveCertificate` and `StoredIsLatest` are checked without faults, `Import` and
`Cleanup`, where the code does not promise them: a failed roll-back or an imported
certificate leaves two. `IndexConverges` depends on `MaxEpoch`, which ends the changes
of the inventory: a pass that overlaps a change leaves half of its work to the
next one, so the code promises agreement only once the inventory is left alone
for an interval. Deadlock is not checked in `storage`, `material`, `processes` and
`liveness`, where a component's operations run out at its bounds.

## 9. Fairness

* `progress`: weak fairness of a replica's steps (a goroutine is scheduled, a
  storage call returns), of the sweep and the CRL sync (periodic jobs of every
  replica) and of time; strong fairness of lock acquisitions, since a waiter polls
  or queues while the lock comes free again and again.
* `ocsp_convergence`: weak fairness of unlocked steps; strong fairness of steps
  that need `c.mu` or a slot, since `sync.RWMutex` and channels serve waiters in
  order. Nothing is assumed of `OpGivesUp` and `Shed`.
* `liveness`, locks: Redis' clock ticks, keys expire and heartbeats are attempted;
  an etcd caller goes on, retries end, a lease nobody renews expires; strong
  fairness of SQL requests, since mutex, pool and server queue are first come,
  first served. No fairness of holders leaving their critical section on Redis:
  the property is about keys nobody holds.
* `liveness`, stores: starts, commands and passes that have begun go on (nobody
  need begin one), tickers and the clock tick, a stranded read returns when its
  file system recovers; the refresh's begin is strongly fair, as its read slot
  comes free again and again.
* `liveness`, processes: goroutines of live processes run and their timers fire.
  Nothing is assumed of background passes, HTTP handlers, the signer's answers or
  the operator.

## 10. Proofs

Eight modules hold proofs. A `.tla` with the suffix `Proofs` extends its component
and instantiates further ones at its end (`Admit`, `Serving`, `Remote`, `Bao`,
`Boot`, `Rebuild`, `Move`); the lifecycle's are split over four files because of
their length. Every constant
is arbitrary within the component's named assumption, which TLC evaluates in the
runs too. `Max...` bounds are arbitrary, so the theorems hold for any number of
requests, faults and restarts.

| Module | Theorem | States | Assumes |
|---|---|---|---|
| `CertLifecycleProofs` | `TypeCorrectness` | `TypeOK` | `ConstantsAssumption` |
| | `CRLReadModifyWrite` | `SnapshotsAreCurrent` | |
| | `NoRejectedRequestSigned` | `SignsOnlyPendingRequests` | |
| | `RevocationsAreKept` | `CRLOnlyGrows` | |
| | `SupersededAreKept` | `SupersededReachesCRL` | |
| | `NumbersNameCRLs` | `CRLNumberNamesContent` | |
| | `SubjectsAreConsistent` | `Consistent`, the invariant of the next four | `Undisturbed` |
| | `OneCertificatePerSubject` | `OneLiveCertificate` | `Undisturbed` |
| | `StoredCertificateIsLatest` | `StoredIsLatest` | `Undisturbed` |
| | `NoRenewalOfRevoked` | `RenewalHonoursRevocation` | `Undisturbed` |
| | `CleanLeavesNothingValid` | `CleanRevokesAll` | `Undisturbed` |
| | `AdmissionIsFirm` | `Admission`: `BarredIsNotServed`, `ServedUnderItsOwnGrant` | every anchor numbers its CRLs |
| | `ReloadNeverReadmits` | `Admission`: `NoReadmission` | the same |
| `ResponderProofs` | `TypeCorrectness` | `TypeOK` | `ResponderAssumption` |
| | `SlotsAreAccountedFor` | `SlotsAccounted` | |
| | `CacheNeverContradicts` | `CacheVouches` | |
| | `CachedCRLAdvances` | `CRLAdvances` | |
| | `IndexKeepsSerials` | `IndexNeverForgets` | |
| | `PrunedAreKeptOut` | `PrunedStaysOut` | |
| | `ServingStaysValid` | `ServingCert`: `ListenerHasACertificate`, `NeverPresentsRevoked` | the free lock is no replica; `Overlap >= 2` intervals |
| `StorageProofs` | `ImportKept` | `ImportKeepsEveryLine` | `StartAssumption` |
| | `RedisImplementsMutex` | `RedisLock` implements `Mutex` | |
| | `EtcdImplementsMutex` | `EtcdLock` implements `Mutex` | `Crowded \subseteq Procs` |
| | `SQLImplementsMutex` | `SessionLock` implements `Mutex` | `Crowded \subseteq Procs` |
| | `HostImplementsMutex` | `HostLock` implements `Mutex`, without lapses | `Flock` |
| | `RedisMargin` | `LapsesOnlyAfterMisses` | `~Sentinel` |
| | `RedisLateUnlock` | `LateUnlockIsHarmless` | `~Sentinel` |
| | `EtcdRetrySpares` | `RetrySparesHeldLock` | `Crowded \subseteq Procs` |
| | `HostOneInstance` | `OneInstance` | `Flock` |
| | `HostExcludesInProcess` | `ExcludesInProcess` | |
| `HostProofs` | `ServeKeepsOneWriter` | `StoreHasOneWriter` | `ServiceAssumption` |
| | `LimitsFit` | `TreeFitsTheCeiling` | `BudgetAssumption` |
| | `BudgetComesOutExact` | `BudgetIsExact` | `BudgetAssumption` |
| | `SignerIsOurs` | `SignerRPC`: `ServesUnderOneKey`, `SignatureIsOurs` | |
| | `TokenIsLookedAfter` | `TokenManager`: `RenewsTheTokenInUse`, `ClosedForGood`, `SignedByThePinnedKey` | the loop and the free lock are no requests |
| | `TokenKeptWhileItWorks` | `TokenManager`: `WorkingTokenKept`, `OperatorsTokenSpared` | the same |
| `MaterialProofs` | `DiskSurvives` | `FilesSurviveFailures` | `KeyAssumption` |
| | `BootOneCA` | `Bootstrap`: `OneCA` | the lock's other values are no replicas |
| | `BootKeySurvives` | `Bootstrap`: `KeySurvives` | the same |
| | `BootKeepsRevocations` | `Bootstrap`: `RevocationsKept` | the same, and no provisioning command |
| | `RebuildEarnsItsValue` | `RebuildHMAC`: `SuccessIsCurrent`, `BlessedAsShown`, `LegacyBaselineKept`, `RepairLands` | `MaxRuns` is a natural |
| | `MigrationIsFaithful` | `Migrate`: `CompletedIsFaithful`, `SparesALiveCA` | `Routed`: a migration is between stores that exist |

What the assumptions say. `ConstantsAssumption`: the lock's "nobody" is neither a
replica nor a subject, bounds are naturals; replicas and subjects may be infinite
sets. `ResponderAssumption`: finitely many serials and requests, at least one slot.
`StartAssumption`: the older inventory is a sequence of lines of the older version.
`ServiceAssumption`: the free lock is not an instance, isolated instances are
instances. `KeyAssumption`: no key is one of the marks for an absent, empty or
linked file. `BudgetAssumption`: sizes are naturals, the default percentage is a
percentage. `Crowded` (the processes with two callers) are processes; `Flock` and
`~Sentinel` name the deployment a statement is about.

### The certificate lifecycle

None of the properties is inductive. The first invariant is
`Inv == TypeOK /\ Own`, where `Own` says for every replica what it may rely on where
it stands (`CertLifecycleInvariants`):

* `ControlAt`: control point, kind of operation and subject fit together;
* `MutexAt`: a replica inside a lock holds it, also while an operation that holds
  its subject waits for `crl`;
* `SnapshotAt`: what was read under `crl` is what is stored;
* `DoneAt`: superseded serials marked done are on the stored CRL, and what the
  cleanup takes off has expired;
* `PendingAt`: the request being signed is pending.

The argument is rely-guarantee. `CertLifecycleTypes` shows the types;
`CertLifecycleOwn` shows that a step of `r` re-establishes `OwnAt(r)` and keeps
within `Guarantee(r)` (it touches nobody's local state, takes nobody's lock, writes
the CRL and the superseded list only inside `crl`, removes a request only inside
its subject's lock), and that `Guarantee(r)` is all that `OwnAt(q)` of any other
`q` needs. The action properties follow from `Inv`; `NumbersNameCRLs` adds a second
induction, over the caches.

`Consistent` is the second invariant, about subjects: `Books` (rows and superseded
entries are of certificates issued, and no cache lists more than the stored CRL),
`SubjectAt(r)` (what the operation
of `r` has established about its subject where it stands: which certificate is
stored, which one is still to be revoked, what has been listed) and
`Settled(s)` for every subject nobody holds: at most the stored certificate is
valid and it is the newest with a row. `CertLifecycleSubjects` shows that a step
of one replica leaves to the others all they rely on (`Kept`: the subjects whose
lock it does not hold keep their certificates and requests; `Grows`:
certificates stay issued and revoked, and none comes to be over its overlap), and
what it keeps of its own subject (`Keeps`).

`Undisturbed` is what these five theorems need, and each clause is needed: a fault
between `SaveCert` and the append leaves a certificate without a row; duplicates
and `RevokeOnAutoRenew = FALSE` are settings that allow two live certificates;
`Import` stores a certificate beside a pending request, and `RevokeSerial` and
`Cleanup` act on a subject without its lock (section 11).

### The responder

`TypeOK` and `SlotsAccounted` need each other: `slots - 1` is a natural number
because the signature that ends is counted. The other invariants are

* `StoresDefinite`: a request about to cache has a definite answer;
* `CRLInOrder`: neither the cached CRL nor a polled one is newer than the stored
  one, and an operation that is to write has read the stored one. Without it
  `OpWrite` and `Reload`, which install without comparing numbers, could take the
  cached CRL back;
* `IndexSound`: what is in the index has or had a row, and what is forgotten has
  none;
* `PassesSound`: what a pass may rely on between its read and its use. If `epoch`
  has not moved, what the index has and the read has not was pruned; if
  `removalEpoch` has not moved, the read holds nothing forgotten. This is the reason
  for two counters, one for each half.

`PassStays` shows that any step within `IndexGuarantee` (counters never fall, a
step that changes the index moves the counter that matters) keeps every pass's
facts, so each action is shown to keep the guarantee once and not once per pass.

### The locks

Each tier's invariant says that one goroutine of a process at a time is past the
process-local mutex, and why the server's state then names one holder. On Redis a
token is never used twice, so compare-and-delete and the heartbeat only touch
their own key. On etcd (`EtcdOwned`, `EtcdOldest`) a session belongs to one process
and the key of a holder is the oldest or gone: since the key is named by its lease,
a retried delete could take a *later* acquisition's key of the same process, and
only the local mutex, kept while a release is retried, prevents it
(`EtcdRetrySpares`). On SQL a lock is a session's, and a request never holds two
that hash alike. On one host whoever has the lock file open has the file at the
lock's path, as nothing removes it. The refinement then maps each step to a step
of `Mutex` or a stutter.

### Import, processes, signer, memory

`ImportKept`: `StartStore` says that the records are numbered without gaps and, as
long as the text is there, are a prefix of it while nobody has issued through
them. `Fits` says what a replica knows: what it has read under a mark that is still
fresh is what is stored, and it has imported as many lines as it has counted. The
lock plays no part, since its lease may lapse: what keeps two importers from
interleaving is the fence on sequence number and mark in every batch.

`ServeKeepsOneWriter`: per instance, `ServeTree` (a launcher holds the lock from
before its first child to after its last, and a child that got past the handshake
has a CA in the store), `ServeSingle` (a single process holds it until its group has
been joined) and `ServeWork` (passes and handlers belong to a server that has begun
to serve). Everything but the lock is the instance's own and nobody takes the lock
from another (`ServeApart`), so each action is shown for its own instance only.

`SignerIsOurs`: `Handshake` says which proofs can be on the wire for the keys the
two ends have read, `OwnAnswers` that an answer on the wire or in a call's channel
is an error or of that very call; numbers are not reused, so a late answer finds
no other call. `TokenIsLookedAfter` and `TokenKeptWhileItWorks`: `Owner` says who
may be logging in for each state of the mutex, and `Asks` that a request refused
with a live token was refused by the policy; the first half of the property is
itself part of the invariant.

`LimitsFit` speaks of both outcomes: where the budget is divided, the three limits
fit the ceiling together, and where it is not, each process keeps what it
inherits, which may be the whole of `GOMEMLIMIT` each (section 11). `LimitsFit` and
`BudgetComesOutExact` have one lemma each for the parser, the scaling
that divides first, and the shares; the invariants say that what was handed out
are these shares and that a refusal was right in unbounded arithmetic.

### The CA's material

`DiskSurvives`: `DiskKeys` says of *every* directory a power loss may leave that a
reader gets from it a key it may be given, and that the write of a key has cleared
the other path; `DiskGet` that a reader under way still looks where the key is, or
has lost only the older copy; `DiskLines` that only the last piece of the inventory
may be part of a line and what is acknowledged is flushed.

`BootOneCA` and `BootKeySurvives`: `BootStore` (a certificate is of the stored key
or of one the operator has replaced), `BootAt(r)` (what a start has loaded or made
where it stands, and that a bootstrap under the lock has found nothing) and
`BootImport`. `BootApart(x)` is what a step of `x` leaves to the others: certificates
and known keys stay, and only the holder of the bootstrap lock writes where there
is nothing. `BootKeepsRevocations` adds that a store without a CRL has had no
revocation, which an import ends; its race is the run `import_race`.

`RebuildEarnsItsValue`: `Writers` says which of command and server the instance lock
leaves alone, `Reported` that a key found usable stays, `Reread` and `Repaired` what
the command may rely on between its writes and its second report.

`MigrationIsFaithful`: `MoveLocks` (who holds which lock at each step), `Copied` (what
the destination holds of the keys copied so far, the ones a server may touch
excepted) and `Unforced` (what was there before the first write).

### Listener and admission

`ServingStaysValid`: `Passing` says that a pass that has read the store holds the
subject lock, so what it read is still there; `Presents` that a listener that can
read presents what is stored, or what was replaced in this interval, or in the last
one and it has yet to look. With an overlap of two intervals the sweep comes after
that. A certificate whose write succeeded although its answer was lost, and which
was revoked for it (`lost`), is exempt.

`AdmissionIsFirm` and `ReloadNeverReadmits`: `Lists` says that a full CRL of an anchor
that numbers its CRLs names the serials up to its number, so a list that is not
older names no fewer; `Asking` that what was known against a request's client when
it arrived is still known, and what grants it is noted.

### Only model-checked

* Liveness (`progress`, `ocsp_convergence`, `liveness`): out of the prover's reach.
* `InventoryAgrees`: heads are folds over the records, so the proof is an induction
  over sequences, which the installed provers cannot do.
* `LocksHold` as a whole: of its parts the theorems state the refinement, the
  margin, the late unlock, the retry, the instance and the in-process exclusion;
  that a lock is granted on a live session is left to TLC.
* Of the properties that join several components the theorems state the conjuncts
  in the table. `StoreAgrees` (`Bootstrap`), `VouchingWasWaived` (`Migrate`),
  `StartsOnWhatIsStored` (`ServingCert`), `PresentsAPair` (`Reload`),
  `PartialsGoWithTheirBase` and unnumbered anchors (`Admission`), and all of
  `ManagedCertsAccounted` and `ChainNeverRegresses`, are left to TLC.
* The behaviour with faults of the five properties that need `Undisturbed`: it is
  false (section 11).

## 11. Where code and comments disagree

Runs that show it:

* `cleanup_race`: `deleteStoredCertIfSerialMatches` compares and deletes without
  the subject lock and can delete a certificate issued in between, which
  `cleanup.go:125` says must be preserved.
* `overwrite`: `HasCert` answers an error with "absent", so `Generate` issues over
  a live certificate, which `signing.go:220` says is blocked.
* `import_race`: `import-ca-cert --force` re-signs the CRL outside the CRL lock; a
  revocation in between gets the same number and is lost, which `caImport.go:265`
  says a live import does not do.

Definitions that show it when put into a cfg (no run of their own):

* `CertLifecycle.RenewalHonoursRevocation` with `Duty <- RevokeSerialDuty`:
  `RevokeSerial` holds only `crl`, so it can revoke between a renewal's
  "authoritative" check and its issuance; `signing.go:1539` and `locking.md:1050`
  say nothing can.
* `CertLifecycle.RollbackKeepsInStep` with `Duty <- RenewDuty` and one fault: when
  a renewal's inventory append fails, the roll-back deletes the stored certificate
  although the predecessor's row is live (`signing.go:968`).
* `Responder.UnknownUntilRestart`: `docs/operator-cli.md:660` says a running server
  answers `unknown` for a certificate minted offline until it restarts;
  `SyncSerialIndex` makes it known within an interval.
* `Inventory.NoFalseAlarm`: a verification that reads rows and head in two requests
  can report tampering while a peer appends (`storage.go:1965`,
  `etcd_inventory.go:303`).
* `InventoryStart.HeadCoversEntries`: a baseline can be set beside a concurrent
  append and leave it out (`storage.go:2050`, `docs/development/inventory-store.md:142`).

Read in the code while modelling, part of the models, contradicted by a comment:

* An early SIGHUP is not fatal (`main.go:742`, `launcher.go:85`), yet it is for a
  child that has not registered for it.
* A migration onto itself is refused at once (`locking.md:494`), yet
  `instancelock.go:214` returns a no-op lock on distributed stores.
* A prune's "returned slice must contain every entry actually removed ... including
  alongside a non-nil error" (`backend.go:486`), "any path that has durably removed
  entries before failing still returns them" (`storage.go:744`) and, for SQL, "a
  returned error always means nothing was removed" (`sql_inventory.go:318`): a commit
  whose answer is lost removes entries and is returned as an error without them.
  `PruneReportsRemovals` bounds what is left out by one transaction.
* `ErrCAKeyLinkBroken` is for "a symlink leading nowhere" (`filesystem.go:82`): a
  reader gets it as well when a writer removes the older copy of the key between the
  reader's two looks at it. The next read succeeds (`ReadersFindTheKey`).
* A new base CRL lets its delta go because "the serials accumulated in the old delta
  fold into it" (`clientcrl.go:535`): the guard compares counts and dates, so
  neither the new base nor the remaining deltas need name the serial
  (`PartialsGoWithTheirBase` says what is guaranteed).

Remarks on behaviour no comment rules out:

* Responder: after a peer's cleanup a trimmed CRL can be polled before the index
  pass drops the serial; until then a revoked, expired certificate is `good`.
* ManagedCert: a pass whose cached CRL is stale certifies a key again that a peer
  has just revoked. An issuance that the inventory refuses deletes the record of the
  predecessor, which stays in the store and in service.
* Admission: a not yet issued CRL without a number that stands beside a believed one
  may be dropped by a reload, and with it the serials that it alone named
  (`NoReadmission` exempts it).
* Bootstrap: a forced import publishes the re-signed own CRL only and drops the
  ancestors' blocks; an import that dies between certificate and CRL leaves a CRL of
  the other key until it is run again (`incompleteImportError` says so); a start that
  loaded the old pair seeds the old public key after a re-key.
* Service: a SIGTERM while the launcher spawns is lost; a launcher killed outright
  leaves children that write without the lock; a single process does not wait for
  handlers past the drain (documented); `READY` can follow `STOPPING`.
* ServingCert: the overlap must cover two reconcile intervals. A write that succeeded
  but was reported as failed leaves a revoked certificate in the store, and the
  listener may present it while `skipForSaveBackoff` withholds the next issuance.
* TokenManager: a live token is given up for a new one after a 403 that was the
  policy's; replaced tokens are left to their TTL.
* MemoryBudget: where the division is declined a stated `GOMEMLIMIT` is in force in
  all three processes, "the whole value each" (`launcher_memlimit.go:308`).
* Migrate: a forced migration from a source without an inventory vouches for the
  destination's rows; migrations in opposite directions between distributed stores
  block each other; a server that starts on a distributed destination may cache a
  key that is then overwritten (`migrate.go:107`); a partial copy needs `--force`.
* RebuildHMAC: a blob store without an enforced lock can be left with a value over
  other entries than were shown.
* FileStore: a short write followed by a successful append merges two lines under a
  value that verifies (`AppendedIsListed` exempts it); the removal of the older key
  file is not flushed.

## 12. What is not modelled

The Kubernetes export and the Helm chart, autosign executables and path checks,
decoding of the configuration, metrics and logging, key formats, OIDs and the
encoding of certificates, the operator's command line beyond the commands above,
and the build: pure input and output or data without concurrency. The HTTP API is
modelled as far as it decides who is served (`Admission`) and what it starts
(`CertLifecycle`). `PROJECT.json` lists each part with its status and the reason.
Within the modelled parts:

* `CertLifecycle`: an overlap window shorter than `LockTimeout`; a superseded list
  that cannot be parsed, or has malformed entries (`supersede.go:330`, `:610`);
  the idempotent import of a certificate already held and the refusal of a serial
  already used, which change nothing.
* `Bootstrap`: the CA's subject, the `--out` form of `import-ca-cert`.
* `Migrate`: a source whose inventory is still in the undecomposed older form
  (`migrate.go:196`), and a server on the source.
* `CRLChain`: a file cut exactly between two PEM blocks, which reads as a shorter
  whole file (`crlchain.go:121`); `DropsOnlyTheOmitted` covers such a file as one that
  omits CRLs.
* `Admission`, liveness: the part of `liveness` has no delta CRLs, so a reload that
  `PartialsDropped` refuses for good is not looked for.

Of the four locking tiers SQLite is `HostLock`. Each component sees the others
through the stored state, as section 1 says; there is no product of all of them.

## 13. Running

    tlc -workers 2 -config Certificates.cfg MCCertLifecycle
    tlc -workers 2 -config Subjects.cfg     MCSubjects
    tlc -workers 2 -config Answers.cfg      MCAnswers
    tlc -workers 2 -config Storage.cfg      MCStorage      (and so on)
    tlapm CertLifecycleProofs.tla                          (and so on)

`PROJECT.json` names the module and the cfg of every run, for every mapped
definition the source lines it models, for every property a change of the model
that breaks it, and the hazards each property is meant to catch. The longest runs
take about three minutes, the longest proof modules about eight.
