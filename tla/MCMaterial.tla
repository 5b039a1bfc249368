---------------------------- MODULE MCMaterial ----------------------------
(***************************************************************************)
(* What a CA keeps, for TLC: how its key, certificate and CRL come to be   *)
(* in a store and stay there, how a store is migrated and its inventory's  *)
(* integrity value rebuilt, the file backend, managed certificates and the *)
(* upstream CRLs.  The first state chooses the part and the instance to    *)
(* check it on; the variables of the others stay 0, and the file backend   *)
(* stays as it is.                                                         *)
(***************************************************************************)
EXTENDS FileStore

VARIABLES
  part,
  crl, lock, up, inst, server, runs, faults, op, edits,   \* of several
  key, cert, pub, serial, inventory, csr, import, requested, retired,
  halfway, keys, gens, revoked, crashes,   \* Bootstrap
  st, boot, job, waived,   \* Migrate
  rows, head, hkey, legacy, pend, cmd,   \* RebuildHMAC
  certs, record, cache, superseded, store, mine, want, now, fails, stray,
  adrift,   \* ManagedCert
  upstream, bundle, file, hung, reads   \* CRLChain

bootstrapVars == <<key, cert, pub, serial, inventory, csr, import, requested,
                   retired, halfway, keys, gens, revoked, crashes>>
migrateVars == <<st, boot, job, waived>>
rebuildVars == <<rows, head, hkey, legacy, pend, cmd>>
filesVars == vars
managedVars == <<certs, record, cache, superseded, store, mine, want, now,
                 fails, stray, adrift>>
chainVars == <<upstream, bundle, file, hung, reads>>
sharedVars == <<crl, lock, up, inst, server, runs, faults, op, edits>>

allVars == <<part, sharedVars, bootstrapVars, migrateVars, rebuildVars,
          filesVars, managedVars, chainVars>>

\* Two servers and two csr --create-key commands over an empty store, with the key
\* in the store and at a provider.
Start == INSTANCE Bootstrap WITH Replicas <- {"r1", "r2"}, Operators <- {"o1", "o2"},
  Provider <- FALSE, OneInstance <- FALSE,
  MaxKeys <- 2, MaxGens <- 2, MaxCrashes <- 1, MaxRevocations <- 0

WithProvider == INSTANCE Bootstrap WITH Replicas <- {"r1", "r2"}, Operators <- {"o1"},
  Provider <- TRUE, OneInstance <- FALSE,
  MaxKeys <- 2, MaxGens <- 3, MaxCrashes <- 1, MaxRevocations <- 0

\* Servers that start and revoke.
Seed == INSTANCE Bootstrap WITH Replicas <- {"r1", "r2"}, Operators <- {},
  Provider <- FALSE, OneInstance <- FALSE,
  MaxKeys <- 3, MaxGens <- 3, MaxCrashes <- 2, MaxRevocations <- 2

\* One server and the commands that replace its CA, one at a time.
Offline == INSTANCE Bootstrap WITH Replicas <- {"r1"}, Operators <- {"o1"},
  Provider <- FALSE, OneInstance <- TRUE,
  MaxKeys <- 3, MaxGens <- 4, MaxCrashes <- 2, MaxRevocations <- 2

\* A migration into a store a server may start on.
ToLive == INSTANCE Migrate WITH Stores <- {"a", "b"}, Structured <- {"b"},
  Distributed <- {"b"}, Live <- {"b"}, Jobs <- {"m1"},
  Route <- [m1 |-> [src |-> "a", dst |-> "b"]], MaxRuns <- 2, MaxFaults <- 1

\* Two migrations into one store.
Twice == INSTANCE Migrate WITH Stores <- {"a", "b", "c"}, Structured <- {"a"},
  Distributed <- {"a", "b", "c"}, Live <- {}, Jobs <- {"m1", "m2"},
  Route <- [m1 |-> [src |-> "a", dst |-> "b"], m2 |-> [src |-> "c", dst |-> "b"]],
  MaxRuns <- 2, MaxFaults <- 0

\* A chained store behind the instance lock, one that has none, and a blob.
HostRebuild == INSTANCE RebuildHMAC WITH Chained <- TRUE, Distributed <- FALSE,
  Known <- TRUE, Enforced <- TRUE, MaxEntry <- 4, MaxRuns <- 2

SharedRebuild == INSTANCE RebuildHMAC WITH Chained <- TRUE, Distributed <- TRUE,
  Known <- TRUE, Enforced <- FALSE, MaxEntry <- 4, MaxRuns <- 2

BlobRebuild == INSTANCE RebuildHMAC WITH Chained <- FALSE, Distributed <- FALSE,
  Known <- TRUE, Enforced <- FALSE, MaxEntry <- 4, MaxRuns <- 2

\* Two replicas that reconcile one Secret, with failures and with edits.
Secret == INSTANCE ManagedCert WITH Replicas <- {"r1", "r2"}, Kind <- "secret",
  Adopt <- TRUE, ReuseKey <- TRUE, Overlap <- TRUE, TTL <- 4, RenewBefore <- 3,
  Backdate <- 1, CAEnd <- 5, BackoffCap <- 2, MaxNow <- 0, MaxFaults <- 1, MaxEdits <- 1

SecretEdits == INSTANCE ManagedCert WITH Replicas <- {"r1", "r2"}, Kind <- "secret",
  Adopt <- TRUE, ReuseKey <- TRUE, Overlap <- TRUE, TTL <- 4, RenewBefore <- 3,
  Backdate <- 1, CAEnd <- 5, BackoffCap <- 2, MaxNow <- 0, MaxFaults <- 0, MaxEdits <- 2

\* A pair of files over the life of the CA.
Pair == INSTANCE ManagedCert WITH Replicas <- {"r1"}, Kind <- "files",
  Adopt <- FALSE, ReuseKey <- FALSE, Overlap <- FALSE, TTL <- 4, RenewBefore <- 3,
  Backdate <- 1, CAEnd <- 5, BackoffCap <- 2, MaxNow <- 3, MaxFaults <- 1, MaxEdits <- 1

\* A Secret that belongs to somebody else.
Foreign == INSTANCE ManagedCert WITH Replicas <- {"r1"}, Kind <- "secret",
  Adopt <- FALSE, ReuseKey <- FALSE, Overlap <- FALSE, TTL <- 4, RenewBefore <- 3,
  Backdate <- 1, CAEnd <- 5, BackoffCap <- 2, MaxNow <- 4, MaxFaults <- 0, MaxEdits <- 0

C(by, num, at) == [by |-> by, num |-> num, at |-> at]
Holding(crls)  == [there |-> TRUE, whole |-> TRUE, crls |-> crls]

\* Missing, cut off and oversized files, old and new CRLs with and without a
\* number, duplicates, and CRLs of a stranger and of this CA itself.
ChainFiles ==
  {[there |-> FALSE, whole |-> TRUE, crls |-> <<>>],
   Holding(<<>>), Holding(<<C("a", 2, 2), C("b", 0, 1)>>),
   Holding(<<C("b", 0, 2), C("a", 1, 3), C("a", 3, 3)>>),
   Holding(<<C("x", 9, 9), C("own", 9, 9), C("a", 1, 1)>>),
   [there |-> TRUE, whole |-> FALSE, crls |-> <<C("a", 3, 3)>>],
   Holding(<<C("b", 0, 1), C("b", 1, 1)>>),
   Holding(<<C("a", 1, 1), C("a", 1, 1), C("a", 1, 1), C("a", 1, 1)>>)}

Chain == INSTANCE CRLChain WITH Replicas <- {"r1", "r2"}, Ancestors <- {"a", "b"},
  Files <- ChainFiles, Published <- {<<C("a", 1, 1), C("a", 2, 2), C("b", 0, 1)>>},
  MaxFileEntries <- 3, ReadSlots <- 1, MaxEdits <- 1, MaxFaults <- 1

NoBootstrap ==
  /\ key = 0 /\ cert = 0 /\ pub = 0 /\ serial = 0 /\ inventory = 0 /\ csr = 0
  /\ import = 0 /\ requested = 0 /\ retired = 0 /\ halfway = 0 /\ keys = 0 /\ gens = 0 /\ revoked = 0
  /\ crashes = 0
NoMigrate ==
  /\ st = 0 /\ boot = 0 /\ job = 0 /\ waived = 0
NoRebuild ==
  /\ rows = 0 /\ head = 0 /\ hkey = 0 /\ legacy = 0 /\ pend = 0 /\ cmd = 0
NoFiles == Init /\ dir["top"] = Absent /\ dir["legacy"] = Absent
NoManaged ==
  /\ certs = 0 /\ record = 0 /\ cache = 0 /\ superseded = 0 /\ store = 0
  /\ mine = 0 /\ want = 0 /\ now = 0 /\ fails = 0 /\ stray = 0 /\ adrift = 0
NoChain ==
  /\ upstream = 0 /\ bundle = 0 /\ file = 0 /\ hung = 0 /\ reads = 0

AnyInit ==
  \/ part = "start" /\ Start!Init /\ NoMigrate /\ NoRebuild /\ NoFiles
       /\ NoManaged /\ NoChain /\ inst = 0 /\ server = 0 /\ runs = 0
       /\ faults = 0 /\ op = 0 /\ edits = 0
  \/ part = "provider" /\ WithProvider!Init /\ NoMigrate /\ NoRebuild
       /\ NoFiles /\ NoManaged /\ NoChain /\ inst = 0 /\ server = 0
       /\ runs = 0 /\ faults = 0 /\ op = 0 /\ edits = 0
  \/ part = "seed" /\ Seed!Init /\ NoMigrate /\ NoRebuild /\ NoFiles
       /\ NoManaged /\ NoChain /\ inst = 0 /\ server = 0 /\ runs = 0
       /\ faults = 0 /\ op = 0 /\ edits = 0
  \/ part = "offline" /\ Offline!Init /\ NoMigrate /\ NoRebuild /\ NoFiles
       /\ NoManaged /\ NoChain /\ inst = 0 /\ server = 0 /\ runs = 0
       /\ faults = 0 /\ op = 0 /\ edits = 0
  \/ part = "migrate live" /\ ToLive!Init /\ NoBootstrap /\ NoRebuild
       /\ NoFiles /\ NoManaged /\ NoChain /\ crl = 0 /\ lock = 0 /\ up = 0
       /\ op = 0 /\ edits = 0
  \/ part = "migrate twice" /\ Twice!Init /\ NoBootstrap /\ NoRebuild
       /\ NoFiles /\ NoManaged /\ NoChain /\ crl = 0 /\ lock = 0 /\ up = 0
       /\ op = 0 /\ edits = 0
  \/ part = "rebuild host" /\ HostRebuild!Init /\ NoBootstrap /\ NoMigrate
       /\ NoFiles /\ NoManaged /\ NoChain /\ crl = 0 /\ lock = 0 /\ up = 0
       /\ faults = 0 /\ op = 0 /\ edits = 0
  \/ part = "rebuild shared" /\ SharedRebuild!Init /\ NoBootstrap /\ NoMigrate
       /\ NoFiles /\ NoManaged /\ NoChain /\ crl = 0 /\ lock = 0 /\ up = 0
       /\ faults = 0 /\ op = 0 /\ edits = 0
  \/ part = "rebuild blob" /\ BlobRebuild!Init /\ NoBootstrap /\ NoMigrate
       /\ NoFiles /\ NoManaged /\ NoChain /\ crl = 0 /\ lock = 0 /\ up = 0
       /\ faults = 0 /\ op = 0 /\ edits = 0
  \/ part = "files" /\ Init /\ NoBootstrap /\ NoMigrate /\ NoRebuild
       /\ NoManaged /\ NoChain /\ crl = 0 /\ lock = 0 /\ up = 0 /\ inst = 0
       /\ server = 0 /\ runs = 0 /\ faults = 0 /\ op = 0 /\ edits = 0
  \/ part = "secret" /\ Secret!Init /\ NoBootstrap /\ NoMigrate /\ NoRebuild
       /\ NoFiles /\ NoChain /\ up = 0 /\ inst = 0 /\ server = 0 /\ runs = 0
  \/ part = "secret edits" /\ SecretEdits!Init /\ NoBootstrap /\ NoMigrate
       /\ NoRebuild /\ NoFiles /\ NoChain /\ up = 0 /\ inst = 0 /\ server = 0
       /\ runs = 0
  \/ part = "pair" /\ Pair!Init /\ NoBootstrap /\ NoMigrate /\ NoRebuild
       /\ NoFiles /\ NoChain /\ up = 0 /\ inst = 0 /\ server = 0 /\ runs = 0
  \/ part = "foreign" /\ Foreign!Init /\ NoBootstrap /\ NoMigrate /\ NoRebuild
       /\ NoFiles /\ NoChain /\ up = 0 /\ inst = 0 /\ server = 0 /\ runs = 0
  \/ part = "chain" /\ Chain!Init /\ NoBootstrap /\ NoMigrate /\ NoRebuild
       /\ NoFiles /\ NoManaged /\ crl = 0 /\ up = 0 /\ inst = 0 /\ server = 0
       /\ runs = 0

AnyNext ==
  \/ part = "start" /\ Start!Next
       /\ UNCHANGED <<part, migrateVars, rebuildVars, filesVars, managedVars,
                      chainVars, inst, server, runs, faults, op, edits>>
  \/ part = "provider" /\ WithProvider!Next
       /\ UNCHANGED <<part, migrateVars, rebuildVars, filesVars, managedVars,
                      chainVars, inst, server, runs, faults, op, edits>>
  \/ part = "seed" /\ Seed!Next
       /\ UNCHANGED <<part, migrateVars, rebuildVars, filesVars, managedVars,
                      chainVars, inst, server, runs, faults, op, edits>>
  \/ part = "offline" /\ Offline!Next
       /\ UNCHANGED <<part, migrateVars, rebuildVars, filesVars, managedVars,
                      chainVars, inst, server, runs, faults, op, edits>>
  \/ part = "migrate live" /\ ToLive!Next
       /\ UNCHANGED <<part, bootstrapVars, rebuildVars, filesVars,
                      managedVars, chainVars, crl, lock, up, op, edits>>
  \/ part = "migrate twice" /\ Twice!Next
       /\ UNCHANGED <<part, bootstrapVars, rebuildVars, filesVars,
                      managedVars, chainVars, crl, lock, up, op, edits>>
  \/ part = "rebuild host" /\ HostRebuild!Next
       /\ UNCHANGED <<part, bootstrapVars, migrateVars, filesVars,
                      managedVars, chainVars, crl, lock, up, faults, op, edits>>
  \/ part = "rebuild shared" /\ SharedRebuild!Next
       /\ UNCHANGED <<part, bootstrapVars, migrateVars, filesVars,
                      managedVars, chainVars, crl, lock, up, faults, op, edits>>
  \/ part = "rebuild blob" /\ BlobRebuild!Next
       /\ UNCHANGED <<part, bootstrapVars, migrateVars, filesVars,
                      managedVars, chainVars, crl, lock, up, faults, op, edits>>
  \/ part = "files" /\ Next
       /\ UNCHANGED <<part, bootstrapVars, migrateVars, rebuildVars,
                      managedVars, chainVars, sharedVars>>
  \/ part = "secret" /\ Secret!Next
       /\ UNCHANGED <<part, bootstrapVars, migrateVars, rebuildVars,
                      filesVars, chainVars, up, inst, server, runs>>
  \/ part = "secret edits" /\ SecretEdits!Next
       /\ UNCHANGED <<part, bootstrapVars, migrateVars, rebuildVars,
                      filesVars, chainVars, up, inst, server, runs>>
  \/ part = "pair" /\ Pair!Next
       /\ UNCHANGED <<part, bootstrapVars, migrateVars, rebuildVars,
                      filesVars, chainVars, up, inst, server, runs>>
  \/ part = "foreign" /\ Foreign!Next
       /\ UNCHANGED <<part, bootstrapVars, migrateVars, rebuildVars,
                      filesVars, chainVars, up, inst, server, runs>>
  \/ part = "chain" /\ Chain!Next
       /\ UNCHANGED <<part, bootstrapVars, migrateVars, rebuildVars,
                      filesVars, managedVars, crl, up, inst, server, runs>>

AnySpec == AnyInit /\ [][AnyNext]_allVars

-----------------------------------------------------------------------------
(* Properties *)

\* Each part keeps the shape of its state.
PartsTyped ==
  /\ part = "start" => Start!TypeOK
  /\ part = "provider" => WithProvider!TypeOK
  /\ part = "seed" => Seed!TypeOK
  /\ part = "offline" => Offline!TypeOK
  /\ part = "migrate live" => ToLive!TypeOK
  /\ part = "migrate twice" => Twice!TypeOK
  /\ part = "rebuild host" => HostRebuild!TypeOK
  /\ part = "rebuild shared" => SharedRebuild!TypeOK
  /\ part = "rebuild blob" => BlobRebuild!TypeOK
  /\ TypeOK
  /\ part = "secret" => Secret!TypeOK
  /\ part = "secret edits" => SecretEdits!TypeOK
  /\ part = "pair" => Pair!TypeOK
  /\ part = "foreign" => Foreign!TypeOK
  /\ part = "chain" => Chain!TypeOK

\* All replicas that serve hold one and the same key, the stored one or one that an
\* operator has replaced since: no interleaving of starts, crashes and commands
\* forks the CA (CA.Init, bootstrap, csr --create-key, import).
OneCA ==
  /\ part = "start" => Start!OneCA
  /\ part = "provider" => WithProvider!OneCA
  /\ part = "seed" => Seed!OneCA
  /\ part = "offline" => Offline!OneCA

\* Only an operator's own replacement takes away a key that a parent has been asked
\* to certify, or one beside a certificate (bootstrap, CreateCSR, ImportCA).
KeySurvives ==
  [][/\ part = "start" => Start!KeySurvives
     /\ part = "provider" => WithProvider!KeySurvives
     /\ part = "seed" => Seed!KeySurvives
     /\ part = "offline" => Offline!KeySurvives]_allVars

\* A store with a CRL has the public key of its certificate and a CRL of that key,
\* except after an import that died between the two: a start that fails half-way
\* leaves a state the next one mends (seedCAState, incompleteImportError).
StoreAgrees ==
  /\ part = "start" => Start!StoreAgrees
  /\ part = "provider" => WithProvider!StoreAgrees
  /\ part = "seed" => Seed!StoreAgrees
  /\ part = "offline" => Offline!StoreAgrees

\* A revocation that was published is on the stored list afterwards: no start
\* and, with no server running, no import puts an empty or an older list in its
\* place (seedCAState, planCRLImport).
RevocationsKept ==
  /\ part = "seed" => Seed!RevocationsKept
  /\ part = "offline" => Offline!RevocationsKept

\* A migration that reports success has left what the source held, with an
\* integrity value that verifies under the destination's own scheme, whatever
\* earlier runs or other migrations left half copied there (MigrateService).
CompletedIsFaithful ==
  [][/\ part = "migrate live" => ToLive!CompletedIsFaithful
     /\ part = "migrate twice" => Twice!CompletedIsFaithful]_allVars

\* No integrity value ever vouches for altered rows that came from another store
\* unless an operator allowed it, failed copies, retries and a later start of the
\* server included (verifyMigrationSource).
VouchingWasWaived ==
  /\ part = "migrate live" => ToLive!VouchingWasWaived
  /\ part = "migrate twice" => Twice!VouchingWasWaived

\* A migration without --force never writes into a store that holds another CA's
\* certificate, though a server may bootstrap one while the migration waits or
\* copies (the check under the destination's bootstrap lock).
SparesALiveCA ==
  [][/\ part = "migrate live" => ToLive!SparesALiveCA
     /\ part = "migrate twice" => Twice!SparesALiveCA]_allVars

\* On a structured store success is only reported when the store verifies at that
\* moment, though a server nobody stopped appends between the reads and the writes
\* (the second report of rebuild-inventory-hmac).
SuccessIsCurrent ==
  [][/\ part = "rebuild host" => HostRebuild!SuccessIsCurrent
     /\ part = "rebuild shared" => SharedRebuild!SuccessIsCurrent
     /\ part = "rebuild blob" => BlobRebuild!SuccessIsCurrent]_allVars

\* Success is only reported when the value covers what the operator was shown (the
\* comparison of the two reports).
BlessedAsShown ==
  [][/\ part = "rebuild host" => HostRebuild!BlessedAsShown
     /\ part = "rebuild shared" => SharedRebuild!BlessedAsShown
     /\ part = "rebuild blob" => BlobRebuild!BlessedAsShown]_allVars

\* As long as a legacy blob awaits its decomposition, the value that covers it
\* stays: only a starting server replaces it (the legacy gate of the command).
LegacyBaselineKept ==
  [][/\ part = "rebuild host" => HostRebuild!LegacyBaselineKept
     /\ part = "rebuild shared" => SharedRebuild!LegacyBaselineKept
     /\ part = "rebuild blob" => BlobRebuild!LegacyBaselineKept]_allVars

\* Under an enforced instance lock a run nobody interrupts repairs the store,
\* whatever an earlier run killed between the new key and the new value left
\* behind (EnsureHMACKey before UpdateInventoryHMAC).
RepairLands == [][part = "rebuild host" => HostRebuild!RepairLands]_allVars

\* Between passes every certificate issued for the entry is the one in its store,
\* or revoked, or waiting on the superseded list, unless a crash, a failed
\* revocation or an edit of the store let it go (issueManagedUnderSubjectLock).
OnlyTheStoredLives ==
  /\ part = "secret" => Secret!OnlyTheStoredLives
  /\ part = "secret edits" => SecretEdits!OnlyTheStoredLives
  /\ part = "pair" => Pair!OnlyTheStoredLives
  /\ part = "foreign" => Foreign!OnlyTheStoredLives

\* Between passes cert/<subject>, which status, IsRevoked and the next pass's
\* displacement check read, is the certificate in service or, after an issuance the
\* inventory refused, missing, although a failed store write had replaced it (the
\* restore of issueManagedUnderSubjectLock, the deletion of issueLeafLocked).
RecordFollowsStore ==
  /\ part = "secret" => Secret!RecordFollowsStore
  /\ part = "secret edits" => SecretEdits!RecordFollowsStore
  /\ part = "pair" => Pair!RecordFollowsStore
  /\ part = "foreign" => Foreign!RecordFollowsStore

\* A pass never revokes nor retires a certificate issued for another subject that
\* it found in the entry's store (currentIsThisSubjectsUnderSubjectLock).
SparesNeighbours ==
  /\ part = "secret" => Secret!SparesNeighbours
  /\ part = "secret edits" => SecretEdits!SparesNeighbours
  /\ part = "pair" => Pair!SparesNeighbours
  /\ part = "foreign" => Foreign!SparesNeighbours

\* A write that keeps failing puts one revoked serial on the CRL at once, one more
\* at the next pass, and then at most one per managedSaveBackoffBase
\* (skipForSaveBackoff).
FailuresAreSpaced ==
  /\ part = "secret" => Secret!FailuresAreSpaced
  /\ part = "secret edits" => SecretEdits!FailuresAreSpaced
  /\ part = "pair" => Pair!FailuresAreSpaced
  /\ part = "foreign" => Foreign!FailuresAreSpaced

\* A certificate is issued over a stored key only when the key is that of a
\* certificate of this subject which the replica's CRL did not list
\* (issuanceKeyFor).
PinsOnlyClearedKeys ==
  [][/\ part = "secret" => Secret!PinsOnlyClearedKeys
     /\ part = "secret edits" => SecretEdits!PinsOnlyClearedKeys
     /\ part = "pair" => Pair!PinsOnlyClearedKeys
     /\ part = "foreign" => Foreign!PinsOnlyClearedKeys]_allVars

\* A certificate replaced for its age has served half of its forward life
\* (renewWindowFor).
ServesHalfItsLife ==
  [][/\ part = "secret" => Secret!ServesHalfItsLife
     /\ part = "secret edits" => SecretEdits!ServesHalfItsLife
     /\ part = "pair" => Pair!ServesHalfItsLife
     /\ part = "foreign" => Foreign!ServesHalfItsLife]_allVars

\* The published CRL of an ancestor is never replaced by an older one: not by a
\* file that was rolled back, a host whose file lags behind, or one that gains or
\* loses the CRL number (monotonicUpstream).
UpstreamNeverRegresses == [][part = "chain" => Chain!UpstreamNeverRegresses]_allVars

\* An ancestor's CRL leaves the chain only when a file that was read whole does not
\* list it, or its certificate is not in the bundle (the publication of
\* crlchainfile.go).
DropsOnlyTheOmitted == [][part = "chain" => Chain!DropsOnlyTheOmitted]_allVars

\* A CRL that joins the chain is signed by another certificate of the bundle, and
\* is the newest that the file holds of its signer (verifiedUpstream, dedupeCRLs).
JoinsVerifiedAndNewest == [][part = "chain" => Chain!JoinsVerifiedAndNewest]_allVars

-----------------------------------------------------------------------------
(* What each component promises *)

\* Starts, crashes, provisioning commands and imports on several replicas never
\* fork the CA, lose a key that is certified or about to be, or leave a store the
\* next start cannot mend (CA.Init, seedCAState, CreateCSR).
CAIsNeverForked ==
  /\ [](PartsTyped /\ OneCA /\ StoreAgrees /\ RevocationsKept)
  /\ KeySurvives

\* An integrity value that a migration or rebuild-inventory-hmac leaves behind
\* covers what the operator was shown or waived, in whatever state earlier runs
\* died and whatever a server does meanwhile (MigrateService,
\* runRebuildInventoryHMAC).
IntegrityIsEarned ==
  /\ []VouchingWasWaived /\ CompletedIsFaithful /\ SparesALiveCA
  /\ SuccessIsCurrent /\ BlessedAsShown /\ LegacyBaselineKept /\ RepairLands

\* Every certificate issued to a managed entry is in service, on its way out or
\* accounted for as let go, and reissuing is neither premature, nor over a revoked
\* key, nor faster than the back-off (managedcert.go).
ManagedCertsAccounted ==
  /\ [](OnlyTheStoredLives /\ RecordFollowsStore /\ SparesNeighbours /\ FailuresAreSpaced)
  /\ PinsOnlyClearedKeys /\ ServesHalfItsLife

\* What is published of the ancestors' CRLs only moves forward, and only to what
\* an accepted file says of certificates in the bundle (crlchainfile.go).
ChainNeverRegresses == UpstreamNeverRegresses /\ DropsOnlyTheOmitted /\ JoinsVerifiedAndNewest

=============================================================================
