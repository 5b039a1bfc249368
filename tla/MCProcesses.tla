--------------------------- MODULE MCProcesses ---------------------------
(***************************************************************************)
(* The processes that serve a CA, for TLC: the launcher and its children,  *)
(* their memory, the reload, the serving certificate, the signer's socket, *)
(* the OpenBao token and the admission of clients.  The first state chooses *)
(* the part and the instance to check it on; the variables of the others   *)
(* stay as they are.                                                       *)
(***************************************************************************)
EXTENDS MemoryBudget, Service

VARIABLES
  part,
  admins, watcher, revoked, now, op, losses,   \* of several
  sighup, sighups, cert, key, list, pair, failed, errs, readCert, beat,
  state, text, stopped, asked, edits,   \* Reload
  subjectLock, store, issued, retired, run, holder, passed, blind,
  restarts, lost, fails,   \* ServingCert
  pipe, psk, st, toSigner, toFrontend, call, mine, seq, refusable, pending,
  wire, work, replies, box, resp, got,   \* SignerRPC
  watchers, live, last, fileToken, keyVersion, granted, token, ended, recent, mu,
  closed, cancelled, loop, close, signs,   \* TokenManager
  published, file, readable, installed, ownDead, changes   \* Admission

reloadVars == <<sighup, sighups, cert, key, list, pair, failed, errs,
                readCert, beat, state, text, stopped, asked, edits>>
servingVars == <<subjectLock, store, issued, retired, run, holder, passed,
                 blind, restarts, lost, fails>>
signerRPCVars == <<pipe, psk, st, toSigner, toFrontend, call, mine, seq,
                   refusable, pending, wire, work, replies, box, resp, got>>
tokenVars == <<watchers, live, last, fileToken, keyVersion, granted, token,
               ended, recent, mu, closed, cancelled, loop, close, signs>>
admissionVars == <<published, file, readable, installed, ownDead, changes>>
sharedVars == <<admins, watcher, revoked, now, op, losses>>

allVars == <<part, sharedVars, budgetVars, vars, reloadVars,
             servingVars, signerRPCVars, tokenVars, admissionVars>>

\* The instances that are started: two launchers, two single processes, or one of
\* each.
Started ==
  [trees |-> {"t1", "t2"}, singles |-> {"s1", "s2"}, mixed |-> {"t1", "s1"}]

Confined ==
  /\ {i \in Instances : main[i] # "off"} \subseteq Started[part]
  /\ faults <= IF part = "singles" THEN 2 ELSE 1

Files == INSTANCE Reload WITH MaxEdits <- 3, MaxSignals <- 2,
  hup <- sighup, signals <- sighups

Serving == INSTANCE ServingCert WITH Replicas <- {"r1", "r2"}, Overlap <- 2,
  BackoffCap <- 96, MaxIssued <- 3, MaxFaults <- 2, MaxRestarts <- 2,
  lock <- subjectLock, faults <- losses

Signer == INSTANCE SignerRPC WITH Callers <- {"c1", "c2"}, Limit <- 2, MaxCalls <- 3

Login == INSTANCE TokenManager WITH Requests <- {"q1", "q2"}, OwnsToken <- TRUE,
  Revocable <- TRUE, MaxWatchers <- 3, MaxTokens <- 3, MaxSigns <- 2, MaxFaults <- 2,
  made <- watchers, faults <- losses

TokenFile == INSTANCE TokenManager WITH Requests <- {"q1", "q2"}, OwnsToken <- FALSE,
  Revocable <- TRUE, MaxWatchers <- 3, MaxTokens <- 3, MaxSigns <- 1, MaxFaults <- 1,
  made <- watchers, faults <- losses

Link(i, s)  == [by |-> i, serial |-> s]
Agent(i, s) == [issuer |-> i, cn |-> "agent", links |-> {Link(i, s)}, ppCli |-> i = "x"]
Admin(i)    == [issuer |-> i, cn |-> "admin", links |-> {Link(i, 2)}, ppCli |-> FALSE]
Ops(links)  == [issuer |-> "x", cn |-> "ops", links |-> links, ppCli |-> FALSE]

\* Certificates of this CA, of the anchor "x", of a CA below it, of the anchor
\* itself and of an unknown issuer.
AllClients == {Agent("own", 1), Agent("x", 1), Admin("own"), Admin("x"), Admin("z"),
               Ops({Link("x", 2)}), Ops({Link("sub", 1), Link("x", 1)}), Ops({})}
AllRoutes  == {"healthz", "request", "renewal", "sign", "status"}

\* Two anchors that also publish partial CRLs.
TwoAnchors == INSTANCE Admission WITH Anchors <- {"x", "y"}, Numbered <- {"x"},
  Ahead <- 0, Skew <- 1, Life <- 2, Deltas <- TRUE, Policy <- "require",
  Requests <- {}, Clients <- {}, Routes <- {}, AllowPublicStatus <- FALSE,
  ForeignAdmins <- {}, ForeignPpCliAuth <- FALSE,
  MaxNow <- 2, MaxCRLs <- 4, MaxFile <- 2, MaxChanges <- 2

\* An issuer whose clock may be ahead, with numbered CRLs and without.
Early == INSTANCE Admission WITH Anchors <- {"x"}, Numbered <- {"x"},
  Ahead <- 2, Skew <- 1, Life <- 2, Deltas <- FALSE, Policy <- "require",
  Requests <- {}, Clients <- {}, Routes <- {}, AllowPublicStatus <- FALSE,
  ForeignAdmins <- {}, ForeignPpCliAuth <- FALSE,
  MaxNow <- 3, MaxCRLs <- 3, MaxFile <- 2, MaxChanges <- 2

Unnumbered == INSTANCE Admission WITH Anchors <- {"y"}, Numbered <- {},
  Ahead <- 2, Skew <- 1, Life <- 2, Deltas <- FALSE, Policy <- "require",
  Requests <- {}, Clients <- {}, Routes <- {}, AllowPublicStatus <- FALSE,
  ForeignAdmins <- {}, ForeignPpCliAuth <- FALSE,
  MaxNow <- 3, MaxCRLs <- 3, MaxFile <- 2, MaxChanges <- 3

\* Requests beside revocations and reloads.
Asked == INSTANCE Admission WITH Anchors <- {"x"}, Numbered <- {"x"},
  Ahead <- 0, Skew <- 1, Life <- 2, Deltas <- FALSE, Policy <- "require",
  Requests <- {"q1"}, Clients <- AllClients, Routes <- AllRoutes,
  AllowPublicStatus <- FALSE, ForeignAdmins <- {"ops"}, ForeignPpCliAuth <- FALSE,
  MaxNow <- 1, MaxCRLs <- 2, MaxFile <- 2, MaxChanges <- 2

\* The same where a missing CRL is let pass.
Lenient == INSTANCE Admission WITH Anchors <- {"x"}, Numbered <- {"x"},
  Ahead <- 0, Skew <- 1, Life <- 2, Deltas <- FALSE, Policy <- "check",
  Requests <- {"q1"}, Clients <- AllClients, Routes <- AllRoutes,
  AllowPublicStatus <- TRUE, ForeignAdmins <- {"ops"}, ForeignPpCliAuth <- TRUE,
  MaxNow <- 1, MaxCRLs <- 2, MaxFile <- 2, MaxChanges <- 2

NoMemory ==
  /\ env = Unset /\ cgroup = [own |-> 0, root |-> 0] /\ launcherText = Unset
  /\ signerText = Unset /\ percent = 0 /\ phase = "start" /\ share = NoShare
  /\ limit = [r \in Roles |-> NotStarted]
NoReload ==
  /\ sighup = 0 /\ sighups = 0 /\ cert = 0 /\ key = 0 /\ list = 0 /\ pair = 0 /\ failed = 0 /\ errs = 0
  /\ readCert = 0 /\ beat = 0 /\ state = 0 /\ text = 0 /\ stopped = 0
  /\ asked = 0 /\ edits = 0
NoServing ==
  /\ subjectLock = 0 /\ store = 0 /\ issued = 0 /\ retired = 0 /\ run = 0 /\ holder = 0
  /\ passed = 0 /\ blind = 0 /\ restarts = 0 /\ lost = 0 /\ fails = 0
NoSignerRPC ==
  /\ pipe = 0 /\ psk = 0 /\ st = 0 /\ toSigner = 0 /\ toFrontend = 0
  /\ call = 0 /\ mine = 0 /\ seq = 0 /\ refusable = 0 /\ pending = 0
  /\ wire = 0 /\ work = 0 /\ replies = 0 /\ box = 0 /\ resp = 0 /\ got = 0
NoToken ==
  /\ watchers = 0 /\ live = 0 /\ last = 0 /\ fileToken = 0
  /\ keyVersion = 0 /\ granted = 0 /\ token = 0 /\ ended = 0 /\ recent = 0 /\ mu = 0
  /\ closed = 0 /\ cancelled = 0
  /\ loop = 0 /\ close = 0 /\ signs = 0
NoAdmission ==
  /\ published = 0 /\ file = 0 /\ readable = 0 /\ installed = 0 /\ ownDead = 0
  /\ changes = 0

AnyInit ==
  \/ part = "memory" /\ BudgetInit /\ Init /\ NoReload /\ NoServing
       /\ NoSignerRPC /\ NoToken /\ NoAdmission /\ admins = 0 /\ watcher = 0
       /\ revoked = 0 /\ now = 0 /\ op = 0 /\ losses = 0
  \/ part \in DOMAIN Started /\ Init /\ NoMemory /\ NoReload /\ NoServing
       /\ NoSignerRPC /\ NoToken /\ NoAdmission /\ admins = 0 /\ watcher = 0
       /\ revoked = 0 /\ now = 0 /\ op = 0 /\ losses = 0
  \/ part = "reload" /\ Files!Init /\ NoMemory /\ Init /\ NoServing
       /\ NoSignerRPC /\ NoToken /\ NoAdmission /\ revoked = 0 /\ now = 0
       /\ op = 0 /\ losses = 0
  \/ part = "serving" /\ Serving!Init /\ NoMemory /\ Init /\ NoReload
       /\ NoSignerRPC /\ NoToken /\ NoAdmission /\ admins = 0 /\ watcher = 0
  \/ part = "signer" /\ Signer!Init /\ NoMemory /\ Init /\ NoReload
       /\ NoServing /\ NoToken /\ NoAdmission /\ admins = 0 /\ watcher = 0
       /\ revoked = 0 /\ now = 0 /\ op = 0 /\ losses = 0
  \/ part = "login" /\ Login!Init /\ NoMemory /\ Init /\ NoReload /\ NoServing
       /\ NoSignerRPC /\ NoAdmission /\ admins = 0 /\ revoked = 0 /\ now = 0
  \/ part = "token file" /\ TokenFile!Init /\ NoMemory /\ Init /\ NoReload
       /\ NoServing /\ NoSignerRPC /\ NoAdmission /\ admins = 0 /\ revoked = 0
       /\ now = 0
  \/ part = "two anchors" /\ TwoAnchors!Init /\ NoMemory /\ Init /\ NoReload
       /\ NoServing /\ NoSignerRPC /\ NoToken /\ watcher = 0 /\ losses = 0
  \/ part = "early" /\ Early!Init /\ NoMemory /\ Init /\ NoReload /\ NoServing
       /\ NoSignerRPC /\ NoToken /\ watcher = 0 /\ losses = 0
  \/ part = "unnumbered" /\ Unnumbered!Init /\ NoMemory /\ Init /\ NoReload
       /\ NoServing /\ NoSignerRPC /\ NoToken /\ watcher = 0 /\ losses = 0
  \/ part = "requests" /\ Asked!Init /\ NoMemory /\ Init /\ NoReload
       /\ NoServing /\ NoSignerRPC /\ NoToken /\ watcher = 0 /\ losses = 0
  \/ part = "lenient" /\ Lenient!Init /\ NoMemory /\ Init /\ NoReload
       /\ NoServing /\ NoSignerRPC /\ NoToken /\ watcher = 0 /\ losses = 0

AnyNext ==
  \/ part = "memory" /\ BudgetNext
       /\ UNCHANGED <<part, vars, reloadVars, servingVars, signerRPCVars,
                      tokenVars, admissionVars, admins, watcher, revoked, now,
                      op, losses>>
  \/ part \in DOMAIN Started /\ Next
       /\ UNCHANGED <<part, budgetVars, reloadVars, servingVars,
                      signerRPCVars, tokenVars, admissionVars, admins,
                      watcher, revoked, now, op, losses>>
       /\ Confined'
  \/ part = "reload" /\ Files!Next
       /\ UNCHANGED <<part, budgetVars, vars, servingVars, signerRPCVars,
                      tokenVars, admissionVars, revoked, now, op, losses>>
  \/ part = "serving" /\ Serving!Next
       /\ UNCHANGED <<part, budgetVars, vars, reloadVars, signerRPCVars,
                      tokenVars, admissionVars, admins, watcher>>
  \/ part = "signer" /\ Signer!Next
       /\ UNCHANGED <<part, budgetVars, vars, reloadVars, servingVars,
                      tokenVars, admissionVars, admins, watcher, revoked, now,
                      op, losses>>
  \/ part = "login" /\ Login!Next
       /\ UNCHANGED <<part, budgetVars, vars, reloadVars, servingVars,
                      signerRPCVars, admissionVars, admins, revoked, now>>
  \/ part = "token file" /\ TokenFile!Next
       /\ UNCHANGED <<part, budgetVars, vars, reloadVars, servingVars,
                      signerRPCVars, admissionVars, admins, revoked, now>>
  \/ part = "two anchors" /\ TwoAnchors!Next
       /\ UNCHANGED <<part, budgetVars, vars, reloadVars, servingVars,
                      signerRPCVars, tokenVars, watcher, losses>>
  \/ part = "early" /\ Early!Next
       /\ UNCHANGED <<part, budgetVars, vars, reloadVars, servingVars,
                      signerRPCVars, tokenVars, watcher, losses>>
  \/ part = "unnumbered" /\ Unnumbered!Next
       /\ UNCHANGED <<part, budgetVars, vars, reloadVars, servingVars,
                      signerRPCVars, tokenVars, watcher, losses>>
  \/ part = "requests" /\ Asked!Next
       /\ UNCHANGED <<part, budgetVars, vars, reloadVars, servingVars,
                      signerRPCVars, tokenVars, watcher, losses>>
  \/ part = "lenient" /\ Lenient!Next
       /\ UNCHANGED <<part, budgetVars, vars, reloadVars, servingVars,
                      signerRPCVars, tokenVars, watcher, losses>>

AnySpec == AnyInit /\ [][AnyNext]_allVars

-----------------------------------------------------------------------------
(* Properties *)

\* Each part keeps the shape of its state.
PartsTyped ==
  /\ TypeOK
  /\ part = "reload" => Files!TypeOK
  /\ part = "serving" => Serving!TypeOK
  /\ part = "signer" => Signer!TypeOK
  /\ part = "login" => Login!TypeOK
  /\ part = "token file" => TokenFile!TypeOK
  /\ part = "two anchors" => TwoAnchors!TypeOK
  /\ part = "early" => Early!TypeOK
  /\ part = "unnumbered" => Unnumbered!TypeOK
  /\ part = "requests" => Asked!TypeOK
  /\ part = "lenient" => Lenient!TypeOK

\* New handshakes always get a certificate with its own key, though the two files
\* are replaced one at a time under the reload (certReloader.reload).
PresentsAPair == part = "reload" => Files!PresentsAPair

\* A listener that has bound has a certificate to present, through unusable
\* material in the store, failed passes and failed writes
\* (servingCertHolder.GetCertificate).
ListenerHasACertificate == part = "serving" => Serving!ListenerHasACertificate

\* A replica whose reads succeed never presents a revoked certificate: a peer's
\* renewal reaches its listener with its own next pass, before the sweep revokes
\* the predecessor (newServingCert's Load).  The exception: a certificate whose
\* save was taken for a failure and rolled back, although the write had landed
\* (issueManagedUnderSubjectLock's revocation of what it could not save).
NeverPresentsRevoked == part = "serving" => Serving!NeverPresentsRevoked

\* A start dies only for want of usable material: a pass that failed over a
\* certificate that can be served is not fatal (provisionServingCert).
StartsOnWhatIsStored == [][part = "serving" => Serving!StartsOnWhatIsStored]_allVars

\* Neither end goes on from the handshake unless both hold the same key: with a
\* foreign pipe on either side the process tree does not serve (serverHandshake,
\* clientHandshake).
ServesUnderOneKey == part = "signer" => Signer!ServesUnderOneKey

\* A Sign that reports success hands back the signature of its own digest,
\* however late the answers to abandoned calls arrive (RemoteSigner.Sign).
SignatureIsOurs == part = "signer" => Signer!SignatureIsOurs

\* The renewal loop never waits for the end of a watcher that a request's re-login
\* has replaced: the token in use is the one that is renewed
\* (tokenManager.reauthenticate, renewLoop).
RenewsTheTokenInUse ==
  /\ part = "login" => Login!RenewsTheTokenInUse
  /\ part = "token file" => TokenFile!RenewsTheTokenInUse

\* A re-login on account of a 403 throws away the token that was refused and no
\* other, and one that is alive only when the policy refused it (Reauth).
WorkingTokenKept == [][part = "login" => Login!WorkingTokenKept]_allVars

\* A closed manager logs in no more, and the token it held last, that of a login
\* under way at the Close included, is revoked unless that call failed (Close).
ClosedForGood == part = "login" => Login!ClosedForGood

\* A shutdown revokes nothing that the operator supplied (Close).
OperatorsTokenSpared == [][part = "token file" => TokenFile!OperatorsTokenSpared]_allVars

\* What a request returns was signed by the key the CA certificate pins, even when
\* the Transit key is rotated under a running server (verifyTransitSignature).
SignedByThePinnedKey ==
  /\ part = "login" => Login!SignedByThePinnedKey
  /\ part = "token file" => TokenFile!SignedByThePinnedKey

\* A reload never re-admits a client that an installed full CRL names, whatever
\* old copies the file is given and however the issuer's clock differs, unless
\* that CRL has no number and is dated ahead beside one that is not
\* (regressedFrom).
NoReadmission ==
  [][/\ part = "two anchors" => TwoAnchors!NoReadmission
     /\ part = "early" => Early!NoReadmission
     /\ part = "unnumbered" => Unnumbered!NoReadmission
     /\ part = "requests" => Asked!NoReadmission
     /\ part = "lenient" => Lenient!NoReadmission]_allVars

\* A serial that a partial CRL names is let go only by a file with as many partial
\* CRLs of that anchor, or with a full CRL dated later, and numbered no lower, than
\* each one believed before; neither need name the serial (PartialsDropped).
PartialsGoWithTheirBase ==
  [][part = "two anchors" => TwoAnchors!PartialsGoWithTheirBase]_allVars

\* A client that was known to be revoked when its request arrived is served on no
\* route that asks for a certificate, although the lists are replaced while the
\* request is under way (the middleware chain of server.go).
BarredIsNotServed ==
  /\ part = "requests" => Asked!BarredIsNotServed
  /\ part = "lenient" => Lenient!BarredIsNotServed

\* A request is served beyond the public routes only under a grant of the client's
\* own domain, in force at some moment since it arrived (isAdmin, MayUse).
ServedUnderItsOwnGrant ==
  /\ part = "requests" => Asked!ServedUnderItsOwnGrant
  /\ part = "lenient" => Lenient!ServedUnderItsOwnGrant

-----------------------------------------------------------------------------
(* What each component promises *)

\* A listener presents a matching pair that is not revoked, and a start is not
\* given up over a certificate that would do (certReloader, servingCertHolder).
ListenerPresentsValid ==
  /\ [](/\ PartsTyped
        /\ PresentsAPair /\ ListenerHasACertificate /\ NeverPresentsRevoked)
  /\ StartsOnWhatIsStored

\* What a remote signer hands back is the signature of that digest by the pinned
\* key, over a connection both ends proved, with a token that is renewed while it
\* is in use, given up when it is refused and revoked at the end (signer.go,
\* openbao/lease.go).
SignersAnswerTruly ==
  /\ [](/\ ServesUnderOneKey /\ SignatureIsOurs /\ SignedByThePinnedKey
        /\ RenewsTheTokenInUse /\ ClosedForGood)
  /\ WorkingTokenKept /\ OperatorsTokenSpared

\* No reload of the lists and no request in flight lets a client back in that was
\* revoked, nor lets one in under another domain's grant (clientca.go, auth.go).
AdmissionHoldsFirm ==
  /\ [](BarredIsNotServed /\ ServedUnderItsOwnGrant)
  /\ NoReadmission /\ PartialsGoWithTheirBase
=============================================================================
