------------------------------- MODULE Reload -------------------------------
(***************************************************************************)
(* The reload of a running server and what the service manager is told of  *)
(* it: the SIGHUP watcher re-reads the TLS keypair and the admin allow      *)
(* list while their files are being rewritten, a heartbeat publishes the    *)
(* status text, and a shutdown may come in between (cmd/openvox-ca/         *)
(* reload.go, notify.go, internal/sdnotify).                                *)
(*                                                                          *)
(* A file's content is the number of the edit that wrote it.  A certificate *)
(* and a key of the same edit correspond.  An allow list may be unreadable  *)
(* (Bad).                                                                   *)
(***************************************************************************)
EXTENDS Integers

CONSTANTS MaxEdits, MaxSignals

VARIABLES cert, key, list,        \* the files
          pair, admins,           \* what the server uses
          failed,                 \* the last reload failed
          hup,                    \* hupCh, of capacity one
          watcher, errs, readCert,
          beat,                   \* the status text a heartbeat is about to send
          state, text,            \* as the service manager knows them
          stopped,
          asked,                  \* a SIGHUP has come after the last edit
          edits, signals

vars == <<cert, key, list, pair, admins, failed, hup, watcher, errs, readCert,
          beat, state, text, stopped, asked, edits, signals>>

files == <<cert, key, list, edits>>
manager == <<state, text>>

Bad == -1
None == "none"

\* newCertReloader and buildAuthConfig have loaded both inputs, and READY=1
\* has been sent.
Init ==
  /\ cert = 0 /\ key = 0 /\ list = 0
  /\ pair = [cert |-> 0, key |-> 0] /\ admins = 0
  /\ failed = FALSE /\ hup = FALSE
  /\ watcher = "wait" /\ errs = FALSE /\ readCert = 0
  /\ beat = None
  /\ state = "ready" /\ text = "serving"
  /\ stopped = FALSE /\ asked = FALSE
  /\ edits = 0 /\ signals = 0

----------------------------------------------------------------------------
(***************************************************************************)
(* The operator.  A rotation replaces the certificate and the key one      *)
(* after the other.                                                        *)
(***************************************************************************)
Edit ==
  /\ edits < MaxEdits /\ edits' = edits + 1
  /\ asked' = FALSE
  /\ UNCHANGED <<pair, admins, failed, hup, watcher, errs, readCert, beat,
                 manager, stopped, signals>>

RotateCert == Edit /\ cert' = cert + 1 /\ UNCHANGED <<key, list>>

RotateKey == Edit /\ key' = key + 1 /\ UNCHANGED <<cert, list>>

EditList ==
  /\ Edit /\ \E l \in {edits + 1, Bad} : list' = l
  /\ UNCHANGED <<cert, key>>

\* A signal that finds the buffer full is dropped: one is pending already.
Hangup ==
  /\ signals < MaxSignals /\ signals' = signals + 1
  /\ hup' = TRUE /\ asked' = TRUE
  /\ UNCHANGED <<files, pair, admins, failed, watcher, errs, readCert, beat,
                 manager, stopped>>

----------------------------------------------------------------------------
(***************************************************************************)
(* runReloadWatcher, configReloader.reload and certReloader.reload.        *)
(***************************************************************************)
StatusText == IF failed THEN "failed" ELSE "serving"

Tell(s, t) == state' = s /\ text' = t

Reloading ==
  /\ watcher = "wait" /\ hup /\ ~stopped
  /\ hup' = FALSE /\ watcher' = "cert" /\ errs' = FALSE
  /\ Tell("reloading", "reloading")
  /\ UNCHANGED <<files, pair, admins, failed, readCert, beat, stopped, asked,
                 signals>>

ReadCert ==
  /\ watcher = "cert" /\ watcher' = "key"
  /\ readCert' = cert
  /\ UNCHANGED <<files, pair, admins, failed, hup, errs, beat, manager,
                 stopped, asked, signals>>

\* tls.LoadX509KeyPair refuses a certificate and a key that do not match.
InstallPair ==
  IF readCert = key THEN pair' = [cert |-> readCert, key |-> key] /\ UNCHANGED errs
                    ELSE errs' = TRUE /\ UNCHANGED pair

ReadKey ==
  /\ watcher = "key" /\ watcher' = "list"
  /\ InstallPair
  /\ UNCHANGED <<files, admins, failed, hup, readCert, beat, manager, stopped,
                 asked, signals>>

\* buildAdminAllowList and SetOwnAdminCNs; then the outcome of both.
ReadList ==
  /\ watcher = "list" /\ watcher' = "ready"
  /\ admins' = IF list = Bad THEN admins ELSE list
  /\ failed' = (errs \/ list = Bad)
  /\ UNCHANGED <<files, pair, hup, errs, readCert, beat, manager, stopped,
                 asked, signals>>

\* READY=1 closes the reload, successful or not.
Ready ==
  /\ watcher = "ready" /\ watcher' = "wait"
  /\ Tell("ready", StatusText)
  /\ UNCHANGED <<files, pair, admins, failed, hup, errs, readCert, beat,
                 stopped, asked, signals>>

----------------------------------------------------------------------------
(***************************************************************************)
(* runNotifyHeartbeat composes the text and then sends it; Stop is the     *)
(* shutdown goroutine's STOPPING=1.                                        *)
(***************************************************************************)
Compose ==
  /\ beat = None /\ ~stopped /\ beat' = StatusText
  /\ UNCHANGED <<files, pair, admins, failed, hup, watcher, errs, readCert,
                 manager, stopped, asked, signals>>

Send ==
  /\ beat # None /\ beat' = None
  /\ Tell(state, beat)
  /\ UNCHANGED <<files, pair, admins, failed, hup, watcher, errs, readCert,
                 stopped, asked, signals>>

Stop ==
  /\ ~stopped /\ stopped' = TRUE
  /\ Tell("stopping", "stopping")
  /\ UNCHANGED <<files, pair, admins, failed, hup, watcher, errs, readCert,
                 beat, asked, signals>>

Watcher == Reloading \/ ReadCert \/ ReadKey \/ ReadList \/ Ready

Next ==
  \/ RotateCert \/ RotateKey \/ EditList \/ Hangup
  \/ Watcher \/ Compose \/ Send \/ Stop

Spec == Init /\ [][Next]_vars

----------------------------------------------------------------------------
(***************************************************************************)
(* Properties.                                                             *)
(***************************************************************************)

\* What each goroutine holds belongs to the point it has reached: outside a
\* reload no key has been read ahead of its certificate.
TypeOK ==
  /\ cert \in 0..MaxEdits /\ key \in 0..MaxEdits
  /\ list \in 0..MaxEdits \cup {Bad} /\ admins \in 0..MaxEdits
  /\ watcher \in {"wait", "cert", "key", "list", "ready"}
  /\ beat \in {None, "serving", "failed"}
  /\ state \in {"ready", "reloading", "stopping"}
  /\ state = "reloading" => watcher # "wait" \/ stopped

\* New handshakes always get a certificate with its own key, though the two
\* files are replaced one at a time under the reload (certReloader.reload).
PresentsAPair == pair.cert = pair.key

\* Every readable input is in effect, and whether one was not is recorded.
InEffect ==
  /\ cert = key => pair.cert = cert
  /\ list # Bad => admins = list
  /\ failed = (cert # key \/ list = Bad)
============================================================================
