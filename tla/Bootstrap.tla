------------------------------ MODULE Bootstrap -----------------------------
(***************************************************************************)
(* How a CA comes to be and is replaced: Init on every replica, "csr       *)
(* --create-key", import-ca-cert and import with a private key             *)
(* (internal/ca/init.go, keyprovider.go, caImport.go, cabundle.go), over   *)
(* one store with its bootstrap and instance locks.                        *)
(*                                                                         *)
(* Keys are numbered.  A certificate is [key, gen]; a CRL is [by, num,     *)
(* dead].  0 stands for a missing key and {} for a missing blob, so the    *)
(* certificate and the CRL are sets of at most one element.  Every write   *)
(* is a step; a crash between two steps, or a write that fails, ends the   *)
(* start and frees the lock.                                               *)
(***************************************************************************)
EXTENDS Integers, FiniteSets

CONSTANTS Replicas, Operators,
          Provider,       \* the key is at a KeyProvider, not in the store
          OneInstance,    \* no distributed locks: the instance lock is enforced
          MaxKeys, MaxGens, MaxCrashes, MaxRevocations

VARIABLES key, cert, pub, crl, serial, inventory,    \* the store
          lock,                                      \* the bootstrap lock
          up,                                        \* replicas
          csr,                                       \* csr --create-key
          import,                                    \* import, import-ca-cert
          requested,                                 \* keys a parent has a CSR for
          retired,                                   \* keys an operator replaced
          halfway,        \* an import died between its certificate and its CRL
          keys, gens, revoked, crashes

vars == <<key, cert, pub, crl, serial, inventory, lock, up, csr, import, requested,
          retired, halfway, keys, gens, revoked, crashes>>

blobs == <<key, cert, pub, crl, serial, inventory>>
replaced == <<retired, halfway>>
budget == <<keys, gens, revoked, crashes>>

Free == "free"
Down == [pc |-> "down", key |-> 0, cert |-> {}, crl |-> {}]
NoImport == [pc |-> "idle", own |-> FALSE, key |-> 0, cert |-> {}, crl |-> {}]

Init ==
  /\ key = 0 /\ cert = {} /\ pub = 0 /\ crl = {} /\ serial = FALSE
  /\ inventory = FALSE /\ lock = Free
  /\ up = [r \in Replicas |-> Down]
  /\ csr = [o \in Operators |-> "idle"]
  /\ import = NoImport /\ requested = {} /\ retired = {} /\ halfway = FALSE
  /\ keys = 0 /\ gens = 0 /\ revoked = {} /\ crashes = 0

Goto(r, pc) == up' = [up EXCEPT ![r].pc = pc]
Only(s) == CHOOSE x \in s : TRUE
Matches(k, c) == k # 0 /\ c # {} /\ Only(c).key = k

\* holdInstanceLock: on such a store one server or one command runs at a time.
InstanceFree ==
  OneInstance => /\ \A r \in Replicas : up[r].pc = "down"
                 /\ \A o \in Operators : csr[o] # "create"
                 /\ import.pc = "idle"

\* Writes of one blob each.
SavePub(k) == pub' = k /\ UNCHANGED <<key, cert, crl, serial, inventory>>
SaveCRL(c) == crl' = c /\ UNCHANGED <<key, cert, pub, serial, inventory>>
SaveCert(c) == cert' = c /\ UNCHANGED <<key, pub, crl, serial, inventory>>
SaveKey(k) == key' = k /\ UNCHANGED <<cert, pub, crl, serial, inventory>>

\* A request for the parent to sign goes out for this key.
BuildCSR(k) == requested' = requested \cup {k}

\* The key a local generateKey or KeyProvider.Generate returns: Transit's create
\* does nothing over a key that is there, which is then adopted.
Generated == IF Provider /\ key # 0 THEN key ELSE keys + 1

\* The replica caches its own CRL out of the stored chain.
loadCRLCache(r) == [up[r] EXCEPT !.crl = crl]

newEmptyCRL(k) == {[by |-> k, num |-> 1, dead |-> {}]}

----------------------------------------------------------------------------
(***************************************************************************)
(* Init: load without the lock; otherwise take it, look again and decide.  *)
(***************************************************************************)
Start(r) ==
  /\ up[r].pc = "down" /\ InstanceFree
  /\ up' = [up EXCEPT ![r] = [Down EXCEPT !.pc = "load cert", !.key = key]]
  /\ UNCHANGED <<blobs, lock, csr, import, requested, replaced, budget>>

\* loadCA: the key was read first; it has to match the certificate.
LoadCert(r) ==
  /\ up[r].pc = "load cert"
  /\ up' = [up EXCEPT ![r].cert = cert,
       ![r].pc = IF Matches(up[r].key, cert) THEN "load crl" ELSE "want bootstrap"]
  /\ UNCHANGED <<blobs, lock, csr, import, requested, replaced, budget>>

\* finishLoadExisting without the lock.
LoadCRL(r) ==
  /\ up[r].pc = "load crl"
  /\ up' = [up EXCEPT ![r] =
       [loadCRLCache(r) EXCEPT !.pc = IF crl # {} THEN "up" ELSE "want seed"]]
  /\ UNCHANGED <<blobs, lock, csr, import, requested, replaced, budget>>

Lock(r) ==
  /\ lock = Free /\ lock' = r
  /\ \/ up[r].pc = "want seed" /\ Goto(r, "seed pub")
     \/ up[r].pc = "want bootstrap" /\ Goto(r, "decide")
  /\ UNCHANGED <<blobs, csr, import, requested, replaced, budget>>

\* LockTimeout ends the wait for another replica.  The process's own mutex knows
\* no deadline, so a second acquisition by the holder would never end.
LockTimesOut(r) ==
  /\ up[r].pc \in {"want seed", "want bootstrap"} /\ lock \notin {Free, r}
  /\ up' = [up EXCEPT ![r] = Down]
  /\ UNCHANGED <<blobs, lock, csr, import, requested, replaced, budget>>

\* Mutant: a key without a certificate is bootstrapped over.
Decide_OverOrphanKey(r) ==
  /\ up[r].pc = "decide"
  /\ IF Matches(key, cert)
     THEN /\ up' = [up EXCEPT ![r] = [pc |-> IF crl # {} THEN "up" ELSE "seed pub",
                                      key |-> key, cert |-> cert, crl |-> crl]]
          /\ lock' = IF crl # {} THEN Free ELSE lock
     ELSE IF cert = {} THEN Goto(r, "bootstrap key") /\ UNCHANGED lock
          ELSE up' = [up EXCEPT ![r] = Down] /\ lock' = Free
  /\ UNCHANGED <<blobs, csr, import, requested, replaced, budget>>

\* The slow path's finishLoadExisting: it holds the lock, so it seeds at once.
\* Half a CA is refused either way round; so is a pair that does not match.
Decide(r) ==
  /\ up[r].pc = "decide"
  /\ IF Matches(key, cert)
     THEN /\ up' = [up EXCEPT ![r] = [pc |-> IF crl # {} THEN "up" ELSE "seed pub",
                                      key |-> key, cert |-> cert, crl |-> crl]]
          /\ lock' = IF crl # {} THEN Free ELSE lock
     ELSE IF key = 0 /\ cert = {} THEN Goto(r, "bootstrap key") /\ UNCHANGED lock
          ELSE up' = [up EXCEPT ![r] = Down] /\ lock' = Free
  /\ UNCHANGED <<blobs, csr, import, requested, replaced, budget>>

\* generateKey and SaveCAKey, or KeyProvider.Generate, which refuses a key that
\* turned up at the provider unless it came after its check.  The certificate
\* follows in memory.
BootstrapKey(r) ==
  /\ up[r].pc = "bootstrap key" /\ keys < MaxKeys /\ gens < MaxGens
  /\ \/ /\ Provider /\ key # 0
        /\ up' = [up EXCEPT ![r] = Down] /\ lock' = Free
        /\ UNCHANGED <<blobs, keys, gens>>
     \/ LET k == Generated IN
        /\ keys' = IF k = key THEN keys ELSE keys + 1
        /\ gens' = gens + 1 /\ SaveKey(k)
        /\ up' = [up EXCEPT ![r].key = k, ![r].pc = "bootstrap cert",
                            ![r].cert = {[key |-> k, gen |-> gens + 1]}]
        /\ UNCHANGED lock
  /\ UNCHANGED <<csr, import, requested, replaced, revoked, crashes>>

BootstrapCert(r) ==
  /\ up[r].pc = "bootstrap cert"
  /\ SaveCert(up[r].cert) /\ Goto(r, "bootstrap pub")
  /\ UNCHANGED <<lock, csr, import, requested, replaced, budget>>

BootstrapPub(r) ==
  /\ up[r].pc = "bootstrap pub"
  /\ SavePub(up[r].key) /\ Goto(r, "bootstrap crl")
  /\ UNCHANGED <<lock, csr, import, requested, replaced, budget>>

BootstrapCRL(r) ==
  /\ up[r].pc = "bootstrap crl"
  /\ SaveCRL(newEmptyCRL(up[r].key))
  /\ up' = [up EXCEPT ![r].crl = newEmptyCRL(up[r].key), ![r].pc = "bootstrap touch"]
  /\ UNCHANGED <<lock, csr, import, requested, replaced, budget>>

BootstrapTouch(r) ==
  /\ up[r].pc = "bootstrap touch"
  /\ inventory' = TRUE /\ Goto(r, "up") /\ lock' = Free
  /\ UNCHANGED <<key, cert, pub, crl, serial, csr, import, requested, replaced, budget>>

\* seedSupportingStateLocked.
SeedPub(r) ==
  /\ up[r].pc = "seed pub"
  /\ SavePub(Only(up[r].cert).key) /\ Goto(r, "seed crl")
  /\ UNCHANGED <<lock, csr, import, requested, replaced, budget>>

\* GetCRL again under the lock; loadCRLCache reads what is there at the end.
SeedCRL(r) ==
  /\ up[r].pc = "seed crl"
  /\ IF crl # {}
     THEN /\ up' = [up EXCEPT ![r] = [loadCRLCache(r) EXCEPT !.pc = "up"]]
          /\ lock' = Free
          /\ UNCHANGED blobs
     ELSE /\ SaveCRL(newEmptyCRL(up[r].key)) /\ UNCHANGED lock
          /\ up' = [up EXCEPT ![r].crl = newEmptyCRL(up[r].key), ![r].pc = "seed rest"]
  /\ UNCHANGED <<csr, import, requested, replaced, budget>>

SeedRest(r) ==
  /\ up[r].pc = "seed rest"
  /\ inventory' = TRUE /\ serial' = TRUE /\ Goto(r, "up") /\ lock' = Free
  /\ UNCHANGED <<key, cert, pub, crl, csr, import, requested, replaced, budget>>

\* A crash, a failed write, a shutdown; the lock goes with its holder.
Crash(r) ==
  /\ up[r].pc # "down" /\ crashes < MaxCrashes /\ crashes' = crashes + 1
  /\ up' = [up EXCEPT ![r] = Down]
  /\ lock' = IF lock = r THEN Free ELSE lock
  /\ UNCHANGED <<blobs, csr, import, requested, replaced, keys, gens, revoked>>

\* A running replica revokes under the "crl" lock: it signs the stored list
\* again with one more entry (CertLifecycle has the whole of it), and refuses one
\* that its certificate did not sign.
Revoke(r) ==
  /\ up[r].pc = "up" /\ crl # {} /\ Only(crl).by = up[r].key
  /\ Cardinality(revoked) < MaxRevocations
  /\ LET n == Cardinality(revoked) + 1
         new == {[by |-> up[r].key, num |-> Only(crl).num + 1, dead |-> Only(crl).dead \cup {n}]}
     IN /\ revoked' = revoked \cup {n} /\ SaveCRL(new)
        /\ up' = [up EXCEPT ![r].crl = new]
  /\ UNCHANGED <<lock, csr, import, requested, replaced, keys, gens, crashes>>

----------------------------------------------------------------------------
(***************************************************************************)
(* csr --create-key: LoadOrCreateCAKey and BuildCSR.                       *)
(***************************************************************************)
CSRBegin(o) ==
  /\ csr[o] = "idle" /\ InstanceFree
  /\ IF key # 0
     THEN BuildCSR(key) /\ csr' = [csr EXCEPT ![o] = "done"]
     ELSE csr' = [csr EXCEPT ![o] = "create"] /\ UNCHANGED requested
  /\ UNCHANGED <<blobs, lock, up, import, replaced, budget>>

\* Local: under the bootstrap lock, with another look at the key.  Provider:
\* Generate, as in a bootstrap.
CSRCreate(o) ==
  /\ csr[o] = "create" /\ keys < MaxKeys
  /\ Provider \/ lock = Free
  /\ \/ Provider /\ key # 0 /\ UNCHANGED <<requested, blobs, keys>>
     \/ key # 0 /\ BuildCSR(key) /\ UNCHANGED <<blobs, keys>>
     \/ /\ key = 0 /\ keys' = keys + 1 /\ SaveKey(keys + 1)
        /\ BuildCSR(keys + 1)
  /\ csr' = [csr EXCEPT ![o] = "done"]
  /\ UNCHANGED <<lock, up, import, replaced, gens, revoked, crashes>>

\* The operator removes an orphaned key, as the refusal to start tells them to.
RemoveOrphan ==
  /\ InstanceFree /\ key # 0 /\ cert = {} /\ key \notin requested /\ lock = Free /\ keys < MaxKeys
  /\ SaveKey(0)
  /\ UNCHANGED <<lock, up, csr, import, requested, replaced, budget>>

\* The operator provisions another key out of band, which the parent certifies.
\* Servers go on under the one it replaces.
ReplaceKey ==
  /\ cert # {} /\ keys < MaxKeys
  /\ keys' = keys + 1 /\ SaveKey(keys + 1) /\ BuildCSR(keys + 1)
  /\ retired' = retired \cup {key}
  /\ UNCHANGED <<lock, up, csr, import, halfway, gens, revoked, crashes>>

----------------------------------------------------------------------------
(***************************************************************************)
(* import with a private key (ImportCA), under the instance lock alone,    *)
(* and import-ca-cert (ImportCACertificate), with or without --force,      *)
(* under the bootstrap lock.  Both end in importCAMaterial; the CRL is     *)
(* written under the "crl" lock.                                           *)
(***************************************************************************)
\* A key of the operator's, the stored one or the certificate's, with or without a
\* CRL chain; planCRLImport refuses to go on with a stored CRL of another key.
ImportKeyBegins ==
  /\ OneInstance /\ ~Provider /\ InstanceFree /\ gens < MaxGens
  /\ \E k \in ({key, keys + 1} \cup {c.key : c \in cert}) \ {0} :
       \E chain \in {{}, newEmptyCRL(k)} :
         /\ k <= MaxKeys /\ (chain = {} => \A c \in crl : c.by = k)
         /\ keys' = IF k = keys + 1 THEN k ELSE keys
         /\ import' = [pc |-> "key", own |-> TRUE, key |-> k,
                       cert |-> {[key |-> k, gen |-> gens + 1]}, crl |-> chain]
  /\ gens' = gens + 1
  /\ UNCHANGED <<blobs, lock, up, csr, requested, replaced, revoked, crashes>>

ImportKey ==
  /\ import.pc = "key"
  /\ SaveKey(import.key) /\ retired' = retired \cup ({key} \ {0, import.key})
  /\ import' = [import EXCEPT !.pc = "cert"]
  /\ UNCHANGED <<lock, up, csr, requested, halfway, budget>>

\* import-ca-cert loads the signer, which the parent's certificate has to match.
ImportBegins ==
  /\ import.pc = "idle" /\ InstanceFree /\ key \in requested /\ gens < MaxGens
  /\ import' = [pc |-> "lock", own |-> FALSE, key |-> key,
                cert |-> {[key |-> key, gen |-> gens + 1]}, crl |-> {}]
  /\ gens' = gens + 1
  /\ UNCHANGED <<blobs, lock, up, csr, requested, replaced, keys, revoked, crashes>>

\* ErrCACertExists without --force.
ImportLock ==
  /\ import.pc = "lock" /\ lock = Free
  /\ \/ cert # {} /\ import' = NoImport /\ UNCHANGED lock
     \/ /\ lock' = "import"
        /\ import' = [import EXCEPT !.pc = IF cert # {} THEN "resign" ELSE "cert"]
  /\ UNCHANGED <<blobs, up, csr, requested, replaced, budget>>

ImportTimesOut ==
  /\ import.pc = "lock" /\ lock # Free /\ import' = NoImport
  /\ UNCHANGED <<blobs, lock, up, csr, requested, replaced, budget>>

\* ResignStoredCRL reads the stored list, whoever signed it.
ImportResign ==
  /\ import.pc = "resign"
  /\ import' = [import EXCEPT !.pc = "cert",
       !.crl = {[by |-> import.key, num |-> c.num + 1, dead |-> c.dead] : c \in crl}]
  /\ UNCHANGED <<blobs, lock, up, csr, requested, replaced, budget>>

ImportCert ==
  /\ import.pc = "cert"
  /\ SaveCert(import.cert) /\ import' = [import EXCEPT !.pc = "pub"]
  /\ UNCHANGED <<lock, up, csr, requested, replaced, budget>>

ImportPub ==
  /\ import.pc = "pub"
  /\ SavePub(import.key) /\ import' = [import EXCEPT !.pc = "crl"]
  /\ UNCHANGED <<lock, up, csr, requested, replaced, budget>>

\* planCRLImport again: the newer of the two of ours, by number; what is stored
\* when nothing was supplied; an empty one when there is none at all.
planCRLImport ==
  IF import.crl # {}
  THEN IF crl # {} /\ Only(crl).by = import.key /\ Only(crl).num > Only(import.crl).num
       THEN crl ELSE import.crl
  ELSE IF crl # {} THEN crl ELSE newEmptyCRL(import.key)

\* An import with another key makes another CA, whose revocations are those of the
\* list it brings.
ImportCRL ==
  /\ import.pc = "crl"
  /\ SaveCRL(planCRLImport) /\ import' = [import EXCEPT !.pc = "rest"]
  /\ halfway' = FALSE
  /\ revoked' = IF import.own /\ \E c \in crl : c.by # import.key THEN {} ELSE revoked
  /\ UNCHANGED <<lock, up, csr, requested, retired, keys, gens, crashes>>

ImportEnds == import' = NoImport /\ lock' = IF lock = "import" THEN Free ELSE lock

ImportRest ==
  /\ import.pc = "rest"
  /\ serial' = TRUE /\ inventory' = TRUE /\ ImportEnds
  /\ UNCHANGED <<key, cert, pub, crl, up, csr, requested, replaced, budget>>

\* The command dies; incompleteImportError tells the operator to run it again.
ImportCrash ==
  /\ import.pc # "idle" /\ crashes < MaxCrashes /\ crashes' = crashes + 1
  /\ ImportEnds /\ halfway' = (halfway \/ import.pc \in {"pub", "crl"})
  /\ UNCHANGED <<blobs, up, csr, requested, retired, keys, gens, revoked>>

Starting(r) == \/ Start(r) \/ LoadCert(r) \/ LoadCRL(r) \/ Lock(r)
               \/ LockTimesOut(r) \/ Decide(r)
               \/ BootstrapKey(r) \/ BootstrapCert(r) \/ BootstrapPub(r)
               \/ BootstrapCRL(r) \/ BootstrapTouch(r)
               \/ SeedPub(r) \/ SeedCRL(r) \/ SeedRest(r)

Import == \/ ImportKey \/ ImportBegins \/ ImportLock \/ ImportTimesOut \/ ImportResign
          \/ ImportCert \/ ImportPub \/ ImportCRL \/ ImportRest \/ ImportCrash

Next ==
  \/ \E r \in Replicas : Starting(r) \/ Crash(r) \/ Revoke(r)
  \/ \E o \in Operators : CSRBegin(o) \/ CSRCreate(o)
  \/ Operators # {} /\ (ReplaceKey \/ ImportKeyBegins)
  \/ RemoveOrphan
  \/ Import

Spec == Init /\ [][Next]_vars

----------------------------------------------------------------------------
\* The blobs are those of keys that exist, and the bootstrap lock is held by the
\* one that is in its critical section.
TypeOK ==
  /\ key \in 0..keys /\ pub \in 0..keys /\ Cardinality(cert) <= 1 /\ Cardinality(crl) <= 1
  /\ \A r \in Replicas :
       up[r].pc \notin {"down", "load cert", "load crl", "want bootstrap", "want seed", "up"}
         => lock = r
  /\ import.pc \notin {"idle", "lock"} => import.own \/ lock = "import"
  /\ Cardinality({r \in Replicas : up[r].pc # "down"}) > 1 => ~OneInstance

\* All replicas that serve hold a key of their certificate, and it is the stored
\* one unless an operator has replaced that since: no interleaving of starts,
\* crashes and commands forks the CA.
OneCA ==
  \A r \in Replicas : up[r].pc = "up" =>
    /\ Matches(up[r].key, up[r].cert)
    /\ up[r].key = key \/ up[r].key \in retired

\* Only an operator's own replacement takes away a key that a parent has been
\* asked to certify, or one beside a certificate.
KeySurvives ==
  (key # 0 /\ (key \in requested \/ cert # {})) => key' = key \/ key \in retired'

\* A store with a CRL has the public key of its certificate, and the CRL is of that
\* key: a start that fails half-way is mended by the next.  Two exceptions: an
\* import that died between its certificate and its CRL, as incompleteImportError
\* says, and the old public key, which a start that loaded the old pair still seeds
\* after the operator has replaced it.
StoreAgrees ==
  crl # {} /\ ~halfway /\ import.pc \notin {"pub", "crl"} =>
    /\ Only(crl).by = Only(cert).key
    /\ pub = Only(cert).key \/ pub \in retired

\* A revocation that was published is on the stored list afterwards: no start
\* and no import puts an empty or an older list in its place.
RevocationsKept ==
  crl # {} => revoked \subseteq Only(crl).dead
=============================================================================
