-------------------------- MODULE ResponderProofs --------------------------
(***************************************************************************)
(* Proofs about Responder for any number of serials, hashes, requests,     *)
(* passes, polls and slots: its types and the account of its signing       *)
(* slots, the response cache, the cached CRL and the serial index.         *)
(*                                                                         *)
(* Then the serving certificate: what the listener presents is valid.  A   *)
(* name that the two components share is declared once.                    *)
(***************************************************************************)
EXTENDS Responder, FiniteSetTheorems, TLAPS

\* Zenon proves what names no other prover.
USE ZenonT(60)

-----------------------------------------------------------------------------
(* Slots: taking one and giving one back *)

Signing == {c \in Clients : client[c].at = "sign"}

\* A request that starts to sign adds one to the signatures in flight.
LEMMA SigningGrows ==
  ASSUME NEW c \in Clients, client \in [Clients -> Requests \cup {NoRequest}],
         client[c].at # "sign",
         NEW r, r.at = "sign", client' = [client EXCEPT ![c] = r]
  PROVE  Cardinality(Signing') = Cardinality(Signing) + 1
<1>1. IsFiniteSet(Signing)
  BY ResponderAssumption, FS_Subset DEF Signing
<1>2. Signing' = Signing \cup {c} /\ c \notin Signing
  BY DEF Signing
<1> QED
  BY <1>1, <1>2, FS_AddElement

\* A request that stops signing takes one off them.
LEMMA SigningShrinks ==
  ASSUME NEW c \in Clients, client \in [Clients -> Requests \cup {NoRequest}],
         client[c].at = "sign",
         NEW r, r.at # "sign", client' = [client EXCEPT ![c] = r]
  PROVE  /\ Cardinality(Signing') = Cardinality(Signing) - 1
         /\ Cardinality(Signing) \in Nat \ {0}
<1>1. IsFiniteSet(Signing) /\ c \in Signing
  BY ResponderAssumption, FS_Subset DEF Signing
<1>2. Signing' = Signing \ {c}
  BY DEF Signing
<1>3. Cardinality(Signing \ {c}) = Cardinality(Signing) - 1
  BY <1>1, FS_RemoveElement
<1>4. Cardinality(Signing) \in Nat /\ Cardinality(Signing) # 0
  BY <1>1, FS_CardinalityType, FS_EmptySet
<1> QED
  BY <1>2, <1>3, <1>4

\* Anything else leaves them alone.
LEMMA SigningSame ==
  ASSUME NEW c \in Clients, client \in [Clients -> Requests \cup {NoRequest}],
         client[c].at # "sign",
         NEW r, r.at # "sign", client' = [client EXCEPT ![c] = r]
  PROVE  Signing' = Signing
BY DEF Signing

-----------------------------------------------------------------------------
(* Type correctness, which needs the slots to be accounted for *)

\* The number of requests that sign is a number.
LEMMA SigningCount == Cardinality(Signing) \in Nat
BY ResponderAssumption, FS_Subset, FS_CardinalityType DEF Signing

\* The operations of the CA keep the types.
LEMMA OpTypes ==
  ASSUME TypeOK, SlotsAccounted, StartOp \/ OpStep \/ Reload
  PROVE  TypeOK'
<1> USE ResponderAssumption DEF storage, index, workers, Ops, CRLs, NoOp, EmptyCRL, CRLKinds, Kinds
<1>1. ASSUME NEW n \in Certs, StartIssue(n) PROVE TypeOK'
  BY SMTT(30), <1>1 DEF TypeOK, StartIssue, Start
<1>2. ASSUME NEW n \in Certs, StartImport(n) PROVE TypeOK'
  BY SMTT(30), <1>2 DEF TypeOK, StartImport, Start
<1>3. ASSUME NEW S \in SUBSET Certs, StartRevoke(S) PROVE TypeOK'
  BY <1>3 DEF TypeOK, StartRevoke, StartCRL, Start
<1>4. CASE StartRefresh
  BY <1>4 DEF TypeOK, StartRefresh, StartCRL, Start
<1>5. CASE StartCleanup
  BY <1>5 DEF TypeOK, StartCleanup, StartCRL, Start
<1>6. CASE OpSlot
  BY SMTT(30), <1>6 DEF TypeOK, OpSlot
<1>7. CASE OpGivesUp
  BY <1>7 DEF TypeOK, OpGivesUp
<1>8. CASE OpSign
  <2>1. slots \in 1 .. Slots
    BY SMTT(30), <1>8, SigningCount DEF TypeOK, SlotsAccounted, OpSign, Signing
  <2> QED
    BY SMTT(30), <1>8, <2>1 DEF TypeOK, OpSign, Fault
<1>9. CASE OpAppend
  BY SMTT(30), <1>9 DEF TypeOK, OpAppend, AddRows
<1>10. CASE OpAppendFails
  BY SMTT(30), <1>10 DEF TypeOK, OpAppendFails, AddRows, Fault
<1>11. CASE OpPrune
  <2>1. PICK S \in SUBSET inventory :
          /\ PruneRows(S) /\ Drop(S)
          /\ serialIndex' = serialIndex \ S
          /\ epoch' = epoch + Cardinality(S)
          /\ op' = [op EXCEPT !.serials = S, !.point = "read"]
    BY <1>11 DEF OpPrune
  <2>2. S \in SUBSET Certs /\ Cardinality(S) \in Nat
    BY FS_Subset, FS_CardinalityType DEF TypeOK
  <2>3. op' \in Ops
    <3>1. op \in Ops
      BY SMTT(30), <1>11 DEF OpPrune, TypeOK
    <3>2. [op EXCEPT !.serials = S] \in Ops
      BY <2>2, <3>1
    <3>3. [[op EXCEPT !.serials = S] EXCEPT !.point = "read"] \in Ops
      BY <3>2
    <3> QED
      BY <2>1, <3>1, <3>3
  <2> QED
    BY SMTT(30), <1>11, <2>1, <2>2, <2>3 DEF TypeOK, OpPrune, PruneRows, Drop, Evict
<1>12. CASE OpPruneNothing
  BY SMTT(30), <1>12 DEF TypeOK, OpPruneNothing, PruneRows, Fault
<1>13. CASE OpRead
  <2>1. op' \in Ops
    <3>1. op \in Ops /\ crl \in CRLs
      BY SMTT(30), <1>13 DEF OpRead, TypeOK
    <3>2. [op EXCEPT !.view = crl] \in Ops
      BY <3>1
    <3>3. [[op EXCEPT !.view = crl] EXCEPT !.point = "slot"] \in Ops
      BY <3>2
    <3> QED
      BY <1>13, <3>1, <3>3 DEF OpRead
  <2> QED
    BY <1>13, <2>1 DEF TypeOK, OpRead
<1>14. CASE OpReadNothing
  BY SMTT(30), <1>14 DEF TypeOK, OpReadNothing, InstallNewer, Install, Evict, Fault
<1>15. CASE OpWrite
  BY SMTT(30), <1>15 DEF TypeOK, OpWrite, NextCRL, Install, Evict
<1>16. CASE OpWriteFails
  BY SMTT(30), <1>16 DEF TypeOK, OpWriteFails, NextCRL, Fault
<1>17. CASE Reload
  BY <1>17 DEF TypeOK, Reload, Install, Evict
<1> QED
  BY <1>1, <1>2, <1>3, <1>4, <1>5, <1>6, <1>7, <1>8, <1>9, <1>10, <1>11, <1>12,
     <1>13, <1>14, <1>15, <1>16, <1>17 DEF StartOp, OpStep, OpWork

\* Peers, and restarts, keep the types.
LEMMA PeerTypes ==
  ASSUME TypeOK, Peer \/ Restart
  PROVE  TypeOK'
<1> USE ResponderAssumption DEF storage, index, workers, CRLs
<1>1. ASSUME NEW n \in Certs, PeerAppend(n) PROVE TypeOK'
  BY <1>1 DEF TypeOK, PeerAppend, AddRows
<1>2. ASSUME NEW n \in Certs, PeerRevoke(n) PROVE TypeOK'
  BY SMTT(30), <1>2 DEF TypeOK, PeerRevoke
<1>3. ASSUME NEW S \in SUBSET inventory, PeerPrune(S) PROVE TypeOK'
  BY <1>3 DEF TypeOK, PeerPrune, PruneRows
<1>4. CASE PeerTrim
  BY SMTT(30), <1>4 DEF TypeOK, PeerTrim
<1>5. CASE Restart
  BY SMTT(30), <1>5 DEF TypeOK, Restart, Fault, Empty, NoBlob
<1> QED
  BY <1>1, <1>2, <1>3, <1>4, <1>5 DEF Peer

\* Requests keep the types.
LEMMA ClientTypes ==
  ASSUME TypeOK, SlotsAccounted, NEW c \in Clients, Client(c)
  PROVE  TypeOK'
<1> USE ResponderAssumption DEF storage, index, workers, Requests, NoRequest, Answers
<1>1. ASSUME NEW n \in Certs, NEW h \in Hashes, NEW nonce \in BOOLEAN,
             Ask(c, n, h, nonce)
      PROVE  TypeOK'
  BY <1>1 DEF TypeOK, Ask, Decide
<1>2. CASE TakeSlot(c)
  BY SMTT(30), <1>2 DEF TypeOK, TakeSlot
<1>3. CASE Shed(c)
  BY <1>3 DEF TypeOK, Shed
<1>4. CASE Sign(c)
  <2>1. slots \in 1 .. Slots
    <3>1. IsFiniteSet(Signing) /\ c \in Signing
      BY <1>4, FS_Subset DEF Sign, Signing
    <3>2. Cardinality(Signing) \in Nat \ {0}
      BY <3>1, FS_CardinalityType, FS_EmptySet
    <3> QED
      BY SMTT(30), <3>2 DEF TypeOK, SlotsAccounted, Signing
  <2> QED
    BY SMTT(30), <1>4, <2>1 DEF TypeOK, Sign, Fault
<1>5. CASE Store(c)
  BY SMTT(30), <1>5 DEF TypeOK, Store
<1> QED
  BY <1>1, <1>2, <1>3, <1>4, <1>5 DEF Client

\* Passes, polls and expiries keep the types.
LEMMA JobTypes ==
  ASSUME TypeOK,
         \/ \E p \in Passes : Pass(p)
         \/ \E q \in Polls : Poll(q)
         \/ \E k \in Certs \X Hashes : Lapse(k)
  PROVE  TypeOK'
<1> USE ResponderAssumption DEF storage, index, workers
<1>1. ASSUME NEW p \in Passes, Sample(p) PROVE TypeOK'
  BY <1>1 DEF TypeOK, Sample, PassStates
<1>2. ASSUME NEW p \in Passes, ReadInventory(p) PROVE TypeOK'
  BY SMTT(30), <1>2 DEF TypeOK, ReadInventory, PassStates, NoPass, Fault
<1>3. ASSUME NEW p \in Passes, NEW added \in SUBSET Certs, NEW removed \in SUBSET Certs,
             Reconcile(p, added, removed)
      PROVE  TypeOK'
  <2>1. Cardinality(removed) \in Nat
    BY FS_Subset, FS_CardinalityType
  <2> QED
    BY SMTT(30), <1>3, <2>1 DEF TypeOK, Reconcile, Drop, Evict
<1>4. ASSUME NEW p \in Passes, Apply(p) PROVE TypeOK'
  <2>1. Missing(p) \in SUBSET Certs /\ Extra(p) \in SUBSET Certs
    BY SMTT(30), <1>4 DEF TypeOK, Apply, Reconcile, Missing, Extra, PassStates, NoPass
  <2> QED
    BY SMTT(30), <1>3, <1>4, <2>1 DEF Apply
<1>5. ASSUME NEW q \in Polls, PollRead(q) PROVE TypeOK'
  BY <1>5 DEF TypeOK, PollRead
<1>6. ASSUME NEW q \in Polls, PollInstall(q) PROVE TypeOK'
  BY SMTT(30), <1>6 DEF TypeOK, PollInstall, InstallNewer, Install, Evict, NoBlob, CRLs
<1>7. ASSUME NEW k \in Certs \X Hashes, Lapse(k) PROVE TypeOK'
  BY <1>7 DEF TypeOK, Lapse
<1> QED
  BY <1>1, <1>2, <1>4, <1>5, <1>6, <1>7 DEF Pass, Poll

\* Every step keeps the types.
LEMMA TypeStep ==
  ASSUME TypeOK, SlotsAccounted, [Next]_vars
  PROVE  TypeOK'
<1>1. CASE UNCHANGED vars
  BY <1>1 DEF TypeOK, vars, storage, index, workers
<1> QED
  BY <1>1, OpTypes, PeerTypes, ClientTypes, JobTypes DEF Next

-----------------------------------------------------------------------------
(* The slots are accounted for *)

\* Steps that leave the requests alone keep the account.
LEMMA OpSlots ==
  ASSUME TypeOK, SlotsAccounted, StartOp \/ OpStep \/ Reload \/ Peer
  PROVE  SlotsAccounted'
<1> USE DEF storage, index, workers
<1>1. CASE OpSlot
  BY SMTT(30), <1>1, SigningCount DEF TypeOK, SlotsAccounted, OpSlot, Signing, Ops, NoOp
<1>2. CASE OpSign
  BY SMTT(30), <1>2, SigningCount DEF TypeOK, SlotsAccounted, OpSign, Signing, Ops, NoOp
<1>3. ASSUME UNCHANGED <<client, slots>>, op.point # "sign", op'.point # "sign"
      PROVE  SlotsAccounted'
  <2>1. Signing' = Signing /\ slots' = slots
    BY <1>3 DEF Signing
  <2> QED
    BY <1>3, <2>1 DEF SlotsAccounted, Signing
<1>4. CASE StartOp
  <2>1. ASSUME NEW kind, NEW S, NEW point, point # "sign", Start(kind, S, point)
        PROVE  SlotsAccounted'
    <3>1. UNCHANGED <<client, slots>> /\ op = NoOp /\ op'.point = point
      BY <2>1 DEF Start, Free
    <3> QED
      BY <1>3, <2>1, <3>1 DEF NoOp
  <2>2. ASSUME NEW n, StartIssue(n) \/ StartImport(n) PROVE SlotsAccounted'
    BY <2>1, <2>2 DEF StartIssue, StartImport
  <2>3. ASSUME NEW S, StartRevoke(S) PROVE SlotsAccounted'
    BY <2>1, <2>3 DEF StartRevoke, StartCRL
  <2>4. CASE StartRefresh \/ StartCleanup
    BY <2>1, <2>4 DEF StartRefresh, StartCleanup, StartCRL
  <2> QED
    BY <1>4, <2>2, <2>3, <2>4 DEF StartOp
<1>5. CASE OpStep /\ ~OpSlot /\ ~OpSign
  <2>1. UNCHANGED <<client, slots>>
    BY <1>5 DEF OpStep, OpWork, OpGivesUp, OpAppend, OpAppendFails, OpPrune,
         OpPruneNothing, OpRead, OpReadNothing, OpWrite, OpWriteFails
  <2>2. op.point # "sign"
    BY <1>5 DEF OpStep, OpWork, OpGivesUp, OpAppend, OpAppendFails, OpPrune,
         OpPruneNothing, OpRead, OpReadNothing, OpWrite, OpWriteFails
  <2>3. op'.point # "sign"
    <3>1. CASE OpPrune
      BY <3>1 DEF OpPrune, TypeOK, Ops, NoOp
    <3>2. CASE OpRead
      BY <3>2 DEF OpRead, TypeOK, Ops, NoOp
    <3>3. CASE OpGivesUp \/ OpAppend \/ OpAppendFails \/ OpPruneNothing
      <4>1. op' = NoOp
        BY <3>3 DEF OpGivesUp, OpAppend, OpAppendFails, OpPruneNothing
      <4> QED
        BY <4>1 DEF NoOp
    <3>4. CASE OpReadNothing \/ OpWrite \/ OpWriteFails
      <4>1. op' = NoOp
        BY <3>4 DEF OpReadNothing, OpWrite, OpWriteFails
      <4> QED
        BY <4>1 DEF NoOp
    <3> QED
      BY <1>5, <3>1, <3>2, <3>3, <3>4 DEF OpStep, OpWork
  <2> QED
    BY <1>3, <2>1, <2>2, <2>3
<1>6. CASE Reload \/ Peer
  BY <1>6 DEF SlotsAccounted, Reload, Peer, PeerAppend, PeerRevoke, PeerPrune, PeerTrim
<1> QED
  BY <1>1, <1>2, <1>4, <1>5, <1>6

\* A request takes a slot to sign and gives it back when it has.
LEMMA ClientSlots ==
  ASSUME TypeOK, SlotsAccounted, NEW c \in Clients, Client(c)
  PROVE  SlotsAccounted'
<1> DEFINE held == IF op.point = "sign" THEN 1 ELSE 0
<1>1. /\ client \in [Clients -> Requests \cup {NoRequest}]
      /\ slots = Cardinality(Signing) + held
      /\ SlotsAccounted' <=> slots' = Cardinality(Signing') + held'
  BY DEF TypeOK, SlotsAccounted, Signing
<1>2. op' = op
  BY DEF Client, Ask, TakeSlot, Shed, Sign, Store
<1>3. Cardinality(Signing) \in Nat /\ held \in Nat
  BY SigningCount
<1>4. ASSUME NEW n \in Certs, NEW h \in Hashes, NEW nonce \in BOOLEAN,
             Ask(c, n, h, nonce)
      PROVE  SlotsAccounted'
  <2>1. PICK r : r.at # "sign" /\ client' = [client EXCEPT ![c] = r]
    BY <1>4 DEF Ask
  <2>2. client[c] = NoRequest /\ slots' = slots
    BY <1>4 DEF Ask
  <2>3. client[c].at # "sign"
    BY SMTT(30), <2>2 DEF NoRequest
  <2> QED
    BY <1>1, <1>2, <2>1, <2>2, <2>3, SigningSame
<1>5. CASE TakeSlot(c)
  <2> DEFINE r == [client[c] EXCEPT !.at = "sign"]
  <2>1. r.at = "sign" /\ client' = [client EXCEPT ![c] = r]
    <3>1. client[c] \in Requests
      BY SMTT(30), <1>1, <1>5 DEF TakeSlot, NoRequest
    <3>2. r.at = "sign"
      BY <3>1 DEF Requests
    <3> QED
      BY <1>5, <3>2 DEF TakeSlot
  <2>2. client[c].at # "sign" /\ slots' = slots + 1
    BY <1>5 DEF TakeSlot
  <2>3. Cardinality(Signing') = Cardinality(Signing) + 1
    BY <1>1, <2>1, <2>2, SigningGrows
  <2> QED
    BY SMTT(30), <1>1, <1>2, <1>3, <2>2, <2>3
<1>6. CASE Shed(c)
  BY <1>1, <1>2, <1>6, SigningSame DEF Shed, NoRequest
<1>7. CASE Sign(c)
  <2>1. PICK r : r.at # "sign" /\ client' = [client EXCEPT ![c] = r]
    BY SMTT(30), <1>1, <1>7 DEF Sign, Requests, NoRequest
  <2>2. client[c].at = "sign" /\ slots' = slots - 1
    BY <1>7 DEF Sign
  <2>3. Cardinality(Signing') = Cardinality(Signing) - 1
    BY <1>1, <2>1, <2>2, SigningShrinks
  <2> QED
    BY SMTT(30), <1>1, <1>2, <1>3, <2>2, <2>3
<1>8. CASE Store(c)
  BY <1>1, <1>2, <1>8, SigningSame DEF Store, NoRequest
<1> QED
  BY <1>4, <1>5, <1>6, <1>7, <1>8 DEF Client

\* Every step keeps the account.
LEMMA SlotsStep ==
  ASSUME TypeOK, SlotsAccounted, [Next]_vars
  PROVE  SlotsAccounted'
<1>1. ASSUME UNCHANGED <<client, slots, op>> PROVE SlotsAccounted'
  BY <1>1 DEF SlotsAccounted
<1>2. CASE UNCHANGED vars
  BY <1>1, <1>2 DEF vars, workers
<1>3. CASE \E k \in Certs \X Hashes : Lapse(k)
  BY <1>1, <1>3 DEF Lapse, workers
<1>4. CASE \E p \in Passes : Pass(p)
  BY <1>1, <1>4 DEF Pass, Sample, ReadInventory, Apply, Reconcile
<1>5. CASE \E q \in Polls : Poll(q)
  BY <1>1, <1>5 DEF Poll, PollRead, PollInstall
<1>6. CASE Restart
  <2>1. Signing' = {} /\ slots' = 0 /\ op'.point # "sign"
    BY <1>6 DEF Restart, Signing, NoRequest, NoOp
  <2>2. Cardinality(Signing') = 0
    BY <2>1, FS_EmptySet
  <2> QED
    BY SMTT(30), <2>1, <2>2 DEF SlotsAccounted, Signing
<1> QED
  BY <1>2, <1>3, <1>4, <1>5, <1>6, OpSlots, ClientSlots DEF Next

-----------------------------------------------------------------------------
(* The theorems *)

\* The types and the account need each other: a slot that is given back was taken.
Counted == TypeOK /\ SlotsAccounted

\* The initial state has its types, and no slot is taken.
LEMMA InitCounted == Init => Counted
<1> SUFFICES ASSUME Init PROVE Counted
  OBVIOUS
<1>1. TypeOK
  <2>1. client \in [Clients -> Requests \cup {NoRequest}]
    BY DEF Init
  <2>2. pass \in [Passes -> PassStates \cup {NoPass}]
    BY DEF Init
  <2>3. crl \in CRLs /\ cachedCRL \in CRLs /\ op = NoOp
    BY DEF Init, EmptyCRL, CRLs
  <2>4. poll \in [Polls -> CRLs]
    BY DEF Init, NoBlob, CRLs
  <2>5. ocspCache \in [Certs \X Hashes -> Answers \cup {"none"}]
    BY DEF Init, Empty
  <2>6. slots \in 0 .. Slots /\ faults \in 0 .. MaxFaults /\ life \in 0 .. MaxRestarts
    BY SMTT(30), ResponderAssumption DEF Init
  <2>7. /\ inventory = {} /\ pruned = {} /\ peer = {} /\ serialIndex = {}
        /\ forgotten = {} /\ epoch = 0 /\ removalEpoch = 0
    BY DEF Init
  <2> QED
    BY <2>1, <2>2, <2>3, <2>4, <2>5, <2>6, <2>7 DEF TypeOK
<1>2. SlotsAccounted
  <2>1. Signing = {}
    BY DEF Signing, Init, NoRequest
  <2>2. Cardinality(Signing) = 0
    BY <2>1, FS_EmptySet
  <2>3. slots = 0 /\ op.point # "sign"
    BY DEF Init, NoOp
  <2> QED
    BY SMTT(30), <2>2, <2>3 DEF SlotsAccounted, Signing
<1> QED
  BY <1>1, <1>2 DEF Counted

\* Both hold in every reachable state.
LEMMA AlwaysCounted == Spec => []Counted
<1>1. Init => Counted
  BY InitCounted
<1>2. Counted /\ [Next]_vars => Counted'
  BY TypeStep, SlotsStep DEF Counted
<1> QED
  BY <1>1, <1>2, PTL DEF Spec

\* Type correctness: the slots in use stay between none and ca_signing_concurrency,
\* whatever fails, is shed or restarts.
THEOREM TypeCorrectness == Spec => []TypeOK
<1>1. Counted => TypeOK
  BY DEF Counted
<1> QED
  BY <1>1, AlwaysCounted, PTL

\* Every slot taken is held for a signature in flight (signbound.go).
THEOREM SlotsAreAccountedFor == Spec => []SlotsAccounted
<1>1. Counted => SlotsAccounted
  BY DEF Counted
<1> QED
  BY <1>1, AlwaysCounted, PTL

-----------------------------------------------------------------------------
(* The response cache agrees with the CRL and the index *)

\* Installing a CRL evicts what it contradicts; the rest was not contradicted by
\* the one before either.
LEMMA InstallVouches ==
  ASSUME TypeOK, CacheVouches, NEW next, Install(next), serialIndex' = serialIndex
  PROVE  CacheVouches'
BY DEF TypeOK, CacheVouches, Install, Evict

\* The same of a CRL that is installed only if it is newer.
LEMMA InstallNewerVouches ==
  ASSUME TypeOK, CacheVouches, NEW next, InstallNewer(next), serialIndex' = serialIndex
  PROVE  CacheVouches'
<1>1. CASE Install(next)
  BY <1>1, InstallVouches
<1>2. CASE UNCHANGED <<cachedCRL, ocspCache>>
  BY <1>2 DEF CacheVouches
<1> QED
  BY <1>1, <1>2 DEF InstallNewer

\* A serial that leaves the index takes its responses along.
LEMMA DropVouches ==
  ASSUME TypeOK, CacheVouches, NEW S, Drop(S), serialIndex \ S \subseteq serialIndex',
         cachedCRL' = cachedCRL
  PROVE  CacheVouches'
BY DEF TypeOK, CacheVouches, Drop, Evict

\* A request whose answer may be cached does not answer unknown.
StoresDefinite ==
  \A c \in Clients : client[c].at = "store" => client[c].status # "unknown"

\* A response is stored only if it is what the process would answer now.
LEMMA StoreVouches ==
  ASSUME TypeOK, CacheVouches, StoresDefinite, NEW c \in Clients, Store(c)
  PROVE  CacheVouches'
<1>1. client[c] \in Requests
  BY SMTT(30) DEF TypeOK, Store, NoRequest
<1> DEFINE n == client[c].serial
           key == <<n, client[c].hash>>
<1>2. n \in Certs /\ key \in Certs \X Hashes /\ key[1] = n
  BY <1>1 DEF Requests
<1>3. serialIndex' = serialIndex /\ cachedCRL' = cachedCRL
  BY DEF Store, index
<1>4. CASE Decide(cachedCRL, n, n \in serialIndex) = client[c].status
  <2>1. ocspCache' = [ocspCache EXCEPT ![key] = client[c].status]
    BY <1>4 DEF Store
  <2>2. client[c].status # "unknown"
    BY DEF StoresDefinite, Store
  <2>3. n \in serialIndex
    BY <1>4, <2>2 DEF Decide
  <2>4. client[c].status = "good" => n \notin cachedCRL.revoked
    BY <1>4, <2>3 DEF Decide
  <2> QED
    BY <1>2, <1>3, <2>1, <2>2, <2>3, <2>4 DEF CacheVouches, TypeOK
<1>5. CASE Decide(cachedCRL, n, n \in serialIndex) # client[c].status
  BY <1>3, <1>5 DEF Store, CacheVouches
<1> QED
  BY <1>4, <1>5

\* Every step keeps the cache in agreement.
LEMMA CacheStep ==
  ASSUME TypeOK, CacheVouches, StoresDefinite, [Next]_vars
  PROVE  CacheVouches'
<1> USE DEF storage, index, workers
<1>1. ASSUME UNCHANGED <<cachedCRL, ocspCache>>, serialIndex \subseteq serialIndex'
      PROVE  CacheVouches'
  BY <1>1 DEF CacheVouches
<1>2. CASE UNCHANGED vars
  BY <1>1, <1>2 DEF vars
<1>3. CASE StartOp
  BY <1>1, <1>3 DEF StartOp, StartIssue, StartImport, StartRevoke, StartRefresh,
       StartCleanup, StartCRL, Start
<1>4. CASE OpSlot \/ OpGivesUp \/ OpSign \/ OpAppend \/ OpAppendFails
  BY <1>1, <1>4 DEF OpSlot, OpGivesUp, OpSign, OpAppend, OpAppendFails
<1>5. CASE OpPruneNothing \/ OpRead \/ OpWriteFails
  BY <1>1, <1>5 DEF OpPruneNothing, OpRead, OpWriteFails
<1>6. CASE OpPrune
  <2>1. PICK S : Drop(S) /\ serialIndex' = serialIndex \ S
    BY <1>6 DEF OpPrune
  <2> QED
    BY <1>6, <2>1, DropVouches DEF OpPrune
<1>7. CASE OpReadNothing
  BY <1>1, <1>7, InstallNewerVouches DEF OpReadNothing
<1>8. CASE OpWrite
  BY <1>8, InstallVouches DEF OpWrite
<1>9. CASE Reload
  BY <1>9, InstallVouches DEF Reload
<1>10. CASE Peer
  BY <1>1, <1>10 DEF Peer, PeerAppend, PeerRevoke, PeerPrune, PeerTrim
<1>11. ASSUME NEW c \in Clients, Client(c) PROVE CacheVouches'
  <2>1. CASE Store(c)
    BY <2>1, StoreVouches
  <2>2. CASE ~Store(c)
    BY <1>1, <1>11, <2>2 DEF Client, Ask, TakeSlot, Shed, Sign
  <2> QED
    BY <2>1, <2>2
<1>12. ASSUME NEW k \in Certs \X Hashes, Lapse(k) PROVE CacheVouches'
  BY <1>12 DEF Lapse, CacheVouches, TypeOK
<1>13. ASSUME NEW p \in Passes, Pass(p) PROVE CacheVouches'
  <2>1. CASE Apply(p)
    <3>1. PICK added, removed : Reconcile(p, added, removed)
      BY <2>1 DEF Apply
    <3> QED
      BY <3>1, DropVouches DEF Reconcile
  <2>2. CASE ~Apply(p)
    BY <1>1, <1>13, <2>2 DEF Pass, Sample, ReadInventory
  <2> QED
    BY <2>1, <2>2
<1>14. ASSUME NEW q \in Polls, Poll(q) PROVE CacheVouches'
  BY <1>1, <1>14, InstallNewerVouches DEF Poll, PollRead, PollInstall
<1>15. CASE Restart
  BY <1>15 DEF Restart, CacheVouches, Empty
<1> QED
  BY <1>2, <1>3, <1>4, <1>5, <1>6, <1>7, <1>8, <1>9, <1>10, <1>11, <1>12, <1>13,
     <1>14, <1>15 DEF Next, OpStep, OpWork

\* Every step keeps unknown away from the cache.
LEMMA DefiniteStep ==
  ASSUME TypeOK, StoresDefinite, [Next]_vars
  PROVE  StoresDefinite'
<1> USE DEF storage, index, workers
<1>1. CASE client' = client
  BY <1>1 DEF StoresDefinite
<1>2. ASSUME NEW c \in Clients, Client(c) PROVE StoresDefinite'
  <2>1. ASSUME NEW r, client' = [client EXCEPT ![c] = r],
               r.at = "store" => r.status # "unknown"
        PROVE  StoresDefinite'
    BY <2>1 DEF StoresDefinite, TypeOK
  <2>2. ASSUME NEW n \in Certs, NEW h \in Hashes, NEW nonce \in BOOLEAN,
               Ask(c, n, h, nonce)
        PROVE  StoresDefinite'
    BY <2>2 DEF Ask, StoresDefinite, TypeOK
  <2>3. CASE TakeSlot(c)
    BY SMTT(30), <2>3 DEF TakeSlot, StoresDefinite, TypeOK, Requests, NoRequest
  <2>4. CASE Shed(c) \/ Store(c)
    BY <2>1, <2>4 DEF Shed, Store, NoRequest
  <2>5. CASE Sign(c)
    <3>1. client[c] \in Requests
      BY SMTT(30), <2>5 DEF TypeOK, Sign, NoRequest
    <3>2. client[c].status # "unknown" =>
            [client[c] EXCEPT !.at = "store"].status # "unknown"
      BY <3>1 DEF Requests
    <3> QED
      BY <2>1, <2>5, <3>2 DEF Sign, NoRequest
  <2> QED
    BY <1>2, <2>2, <2>3, <2>4, <2>5 DEF Client
<1>3. CASE Restart
  BY <1>3 DEF Restart, StoresDefinite, NoRequest
<1>4. ASSUME StartOp \/ OpStep \/ Reload \/ Peer PROVE client' = client
  BY <1>4 DEF StartOp, StartIssue, StartImport, StartRevoke, StartRefresh,
       StartCleanup, StartCRL, Start, OpStep, OpWork, OpSlot, OpGivesUp, OpSign,
       OpAppend, OpAppendFails, OpPrune, OpPruneNothing, OpRead, OpReadNothing,
       OpWrite, OpWriteFails, Reload, Peer, PeerAppend, PeerRevoke, PeerPrune,
       PeerTrim
<1>5. ASSUME \/ \E k \in Certs \X Hashes : Lapse(k)
             \/ \E p \in Passes : Pass(p)
             \/ \E q \in Polls : Poll(q)
      PROVE  client' = client
  BY <1>5 DEF Lapse, Pass, Sample, ReadInventory, Apply, Reconcile, Poll, PollRead,
       PollInstall
<1> QED
  BY <1>1, <1>2, <1>3, <1>4, <1>5 DEF Next, vars

-----------------------------------------------------------------------------
(* The cached CRL is never ahead of storage, nor does it go back *)

\* Who holds the CRL lock, and what was read under it.
CRLInOrder ==
  /\ op.kind = "Import" => op.point = "append"
  /\ op.kind = "Issue" => op.point \in {"slot", "sign", "append"}
  /\ op.kind \in CRLKinds => op.point # "append" /\ peer = {}
  /\ op.kind \in CRLKinds /\ op.point \in {"slot", "sign", "write"} => op.view = crl
  /\ cachedCRL.number <= crl.number
  /\ \A q \in Polls : poll[q].number <= crl.number

\* A newer CRL that is no newer than storage keeps the order.
LEMMA InstallNewerAdvances ==
  ASSUME TypeOK, NEW next \in CRLs, next.number <= crl.number, InstallNewer(next),
         cachedCRL.number <= crl.number
  PROVE  /\ cachedCRL'.number >= cachedCRL.number
         /\ cachedCRL'.number <= crl.number
BY SMTT(30) DEF TypeOK, InstallNewer, Install, CRLs

\* Operations: what they write is one ahead of what storage and the cache hold.
LEMMA OpAdvances ==
  ASSUME TypeOK, CRLInOrder, StartOp \/ OpStep \/ Reload
  PROVE  CRLInOrder' /\ cachedCRL'.number >= cachedCRL.number
<1> USE DEF storage, index, workers
<1> DEFINE Goal == CRLInOrder' /\ cachedCRL'.number >= cachedCRL.number
<1>0. crl.number \in Nat /\ cachedCRL.number \in Nat /\ \A q \in Polls : poll[q].number \in Nat
  BY DEF TypeOK, CRLs
<1>1. CASE StartOp
  <2>1. ASSUME NEW n \in Certs, StartIssue(n) PROVE Goal
    BY SMTT(30), <1>0, <2>1 DEF StartIssue, Start, CRLInOrder, CRLKinds
  <2>2. ASSUME NEW kind \in CRLKinds, NEW S, NEW point \in {"prune", "read"},
               StartCRL(kind, S, point)
        PROVE  Goal
    <3>1. /\ op'.kind \in CRLKinds /\ op'.point \in {"prune", "read"} /\ peer' = {}
          /\ UNCHANGED <<crl, poll, cachedCRL>>
      BY <2>2 DEF StartCRL, Start
    <3> QED
      BY SMTT(30), <1>0, <3>1 DEF CRLInOrder, CRLKinds
  <2>3. ASSUME NEW n \in Certs, StartImport(n) PROVE Goal
    BY SMTT(30), <1>0, <2>3 DEF StartImport, Start, CRLInOrder, CRLKinds
  <2>4. ASSUME NEW S, StartRevoke(S) PROVE Goal
    BY <2>2, <2>4 DEF StartRevoke, CRLKinds
  <2>5. ASSUME StartRefresh \/ StartCleanup PROVE Goal
    BY <2>2, <2>5 DEF StartRefresh, StartCleanup, CRLKinds
  <2> HIDE DEF Goal
  <2>6. Goal
    BY <1>1, <2>1, <2>3, <2>4, <2>5 DEF StartOp
  <2> QED
    BY <2>6 DEF Goal
<1>2. ASSUME op' = NoOp, UNCHANGED <<crl, poll, cachedCRL>> PROVE Goal
  BY SMTT(30), <1>0, <1>2 DEF CRLInOrder, NoOp, CRLKinds
<1>3. CASE OpGivesUp \/ OpAppend \/ OpAppendFails \/ OpPruneNothing
  BY <1>2, <1>3 DEF OpGivesUp, OpAppend, OpAppendFails, OpPruneNothing
<1>4. CASE OpSlot
  BY SMTT(30), <1>0, <1>4 DEF OpSlot, CRLInOrder, TypeOK, Ops, NoOp, CRLKinds
<1>5. CASE OpSign
  BY SMTT(30), <1>0, <1>5 DEF OpSign, CRLInOrder, TypeOK, Ops, NoOp, CRLKinds, Kinds
<1>6. CASE OpPrune
  BY SMTT(30), <1>0, <1>6 DEF OpPrune, CRLInOrder, TypeOK, Ops, NoOp, CRLKinds
<1>7. CASE OpRead
  BY SMTT(30), <1>0, <1>7 DEF OpRead, CRLInOrder, TypeOK, Ops, NoOp, CRLKinds
<1>8. CASE OpReadNothing
  <2>1. cachedCRL'.number >= cachedCRL.number /\ cachedCRL'.number <= crl.number
    BY SMTT(30), <1>0, <1>8, InstallNewerAdvances DEF OpReadNothing, CRLInOrder, TypeOK
  <2> QED
    BY <1>0, <1>8, <2>1 DEF OpReadNothing, CRLInOrder, NoOp, CRLKinds
<1>9. CASE OpWrite \/ OpWriteFails
  <2>1. op.view = crl /\ NextCRL.number = crl.number + 1
    BY SMTT(30), <1>9 DEF OpWrite, OpWriteFails, CRLInOrder, TypeOK, Ops, NoOp, Kinds, NextCRL
  <2>2. CASE OpWrite
    BY SMTT(30), <1>0, <2>1, <2>2 DEF OpWrite, Install, CRLInOrder, NoOp, CRLKinds
  <2>3. CASE OpWriteFails
    BY SMTT(30), <1>0, <2>1, <2>3 DEF OpWriteFails, CRLInOrder, NoOp, CRLKinds
  <2> QED
    BY <1>9, <2>2, <2>3
<1>10. CASE Reload
  BY SMTT(30), <1>0, <1>10 DEF Reload, Install, CRLInOrder, Free
<1> QED
  BY <1>1, <1>3, <1>4, <1>5, <1>6, <1>7, <1>8, <1>9, <1>10 DEF OpStep, OpWork

\* Every step keeps the order and never takes the cached CRL back.
LEMMA CRLStep ==
  ASSUME TypeOK, CRLInOrder, [Next]_vars
  PROVE  CRLInOrder' /\ cachedCRL'.number >= cachedCRL.number
<1> USE DEF storage, index, workers
<1> DEFINE Goal == CRLInOrder' /\ cachedCRL'.number >= cachedCRL.number
<1>0. crl.number \in Nat /\ cachedCRL.number \in Nat /\ \A q \in Polls : poll[q].number \in Nat
  BY DEF TypeOK, CRLs
<1>1. ASSUME UNCHANGED <<op, crl, peer, cachedCRL, poll>> PROVE Goal
  BY SMTT(30), <1>0, <1>1 DEF CRLInOrder
<1>2. CASE UNCHANGED vars
  BY <1>1, <1>2 DEF vars
<1>3. ASSUME NEW n \in Certs, PeerAppend(n) PROVE Goal
  BY <1>1, <1>3 DEF PeerAppend
<1>4. ASSUME NEW n \in Certs, PeerRevoke(n) PROVE Goal
  BY SMTT(30), <1>0, <1>4 DEF PeerRevoke, PeerLocks, CRLInOrder
<1>5. ASSUME NEW S, PeerPrune(S) PROVE Goal
  BY SMTT(30), <1>0, <1>5 DEF PeerPrune, PeerLocks, CRLInOrder
<1>6. CASE PeerTrim
  BY SMTT(30), <1>0, <1>6 DEF PeerTrim, CRLInOrder
<1>7. CASE \E c \in Clients : Client(c)
  BY <1>1, <1>7 DEF Client, Ask, TakeSlot, Shed, Sign, Store
<1>8. CASE \E k \in Certs \X Hashes : Lapse(k)
  BY <1>1, <1>8 DEF Lapse
<1>9. CASE \E p \in Passes : Pass(p)
  BY <1>1, <1>9 DEF Pass, Sample, ReadInventory, Apply, Reconcile
<1>10. ASSUME NEW q \in Polls, PollRead(q) PROVE Goal
  BY SMTT(30), <1>0, <1>10 DEF PollRead, CRLInOrder, TypeOK
<1>11. ASSUME NEW q \in Polls, PollInstall(q) PROVE Goal
  <2>1. cachedCRL'.number >= cachedCRL.number /\ cachedCRL'.number <= crl.number
    BY <1>11, InstallNewerAdvances DEF PollInstall, CRLInOrder, TypeOK
  <2> QED
    <3>1. UNCHANGED <<op, crl, peer>> /\ poll' = [poll EXCEPT ![q] = NoBlob]
      BY <1>11 DEF PollInstall
    <3>2. \A o \in Polls : poll'[o].number <= crl.number
      BY SMTT(30), <1>0, <3>1 DEF CRLInOrder, TypeOK, NoBlob
    <3> QED
      BY <2>1, <3>1, <3>2 DEF CRLInOrder
<1>12. CASE Restart
  <2>1. op'.kind = "none" /\ UNCHANGED crl /\ cachedCRL' = crl
        /\ \A q \in Polls : poll'[q].number = 0
    BY <1>12 DEF Restart, NoOp, NoBlob
  <2> QED
    BY ONLY SMTT(30), <1>0, <2>1, CRLInOrder DEF CRLInOrder, CRLKinds
<1> QED
  BY <1>2, <1>3, <1>4, <1>5, <1>6, <1>7, <1>8, <1>9, <1>10, <1>11, <1>12, OpAdvances
     DEF Next, Peer, Poll

-----------------------------------------------------------------------------
(* The theorems about the caches *)

\* What the cache and the CRL need besides their types.
InStep == CacheVouches /\ StoresDefinite /\ CRLInOrder

\* It holds of an empty cache and the first CRL.
LEMMA InitInStep == Init => InStep
<1> SUFFICES ASSUME Init PROVE InStep
  OBVIOUS
<1>1. CacheVouches
  BY DEF Init, CacheVouches, Empty
<1>2. StoresDefinite
  BY DEF Init, StoresDefinite, NoRequest
<1>3. CRLInOrder
  <2>1. /\ op.kind = "none" /\ cachedCRL.number = 1 /\ crl.number = 1
        /\ \A q \in Polls : poll[q].number = 0
    BY DEF Init, NoOp, EmptyCRL, NoBlob
  <2> QED
    BY SMTT(30), <2>1 DEF CRLInOrder, CRLKinds
<1> QED
  BY <1>1, <1>2, <1>3 DEF InStep

\* It holds in every reachable state.
LEMMA AlwaysInStep == Spec => []InStep
<1>1. Init => InStep
  BY InitInStep
<1>2. TypeOK /\ InStep /\ [Next]_vars => InStep'
  BY CacheStep, DefiniteStep, CRLStep DEF InStep
<1> QED
  BY <1>1, <1>2, TypeCorrectness, PTL DEF Spec

\* The response cache of AnswerOCSP never contradicts the cached CRL or the index.
THEOREM CacheNeverContradicts == Spec => []CacheVouches
<1>1. InStep => CacheVouches
  BY DEF InStep
<1> QED
  BY <1>1, AlwaysInStep, PTL

\* No install of SyncCRLCache, RefreshCRLIfDue, signCRLLocked or loadCRLCache takes
\* the cached CRL back to an older one.
THEOREM CachedCRLAdvances == Spec => CRLAdvances
<1>1. TypeOK /\ InStep /\ [Next]_vars => [cachedCRL'.number >= cachedCRL.number]_vars
  BY CRLStep DEF InStep
<1> QED
  BY <1>1, TypeCorrectness, AlwaysInStep, PTL DEF Spec, CRLAdvances

-----------------------------------------------------------------------------
(* The index and the passes over it *)

\* What the index holds has been in storage, and what it has let go is not.
IndexSound ==
  /\ serialIndex \subseteq inventory \cup pruned
  /\ forgotten \cap inventory = {}

\* What a pass may still do with what it read.  If the counters have not moved, the
\* serials it would remove have been pruned, and those it would add are not ones
\* the process has let go.
PassSound(p) ==
  /\ pass[p].at # "idle" =>
       pass[p].epoch <= epoch /\ pass[p].removalEpoch <= removalEpoch
  /\ pass[p].at = "apply" =>
       /\ pass[p].stored \subseteq inventory \cup pruned
       /\ pass[p].epoch = epoch => serialIndex \ pass[p].stored \subseteq pruned
       /\ pass[p].removalEpoch = removalEpoch => pass[p].stored \cap forgotten = {}

PassesSound == \A p \in Passes : PassSound(p)

\* What a step may do to the index and to storage: a serial enters the index, or is
\* let go, only with its counter.
IndexGuarantee ==
  /\ inventory \cup pruned \subseteq inventory' \cup pruned'
  /\ pruned \subseteq pruned'
  /\ epoch' >= epoch /\ removalEpoch' >= removalEpoch
  /\ epoch' = epoch => serialIndex' \subseteq serialIndex
  /\ removalEpoch' = removalEpoch => forgotten' \subseteq forgotten

\* A pass that does not move is still sound after such a step.
LEMMA PassStays ==
  ASSUME TypeOK, TypeOK', NEW p \in Passes, PassSound(p), IndexGuarantee,
         pass'[p] = pass[p]
  PROVE  PassSound(p)'
<1>1. epoch \in Nat /\ removalEpoch \in Nat /\ epoch' \in Nat /\ removalEpoch' \in Nat
  BY DEF TypeOK
<1>2. CASE pass[p] = NoPass
  BY SMTT(30), <1>2 DEF PassSound, NoPass
<1>3. CASE pass[p] \in PassStates
  <2>1. pass[p].epoch \in Nat /\ pass[p].removalEpoch \in Nat
    BY <1>3 DEF PassStates
  <2>2. pass[p].at # "idle" =>
          pass[p].epoch <= epoch' /\ pass[p].removalEpoch <= removalEpoch'
    BY SMTT(30), <1>1, <2>1 DEF PassSound, IndexGuarantee
  <2>3. pass[p].at = "apply" /\ pass[p].epoch = epoch' =>
          serialIndex' \ pass[p].stored \subseteq pruned'
    BY SMTT(30), <1>1, <2>1 DEF PassSound, IndexGuarantee
  <2>4. pass[p].at = "apply" /\ pass[p].removalEpoch = removalEpoch' =>
          pass[p].stored \cap forgotten' = {}
    BY SMTT(30), <1>1, <2>1 DEF PassSound, IndexGuarantee
  <2>5. pass[p].at = "apply" => pass[p].stored \subseteq inventory' \cup pruned'
    BY DEF PassSound, IndexGuarantee
  <2> QED
    BY <2>2, <2>3, <2>4, <2>5 DEF PassSound
<1> QED
  BY <1>2, <1>3 DEF TypeOK

\* Letting go of no serial does not move the counter, and of some serials does.
LEMMA DropCounts ==
  ASSUME TypeOK, NEW S \in SUBSET Certs, Drop(S)
  PROVE  /\ removalEpoch' >= removalEpoch
         /\ removalEpoch' = removalEpoch => forgotten' \subseteq forgotten
<1>1. IsFiniteSet(S)
  BY ResponderAssumption, FS_Subset
<1>2. Cardinality(S) \in Nat /\ (Cardinality(S) = 0 <=> S = {})
  BY <1>1, FS_CardinalityType, FS_EmptySet
<1> QED
  BY SMTT(30), <1>2 DEF TypeOK, Drop

\* Steps of operations and peers: storage, the index and the counters move together.
LEMMA OpIndex ==
  ASSUME TypeOK, IndexSound, StartOp \/ OpStep \/ Reload \/ Peer
  PROVE  /\ IndexSound' /\ IndexGuarantee
         /\ serialIndex \ serialIndex' \subseteq pruned'
         /\ (serialIndex' \ serialIndex) \cap forgotten' = {}
<1> USE DEF storage, index, workers
<1> DEFINE Goal == /\ IndexSound' /\ IndexGuarantee
                   /\ serialIndex \ serialIndex' \subseteq pruned'
                   /\ (serialIndex' \ serialIndex) \cap forgotten' = {}
<1>0. epoch \in Nat /\ removalEpoch \in Nat
  BY DEF TypeOK
<1>1. ASSUME UNCHANGED <<inventory, pruned, serialIndex, epoch, removalEpoch, forgotten>>
      PROVE  Goal
  <2>1. IndexSound'
    BY <1>1 DEF IndexSound
  <2>2. epoch >= epoch /\ removalEpoch >= removalEpoch
    BY SMTT(30), <1>0
  <2>3. IndexGuarantee
    BY <1>1, <2>2 DEF IndexGuarantee
  <2> QED
    BY <1>1, <2>1, <2>3
<1>2. CASE StartOp
  BY <1>1, <1>2 DEF StartOp, StartIssue, StartImport, StartRevoke, StartRefresh,
       StartCleanup, StartCRL, Start
<1>3. CASE OpSlot \/ OpGivesUp \/ OpSign \/ OpRead \/ OpReadNothing \/ OpWrite \/ OpWriteFails
  BY <1>1, <1>3 DEF OpSlot, OpGivesUp, OpSign, OpRead, OpReadNothing, OpWrite, OpWriteFails
<1>4. CASE OpAppend
  <2>1. /\ inventory' = inventory \cup op.serials /\ pruned' = pruned
        /\ serialIndex' = serialIndex \cup op.serials
        /\ epoch' = epoch + 1 /\ removalEpoch' = removalEpoch
        /\ forgotten' = forgotten \ op.serials
    BY <1>4 DEF OpAppend, AddRows
  <2>2. IndexSound'
    BY <2>1 DEF IndexSound
  <2>3. IndexGuarantee
    BY SMTT(30), <1>0, <2>1 DEF IndexGuarantee
  <2> QED
    BY <2>1, <2>2, <2>3
<1>5. CASE OpAppendFails
  <2>1. UNCHANGED <<pruned, serialIndex, epoch, removalEpoch>>
    BY <1>5 DEF OpAppendFails, AddRows
  <2>2. \/ UNCHANGED <<inventory, forgotten>>
        \/ /\ inventory' = inventory \cup op.serials
           /\ forgotten' = forgotten \ op.serials
    BY <1>5 DEF OpAppendFails, AddRows
  <2> QED
    BY SMTT(30), <1>0, <2>1, <2>2 DEF IndexSound, IndexGuarantee
<1>6. CASE OpPrune
  <2>1. PICK S \in SUBSET inventory :
          PruneRows(S) /\ Drop(S) /\ serialIndex' = serialIndex \ S
            /\ epoch' = epoch + Cardinality(S)
    BY <1>6 DEF OpPrune
  <2>2. S \in SUBSET Certs /\ Cardinality(S) \in Nat
    BY ResponderAssumption, FS_Subset, FS_CardinalityType DEF TypeOK
  <2>3. IndexSound'
    BY <2>1 DEF PruneRows, Drop, IndexSound
  <2>4. IndexGuarantee
    BY SMTT(30), <1>0, <2>1, <2>2, DropCounts DEF PruneRows, IndexGuarantee
  <2> QED
    BY <2>1, <2>3, <2>4 DEF PruneRows
<1>7. CASE OpPruneNothing
  BY SMTT(30), <1>0, <1>7 DEF OpPruneNothing, PruneRows, IndexSound, IndexGuarantee
<1>8. CASE Reload
  BY <1>1, <1>8 DEF Reload
<1>9. ASSUME NEW n \in Certs, PeerAppend(n) PROVE Goal
  BY SMTT(30), <1>0, <1>9 DEF PeerAppend, AddRows, IndexSound, IndexGuarantee
<1>10. ASSUME NEW S, PeerPrune(S) PROVE Goal
  BY SMTT(30), <1>0, <1>10 DEF PeerPrune, PruneRows, IndexSound, IndexGuarantee
<1>11. CASE PeerTrim \/ \E n \in Certs : PeerRevoke(n)
  BY <1>1, <1>11 DEF PeerTrim, PeerRevoke
<1> QED
  BY <1>2, <1>3, <1>4, <1>5, <1>6, <1>7, <1>8, <1>9, <1>10, <1>11
     DEF OpStep, OpWork, Peer

\* The step that applies a pass: what it adds was not let go, and what it removes
\* has been pruned.
LEMMA ApplyIndex ==
  ASSUME TypeOK, IndexSound, NEW p \in Passes, PassSound(p), Apply(p)
  PROVE  /\ IndexSound' /\ IndexGuarantee
         /\ serialIndex \ serialIndex' \subseteq pruned'
         /\ (serialIndex' \ serialIndex) \cap forgotten' = {}
<1> DEFINE added == IF removalEpoch # pass[p].removalEpoch THEN {} ELSE Missing(p)
           removed == IF epoch # pass[p].epoch THEN {} ELSE Extra(p)
<1>1. Reconcile(p, added, removed)
  BY DEF Apply
<1>2. pass[p].at = "apply" /\ pass[p] \in PassStates /\ UNCHANGED <<inventory, pruned>>
  BY SMTT(30), <1>1 DEF Reconcile, TypeOK, NoPass, storage
<1>3. /\ added \subseteq pass[p].stored \ serialIndex
      /\ added \subseteq inventory \cup pruned
      /\ added \cap forgotten = {}
  BY <1>2 DEF Missing, PassSound
<1>4. removed \subseteq serialIndex /\ removed \subseteq pruned
  BY <1>2 DEF Extra, PassSound
<1>5. removed \in SUBSET Certs
  BY <1>4 DEF TypeOK
<1>6. /\ serialIndex' = (serialIndex \cup added) \ removed
      /\ epoch' = IF added = {} THEN epoch ELSE epoch + 1
      /\ Drop(removed)
  BY <1>1 DEF Reconcile
<1>7. forgotten' = (forgotten \cup removed) \ inventory'
  BY <1>6 DEF Drop
<1> HIDE DEF added, removed
<1>8. epoch \in Nat
  BY DEF TypeOK
<1>9. IndexSound'
  BY <1>2, <1>3, <1>6, <1>7 DEF IndexSound
<1>10. IndexGuarantee
  BY SMTT(30), <1>2, <1>5, <1>6, <1>8, DropCounts DEF IndexGuarantee
<1> QED
  BY <1>2, <1>3, <1>4, <1>6, <1>7, <1>9, <1>10

\* Every step keeps the index and the passes sound, and in one process neither
\* forgets a serial that was never pruned nor brings back one it has let go.
LEMMA IndexStep ==
  ASSUME TypeOK, TypeOK', IndexSound, PassesSound, [Next]_vars
  PROVE  /\ IndexSound' /\ PassesSound'
         /\ life' = life => /\ serialIndex \ serialIndex' \subseteq pruned'
                            /\ (serialIndex' \ serialIndex) \cap forgotten' = {}
<1> USE DEF storage, index, workers
<1> DEFINE Keeps == /\ serialIndex \ serialIndex' \subseteq pruned'
                    /\ (serialIndex' \ serialIndex) \cap forgotten' = {}
           Goal == IndexSound' /\ PassesSound' /\ (life' = life => Keeps)
<1>0. epoch \in Nat /\ removalEpoch \in Nat
  BY DEF TypeOK
<1>1. ASSUME IndexGuarantee, pass' = pass PROVE PassesSound'
  BY <1>1, PassStays DEF PassesSound
<1>2. ASSUME UNCHANGED <<inventory, pruned, index>>
      PROVE  IndexSound' /\ IndexGuarantee /\ Keeps
  BY SMTT(30), <1>0, <1>2 DEF IndexSound, IndexGuarantee
<1>3. CASE UNCHANGED vars
  BY <1>1, <1>2, <1>3 DEF vars
<1>4. CASE StartOp \/ OpStep \/ Reload \/ Peer
  <2>1. pass' = pass
    BY <1>4 DEF StartOp, StartIssue, StartImport, StartRevoke, StartRefresh,
       StartCleanup, StartCRL, Start, OpStep, OpWork, OpSlot, OpGivesUp, OpSign,
       OpAppend, OpAppendFails, OpPrune, OpPruneNothing, OpRead, OpReadNothing,
       OpWrite, OpWriteFails, Reload, Peer, PeerAppend, PeerRevoke, PeerPrune,
       PeerTrim
  <2> QED
    BY <1>1, <1>4, <2>1, OpIndex
<1>5. CASE \E c \in Clients : Client(c)
  BY <1>1, <1>2, <1>5 DEF Client, Ask, TakeSlot, Shed, Sign, Store
<1>6. CASE \E k \in Certs \X Hashes : Lapse(k)
  BY <1>1, <1>2, <1>6 DEF Lapse
<1>7. CASE \E q \in Polls : Poll(q)
  BY <1>1, <1>2, <1>7 DEF Poll, PollRead, PollInstall
<1>8. ASSUME NEW p \in Passes, IndexGuarantee, PassSound(p)',
             \A o \in Passes \ {p} : pass'[o] = pass[o]
      PROVE  PassesSound'
  <2> SUFFICES ASSUME NEW o \in Passes PROVE PassSound(o)'
    BY DEF PassesSound
  <2>1. CASE o = p
    BY <1>8, <2>1
  <2>2. CASE o # p
    BY <1>8, <2>2, PassStays DEF PassesSound
  <2> QED
    BY <2>1, <2>2
<1>9. ASSUME NEW p \in Passes, Sample(p) PROVE Goal
  <2>1. PassSound(p)'
    BY SMTT(30), <1>0, <1>9 DEF Sample, PassSound, TypeOK
  <2>2. \A o \in Passes \ {p} : pass'[o] = pass[o]
    BY <1>9 DEF Sample, TypeOK
  <2> QED
    BY <1>2, <1>8, <1>9, <2>1, <2>2 DEF Sample
<1>10. ASSUME NEW p \in Passes, ReadInventory(p) PROVE Goal
  <2>1. \A o \in Passes \ {p} : pass'[o] = pass[o]
    BY <1>10 DEF ReadInventory, TypeOK
  <2>2. CASE pass'[p] = NoPass
    BY SMTT(30), <1>2, <1>8, <1>10, <2>1, <2>2 DEF ReadInventory, PassSound, NoPass
  <2>3. CASE pass' = [pass EXCEPT ![p].at = "apply", ![p].stored = inventory]
    <3>1. pass[p] \in PassStates
      BY SMTT(30), <1>10 DEF ReadInventory, TypeOK, NoPass
    <3>2. /\ pass'[p].at = "apply" /\ pass'[p].stored = inventory
          /\ pass'[p].epoch = pass[p].epoch
          /\ pass'[p].removalEpoch = pass[p].removalEpoch
      BY <2>3, <3>1 DEF TypeOK, PassStates
    <3>3. pass[p].epoch <= epoch /\ pass[p].removalEpoch <= removalEpoch
      BY <1>10 DEF ReadInventory, PassesSound, PassSound
    <3>4. UNCHANGED <<inventory, pruned, index, life>>
      BY <1>10 DEF ReadInventory
    <3>5. PassSound(p)'
      BY <3>2, <3>3, <3>4 DEF PassSound, IndexSound
    <3> QED
      BY <1>2, <1>8, <2>1, <3>4, <3>5
  <2> QED
    BY <1>10, <2>2, <2>3 DEF ReadInventory, TypeOK
<1>11. ASSUME NEW p \in Passes, Apply(p) PROVE Goal
  <2>1. IndexSound' /\ IndexGuarantee /\ Keeps
    BY <1>11, ApplyIndex DEF PassesSound
  <2>2. pass' = [pass EXCEPT ![p] = NoPass]
    BY <1>11 DEF Apply, Reconcile
  <2>3. PassSound(p)' /\ \A o \in Passes \ {p} : pass'[o] = pass[o]
    BY <2>2 DEF PassSound, NoPass, TypeOK
  <2> QED
    BY <1>8, <2>1, <2>3
<1>12. CASE Restart
  <2>1. IndexSound'
    BY <1>12 DEF Restart, IndexSound
  <2>2. PassesSound'
    BY <1>12 DEF Restart, PassesSound, PassSound, NoPass
  <2>3. life' # life
    BY SMTT(30), <1>12 DEF Restart, TypeOK
  <2> QED
    BY <2>1, <2>2, <2>3
<1> QED
  BY <1>3, <1>4, <1>5, <1>6, <1>7, <1>9, <1>10, <1>11, <1>12 DEF Next, Pass

-----------------------------------------------------------------------------
(* The theorems about the index *)

\* The index and the passes are sound to begin with, and in every reachable state.
LEMMA AlwaysSound == Spec => [](IndexSound /\ PassesSound)
<1>1. Init => IndexSound /\ PassesSound
  BY SMTT(30) DEF Init, IndexSound, PassesSound, PassSound, NoPass
<1>2. /\ TypeOK /\ TypeOK' /\ IndexSound /\ PassesSound /\ [Next]_vars
      => IndexSound' /\ PassesSound'
  BY IndexStep
<1> QED
  BY <1>1, <1>2, TypeCorrectness, PTL DEF Spec

\* reconcileSerialIndexLocked with any stale read, and every other step, keeps the
\* serials that were never pruned.
THEOREM IndexKeepsSerials == Spec => IndexNeverForgets
<1>1. TypeOK /\ TypeOK' /\ IndexSound /\ PassesSound /\ [Next]_vars =>
        [life' = life => serialIndex \ serialIndex' \subseteq pruned']_vars
  BY IndexStep
<1> QED
  BY <1>1, TypeCorrectness, AlwaysSound, PTL DEF Spec, IndexNeverForgets

\* No pass brings back a serial that the process has let go and storage has not
\* held since.
THEOREM PrunedAreKeptOut == Spec => PrunedStaysOut
<1>1. TypeOK /\ TypeOK' /\ IndexSound /\ PassesSound /\ [Next]_vars =>
        [life' = life => (serialIndex' \ serialIndex) \cap forgotten' = {}]_vars
  BY IndexStep
<1> QED
  BY <1>1, TypeCorrectness, AlwaysSound, PTL DEF Spec, PrunedStaysOut

-----------------------------------------------------------------------------
(* The serving certificate *)

CONSTANTS Replicas, Overlap, BackoffCap, MaxIssued

VARIABLES store, issued, retired, revoked, now, lost, lock, run, fails, holder, passed, blind,
          restarts

Serving == INSTANCE ServingCert

\* What is known of a certificate that the store holds.
Unretired(s) == s > 0 => s <= issued /\ s \notin revoked \ lost /\ retired[s] = -1

ServingShape ==
  /\ issued \in Nat /\ issued <= MaxIssued /\ now \in Nat /\ revoked \subseteq 1..issued /\ lost \subseteq revoked
  /\ retired \in [1..MaxIssued -> Int]
  /\ \A s \in 1..MaxIssued :
       retired[s] = -1 \/ (retired[s] >= 0 /\ retired[s] <= now /\ s <= issued /\ s \notin lost)
  /\ store \in Int /\ Unretired(store)
  /\ \A f \in {run, op, holder, passed, blind} : DOMAIN f = Replicas

\* A pass that has read the store holds the lock, and what it read is still there.
Passing(r) ==
  op[r].pc = "loaded" =>
    /\ lock = r /\ op[r].read = store
    /\ store > 0 => holder[r] = store
    /\ store > 0 \/ blind[r]

\* A listening replica that can read the store presents what the store holds, or
\* what was replaced in this interval, or in the last one and it has yet to look.
Presents(r) ==
  /\ holder[r] \in Int /\ holder[r] >= 0 /\ holder[r] <= issued
  /\ run[r] = "bound" => holder[r] > 0
  /\ holder[r] \in revoked \ lost =>
       retired[holder[r]] >= 0 /\ now - retired[holder[r]] >= Overlap
  /\ run[r] = "bound" /\ ~blind[r] =>
       \/ retired[holder[r]] = -1
       \/ retired[holder[r]] = now
       \/ retired[holder[r]] = now - 1 /\ ~passed[r]

ServingInv == ServingShape /\ \A r \in Replicas : Passing(r) /\ Presents(r)

\* No replica runs, and the store holds no certificate or one nobody revoked.
LEMMA ServingInit ==
  ASSUME MaxIssued \in Nat, Serving!Init PROVE ServingInv
BY SMTT(30) DEF Serving!Init, Serving!Absent, Serving!Unusable, Serving!Idle, Serving!Free,
   ServingInv, ServingShape, Passing, Presents, Unretired

\* Every step keeps the invariant: a pass reads, installs and saves under the subject's
\* lock (CA.reconcileManagedCert, newServingCert), and one comes every interval.
LEMMA ServingStep ==
  ASSUME Serving!Free \notin Replicas, MaxIssued \in Nat, Overlap \in Nat,
         ServingInv, Serving!Next
  PROVE  ServingInv'
<1> USE DEF ServingInv, ServingShape, Passing, Presents, Unretired, Serving!certs,
            Serving!Fault
<1>1. ASSUME NEW r \in Replicas, Serving!Start(r) PROVE ServingInv'
  BY SMTT(30), <1>1 DEF Serving!Start
<1>2. ASSUME NEW r \in Replicas, Serving!Load(r) PROVE ServingInv'
  <2>1. /\ UNCHANGED <<store, issued, retired, revoked, now, lost, run, passed>>
        /\ lock = Serving!Free /\ lock' = r
        /\ op' = [op EXCEPT ![r] = [pc |-> "loaded", read |-> store]]
        /\ holder' = [holder EXCEPT ![r] = IF store > 0 THEN store ELSE @]
        /\ blind' = [blind EXCEPT ![r] = store <= 0]
    BY <1>2 DEF Serving!Load, Serving!install
  <2>0. DOMAIN op = Replicas /\ DOMAIN holder = Replicas /\ DOMAIN blind = Replicas
    BY DEF ServingShape
  <2>c. store > 0 \/ store <= 0
    BY ONLY SMTT(30), ServingInv DEF ServingInv, ServingShape
  <2>a. /\ op'[r].pc = "loaded" /\ op'[r].read = store
        /\ holder'[r] = IF store > 0 THEN store ELSE holder[r]
        /\ store > 0 \/ blind'[r]
    BY ONLY ZenonT(60), <2>0, <2>1, <2>c, <1>2
  <2>b. ASSUME NEW x \in Replicas, x # r
        PROVE  op'[x] = op[x] /\ holder'[x] = holder[x] /\ blind'[x] = blind[x]
    BY ONLY ZenonT(60), <2>0, <2>1, <2>b
  <2>2. ServingShape'
    BY ONLY SMTT(30), <2>1, ServingInv DEF ServingInv, ServingShape, Unretired
  <2>3. ASSUME NEW x \in Replicas PROVE Passing(x)'
    <3>1. CASE x = r
      BY ONLY ZenonT(60), <2>a, <3>1, <2>1 DEF Passing
    <3>2. CASE x # r
      BY ONLY ZenonT(60), <2>b, <3>2, <2>1, <2>3, ServingInv, Serving!Free \notin Replicas
         DEF ServingInv, Passing
    <3> QED BY <3>1, <3>2
  <2>4. ASSUME NEW x \in Replicas PROVE Presents(x)'
    <3>1. CASE x = r /\ store > 0
      BY ONLY SMTT(30), <2>1, <2>4, <3>1, ServingInv DEF ServingInv, ServingShape, Presents,
         Unretired
    <3>2. CASE ~(x = r /\ store > 0)
      <4>1. holder'[x] = holder[x] /\ (blind'[x] \/ blind'[x] = blind[x])
        BY ONLY ZenonT(60), <2>a, <2>b, <2>4, <3>2
      <4> QED BY ONLY ZenonT(60), <2>1, <2>4, <4>1, ServingInv DEF ServingInv, Presents
    <3> QED BY <3>1, <3>2
  <2> QED BY ONLY ZenonT(60), <2>2, <2>3, <2>4 DEF ServingInv
<1>3. ASSUME NEW r \in Replicas, Serving!PassFails(r) PROVE ServingInv'
  BY SMTT(30), <1>3 DEF Serving!PassFails, Serving!MayPass
<1>4. ASSUME NEW r \in Replicas, Serving!Current(r) PROVE ServingInv'
  BY SMTT(30), <1>4 DEF Serving!Current, Serving!EndPass, Serving!Idle, Serving!Absent
<1>5. ASSUME NEW r \in Replicas, Serving!Save(r) PROVE ServingInv'
  BY SMTT(30), <1>5 DEF Serving!Save, Serving!EndPass, Serving!Idle, Serving!Absent, Serving!install
<1>6. ASSUME NEW r \in Replicas, Serving!SaveFails(r) PROVE ServingInv'
  <2>1. /\ UNCHANGED <<retired, now, run, holder, blind>>
        /\ op[r].pc = "loaded" /\ op' = [op EXCEPT ![r] = Serving!Idle]
        /\ passed' = [passed EXCEPT ![r] = TRUE]
        /\ issued < MaxIssued /\ issued' = issued + 1
        /\ revoked' = revoked \/ revoked' = revoked \cup {issued + 1}
        /\ \/ (store' = store \/ store' = Serving!Unusable) /\ lost' = lost
           \/ store' = issued + 1 /\ lost' = lost \cup ({issued + 1} \cap revoked')
    BY <1>6 DEF Serving!SaveFails, Serving!EndPass
  <2>2. ServingShape'
    <3>1. /\ issued' \in Nat /\ issued' <= MaxIssued /\ now' \in Nat
          /\ revoked' \subseteq 1..issued' /\ lost' \subseteq revoked'
      <4>1. issued' \in Nat /\ issued' <= MaxIssued /\ now' \in Nat
        BY ONLY SMTT(30), <2>1, ServingInv, MaxIssued \in Nat DEF ServingInv, ServingShape
      <4>2. 1..issued \subseteq 1..issued' /\ issued + 1 \in 1..issued'
        BY ONLY SMTT(30), <2>1, ServingInv DEF ServingInv, ServingShape
      <4>3. revoked \subseteq 1..issued /\ lost \subseteq revoked
        BY ONLY ZenonT(60), ServingInv DEF ServingInv, ServingShape
      <4> QED BY ONLY ZenonT(60), <2>1, <4>1, <4>2, <4>3
    <3>2. /\ retired' \in [1..MaxIssued -> Int]
          /\ \A s \in 1..MaxIssued :
               \/ retired'[s] = -1
               \/ retired'[s] >= 0 /\ retired'[s] <= now' /\ s <= issued' /\ s \notin lost'
      BY ONLY SMTT(30), <2>1, ServingInv, MaxIssued \in Nat DEF ServingInv, ServingShape
    <3>3. store' \in Int /\ Unretired(store)'
      BY ONLY SMTT(30), <2>1, ServingInv, MaxIssued \in Nat
         DEF ServingInv, ServingShape, Unretired, Serving!Unusable
    <3>4. \A f \in {run', op', holder', passed', blind'} : DOMAIN f = Replicas
      BY ONLY ZenonT(60), <2>1, ServingInv DEF ServingInv, ServingShape
    <3> QED BY ONLY ZenonT(60), <3>1, <3>2, <3>3, <3>4 DEF ServingShape
  <2>3. ASSUME NEW x \in Replicas PROVE Passing(x)'
    <3>1. DOMAIN op = Replicas /\ lock = r
      BY ONLY ZenonT(60), <2>1, ServingInv, r \in Replicas
         DEF ServingInv, ServingShape, Passing
    <3>2. op'[x].pc # "loaded"
      <4>1. CASE x = r
        BY ONLY ZenonT(60), <2>1, <3>1, <4>1, <2>3 DEF Serving!Idle
      <4>2. CASE x # r
        BY ONLY ZenonT(60), <2>1, <2>3, <3>1, <4>2, ServingInv DEF ServingInv, Passing
      <4> QED BY <4>1, <4>2
    <3> QED BY ONLY ZenonT(60), <3>2 DEF Passing
  <2>4. ASSUME NEW x \in Replicas PROVE Presents(x)'
    <3>1. /\ holder[x] \in Int /\ holder[x] <= issued /\ holder[x] <= issued + 1
          /\ holder[x] # issued + 1
      BY ONLY SMTT(30), <2>4, ServingInv DEF ServingInv, ServingShape, Presents
    <3>2. holder[x] \in revoked' \ lost' => holder[x] \in revoked \ lost
      BY ONLY ZenonT(60), <2>1, <3>1
    <3>3. run[x] = "bound" /\ ~blind[x] =>
            \/ retired[holder[x]] = -1
            \/ retired[holder[x]] = now
            \/ retired[holder[x]] = now - 1 /\ ~passed'[x]
      <4>1. CASE x = r
        <5>1. ~blind[r] => store > 0 /\ holder[r] = store
          BY ONLY ZenonT(60), <2>1, ServingInv, r \in Replicas DEF ServingInv, Passing
        <5>2. store > 0 => retired[store] = -1
          BY ONLY ZenonT(60), ServingInv DEF ServingInv, ServingShape, Unretired
        <5> QED BY ONLY ZenonT(60), <4>1, <5>1, <5>2
      <4>2. CASE x # r
        <5>1. passed'[x] = passed[x]
          BY ONLY ZenonT(60), <2>1, <2>4, <4>2, ServingInv DEF ServingInv, ServingShape
        <5> QED BY ONLY ZenonT(60), <5>1, <2>4, ServingInv DEF ServingInv, Presents
      <4> QED BY <4>1, <4>2
    <3> QED BY ONLY ZenonT(60), <2>1, <2>4, <3>1, <3>2, <3>3, ServingInv
            DEF ServingInv, Presents
  <2> QED BY ONLY ZenonT(60), <2>2, <2>3, <2>4 DEF ServingInv
<1>7. ASSUME NEW r \in Replicas, Serving!Provision(r) PROVE ServingInv'
  <2>1. CASE store > 0
    BY SMTT(30), <1>7, <2>1 DEF Serving!Provision, Serving!Bind, Serving!install
  <2>2. CASE ~(store > 0)
    BY SMTT(30), <1>7, <2>2 DEF Serving!Provision, Serving!Bind, Serving!install
  <2> QED BY <2>1, <2>2
<1>8. ASSUME NEW r \in Replicas, Serving!ProvisionFails(r) PROVE ServingInv'
  BY SMTT(30), <1>8 DEF Serving!ProvisionFails, Serving!Absent
<1>9. ASSUME NEW r \in Replicas, Serving!Crash(r) PROVE ServingInv'
  BY SMTT(30), <1>9 DEF Serving!Crash, Serving!Absent, Serving!Idle
<1>10. CASE Serving!Sweep
  BY SMTT(30), <1>10 DEF Serving!Sweep
<1>11. CASE Serving!Tick
  <2>1. /\ UNCHANGED <<store, issued, retired, revoked, lost, lock, run, op, holder, blind>>
        /\ now' = now + 1
        /\ \A r \in Replicas : run[r] = "bound" => passed[r] /\ ~passed'[r]
        /\ DOMAIN passed' = Replicas
    BY <1>11 DEF Serving!Tick
  <2>2. ServingShape'
    BY ONLY SMTT(30), <2>1, ServingInv DEF ServingInv, ServingShape, Unretired
  <2>3. ASSUME NEW x \in Replicas PROVE Passing(x)'
    BY ONLY ZenonT(60), <2>1, <2>3, ServingInv DEF ServingInv, Passing
  <2>4. ASSUME NEW x \in Replicas PROVE Presents(x)'
    <3>1. now \in Int /\ now + 1 - 1 = now
      BY ONLY SMTT(30), ServingInv DEF ServingInv, ServingShape
    <3>2. ASSUME holder[x] \in revoked \ lost
          PROVE  retired[holder[x]] \in Int /\ now + 1 - retired[holder[x]] >= Overlap
      <4>1. retired[holder[x]] \in Int
        BY ONLY SMTT(30), <3>2, ServingInv, MaxIssued \in Nat DEF ServingInv, ServingShape
      <4>2. now - retired[holder[x]] >= Overlap
        BY ONLY ZenonT(60), <2>4, <3>2, ServingInv DEF ServingInv, Presents
      <4> QED BY ONLY SMTT(30), <3>1, <4>1, <4>2, Overlap \in Nat
    <3>3. Presents(x)
      BY ONLY ZenonT(60), <2>4, ServingInv DEF ServingInv
    <3>4. run[x] = "bound" /\ ~blind[x] =>
            retired[holder[x]] = -1 \/ retired[holder[x]] = now + 1 - 1
      BY ONLY ZenonT(60), <2>1, <2>4, <3>1, <3>3 DEF Presents
    <3>5. /\ holder'[x] = holder[x] /\ blind'[x] = blind[x] /\ run'[x] = run[x]
          /\ retired' = retired /\ revoked' = revoked /\ lost' = lost /\ issued' = issued
      BY ONLY ZenonT(60), <2>1
    <3>6. run[x] = "bound" => ~passed'[x]
      BY ONLY ZenonT(60), <2>1, <2>4
    <3>7. holder'[x] \in revoked' \ lost' =>
            retired'[holder'[x]] >= 0 /\ now' - retired'[holder'[x]] >= Overlap
      BY ONLY SMTT(30), <2>1, <3>1, <3>2, <3>3, <3>5 DEF Presents
    <3>8. run'[x] = "bound" /\ ~blind'[x] =>
            retired'[holder'[x]] = -1 \/ (retired'[holder'[x]] = now' - 1 /\ ~passed'[x])
      <4>1. now' - 1 = now + 1 - 1
        BY ONLY SMTT(30), <3>1, <2>1
      <4> QED BY ONLY ZenonT(60), <3>4, <3>5, <3>6, <4>1
    <3> QED BY ONLY ZenonT(60), <3>3, <3>5, <3>7, <3>8 DEF Presents
  <2> QED BY ONLY ZenonT(60), <2>2, <2>3, <2>4 DEF ServingInv
<1>12. CASE Serving!Spoil
  BY SMTT(30), <1>12 DEF Serving!Spoil, Serving!Unusable, Serving!Free
<1> QED BY <1>1, <1>2, <1>3, <1>4, <1>5, <1>6, <1>7, <1>8, <1>9, <1>10, <1>11, <1>12
        DEF Serving!Next

\* A replica that listens has a certificate to present (servingCertHolder), and while its
\* reads succeed never one that was revoked, whoever renews, fails or restarts meanwhile,
\* provided the overlap before a replaced certificate is revoked covers two intervals
\* and its own write was not taken for a failure (CA.reconcileManagedCert, newServingCert's
\* Load).
THEOREM ServingStaysValid ==
  ASSUME Serving!Free \notin Replicas, MaxIssued \in Nat, Overlap \in Nat, Overlap >= 2
  PROVE  Serving!Spec => [](Serving!ListenerHasACertificate /\ Serving!NeverPresentsRevoked)
<1>1. ServingInv /\ UNCHANGED Serving!vars => ServingInv'
  BY DEF ServingInv, ServingShape, Passing, Presents, Unretired, Serving!vars
<1>2. ServingInv => Serving!ListenerHasACertificate /\ Serving!NeverPresentsRevoked
  <2>1. ASSUME ServingInv, NEW r \in Replicas, run[r] = "bound",
               holder[r] \in revoked \ lost
        PROVE  blind[r]
    <3>1. retired[holder[r]] \in Int /\ holder[r] \in 1..MaxIssued
      BY SMTT(30), <2>1 DEF ServingInv, ServingShape, Presents
    <3>2. ~(retired[holder[r]] = -1 \/ retired[holder[r]] = now \/ retired[holder[r]] = now - 1)
      BY SMTT(30), <2>1, <3>1 DEF ServingInv, ServingShape, Presents
    <3> QED BY <2>1, <3>2 DEF ServingInv, Presents
  <2> QED BY <2>1 DEF ServingInv, Presents, Serving!ListenerHasACertificate,
                      Serving!NeverPresentsRevoked
<1> QED BY <1>1, <1>2, ServingInit, ServingStep, PTL DEF Serving!Spec
=============================================================================
