----------------------------- MODULE Admission ------------------------------
(***************************************************************************)
(* Who a request is from and whether it is served: the trust domains, the  *)
(* revocation lists of the foreign one and their reload, and the           *)
(* authorisation of a request (internal/api/auth.go, trustdomain.go,       *)
(* clientcrl.go, cmd/openvox-ca/clientca.go).                              *)
(*                                                                         *)
(* Domain "own" is this CA; the other is a client_ca entry whose anchors   *)
(* publish CRLs.  Each anchor revokes serials 1, 2, ... in order.  A CRL   *)
(* is [by, num, at, next, partial, dead]; num is 0 when it has no number.  *)
(* A client is attributed to an issuer; its links are its verified chain:  *)
(* who issued each certificate below the anchor, and that one's serial.    *)
(* The presented certificate of an anchor itself has no links.             *)
(* An operator's tooling delivers any CRLs published so far, and the       *)
(* issuer's clock may run ahead of this host's.                            *)
(***************************************************************************)
EXTENDS Integers, FiniteSets, FiniteSetsExt

CONSTANTS Anchors,
          Numbered,       \* anchors whose CRLs carry a cRLNumber
          Ahead,          \* how far the issuers' clocks may be ahead
          Skew,           \* clockSkewTolerance
          Life,           \* from thisUpdate to nextUpdate
          Deltas,         \* whether the issuers publish partial CRLs too
          Policy,         \* client_revocation_policy
          Requests, Clients, Routes,
          AllowPublicStatus, ForeignAdmins, ForeignPpCliAuth,
          MaxNow, MaxCRLs, MaxFile, MaxChanges

VARIABLES now,
          revoked,        \* serials each anchor has revoked
          published,      \* every CRL the anchors have published
          file,           \* crl_file
          readable,
          installed,      \* the domain's ClientCRLSet
          ownDead,        \* serials this CA has revoked
          admins,         \* the own domain's allow list
          op,             \* requests
          changes

vars == <<now, revoked, published, file, readable, installed, ownDead, admins,
          op, changes>>

Own == "own"
Nobody == [issuer |-> "none", cn |-> "", links |-> {}, ppCli |-> FALSE]
Idle == [pc |-> "idle", route |-> "", subject |-> "", client |-> Nobody,
         barred |-> FALSE, granted |-> FALSE]

Init ==
  /\ now = 0
  /\ revoked = [a \in Anchors |-> 0]
  /\ published = {} /\ file = {} /\ readable = TRUE /\ installed = {}
  /\ ownDead = {} /\ admins = {"admin"}
  /\ op = [q \in Requests |-> Idle]
  /\ changes = 0

----------------------------------------------------------------------------
(***************************************************************************)
(* A set of CRLs, as the guards of a reload see it.                        *)
(***************************************************************************)
forIssuer(set, a) == {c \in set : c.by = a /\ ~c.partial}
partials(set, a) == {c \in set : c.by = a /\ c.partial}

notYetIssued(c) == c.at > now + Skew
currentAt(c) == c.next > now
anyValid(set, a) == \E c \in forIssuer(set, a) : ~notYetIssued(c) /\ currentAt(c)

\* freshness: two marks, the date over the CRLs this host believes only.
Numbers(set, a) == {c.num : c \in forIssuer(set, a)} \ {0}
Dates(set, a) == {c.at : c \in {d \in forIssuer(set, a) : ~notYetIssued(d)}}

\* Mutant: a set has gone back only when number and date have.
regressedFrom_Both(new, old, a) ==
  /\ Numbers(new, a) # {} /\ Numbers(old, a) # {}
  /\ Max(Numbers(new, a)) < Max(Numbers(old, a))
  /\ Dates(new, a) # {} /\ Dates(old, a) # {}
  /\ Max(Dates(new, a)) < Max(Dates(old, a))

regressedFrom(new, old, a) ==
  \/ /\ Numbers(new, a) # {} /\ Numbers(old, a) # {}
     /\ Max(Numbers(new, a)) < Max(Numbers(old, a))
  \/ /\ Dates(old, a) = {}
     /\ Numbers(new, a) = {} \/ Numbers(old, a) = {}
  \/ /\ Dates(old, a) # {} /\ Dates(new, a) # {}
     /\ Max(Dates(new, a)) < Max(Dates(old, a))

advancedOver(new, old, a) ==
  /\ Dates(new, a) # {} /\ Dates(old, a) # {}
  /\ Max(Dates(new, a)) > Max(Dates(old, a))
  /\ ~regressedFrom(new, old, a)

Regresses(old, new) ==
  \E a \in Anchors : /\ forIssuer(old, a) # {} /\ forIssuer(new, a) # {}
                     /\ regressedFrom(new, old, a)

losesCoverage(old, new) ==
  \E a \in Anchors : \/ forIssuer(old, a) # {} /\ forIssuer(new, a) = {}
                     \/ anyValid(old, a) /\ ~anyValid(new, a)

PartialsDropped(old, new) ==
  \E a \in Anchors :
    /\ Cardinality(partials(new, a)) < Cardinality(partials(old, a))
    /\ ~ /\ forIssuer(old, a) # {} /\ forIssuer(new, a) # {}
         /\ advancedOver(new, old, a)

\* forRevocationLookup: full CRLs, believed or not, and partial ones.
Dead(set, a) == UNION {c.dead : c \in {d \in set : d.by = a}}

----------------------------------------------------------------------------
(***************************************************************************)
(* Attribution and authorisation.                                          *)
(***************************************************************************)
lookupTier(route) ==
  CASE route \in {"healthz", "certificate", "crl", "submit", "ocsp",
                  "expirations"}                      -> "public"
    [] route = "status" /\ AllowPublicStatus          -> "public"
    [] route = "request"                              -> "self or admin"
    [] route = "renewal"                              -> "own client"
    [] OTHER                                          -> "admin"

Attributed(c) == c.issuer \in Anchors \cup {Own}

isAdmin(c) ==
  IF c.issuer = Own THEN c.cn \in admins \/ c.ppCli
  ELSE c.cn \in ForeignAdmins \/ (ForeignPpCliAuth /\ c.ppCli)

\* The whole chain below the anchor.  Only anchors have CRLs in the set: under
\* "check" the leaf of an intermediate is passed over and the intermediate is not;
\* under "require" such a chain, and a chain of one, is refused.
checkChainRevocation(c) ==
  \/ Policy = "skip"
  \/ /\ \A l \in c.links : l.serial \notin Dead(installed, l.by)
     /\ Policy = "require" =>
          c.links # {} /\ \A l \in c.links : anyValid(installed, l.by)

Unrevoked(c) ==
  IF c.issuer = Own THEN \A l \in c.links : l.serial \notin ownDead
  ELSE checkChainRevocation(c)

MayUse(q) ==
  LET o == op[q] IN
  CASE lookupTier(o.route) = "own client"    -> o.client.issuer = Own
    [] lookupTier(o.route) = "self or admin" ->
         isAdmin(o.client) \/ (o.client.issuer = Own /\ o.client.cn = o.subject)
    [] OTHER                                 -> isAdmin(o.client)

\* history: what is already known against the client when it arrives.
Barred(c) ==
  IF c.issuer = Own THEN \E l \in c.links : l.serial \in ownDead
  ELSE /\ Policy # "skip" /\ c.issuer \in Anchors
       /\ \E l \in c.links, d \in installed :
            d.by = l.by /\ ~d.partial /\ l.serial \in d.dead

\* history: what the configuration grants the client for this route.
Granted(route, subject, c, list) ==
  \/ lookupTier(route) = "own client" /\ c.issuer = Own
  \/ lookupTier(route) = "self or admin" /\ c.issuer = Own /\ c.cn = subject
  \/ c.issuer = Own /\ (c.cn \in list \/ c.ppCli)
  \/ c.issuer \in Anchors /\ (c.cn \in ForeignAdmins \/ (ForeignPpCliAuth /\ c.ppCli))

\* newAuthMiddleware up to the attribution of the certificate.
Arrive(q) ==
  /\ op[q].pc = "idle"
  /\ \E route \in Routes, c \in Clients \cup {Nobody}, s \in {"agent", "admin"} :
       op' = [op EXCEPT ![q] =
         [pc |-> IF lookupTier(route) = "public" THEN "served"
                 ELSE IF ~Attributed(c) THEN "denied" ELSE "revocation",
          route |-> route, subject |-> s, client |-> c, barred |-> Barred(c),
          granted |-> Granted(route, s, c, admins)]]
  /\ UNCHANGED <<now, revoked, published, file, readable, installed, ownDead,
                 admins, changes>>

\* This CA's own CRL may be unreadable: its client is denied then.
CheckRevocation(q) ==
  /\ op[q].pc = "revocation"
  /\ \E readFails \in IF op[q].client.issuer = Own THEN BOOLEAN ELSE {FALSE} :
       op' = [op EXCEPT ![q].pc =
         IF ~readFails /\ Unrevoked(op[q].client) THEN "authorise" ELSE "denied"]
  /\ UNCHANGED <<now, revoked, published, file, readable, installed, ownDead,
                 admins, changes>>

Authorise(q) ==
  /\ op[q].pc = "authorise"
  /\ op' = [op EXCEPT ![q].pc = IF MayUse(q) THEN "served" ELSE "denied"]
  /\ UNCHANGED <<now, revoked, published, file, readable, installed, ownDead,
                 admins, changes>>

Answered(q) ==
  /\ op[q].pc \in {"served", "denied"}
  /\ op' = [op EXCEPT ![q] = Idle]
  /\ UNCHANGED <<now, revoked, published, file, readable, installed, ownDead,
                 admins, changes>>

----------------------------------------------------------------------------
(***************************************************************************)
(* The issuers, the file and its reload.                                   *)
(***************************************************************************)
Newest(a) == {c \in published : c.by = a /\ ~c.partial}

Publish(a) ==
  /\ Cardinality(published) < MaxCRLs
  /\ revoked' = [revoked EXCEPT ![a] = @ + 1]
  /\ \E partial \in (IF Deltas /\ Newest(a) # {} THEN BOOLEAN ELSE {FALSE}),
        ahead \in 0..Ahead :
       LET k == revoked[a] + 1
           before == {c.at : c \in {d \in published : d.by = a}}
           \* an issuer's own clock does not go back
           at == Max({now + ahead} \cup before)
       IN \* without numbers, only the date tells two CRLs apart
          /\ a \in Numbered \/ at \notin before
          /\ at <= MaxNow              \* a bound: this host's clock gets there
          /\ published' = published \cup
            {[by |-> a, num |-> IF a \in Numbered THEN k ELSE 0,
              at |-> at, next |-> at + Life, partial |-> partial,
              dead |-> IF partial
                       THEN (1..k) \ UNION {c.dead : c \in Newest(a)} ELSE 1..k]}
  /\ UNCHANGED <<now, file, readable, installed, ownDead, admins, op, changes>>

Change == changes < MaxChanges /\ changes' = changes + 1

Deliver ==
  /\ Change
  /\ \/ /\ \E f \in SUBSET published :
             Cardinality(f) <= MaxFile /\ f # file /\ file' = f
        /\ readable' = TRUE
     \/ readable /\ readable' = FALSE /\ UNCHANGED file
  /\ UNCHANGED <<now, revoked, published, installed, ownDead, admins, op>>

\* refreshClientCRLs: an unreadable file, and one that would narrow the cover,
\* go back or drop a partial CRL, leaves the installed set alone.
Refused(candidate) ==
  \/ losesCoverage(installed, candidate)
  \/ Regresses(installed, candidate)
  \/ PartialsDropped(installed, candidate)

Reload ==
  /\ readable /\ file # installed /\ ~Refused(file)
  /\ installed' = file
  /\ UNCHANGED <<now, revoked, published, file, readable, ownDead, admins, op,
                 changes>>

\* This CA revokes a certificate of its own; SIGHUP brings another allow list.
RevokeOwn ==
  /\ Change
  /\ \E c \in Clients :
       /\ c.issuer = Own
       /\ ownDead' = ownDead \cup {l.serial : l \in c.links}
  /\ UNCHANGED <<now, revoked, published, file, readable, installed, admins, op>>

SetAdminCNs ==
  /\ Change
  /\ \E s \in {{}, {"admin"}, {"agent"}} :
       /\ s # admins /\ admins' = s
       /\ op' = [q \in Requests |->
            LET o == op[q] IN
            [o EXCEPT !.granted = @ \/ Granted(o.route, o.subject, o.client, s)]]
  /\ UNCHANGED <<now, revoked, published, file, readable, installed, ownDead>>

Tick ==
  /\ now < MaxNow /\ now' = now + 1
  /\ UNCHANGED <<revoked, published, file, readable, installed, ownDead, admins,
                 op, changes>>

Next ==
  \/ \E q \in Requests : Arrive(q) \/ CheckRevocation(q) \/ Authorise(q) \/ Answered(q)
  \/ \E a \in Anchors : Publish(a)
  \/ Deliver \/ Reload \/ RevokeOwn \/ SetAdminCNs \/ Tick

Spec == Init /\ [][Next]_vars

----------------------------------------------------------------------------
\* Requests past attribution carry a certificate of a configured domain, and the
\* installed lists are CRLs an anchor published.
TypeOK ==
  /\ now \in 0..MaxNow /\ revoked \in [Anchors -> Nat]
  /\ installed \subseteq published /\ file \subseteq published
  /\ \A q \in Requests :
       /\ op[q].pc \in {"idle", "revocation", "authorise", "served", "denied"}
       /\ op[q].pc \in {"revocation", "authorise"} =>
            op[q].client.issuer \in Anchors \cup {Own}

\* A full CRL whose place in the order of its issuer's CRLs this host can tell: it
\* has a number, or a date that is believed, or no other CRL has one either.
Ranked(c) ==
  c.by \in Numbered \/ ~notYetIssued(c) \/ Dates(installed, c.by) = {}

\* A reload never re-admits a client that an installed full CRL names, whatever
\* old copies the file is given and however the issuer's clock differs.  The one
\* exception: a CRL without a number and dated ahead, beside one that is not.
NoReadmission ==
  \A a \in Anchors : \A c \in forIssuer(installed, a) :
    Ranked(c) => c.dead \subseteq Dead(installed', a)

\* A serial that a partial CRL names is let go only by a file with as many partial
\* CRLs of that anchor, or with a full CRL dated later, and numbered no lower, than
\* each one believed before.  Neither need name the serial.
PartialsGoWithTheirBase ==
  \A a \in Anchors : \A p \in partials(installed, a) :
    \/ p.dead \subseteq Dead(installed', a)
    \/ Cardinality(partials(installed', a)) >= Cardinality(partials(installed, a))
    \/ /\ \E c \in forIssuer(installed', a) : /\ ~notYetIssued(c)
             /\ \A d \in forIssuer(installed, a) : ~notYetIssued(d) => c.at > d.at
       /\ \A d \in forIssuer(installed, a) : \E c \in forIssuer(installed', a) : c.num >= d.num

\* A client that was known to be revoked when its request arrived is served on
\* no route that asks for a certificate, although the lists are replaced while
\* the request is under way.
BarredIsNotServed ==
  \A q \in Requests :
    (op[q].pc = "served" /\ op[q].barred) => lookupTier(op[q].route) = "public"

\* A request is served beyond the public routes only under a grant of the
\* client's own domain, in force at some moment since it arrived: a name
\* granted to this CA's clients means nothing in another domain's certificate.
ServedUnderItsOwnGrant ==
  \A q \in Requests :
    (op[q].pc = "served" /\ lookupTier(op[q].route) # "public") =>
      op[q].granted

\* The file holds the latest full CRL of every anchor, and nothing else.
FullFile ==
  /\ readable
  /\ file = {c \in published : ~c.partial /\ c.dead = 1..revoked[c.by]}
=============================================================================
