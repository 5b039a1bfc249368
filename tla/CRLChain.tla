------------------------------ MODULE CRLChain ------------------------------
(***************************************************************************)
(* The CRLs of the CA's ancestors, which every replica publishes behind    *)
(* its own from a file an operator maintains on its host                   *)
(* (internal/ca/crlchainfile.go, internal/ca/crlchain.go,                  *)
(* cmd/openvox-ca/crl_chain_refresh.go).  The CA cannot re-sign another    *)
(* CA's list, so what the file last said is all there is.                  *)
(*                                                                         *)
(* A CRL is [by, num, at]: the certificate that signed it, its number (0   *)
(* when it has none) and its thisUpdate.  A file is missing, or a sequence *)
(* of CRLs that may be cut off.  Each replica has a file of its own.       *)
(***************************************************************************)
EXTENDS Integers, Sequences, FiniteSets, SequencesExt

CONSTANTS Replicas,
          Ancestors,          \* certificates that may be in the CA bundle
          Files,              \* contents the file is given
          Published,          \* upstream parts of the chain at the start
          MaxFileEntries,     \* maxCRLChainFileEntries
          ReadSlots,          \* crlChainReadSlots
          MaxEdits, MaxFaults

VARIABLES upstream,     \* what is published behind the CA's own CRL
          bundle,       \* certificates of the stored CA bundle
          file,         \* crl_chain_file on each host
          hung,         \* reads on that path do not return
          reads,        \* slots of crlChainReadSem taken
          lock,         \* holder of the crl lock
          op,           \* the operation each replica runs
          edits, faults

vars == <<upstream, bundle, file, hung, reads, lock, op, edits, faults>>

Own == "own"
None == "none"
Missing == [there |-> FALSE, whole |-> TRUE, crls |-> <<>>]
Idle == [pc |-> "idle", kind |-> None, pass |-> None, blob |-> <<>>,
         seen |-> Missing]

Init ==
  /\ upstream \in Published
  /\ bundle \in {a \cup {Own} : a \in SUBSET Ancestors}
  /\ \E f \in Files : file = [r \in Replicas |-> f]
  /\ hung = [r \in Replicas |-> FALSE]
  /\ reads = [r \in Replicas |-> 0]
  /\ lock = None /\ op = [r \in Replicas |-> Idle]
  /\ edits = 0 /\ faults = 0

----------------------------------------------------------------------------
(***************************************************************************)
(* What the file says.                                                     *)
(***************************************************************************)
newerCRL(a, b) ==
  CASE a.num # 0 /\ b.num # 0 -> a.num > b.num
    [] a.num # 0              -> TRUE
    [] b.num # 0              -> FALSE
    [] OTHER                  -> a.at > b.at

\* decodeCRLChainStrict: too many entries, or a file cut off, is refused.
decodeCRLChainStrict(f) == f.whole /\ Len(f.crls) <= MaxFileEntries

\* The CRLs some certificate of the bundle signed; the CA's own is not taken
\* from the file.
verified(crls) == SelectSeq(crls, LAMBDA c : c.by \in bundle \ {Own})

Newest(crls, s) ==
  CHOOSE c \in ToSet(crls) :
    c.by = s /\ \A d \in ToSet(crls) : d.by = s => ~newerCRL(d, c)

Signers(crls) == {c.by : c \in ToSet(crls)}

\* dedupeCRLs: one per signer, the newest, where the first one stood.
dedupeCRLs(crls) ==
  LET first == {i \in DOMAIN crls : \A j \in 1..(i - 1) : crls[j].by # crls[i].by}
      order == SetToSortSeq(first, LAMBDA i, j : i < j)
  IN  [k \in DOMAIN order |-> Newest(crls, crls[order[k]].by)]

\* Mutant: a CRL without a number replaces any.
monotonicUpstream_Number(published, incoming) ==
  [i \in DOMAIN incoming |->
    LET s == incoming[i].by
    IN  IF s \in Signers(published) /\ incoming[i].num # 0
             /\ newerCRL(Newest(published, s), incoming[i])
        THEN Newest(published, s) ELSE incoming[i]]

\* monotonicUpstream: what is published stays where the file has an older one.
monotonicUpstream(published, incoming) ==
  [i \in DOMAIN incoming |->
    LET s == incoming[i].by
    IN  IF s \in Signers(published) /\ newerCRL(Newest(published, s), incoming[i])
        THEN Newest(published, s) ELSE incoming[i]]

\* upstreamCRLs of a readable, well-formed file.
upstreamCRLs(published, f) ==
  monotonicUpstream(published, dedupeCRLs(verified(f.crls)))

----------------------------------------------------------------------------
Fault == faults < MaxFaults /\ faults' = faults + 1
NoFault == UNCHANGED faults

Leave(r) == lock' = None /\ op' = [op EXCEPT ![r] = Idle]

\* Any writer of the CRL (a revocation, a refresh) takes the crl lock, reads
\* the stored chain and goes through crlChainLocked; RefreshCRLChainFile first
\* evaluates the file to decide whether to write.
Begin(r, kind) ==
  /\ op[r].pc = "idle" /\ lock = None
  /\ lock' = r
  /\ op' = [op EXCEPT ![r] = [Idle EXCEPT !.pc = "open", !.kind = kind,
              !.pass = IF kind = "refresh" THEN "deciding" ELSE "publishing",
              !.blob = upstream]]
  /\ UNCHANGED <<upstream, bundle, file, hung, reads, edits, faults>>

\* readCRLChainFile: a read runs in a goroutine and takes a slot.
Open(r) ==
  /\ op[r].pc = "open"
  /\ IF reads[r] < ReadSlots
     THEN /\ reads' = [reads EXCEPT ![r] = @ + 1]
          /\ op' = [op EXCEPT ![r].pc = "read"]
          /\ UNCHANGED lock
     ELSE Leave(r) /\ UNCHANGED reads
  /\ UNCHANGED <<upstream, bundle, file, hung, edits, faults>>

\* The read returns; its goroutine frees the slot.
Read(r) ==
  /\ op[r].pc = "read" /\ ~hung[r]
  /\ reads' = [reads EXCEPT ![r] = @ - 1]
  /\ op' = [op EXCEPT ![r].pc = "evaluate", ![r].seen = file[r]]
  /\ UNCHANGED <<upstream, bundle, file, hung, lock, edits, faults>>

\* crlChainReadTimeout: the operation fails, the goroutine keeps its slot.
ReadTimesOut(r) ==
  /\ op[r].pc = "read" /\ hung[r]
  /\ Leave(r)
  /\ UNCHANGED <<upstream, bundle, file, hung, reads, edits, faults>>

InFlight(r) == IF op[r].pc = "read" THEN 1 ELSE 0

\* A stranded read returns to nobody.
StrandedReturns(r) ==
  /\ ~hung[r] /\ reads[r] > InFlight(r)
  /\ reads' = [reads EXCEPT ![r] = @ - 1]
  /\ UNCHANGED <<upstream, bundle, file, hung, lock, op, edits, faults>>

\* Bad content, or a bundle that cannot be read, ends the operation.
Refused(r) ==
  /\ op[r].pc = "evaluate"
  /\ \/ op[r].seen.there /\ ~decodeCRLChainStrict(op[r].seen) /\ NoFault
     \/ op[r].seen.there /\ Fault
  /\ Leave(r)
  /\ UNCHANGED <<upstream, bundle, file, hung, reads, edits>>

\* The deciding pass: nothing stated, or nothing changed, writes nothing.
Decide(r) ==
  /\ op[r].pc = "evaluate" /\ op[r].pass = "deciding"
  /\ op[r].seen.there => decodeCRLChainStrict(op[r].seen)
  /\ IF op[r].seen.there /\ upstreamCRLs(op[r].blob, op[r].seen) # op[r].blob
     THEN op' = [op EXCEPT ![r].pc = "open", ![r].pass = "publishing"]
          /\ UNCHANGED lock
     ELSE Leave(r)
  /\ UNCHANGED <<upstream, bundle, file, hung, reads, edits, faults>>

\* crlChainLocked and the write: a missing file keeps what is published.
Publish(r) ==
  /\ op[r].pc = "evaluate" /\ op[r].pass = "publishing"
  /\ op[r].seen.there => decodeCRLChainStrict(op[r].seen)
  /\ upstream' = IF op[r].seen.there
                 THEN upstreamCRLs(op[r].blob, op[r].seen) ELSE op[r].blob
  /\ Leave(r)
  /\ UNCHANGED <<bundle, file, hung, reads, edits, faults>>

\* The write fails, or the process dies: its reads die with it.
Fails(r) ==
  /\ op[r].pc # "idle" /\ Fault
  /\ Leave(r)
  /\ reads' = [reads EXCEPT ![r] = 0]
  /\ UNCHANGED <<upstream, bundle, file, hung, edits>>

----------------------------------------------------------------------------
Edit == edits < MaxEdits /\ edits' = edits + 1

\* Whatever distributes the file replaces it, on each host in its own time.
Rewrite(r) ==
  /\ Edit
  /\ \E f \in Files \ {file[r]} : file' = [file EXCEPT ![r] = f]
  /\ UNCHANGED <<upstream, bundle, hung, reads, lock, op, faults>>

\* The file system under the path stops answering, and comes back.
Hang(r) ==
  /\ ~hung[r] /\ Edit
  /\ hung' = [hung EXCEPT ![r] = TRUE]
  /\ UNCHANGED <<upstream, bundle, file, reads, lock, op, faults>>

Recovers(r) ==
  /\ hung[r]
  /\ hung' = [hung EXCEPT ![r] = FALSE]
  /\ UNCHANGED <<upstream, bundle, file, reads, lock, op, edits, faults>>

\* The bundle is imported again with the missing ancestors.
ImportBundle ==
  /\ ~ Ancestors \subseteq bundle /\ Edit
  /\ bundle' = Ancestors \cup {Own}
  /\ UNCHANGED <<upstream, file, hung, reads, lock, op, faults>>

Pass(r) ==
  \/ Open(r) \/ Read(r) \/ ReadTimesOut(r) \/ Refused(r) \/ Decide(r) \/ Publish(r)

Next ==
  \/ \E r \in Replicas :
       \/ \E kind \in {"revoke", "refresh"} : Begin(r, kind)
       \/ Pass(r) \/ Fails(r) \/ StrandedReturns(r)
       \/ Rewrite(r) \/ Hang(r) \/ Recovers(r)
  \/ ImportBundle

Spec == Init /\ [][Next]_vars

----------------------------------------------------------------------------
\* Types, and the bound on reads stranded on a path that does not answer.
TypeOK ==
  /\ \A i \in DOMAIN upstream : upstream[i].num \in Nat /\ upstream[i].at \in Nat
  /\ bundle \subseteq Ancestors \cup {Own}
  /\ \A r \in Replicas : reads[r] \in InFlight(r)..ReadSlots
  /\ lock \in Replicas \cup {None}

\* The published CRL of an ancestor is never replaced by an older one: not by
\* a file that was rolled back, not by a host whose file lags behind, not by
\* one that gains or loses the CRL number.
UpstreamNeverRegresses ==
  \A s \in Signers(upstream) \cap Signers(upstream') :
    s \in bundle => ~newerCRL(Newest(upstream, s), Newest(upstream', s))

\* An ancestor's CRL leaves the chain only when a file that was read whole does
\* not list it, or its certificate is not in the bundle: not because the file is
\* missing, cut off inside a block while it is rewritten, too large or unreadable.
DropsOnlyTheOmitted ==
  \A s \in (Signers(upstream) \cap bundle) \ Signers(upstream') :
    \E r \in Replicas : /\ lock = r /\ op[r].seen.there /\ op[r].seen.whole
                        /\ s \notin Signers(op[r].seen.crls)

\* A CRL that joins the chain is signed by another certificate of the bundle,
\* and is the newest that the file holds of its signer.
JoinsVerifiedAndNewest ==
  \A c \in ToSet(upstream') \ ToSet(upstream) :
    /\ c.by \in bundle \ {Own}
    /\ \A d \in ToSet(op[lock].seen.crls) : d.by = c.by => ~newerCRL(d, c)

\* The file on host r is one the CA accepts.
Stated(r) == file[r].there /\ decodeCRLChainStrict(file[r])

\* No certificate's CRL in the file is newer than the published one.
Caught(r) ==
  \A c \in ToSet(verified(file[r].crls)) :
    c.by \in Signers(upstream) /\ ~newerCRL(c, Newest(upstream, c.by))
=============================================================================
