----------------------------- MODULE SignerRPC -----------------------------
(***************************************************************************)
(* The connection between the frontend and the isolated signer             *)
(* (internal/signer/signer.go): each end reads the pre-shared key from the *)
(* pipe it inherited, the two prove it to each other, and the frontend's   *)
(* signatures then travel over one multiplexed net/rpc connection, each    *)
(* wait bounded by a timer, all of them by the signing slots of            *)
(* internal/ca/signbound.go.                                               *)
(*                                                                         *)
(* A proof is its label and the key it was made with; the nonces of one    *)
(* connection add nothing to it here.  Calls are numbered as net/rpc       *)
(* numbers them, and a signature is the number of the call whose digest it *)
(* signs.                                                                  *)
(***************************************************************************)
EXTENDS Integers, Sequences, FiniteSets

CONSTANTS Callers,
          Limit,                 \* ca_signing_concurrency
          MaxCalls

VARIABLES pipe,                  \* what fd 4 of each end holds
          psk, st,               \* what each end has read, and how far it is
          toSigner, toFrontend,  \* the socketpair, during the handshake
          call, mine,            \* what each caller does, and its call
          seq, refusable,
          pending,               \* the client's pending calls
          wire, work, replies,   \* requests sent, being signed, answered
          box, resp,             \* the Done channels and the responses
          got                    \* what each call returned

vars == <<pipe, psk, st, toSigner, toFrontend, call, mine, seq, refusable,
          pending, wire, work, replies, box, resp, got>>

hand == <<pipe, psk, st, toSigner, toFrontend>>
rpc == <<seq, refusable, pending, wire, work, replies, box, resp>>
callers == <<call, mine, got>>

Ends == {"signer", "frontend"}
Peer == [signer |-> "frontend", frontend |-> "signer"]
None == 0
Error == -1
Calls == 1..MaxCalls

(***************************************************************************)
(* A pipe holds the launcher's key, another key, something that does not   *)
(* decode, or nothing while a writer keeps it open.                        *)
(***************************************************************************)
Init ==
  /\ pipe \in [Ends -> {"key", "other", "junk", "held"}]
  /\ psk = [e \in Ends |-> "unread"] /\ st = [e \in Ends |-> "psk"]
  /\ toSigner = <<>> /\ toFrontend = <<>>
  /\ call = [c \in Callers |-> "idle"] /\ mine = [c \in Callers |-> None]
  /\ seq = 0 /\ refusable = {}
  /\ pending = {} /\ wire = {} /\ work = {} /\ replies = {}
  /\ box = [s \in Calls |-> None] /\ resp = [s \in Calls |-> None]
  /\ got = [s \in Calls |-> "none"]

----------------------------------------------------------------------------
(***************************************************************************)
(* loadPSK and the handshake.  A failure closes the connection, and the    *)
(* other end reads EOF once it has drained what was sent.                  *)
(***************************************************************************)
Closed(e) == st[e] = "closed"

To(e, s) == st' = [st EXCEPT ![e] = s]

\* parsePSK against the timer: a pipe that never ends is given up.
readPSK(e) ==
  /\ st[e] = "psk"
  /\ IF pipe[e] \in {"key", "other"}
     THEN To(e, "greet") /\ psk' = [psk EXCEPT ![e] = pipe[e]]
     ELSE To(e, "closed") /\ UNCHANGED psk
  /\ UNCHANGED <<pipe, toSigner, toFrontend, callers, rpc>>

handshakeProof(k, label) == [key |-> k, label |-> label]

\* A read that finds nothing and never will: the peer has closed its end.
EOF(e) == Closed(Peer[e]) /\ (IF e = "signer" THEN toSigner ELSE toFrontend) = <<>>

ReadFails(e) ==
  /\ \/ e = "frontend" /\ st[e] \in {"greet", "answer"}
     \/ e = "signer" /\ st[e] = "answer"
  /\ EOF(e) /\ To(e, "closed")
  /\ UNCHANGED <<pipe, psk, toSigner, toFrontend, callers, rpc>>

SendNonce ==
  /\ st["signer"] = "greet"
  /\ IF Closed("frontend") THEN To("signer", "closed") /\ UNCHANGED toFrontend
     ELSE To("signer", "answer") /\ toFrontend' = Append(toFrontend, "nonce")
  /\ UNCHANGED <<pipe, psk, toSigner, callers, rpc>>

clientHandshake ==
  /\ st["frontend"] = "greet" /\ toFrontend # <<>>
  /\ toFrontend' = Tail(toFrontend)
  /\ toSigner' = Append(toSigner, handshakeProof(psk["frontend"], "frontend"))
  /\ To("frontend", "answer")
  /\ UNCHANGED <<pipe, psk, callers, rpc>>

serverHandshake ==
  /\ st["signer"] = "answer" /\ toSigner # <<>>
  /\ toSigner' = Tail(toSigner)
  /\ IF Head(toSigner) = handshakeProof(psk["signer"], "frontend")
     THEN /\ To("signer", "up")
          /\ toFrontend' = Append(toFrontend, handshakeProof(psk["signer"], "signer"))
     ELSE To("signer", "closed") /\ UNCHANGED toFrontend
  /\ UNCHANGED <<pipe, psk, callers, rpc>>

DialConn ==
  /\ st["frontend"] = "answer" /\ toFrontend # <<>>
  /\ toFrontend' = Tail(toFrontend)
  /\ To("frontend", IF Head(toFrontend) = handshakeProof(psk["frontend"], "signer")
                    THEN "up" ELSE "closed")
  /\ UNCHANGED <<pipe, psk, toSigner, callers, rpc>>

----------------------------------------------------------------------------
(***************************************************************************)
(* RemoteSigner.Sign.  A caller takes a signing slot, sends its call and   *)
(* waits for the Done channel or the timer.                                *)
(***************************************************************************)
Using == Cardinality({c \in Callers : call[c] = "wait"})

Begin(c) ==
  /\ call[c] = "idle"
  /\ Cardinality({d \in Callers : call[d] = "slot"}) + seq < MaxCalls
  /\ st["frontend"] = "up" \/ seq > 0
  /\ call' = [call EXCEPT ![c] = "slot"]
  /\ UNCHANGED <<hand, rpc, mine, got>>

\* client.Go: on a connection that is down the call is done at once.
Send(c) ==
  /\ call[c] = "slot" /\ Using < Limit
  /\ seq' = seq + 1
  /\ call' = [call EXCEPT ![c] = "wait"] /\ mine' = [mine EXCEPT ![c] = seq + 1]
  /\ IF st["frontend"] = "up"
     THEN /\ pending' = pending \cup {seq + 1} /\ wire' = wire \cup {seq + 1}
          /\ UNCHANGED box
     ELSE box' = [box EXCEPT ![seq + 1] = Error] /\ UNCHANGED <<pending, wire>>
  /\ \E r \in {{}, {seq + 1}} : refusable' = refusable \cup r
  /\ UNCHANGED <<hand, work, replies, resp, got>>

\* Every call makes its own Done channel, with room for its answer.
channel(s) == s

Return(c, r) ==
  /\ got' = [got EXCEPT ![mine[c]] = r]
  /\ call' = [call EXCEPT ![c] = "idle"] /\ mine' = [mine EXCEPT ![c] = None]

Sign(c) ==
  /\ call[c] = "wait" /\ box[channel(mine[c])] # None
  /\ box' = [box EXCEPT ![channel(mine[c])] = None]
  /\ Return(c, IF box[channel(mine[c])] = Error THEN "error"
               ELSE IF resp[mine[c]] = mine[c] THEN "signed" ELSE "wrong")
  /\ UNCHANGED <<hand, seq, refusable, pending, wire, work, replies, resp>>

signTimeout(c) ==
  /\ call[c] = "wait" /\ box[channel(mine[c])] = None
  /\ Return(c, "timeout")
  /\ UNCHANGED <<hand, rpc>>

----------------------------------------------------------------------------
(***************************************************************************)
(* The signer serves every request in a goroutine of its own, so answers   *)
(* come in any order; the client's reader matches them by number.          *)
(***************************************************************************)
Serve(s) ==
  /\ s \in wire /\ st["signer"] = "up"
  /\ wire' = wire \ {s} /\ work' = work \cup {s}
  /\ UNCHANGED <<hand, callers, seq, refusable, pending, replies, box, resp>>

checkSignRequest(s) == s \notin refusable

\* Service.Sign: a signature, or the error of a refusal or of the key.
ServiceSign(s) ==
  /\ s \in work /\ st["signer"] = "up"
  /\ work' = work \ {s}
  /\ \/ checkSignRequest(s) /\ replies' = replies \cup {<<s, s>>}
     \/ replies' = replies \cup {<<s, Error>>}
  /\ UNCHANGED <<hand, callers, seq, refusable, pending, wire, box, resp>>

\* rpc.Client.input: the entry goes, and the buffered channel takes the call
\* whether or not anyone still waits; one that is full drops it.
Deliver(r) ==
  /\ r \in replies /\ st["frontend"] = "up"
  /\ replies' = replies \ {r} /\ pending' = pending \ {r[1]}
  /\ box' = [box EXCEPT ![channel(r[1])] =
               IF @ # None THEN @ ELSE IF r[2] = Error THEN Error ELSE 1]
  /\ resp' = [resp EXCEPT ![r[1]] = IF r[2] = Error THEN @ ELSE r[2]]
  /\ UNCHANGED <<hand, callers, seq, refusable, wire, work>>

\* awaitShutdown, or the end of the process: ServeConn returns.
SignerStops ==
  /\ st["signer"] = "up" /\ To("signer", "closed")
  /\ wire' = {} /\ work' = {}
  /\ UNCHANGED <<pipe, psk, toSigner, toFrontend, callers, seq, refusable,
                 pending, replies, box, resp>>

\* Every pending call fails at once.
Teardown ==
  /\ st["frontend"] = "up" /\ To("frontend", "closed")
  /\ box' = [s \in Calls |->
               IF \E p \in pending : channel(p) = s /\ box[s] = None THEN Error
               ELSE box[s]]
  /\ pending' = {} /\ replies' = {}
  /\ UNCHANGED <<pipe, psk, toSigner, toFrontend, callers, seq, refusable,
                 wire, work, resp>>

\* The client's reader meets EOF behind the last answer.
ConnectionLost == Closed("signer") /\ replies = {} /\ Teardown

\* RemoteSigner.Close, when the server returns.
Close == Teardown

\* The signer reads EOF in its turn.
ServeEnds ==
  /\ st["signer"] = "up" /\ Closed("frontend") /\ To("signer", "closed")
  /\ wire' = {} /\ work' = {} /\ replies' = {}
  /\ UNCHANGED <<pipe, psk, toSigner, toFrontend, callers, seq, refusable,
                 pending, box, resp>>

SignerEnd ==
  readPSK("signer") \/ ReadFails("signer") \/ SendNonce \/ serverHandshake \/ ServeEnds

FrontendEnd ==
  readPSK("frontend") \/ ReadFails("frontend") \/ clientHandshake \/ DialConn
    \/ ConnectionLost

Next ==
  \/ SignerEnd \/ FrontendEnd
  \/ \E c \in Callers : Begin(c) \/ Send(c) \/ Sign(c) \/ signTimeout(c)
  \/ \E s \in Calls : Serve(s) \/ ServiceSign(s)
  \/ \E r \in replies : Deliver(r)
  \/ SignerStops \/ Close

Spec == Init /\ [][Next]_vars

----------------------------------------------------------------------------
(***************************************************************************)
(* Properties.                                                             *)
(***************************************************************************)

\* Every component keeps its shape; a call in the signer's hands was sent, and
\* what the client still expects is an unanswered call.
TypeOK ==
  /\ psk \in [Ends -> {"unread", "key", "other"}]
  /\ st \in [Ends -> {"psk", "greet", "answer", "up", "closed"}]
  /\ seq \in 0..MaxCalls /\ pending \subseteq 1..seq /\ refusable \subseteq 1..seq
  /\ wire \cup work \subseteq 1..seq
  /\ \A r \in replies : st["frontend"] = "up" => r[1] \in pending
  /\ \A c \in Callers : (call[c] = "wait") = (mine[c] \in 1..seq)

\* Neither end goes on from the handshake unless both hold the same key: with
\* a foreign pipe on either side the process tree does not serve
\* (serverHandshake, clientHandshake).
ServesUnderOneKey ==
  \A e \in Ends : st[e] = "up" => psk["signer"] = psk["frontend"]

\* A Sign that reports success hands back the signature of its own digest,
\* however late the answers to abandoned calls arrive (RemoteSigner.Sign's
\* Done channel, one per call).
SignatureIsOurs == \A s \in Calls : got[s] # "wrong"
============================================================================
