---------------------------- MODULE TokenManager ----------------------------
(***************************************************************************)
(* The OpenBao token of the Transit signer: the background loop that       *)
(* renews it, signing requests that re-authenticate after a 403, and the   *)
(* shutdown that revokes it (internal/signer/openbao/lease.go, signer.go,  *)
(* auth.go).                                                               *)
(*                                                                         *)
(* Tokens are numbered.  Every successful login makes one LifetimeWatcher, *)
(* numbered too.  Time is whether minReauthInterval has passed since the   *)
(* last login and since the loop started its watcher.  OpenBao itself (a   *)
(* token dies, the Transit key is rotated, the policy no longer lets the   *)
(* token sign, a login fails) is external and does what the code here      *)
(* prepares for.                                                           *)
(***************************************************************************)
EXTENDS Integers, FiniteSets

CONSTANTS Requests,
          OwnsToken,      \* AppRole or Kubernetes, not a token file
          Revocable,      \* a service token, not a batch token
          MaxTokens, MaxWatchers, MaxSigns, MaxFaults

VARIABLES live, last,      \* OpenBao's live tokens, and the newest number
          fileToken,            \* what openbao.token_file holds
          keyVersion,           \* the Transit key's latest version
          granted,              \* the policy lets the token sign
          token,                \* the client's token
          watcher, ended, made, \* tm.watcher, ended watchers, how many were made
          recent,               \* lastLogin is within minReauthInterval
          mu, closed, cancelled,
          loop, close, op, signs, faults

vars == <<live, last, fileToken, keyVersion, granted, token, watcher, ended, made,
          recent, mu, closed, cancelled, loop, close, op, signs, faults>>

openbao == <<live, last, fileToken, keyVersion, granted>>
manager == <<token, watcher, ended, made, recent>>

Free == "free"
Idle == [pc |-> "idle", sent |-> 0, used |-> 0, again |-> FALSE, by |-> 0,
         alive |-> FALSE]

\* NewTokenManager has logged in once; its watcher is not started yet.
Init ==
  /\ live = {1} /\ last = 1 /\ fileToken = 1 /\ keyVersion = 1 /\ granted = TRUE
  /\ token = 1 /\ watcher = 1 /\ ended = {} /\ made = 1 /\ recent = TRUE
  /\ mu = Free /\ closed = FALSE /\ cancelled = FALSE
  /\ loop = [pc |-> "pace", w |-> 0, recent |-> FALSE]
  /\ close = "none"
  /\ op = [r \in Requests |-> Idle]
  /\ signs = 0 /\ faults = 0

----------------------------------------------------------------------------
(***************************************************************************)
(* login and reauthLocked, under mu.  A token-file login sets the client's *)
(* token and then looks it up, so a failing one leaves it set.  A login    *)
(* whose answer does not arrive in time may have made a token that nobody  *)
(* knows.  (A token file that cannot be read is left out.)                 *)
(***************************************************************************)
Fault == faults < MaxFaults /\ faults' = faults + 1

LoginToken == IF OwnsToken THEN token ELSE fileToken

\* "cut": its context was cancelled while it was under way.
LoginFails(cut) ==
  /\ Fault \/ ((cut \/ (~OwnsToken /\ token \notin live)) /\ UNCHANGED faults)
  /\ \/ UNCHANGED <<live, last>>
     \/ /\ OwnsToken /\ last < MaxTokens
        /\ last' = last + 1 /\ live' = live \cup {last + 1}
  /\ UNCHANGED <<token, watcher, ended, made>>

\* Mutant: the watcher that is replaced is not stopped.
Rewatch_LeavesOld ==
  made' = made + 1 /\ watcher' = made + 1 /\ UNCHANGED ended

Rewatch ==
  /\ made < MaxWatchers
  /\ ended' = ended \cup {watcher}           \* watcher.Stop()
  /\ made' = made + 1 /\ watcher' = made + 1

LoginSucceeds ==
  /\ IF OwnsToken
     THEN last < MaxTokens /\ last' = last + 1 /\ live' = live \cup {last + 1}
          /\ token' = last + 1
     ELSE token \in live /\ UNCHANGED <<live, last, token>>
  /\ Rewatch
  /\ UNCHANGED faults

----------------------------------------------------------------------------
(***************************************************************************)
(* run, the background loop.                                               *)
(***************************************************************************)
Watch ==
  /\ loop.pc = "pace" /\ mu = Free
  /\ ~loop.recent                           \* sleepOrDone(minReauthInterval - ...)
  /\ loop' = [pc |-> "watch", w |-> watcher, recent |-> TRUE]
  /\ UNCHANGED <<openbao, manager, mu, closed, cancelled, close, op, signs,
                 faults>>

\* DoneCh: renewal ended, or a re-login stopped this watcher.
WatchEnds ==
  /\ loop.pc = "watch" /\ loop.w \in ended /\ mu = Free
  /\ loop' = IF watcher # loop.w
             THEN [loop EXCEPT !.pc = "pace", !.recent = FALSE]
             ELSE [loop EXCEPT !.pc = "relogin"]
  /\ UNCHANGED <<openbao, manager, mu, closed, cancelled, close, op, signs,
                 faults>>

\* A login that begins when the manager is cancelled fails at once.
LoopLogin ==
  /\ loop.pc = "relogin" /\ mu = Free
  /\ recent' = TRUE /\ token' = LoginToken
  /\ mu' = IF cancelled THEN mu ELSE "loop"
  /\ loop' = [loop EXCEPT !.pc = IF cancelled THEN "done" ELSE "login"]
  /\ UNCHANGED <<openbao, watcher, ended, made, closed, cancelled,
                 close, op, signs, faults>>

\* One under way when the manager is cancelled may still be answered in time.
LoopLoginEnds ==
  /\ loop.pc = "login"
  /\ \/ LoginSucceeds /\ loop' = [loop EXCEPT !.pc = "pace"]
     \/ /\ LoginFails(cancelled)
        /\ loop' = [loop EXCEPT !.pc = IF cancelled THEN "done" ELSE "retry"]
  /\ mu' = Free
  /\ UNCHANGED <<fileToken, keyVersion, granted, recent, closed, cancelled, close,
                 op, signs>>

\* The reauthRetryInterval sleep.
LoopRetries ==
  /\ loop.pc = "retry" /\ ~cancelled
  /\ loop' = [loop EXCEPT !.pc = "relogin"]
  /\ UNCHANGED <<openbao, manager, mu, closed, cancelled, close, op, signs,
                 faults>>

LoopStops ==
  /\ cancelled /\ loop.pc \in {"pace", "watch", "retry"}
  /\ loop' = [loop EXCEPT !.pc = "done"]
  /\ ended' = IF loop.pc = "watch" THEN ended \cup {loop.w} ELSE ended
  /\ UNCHANGED <<openbao, token, watcher, made, recent, mu, closed,
                 cancelled, close, op, signs, faults>>

----------------------------------------------------------------------------
(***************************************************************************)
(* Sign and withReauth.                                                    *)
(***************************************************************************)
SignBegin(r) ==
  /\ op[r].pc = "idle" /\ signs < MaxSigns
  /\ signs' = signs + 1
  /\ op' = [op EXCEPT ![r] = [Idle EXCEPT !.pc = "send", !.sent = token]]
  /\ UNCHANGED <<openbao, manager, mu, closed, cancelled, loop, close, faults>>

\* One round trip: 403 for a dead token, and for a live one that the policy keeps
\* from signing; or a signature by the latest version of the key, which
\* verifyTransitSignature holds against the pinned one; or another error.
verifyTransitSignature(version) == version = 1

Answer(r, t) ==
  op' = [op EXCEPT ![r] = [sent |-> @.sent, used |-> t, again |-> @.again,
    by |-> IF t \in live /\ granted THEN keyVersion ELSE 0, alive |-> t \in live,
    pc |-> IF ~(t \in live /\ granted) THEN IF @.again THEN "failed" ELSE "refused"
           ELSE IF verifyTransitSignature(keyVersion) THEN "signed" ELSE "failed"]]

Send(r) ==
  /\ op[r].pc = "send"
  /\ Answer(r, token)
  /\ UNCHANGED <<openbao, manager, mu, closed, cancelled, loop, close, signs,
                 faults>>

SendFails(r) ==
  /\ op[r].pc = "send" /\ Fault
  /\ op' = [op EXCEPT ![r].pc = "failed"]
  /\ UNCHANGED <<openbao, manager, mu, closed, cancelled, loop, close, signs>>

\* Reauth(sentWith), up to its login.
Reauth(r) ==
  /\ op[r].pc = "refused" /\ mu = Free
  /\ IF closed THEN op' = [op EXCEPT ![r].pc = "failed"] /\ UNCHANGED <<mu, recent, token>>
     ELSE IF token # op[r].sent
     THEN op' = [op EXCEPT ![r].pc = "send", ![r].again = TRUE]
          /\ UNCHANGED <<mu, recent, token>>
     ELSE IF recent                \* ErrReauthThrottled
          THEN op' = [op EXCEPT ![r].pc = "failed"] /\ UNCHANGED <<mu, recent, token>>
          ELSE op' = [op EXCEPT ![r].pc = "login"]
               /\ mu' = r /\ recent' = TRUE /\ token' = LoginToken
  /\ UNCHANGED <<openbao, watcher, ended, made, closed, cancelled, loop,
                 close, signs, faults>>

ReauthEnds(r) ==
  /\ op[r].pc = "login"
  /\ \/ LoginSucceeds /\ op' = [op EXCEPT ![r].pc = "send", ![r].again = TRUE]
     \/ LoginFails(FALSE) /\ op' = [op EXCEPT ![r].pc = "failed"]
  /\ mu' = Free
  /\ UNCHANGED <<fileToken, keyVersion, granted, recent, closed, cancelled, loop,
                 close, signs>>

Return(r) ==
  /\ op[r].pc \in {"signed", "failed"}
  /\ op' = [op EXCEPT ![r] = Idle]
  /\ UNCHANGED <<openbao, manager, mu, closed, cancelled, loop, close, signs,
                 faults>>

----------------------------------------------------------------------------
(***************************************************************************)
(* Close, and the world outside.                                           *)
(***************************************************************************)
Cancel ==
  /\ close = "none" /\ close' = "cancelled" /\ cancelled' = TRUE
  /\ UNCHANGED <<openbao, manager, mu, closed, loop, op, signs, faults>>

Close ==
  /\ close = "cancelled" /\ loop.pc = "done" /\ mu = Free
  /\ closed' = TRUE
  /\ \/ /\ close' = "closed" /\ UNCHANGED faults
        /\ live' = IF OwnsToken /\ Revocable THEN live \ {token} ELSE live
     \/ /\ OwnsToken /\ Revocable /\ Fault       \* the revocation is best effort
        /\ close' = "unrevoked" /\ live' \in {live, live \ {token}}
  /\ UNCHANGED <<last, fileToken, keyVersion, granted, manager, mu, cancelled,
                 loop, op, signs>>

\* A token expires, reaches max_ttl or is revoked by someone else.
TokenDies ==
  /\ Fault /\ \E t \in live : live' = live \ {t}
  /\ UNCHANGED <<last, fileToken, keyVersion, granted, manager, mu, closed,
                 cancelled, loop, close, op, signs>>

\* The LifetimeWatcher of a dead token, or one that cannot renew, gives up.
WatcherGivesUp ==
  /\ loop.pc = "watch" /\ loop.w \notin ended
  /\ Fault \/ (token \notin live /\ UNCHANGED faults)
  /\ ended' = ended \cup {loop.w}
  /\ UNCHANGED <<openbao, token, watcher, made, recent, mu, closed,
                 cancelled, loop, close, op, signs>>

NewTokenFile ==
  /\ ~OwnsToken /\ last < MaxTokens
  /\ last' = last + 1 /\ fileToken' = last + 1 /\ live' = live \cup {last + 1}
  /\ UNCHANGED <<keyVersion, granted, manager, mu, closed, cancelled, loop, close,
                 op, signs, faults>>

RotateKey ==
  /\ Fault /\ keyVersion = 1 /\ keyVersion' = 2
  /\ UNCHANGED <<live, last, fileToken, granted, manager, mu, closed, cancelled,
                 loop, close, op, signs>>

\* The policy stops letting the token sign, and does so again.
PolicyChanges ==
  /\ granted' = ~granted
  /\ IF granted THEN Fault ELSE UNCHANGED faults
  /\ UNCHANGED <<live, last, fileToken, keyVersion, manager, mu, closed, cancelled,
                 loop, close, op, signs>>

\* minReauthInterval passes.
Tick ==
  /\ recent \/ loop.recent
  /\ recent' = FALSE /\ loop' = [loop EXCEPT !.recent = FALSE]
  /\ UNCHANGED <<openbao, token, watcher, ended, made, mu, closed, cancelled, close,
                 op, signs, faults>>

Request(r) == Send(r) \/ SendFails(r) \/ Reauth(r) \/ ReauthEnds(r) \/ Return(r)

Loop == Watch \/ WatchEnds \/ LoopLogin \/ LoopLoginEnds \/ LoopRetries \/ LoopStops

Next ==
  \/ Loop \/ Cancel \/ Close
  \/ \E r \in Requests : SignBegin(r) \/ Request(r)
  \/ TokenDies \/ WatcherGivesUp \/ NewTokenFile \/ RotateKey \/ PolicyChanges
  \/ Tick

Spec == Init /\ [][Next]_vars

----------------------------------------------------------------------------
\* The client's token and the current watcher are the ones of a login, and the
\* lock is held exactly by the one that is logging in.
TypeOK ==
  /\ token \in 1..last /\ faults \in 0..MaxFaults /\ watcher = made /\ ended \subseteq 1..made
  /\ closed => cancelled
  /\ mu = "loop" <=> loop.pc = "login"
  /\ \A r \in Requests : mu = r <=> op[r].pc = "login"

\* The loop never waits for the end of a watcher that a request's re-login has
\* replaced: the token in use is the one that is renewed.
RenewsTheTokenInUse ==
  loop.pc = "watch" => loop.w = watcher \/ loop.w \in ended

\* A re-login on account of a 403 throws away the token that was refused and no
\* other, however many requests were refused with the one before it; and a token
\* that is alive only when it was the policy that refused it (Reauth).
WorkingTokenKept ==
  \A r \in Requests :
    (op[r].pc = "login" /\ token' # token /\ OwnsToken /\ op'[r].pc # "login")
      => op[r].used = token /\ (op[r].used \in live => op[r].alive)

\* A closed manager logs in no more, and the token it held last, that of a login
\* under way at the Close included, is revoked unless that call failed.  (One that
\* a re-login had replaced, or whose answer was lost, is left to its TTL.)
ClosedForGood ==
  closed => /\ mu = Free /\ loop.pc = "done"
            /\ (close = "closed" /\ OwnsToken /\ Revocable) => token \notin live

\* A shutdown revokes nothing that the operator supplied.
OperatorsTokenSpared ==
  (~OwnsToken /\ closed' # closed) => live' = live

\* What a request returns was signed by the key the CA certificate pins, even
\* when the Transit key is rotated under a running server.
SignedByThePinnedKey ==
  \A r \in Requests : op[r].pc = "signed" => op[r].by = 1 /\ op[r].used > 0
=============================================================================
