---------------------------- MODULE MemoryBudget ----------------------------
(***************************************************************************)
(* The memory budget of the process tree                                   *)
(* (cmd/openvox-ca/launcher_memlimit.go): the ceiling from GOMEMLIMIT or   *)
(* the cgroup, the reservations of the launcher and of the signer, what is *)
(* left for the frontend, and the limit each process gets.  An integer is  *)
(* at most MaxInt and wraps beyond it; in the code MaxInt is 2^63-1, Unit  *)
(* is 1024 and the suffixes are KiB to TiB.                                *)
(***************************************************************************)
EXTENDS Integers

CONSTANTS MaxInt, Unit, Levels,
          MinReserve, MinFrontend, DefaultLauncher, DefaultSigner, DefaultPercent,
          Amounts, Percents      \* what an operator or the kernel may state

VARIABLES env,                   \* GOMEMLIMIT
          cgroup,                \* memory.max of the own cgroup and of the root
          launcherText, signerText, percent,
          phase,                 \* "start", then "divided" or how it was declined
          share,                 \* the divided budget
          limit                  \* the limit each process applies

budgetVars == <<env, cgroup, launcherText, signerText, percent, phase, share, limit>>

ASSUME BudgetAssumption ==
  /\ MaxInt \in Nat /\ Unit \in Nat \ {0} /\ Levels \in 0..2 /\ Amounts \subseteq Nat
  /\ {MinReserve, DefaultLauncher, DefaultSigner, MinFrontend} \subseteq Nat \ {0}
  /\ DefaultPercent \in 1..100 /\ Percents \subseteq Int

Roles == {"launcher", "signer", "frontend"}
NoShare == [r \in Roles |-> 0]
NotStarted == -1

\* A stated byte count: "" | "off" | digits with no suffix, with B, KiB..., with
\* Ki... or with anything else.
Unset == [form |-> "unset", n |-> 0, level |-> 0]
OffText == [form |-> "off", n |-> 0, level |-> 0]
Texts ==
  {Unset} \cup [form : {"bare", "junk"}, n : Amounts, level : {0}]
          \cup [form : {"B", "i"}, n : Amounts, level : 0..Levels]

\* What a suffix multiplies by; two of the code's four are enough here.
Power(l) == IF l = 0 THEN 1 ELSE IF l = 1 THEN Unit ELSE Unit * Unit

Wrap(x) == ((x + MaxInt + 1) % (2 * (MaxInt + 1))) - (MaxInt + 1)

----------------------------------------------------------------------------
Ok(n) == [ok |-> TRUE, n |-> n]
Bad == [ok |-> FALSE, n |-> 0]

\* Digits beyond MaxInt, and a suffix that scales beyond it, are refused.
parseGoByteCount(t) ==
  IF t.form \in {"bare", "B"} /\ t.n <= MaxInt /\ t.n <= MaxInt \div Power(t.level)
  THEN Ok(t.n * Power(t.level)) ELSE Bad

parseConfiguredByteCount(t) ==
  IF t.form = "i" /\ t.level > 0 THEN parseGoByteCount([t EXCEPT !.form = "B"])
  ELSE parseGoByteCount(t)

byteCountOrDefault(t, fallback) ==
  LET p == parseConfiguredByteCount(t)
  IN IF t.form # "unset" /\ p.ok /\ p.n >= MinReserve THEN p.n ELSE fallback

memoryBudgetPercent(p) == IF p \in 1..100 THEN p ELSE DefaultPercent

\* Mutant: it multiplies before it divides, whatever the size.
scalePercent_Multiplies(n, p) == Wrap(n * p) \div 100

scalePercent(n, p) ==
  IF n > MaxInt \div 100 THEN (n \div 100) * p ELSE (n * p) \div 100

\* The own cgroup before the root; "max" and a missing file state nothing (0).
readCgroupMemoryMax == IF cgroup.own > 0 THEN cgroup.own ELSE cgroup.root

treeMemoryCeiling ==
  IF env.form = "off" THEN [kind |-> "none", n |-> 0]
  ELSE IF env.form # "unset"
  THEN [kind |-> IF parseGoByteCount(env).ok THEN "stated" ELSE "invalid",
        n |-> parseGoByteCount(env).n]
  ELSE [kind |-> IF readCgroupMemoryMax > 0 THEN "derived" ELSE "none",
        n |-> readCgroupMemoryMax]

Total ==
  IF treeMemoryCeiling.kind = "derived"
  THEN scalePercent(treeMemoryCeiling.n, memoryBudgetPercent(percent))
  ELSE treeMemoryCeiling.n

\* Mutant: the difference may wrap around.
Rest_Wraps(total, launcher, signer) == Wrap(total - launcher - signer)

Rest(total, launcher, signer) ==
  IF launcher < total /\ signer < total - launcher THEN total - launcher - signer ELSE 0

\* What the Go runtime applies when nothing overrides it: the GOMEMLIMIT of the
\* environment, and MaxInt where there is none, which is no limit.
Inherited ==
  IF env.form \notin {"unset", "off"} /\ parseGoByteCount(env).ok
  THEN parseGoByteCount(env).n ELSE MaxInt

----------------------------------------------------------------------------
Stated == {0} \cup (Amounts \cap 1..MaxInt)

\* The cgroup is only looked at when GOMEMLIMIT is unset.
BudgetInit ==
  /\ env \in Texts \cup {OffText} /\ percent \in Percents
  /\ cgroup \in [own : Stated, root : Stated]
  /\ env = Unset \/ (cgroup.own = 0 /\ cgroup.root = 0 /\ percent = 0)
  /\ launcherText \in Texts /\ signerText \in Texts
  /\ phase = "start" /\ share = NoShare
  /\ limit = [r \in Roles |-> IF r = "launcher" THEN Inherited ELSE NotStarted]

\* resolveMemoryBudget, applyMemoryBudget: the launcher's own limit is set here.
applyMemoryBudget ==
  LET l == byteCountOrDefault(launcherText, DefaultLauncher)
      s == byteCountOrDefault(signerText, DefaultSigner)
      c == treeMemoryCeiling
      f == Rest(Total, l, s)
  IN /\ phase = "start"
     /\ \/ /\ c.kind \in {"stated", "derived"} /\ f >= MinFrontend
           /\ phase' = "divided"
           /\ share' = [launcher |-> l, signer |-> s, frontend |-> f]
           /\ limit' = [limit EXCEPT !["launcher"] = l]
        \/ /\ c.kind \in {"stated", "derived"} /\ f < MinFrontend
           /\ phase' = "small" /\ UNCHANGED <<share, limit>>
        \/ /\ c.kind \in {"none", "invalid"}
           /\ phase' = c.kind /\ UNCHANGED <<share, limit>>
     /\ UNCHANGED <<env, cgroup, launcherText, signerText, percent>>

\* A share goes into the child's environment; a share of 0 leaves the inherited
\* GOMEMLIMIT there.
spawnChild(r) ==
  /\ phase # "start" /\ limit[r] = NotStarted
  /\ limit' = [limit EXCEPT ![r] = IF share[r] > 0 THEN share[r] ELSE Inherited]
  /\ UNCHANGED <<env, cgroup, launcherText, signerText, percent, phase, share>>

BudgetNext == applyMemoryBudget \/ \E r \in {"signer", "frontend"} : spawnChild(r)

BudgetSpec == BudgetInit /\ [][BudgetNext]_budgetVars

----------------------------------------------------------------------------
(***************************************************************************)
(* Properties.                                                             *)
(***************************************************************************)

Applied(r) == IF limit[r] = NotStarted THEN 0 ELSE limit[r]

\* Once the budget is divided, the limits the three processes apply never add up
\* to more than the ceiling that was stated or derived, however large the numbers
\* in the configuration are and although each of them inherits GOMEMLIMIT
\* (resolveMemoryBudget's order of subtractions, spawnChild).  Where the division
\* is declined nothing is overridden: each applies the whole of GOMEMLIMIT, or no
\* limit where the ceiling was derived (undividedState).
TreeFitsTheCeiling ==
  /\ phase = "divided" =>
       Applied("launcher") + Applied("signer") + Applied("frontend") <= treeMemoryCeiling.n
  /\ phase # "divided" => \A r \in Roles : limit[r] \in {NotStarted, Inherited}

\* GOMEMLIMIT is accepted exactly when its value fits the runtime's integer, so
\* that what is divided here is what the runtime would have applied
\* (parseGoByteCount against runtime.parseByteCount).
ParsesAsTheRuntime ==
  env.form \in {"bare", "B"} =>
    /\ parseGoByteCount(env).ok = (env.n * Power(env.level) <= MaxInt)
    /\ parseGoByteCount(env).ok => parseGoByteCount(env).n = env.n * Power(env.level)

\* A budget is declined as too small only when, in unbounded arithmetic, the
\* frontend would be within one percent step of its floor or below it: an
\* enormous ceiling is divided, not lost to an overflow (scalePercent).
DeclinedIsSmall ==
  phase = "small" =>
    LET c == treeMemoryCeiling
        p == IF c.kind = "derived" THEN memoryBudgetPercent(percent) ELSE 100
    IN (c.n * p) \div 100 - byteCountOrDefault(launcherText, DefaultLauncher)
         - byteCountOrDefault(signerText, DefaultSigner) < MinFrontend + p

\* The numbers of the memory budget come out as in unbounded arithmetic: what the
\* runtime accepts is accepted, and only a small ceiling is declined as small
\* (parseGoByteCount, scalePercent).
BudgetIsExact == ParsesAsTheRuntime /\ DeclinedIsSmall
=============================================================================
