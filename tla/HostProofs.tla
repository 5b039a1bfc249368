----------------------------- MODULE HostProofs -----------------------------
(***************************************************************************)
(* What the processes of a server and their helpers promise, for every     *)
(* value of the constants: the memory limits fit the ceiling, one instance *)
(* at a time writes to the store, the signer answers truly, and the        *)
(* manager looks after its OpenBao token.  A name that two components      *)
(* share is declared once.                                                 *)
(***************************************************************************)
EXTENDS MemoryBudget, Service, Sequences, TLAPS

\* Zenon proves what names no other prover.
USE ZenonT(60)

-----------------------------------------------------------------------------
(* The memory budget *)

\* Percentages of a ceiling never exceed it, on either side of scalePercent's
\* guard.
LEMMA ScaleBound ==
  ASSUME NEW n \in Nat, NEW p \in 1..100
  PROVE  scalePercent(n, p) \in Nat /\ scalePercent(n, p) <= n
<1>1. CASE n > MaxInt \div 100
  <2>1. PICK q \in Nat : q = n \div 100 /\ 100 * q <= n
    BY SMTT(30)
  <2>2. q * p \in Nat /\ q * p <= q * 100
    BY SMTT(30)
  <2>. QED
    BY SMTT(30), <1>1, <2>1, <2>2 DEF scalePercent
<1>2. CASE ~(n > MaxInt \div 100)
  <2>1. n * p \in Nat /\ n * p <= n * 100
    BY SMTT(30)
  <2>2. PICK m \in Nat : m = n * p /\ m <= 100 * n
    BY SMTT(30), <2>1
  <2>3. m \div 100 \in Nat /\ m \div 100 <= n
    BY SMTT(30), <2>2
  <2>. QED
    BY <1>2, <2>2, <2>3 DEF scalePercent
<1>. QED
  BY <1>1, <1>2

\* The digits of a text and its suffix.
LEMMA TextType ==
  ASSUME NEW t \in Texts \cup {OffText}
  PROVE  t.n \in Nat /\ t.level \in 0..2
<1>1. /\ Amounts \subseteq Nat /\ 0 \in Nat
      /\ 0..Levels \subseteq 0..2 /\ 0 \in 0..2
  BY SMTT(30), BudgetAssumption
<1>2. CASE t \in {Unset, OffText}
  BY SMTT(30), <1>2 DEF OffText, Unset
<1>3. CASE t \in [form : {"bare", "junk"}, n : Amounts, level : {0}]
  BY <1>1, <1>3
<1>4. CASE t \in [form : {"B", "i"}, n : Amounts, level : 0..Levels]
  BY <1>1, <1>4
<1> QED BY <1>2, <1>3, <1>4 DEF Texts

\* A byte count that is read, stated or configured, is a natural number.
LEMMA ParseNat ==
  ASSUME NEW t \in Texts \cup {OffText}
  PROVE  parseGoByteCount(t).n \in Nat /\ parseConfiguredByteCount(t).n \in Nat
<1>1. t.n \in Nat /\ t.level \in 0..2 /\ [t EXCEPT !.form = "B"].n = t.n
      /\ [t EXCEPT !.form = "B"].level = t.level
  BY SMTT(30), BudgetAssumption DEF Texts, OffText, Unset
<1>2. Power(t.level) \in Nat
  <2>1. Unit * Unit \in Nat
    BY SMTT(30), BudgetAssumption
  <2>. QED
    BY <1>1, <2>1, BudgetAssumption DEF Power
<1>3. t.n * Power(t.level) \in Nat
  BY SMTT(30), <1>1, <1>2
<1>4. parseGoByteCount(t).n \in Nat
  BY <1>3 DEF parseGoByteCount, Ok, Bad
<1>5. parseGoByteCount([t EXCEPT !.form = "B"]).n \in Nat
  BY <1>1, <1>3 DEF parseGoByteCount, Ok, Bad
<1>. QED
  BY <1>4, <1>5 DEF parseConfiguredByteCount

\* A reservation is a positive number: below the floor the default is taken.
LEMMA ReserveNat ==
  ASSUME NEW t \in Texts, NEW d \in Nat \ {0}
  PROVE  byteCountOrDefault(t, d) \in Nat \ {0}
<1>1. parseConfiguredByteCount(t).n \in Nat /\ MinReserve \in Nat \ {0}
  BY ParseNat, BudgetAssumption
<1> QED BY SMTT(30), <1>1 DEF byteCountOrDefault

\* The configuration is what an operator and the kernel can state.
Given ==
  /\ env \in Texts \cup {OffText}
  /\ cgroup \in [own : Nat, root : Nat]
  /\ launcherText \in Texts /\ signerText \in Texts
  /\ percent \in Int

\* The ceiling and the budget drawn from it are natural numbers, and the budget
\* is within the ceiling (treeMemoryCeiling, scalePercent).
LEMMA TotalBound ==
  ASSUME Given
  PROVE  treeMemoryCeiling.n \in Nat /\ Total \in Nat /\ Total <= treeMemoryCeiling.n
<1>1. readCgroupMemoryMax \in Nat
  BY DEF Given, readCgroupMemoryMax
<1>2. parseGoByteCount(env).n \in Nat
  BY ParseNat DEF Given
<1>3. treeMemoryCeiling.n \in Nat
  BY <1>1, <1>2 DEF treeMemoryCeiling
<1>4. memoryBudgetPercent(percent) \in 1..100
  BY BudgetAssumption DEF Given, memoryBudgetPercent
<1>5. scalePercent(treeMemoryCeiling.n, memoryBudgetPercent(percent)) \in Nat
      /\ scalePercent(treeMemoryCeiling.n, memoryBudgetPercent(percent)) <= treeMemoryCeiling.n
  BY <1>3, <1>4, ScaleBound
<1>. QED
  BY SMTT(30), <1>3, <1>5 DEF Total

\* The inductive invariant: once the budget is divided, a process has not started or
\* applies its share, every share is positive and together they fit the ceiling;
\* before, and where the division was declined, there is no share.
Divided ==
  /\ Given /\ DOMAIN limit = Roles
  /\ phase = "divided" =>
       /\ \A r \in Roles : share[r] \in Nat \ {0} /\ limit[r] \in {NotStarted, share[r]}
       /\ share["launcher"] + share["signer"] + share["frontend"] <= treeMemoryCeiling.n
  /\ phase # "divided" =>
       \A r \in Roles : share[r] = 0 /\ limit[r] \in {NotStarted, Inherited}
  /\ phase = "start" => limit["signer"] = NotStarted /\ limit["frontend"] = NotStarted

\* Once the budget is divided the limits of the launcher, the signer and the frontend
\* never add up to more than the ceiling, and where it is not they are what each
\* inherits, for every MaxInt, configuration and memory.max (resolveMemoryBudget,
\* applyMemoryBudget, spawnChild, undividedState).
THEOREM LimitsFit == BudgetSpec => []TreeFitsTheCeiling
<1>0. ASSUME UNCHANGED <<env, cgroup, launcherText, signerText, percent>>
      PROVE  treeMemoryCeiling' = treeMemoryCeiling /\ Inherited' = Inherited /\ (Given => Given')
  BY <1>0 DEF Given, treeMemoryCeiling, readCgroupMemoryMax, Inherited
<1>1. BudgetInit => Divided
  <2>. SUFFICES ASSUME BudgetInit PROVE Divided
    OBVIOUS
  <2>1. Given
    BY SMTT(30), BudgetAssumption DEF BudgetInit, Given, Stated
  <2>. QED
    BY <2>1 DEF BudgetInit, Divided, NoShare, Roles
<1>2. Divided /\ [BudgetNext]_budgetVars => Divided'
  <2>. SUFFICES ASSUME Divided, [BudgetNext]_budgetVars PROVE Divided'
    OBVIOUS
  <2>0. /\ treeMemoryCeiling.n \in Nat /\ Total \in Nat
        /\ Total <= treeMemoryCeiling.n
    BY TotalBound DEF Divided
  <2>2. CASE applyMemoryBudget
    <3>. DEFINE l == byteCountOrDefault(launcherText, DefaultLauncher)
                s == byteCountOrDefault(signerText, DefaultSigner)
                f == Rest(Total, l, s)
    <3>1. l \in Nat \ {0} /\ s \in Nat \ {0}
      BY ReserveNat, BudgetAssumption DEF Divided, Given
    <3>2. f \in Nat /\ (f > 0 => l + s + f = Total)
      BY SMTT(30), <3>1, <2>0 DEF Rest
    <3>3. Given' /\ treeMemoryCeiling' = treeMemoryCeiling /\ Inherited' = Inherited
      BY <2>2, <1>0 DEF applyMemoryBudget, Divided
    <3>4. CASE phase' = "divided"
      <4>1. f >= MinFrontend
            /\ share' = [launcher |-> l, signer |-> s, frontend |-> f]
            /\ limit' = [limit EXCEPT !["launcher"] = l] /\ phase = "start"
        BY <2>2, <3>4 DEF applyMemoryBudget
      <4>2. l + s + f <= treeMemoryCeiling.n /\ f \in Nat \ {0}
        BY SMTT(30), <4>1, <3>1, <3>2, <2>0, BudgetAssumption
      <4>3. share'["launcher"] = l /\ share'["signer"] = s /\ share'["frontend"] = f
        BY <4>1
      <4>4. /\ DOMAIN limit' = Roles /\ limit'["launcher"] = l
            /\ limit'["signer"] = NotStarted /\ limit'["frontend"] = NotStarted
        BY <4>1 DEF Divided, Roles
      <4> HIDE DEF l, s, f
      <4>5. \A r \in Roles : share'[r] \in Nat \ {0} /\ limit'[r] \in {NotStarted, share'[r]}
        BY <3>1, <4>2, <4>3, <4>4 DEF Roles
      <4>6. share'["launcher"] + share'["signer"] + share'["frontend"] <= treeMemoryCeiling'.n
        BY <3>3, <4>2, <4>3
      <4>. QED
        BY <3>3, <3>4, <4>4, <4>5, <4>6 DEF Divided
    <3>5. CASE phase' # "divided"
      <4>1. UNCHANGED <<share, limit>> /\ phase = "start"
        BY <2>2, <3>5 DEF applyMemoryBudget
      <4>. QED
        BY <4>1, <3>3, <3>5 DEF Divided
    <3>. QED
      BY <3>4, <3>5
  <2>3. ASSUME NEW r \in {"signer", "frontend"}, spawnChild(r) PROVE Divided'
    <3>1. /\ Given' /\ treeMemoryCeiling' = treeMemoryCeiling /\ Inherited' = Inherited
          /\ UNCHANGED <<phase, share>> /\ phase # "start" /\ r \in Roles
      BY <2>3, <1>0 DEF spawnChild, Divided, Roles
    <3>2. /\ DOMAIN limit' = Roles /\ limit'[r] = IF share[r] > 0 THEN share[r] ELSE Inherited
      BY <2>3, <3>1 DEF spawnChild, Divided
    <3>3. \A q \in Roles \ {r} : limit'[q] = limit[q]
      BY <2>3, <3>1 DEF spawnChild, Divided
    <3>4. CASE phase = "divided"
      <4>1. share[r] \in Nat \ {0}
        BY <3>1, <3>4 DEF Divided
      <4>2. limit'[r] = share[r]
        BY SMTT(30), <3>2, <4>1
      <4>. QED
        BY <3>1, <3>2, <3>3, <3>4, <4>2 DEF Divided
    <3>5. CASE phase # "divided"
      <4>1. share[r] = 0
        BY <3>1, <3>5 DEF Divided
      <4>2. limit'[r] = Inherited
        BY SMTT(30), <3>2, <4>1
      <4>. QED
        BY <3>1, <3>2, <3>3, <3>5, <4>2 DEF Divided
    <3>. QED
      BY <3>4, <3>5
  <2>4. CASE UNCHANGED budgetVars
    <3>1. Given' /\ treeMemoryCeiling' = treeMemoryCeiling /\ Inherited' = Inherited
      BY <2>4, <1>0 DEF budgetVars, Divided
    <3>. QED
      BY <2>4, <3>1 DEF budgetVars, Divided
  <2>. QED
    BY <2>2, <2>3, <2>4 DEF BudgetNext
<1>3. Divided => TreeFitsTheCeiling
  <2>. SUFFICES ASSUME Divided PROVE TreeFitsTheCeiling
    OBVIOUS
  <2>1. CASE phase = "divided"
    <3>1. ASSUME NEW r \in Roles
          PROVE  share[r] \in Nat /\ Applied(r) \in {0, share[r]}
      BY <2>1 DEF Divided, Applied
    <3>2. /\ treeMemoryCeiling.n \in Nat
          /\ share["launcher"] + share["signer"] + share["frontend"] <= treeMemoryCeiling.n
      BY <2>1, TotalBound DEF Divided
    <3>3. {"launcher", "signer", "frontend"} = Roles
      BY DEF Roles
    <3>4. Applied("launcher") + Applied("signer") + Applied("frontend") <= treeMemoryCeiling.n
      BY SMTT(30), <3>1, <3>2, <3>3
    <3>. QED
      BY <2>1, <3>4 DEF TreeFitsTheCeiling
  <2>2. CASE phase # "divided"
    BY <2>2 DEF Divided, TreeFitsTheCeiling
  <2>. QED
    BY <2>1, <2>2
<1>. QED
  BY <1>1, <1>2, <1>3, PTL DEF BudgetSpec

-----------------------------------------------------------------------------
(* The budget is exact *)

\* A bound on a multiple, by division: parseGoByteCount's guard.
LEMMA DivisionGuard ==
  ASSUME NEW n \in Nat, NEW m \in Nat, NEW k \in Nat \ {0}
  PROVE  n <= m \div k <=> n * k <= m
<1>1. PICK q \in Nat : q = m \div k
  BY SMTT(30)
<1>2. q * k <= m /\ m < q * k + k
  BY SMTT(30), <1>1
<1>3. ASSUME n <= q PROVE n * k <= m
  <2>1. n * k <= q * k
    BY SMTT(30), <1>3
  <2> QED BY SMTT(30), <1>2, <2>1
<1>4. ASSUME n >= q + 1 PROVE n * k > m
  <2>1. n * k >= (q + 1) * k
    BY SMTT(30), <1>4
  <2> QED BY SMTT(30), <1>2, <2>1
<1> QED BY SMTT(30), <1>1, <1>3, <1>4

\* scalePercent loses less than one percent step to its early division.
LEMMA ScaleLoss ==
  ASSUME NEW n \in Nat, NEW p \in 1..100
  PROVE  (n * p) \div 100 < scalePercent(n, p) + p
<1>1. CASE n > MaxInt \div 100
  <2>1. PICK q \in Nat, r \in 0..99 : n = 100 * q + r /\ q = n \div 100
    BY SMTT(30)
  <2>2. n * p = 100 * (q * p) + r * p
    BY SMTT(30), <2>1
  <2>3. r * p <= 99 * p
    BY SMTT(30), <2>1
  <2>4. (n * p) \div 100 < q * p + p
    BY SMTT(30), <2>2, <2>3
  <2> QED BY <1>1, <2>1, <2>4 DEF scalePercent
<1>2. CASE ~(n > MaxInt \div 100)
  <2>1. PICK m \in Nat : m = (n * p) \div 100
    BY SMTT(30)
  <2> QED BY SMTT(30), <1>2, <2>1 DEF scalePercent
<1> QED BY <1>1, <1>2

\* A budget is declined as too small only for what would be left.
Declined ==
  phase = "small" =>
    /\ treeMemoryCeiling.kind \in {"stated", "derived"}
    /\ Rest(Total, byteCountOrDefault(launcherText, DefaultLauncher),
            byteCountOrDefault(signerText, DefaultSigner)) < MinFrontend

\* The budget is worked out as in unbounded arithmetic, for every width of the
\* integers: GOMEMLIMIT is accepted exactly when it fits, and only a small ceiling is
\* declined as small (parseGoByteCount, scalePercent, resolveMemoryBudget).
THEOREM BudgetComesOutExact == BudgetSpec => []BudgetIsExact
<1>1. BudgetInit => Given /\ Declined
  BY SMTT(30), BudgetAssumption DEF BudgetInit, Given, Stated, Declined
<1>2. Given /\ Declined /\ [BudgetNext]_budgetVars => (Given /\ Declined)'
  <2> SUFFICES ASSUME Given, Declined, [BudgetNext]_budgetVars PROVE (Given /\ Declined)'
    OBVIOUS
  <2>1. UNCHANGED <<env, cgroup, launcherText, signerText, percent>>
    BY DEF BudgetNext, budgetVars, applyMemoryBudget, spawnChild
  <2>2. Given'
    BY <2>1 DEF Given
  <2>3. treeMemoryCeiling' = treeMemoryCeiling
    BY <2>1 DEF treeMemoryCeiling, readCgroupMemoryMax
  <2>4. Total' = Total
    BY <2>1, <2>3 DEF Total
  <2>5. Declined'
    <3>1. CASE applyMemoryBudget
      BY <2>1, <2>3, <2>4, <3>1 DEF applyMemoryBudget, Declined
    <3>2. CASE phase' = phase
      BY <2>1, <2>3, <2>4, <3>2 DEF Declined
    <3> QED BY <3>1, <3>2 DEF BudgetNext, budgetVars, spawnChild
  <2> QED BY <2>2, <2>5
<1>3. Given => ParsesAsTheRuntime
  <2> SUFFICES ASSUME Given, env.form \in {"bare", "B"}
               PROVE  /\ parseGoByteCount(env).ok = (env.n * Power(env.level) <= MaxInt)
                      /\ parseGoByteCount(env).ok
                           => parseGoByteCount(env).n = env.n * Power(env.level)
    BY DEF ParsesAsTheRuntime
  <2>1. PICK t \in Texts \cup {OffText} : t = env
    BY DEF Given
  <2>2. t.n \in Nat /\ t.level \in 0..2
    BY <2>1, TextType
  <2>3. PICK k \in Nat \ {0} : k = Power(t.level)
    <3>1. Unit * Unit \in Nat \ {0}
      BY SMTT(30), BudgetAssumption
    <3> QED BY SMTT(30), <2>2, <3>1, BudgetAssumption DEF Power
  <2>4. t.n <= MaxInt \div k <=> t.n * k <= MaxInt
    BY <2>2, BudgetAssumption, DivisionGuard
  <2>5. t.n <= t.n * k /\ t.n * k \in Nat
    BY SMTT(30), <2>2
  <2>6. t.n <= MaxInt /\ t.n <= MaxInt \div k <=> t.n * k <= MaxInt
    BY SMTT(30), <2>2, <2>4, <2>5, BudgetAssumption
  <2>7. CASE t.n * k <= MaxInt
    <3>1. parseGoByteCount(t) = Ok(t.n * k)
      BY <2>1, <2>3, <2>6, <2>7 DEF parseGoByteCount
    <3>2. parseGoByteCount(t).ok = TRUE /\ parseGoByteCount(t).n = t.n * k
      BY SMTT(30), <3>1 DEF Ok
    <3> QED BY <2>1, <2>3, <2>7, <3>2
  <2>8. CASE ~(t.n * k <= MaxInt)
    <3>1. parseGoByteCount(t) = Bad
      BY <2>1, <2>3, <2>6, <2>8 DEF parseGoByteCount
    <3>2. parseGoByteCount(t).ok = FALSE
      BY SMTT(30), <3>1 DEF Bad
    <3>3. (t.n * k <= MaxInt) = FALSE
      BY SMTT(30), <2>8
    <3> QED BY <2>1, <2>3, <3>2, <3>3
  <2> QED BY <2>7, <2>8
<1>4. Given /\ Declined => DeclinedIsSmall
  <2> SUFFICES ASSUME Given, Declined, phase = "small"
               PROVE  DeclinedIsSmall
    BY DEF DeclinedIsSmall
  <2> DEFINE l == byteCountOrDefault(launcherText, DefaultLauncher)
             s == byteCountOrDefault(signerText, DefaultSigner)
             n == treeMemoryCeiling.n
             p == IF treeMemoryCeiling.kind = "derived" THEN memoryBudgetPercent(percent) ELSE 100
  <2>1. l \in Nat /\ s \in Nat
    BY ReserveNat, BudgetAssumption DEF Given
  <2>2. n \in Nat /\ Total \in Nat
    BY TotalBound
  <2>3. p \in 1..100
    BY SMTT(30), BudgetAssumption DEF Given, memoryBudgetPercent
  <2>4. (n * p) \div 100 \in Int /\ (n * p) \div 100 < Total + p
    <3>1. n * p \in Nat
      BY SMTT(30), <2>2, <2>3
    <3>2. CASE treeMemoryCeiling.kind = "derived"
      <4>1. Total = scalePercent(n, p)
        BY <3>2 DEF Total
      <4>2. PICK c \in Nat : c = n
        BY <2>2
      <4>3. PICK d \in 1..100 : d = p
        BY <2>3
      <4>4. (c * d) \div 100 < scalePercent(c, d) + d
        BY ScaleLoss
      <4>5. (c * d) \div 100 \in Int
        BY SMTT(30), <3>1, <4>2, <4>3
      <4> QED BY <4>1, <4>2, <4>3, <4>4, <4>5
    <3>3. CASE treeMemoryCeiling.kind # "derived"
      BY SMTT(30), <2>2, <3>3 DEF Total
    <3> QED BY <3>2, <3>3
  <2>5. Rest(Total, l, s) < MinFrontend
    BY DEF Declined
  <2>6. Total - l - s < MinFrontend
    BY SMTT(30), <2>1, <2>2, <2>5, BudgetAssumption DEF Rest
  <2> HIDE DEF l, s, n, p
  <2>7. (n * p) \div 100 - l - s < MinFrontend + p
    BY SMTT(30), <2>1, <2>2, <2>3, <2>4, <2>6, BudgetAssumption
  <2> QED BY <2>7 DEF DeclinedIsSmall, l, s, n, p
<1> QED BY <1>1, <1>2, <1>3, <1>4, PTL DEF BudgetSpec, BudgetIsExact

-----------------------------------------------------------------------------
(* The processes *)

\* What each instance has of its own.
ServeTypes ==
  /\ DOMAIN main = Instances /\ DOMAIN signer = Instances /\ DOMAIN server = Instances
  /\ DOMAIN proved = Instances /\ DOMAIN job = Instances /\ DOMAIN handler = Instances
  /\ DOMAIN told = Instances

\* A launcher that has not been killed holds the lock from before its first child
\* to after its last.
ServeTree(i) ==
  /\ main[i] \in {"locked", "spawn", "supervise", "stop", "crash"} => lock = i
  /\ main[i] \in {"off", "locked", "exit", "failed"} =>
       signer[i] \in Gone /\ server[i] \in Gone
  /\ main[i] \in {"off", "locked", "spawn"} => server[i] = "off"
  /\ main[i] \in {"off", "locked", "spawn", "supervise", "stop", "crash", "exit", "failed",
                  "killed"}
  /\ server[i] # "unlocked"
  /\ proved[i] \/ signer[i] \in {"hand", "serve"} \/ server[i] \in {"init", "bind", "serve"} => made
  /\ main[i] = "failed" => told[i] = "cause"

\* A single process holds it until its goroutines have ended.
ServeSingle(i) ==
  /\ main[i] \in {"off", "serve", "exit"} /\ signer[i] = "off"
  /\ server[i] \notin {"exec", "dial"}
  /\ main[i] # "serve" => server[i] \in Gone
  /\ main[i] = "off" => server[i] = "off"
  /\ server[i] \notin Gone \cup {"unlocked"} => lock = i

\* Passes and handlers belong to a server that has begun to serve.
ServeWork(i) ==
  /\ job[i] => server[i] \in {"bind", "serve", "drain", "join"}
  /\ handler[i] => server[i] \in {"serve", "drain", "join", "close", "unlocked"}

\* Together.
ServeAt(i) ==
  ServeWork(i) /\ (i \in Isolated => ServeTree(i)) /\ (i \notin Isolated => ServeSingle(i))

ServeInv == ServeTypes /\ \A i \in Instances : ServeAt(i)

\* What a step of i leaves to the others.
ServeApart(i) ==
  /\ made => made'
  /\ \A j \in Instances \ {i} :
       /\ lock = j => lock' = j
       /\ main'[j] = main[j] /\ signer'[j] = signer[j] /\ server'[j] = server[j]
       /\ proved'[j] = proved[j] /\ job'[j] = job[j] /\ handler'[j] = handler[j]
       /\ told'[j] = told[j]

\* The steps of an instance.
ServeAct(i) ==
  \/ Lock(i) \/ SpawnSigner(i) \/ SpawnFrontend(i) \/ SpawnFails(i)
  \/ Forward(i) \/ StopOnSignal(i) \/ StopOnExit(i) \/ Kill(i)
  \/ Finish(i) \/ SignerStarts(i) \/ SignerInits(i) \/ serverHandshake(i)
  \/ SignerEnds(i) \/ ServerStarts(i) \/ ServerOpens(i) \/ DialConn(i)
  \/ ServerInits(i) \/ Listen(i) \/ Drain(i) \/ Drained(i)
  \/ Stop(i) \/ ServerExits(i) \/ ProcessEnds(i) \/ JobBegins(i)
  \/ JobEnds(i) \/ HandlerBegins(i) \/ HandlerEnds(i) \/ Reload(i)
  \/ Terminate(i) \/ Hangup(i) \/ SignerDies(i) \/ ServerDies(i)
  \/ LauncherDies(i)

\* Any number of instances, started, signalled, crashed and killed in any order, put
\* one writer at a time on the store, unless a launcher was killed outright; the
\* frontend finds the CA its signer made, and a failed launcher has named its cause
\* (holdInstanceLock, supervisor.run, goroutineGroup.Stop).  Everything but the lock
\* is the instance's own, and nobody takes the lock from another.
THEOREM ServeKeepsOneWriter == Spec => []StoreHasOneWriter
<1>0. "free" \notin Instances
  BY ServiceAssumption DEF Free
<1> USE <1>0 DEF Free, Gone
<1>1. Init => ServeInv
  <2> SUFFICES ASSUME Init PROVE ServeInv
    OBVIOUS
  <2>1. ServeTypes
    BY DEF Init, ServeTypes
  <2>2. ASSUME NEW i \in Instances PROVE ServeAt(i)
    BY DEF Init, ServeAt, ServeTree, ServeSingle, ServeWork
  <2> QED BY <2>1, <2>2 DEF ServeInv
<1>2. ASSUME ServeInv, NEW i \in Instances, ServeApart(i), ServeAt(i)', ServeTypes'
      PROVE  ServeInv'
  <2> SUFFICES ASSUME NEW j \in Instances, j # i PROVE ServeAt(j)'
    BY <1>2 DEF ServeInv
  <2>1. ServeAt(j)
    BY <1>2 DEF ServeInv
  <2> QED BY SMTT(30), <1>2, <2>1 DEF ServeApart, ServeAt, ServeTree, ServeSingle, ServeWork
<1>3. ASSUME ServeInv, NEW i \in Instances, ServeAct(i)
      PROVE  ServeTypes' /\ ServeApart(i) /\ ServeAt(i)'
  <2> USE DEF heard
  <2>a. ServeTypes /\ ServeWork(i)
    BY <1>3 DEF ServeInv, ServeAt
  <2>b. i \in Isolated => ServeTree(i)
    BY <1>3 DEF ServeInv, ServeAt
  <2>c. i \notin Isolated => ServeSingle(i)
    BY <1>3 DEF ServeInv, ServeAt
  <2>1. CASE Lock(i)
    <3>1. ServeTypes' /\ ServeApart(i)
      BY <2>1, <2>a DEF Lock, Unlock, ServeTypes, ServeApart
    <3>2. ServeWork(i)'
      BY <2>1, <2>a, <2>b, <2>c DEF Lock, Unlock, ServeTypes, ServeWork, ServeTree, ServeSingle
    <3>3. ASSUME i \in Isolated PROVE ServeTree(i)'
      BY <2>1, <2>a, <2>b, <3>3 DEF Lock, Unlock, ServeTypes, ServeWork, ServeTree
    <3>4. ASSUME i \notin Isolated PROVE ServeSingle(i)'
      BY <2>1, <2>a, <2>c, <3>4 DEF Lock, Unlock, ServeTypes, ServeWork, ServeSingle
    <3> QED BY ONLY ZenonT(60), <3>1, <3>2, <3>3, <3>4 DEF ServeAt
  <2>2. CASE SpawnSigner(i)
    <3>1. ServeTypes' /\ ServeApart(i)
      BY <2>2, <2>a DEF SpawnSigner, ServeTypes, ServeApart
    <3>2. ServeWork(i)'
      BY <2>2, <2>a, <2>b, <2>c DEF SpawnSigner, ServeTypes, ServeWork, ServeTree, ServeSingle
    <3>3. ASSUME i \in Isolated PROVE ServeTree(i)'
      BY <2>2, <2>a, <2>b, <3>3 DEF SpawnSigner, ServeTypes, ServeWork, ServeTree
    <3>4. ASSUME i \notin Isolated PROVE ServeSingle(i)'
      BY <2>2, <2>a, <2>c, <3>4 DEF SpawnSigner, ServeTypes, ServeWork, ServeSingle
    <3> QED BY ONLY ZenonT(60), <3>1, <3>2, <3>3, <3>4 DEF ServeAt
  <2>3. CASE SpawnFrontend(i)
    <3>1. ServeTypes' /\ ServeApart(i)
      BY <2>3, <2>a DEF SpawnFrontend, ServeTypes, ServeApart
    <3>2. ServeWork(i)'
      BY <2>3, <2>a, <2>b, <2>c DEF SpawnFrontend, ServeTypes, ServeWork, ServeTree, ServeSingle
    <3>3. ASSUME i \in Isolated PROVE ServeTree(i)'
      BY <2>3, <2>a, <2>b, <3>3 DEF SpawnFrontend, ServeTypes, ServeWork, ServeTree
    <3>4. ASSUME i \notin Isolated PROVE ServeSingle(i)'
      BY <2>3, <2>a, <2>c, <3>4 DEF SpawnFrontend, ServeTypes, ServeWork, ServeSingle
    <3> QED BY ONLY ZenonT(60), <3>1, <3>2, <3>3, <3>4 DEF ServeAt
  <2>4. CASE SpawnFails(i)
    <3>1. ServeTypes' /\ ServeApart(i)
      BY <2>4, <2>a DEF SpawnFails, Unlock, killAndReap, ServeTypes, ServeApart
    <3>2. ServeWork(i)'
      BY <2>4, <2>a, <2>b, <2>c DEF SpawnFails, Unlock, killAndReap, ServeTypes, ServeWork,
         ServeTree, ServeSingle
    <3>3. ASSUME i \in Isolated PROVE ServeTree(i)'
      BY <2>4, <2>a, <2>b, <3>3 DEF SpawnFails, Unlock, killAndReap, ServeTypes, ServeWork,
         ServeTree
    <3>4. ASSUME i \notin Isolated PROVE ServeSingle(i)'
      BY <2>4, <2>a, <2>c, <3>4 DEF SpawnFails, Unlock, killAndReap, ServeTypes, ServeWork,
         ServeSingle
    <3> QED BY ONLY ZenonT(60), <3>1, <3>2, <3>3, <3>4 DEF ServeAt
  <2>5. CASE Forward(i)
    <3>1. ServeTypes' /\ ServeApart(i)
      BY <2>5, <2>a DEF Forward, ServeTypes, ServeApart
    <3>2. ServeWork(i)'
      BY <2>5, <2>a, <2>b, <2>c DEF Forward, ServeTypes, ServeWork, ServeTree, ServeSingle
    <3>3. ASSUME i \in Isolated PROVE ServeTree(i)'
      BY <2>5, <2>a, <2>b, <3>3 DEF Forward, ServeTypes, ServeWork, ServeTree
    <3>4. ASSUME i \notin Isolated PROVE ServeSingle(i)'
      BY <2>5, <2>a, <2>c, <3>4 DEF Forward, ServeTypes, ServeWork, ServeSingle
    <3> QED BY ONLY ZenonT(60), <3>1, <3>2, <3>3, <3>4 DEF ServeAt
  <2>6. CASE StopOnSignal(i)
    <3>1. ServeTypes' /\ ServeApart(i)
      BY <2>6, <2>a DEF StopOnSignal, stopBoth, Ended, ServeTypes, ServeApart
    <3>2. ServeWork(i)'
      BY <2>6, <2>a, <2>b, <2>c DEF StopOnSignal, stopBoth, Ended, ServeTypes, ServeWork,
         ServeTree, ServeSingle
    <3>3. ASSUME i \in Isolated PROVE ServeTree(i)'
      BY <2>6, <2>a, <2>b, <3>3 DEF StopOnSignal, stopBoth, Ended, ServeTypes, ServeWork, ServeTree
    <3>4. ASSUME i \notin Isolated PROVE ServeSingle(i)'
      BY <2>6, <2>a, <2>c, <3>4 DEF StopOnSignal, stopBoth, Ended, ServeTypes, ServeWork,
         ServeSingle
    <3> QED BY ONLY ZenonT(60), <3>1, <3>2, <3>3, <3>4 DEF ServeAt
  <2>7. CASE StopOnExit(i)
    <3>1. ServeTypes' /\ ServeApart(i)
      BY <2>7, <2>a DEF StopOnExit, stopBoth, Ended, ServeTypes, ServeApart
    <3>2. ServeWork(i)'
      BY <2>7, <2>a, <2>b, <2>c DEF StopOnExit, stopBoth, Ended, ServeTypes, ServeWork, ServeTree,
         ServeSingle
    <3>3. ASSUME i \in Isolated PROVE ServeTree(i)'
      BY <2>7, <2>a, <2>b, <3>3 DEF StopOnExit, stopBoth, Ended, ServeTypes, ServeWork, ServeTree
    <3>4. ASSUME i \notin Isolated PROVE ServeSingle(i)'
      BY <2>7, <2>a, <2>c, <3>4 DEF StopOnExit, stopBoth, Ended, ServeTypes, ServeWork, ServeSingle
    <3> QED BY ONLY ZenonT(60), <3>1, <3>2, <3>3, <3>4 DEF ServeAt
  <2>8. CASE Kill(i)
    <3>1. ServeTypes' /\ ServeApart(i)
      BY <2>8, <2>a DEF Kill, ServeTypes, ServeApart
    <3>2. ServeWork(i)'
      BY <2>8, <2>a, <2>b, <2>c DEF Kill, ServeTypes, ServeWork, ServeTree, ServeSingle
    <3>3. ASSUME i \in Isolated PROVE ServeTree(i)'
      BY <2>8, <2>a, <2>b, <3>3 DEF Kill, ServeTypes, ServeWork, ServeTree
    <3>4. ASSUME i \notin Isolated PROVE ServeSingle(i)'
      BY <2>8, <2>a, <2>c, <3>4 DEF Kill, ServeTypes, ServeWork, ServeSingle
    <3> QED BY ONLY ZenonT(60), <3>1, <3>2, <3>3, <3>4 DEF ServeAt
  <2>9. CASE Finish(i)
    <3>1. ServeTypes' /\ ServeApart(i)
      BY SMTT(30), <2>9, <2>a DEF Finish, Unlock, children, ServeTypes, ServeApart
    <3>2. ServeWork(i)'
      BY <2>9, <2>a, <2>b, <2>c DEF Finish, Unlock, children, ServeTypes, ServeWork, ServeTree,
         ServeSingle
    <3>3. ASSUME i \in Isolated PROVE ServeTree(i)'
      BY <2>9, <2>a, <2>b, <3>3 DEF Finish, Unlock, children, ServeTypes, ServeWork, ServeTree
    <3>4. ASSUME i \notin Isolated PROVE ServeSingle(i)'
      BY <2>9, <2>a, <2>c, <3>4 DEF Finish, Unlock, children, ServeTypes, ServeWork, ServeSingle
    <3> QED BY ONLY ZenonT(60), <3>1, <3>2, <3>3, <3>4 DEF ServeAt
  <2>10. CASE SignerStarts(i)
    <3>1. ServeTypes' /\ ServeApart(i)
      BY <2>10, <2>a DEF SignerStarts, ServeTypes, ServeApart
    <3>2. ServeWork(i)'
      BY <2>10, <2>a, <2>b, <2>c DEF SignerStarts, ServeTypes, ServeWork, ServeTree, ServeSingle
    <3>3. ASSUME i \in Isolated PROVE ServeTree(i)'
      BY <2>10, <2>a, <2>b, <3>3 DEF SignerStarts, ServeTypes, ServeWork, ServeTree
    <3>4. ASSUME i \notin Isolated PROVE ServeSingle(i)'
      BY <2>10, <2>a, <2>c, <3>4 DEF SignerStarts, ServeTypes, ServeWork, ServeSingle
    <3> QED BY ONLY ZenonT(60), <3>1, <3>2, <3>3, <3>4 DEF ServeAt
  <2>11. CASE SignerInits(i)
    <3>1. ServeTypes' /\ ServeApart(i)
      BY SMTT(30), <2>11, <2>a DEF SignerInits, ServeTypes, ServeApart
    <3>2. ServeWork(i)'
      BY <2>11, <2>a, <2>b, <2>c DEF SignerInits, ServeTypes, ServeWork, ServeTree, ServeSingle
    <3>3. ASSUME i \in Isolated PROVE ServeTree(i)'
      BY SMTT(30), <2>11, <2>a, <2>b, <3>3 DEF SignerInits, ServeTypes, ServeWork, ServeTree
    <3>4. ASSUME i \notin Isolated PROVE ServeSingle(i)'
      BY <2>11, <2>a, <2>c, <3>4 DEF SignerInits, ServeTypes, ServeWork, ServeSingle
    <3> QED BY ONLY ZenonT(60), <3>1, <3>2, <3>3, <3>4 DEF ServeAt
  <2>12. CASE serverHandshake(i)
    <3>1. ServeTypes' /\ ServeApart(i)
      BY <2>12, <2>a DEF serverHandshake, ServeTypes, ServeApart
    <3>2. ServeWork(i)'
      BY <2>12, <2>a, <2>b, <2>c DEF serverHandshake, ServeTypes, ServeWork, ServeTree, ServeSingle
    <3>3. ASSUME i \in Isolated PROVE ServeTree(i)'
      BY <2>12, <2>a, <2>b, <3>3 DEF serverHandshake, ServeTypes, ServeWork, ServeTree
    <3>4. ASSUME i \notin Isolated PROVE ServeSingle(i)'
      BY <2>12, <2>a, <2>c, <3>4 DEF serverHandshake, ServeTypes, ServeWork, ServeSingle
    <3> QED BY ONLY ZenonT(60), <3>1, <3>2, <3>3, <3>4 DEF ServeAt
  <2>13. CASE SignerEnds(i)
    <3>1. ServeTypes' /\ ServeApart(i)
      BY <2>13, <2>a DEF SignerEnds, ServeTypes, ServeApart
    <3>2. ServeWork(i)'
      BY <2>13, <2>a, <2>b, <2>c DEF SignerEnds, ServeTypes, ServeWork, ServeTree, ServeSingle
    <3>3. ASSUME i \in Isolated PROVE ServeTree(i)'
      BY <2>13, <2>a, <2>b, <3>3 DEF SignerEnds, ServeTypes, ServeWork, ServeTree
    <3>4. ASSUME i \notin Isolated PROVE ServeSingle(i)'
      BY <2>13, <2>a, <2>c, <3>4 DEF SignerEnds, ServeTypes, ServeWork, ServeSingle
    <3> QED BY ONLY ZenonT(60), <3>1, <3>2, <3>3, <3>4 DEF ServeAt
  <2>14. CASE ServerStarts(i)
    <3>1. ServeTypes' /\ ServeApart(i)
      BY <2>14, <2>a DEF ServerStarts, To, ServeTypes, ServeApart
    <3>2. ServeWork(i)'
      BY <2>14, <2>a, <2>b, <2>c DEF ServerStarts, To, ServeTypes, ServeWork, ServeTree, ServeSingle
    <3>3. ASSUME i \in Isolated PROVE ServeTree(i)'
      BY <2>14, <2>a, <2>b, <3>3 DEF ServerStarts, To, ServeTypes, ServeWork, ServeTree
    <3>4. ASSUME i \notin Isolated PROVE ServeSingle(i)'
      BY <2>14, <2>a, <2>c, <3>4 DEF ServerStarts, To, ServeTypes, ServeWork, ServeSingle
    <3> QED BY ONLY ZenonT(60), <3>1, <3>2, <3>3, <3>4 DEF ServeAt
  <2>15. CASE ServerOpens(i)
    <3>1. ServeTypes' /\ ServeApart(i)
      BY <2>15, <2>a DEF ServerOpens, To, ServeTypes, ServeApart
    <3>2. ServeWork(i)'
      BY <2>15, <2>a, <2>b, <2>c DEF ServerOpens, To, ServeTypes, ServeWork, ServeTree, ServeSingle
    <3>3. ASSUME i \in Isolated PROVE ServeTree(i)'
      BY <2>15, <2>a, <2>b, <3>3 DEF ServerOpens, To, ServeTypes, ServeWork, ServeTree
    <3>4. ASSUME i \notin Isolated PROVE ServeSingle(i)'
      BY <2>15, <2>a, <2>c, <3>4 DEF ServerOpens, To, ServeTypes, ServeWork, ServeSingle
    <3> QED BY ONLY ZenonT(60), <3>1, <3>2, <3>3, <3>4 DEF ServeAt
  <2>16. CASE DialConn(i)
    <3>1. ServeTypes' /\ ServeApart(i)
      BY <2>16, <2>a DEF DialConn, To, ServeTypes, ServeApart
    <3>2. ServeWork(i)'
      BY <2>16, <2>a, <2>b, <2>c DEF DialConn, To, ServeTypes, ServeWork, ServeTree, ServeSingle
    <3>3. ASSUME i \in Isolated PROVE ServeTree(i)'
      BY <2>16, <2>a, <2>b, <3>3 DEF DialConn, To, ServeTypes, ServeWork, ServeTree
    <3>4. ASSUME i \notin Isolated PROVE ServeSingle(i)'
      BY <2>16, <2>a, <2>c, <3>4 DEF DialConn, To, ServeTypes, ServeWork, ServeSingle
    <3> QED BY ONLY ZenonT(60), <3>1, <3>2, <3>3, <3>4 DEF ServeAt
  <2>17. CASE ServerInits(i)
    <3>1. ServeTypes' /\ ServeApart(i)
      BY SMTT(30), <2>17, <2>a DEF ServerInits, To, ServeTypes, ServeApart
    <3>2. ServeWork(i)'
      BY <2>17, <2>a, <2>b, <2>c DEF ServerInits, To, ServeTypes, ServeWork, ServeTree, ServeSingle
    <3>3. ASSUME i \in Isolated PROVE ServeTree(i)'
      <4> USE DEF ServeTypes, ServeTree, To
      <4>1. CASE To(i, "bind") /\ made' = TRUE
        BY <2>17, <2>a, <2>b, <3>3, <4>1 DEF ServerInits
      <4>2. CASE To(i, "close") /\ UNCHANGED made
        BY <2>17, <2>a, <2>b, <3>3, <4>2 DEF ServerInits
      <4> QED BY ONLY ZenonT(60), <2>17, <4>1, <4>2 DEF ServerInits
    <3>4. ASSUME i \notin Isolated PROVE ServeSingle(i)'
      BY <2>17, <2>a, <2>c, <3>4 DEF ServerInits, To, ServeTypes, ServeWork, ServeSingle
    <3> QED BY ONLY ZenonT(60), <3>1, <3>2, <3>3, <3>4 DEF ServeAt
  <2>18. CASE Listen(i)
    <3>1. ServeTypes' /\ ServeApart(i)
      BY <2>18, <2>a DEF Listen, To, ServeTypes, ServeApart
    <3>2. ServeWork(i)'
      BY <2>18, <2>a, <2>b, <2>c DEF Listen, To, ServeTypes, ServeWork, ServeTree, ServeSingle
    <3>3. ASSUME i \in Isolated PROVE ServeTree(i)'
      BY <2>18, <2>a, <2>b, <3>3 DEF Listen, To, ServeTypes, ServeWork, ServeTree
    <3>4. ASSUME i \notin Isolated PROVE ServeSingle(i)'
      BY <2>18, <2>a, <2>c, <3>4 DEF Listen, To, ServeTypes, ServeWork, ServeSingle
    <3> QED BY ONLY ZenonT(60), <3>1, <3>2, <3>3, <3>4 DEF ServeAt
  <2>19. CASE Drain(i)
    <3>1. ServeTypes' /\ ServeApart(i)
      BY <2>19, <2>a DEF Drain, To, ServeTypes, ServeApart
    <3>2. ServeWork(i)'
      BY <2>19, <2>a, <2>b, <2>c DEF Drain, To, ServeTypes, ServeWork, ServeTree, ServeSingle
    <3>3. ASSUME i \in Isolated PROVE ServeTree(i)'
      BY <2>19, <2>a, <2>b, <3>3 DEF Drain, To, ServeTypes, ServeWork, ServeTree
    <3>4. ASSUME i \notin Isolated PROVE ServeSingle(i)'
      BY <2>19, <2>a, <2>c, <3>4 DEF Drain, To, ServeTypes, ServeWork, ServeSingle
    <3> QED BY ONLY ZenonT(60), <3>1, <3>2, <3>3, <3>4 DEF ServeAt
  <2>20. CASE Drained(i)
    <3>1. ServeTypes' /\ ServeApart(i)
      BY <2>20, <2>a DEF Drained, To, ServeTypes, ServeApart
    <3>2. ServeWork(i)'
      BY <2>20, <2>a, <2>b, <2>c DEF Drained, To, ServeTypes, ServeWork, ServeTree, ServeSingle
    <3>3. ASSUME i \in Isolated PROVE ServeTree(i)'
      BY <2>20, <2>a, <2>b, <3>3 DEF Drained, To, ServeTypes, ServeWork, ServeTree
    <3>4. ASSUME i \notin Isolated PROVE ServeSingle(i)'
      BY <2>20, <2>a, <2>c, <3>4 DEF Drained, To, ServeTypes, ServeWork, ServeSingle
    <3> QED BY ONLY ZenonT(60), <3>1, <3>2, <3>3, <3>4 DEF ServeAt
  <2>21. CASE Stop(i)
    <3>1. ServeTypes' /\ ServeApart(i)
      BY <2>21, <2>a DEF Stop, To, ServeTypes, ServeApart
    <3>2. ServeWork(i)'
      BY <2>21, <2>a, <2>b, <2>c DEF Stop, To, ServeTypes, ServeWork, ServeTree, ServeSingle
    <3>3. ASSUME i \in Isolated PROVE ServeTree(i)'
      BY <2>21, <2>a, <2>b, <3>3 DEF Stop, To, ServeTypes, ServeWork, ServeTree
    <3>4. ASSUME i \notin Isolated PROVE ServeSingle(i)'
      BY <2>21, <2>a, <2>c, <3>4 DEF Stop, To, ServeTypes, ServeWork, ServeSingle
    <3> QED BY ONLY ZenonT(60), <3>1, <3>2, <3>3, <3>4 DEF ServeAt
  <2>22. CASE ServerExits(i)
    <3>1. ServeTypes' /\ ServeApart(i)
      BY SMTT(30), <2>22, <2>a DEF ServerExits, Unlock, ServeTypes, ServeApart
    <3>2. ServeWork(i)'
      BY <2>22, <2>a, <2>b, <2>c DEF ServerExits, Unlock, ServeTypes, ServeWork, ServeTree,
         ServeSingle
    <3>3. ASSUME i \in Isolated PROVE ServeTree(i)'
      BY <2>22, <2>a, <2>b, <3>3 DEF ServerExits, Unlock, ServeTypes, ServeWork, ServeTree
    <3>4. ASSUME i \notin Isolated PROVE ServeSingle(i)'
      BY <2>22, <2>a, <2>c, <3>4 DEF ServerExits, Unlock, ServeTypes, ServeWork, ServeSingle
    <3> QED BY ONLY ZenonT(60), <3>1, <3>2, <3>3, <3>4 DEF ServeAt
  <2>23. CASE ProcessEnds(i)
    <3>1. ServeTypes' /\ ServeApart(i)
      BY <2>23, <2>a DEF ProcessEnds, ServeTypes, ServeApart
    <3>2. ServeWork(i)'
      BY <2>23, <2>a, <2>b, <2>c DEF ProcessEnds, ServeTypes, ServeWork, ServeTree, ServeSingle
    <3>3. ASSUME i \in Isolated PROVE ServeTree(i)'
      BY <2>23, <2>a, <2>b, <3>3 DEF ProcessEnds, ServeTypes, ServeWork, ServeTree
    <3>4. ASSUME i \notin Isolated PROVE ServeSingle(i)'
      BY <2>23, <2>a, <2>c, <3>4 DEF ProcessEnds, ServeTypes, ServeWork, ServeSingle
    <3> QED BY ONLY ZenonT(60), <3>1, <3>2, <3>3, <3>4 DEF ServeAt
  <2>24. CASE JobBegins(i)
    <3>1. ServeTypes' /\ ServeApart(i)
      BY <2>24, <2>a DEF JobBegins, ServeTypes, ServeApart
    <3>2. ServeWork(i)'
      BY <2>24, <2>a, <2>b, <2>c DEF JobBegins, ServeTypes, ServeWork, ServeTree, ServeSingle
    <3>3. ASSUME i \in Isolated PROVE ServeTree(i)'
      BY <2>24, <2>a, <2>b, <3>3 DEF JobBegins, ServeTypes, ServeWork, ServeTree
    <3>4. ASSUME i \notin Isolated PROVE ServeSingle(i)'
      BY <2>24, <2>a, <2>c, <3>4 DEF JobBegins, ServeTypes, ServeWork, ServeSingle
    <3> QED BY ONLY ZenonT(60), <3>1, <3>2, <3>3, <3>4 DEF ServeAt
  <2>25. CASE JobEnds(i)
    <3>1. ServeTypes' /\ ServeApart(i)
      BY <2>25, <2>a DEF JobEnds, ServeTypes, ServeApart
    <3>2. ServeWork(i)'
      BY <2>25, <2>a, <2>b, <2>c DEF JobEnds, ServeTypes, ServeWork, ServeTree, ServeSingle
    <3>3. ASSUME i \in Isolated PROVE ServeTree(i)'
      BY <2>25, <2>a, <2>b, <3>3 DEF JobEnds, ServeTypes, ServeWork, ServeTree
    <3>4. ASSUME i \notin Isolated PROVE ServeSingle(i)'
      BY <2>25, <2>a, <2>c, <3>4 DEF JobEnds, ServeTypes, ServeWork, ServeSingle
    <3> QED BY ONLY ZenonT(60), <3>1, <3>2, <3>3, <3>4 DEF ServeAt
  <2>26. CASE HandlerBegins(i)
    <3>1. ServeTypes' /\ ServeApart(i)
      BY <2>26, <2>a DEF HandlerBegins, ServeTypes, ServeApart
    <3>2. ServeWork(i)'
      BY <2>26, <2>a, <2>b, <2>c DEF HandlerBegins, ServeTypes, ServeWork, ServeTree, ServeSingle
    <3>3. ASSUME i \in Isolated PROVE ServeTree(i)'
      BY <2>26, <2>a, <2>b, <3>3 DEF HandlerBegins, ServeTypes, ServeWork, ServeTree
    <3>4. ASSUME i \notin Isolated PROVE ServeSingle(i)'
      BY <2>26, <2>a, <2>c, <3>4 DEF HandlerBegins, ServeTypes, ServeWork, ServeSingle
    <3> QED BY ONLY ZenonT(60), <3>1, <3>2, <3>3, <3>4 DEF ServeAt
  <2>27. CASE HandlerEnds(i)
    <3>1. ServeTypes' /\ ServeApart(i)
      BY <2>27, <2>a DEF HandlerEnds, ServeTypes, ServeApart
    <3>2. ServeWork(i)'
      BY <2>27, <2>a, <2>b, <2>c DEF HandlerEnds, ServeTypes, ServeWork, ServeTree, ServeSingle
    <3>3. ASSUME i \in Isolated PROVE ServeTree(i)'
      BY <2>27, <2>a, <2>b, <3>3 DEF HandlerEnds, ServeTypes, ServeWork, ServeTree
    <3>4. ASSUME i \notin Isolated PROVE ServeSingle(i)'
      BY <2>27, <2>a, <2>c, <3>4 DEF HandlerEnds, ServeTypes, ServeWork, ServeSingle
    <3> QED BY ONLY ZenonT(60), <3>1, <3>2, <3>3, <3>4 DEF ServeAt
  <2>28. CASE Reload(i)
    <3>1. ServeTypes' /\ ServeApart(i)
      BY <2>28, <2>a DEF Reload, children, ServeTypes, ServeApart
    <3>2. ServeWork(i)'
      BY <2>28, <2>a, <2>b, <2>c DEF Reload, children, ServeTypes, ServeWork, ServeTree, ServeSingle
    <3>3. ASSUME i \in Isolated PROVE ServeTree(i)'
      BY <2>28, <2>a, <2>b, <3>3 DEF Reload, children, ServeTypes, ServeWork, ServeTree
    <3>4. ASSUME i \notin Isolated PROVE ServeSingle(i)'
      BY <2>28, <2>a, <2>c, <3>4 DEF Reload, children, ServeTypes, ServeWork, ServeSingle
    <3> QED BY ONLY ZenonT(60), <3>1, <3>2, <3>3, <3>4 DEF ServeAt
  <2>29. CASE Terminate(i)
    <3>1. ServeTypes' /\ ServeApart(i)
      BY <2>29, <2>a DEF Terminate, children, ServeTypes, ServeApart
    <3>2. ServeWork(i)'
      BY <2>29, <2>a, <2>b, <2>c DEF Terminate, children, ServeTypes, ServeWork, ServeTree,
         ServeSingle
    <3>3. ASSUME i \in Isolated PROVE ServeTree(i)'
      BY <2>29, <2>a, <2>b, <3>3 DEF Terminate, children, ServeTypes, ServeWork, ServeTree
    <3>4. ASSUME i \notin Isolated PROVE ServeSingle(i)'
      BY <2>29, <2>a, <2>c, <3>4 DEF Terminate, children, ServeTypes, ServeWork, ServeSingle
    <3> QED BY ONLY ZenonT(60), <3>1, <3>2, <3>3, <3>4 DEF ServeAt
  <2>30. CASE Hangup(i)
    <3>1. ServeTypes' /\ ServeApart(i)
      BY <2>30, <2>a DEF Hangup, children, ServeTypes, ServeApart
    <3>2. ServeWork(i)'
      BY <2>30, <2>a, <2>b, <2>c DEF Hangup, children, ServeTypes, ServeWork, ServeTree, ServeSingle
    <3>3. ASSUME i \in Isolated PROVE ServeTree(i)'
      BY <2>30, <2>a, <2>b, <3>3 DEF Hangup, children, ServeTypes, ServeWork, ServeTree
    <3>4. ASSUME i \notin Isolated PROVE ServeSingle(i)'
      BY <2>30, <2>a, <2>c, <3>4 DEF Hangup, children, ServeTypes, ServeWork, ServeSingle
    <3> QED BY ONLY ZenonT(60), <3>1, <3>2, <3>3, <3>4 DEF ServeAt
  <2>31. CASE SignerDies(i)
    <3>1. ServeTypes' /\ ServeApart(i)
      BY <2>31, <2>a DEF SignerDies, ServeTypes, ServeApart
    <3>2. ServeWork(i)'
      BY <2>31, <2>a, <2>b, <2>c DEF SignerDies, ServeTypes, ServeWork, ServeTree, ServeSingle
    <3>3. ASSUME i \in Isolated PROVE ServeTree(i)'
      BY <2>31, <2>a, <2>b, <3>3 DEF SignerDies, ServeTypes, ServeWork, ServeTree
    <3>4. ASSUME i \notin Isolated PROVE ServeSingle(i)'
      BY <2>31, <2>a, <2>c, <3>4 DEF SignerDies, ServeTypes, ServeWork, ServeSingle
    <3> QED BY ONLY ZenonT(60), <3>1, <3>2, <3>3, <3>4 DEF ServeAt
  <2>32. CASE ServerDies(i)
    <3>1. ServeTypes' /\ ServeApart(i)
      BY <2>32, <2>a DEF ServerDies, Unlock, ServeTypes, ServeApart
    <3>2. ServeWork(i)'
      BY <2>32, <2>a, <2>b, <2>c DEF ServerDies, Unlock, ServeTypes, ServeWork, ServeTree,
         ServeSingle
    <3>3. ASSUME i \in Isolated PROVE ServeTree(i)'
      BY <2>32, <2>a, <2>b, <3>3 DEF ServerDies, Unlock, ServeTypes, ServeWork, ServeTree
    <3>4. ASSUME i \notin Isolated PROVE ServeSingle(i)'
      BY <2>32, <2>a, <2>c, <3>4 DEF ServerDies, Unlock, ServeTypes, ServeWork, ServeSingle
    <3> QED BY ONLY ZenonT(60), <3>1, <3>2, <3>3, <3>4 DEF ServeAt
  <2>33. CASE LauncherDies(i)
    <3>1. ServeTypes' /\ ServeApart(i)
      BY <2>33, <2>a DEF LauncherDies, Unlock, children, ServeTypes, ServeApart
    <3>2. ServeWork(i)'
      BY <2>33, <2>a, <2>b, <2>c DEF LauncherDies, Unlock, children, ServeTypes, ServeWork,
         ServeTree, ServeSingle
    <3>3. ASSUME i \in Isolated PROVE ServeTree(i)'
      BY <2>33, <2>a, <2>b, <3>3 DEF LauncherDies, Unlock, children, ServeTypes, ServeWork,
         ServeTree
    <3>4. ASSUME i \notin Isolated PROVE ServeSingle(i)'
      BY <2>33, <2>a, <2>c, <3>4 DEF LauncherDies, Unlock, children, ServeTypes, ServeWork,
         ServeSingle
    <3> QED BY ONLY ZenonT(60), <3>1, <3>2, <3>3, <3>4 DEF ServeAt
  <2> QED BY ONLY ZenonT(60), <1>3, <2>1, <2>2, <2>3, <2>4, <2>5, <2>6, <2>7,
             <2>8, <2>9, <2>10, <2>11, <2>12, <2>13, <2>14, <2>15, <2>16, <2>17,
             <2>18, <2>19, <2>20, <2>21, <2>22, <2>23, <2>24, <2>25, <2>26,
             <2>27, <2>28, <2>29, <2>30, <2>31, <2>32, <2>33 DEF ServeAct
<1>4. ServeInv /\ [Next]_vars => ServeInv'
  <2>1. CASE UNCHANGED vars
    BY <2>1 DEF ServeInv, ServeTypes, ServeAt, ServeTree, ServeSingle, ServeWork, vars
  <2>2. ASSUME ServeInv, NEW i \in Instances, ServeAct(i) PROVE ServeInv'
    BY <1>2, <1>3, <2>2
  <2> QED BY <2>1, <2>2 DEF Next, ServeAct
<1>5. ServeInv => StoreHasOneWriter
  <2> SUFFICES ASSUME ServeInv, NEW i \in Instances
               PROVE  /\ Writing(i) => lock = i \/ main[i] = "killed"
                      /\ i \in Isolated /\ server[i] \in {"init", "bind", "serve"} => made
                      /\ main[i] = "failed" => told[i] = "cause"
    BY DEF StoreHasOneWriter, WritersHoldTheLock, FrontendFindsTheCA, CauseIsTheLastWord
  <2>1. CASE i \in Isolated
    BY <2>1 DEF ServeInv, ServeAt, ServeWork, ServeTree, Writing
  <2>2. CASE i \notin Isolated
    BY <2>2 DEF ServeInv, ServeAt, ServeWork, ServeSingle, Writing
  <2> QED BY <2>1, <2>2
<1> QED BY <1>1, <1>4, <1>5, PTL DEF Spec

-----------------------------------------------------------------------------
(* The signer's connection *)

CONSTANTS Callers, Limit, MaxCalls

VARIABLES pipe, psk, st, toSigner, toFrontend, call, mine, seq, refusable, pending, wire, work,
          replies, box, resp, got

Remote == INSTANCE SignerRPC

Proof(e) == Remote!handshakeProof(psk[e], e)

\* The handshake: an end that has read no key has sent nothing, the frontend has
\* had the nonce before it sends its proof, and the signer answers a proof once.
Handshake ==
  /\ DOMAIN st = {"signer", "frontend"} /\ DOMAIN psk = {"signer", "frontend"}
  /\ toSigner = <<>> \/ toSigner = <<Proof("frontend")>>
  /\ st["frontend"] \in {"psk", "greet"} =>
       toSigner = <<>> /\ (toFrontend = <<>> \/ toFrontend = <<"nonce">>)
  /\ st["frontend"] = "answer" => toFrontend = <<>> \/ toFrontend = <<Proof("signer")>>
  /\ st["signer"] \in {"psk", "greet"} => toFrontend = <<>>
        /\ st["frontend"] \notin {"answer", "up"}
  /\ st["signer"] = "answer" /\ st["frontend"] = "answer" => toFrontend = <<>>
  /\ st["signer"] = "up" => st["frontend"] \notin {"psk", "greet"}
  /\ st["signer"] = "up" \/ st["frontend"] = "up" => psk["signer"] = psk["frontend"]

\* The calls: an answer is an error or the signature of its own call, and so is
\* what a call's channel says has arrived.
OwnAnswers ==
  /\ DOMAIN got = Remote!Calls /\ DOMAIN box = Remote!Calls /\ DOMAIN resp = Remote!Calls
  /\ \A r \in replies : \E s \in Remote!Calls : r = <<s, s>> \/ r = <<s, -1>>
  /\ \A s \in Remote!Calls : box[s] \in {0, -1} \/ resp[s] = s
  /\ Remote!SignatureIsOurs

\* Proofs are equal only when they were made with the same key (handshakeProof).
LEMMA ProofKey ==
  ASSUME NEW k, NEW l, NEW a, NEW b, Remote!handshakeProof(k, a) = Remote!handshakeProof(l, b)
  PROVE  k = l
<1>1. \A x, y : Remote!handshakeProof(x, y).key = x
  BY DEF Remote!handshakeProof
<1>2. Remote!handshakeProof(k, a).key = k /\ Remote!handshakeProof(l, b).key = l
  BY <1>1
<1>3. Remote!handshakeProof(k, a).key = Remote!handshakeProof(l, b).key
  OBVIOUS
<1> QED BY ONLY SMTT(30), <1>2, <1>3

\* A message of the handshake that is the only one on its way.
LEMMA OneMessage == ASSUME NEW x
  PROVE Head(<<x>>) = x /\ Tail(<<x>>) = <<>> /\ Append(<<>>, x) = <<x>>
  BY SMTT(30)

\* What the ends read and send keeps the handshake's invariant (loadPSK,
\* serverHandshake, clientHandshake).
LEMMA HandshakeStep ==
  ASSUME Handshake, [Remote!Next]_(Remote!vars)
  PROVE  Handshake'
<1> USE SMTT(30) DEF Remote!To, Remote!Closed
<1> HIDE DEF Remote!handshakeProof
<1>1. ASSUME UNCHANGED <<psk, st, toSigner, toFrontend>> PROVE Handshake'
  BY <1>1 DEF Handshake, Proof
<1>2. ASSUME NEW e \in {"signer", "frontend"}, st' = [st EXCEPT ![e] = "closed"],
             UNCHANGED <<psk, toSigner, toFrontend>>
      PROVE  Handshake'
  BY <1>2 DEF Handshake, Proof
<1>3. ASSUME NEW e \in {"signer", "frontend"}, Remote!readPSK(e) PROVE Handshake'
  <2>1. CASE pipe[e] \notin {"key", "other"}
    BY <1>2, <1>3, <2>1 DEF Remote!readPSK
  <2>2. CASE e = "signer" /\ st' = [st EXCEPT !["signer"] = "greet"]
    BY <1>3, <2>2 DEF Remote!readPSK, Handshake, Proof
  <2>3. CASE e = "frontend" /\ st' = [st EXCEPT !["frontend"] = "greet"]
    BY <1>3, <2>3 DEF Remote!readPSK, Handshake, Proof
  <2> QED BY <1>3, <2>1, <2>2, <2>3 DEF Remote!readPSK
<1>4. ASSUME NEW e \in {"signer", "frontend"}, Remote!ReadFails(e) PROVE Handshake'
  BY ONLY ZenonT(60), <1>2, <1>4 DEF Remote!ReadFails, Remote!To
<1>5. CASE Remote!SendNonce
  <2>1. CASE st["frontend"] = "closed"
    BY <1>2, <1>5, <2>1 DEF Remote!SendNonce
  <2>2. CASE st["frontend"] # "closed"
    <3>1. toFrontend' = <<"nonce">> /\ st' = [st EXCEPT !["signer"] = "answer"]
          /\ UNCHANGED <<psk, toSigner>> /\ st["signer"] = "greet"
      BY <1>5, <2>2 DEF Remote!SendNonce, Handshake
    <3> QED BY <3>1 DEF Handshake, Proof
  <2> QED BY <2>1, <2>2
<1>6. CASE Remote!clientHandshake
  <2>1. /\ toFrontend = <<"nonce">> /\ toSigner = <<>> /\ st["frontend"] = "greet"
        /\ st["signer"] \notin {"psk", "greet"} /\ st["signer"] # "up"
    BY <1>6 DEF Remote!clientHandshake, Handshake
  <2>2. /\ toFrontend' = <<>> /\ toSigner' = <<Proof("frontend")>> /\ UNCHANGED psk
        /\ st' = [st EXCEPT !["frontend"] = "answer"]
    BY <1>6, <2>1 DEF Remote!clientHandshake, Proof
  <2> QED BY <2>1, <2>2 DEF Handshake, Proof
<1>7. CASE Remote!serverHandshake
  <2>1. /\ toSigner = <<Proof("frontend")>> /\ toSigner' = <<>> /\ UNCHANGED psk
        /\ st["signer"] = "answer" /\ st["frontend"] \notin {"psk", "greet"}
        /\ st["frontend"] = "answer" => toFrontend = <<>>
    <3>1. st["signer"] = "answer" /\ toSigner # <<>> /\ toSigner' = Tail(toSigner) /\ UNCHANGED psk
      BY ONLY ZenonT(60), <1>7 DEF Remote!serverHandshake
    <3>2. toSigner = <<Proof("frontend")>> /\ st["frontend"] \notin {"psk", "greet"}
          /\ (st["frontend"] = "answer" => toFrontend = <<>>)
      BY ONLY ZenonT(60), Handshake, <3>1 DEF Handshake
    <3> QED BY ONLY ZenonT(60), <3>1, <3>2, OneMessage
  <2>2. \/ st' = [st EXCEPT !["signer"] = "closed"] /\ UNCHANGED toFrontend
        \/ /\ Proof("frontend") = Remote!handshakeProof(psk["signer"], "frontend")
           /\ st' = [st EXCEPT !["signer"] = "up"]
                 /\ toFrontend' = Append(toFrontend, Proof("signer"))
    <3>1. Head(toSigner) = Proof("frontend")
      BY ONLY ZenonT(60), <2>1, OneMessage
    <3> QED BY ONLY ZenonT(60), <1>7, <3>1 DEF Remote!serverHandshake, Remote!To, Proof
  <2>3. CASE st' = [st EXCEPT !["signer"] = "closed"] /\ UNCHANGED toFrontend
    BY <2>1, <2>3 DEF Handshake, Proof
  <2>4. CASE /\ Proof("frontend") = Remote!handshakeProof(psk["signer"], "frontend")
             /\ st' = [st EXCEPT !["signer"] = "up"]
                   /\ toFrontend' = Append(toFrontend, Proof("signer"))
    <3>1. psk["signer"] = psk["frontend"]
      BY ONLY ZenonT(60), <2>4, ProofKey DEF Proof
    <3>2. st["frontend"] = "answer" => toFrontend' = <<Proof("signer")>>
      BY <2>1, <2>4
    <3> QED BY <2>1, <2>4, <3>1, <3>2 DEF Handshake, Proof
  <2> QED BY ONLY ZenonT(60), <2>2, <2>3, <2>4
<1>8. CASE Remote!DialConn
  <2>1. /\ toFrontend = <<Proof("signer")>> /\ toFrontend' = <<>> /\ UNCHANGED <<psk, toSigner>>
        /\ st["frontend"] = "answer" /\ st["signer"] \notin {"psk", "greet"}
    <3>1. st["frontend"] = "answer" /\ toFrontend # <<>> /\ toFrontend' = Tail(toFrontend)
          /\ UNCHANGED <<psk, toSigner>>
      BY ONLY ZenonT(60), <1>8 DEF Remote!DialConn
    <3>2. toFrontend = <<Proof("signer")>> /\ st["signer"] \notin {"psk", "greet"}
      BY ONLY ZenonT(60), Handshake, <3>1 DEF Handshake
    <3> QED BY ONLY ZenonT(60), <3>1, <3>2, OneMessage
  <2>2. \/ st' = [st EXCEPT !["frontend"] = "closed"]
        \/ /\ Proof("signer") = Remote!handshakeProof(psk["frontend"], "signer")
           /\ st' = [st EXCEPT !["frontend"] = "up"]
    <3>1. Head(toFrontend) = Proof("signer")
      BY ONLY ZenonT(60), <2>1, OneMessage
    <3> QED BY ONLY ZenonT(60), <1>8, <3>1 DEF Remote!DialConn, Remote!To, Proof
  <2>3. CASE st' = [st EXCEPT !["frontend"] = "closed"]
    BY <2>1, <2>3 DEF Handshake, Proof
  <2>4. CASE /\ Proof("signer") = Remote!handshakeProof(psk["frontend"], "signer")
             /\ st' = [st EXCEPT !["frontend"] = "up"]
    <3>1. psk["signer"] = psk["frontend"]
      BY ONLY ZenonT(60), <2>4, ProofKey DEF Proof
    <3> QED BY <2>1, <2>4, <3>1 DEF Handshake, Proof
  <2> QED BY ONLY ZenonT(60), <2>2, <2>3, <2>4
<1>9. CASE Remote!ServeEnds \/ Remote!ConnectionLost \/ Remote!SignerStops \/ Remote!Close
  BY <1>2, <1>9 DEF Remote!ServeEnds, Remote!ConnectionLost, Remote!SignerStops, Remote!Close,
     Remote!Teardown
<1>10. ASSUME NEW c \in Callers, Remote!Begin(c) \/ Remote!Send(c) \/ Remote!Sign(c)
              \/ Remote!signTimeout(c)
       PROVE  Handshake'
  BY <1>1, <1>10 DEF Remote!Begin, Remote!Send, Remote!Sign, Remote!signTimeout, Remote!hand
<1>11. ASSUME NEW s, Remote!Serve(s) \/ Remote!ServiceSign(s) \/ Remote!Deliver(s)
       PROVE  Handshake'
  BY <1>1, <1>11 DEF Remote!Serve, Remote!ServiceSign, Remote!Deliver, Remote!hand
<1>12. CASE UNCHANGED Remote!vars
  BY <1>1, <1>12 DEF Remote!vars
<1> QED
  BY ONLY ZenonT(60), [Remote!Next]_(Remote!vars), <1>3, <1>4, <1>5, <1>6, <1>7, <1>8, <1>9, <1>10,
     <1>11, <1>12
     DEF Remote!Next, Remote!SignerEnd, Remote!FrontendEnd

\* Answers keep to their calls (RemoteSigner.Sign, Service.Sign, net/rpc's client).
LEMMA AnswerStep ==
  ASSUME OwnAnswers, [Remote!Next]_(Remote!vars)
  PROVE  OwnAnswers'
<1> USE DEF Remote!callers, Remote!rpc, Remote!hand, Remote!channel, Remote!SignatureIsOurs,
       Remote!None, Remote!Error
<1>0. \A s \in Remote!Calls : s # 0 /\ s # -1
  BY SMTT(30) DEF Remote!Calls
<1> HIDE DEF Remote!Calls
<1>1. ASSUME replies' \subseteq replies, UNCHANGED <<got, box, resp>> PROVE OwnAnswers'
  BY <1>1 DEF OwnAnswers
<1>2. CASE Remote!SignerEnd
  BY <1>1, <1>2 DEF Remote!SignerEnd, Remote!readPSK, Remote!ReadFails, Remote!SendNonce,
     Remote!serverHandshake,
     Remote!ServeEnds
<1>3. ASSUME NEW e, Remote!readPSK(e) \/ Remote!ReadFails(e) \/ Remote!clientHandshake
             \/ Remote!DialConn
      PROVE  OwnAnswers'
  BY <1>1, <1>3 DEF Remote!readPSK, Remote!ReadFails, Remote!clientHandshake, Remote!DialConn
<1>4. CASE Remote!Teardown
  <2>1. DOMAIN box' = Remote!Calls /\ \A s \in Remote!Calls : box'[s] = box[s] \/ box'[s] = -1
    BY <1>4 DEF Remote!Teardown
  <2>2. UNCHANGED <<got, resp>> /\ replies' = {}
    BY <1>4 DEF Remote!Teardown
  <2> QED BY <2>1, <2>2 DEF OwnAnswers
<1>5. ASSUME NEW c \in Callers, Remote!Begin(c) PROVE OwnAnswers'
  BY <1>1, <1>5 DEF Remote!Begin
<1>6. ASSUME NEW c \in Callers, Remote!Send(c) PROVE OwnAnswers'
  <2>1. UNCHANGED <<got, resp, replies>> /\ (box' = box \/ \E s : box' = [box EXCEPT ![s] = -1])
    BY <1>6 DEF Remote!Send
  <2>2. DOMAIN box' = DOMAIN box /\ \A s \in DOMAIN box : box'[s] = box[s] \/ box'[s] = -1
    BY <2>1
  <2> QED BY ONLY ZenonT(60), OwnAnswers, <2>1, <2>2 DEF OwnAnswers, Remote!SignatureIsOurs
<1>7. ASSUME NEW c \in Callers, Remote!Sign(c) PROVE OwnAnswers'
  <2>1. UNCHANGED <<resp, replies>> /\ box' = [box EXCEPT ![mine[c]] = 0] /\ box[mine[c]] # 0
    BY <1>7 DEF Remote!Sign
  <2>2. got' = [got EXCEPT ![mine[c]] = IF box[mine[c]] = -1 THEN "error"
                                        ELSE IF resp[mine[c]] = mine[c] THEN "signed" ELSE "wrong"]
    BY <1>7 DEF Remote!Sign, Remote!Return
  <2>3. DOMAIN box' = Remote!Calls /\ \A s \in Remote!Calls : box'[s] \in {0, box[s]}
    BY <2>1 DEF OwnAnswers
  <2>4. DOMAIN got' = Remote!Calls
    BY <2>2 DEF OwnAnswers
  <2>5. ASSUME NEW s \in Remote!Calls PROVE got'[s] # "wrong"
    <3>1. CASE s = mine[c]
      <4>1. box[s] = -1 \/ resp[s] = s
        BY <2>1, <3>1 DEF OwnAnswers
      <4>2. got'[s] \in {"error", "signed"}
        BY <2>2, <3>1, <4>1 DEF OwnAnswers
      <4> QED BY <4>2
    <3>2. CASE s # mine[c]
      BY <2>2, <3>2 DEF OwnAnswers
    <3> QED BY <3>1, <3>2
  <2> QED BY ONLY ZenonT(60), OwnAnswers, <2>1, <2>3, <2>4, <2>5 DEF OwnAnswers,
             Remote!SignatureIsOurs
<1>8. ASSUME NEW c \in Callers, Remote!signTimeout(c) PROVE OwnAnswers'
  <2>1. UNCHANGED <<resp, replies, box>> /\ got' = [got EXCEPT ![mine[c]] = "timeout"]
    BY <1>8 DEF Remote!signTimeout, Remote!Return
  <2>2. DOMAIN got' = Remote!Calls /\ \A s \in Remote!Calls : got'[s] # "wrong"
    BY <2>1 DEF OwnAnswers
  <2> QED BY ONLY ZenonT(60), OwnAnswers, <2>1, <2>2 DEF OwnAnswers, Remote!SignatureIsOurs
<1>9. ASSUME NEW s \in Remote!Calls, Remote!Serve(s) PROVE OwnAnswers'
  BY <1>1, <1>9 DEF Remote!Serve
<1>10. ASSUME NEW s \in Remote!Calls, Remote!ServiceSign(s) PROVE OwnAnswers'
  <2>1. UNCHANGED <<got, box, resp>> /\ (replies' = replies \cup {<<s, s>>}
        \/ replies' = replies \cup {<<s, -1>>})
    BY <1>10 DEF Remote!ServiceSign
  <2>2. \A r \in replies' : r \in replies \/ r = <<s, s>> \/ r = <<s, -1>>
    BY <2>1
  <2> QED BY ONLY ZenonT(60), OwnAnswers, <2>1, <2>2 DEF OwnAnswers, Remote!SignatureIsOurs
<1>11. ASSUME NEW r \in replies, Remote!Deliver(r) PROVE OwnAnswers'
  <2>1. PICK s \in Remote!Calls : r = <<s, s>> \/ r = <<s, -1>>
    BY DEF OwnAnswers
  <2>2. r[1] = s /\ (r[2] = s \/ r[2] = -1)
    BY ONLY SMTT(30), <2>1
  <2>3. /\ replies' \subseteq replies /\ UNCHANGED got
        /\ box' = [box EXCEPT ![s] = IF box[s] # 0 THEN box[s] ELSE IF r[2] = -1 THEN -1 ELSE 1]
        /\ resp' = [resp EXCEPT ![s] = IF r[2] = -1 THEN resp[s] ELSE r[2]]
    BY <1>11, <2>2 DEF Remote!Deliver
  <2>4. DOMAIN box' = Remote!Calls /\ DOMAIN resp' = Remote!Calls
    BY <2>3 DEF OwnAnswers
  <2>5. ASSUME NEW t \in Remote!Calls PROVE box'[t] \in {0, -1} \/ resp'[t] = t
    <3>1. CASE t # s
      BY <2>3, <3>1 DEF OwnAnswers
    <3>2. CASE t = s /\ r[2] = -1
      BY <2>3, <3>2 DEF OwnAnswers
    <3>3. CASE t = s /\ r[2] = s
      BY <1>0, <2>3, <3>3 DEF OwnAnswers
    <3> QED BY <2>2, <3>1, <3>2, <3>3
  <2> QED BY ONLY ZenonT(60), OwnAnswers, <2>3, <2>4, <2>5 DEF OwnAnswers, Remote!SignatureIsOurs
<1>12. CASE Remote!SignerStops
  BY <1>1, <1>12 DEF Remote!SignerStops
<1>13. CASE UNCHANGED Remote!vars
  BY <1>1, <1>13 DEF Remote!vars
<1> QED
  BY ONLY ZenonT(60), [Remote!Next]_(Remote!vars), <1>2, <1>3, <1>4, <1>5, <1>6, <1>7, <1>8, <1>9,
     <1>10, <1>11,
     <1>12, <1>13
     DEF Remote!Next, Remote!FrontendEnd, Remote!ConnectionLost, Remote!Close

\* Whatever the pipes hold, neither end leaves the handshake unless both read the
\* same key (serverHandshake, clientHandshake), and a Sign that succeeds returns the
\* signature of its own digest, for any number of callers and calls and however late
\* the answers to abandoned calls come (RemoteSigner.Sign).
THEOREM SignerIsOurs ==
  Remote!Spec => [](Remote!ServesUnderOneKey /\ Remote!SignatureIsOurs)
<1>1. Remote!Init => Handshake
  BY SMTT(30) DEF Remote!Init, Remote!Ends, Handshake
<1>2. Remote!Init => OwnAnswers
  BY DEF Remote!Init, OwnAnswers, Remote!SignatureIsOurs, Remote!None
<1>3. Handshake => Remote!ServesUnderOneKey
  BY DEF Handshake, Remote!ServesUnderOneKey, Remote!Ends
<1>4. OwnAnswers => Remote!SignatureIsOurs
  BY DEF OwnAnswers
<1> QED BY <1>1, <1>2, <1>3, <1>4, HandshakeStep, AnswerStep, PTL DEF Remote!Spec

-----------------------------------------------------------------------------
(* The token of the OpenBao signer *)

CONSTANTS Requests, OwnsToken, Revocable, MaxTokens, MaxWatchers, MaxSigns

VARIABLES live, last, fileToken, keyVersion, granted, token, watcher, ended, recent, mu,
          closed, cancelled, loop, close, op, signs

Bao == INSTANCE TokenManager

\* Tokens and the lock: the ones in use have been handed out, and after Close nobody
\* is left who could log in.
Tokens ==
  /\ last \in Nat /\ live \subseteq 1..last /\ token \in 1..last /\ fileToken \in 1..last
  /\ DOMAIN op = Requests /\ DOMAIN loop = {"pc", "w", "recent"}

Owner ==
  /\ mu = "loop" <=> loop.pc = "login"
  /\ closed => loop.pc = "done" /\ mu = Bao!Free
  /\ close = "closed" => closed
  /\ close = "closed" /\ OwnsToken /\ Revocable => token \notin live

\* A request that was refused with a token that is still alive was refused by the
\* policy, and the token is the client's when the request goes on to log in.
Asks(r) ==
  /\ DOMAIN op[r] = {"pc", "sent", "used", "again", "by", "alive"}
  /\ op[r].sent \in Nat /\ op[r].used \in Nat /\ op[r].sent <= last
  /\ OwnsToken => op[r].sent <= token
  /\ mu = r <=> op[r].pc = "login"
  /\ op[r].pc = "signed" => op[r].by = 1 /\ op[r].used > 0
  /\ op[r].pc \in {"refused", "login"} =>
       /\ op[r].used \in live => op[r].alive
       /\ op[r].used <= last
       /\ OwnsToken => op[r].sent <= op[r].used /\ op[r].used <= token
  /\ op[r].pc = "login" /\ OwnsToken => op[r].used = token

TokenInv == Tokens /\ Owner /\ Bao!RenewsTheTokenInUse /\ \A r \in Requests : Asks(r)

\* What every other step leaves of a request (TokenManager.run, another Signer.Sign).
LEMMA AsksKept ==
  ASSUME NEW x \in Requests, Tokens, Asks(x), op'[x] = op[x],
         \/ last' = last /\ live' \subseteq live
         \/ last' = last + 1 /\ live' = live \cup {last + 1},
         mu' = x <=> mu = x, op[x].pc = "login" => token' = token,
         OwnsToken => token' = token \/ token' = last + 1
  PROVE  Asks(x)'
BY SMTT(30) DEF Tokens, Asks

\* What a request's steps do to its own record, and that they leave the others
\* (Signer.withReauth).
LEMMA AsksOthers ==
  ASSUME NEW r \in Requests, NEW x \in Requests, x # r, DOMAIN op = Requests,
         Bao!SignBegin(r) \/ Bao!Request(r)
  PROVE  op'[x] = op[x]
BY DEF Bao!SignBegin, Bao!Request, Bao!Send, Bao!SendFails, Bao!Reauth, Bao!ReauthEnds,
   Bao!Return, Bao!Answer

\* Tokens are handed out in order, and the one in use is among them
\* (TokenManager.reauthLocked).
LEMMA TokensStep ==
  ASSUME TokenInv, Bao!Next PROVE Tokens'
<1> USE DEF Tokens, Bao!openbao, Bao!manager
<1>1. CASE Bao!Loop
  <2>1. CASE Bao!LoopLogin
    BY SMTT(30), <2>1 DEF TokenInv, Bao!LoopLogin, Bao!LoginToken
  <2>2. CASE Bao!LoopLoginEnds
    BY SMTT(30), <2>2 DEF TokenInv, Bao!LoopLoginEnds, Bao!LoginSucceeds, Bao!LoginFails
  <2> QED BY <1>1, <2>1, <2>2 DEF TokenInv, Bao!Loop, Bao!Watch, Bao!WatchEnds,
             Bao!LoopRetries, Bao!LoopStops
<1>2. CASE Bao!Cancel
  BY <1>2 DEF TokenInv, Bao!Cancel
<1>3. CASE Bao!Close
  BY <1>3 DEF TokenInv, Bao!Close
<1>4. ASSUME NEW r \in Requests, Bao!SignBegin(r) PROVE Tokens'
  BY <1>4 DEF TokenInv, Bao!SignBegin
<1>5. ASSUME NEW r \in Requests, Bao!Request(r) PROVE Tokens'
  <2>1. DOMAIN op' = Requests
    BY <1>5 DEF TokenInv, Bao!Request, Bao!Send, Bao!SendFails, Bao!Answer, Bao!Reauth,
       Bao!ReauthEnds, Bao!Return
  <2>2. CASE Bao!ReauthEnds(r)
    BY SMTT(30), <2>1, <2>2 DEF TokenInv, Bao!ReauthEnds, Bao!LoginSucceeds, Bao!LoginFails
  <2>3. CASE Bao!Reauth(r)
    BY <2>1, <2>3 DEF TokenInv, Bao!Reauth, Bao!LoginToken
  <2> QED BY <1>5, <2>1, <2>2, <2>3 DEF TokenInv, Bao!Request, Bao!Send, Bao!SendFails,
              Bao!Return
<1>6. CASE Bao!TokenDies
  BY <1>6 DEF TokenInv, Bao!TokenDies
<1>7. CASE Bao!WatcherGivesUp \/ Bao!RotateKey \/ Bao!PolicyChanges \/ Bao!Tick
  BY <1>7 DEF TokenInv, Bao!WatcherGivesUp, Bao!RotateKey, Bao!PolicyChanges, Bao!Tick
<1>8. CASE Bao!NewTokenFile
  BY SMTT(30), <1>8 DEF TokenInv, Bao!NewTokenFile
<1> QED BY <1>1, <1>2, <1>3, <1>4, <1>5, <1>6, <1>7, <1>8 DEF Bao!Next

\* The lock is the loop's during its login only, and after Close nobody logs in any more
\* (TokenManager.run, TokenManager.Close).
LEMMA OwnerStep ==
  ASSUME "loop" \notin Requests, Bao!Free \notin Requests, TokenInv, Bao!Next
  PROVE  Owner' /\ Bao!RenewsTheTokenInUse'
<1> USE DEF Owner, Tokens, Bao!RenewsTheTokenInUse, Bao!openbao, Bao!manager
<1>0. Bao!Free # "loop"
  BY DEF Bao!Free
<1>1. CASE Bao!Loop
  <2>1. CASE Bao!LoopLogin
    BY <1>0, <2>1 DEF TokenInv, Bao!LoopLogin, Bao!LoginToken
  <2>2. CASE Bao!LoopLoginEnds
    BY <1>0, <2>2 DEF TokenInv, Bao!LoopLoginEnds, Bao!LoginSucceeds, Bao!LoginFails
  <2>3. CASE Bao!Watch
    BY <1>0, <2>3 DEF TokenInv, Bao!Watch
  <2>4. CASE Bao!WatchEnds
    BY <1>0, <2>4 DEF TokenInv, Bao!WatchEnds
  <2>5. CASE Bao!LoopRetries
    BY <1>0, <2>5 DEF TokenInv, Bao!LoopRetries
  <2>6. CASE Bao!LoopStops
    BY <1>0, <2>6 DEF TokenInv, Bao!LoopStops
  <2> QED BY <1>1, <2>1, <2>2, <2>3, <2>4, <2>5, <2>6 DEF Bao!Loop
<1>2. CASE Bao!Cancel
  BY <1>2 DEF TokenInv, Bao!Cancel
<1>3. CASE Bao!Close
  BY <1>0, <1>3 DEF TokenInv, Bao!Close
<1>4. ASSUME NEW r \in Requests, Bao!SignBegin(r) PROVE Owner' /\ Bao!RenewsTheTokenInUse'
  BY <1>4 DEF TokenInv, Bao!SignBegin
<1>5. ASSUME NEW r \in Requests, Bao!Request(r) PROVE Owner' /\ Bao!RenewsTheTokenInUse'
  <2>1. CASE Bao!ReauthEnds(r)
    BY <1>0, <2>1 DEF TokenInv, Bao!ReauthEnds, Bao!LoginSucceeds, Bao!LoginFails, Bao!Rewatch, Asks
  <2>2. CASE Bao!Reauth(r)
    BY <1>0, <2>2 DEF TokenInv, Bao!Reauth, Bao!LoginToken
  <2>3. CASE Bao!Send(r)
    BY <2>3 DEF TokenInv, Bao!Send
  <2>4. CASE Bao!Return(r)
    BY <2>4 DEF TokenInv, Bao!Return
  <2>5. CASE Bao!SendFails(r)
    BY <2>5 DEF TokenInv, Bao!SendFails
  <2> QED BY <1>5, <2>1, <2>2, <2>3, <2>4, <2>5 DEF Bao!Request
<1>6. CASE Bao!TokenDies
  BY <1>6 DEF TokenInv, Bao!TokenDies
<1>7. CASE Bao!WatcherGivesUp
  BY <1>7 DEF TokenInv, Bao!WatcherGivesUp
<1>8. CASE Bao!NewTokenFile
  BY <1>8 DEF TokenInv, Bao!NewTokenFile
<1>9. CASE Bao!Tick
  BY <1>9 DEF TokenInv, Bao!Tick
<1>10. CASE Bao!RotateKey
  BY <1>10 DEF TokenInv, Bao!RotateKey
<1>11. CASE Bao!PolicyChanges
  BY <1>11 DEF TokenInv, Bao!PolicyChanges
<1> QED BY <1>1, <1>2, <1>3, <1>4, <1>5, <1>6, <1>7, <1>8, <1>9, <1>10, <1>11 DEF Bao!Next

\* A request waiting for its login keeps the lock, so nobody else changes the token.
LEMMA AsksStep ==
  ASSUME "loop" \notin Requests, Bao!Free \notin Requests, TokenInv, Bao!Next,
         NEW x \in Requests
  PROVE  Asks(x)'
<1> USE DEF Bao!openbao, Bao!manager
<1>0. Tokens /\ Asks(x) /\ Owner
  BY DEF TokenInv
<1>i. (op[x].pc = "login" <=> mu = x) /\ x # Bao!Free /\ x # "loop"
  BY <1>0 DEF Asks
<1>1. CASE Bao!Loop
  <2>1. op' = op
    BY <1>1 DEF Bao!Loop, Bao!LoopLogin, Bao!LoopLoginEnds, Bao!Watch, Bao!WatchEnds,
       Bao!LoopRetries, Bao!LoopStops
  <2>2. CASE Bao!LoopLogin
    <3>1. /\ mu = Bao!Free /\ (mu' = mu \/ mu' = "loop") /\ last' = last /\ live' = live
          /\ OwnsToken => token' = token
      BY <2>2 DEF Bao!LoopLogin, Bao!LoginToken
    <3> QED BY <1>0, <1>i, <2>1, <3>1, AsksKept
  <2>3. CASE Bao!LoopLoginEnds
    <3>1. mu = "loop" /\ mu' = Bao!Free
      BY <1>0, <2>3 DEF Bao!LoopLoginEnds, Owner
    <3>2. \/ last' = last /\ live' = live
          \/ last' = last + 1 /\ live' = live \cup {last + 1}
      BY <2>3 DEF Bao!LoopLoginEnds, Bao!LoginSucceeds, Bao!LoginFails
    <3>3. OwnsToken => token' = token \/ token' = last + 1
      BY <2>3 DEF Bao!LoopLoginEnds, Bao!LoginSucceeds, Bao!LoginFails
    <3> QED BY <1>0, <1>i, <2>1, <3>1, <3>2, <3>3, AsksKept
  <2>4. CASE Bao!Watch \/ Bao!WatchEnds \/ Bao!LoopRetries \/ Bao!LoopStops
    <3>1. UNCHANGED <<live, last, token, mu>>
      BY <2>4 DEF Bao!Watch, Bao!WatchEnds, Bao!LoopRetries, Bao!LoopStops
    <3> QED BY <1>0, <2>1, <3>1, AsksKept
  <2> QED BY <1>1, <2>2, <2>3, <2>4 DEF Bao!Loop
<1>2. CASE Bao!Cancel \/ Bao!WatcherGivesUp \/ Bao!RotateKey \/ Bao!PolicyChanges \/ Bao!Tick
  <2>1. UNCHANGED <<live, last, token, mu, op>>
    BY <1>2 DEF Bao!Cancel, Bao!WatcherGivesUp, Bao!RotateKey, Bao!PolicyChanges, Bao!Tick
  <2> QED BY <1>0, <2>1, AsksKept
<1>3. CASE Bao!Close \/ Bao!TokenDies
  <2>1. UNCHANGED <<last, token, mu, op>> /\ live' \subseteq live
    BY <1>3 DEF Bao!Close, Bao!TokenDies
  <2> QED BY <1>0, <2>1, AsksKept
<1>4. CASE Bao!NewTokenFile
  <2>1. UNCHANGED <<token, mu, op>> /\ last' = last + 1 /\ live' = live \cup {last + 1}
    BY <1>4 DEF Bao!NewTokenFile
  <2> QED BY <1>0, <2>1, AsksKept
<1>5. ASSUME NEW r \in Requests, Bao!SignBegin(r) PROVE Asks(x)'
  <2>1. UNCHANGED <<live, last, token, mu>>
    BY <1>5 DEF Bao!SignBegin
  <2>2. CASE x # r
    BY <1>0, <1>5, <2>1, <2>2, AsksOthers, AsksKept DEF Tokens
  <2>3. CASE x = r
    <3>1. op'[x] = [Bao!Idle EXCEPT !.pc = "send", !.sent = token]
      BY <1>0, <1>5, <2>3 DEF Bao!SignBegin, Tokens
    <3>2. /\ op'[x].pc = "send" /\ op'[x].sent = token /\ op'[x].used = 0
          /\ DOMAIN op'[x] = {"pc", "sent", "used", "again", "by", "alive"}
      BY ONLY SMTT(30), <3>1 DEF Bao!Idle
    <3>3. mu # x
      BY <1>5, <1>i, <2>3 DEF Bao!SignBegin
    <3> QED BY SMTT(30), <1>0, <2>1, <3>2, <3>3 DEF Asks, Tokens
  <2> QED BY <2>2, <2>3
<1>6. ASSUME NEW r \in Requests, Bao!Send(r) \/ Bao!SendFails(r) \/ Bao!Return(r)
      PROVE  Asks(x)'
  <2>1. UNCHANGED <<live, last, token, mu>>
    BY <1>6 DEF Bao!Send, Bao!SendFails, Bao!Return
  <2>2. CASE x # r
    BY <1>0, <1>6, <2>1, <2>2, AsksOthers, AsksKept DEF Tokens, Bao!Request
  <2>3. CASE x = r /\ Bao!Send(r)
    <3>0. PICK a : a = (token \in live)
      OBVIOUS
    <3>1. op'[x] = [sent |-> op[x].sent, used |-> token, again |-> op[x].again,
            by |-> IF token \in live /\ granted THEN keyVersion ELSE 0, alive |-> a,
            pc |-> IF ~(token \in live /\ granted)
                   THEN IF op[x].again THEN "failed" ELSE "refused"
                   ELSE IF Bao!verifyTransitSignature(keyVersion) THEN "signed" ELSE "failed"]
      BY <1>0, <2>3, <3>0 DEF Bao!Send, Bao!Answer, Tokens
    <3>2. /\ op'[x].sent = op[x].sent /\ op'[x].used = token /\ op'[x].pc # "login"
          /\ op'[x].pc = "signed" => op'[x].by = 1
          /\ DOMAIN op'[x] = {"pc", "sent", "used", "again", "by", "alive"}
      BY ONLY SMTT(30), <3>1 DEF Bao!verifyTransitSignature
    <3>3. token \in live => op'[x].alive
      <4>1. op'[x].alive = a
        BY ONLY SMTT(30), <3>1
      <4> QED BY ONLY ZenonT(60), <4>1, <3>0
    <3>4. mu # x
      BY <1>i, <2>3 DEF Bao!Send
    <3> QED BY SMTT(30), <1>0, <2>1, <3>2, <3>3, <3>4 DEF Asks, Tokens
  <2>4. CASE x = r /\ Bao!Return(r)
    <3>1. op'[x] = Bao!Idle
      BY <1>0, <2>4 DEF Bao!Return, Tokens
    <3>3. mu # x
      BY <1>i, <2>4 DEF Bao!Return
    <3> QED BY SMTT(30), <1>0, <2>1, <3>1, <3>3 DEF Asks, Tokens, Bao!Idle
  <2>5. CASE x = r /\ Bao!SendFails(r)
    <3>0. DOMAIN op = Requests /\ DOMAIN op[x] = {"pc", "sent", "used", "again", "by", "alive"}
      BY <1>0 DEF Tokens, Asks
    <3>1. /\ op'[x].sent = op[x].sent /\ op'[x].used = op[x].used /\ op'[x].pc = "failed"
          /\ DOMAIN op'[x] = {"pc", "sent", "used", "again", "by", "alive"}
      BY <2>5, <3>0 DEF Bao!SendFails
    <3>2. mu # x
      BY <1>i, <2>5 DEF Bao!SendFails
    <3> QED BY SMTT(30), <1>0, <2>1, <3>1, <3>2 DEF Asks, Tokens
  <2> QED BY <1>6, <2>2, <2>3, <2>4, <2>5
<1>7. ASSUME NEW r \in Requests, Bao!Reauth(r) PROVE Asks(x)'
  <2>1. /\ UNCHANGED <<live, last>> /\ mu = Bao!Free /\ (mu' = mu \/ mu' = r)
        /\ OwnsToken => token' = token
    BY <1>7 DEF Bao!Reauth, Bao!LoginToken
  <2>2. CASE x # r
    BY <1>0, <1>i, <1>7, <2>1, <2>2, AsksOthers, AsksKept DEF Tokens, Bao!Request
  <2>3. CASE x = r
    <3>0. DOMAIN op = Requests /\ DOMAIN op[x] = {"pc", "sent", "used", "again", "by", "alive"}
      BY <1>0 DEF Tokens, Asks
    <3>1. /\ op'[x].sent = op[x].sent /\ op'[x].used = op[x].used
          /\ op'[x].alive = op[x].alive
          /\ DOMAIN op'[x] = {"pc", "sent", "used", "again", "by", "alive"}
          /\ \/ op'[x].pc \in {"failed", "send"} /\ mu' = mu
             \/ op'[x].pc = "login" /\ mu' = x /\ token = op[x].sent
                /\ (OwnsToken => token' = token)
      <4>1. \/ op' = [op EXCEPT ![x].pc = "failed"] /\ mu' = mu
            \/ op' = [op EXCEPT ![x].pc = "send", ![x].again = TRUE] /\ mu' = mu
            \/ /\ op' = [op EXCEPT ![x].pc = "login"] /\ mu' = x /\ token = op[x].sent
               /\ OwnsToken => token' = token
        BY <1>7, <2>3 DEF Bao!Reauth, Bao!LoginToken
      <4>2. CASE op' = [op EXCEPT ![x].pc = "failed"] /\ mu' = mu
        BY ONLY ZenonT(60), x \in Requests, <3>0, <4>2
      <4>3. CASE op' = [op EXCEPT ![x].pc = "send", ![x].again = TRUE] /\ mu' = mu
        BY ONLY ZenonT(60), x \in Requests, <3>0, <4>3
      <4>4. CASE /\ op' = [op EXCEPT ![x].pc = "login"] /\ mu' = x /\ token = op[x].sent
                 /\ OwnsToken => token' = token
        BY ONLY ZenonT(60), x \in Requests, <3>0, <4>4
      <4> QED BY <4>1, <4>2, <4>3, <4>4
    <3>2. op[x].pc = "refused"
      BY <1>7, <2>3 DEF Bao!Reauth
    <3> QED BY SMTT(30), <1>0, <1>i, <2>1, <3>1, <3>2 DEF Asks, Tokens
  <2> QED BY <2>2, <2>3
<1>8. ASSUME NEW r \in Requests, Bao!ReauthEnds(r) PROVE Asks(x)'
  <2>0. mu = r /\ mu' = Bao!Free
    BY <1>8 DEF Bao!ReauthEnds, TokenInv, Asks
  <2>1. \/ last' = last /\ live' = live
        \/ last' = last + 1 /\ live' = live \cup {last + 1}
    BY <1>8 DEF Bao!ReauthEnds, Bao!LoginSucceeds, Bao!LoginFails
  <2>t. OwnsToken => token' = token \/ token' = last + 1
    BY <1>8 DEF Bao!ReauthEnds, Bao!LoginSucceeds, Bao!LoginFails
  <2>2. CASE x # r
    BY <1>0, <1>i, <1>8, <2>0, <2>1, <2>t, <2>2, AsksOthers, AsksKept DEF Tokens, Bao!Request
  <2>3. CASE x = r
    <3>0. DOMAIN op = Requests /\ DOMAIN op[x] = {"pc", "sent", "used", "again", "by", "alive"}
      BY <1>0 DEF Tokens, Asks
    <3>1. /\ op'[x].sent = op[x].sent /\ op'[x].used = op[x].used
          /\ op'[x].alive = op[x].alive
          /\ DOMAIN op'[x] = {"pc", "sent", "used", "again", "by", "alive"}
          /\ op'[x].pc \in {"failed", "send"}
      <4>1. \/ op' = [op EXCEPT ![x].pc = "failed"]
            \/ op' = [op EXCEPT ![x].pc = "send", ![x].again = TRUE]
        BY <1>8, <2>3 DEF Bao!ReauthEnds
      <4>2. CASE op' = [op EXCEPT ![x].pc = "failed"]
        BY ONLY ZenonT(60), x \in Requests, <3>0, <4>2
      <4>3. CASE op' = [op EXCEPT ![x].pc = "send", ![x].again = TRUE]
        BY ONLY ZenonT(60), x \in Requests, <3>0, <4>3
      <4> QED BY <4>1, <4>2, <4>3
    <3> QED BY SMTT(30), <1>0, <1>i, <2>0, <2>1, <2>t, <3>1 DEF Asks, Tokens
  <2> QED BY <2>2, <2>3
<1> QED BY <1>1, <1>2, <1>3, <1>4, <1>5, <1>6, <1>7, <1>8 DEF Bao!Next, Bao!Request

\* The manager starts with one live token, watched.
LEMMA TokenInit ==
  ASSUME "loop" \notin Requests, Bao!Free \notin Requests, Bao!Init PROVE TokenInv
<1> USE DEF Bao!Init, Bao!Idle
<1>1. Tokens
  BY SMTT(30) DEF Tokens
<1>2. Owner /\ Bao!RenewsTheTokenInUse
  BY DEF Owner, Bao!RenewsTheTokenInUse, Bao!Free
<1>3. ASSUME NEW r \in Requests PROVE Asks(r)
  BY SMTT(30), <1>3 DEF Asks, Bao!Free
<1> QED BY <1>1, <1>2, <1>3 DEF TokenInv

\* The invariant holds in every reachable state.
LEMMA TokenReached ==
  ASSUME "loop" \notin Requests, Bao!Free \notin Requests
  PROVE  Bao!Spec => []TokenInv
<1>1. TokenInv /\ UNCHANGED Bao!vars => TokenInv'
  <2> SUFFICES ASSUME TokenInv, UNCHANGED Bao!vars PROVE TokenInv'
    OBVIOUS
  <2>1. Tokens'
    BY DEF TokenInv, Tokens, Bao!vars
  <2>2. Owner' /\ Bao!RenewsTheTokenInUse'
    BY DEF TokenInv, Owner, Bao!RenewsTheTokenInUse, Bao!vars
  <2>3. ASSUME NEW r \in Requests PROVE Asks(r)'
    BY <2>3, AsksKept DEF TokenInv, Bao!vars
  <2> QED BY <2>1, <2>2, <2>3 DEF TokenInv
<1>2. TokenInv /\ Bao!Next => TokenInv'
  BY TokensStep, OwnerStep, AsksStep DEF TokenInv
<1> QED BY <1>1, <1>2, TokenInit, PTL DEF Bao!Spec

\* The loop watches the token in use (TokenManager.run), a closed manager has no login under
\* way and the token it held is revoked unless that failed (TokenManager.Close), and what a
\* request returns was signed by the pinned key (Signer.sign), for any number of requests,
\* tokens that die, changes of the policy and rotations of the Transit key.
THEOREM TokenIsLookedAfter ==
  ASSUME "loop" \notin Requests, Bao!Free \notin Requests
  PROVE  Bao!Spec => [](/\ Bao!RenewsTheTokenInUse /\ Bao!ClosedForGood
                        /\ Bao!SignedByThePinnedKey)
<1>1. TokenInv => /\ Bao!RenewsTheTokenInUse /\ Bao!ClosedForGood
                  /\ Bao!SignedByThePinnedKey
  BY DEF TokenInv, Owner, Asks, Bao!ClosedForGood, Bao!SignedByThePinnedKey
<1> QED BY <1>1, TokenReached, PTL

\* A request logs in anew only over the token that it was refused with, and that is dead
\* unless the policy refused it (TokenManager.Reauth), and a shutdown revokes nothing that an operator supplied
\* (TokenManager.Close).
THEOREM TokenKeptWhileItWorks ==
  ASSUME "loop" \notin Requests, Bao!Free \notin Requests
  PROVE  Bao!Spec => [][Bao!WorkingTokenKept /\ Bao!OperatorsTokenSpared]_(Bao!vars)
<1>1. TokenInv /\ Bao!Next => Bao!WorkingTokenKept
  BY DEF TokenInv, Asks, Bao!WorkingTokenKept
<1>2. Bao!Next => Bao!OperatorsTokenSpared
  <2>1. Bao!Close => Bao!OperatorsTokenSpared
    BY DEF Bao!Close, Bao!OperatorsTokenSpared
  <2>2. Bao!Loop => closed' = closed
    BY DEF Bao!Loop, Bao!Watch, Bao!WatchEnds, Bao!LoopLogin, Bao!LoopLoginEnds,
       Bao!LoopRetries, Bao!LoopStops
  <2>3. ASSUME NEW r \in Requests, Bao!SignBegin(r) \/ Bao!Request(r) PROVE closed' = closed
    BY <2>3 DEF Bao!SignBegin, Bao!Request, Bao!Send, Bao!SendFails, Bao!Reauth,
       Bao!ReauthEnds, Bao!Return
  <2>4. Bao!Cancel \/ Bao!TokenDies \/ Bao!WatcherGivesUp \/ Bao!NewTokenFile
        \/ Bao!RotateKey \/ Bao!PolicyChanges \/ Bao!Tick => closed' = closed
    BY DEF Bao!Cancel, Bao!TokenDies, Bao!WatcherGivesUp, Bao!NewTokenFile, Bao!RotateKey,
       Bao!PolicyChanges, Bao!Tick
  <2> QED BY <2>1, <2>2, <2>3, <2>4 DEF Bao!Next, Bao!OperatorsTokenSpared
<1> QED BY <1>1, <1>2, TokenReached, PTL DEF Bao!Spec
=============================================================================
