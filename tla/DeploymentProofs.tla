----------------------------- MODULE DeploymentProofs -------------------------
(* The deployment for any targets: the invariant says for every place of a     *)
(* migration, numbered task by task, what is then in the address book, set in  *)
(* the provider, in the rate oracle, listed and configured.  A step leads to   *)
(* the next place, a failure back to the first one of its task, and what holds *)
(* at a place is never needed from a later one.  A finished market is the      *)
(* invariant at the last place; MarketListing's steps are read off it too.     *)
(* A second invariant, of what a migration itself has made, shows that nothing *)
(* throws in one that met no failing call.                                     *)
EXTENDS Deployment, SequenceTheorems, WellFoundedInduction, TLAPS

-----------------------------------------------------------------------------
(* Arrays.                                                                   *)

\* A set of naturals that is not empty has a least member.
LEMMA LeastOf ==
    ASSUME NEW S \in SUBSET Nat, S # {}
    PROVE  \E x \in S : \A y \in S : x <= y
<1> DEFINE less == OpToRel(<, Nat)
<1>1. IsWellFoundedOn(less, Nat) BY NatLessThanWellFounded
<1>2. \A x, y \in Nat : y < x => <<y, x>> \in less BY DEF OpToRel
<1> HIDE DEF less
<1>3. PICK x \in S : \A y \in S : <<y, x>> \notin less
  BY <1>1, WFMin, Zenon
<1>4. \A y \in S : ~ (y < x) BY <1>2, <1>3
<1> QED BY <1>3, <1>4

\* A set of naturals that holds 0 and every successor holds them all.
LEMMA EveryNat ==
    ASSUME NEW G \in SUBSET Nat, 0 \in G, \A n \in G : n + 1 \in G
    PROVE  G = Nat
<1>1. ASSUME Nat \ G # {} PROVE FALSE
  <2>1. PICK x \in Nat \ G : \A y \in Nat \ G : x <= y BY <1>1, LeastOf
  <2>2. x - 1 \in Nat /\ x - 1 + 1 = x /\ ~ (x <= x - 1) BY <2>1
  <2> QED BY <2>1, <2>2
<1> QED BY <1>1

\* f is the function keep defines: what the first i elements leave.
Keeps(f, array, S, n) ==
    f = [i \in 0 .. n |->
            IF i = 0 THEN <<>>
            ELSE IF array[i] \in S THEN Append(f[i - 1], array[i]) ELSE f[i - 1]]

\* keep's recursive function exists.
LEMMA KeepsExists ==
    ASSUME NEW T, NEW array \in Seq(T), NEW S
    PROVE  \E f : Keeps(f, array, S, Len(array))
<1> DEFINE G == {n \in Nat : \E f : Keeps(f, array, S, n)}
<1>1. 0 \in G
  <2>1. Keeps([i \in 0 .. 0 |-> <<>>], array, S, 0) BY DEF Keeps
  <2> QED BY <2>1
<1>2. ASSUME NEW n \in G PROVE n + 1 \in G
  <2>1. PICK f : Keeps(f, array, S, n) BY <1>2
  <2> DEFINE g == [i \in 0 .. n + 1 |->
                      IF i <= n THEN f[i]
                      ELSE IF array[i] \in S THEN Append(f[i - 1], array[i]) ELSE f[i - 1]]
  <2>2. n \in Nat BY <1>2
  <2>3. ASSUME NEW i \in 0 .. n + 1
        PROVE  g[i] = IF i = 0 THEN <<>>
                      ELSE IF array[i] \in S THEN Append(g[i - 1], array[i]) ELSE g[i - 1]
    <3>1. CASE i <= n
      <4>1. i \in 0 .. n /\ (i # 0 => i - 1 \in 0 .. n + 1 /\ i - 1 <= n) BY <2>2, <3>1
      <4>2. f[i] = IF i = 0 THEN <<>>
                   ELSE IF array[i] \in S THEN Append(f[i - 1], array[i]) ELSE f[i - 1]
        BY <2>1, <4>1, Zenon DEF Keeps
      <4>3. g[i] = f[i] /\ (i # 0 => g[i - 1] = f[i - 1]) BY <3>1, <4>1
      <4> HIDE DEF g
      <4> QED BY <4>2, <4>3
    <3>2. CASE i = n + 1
      <4>1. g[i - 1] = f[i - 1] BY <2>2, <3>2
      <4> QED BY <2>2, <3>2, <4>1
    <3> QED BY <2>2, <3>1, <3>2
  <2>4. g = [i \in 0 .. n + 1 |->
                IF i = 0 THEN <<>>
                ELSE IF array[i] \in S THEN Append(g[i - 1], array[i]) ELSE g[i - 1]]
    <3>1. g = [i \in 0 .. n + 1 |-> g[i]] OBVIOUS
    <3> HIDE DEF g
    <3> QED BY <2>3, <3>1
  <2> HIDE DEF g
  <2>5. Keeps(g, array, S, n + 1) BY <2>4 DEF Keeps
  <2> QED BY <2>2, <2>5
<1>3. G = Nat
  <2>1. G \in SUBSET Nat OBVIOUS
  <2> HIDE DEF G
  <2> QED BY <1>1, <1>2, <2>1, EveryNat
<1>4. Len(array) \in G
  <2> HIDE DEF G
  <2> QED BY <1>3
<1> QED BY <1>4

\* keep has the elements of the array that are in the set, and no others.
LEMMA KeepIs ==
    ASSUME NEW T, NEW array \in Seq(T), NEW S
    PROVE  /\ keep(array, S) \in Seq(T \intersect S)
           /\ \A i \in 1 .. Len(array) : array[i] \in S =>
                 \E j \in DOMAIN keep(array, S) : keep(array, S)[j] = array[i]
<1> DEFINE f == CHOOSE g : Keeps(g, array, S, Len(array))
<1>1. Keeps(f, array, S, Len(array)) BY KeepsExists
<1>2. keep(array, S) = f[Len(array)] BY DEF keep, Keeps
<1> HIDE DEF f
<1>3. f[0] = <<>> BY <1>1 DEF Keeps
<1>4. ASSUME NEW n \in 1 .. Len(array)
      PROVE  f[n] = IF array[n] \in S THEN Append(f[n - 1], array[n]) ELSE f[n - 1]
  <2>1. n \in 0 .. Len(array) /\ n # 0 OBVIOUS
  <2> QED BY <1>1, <2>1, Zenon DEF Keeps
<1> DEFINE good(n) == /\ f[n] \in Seq(T \intersect S)
                      /\ \A i \in 1 .. n : array[i] \in S =>
                            \E j \in DOMAIN f[n] : f[n][j] = array[i]
           G == {n \in Nat : n <= Len(array) => good(n)}
<1>5. 0 \in G
  <2>1. f[0] \in Seq(T \intersect S) /\ 1 .. 0 = {} BY <1>3
  <2> QED BY <2>1
<1>6. ASSUME NEW n \in G PROVE n + 1 \in G
  <2> SUFFICES ASSUME n + 1 <= Len(array) PROVE good(n + 1)
    OBVIOUS
  <2>1. good(n) /\ n \in Nat /\ n + 1 \in 1 .. Len(array) BY <1>6
  <2>2. CASE array[n + 1] \in S
    <3>1. f[n + 1] = Append(f[n], array[n + 1])
      <4>1. n + 1 - 1 = n BY <2>1
      <4>2. f[n + 1] = IF array[n + 1] \in S THEN Append(f[n + 1 - 1], array[n + 1])
                       ELSE f[n + 1 - 1]
        <5>1. n + 1 \in 1 .. Len(array) BY <2>1
        <5> QED BY <1>4, <5>1
      <4> QED BY <2>2, <4>1, <4>2, Zenon
    <3>2. array[n + 1] \in T \intersect S BY <2>1, <2>2
    <3>3. f[n + 1] \in Seq(T \intersect S) BY <2>1, <3>1, <3>2
    <3>4. /\ DOMAIN f[n + 1] = 1 .. Len(f[n]) + 1
          /\ \A j \in 1 .. Len(f[n]) : f[n + 1][j] = f[n][j]
          /\ f[n + 1][Len(f[n]) + 1] = array[n + 1]
          /\ Len(f[n]) \in Nat /\ DOMAIN f[n] = 1 .. Len(f[n])
      BY <2>1, <3>1, <3>2
    <3>5. ASSUME NEW i \in 1 .. n + 1, array[i] \in S
          PROVE  \E j \in DOMAIN f[n + 1] : f[n + 1][j] = array[i]
      <4>1. CASE i = n + 1 BY <3>4, <4>1
      <4>2. CASE i \in 1 .. n
        <5>1. PICK j \in DOMAIN f[n] : f[n][j] = array[i] BY <2>1, <3>5, <4>2
        <5> QED BY <3>4, <5>1
      <4> QED BY <2>1, <4>1, <4>2
    <3> QED BY <3>3, <3>5
  <2>3. CASE array[n + 1] \notin S
    <3>1. f[n + 1] = f[n]
      <4>1. n + 1 - 1 = n BY <2>1
      <4> QED BY <1>4, <2>1, <2>3, <4>1
    <3> QED BY <2>1, <2>3, <3>1
  <2> QED BY <2>2, <2>3
<1>7. G = Nat
  <2>1. G \in SUBSET Nat OBVIOUS
  <2> HIDE DEF G
  <2> QED BY <1>5, <1>6, <2>1, EveryNat
<1>8. good(Len(array)) BY <1>7
<1> QED BY <1>2, <1>8

\* The elements of one chunk.
LEMMA SymbolsAre ==
    ASSUME NEW T, NEW array \in Seq(T), NEW size \in Nat \ {0}, run.chunk \in Nat
    PROVE  symbols(array, size) =
             {array[i] : i \in {j \in 1 .. Len(array) :
                                   run.chunk * size < j /\ j <= (run.chunk + 1) * size}}
<1> DEFINE a == run.chunk * size
           last == IF a + size < Len(array) THEN a + size ELSE Len(array)
           part == SubSeq(array, a + 1, last)
<1>1. a \in Nat /\ (run.chunk + 1) * size = a + size
  <2>1. ASSUME NEW k \in Nat PROVE k * size \in Nat /\ (k + 1) * size = k * size + size
    OBVIOUS
  <2> QED BY <2>1
<1>2. symbols(array, size) = {part[i] : i \in DOMAIN part} BY <1>1 DEF symbols, chunk
<1> HIDE DEF a
<1>3. /\ DOMAIN part = 1 .. (IF a + 1 <= last THEN last - a ELSE 0)
      /\ \A i \in DOMAIN part : part[i] = array[a + i]
  BY <1>1
<1>4. last \in Nat /\ last <= Len(array) /\ last <= a + size BY <1>1
<1> HIDE DEF part
<1>5. ASSUME NEW i \in DOMAIN part
      PROVE  a + i \in 1 .. Len(array) /\ a < a + i /\ a + i <= a + size
  BY <1>1, <1>3, <1>4
<1>6. ASSUME NEW j \in 1 .. Len(array), a < j, j <= a + size
      PROVE  j - a \in DOMAIN part /\ part[j - a] = array[j]
  <2>1. j <= last /\ a + 1 <= last BY <1>1, <1>6 DEF last
  <2>2. j - a \in 1 .. (last - a) /\ a + (j - a) = j BY <1>1, <1>4, <1>6, <2>1
  <2> QED BY <1>3, <2>1, <2>2
<1>7. ASSUME NEW i \in DOMAIN part
      PROVE  \E j \in 1 .. Len(array) : a < j /\ j <= a + size /\ part[i] = array[j]
  BY <1>3, <1>5
<1> DEFINE R == {array[i] : i \in {j \in 1 .. Len(array) : a < j /\ j <= a + size}}
<1>8. \A x : x \in symbols(array, size) <=> \E i \in DOMAIN part : x = part[i] BY <1>2
<1>9. \A x : x \in R <=> \E j \in 1 .. Len(array) : a < j /\ j <= a + size /\ x = array[j]
  OBVIOUS
<1> HIDE DEF R
<1>10. \A x : x \in symbols(array, size) <=> x \in R BY <1>6, <1>7, <1>8, <1>9
<1>11. symbols(array, size) = R BY <1>10
<1> QED BY <1>1, <1>11 DEF a, R

-----------------------------------------------------------------------------
(* The programs, step by step.                                               *)

\* full:deploy-address-provider, step by step.
LEMMA AddressProviderIs ==
    Task("address-provider") =
        <<Check("ProviderRegistryOwner"), Find(Registry), Deploy(Provider),
          Tx("registerAddressesProvider"), Tx("setGenesisAdmin"), Tx("setEmergencyAdmin")>>
BY DEF Task, deployAddressProvider

\* full:deploy-oracles, with the rates set by the helper.
LEMMA OraclesAre ==
    Task("oracles") =
        <<Find(Provider), Reuse("AaveOracle"), Reuse("LendingRateOracle"),
          Find("StableAndVariableTokensHelper"), Tx("transferOwnership"),
          Tx("setOracleBorrowRates"), Tx("setOracleOwnership"),
          Tx("setPriceOracle"), Tx("setLendingRateOracle")>>
<1> DEFINE a == <<Find(Provider), Reuse("AaveOracle"), Reuse("LendingRateOracle")>>
           b == <<Find("StableAndVariableTokensHelper"), Tx("transferOwnership"),
                  Tx("setOracleBorrowRates"), Tx("setOracleOwnership")>>
           c == <<Tx("setPriceOracle"), Tx("setLendingRateOracle")>>
           p == (a \o b) \o c
<1>1. Task("oracles") = p BY DEF Task, deployOracles, setInitialMarketRatesInRatesOracleByHelper
<1>2. /\ Len(p) = 9 /\ p[1] = Find(Provider) /\ p[2] = Reuse("AaveOracle")
      /\ p[3] = Reuse("LendingRateOracle") /\ p[4] = Find("StableAndVariableTokensHelper")
      /\ p[5] = Tx("transferOwnership") /\ p[6] = Tx("setOracleBorrowRates")
      /\ p[7] = Tx("setOracleOwnership") /\ p[8] = Tx("setPriceOracle")
      /\ p[9] = Tx("setLendingRateOracle")
  OBVIOUS
<1> QED BY <1>1, <1>2

\* What the initialisation does on every network; outside the Celo networks the
\* gateway is authorised at the end.
Initializes(p) ==
    /\ p[1] = Find(Provider)
    /\ p[2] = Find("AaveProtocolDataProvider")
    /\ p[3] = Read("poolAdmin")
    /\ p[4] = Find("StableAndVariableTokensHelper")
    /\ p[5] = Find(Provider)
    /\ p[6] = Deploy("TokenImplementations")
    /\ p[7] = Deploy("Strategies")
    /\ p[8] = Read("reserves")
    /\ p[9] = Find("LendingPoolConfigurator")
    /\ p[10] = Tx("batchInitReserve")
    /\ p[11] = Find(Provider)
    /\ p[12] = Find("ATokensAndRatesHelper")
    /\ p[13] = Read("unconfigured")
    /\ p[14] = Tx("setTemporalAdmin")
    /\ p[15] = Tx("configureReserves")
    /\ p[16] = Tx("setAdminBack")
    /\ p[17] = Reuse("LendingPoolCollateralManager")
    /\ p[18] = Tx("setLendingPoolCollateralManager")
    /\ p[19] = Deploy("WalletBalanceProvider")

\* full:initialize-lending-pool, and how much longer it is where a gateway is authorised.
LEMMA InitializeIs ==
    /\ Initializes(Task("initialize-lending-pool"))
    /\ target.pool = "Moola" => Len(Task("initialize-lending-pool")) = 19
    /\ target.pool # "Moola" =>
         /\ Len(Task("initialize-lending-pool")) = 21
         /\ Task("initialize-lending-pool")[20] = Find("WethGateway")
         /\ Task("initialize-lending-pool")[21] = Tx("authorizeLendingPool")
<1> DEFINE q == <<Find(Provider), Find("AaveProtocolDataProvider"), Read("poolAdmin")>>
                  \o initReservesByHelper \o configureReservesByHelper
                  \o <<Reuse("LendingPoolCollateralManager"), Tx("setLendingPoolCollateralManager"),
                       Deploy("WalletBalanceProvider")>>
           z == <<Find("WethGateway"), Tx("authorizeLendingPool")>>
<1>1. Task("initialize-lending-pool") = q \o IF target.pool = "Moola" THEN <<>> ELSE z
  BY DEF Task, initializeLendingPool
<1>2. CASE target.pool = "Moola"
  <2>1. Task("initialize-lending-pool") = q \o <<>> BY <1>1, <1>2
  <2>2. Len(q \o <<>>) = 19 /\ Initializes(q \o <<>>)
    BY DEF Initializes, initReservesByHelper, configureReservesByHelper
  <2> HIDE DEF q, z
  <2> QED BY <1>2, <2>1, <2>2
<1>3. CASE target.pool # "Moola"
  <2>1. Task("initialize-lending-pool") = q \o z BY <1>1, <1>3
  <2>2. /\ Len(q \o z) = 21
        /\ Initializes(q \o z)
        /\ (q \o z)[20] = Find("WethGateway")
        /\ (q \o z)[21] = Tx("authorizeLendingPool")
    BY DEF Initializes, initReservesByHelper, configureReservesByHelper
  <2> HIDE DEF q, z
  <2> QED BY <1>3, <2>1, <2>2
<1> QED BY <1>2, <1>3

\* full:deploy-lending-pool, step by step.
LEMMA LendingPoolIs ==
    Task("lending-pool") =
        <<Find(Provider), Reuse("LendingPool"), Tx("setLendingPoolImpl"), Insert("LendingPool"),
          Reuse("LendingPoolConfigurator"), Tx("setLendingPoolConfiguratorImpl"),
          Insert("LendingPoolConfigurator"),
          Deploy("StableAndVariableTokensHelper"), Deploy("ATokensAndRatesHelper")>>
BY DEF Task, deployLendingPool

\* The other tasks, step by step.
LEMMA ShortTasksAre ==
    /\ Task("address-provider-registry") = <<Deploy(Registry)>>
    /\ Task("data-provider") = <<Find(Provider), Deploy("AaveProtocolDataProvider")>>
    /\ Task("weth-gateway") = <<Reuse("WethGateway")>>
    /\ Task("initialize-tokens") =
         <<Find(Registry), Find("AaveProtocolDataProvider"), Read("uninitialised"),
           Deploy("DefaultReserveInterestRateStrategy"), Find("LendingPoolConfigurator"),
           Tx("batchInitReserve")>>
BY DEF Task, deployAddressProviderRegistry, dataProvider, deployWethGateway, initializeTokens

-----------------------------------------------------------------------------
(* The process.  A place is a step of the migrations, numbered in the order in  *)
(* which they take them; a failed task is at its first step.                   *)

Rank(t) ==
    CASE t = "address-provider-registry" -> 100
      [] t = "address-provider" -> 200
      [] t = "lending-pool" -> 300
      [] t = "oracles" -> 400
      [] t = "data-provider" -> 500
      [] t = "weth-gateway" -> 600
      [] t = "initialize-lending-pool" -> 700

MigrationTasks ==
    {"address-provider-registry", "address-provider", "lending-pool", "oracles",
     "data-provider", "weth-gateway", "initialize-lending-pool"}

\* The end of a migration is beyond all steps; the process is nowhere before the
\* first migration and when it fills in reserves.
Finished == 1000
placeOf(r) ==
    IF r.status = "idle" \/ r.kind = "tokens" THEN 0
    ELSE IF r.status = "done" THEN Finished
    ELSE Rank(Head(r.tasks)) + (IF r.status = "running" THEN r.pc ELSE 1)
place == placeOf(run)

\* The task a migration goes on with.
Follows(t, next, pool) ==
    \/ t = "address-provider-registry" /\ next = "address-provider"
    \/ t = "address-provider" /\ next = "lending-pool"
    \/ t = "lending-pool" /\ next = "oracles"
    \/ t = "oracles" /\ next = "data-provider"
    \/ t = "data-provider" /\ next = "initialize-lending-pool" /\ pool \in {"Moola", "Matic"}
    \/ t = "data-provider" /\ next = "weth-gateway" /\ pool \notin {"Moola", "Matic"}
    \/ t = "weth-gateway" /\ next = "initialize-lending-pool"

\* The rest of a migration.
InOrder(tasks, pool) ==
    /\ tasks \in Seq(MigrationTasks)
    /\ tasks # <<>>
    /\ \A i \in 1 .. Len(tasks) - 1 : Follows(tasks[i], tasks[i + 1], pool)
    /\ tasks[Len(tasks)] = "initialize-lending-pool"
    /\ Head(tasks) = "address-provider-registry" => pool = "Moola"

IsRun(r) ==
    /\ r = [status |-> r.status, kind |-> r.kind, tasks |-> r.tasks, pc |-> r.pc,
            chunk |-> r.chunk, oracle |-> r.oracle, admin |-> r.admin, inputs |-> r.inputs,
            clean |-> r.clean, target |-> r.target]
    /\ r.status \in {"idle", "running", "failed", "done"}
    /\ r.kind \in {"", "migration", "repeat", "tokens"}
    /\ r.chunk \in Nat /\ r.oracle \in Nat /\ r.clean \in BOOLEAN
    /\ r.target \in Targets

RunOK ==
    /\ IsRun(run)
    /\ run.inputs \in Seq(Reserves)
    /\ run.status = "idle" \/ run.kind # ""
    /\ run.kind = "tokens" => run.tasks = <<"initialize-tokens">>
    /\ run.kind \in {"migration", "repeat"} => InOrder(run.tasks, target.pool)
    /\ Running => run.pc \in 1 .. Len(program)

\* What RunOK says of the fields of the process.
LEMMA RunIs ==
    ASSUME RunOK
    PROVE  /\ run.target \in Targets /\ run.chunk \in Nat /\ run.oracle \in Nat
           /\ run.inputs \in Seq(Reserves)
           /\ run.status \in {"idle", "running", "failed", "done"}
           /\ run.kind \in {"", "migration", "repeat", "tokens"}
<1>1. IsRun(run) /\ run.inputs \in Seq(Reserves) BY Zenon DEF RunOK
<1>2. /\ run.status \in {"idle", "running", "failed", "done"}
      /\ run.kind \in {"", "migration", "repeat", "tokens"}
      /\ run.chunk \in Nat /\ run.oracle \in Nat /\ run.target \in Targets
  BY <1>1, Zenon DEF IsRun
<1> QED BY <1>1, <1>2

\* In a migration.
Migrating == Running /\ run.kind # "tokens"

\* The configuration in use is well formed and the bounds of the target are naturals.
LEMMA ConfigOK ==
    ASSUME run.target \in Targets
    PROVE  /\ config = loadPoolConfig(target.pool, target.network)
           /\ WellFormed(config)
           /\ target.migrations \in Nat /\ target.faults \in Nat
BY TargetsAssumption DEF config, target, ConfigOf

\* The task of a migration and the place in it.
LEMMA PlaceInTask ==
    ASSUME RunOK, Migrating
    PROVE  /\ Head(run.tasks) \in MigrationTasks
           /\ place = Rank(Head(run.tasks)) + run.pc
           /\ run.pc \in 1 .. Len(Task(Head(run.tasks)))
           /\ step = Task(Head(run.tasks))[run.pc]
<1>1. run.kind \in {"migration", "repeat"} BY DEF RunOK, IsRun, Migrating, Running
<1>2. run.tasks \in Seq(MigrationTasks) /\ run.tasks # <<>> BY <1>1 DEF RunOK, InOrder
<1>3. Head(run.tasks) \in MigrationTasks BY <1>2, HeadTailProperties
<1>4. place = Rank(Head(run.tasks)) + run.pc BY <1>1 DEF Migrating, Running, place, placeOf
<1> QED BY <1>3, <1>4 DEF RunOK, Migrating, Running, program, step

\* The steps of a migration by their places.
LEMMA RegistrySteps ==
    ASSUME RunOK, Migrating, Head(run.tasks) = "address-provider-registry"
    PROVE  /\ place \in {101}
           /\ place = 101 => step = Deploy(Registry)
<1>1. place = 100 + run.pc /\ run.pc \in 1 .. 1 BY PlaceInTask, ShortTasksAre DEF Rank
<1>2. step = Task("address-provider-registry")[run.pc] BY PlaceInTask
<1> QED BY <1>1, <1>2, ShortTasksAre

\* Places 201 to 206.
LEMMA AddressProviderSteps ==
    ASSUME RunOK, Migrating, Head(run.tasks) = "address-provider"
    PROVE  /\ place \in 201 .. 206
           /\ place = 201 => step = Check("ProviderRegistryOwner")
           /\ place = 202 => step = Find(Registry)
           /\ place = 203 => step = Deploy(Provider)
           /\ place = 204 => step = Tx("registerAddressesProvider")
           /\ place = 205 => step = Tx("setGenesisAdmin")
           /\ place = 206 => step = Tx("setEmergencyAdmin")
<1>1. place = 200 + run.pc /\ run.pc \in 1 .. 6 BY PlaceInTask, AddressProviderIs DEF Rank
<1>2. step = Task("address-provider")[run.pc] BY PlaceInTask
<1> QED BY <1>1, <1>2, AddressProviderIs

\* Places 301 to 309.
LEMMA LendingPoolSteps ==
    ASSUME RunOK, Migrating, Head(run.tasks) = "lending-pool"
    PROVE  /\ place \in 301 .. 309
           /\ place = 301 => step = Find(Provider)
           /\ place = 302 => step = Reuse("LendingPool")
           /\ place = 303 => step = Tx("setLendingPoolImpl")
           /\ place = 304 => step = Insert("LendingPool")
           /\ place = 305 => step = Reuse("LendingPoolConfigurator")
           /\ place = 306 => step = Tx("setLendingPoolConfiguratorImpl")
           /\ place = 307 => step = Insert("LendingPoolConfigurator")
           /\ place = 308 => step = Deploy("StableAndVariableTokensHelper")
           /\ place = 309 => step = Deploy("ATokensAndRatesHelper")
<1>1. place = 300 + run.pc /\ run.pc \in 1 .. 9 BY PlaceInTask, LendingPoolIs DEF Rank
<1>2. step = Task("lending-pool")[run.pc] BY PlaceInTask
<1> QED BY <1>1, <1>2, LendingPoolIs

\* Places 401 to 409.
LEMMA OracleSteps ==
    ASSUME RunOK, Migrating, Head(run.tasks) = "oracles"
    PROVE  /\ place \in 401 .. 409
           /\ place = 401 => step = Find(Provider)
           /\ place = 402 => step = Reuse("AaveOracle")
           /\ place = 403 => step = Reuse("LendingRateOracle")
           /\ place = 404 => step = Find("StableAndVariableTokensHelper")
           /\ place = 405 => step = Tx("transferOwnership")
           /\ place = 406 => step = Tx("setOracleBorrowRates")
           /\ place = 407 => step = Tx("setOracleOwnership")
           /\ place = 408 => step = Tx("setPriceOracle")
           /\ place = 409 => step = Tx("setLendingRateOracle")
<1>1. place = 400 + run.pc /\ run.pc \in 1 .. 9 BY PlaceInTask, OraclesAre DEF Rank
<1>2. step = Task("oracles")[run.pc] BY PlaceInTask
<1> QED BY <1>1, <1>2, OraclesAre

\* Places 501 and 502.
LEMMA DataProviderSteps ==
    ASSUME RunOK, Migrating, Head(run.tasks) = "data-provider"
    PROVE  /\ place \in 501 .. 502
           /\ place = 501 => step = Find(Provider)
           /\ place = 502 => step = Deploy("AaveProtocolDataProvider")
<1>1. place = 500 + run.pc /\ run.pc \in 1 .. 2 BY PlaceInTask, ShortTasksAre DEF Rank
<1>2. step = Task("data-provider")[run.pc] BY PlaceInTask
<1> QED BY <1>1, <1>2, ShortTasksAre

\* Place 601.
LEMMA WethGatewaySteps ==
    ASSUME RunOK, Migrating, Head(run.tasks) = "weth-gateway"
    PROVE  /\ place \in {601}
           /\ place = 601 => step = Reuse("WethGateway")
<1>1. place = 600 + run.pc /\ run.pc \in 1 .. 1 BY PlaceInTask, ShortTasksAre DEF Rank
<1>2. step = Task("weth-gateway")[run.pc] BY PlaceInTask
<1> QED BY <1>1, <1>2, ShortTasksAre

\* Places 701 to 721, the last two only outside the Celo networks.
LEMMA InitializeSteps ==
    ASSUME RunOK, Migrating, Head(run.tasks) = "initialize-lending-pool"
    PROVE  /\ place \in 701 .. 721
           /\ place = 701 => step = Find(Provider)
           /\ place = 702 => step = Find("AaveProtocolDataProvider")
           /\ place = 703 => step = Read("poolAdmin")
           /\ place = 704 => step = Find("StableAndVariableTokensHelper")
           /\ place = 705 => step = Find(Provider)
           /\ place = 706 => step = Deploy("TokenImplementations")
           /\ place = 707 => step = Deploy("Strategies")
           /\ place = 708 => step = Read("reserves")
           /\ place = 709 => step = Find("LendingPoolConfigurator")
           /\ place = 710 => step = Tx("batchInitReserve")
           /\ place = 711 => step = Find(Provider)
           /\ place = 712 => step = Find("ATokensAndRatesHelper")
           /\ place = 713 => step = Read("unconfigured")
           /\ place = 714 => step = Tx("setTemporalAdmin")
           /\ place = 715 => step = Tx("configureReserves")
           /\ place = 716 => step = Tx("setAdminBack")
           /\ place = 717 => step = Reuse("LendingPoolCollateralManager")
           /\ place = 718 => step = Tx("setLendingPoolCollateralManager")
           /\ place = 719 => step = Deploy("WalletBalanceProvider")
           /\ place = 720 => step = Find("WethGateway")
           /\ place = 721 => step = Tx("authorizeLendingPool")
           /\ place > 719 => target.pool # "Moola"
<1> DEFINE p == Task("initialize-lending-pool")
<1>1. step = p[run.pc] /\ run.pc \in 1 .. Len(p) BY PlaceInTask
<1>2. place = 700 + run.pc BY PlaceInTask DEF Rank
<1>3. Len(p) \in {19, 21} /\ (Len(p) = 21 => target.pool # "Moola") BY InitializeIs
<1>4. Initializes(p) BY InitializeIs
<1>5. target.pool # "Moola" => p[20] = Find("WethGateway") /\ p[21] = Tx("authorizeLendingPool")
  BY InitializeIs
<1> HIDE DEF p
<1>6. run.pc \in 1 .. 21 /\ (run.pc > 19 => target.pool # "Moola")
  <2>1. CASE Len(p) = 19 BY <1>1, <2>1
  <2>2. CASE Len(p) = 21 BY <1>1, <1>3, <2>2
  <2> QED BY <1>3, <2>1, <2>2
<1>7. \A i \in 1 .. 21 : place = 700 + i => step = p[i] BY <1>1, <1>2, <1>6
<1>8. place \in 701 .. 721 BY <1>2, <1>6
<1>9. place > 719 => target.pool # "Moola"
  <2>1. place > 719 => run.pc > 19 BY <1>2, <1>6
  <2> QED BY <1>6, <2>1
<1> QED BY <1>4, <1>5, <1>7, <1>8, <1>9 DEF Initializes

\* The steps of full:initialize-tokens, which has no place in a migration.
LEMMA StepsOfTokens ==
    ASSUME RunOK, Running, run.kind = "tokens"
    PROVE  /\ run.pc \in 1 .. 6 /\ place = 0
           /\ run.pc = 1 => step = Find(Registry)
           /\ run.pc = 2 => step = Find("AaveProtocolDataProvider")
           /\ run.pc = 3 => step = Read("uninitialised")
           /\ run.pc = 4 => step = Deploy("DefaultReserveInterestRateStrategy")
           /\ run.pc = 5 => step = Find("LendingPoolConfigurator")
           /\ run.pc = 6 => step = Tx("batchInitReserve")
<1>1. Head(run.tasks) = "initialize-tokens" BY DEF RunOK
<1>2. run.pc \in 1 .. 6 /\ step = Task("initialize-tokens")[run.pc]
  BY <1>1, ShortTasksAre DEF RunOK, Running, program, step
<1>3. place = 0 BY DEF place, placeOf
<1> QED BY <1>2, <1>3, ShortTasksAre

\* A step of a migration is only found at its own places.
LEMMA PlacesOfSteps ==
    ASSUME RunOK, Migrating
    PROVE  /\ step.do = "registerAddressesProvider" => place = 204
           /\ step.do = "setGenesisAdmin" => place = 205
           /\ step.do = "setEmergencyAdmin" => place = 206
           /\ step.do = "setLendingPoolImpl" => place = 303
           /\ step.do = "setLendingPoolConfiguratorImpl" => place = 306
           /\ step.do = "transferOwnership" => place = 405
           /\ step.do = "setOracleBorrowRates" => place = 406
           /\ step.do = "setOracleOwnership" => place = 407
           /\ step.do = "setPriceOracle" => place = 408
           /\ step.do = "setLendingRateOracle" => place = 409
           /\ step.do = "batchInitReserve" => place = 710
           /\ step.do = "setTemporalAdmin" => place = 714
           /\ step.do = "configureReserves" => place = 715
           /\ step.do = "setAdminBack" => place = 716
           /\ step.do = "setLendingPoolCollateralManager" => place = 718
           /\ step.do = "authorizeLendingPool" => place = 721
           /\ step.do = "check" => place = 201
           /\ step.do = "find" =>
                place \in {202, 301, 401, 404, 501, 701, 702, 704, 705, 709, 711, 712, 720}
           /\ step.do = "read" => place \in {703, 708, 713}
           /\ step.do = "insert" => place \in {304, 307}
           /\ step.do = "reuse" => place \in {302, 305, 402, 403, 601, 717}
           /\ step.do = "deploy" => place \in {101, 203, 308, 309, 502, 706, 707, 719}
<1>1. /\ \A c : Find(c).do = "find" /\ Check(c).do = "check" /\ Read(c).do = "read"
      /\ \A c : Deploy(c).do = "deploy" /\ Reuse(c).do = "reuse" /\ Insert(c).do = "insert"
      /\ \A f : Tx(f).do = f
  BY DEF Find, Check, Read, Deploy, Reuse, Insert, Tx, Step
<1>2. Head(run.tasks) \in MigrationTasks BY PlaceInTask
<1>3. CASE Head(run.tasks) \in {"address-provider-registry", "address-provider"}
  BY <1>1, <1>3, RegistrySteps, AddressProviderSteps
<1>4. CASE Head(run.tasks) = "lending-pool" BY <1>1, <1>4, LendingPoolSteps
<1>5. CASE Head(run.tasks) = "oracles" BY <1>1, <1>5, OracleSteps
<1>6. CASE Head(run.tasks) \in {"data-provider", "weth-gateway"}
  BY <1>1, <1>6, DataProviderSteps, WethGatewaySteps
<1>7. CASE Head(run.tasks) = "initialize-lending-pool" BY <1>1, <1>7, InitializeSteps
<1> QED BY <1>2, <1>3, <1>4, <1>5, <1>6, <1>7 DEF MigrationTasks

\* The target and what is read from it stay the same.
LEMMA SameTarget ==
    ASSUME run'.target = run.target
    PROVE  /\ target' = target /\ config' = config
           /\ Reserves' = Reserves /\ reservesParams' = reservesParams
           /\ \A t : Task(t)' = Task(t)
<1>1. target' = target BY DEF target
<1>2. config' = config BY <1>1 DEF config
<1>3. reservesParams' = reservesParams BY <1>2 DEF reservesParams
<1>4. Reserves' = Reserves BY <1>3 DEF Reserves
<1>5. ASSUME NEW t PROVE Task(t)' = Task(t)
  BY <1>1 DEF Task, initializeLendingPool
<1> QED BY <1>1, <1>2, <1>3, <1>4, <1>5

\* From one place to the next.
NextPlace(p, next) ==
    \/ next = p + 1 /\ p \notin {101, 206, 309, 409, 502, 601, 721} /\ (target.pool = "Moola" => p # 719)
    \/ p = 101 /\ next = 201
    \/ p = 206 /\ next = 301
    \/ p = 309 /\ next = 401
    \/ p = 409 /\ next = 501
    \/ p = 502 /\ next = 701 /\ target.pool \in {"Moola", "Matic"}
    \/ p = 502 /\ next = 601 /\ target.pool \notin {"Moola", "Matic"}
    \/ p = 601 /\ next = 701
    \/ p = 719 /\ next = Finished /\ target.pool = "Moola"
    \/ p = 721 /\ next = Finished /\ target.pool # "Moola"

Size(t) == Len(Task(t))

\* How many steps the tasks have.
LEMMA SizesOfTasks ==
    /\ Size("address-provider-registry") = 1
    /\ Size("address-provider") = 6
    /\ Size("lending-pool") = 9
    /\ Size("oracles") = 9
    /\ Size("data-provider") = 2
    /\ Size("weth-gateway") = 1
    /\ Size("initialize-tokens") = 6
    /\ target.pool = "Moola" => Size("initialize-lending-pool") = 19
    /\ target.pool # "Moola" => Size("initialize-lending-pool") = 21
BY ShortTasksAre, AddressProviderIs, LendingPoolIs, OraclesAre, InitializeIs DEF Size

\* Every task of a migration has a step.
LEMMA SizesAreNat ==
    ASSUME NEW t \in MigrationTasks
    PROVE  Size(t) \in Nat \ {0}
<1>1. CASE t = "initialize-lending-pool"
  <2>1. Size(t) \in {19, 21} BY <1>1, SizesOfTasks
  <2> QED BY <2>1
<1>2. CASE t \in {"address-provider-registry", "address-provider", "lending-pool"}
  BY <1>2, SizesOfTasks
<1>3. CASE t \in {"oracles", "data-provider", "weth-gateway"} BY <1>3, SizesOfTasks
<1> QED BY <1>1, <1>2, <1>3 DEF MigrationTasks

\* What EXCEPT changes in a run, and what it keeps.
SameRun(r, q) ==
    /\ q.kind = r.kind /\ q.oracle = r.oracle /\ q.admin = r.admin
    /\ q.inputs = r.inputs /\ q.clean = r.clean /\ q.target = r.target

RunFrom(r, status, tasks, pc) ==
    [status |-> status, kind |-> r.kind, tasks |-> tasks, pc |-> pc, chunk |-> 0,
     oracle |-> r.oracle, admin |-> r.admin, inputs |-> r.inputs, clean |-> r.clean,
     target |-> r.target]

\* A process with other tasks, another step and another status.
LEMMA RunFromIs ==
    ASSUME NEW r, IsRun(r), NEW status \in {"running", "done"}, NEW tasks, NEW pc,
           NEW q, q = RunFrom(r, status, tasks, pc)
    PROVE  /\ IsRun(q) /\ SameRun(r, q)
           /\ q.pc = pc /\ q.chunk = 0 /\ q.status = status /\ q.tasks = tasks
<1>1. /\ q.status = status /\ q.kind = r.kind /\ q.tasks = tasks /\ q.pc = pc /\ q.chunk = 0
      /\ q.oracle = r.oracle /\ q.admin = r.admin /\ q.inputs = r.inputs /\ q.clean = r.clean
      /\ q.target = r.target
  BY DEF RunFrom
<1>2. q = [status |-> q.status, kind |-> q.kind, tasks |-> q.tasks, pc |-> q.pc,
           chunk |-> q.chunk, oracle |-> q.oracle, admin |-> q.admin, inputs |-> q.inputs,
           clean |-> q.clean, target |-> q.target]
  BY DEF RunFrom
<1>3. /\ r.kind \in {"", "migration", "repeat", "tokens"}
      /\ r.oracle \in Nat /\ r.clean \in BOOLEAN /\ r.target \in Targets
  BY DEF IsRun
<1>4. IsRun(q)
  <2>1. q.status \in {"idle", "running", "failed", "done"} /\ q.chunk \in Nat BY <1>1
  <2> QED BY <1>1, <1>2, <1>3, <2>1, Zenon DEF IsRun
<1> QED BY <1>1, <1>4 DEF SameRun

\* A step of a task leads to the next one, and the last to the next task's first.
LEMMA StepsToNext ==
    ASSUME NEW t \in MigrationTasks, NEW i \in 1 .. Size(t), i < Size(t)
    PROVE  NextPlace(Rank(t) + i, Rank(t) + (i + 1))
<1>1. CASE t = "address-provider-registry"
  <2>1. Size(t) = 1 BY <1>1, SizesOfTasks
  <2> QED BY <2>1
<1>2. CASE t = "address-provider"
  <2>1. Rank(t) = 200 /\ Size(t) = 6 BY <1>2, SizesOfTasks DEF Rank
  <2> QED BY <2>1 DEF NextPlace
<1>3. CASE t = "lending-pool"
  <2>1. Rank(t) = 300 /\ Size(t) = 9 BY <1>3, SizesOfTasks DEF Rank
  <2> QED BY <2>1 DEF NextPlace
<1>4. CASE t = "oracles"
  <2>1. Rank(t) = 400 /\ Size(t) = 9 BY <1>4, SizesOfTasks DEF Rank
  <2> QED BY <2>1 DEF NextPlace
<1>5. CASE t = "data-provider"
  <2>1. Rank(t) = 500 /\ Size(t) = 2 BY <1>5, SizesOfTasks DEF Rank
  <2> QED BY <2>1 DEF NextPlace
<1>6. CASE t = "weth-gateway"
  <2>1. Size(t) = 1 BY <1>6, SizesOfTasks
  <2> QED BY <2>1
<1>7. CASE t = "initialize-lending-pool"
  <2>1. Rank(t) = 700 BY <1>7 DEF Rank
  <2>2. CASE target.pool = "Moola"
    <3>1. Size(t) = 19 BY <1>7, <2>2, SizesOfTasks
    <3> QED BY <2>1, <3>1 DEF NextPlace
  <2>3. CASE target.pool # "Moola"
    <3>1. Size(t) = 21 BY <1>7, <2>3, SizesOfTasks
    <3> QED BY <2>1, <2>3, <3>1 DEF NextPlace
  <2> QED BY <2>2, <2>3
<1> QED BY <1>1, <1>2, <1>3, <1>4, <1>5, <1>6, <1>7 DEF MigrationTasks

\* From the last step of a task to the first of the next one.
LEMMA TasksToNext ==
    ASSUME NEW t, NEW next, Follows(t, next, target.pool)
    PROVE  NextPlace(Rank(t) + Size(t), Rank(next) + 1)
<1>1. CASE t = "address-provider-registry"
  <2>1. Rank(t) = 100 /\ Size(t) = 1 /\ Rank(next) = 200
    BY <1>1, SizesOfTasks DEF Rank, Follows
  <2> QED BY <2>1 DEF NextPlace
<1>2. CASE t = "address-provider"
  <2>1. Rank(t) = 200 /\ Size(t) = 6 /\ Rank(next) = 300
    BY <1>2, SizesOfTasks DEF Rank, Follows
  <2> QED BY <2>1 DEF NextPlace
<1>3. CASE t = "lending-pool"
  <2>1. Rank(t) = 300 /\ Size(t) = 9 /\ Rank(next) = 400
    BY <1>3, SizesOfTasks DEF Rank, Follows
  <2> QED BY <2>1 DEF NextPlace
<1>4. CASE t = "oracles"
  <2>1. Rank(t) = 400 /\ Size(t) = 9 /\ Rank(next) = 500
    BY <1>4, SizesOfTasks DEF Rank, Follows
  <2> QED BY <2>1 DEF NextPlace
<1>5. CASE t = "data-provider" /\ target.pool \in {"Moola", "Matic"}
  <2>1. Rank(t) = 500 /\ Size(t) = 2 /\ Rank(next) = 700
    BY <1>5, SizesOfTasks DEF Rank, Follows
  <2>2. NextPlace(502, 701) BY <1>5 DEF NextPlace
  <2> QED BY <2>1, <2>2
<1>6. CASE t = "data-provider" /\ target.pool \notin {"Moola", "Matic"}
  <2>1. Rank(t) = 500 /\ Size(t) = 2 /\ Rank(next) = 600
    BY <1>6, SizesOfTasks DEF Rank, Follows
  <2>2. NextPlace(502, 601) BY <1>6 DEF NextPlace
  <2> QED BY <2>1, <2>2
<1>7. CASE t = "weth-gateway"
  <2>1. Rank(t) = 600 /\ Size(t) = 1 /\ Rank(next) = 700
    BY <1>7, SizesOfTasks DEF Rank, Follows
  <2> QED BY <2>1 DEF NextPlace
<1> QED BY <1>1, <1>2, <1>3, <1>4, <1>5, <1>6, <1>7 DEF Follows

\* From the last step of the last task to the end.
LEMMA LastToNext ==
    NextPlace(Rank("initialize-lending-pool") + Size("initialize-lending-pool"), Finished)
<1>1. Rank("initialize-lending-pool") = 700 BY DEF Rank
<1>2. CASE target.pool = "Moola"
  <2>1. NextPlace(719, Finished) BY <1>2 DEF NextPlace
  <2>2. Size("initialize-lending-pool") = 19 BY <1>2, SizesOfTasks
  <2>3. Rank("initialize-lending-pool") + Size("initialize-lending-pool") = 719
    BY <1>1, <2>2
  <2> QED BY <2>1, <2>3, Zenon
<1>3. CASE target.pool # "Moola"
  <2>1. NextPlace(721, Finished) BY <1>3 DEF NextPlace
  <2>2. Size("initialize-lending-pool") = 21 BY <1>3, SizesOfTasks
  <2>3. Rank("initialize-lending-pool") + Size("initialize-lending-pool") = 721
    BY <1>1, <2>2
  <2> QED BY <2>1, <2>3, Zenon
<1> QED BY <1>2, <1>3

\* The rest of a migration after its first task.
LEMMA TailInOrder ==
    ASSUME NEW tasks, NEW pool, InOrder(tasks, pool), Len(tasks) > 1
    PROVE  /\ Follows(Head(tasks), Head(Tail(tasks)), pool) /\ InOrder(Tail(tasks), pool)
           /\ Head(tasks) \in MigrationTasks /\ Head(Tail(tasks)) \in MigrationTasks
<1>1. tasks \in Seq(MigrationTasks) /\ Len(tasks) \in Nat BY DEF InOrder
<1>2. /\ Tail(tasks) \in Seq(MigrationTasks) /\ Len(Tail(tasks)) = Len(tasks) - 1
      /\ \A i \in 1 .. Len(tasks) - 1 : Tail(tasks)[i] = tasks[i + 1]
      /\ Head(tasks) = tasks[1]
  BY <1>1
<1>3. Head(Tail(tasks)) = tasks[2] BY <1>1, <1>2
<1>4. Follows(tasks[1], tasks[2], pool)
  <2>1. 1 \in 1 .. Len(tasks) - 1 /\ 1 + 1 = 2 BY <1>1
  <2> QED BY <2>1 DEF InOrder
<1>5. \A i \in 1 .. Len(Tail(tasks)) - 1 : Follows(Tail(tasks)[i], Tail(tasks)[i + 1], pool)
  <2> SUFFICES ASSUME NEW i \in 1 .. Len(Tail(tasks)) - 1
               PROVE  Follows(Tail(tasks)[i], Tail(tasks)[i + 1], pool)
    OBVIOUS
  <2>1. i + 1 \in 1 .. Len(tasks) - 1 /\ i \in 1 .. Len(tasks) - 1 BY <1>1, <1>2
  <2>2. Tail(tasks)[i] = tasks[i + 1] /\ Tail(tasks)[i + 1] = tasks[(i + 1) + 1] BY <1>2, <2>1
  <2>3. Follows(tasks[i + 1], tasks[(i + 1) + 1], pool) BY <2>1 DEF InOrder
  <2> QED BY <2>2, <2>3
<1>6. Tail(tasks)[Len(Tail(tasks))] = tasks[Len(tasks)]
  <2>1. Len(tasks) - 1 \in 1 .. Len(tasks) - 1 /\ Len(tasks) - 1 + 1 = Len(tasks) BY <1>1
  <2> QED BY <1>2, <2>1
<1>7. Tail(tasks) # <<>>
  <2>1. Len(Tail(tasks)) # 0 BY <1>1, <1>2
  <2> QED BY <2>1, EmptySeq
<1>8. Head(Tail(tasks)) # "address-provider-registry" BY <1>3, <1>4 DEF Follows
<1>9. InOrder(Tail(tasks), pool) BY <1>2, <1>5, <1>6, <1>7, <1>8 DEF InOrder
<1>10. tasks[1] \in MigrationTasks /\ tasks[2] \in MigrationTasks BY <1>1
<1> QED BY <1>2, <1>3, <1>4, <1>9, <1>10

\* What proceed does.
LEMMA Proceeds ==
    ASSUME RunOK, Running, NEW r, IsRun(r), r.inputs \in Seq(Reserves),
           r.status = "running", r.kind = run.kind, r.tasks = run.tasks, r.target = run.target,
           r.pc \in run.pc .. Len(program),
           run' = proceed(r)
    PROVE  /\ RunOK' /\ SameRun(r, run') /\ run'.chunk = 0
           /\ run'.status \in {"running", "done"}
           /\ run.kind = "tokens" => place' = 0
           /\ run.kind # "tokens" => NextPlace(Rank(Head(run.tasks)) + r.pc, place')
<1> DEFINE t == Head(run.tasks)
           n == Size(t)
<1>1. run.pc \in 1 .. n /\ program = Task(t) /\ r.pc \in 1 .. n /\ n \in Nat /\ Len(program) = n
  <2>1. /\ run.pc \in 1 .. n /\ program = Task(t)
        /\ Len(program) = n /\ r.pc \in run.pc .. n
    BY DEF RunOK, program, Size
  <2>2. CASE run.kind = "tokens"
    <3>1. t = "initialize-tokens" BY <2>2 DEF RunOK
    <3>2. n = 6 BY <3>1, SizesOfTasks
    <3> QED BY <2>1, <3>2
  <2>3. CASE run.kind # "tokens"
    <3>1. t \in MigrationTasks BY <2>3, PlaceInTask DEF Migrating
    <3>2. n \in Nat BY <3>1, SizesOfTasks DEF MigrationTasks
    <3> QED BY <2>1, <3>2
  <2> QED BY <2>2, <2>3
<1>2. run.kind \in {"migration", "repeat", "tokens"} BY DEF RunOK, IsRun, Running
<1>3. /\ run.kind = "tokens" => run.tasks = <<"initialize-tokens">>
      /\ run.kind # "tokens" => InOrder(run.tasks, target.pool)
  BY <1>2 DEF RunOK
<1>7. r = [status |-> r.status, kind |-> r.kind, tasks |-> r.tasks, pc |-> r.pc,
           chunk |-> r.chunk, oracle |-> r.oracle, admin |-> r.admin, inputs |-> r.inputs,
           clean |-> r.clean, target |-> r.target]
  BY DEF IsRun
<1>4. CASE r.pc < n
  <2>1. run' = RunFrom(r, "running", run.tasks, r.pc + 1)
    <3>1. run' = [r EXCEPT !.pc = r.pc + 1, !.chunk = 0] BY <1>1, <1>4 DEF proceed, program
    <3> QED BY <1>7, <3>1 DEF RunFrom
  <2>2. /\ IsRun(run') /\ SameRun(r, run') /\ run'.chunk = 0
        /\ run'.pc = r.pc + 1 /\ run'.status = "running" /\ run'.tasks = run.tasks
    BY <2>1, RunFromIs
  <2>3. run'.target = run.target /\ run'.kind = run.kind /\ run'.inputs = r.inputs
    BY <2>2 DEF SameRun
  <2>4. RunOK'
    <3>1. run'.pc \in 1 .. n BY <1>1, <1>4, <2>2
    <3>2. program' = program BY <1>1, <2>2, <2>3, SameTarget DEF program
    <3>3. run'.inputs \in Seq(Reserves') BY <2>3, SameTarget
    <3>4. run'.kind # "tokens" => InOrder(run'.tasks, target'.pool)
      BY <1>3, <2>2, <2>3, SameTarget
    <3>5. run'.pc \in 1 .. Len(program') BY <1>1, <3>1, <3>2
    <3> QED BY <1>2, <1>3, <2>2, <2>3, <3>3, <3>4, <3>5 DEF RunOK, Running
  <2>5. run.kind # "tokens" => NextPlace(Rank(t) + r.pc, place')
    <3> SUFFICES ASSUME run.kind # "tokens" PROVE NextPlace(Rank(t) + r.pc, place')
      OBVIOUS
    <3>1. t \in MigrationTasks BY PlaceInTask DEF Migrating
    <3>2. place' = Rank(t) + (r.pc + 1) BY <2>2, <2>3 DEF place, placeOf
    <3> QED BY <1>1, <1>4, <3>1, <3>2, StepsToNext
  <2>6. run.kind = "tokens" => place' = 0 BY <2>3 DEF place, placeOf
  <2> QED BY <2>2, <2>4, <2>5, <2>6
<1>5. CASE r.pc = n /\ Len(run.tasks) > 1
  <2>1. run' = RunFrom(r, "running", Tail(run.tasks), 1)
    <3>1. run' = [r EXCEPT !.tasks = Tail(run.tasks), !.pc = 1, !.chunk = 0]
      BY <1>1, <1>5 DEF proceed, program
    <3> QED BY <1>7, <3>1 DEF RunFrom
  <2>2. /\ IsRun(run') /\ SameRun(r, run') /\ run'.chunk = 0
        /\ run'.pc = 1 /\ run'.status = "running" /\ run'.tasks = Tail(run.tasks)
    BY <2>1, RunFromIs
  <2>3. run'.target = run.target /\ run'.kind = run.kind /\ run'.inputs = r.inputs
    BY <2>2 DEF SameRun
  <2>4. run.kind # "tokens"
    <3>1. Len(<<"initialize-tokens">>) = 1 OBVIOUS
    <3>2. Len(run.tasks) > 1 BY <1>5
    <3>3. run.kind = "tokens" => Len(run.tasks) = 1 BY <1>3, <3>1, Zenon
    <3>4. ~ (1 > 1) OBVIOUS
    <3> QED BY <3>2, <3>3, <3>4, Zenon
  <2> DEFINE next == Head(Tail(run.tasks))
  <2>5. Follows(t, next, target.pool) /\ next \in MigrationTasks
        /\ InOrder(Tail(run.tasks), target.pool)
    BY <1>3, <1>5, <2>4, TailInOrder
  <2> HIDE DEF next
  <2>6. RunOK'
    <3>1. Size(next) \in Nat \ {0} BY <2>5, SizesAreNat
    <3>2. program' = Task(next) BY <2>2, <2>3, SameTarget DEF program, next
    <3>3. run'.inputs \in Seq(Reserves') BY <2>3, SameTarget
    <3>4. InOrder(run'.tasks, target'.pool) BY <2>2, <2>3, <2>5, SameTarget
    <3>5. run'.pc \in 1 .. Len(program')
      <4>1. Len(program') = Size(next) BY <3>2 DEF Size
      <4> QED BY <2>2, <3>1, <4>1
    <3> QED BY <1>2, <2>2, <2>3, <2>4, <3>3, <3>4, <3>5 DEF RunOK, Running
  <2>7. place' = Rank(next) + 1 BY <2>2, <2>3, <2>4 DEF place, placeOf, next
  <2> QED BY <1>5, <2>2, <2>4, <2>5, <2>6, <2>7, TasksToNext
<1>6. CASE r.pc = n /\ ~ (Len(run.tasks) > 1)
  <2>1. run' = RunFrom(r, "done", run.tasks, r.pc)
    <3>1. run' = [r EXCEPT !.status = "done", !.chunk = 0] BY <1>1, <1>6 DEF proceed, program
    <3> QED BY <1>7, <3>1 DEF RunFrom
  <2>2. /\ IsRun(run') /\ SameRun(r, run') /\ run'.chunk = 0
        /\ run'.status = "done" /\ run'.tasks = run.tasks
    BY <2>1, RunFromIs
  <2>3. run'.target = run.target /\ run'.kind = run.kind /\ run'.inputs = r.inputs
    BY <2>2 DEF SameRun
  <2>4. RunOK'
    <3>1. run'.inputs \in Seq(Reserves') BY <2>3, SameTarget
    <3>2. run'.kind # "tokens" => InOrder(run'.tasks, target'.pool)
      BY <1>3, <2>2, <2>3, SameTarget
    <3> QED BY <1>2, <1>3, <2>2, <2>3, <3>1, <3>2 DEF RunOK, Running
  <2>5. run.kind = "tokens" => place' = 0 BY <2>3 DEF place, placeOf
  <2>6. run.kind # "tokens" => NextPlace(Rank(t) + r.pc, place')
    <3> SUFFICES ASSUME run.kind # "tokens" PROVE NextPlace(Rank(t) + r.pc, place')
      OBVIOUS
    <3>1. run.tasks \in Seq(MigrationTasks) /\ run.tasks # <<>>
          /\ run.tasks[Len(run.tasks)] = "initialize-lending-pool"
      BY <1>3 DEF InOrder
    <3>2. Len(run.tasks) = 1
      <4>1. Len(run.tasks) \in Nat /\ Len(run.tasks) # 0 BY <3>1, EmptySeq
      <4>2. ~ (Len(run.tasks) > 1) BY <1>6
      <4> QED BY <4>1, <4>2
    <3>3. t = "initialize-lending-pool" BY <3>1, <3>2
    <3>4. place' = Finished BY <2>2, <2>3 DEF place, placeOf
    <3> QED BY <1>6, <3>3, <3>4, LastToNext
  <2> QED BY <2>2, <2>4, <2>5, <2>6
<1> QED BY <1>1, <1>4, <1>5, <1>6
-----------------------------------------------------------------------------
(* The moves of the process from place to place.                             *)

Firsts == {101, 201, 301, 401, 501, 601, 701}
Places ==
    {0, 101} \union 201 .. 206 \union 301 .. 309 \union 401 .. 409 \union 501 .. 502
        \union {601} \union 701 .. 721 \union {Finished}

\* The first steps of the tasks are the places a failure falls back to.
LEMMA FirstsOfTasks ==
    ASSUME NEW t \in MigrationTasks
    PROVE  Rank(t) + 1 \in Firsts /\ Rank(t) \in Nat
BY DEF MigrationTasks, Rank, Firsts

\* Where a process can be: an ended one at the first step of a task, or at the end.
LEMMA PlaceIs ==
    ASSUME RunOK
    PROVE  /\ place \in Places
           /\ ~ Running /\ place # 0 => place \in Firsts \union {Finished}
           /\ run.status = "failed" /\ run.kind # "tokens" => place \in Firsts
<1>1. run.kind \in {"", "migration", "repeat", "tokens"} BY DEF RunOK, IsRun
<1>2. run.status \in {"idle", "running", "failed", "done"} BY DEF RunOK, IsRun
<1>3. CASE run.status = "idle" \/ run.kind = "tokens"
  <2>1. place = 0 BY <1>3 DEF place, placeOf
  <2> QED BY <1>3, <2>1 DEF Places, Running
<1>4. CASE run.status = "done" /\ run.kind # "tokens"
  <2>1. place = Finished BY <1>4 DEF place, placeOf
  <2> QED BY <1>4, <2>1 DEF Places, Running
<1>5. CASE run.status = "failed" /\ run.kind # "tokens"
  <2>1. InOrder(run.tasks, target.pool) BY <1>1, <1>5 DEF RunOK
  <2>2. Head(run.tasks) \in MigrationTasks BY <2>1, HeadTailProperties DEF InOrder
  <2>3. place = Rank(Head(run.tasks)) + 1 BY <1>5 DEF place, placeOf
  <2>4. place \in Firsts BY <2>2, <2>3, FirstsOfTasks
  <2>5. Firsts \subseteq Places BY DEF Firsts, Places
  <2> QED BY <1>5, <2>4, <2>5
<1>6. CASE Migrating
  <2>1. Head(run.tasks) \in MigrationTasks BY <1>6, PlaceInTask
  <2>2. place \in {101} \union 201 .. 206 \union 301 .. 309 \union 401 .. 409
          \union 501 .. 502 \union {601} \union 701 .. 721
    BY <1>6, <2>1, RegistrySteps, AddressProviderSteps, LendingPoolSteps, OracleSteps,
       DataProviderSteps, WethGatewaySteps, InitializeSteps DEF MigrationTasks
  <2>3. place \in Places BY <2>2 DEF Places
  <2> QED BY <1>6, <2>3 DEF Migrating, Running
<1> QED BY <1>2, <1>3, <1>4, <1>5, <1>6 DEF Migrating, Running

\* A call that fails takes a migration back to the first step of the task.
LEMMA Fails ==
    ASSUME RunOK, Running, NEW clean \in BOOLEAN,
           run' = [failed(run) EXCEPT !.clean = clean]
    PROVE  /\ RunOK' /\ run'.chunk = 0 /\ run'.status = "failed"
           /\ run'.kind = run.kind /\ run'.oracle = run.oracle /\ run'.admin = run.admin
           /\ run'.inputs = run.inputs /\ run'.target = run.target /\ run'.tasks = run.tasks
           /\ run.kind = "tokens" => place = 0 /\ place' = 0
           /\ run.kind # "tokens" => place' \in Firsts /\ place' <= place
<1>1. run = [status |-> run.status, kind |-> run.kind, tasks |-> run.tasks, pc |-> run.pc,
             chunk |-> run.chunk, oracle |-> run.oracle, admin |-> run.admin,
             inputs |-> run.inputs, clean |-> run.clean, target |-> run.target]
  BY DEF RunOK, IsRun
<1>2. run' = [status |-> "failed", kind |-> run.kind, tasks |-> run.tasks, pc |-> run.pc,
             chunk |-> 0, oracle |-> run.oracle, admin |-> run.admin,
             inputs |-> run.inputs, clean |-> clean, target |-> run.target]
  BY <1>1 DEF failed
<1>3. /\ run'.chunk = 0 /\ run'.status = "failed"
      /\ run'.kind = run.kind /\ run'.oracle = run.oracle /\ run'.admin = run.admin
      /\ run'.inputs = run.inputs /\ run'.target = run.target /\ run'.tasks = run.tasks
      /\ run'.pc = run.pc /\ run'.clean = clean
  BY <1>2
<1>4. IsRun(run')
  <2>1. run' = [status |-> run'.status, kind |-> run'.kind, tasks |-> run'.tasks, pc |-> run'.pc,
             chunk |-> run'.chunk, oracle |-> run'.oracle, admin |-> run'.admin,
             inputs |-> run'.inputs, clean |-> run'.clean, target |-> run'.target]
    BY <1>2
  <2>2. /\ run.kind \in {"", "migration", "repeat", "tokens"}
        /\ run.oracle \in Nat /\ run.target \in Targets
    BY DEF RunOK, IsRun
  <2>3. 0 \in Nat /\ "failed" \in {"idle", "running", "failed", "done"} OBVIOUS
  <2> QED BY <1>3, <2>1, <2>2, <2>3, Zenon DEF IsRun
<1>5. RunOK'
  <2>1. target'.pool = target.pool /\ Reserves' = Reserves BY <1>3, SameTarget
  <2> QED BY <1>3, <1>4, <2>1 DEF RunOK, Running
<1>6. run.kind = "tokens" => place = 0 /\ place' = 0 BY <1>3 DEF place, placeOf
<1>7. run.kind # "tokens" => place' \in Firsts /\ place' <= place
  <2> SUFFICES ASSUME run.kind # "tokens" PROVE place' \in Firsts /\ place' <= place
    OBVIOUS
  <2> DEFINE t == Head(run.tasks)
  <2>1. t \in MigrationTasks /\ place = Rank(t) + run.pc /\ run.pc \in 1 .. Size(t)
    BY PlaceInTask DEF Migrating, Size
  <2>2. place' = Rank(t) + 1 BY <1>3 DEF place, placeOf
  <2> HIDE DEF t
  <2>3. Rank(t) + 1 \in Firsts /\ Rank(t) \in Nat BY <2>1, FirstsOfTasks
  <2>4. Size(t) \in Nat BY <2>1, SizesAreNat
  <2> QED BY <2>1, <2>2, <2>3, <2>4
<1> QED BY <1>3, <1>5, <1>6, <1>7

\* Another pass of a loop.
LEMMA Loops ==
    ASSUME RunOK, Running, run' = [run EXCEPT !.chunk = @ + 1]
    PROVE  /\ RunOK' /\ run'.chunk = run.chunk + 1 /\ run.chunk \in Nat
           /\ run'.status = run.status /\ run'.kind = run.kind /\ run'.oracle = run.oracle
           /\ run'.admin = run.admin /\ run'.inputs = run.inputs /\ run'.target = run.target
           /\ place' = place
<1>1. run = [status |-> run.status, kind |-> run.kind, tasks |-> run.tasks, pc |-> run.pc,
             chunk |-> run.chunk, oracle |-> run.oracle, admin |-> run.admin,
             inputs |-> run.inputs, clean |-> run.clean, target |-> run.target]
  BY DEF RunOK, IsRun
<1>2. run' = [status |-> run.status, kind |-> run.kind, tasks |-> run.tasks, pc |-> run.pc,
             chunk |-> run.chunk + 1, oracle |-> run.oracle, admin |-> run.admin,
             inputs |-> run.inputs, clean |-> run.clean, target |-> run.target]
  BY <1>1
<1>3. /\ run'.chunk = run.chunk + 1 /\ run'.status = run.status
      /\ run'.kind = run.kind /\ run'.oracle = run.oracle /\ run'.admin = run.admin
      /\ run'.inputs = run.inputs /\ run'.target = run.target /\ run'.tasks = run.tasks
      /\ run'.pc = run.pc /\ run'.clean = run.clean
  BY <1>2
<1>4. IsRun(run') /\ run.chunk \in Nat
  <2>1. run' = [status |-> run'.status, kind |-> run'.kind, tasks |-> run'.tasks, pc |-> run'.pc,
             chunk |-> run'.chunk, oracle |-> run'.oracle, admin |-> run'.admin,
             inputs |-> run'.inputs, clean |-> run'.clean, target |-> run'.target]
    BY <1>2
  <2>2. /\ run.status \in {"idle", "running", "failed", "done"}
        /\ run.kind \in {"", "migration", "repeat", "tokens"}
        /\ run.oracle \in Nat /\ run.target \in Targets /\ run.chunk \in Nat
        /\ run.clean \in BOOLEAN
    BY DEF RunOK, IsRun
  <2>3. run.chunk + 1 \in Nat
    <3>1. run.chunk \in Nat BY <2>2
    <3> QED BY <3>1
  <2> QED BY <1>3, <2>1, <2>2, <2>3, Zenon DEF IsRun
<1>5. target'.pool = target.pool /\ Reserves' = Reserves /\ program' = program
  BY <1>3, SameTarget DEF program
<1>6. RunOK' BY <1>3, <1>4, <1>5 DEF RunOK, Running
<1>7. place' = place BY <1>3 DEF place, placeOf
<1> QED BY <1>3, <1>4, <1>6, <1>7

\* The process goes on with its next step.
LEMMA Continues ==
    ASSUME RunOK, Running, Continue(run)
    PROVE  /\ RunOK' /\ SameRun(run, run') /\ run'.chunk = 0
           /\ run.kind = "tokens" => place = 0 /\ place' = 0
           /\ run.kind # "tokens" => NextPlace(place, place')
           /\ faults' = faults
<1>1. run.pc \in run.pc .. Len(program)
  <2>1. run.pc \in 1 .. Len(program) BY DEF RunOK
  <2>2. Len(program) \in Nat
    <3>1. CASE run.kind = "tokens"
      <4>1. program = Task("initialize-tokens") BY <3>1 DEF RunOK, program
      <4>2. Size("initialize-tokens") = 6 BY SizesOfTasks
      <4> QED BY <4>1, <4>2 DEF Size
    <3>2. CASE run.kind # "tokens"
      <4>1. Head(run.tasks) \in MigrationTasks BY <3>2, PlaceInTask DEF Migrating
      <4>2. Size(Head(run.tasks)) \in Nat BY <4>1, SizesAreNat
      <4> QED BY <4>2 DEF Size, program
    <3> QED BY <3>1, <3>2
  <2> QED BY <2>1, <2>2
<1>2. IsRun(run) /\ run.inputs \in Seq(Reserves) BY DEF RunOK
<1>3. run.status = "running" /\ run' = proceed(run) BY DEF Running, Continue
<1>4. /\ RunOK' /\ SameRun(run, run') /\ run'.chunk = 0
      /\ run.kind = "tokens" => place' = 0
      /\ run.kind # "tokens" => NextPlace(Rank(Head(run.tasks)) + run.pc, place')
  BY <1>1, <1>2, <1>3, Proceeds
<1>5. run.kind # "tokens" => place = Rank(Head(run.tasks)) + run.pc
  BY PlaceInTask DEF Migrating
<1>6. run.kind = "tokens" => place = 0 BY DEF place, placeOf
<1> QED BY <1>4, <1>5, <1>6 DEF Continue

\* Where a step leads from a place, and where it came from.
Crossing(p, q) ==
    /\ q > 202 => p >= 202
    /\ q > 203 => p >= 203
    /\ q > 204 => p >= 204
    /\ q > 206 => p >= 206
    /\ q > 303 => p >= 303
    /\ q > 304 => p >= 304
    /\ q > 306 => p >= 306
    /\ q > 307 => p >= 307
    /\ q > 308 => p >= 308
    /\ q > 309 => p >= 309
    /\ q > 403 => p >= 403
    /\ q > 406 => p >= 406
    /\ q > 407 => p >= 407
    /\ q > 408 => p >= 408
    /\ q > 409 => p >= 409
    /\ q > 707 => p >= 707
    /\ q > 710 => p >= 710
    /\ q > 715 => p >= 715 \/ p = 713
    /\ q > 716 => p >= 716 \/ p = 713
    /\ q > 718 => p >= 718
    /\ q > 721 => p > 721 \/ p \in {719, 721}

CrossingIntoPart(p, q) ==
    /\ q \in 204 .. 205 => p \in 203 .. 205
    /\ q = 406 => p \in 405 .. 406
    /\ q \in 704 .. 714 => p \in 703 .. 714
    /\ q \in 709 .. 710 => p \in 708 .. 710
    /\ q = 710 => p \in 709 .. 710
    /\ q \in 711 .. 714 => p \in 710 .. 714
    /\ q \in 714 .. 715 => p \in 713 .. 715
    /\ q = 715 => p \in 714 .. 715
    /\ q \in 715 .. 716 => p \in 714 .. 716

Crosses(p, q) == Crossing(p, q) /\ CrossingIntoPart(p, q)

\* The next place crosses what its step is allowed to cross.
LEMMA NextCrosses ==
    ASSUME NEW p \in Places, NEW q, NextPlace(p, q)
    PROVE  Crosses(p, q) /\ q \in Nat
<1>1. p \in Nat /\ p # 999 /\ Finished = 1000 BY DEF Places, Finished
<1>2. q \in Nat BY <1>1 DEF NextPlace
<1>3. Crossing(p, q)
  <2>1. CASE q = p + 1 /\ p \notin {101, 206, 309, 409, 502, 601, 721}
             /\ (target.pool = "Moola" => p # 719)
    BY <1>1, <2>1 DEF Crossing
  <2>2. CASE q # p + 1
    BY <1>1, <1>2, <2>2 DEF Crossing, NextPlace
  <2>3. q = p + 1 => p \notin {101, 206, 309, 409, 502, 601, 721}
                     /\ (target.pool = "Moola" => p # 719)
    BY <1>1 DEF NextPlace
  <2> QED BY <2>1, <2>2, <2>3
<1>4. CrossingIntoPart(p, q) BY <1>1, <1>2 DEF CrossingIntoPart, NextPlace
<1> QED BY <1>2, <1>3, <1>4 DEF Crosses

\* The next place is a later one.
LEMMA NextIsLater ==
    ASSUME NEW p \in Places, NEW q, NextPlace(p, q)
    PROVE  q > p
<1>1. p \in Nat /\ p <= 1000 /\ Finished = 1000 BY DEF Places, Finished
<1> QED BY <1>1 DEF NextPlace

\* Falling back to the first step of a task crosses no part forwards.
LEMMA BackCrosses ==
    ASSUME NEW p \in Places, NEW q, q \in Firsts /\ q <= p
    PROVE  Crosses(p, q) /\ q \in Nat
<1>1. p \in Nat /\ Finished = 1000 BY DEF Places, Finished
<1>2. q \in Nat BY DEF Firsts
<1>3. Crossing(p, q)
  BY <1>1 DEF Crossing, Firsts
<1>4. CrossingIntoPart(p, q) BY <1>1 DEF CrossingIntoPart, Firsts
<1> QED BY <1>2, <1>3, <1>4 DEF Crosses

\* Staying crosses nothing.
LEMMA StayCrosses ==
    ASSUME NEW p \in Places
    PROVE  Crosses(p, p) /\ p \in Nat
<1>1. p \in Nat /\ Finished = 1000 BY DEF Places, Finished
<1>2. Crossing(p, p) BY <1>1 DEF Crossing
<1>3. CrossingIntoPart(p, p) BY <1>1 DEF CrossingIntoPart
<1> QED BY <1>1, <1>2, <1>3 DEF Crosses

\* The start of a migration, or of the filling in, crosses nothing.
LEMMA StartCrosses ==
    ASSUME NEW p \in Places, NEW q \in {0, 101, 201}
    PROVE  Crosses(p, q) /\ q \in Nat
<1>1. Finished = 1000 BY DEF Finished
<1>2. Crossing(p, q) BY <1>1 DEF Crossing
<1>3. CrossingIntoPart(p, q) BY DEF CrossingIntoPart
<1> QED BY <1>2, <1>3 DEF Crosses

\* A move from place to place, with what it keeps of the process.
Falls == place' \in Firsts /\ place' <= place
Moves ==
    /\ RunOK' /\ Crosses(place, place') /\ place \in Places /\ place \in Nat /\ place' \in Nat
    /\ run'.kind = run.kind /\ run'.oracle = run.oracle /\ run'.admin = run.admin
    /\ run'.inputs = run.inputs /\ run'.target = run.target
    /\ run.kind = "tokens" => place = 0 /\ place' = 0

\* Less: the process may also have read something, or have been started.
Goes ==
    /\ RunOK' /\ Crosses(place, place') /\ place \in Places /\ place \in Nat /\ place' \in Nat
    /\ run'.target = run.target

\* A move keeps more of the process than is needed for going on.
LEMMA MovesGo ==
    ASSUME Moves
    PROVE  Goes /\ run'.oracle = run.oracle /\ run'.admin = run.admin /\ run'.inputs = run.inputs
BY DEF Moves, Goes

\* A step that succeeds leads to the next place.
LEMMA ContinueMoves ==
    ASSUME RunOK, Running, Continue(run)
    PROVE  /\ Moves /\ run'.chunk = 0 /\ faults' = faults
           /\ run.kind # "tokens" => NextPlace(place, place')
<1>1. place \in Places BY PlaceIs
<1>2. /\ RunOK' /\ SameRun(run, run') /\ run'.chunk = 0 /\ faults' = faults
      /\ run.kind = "tokens" => place = 0 /\ place' = 0
      /\ run.kind # "tokens" => NextPlace(place, place')
  BY Continues
<1>3. place \in Nat BY <1>1, StayCrosses
<1>4. Crosses(place, place') /\ place' \in Nat
  <2>1. CASE run.kind # "tokens" BY <1>1, <1>2, <2>1, NextCrosses
  <2>2. CASE run.kind = "tokens"
    <3>1. place' = place BY <1>2, <2>2
    <3>2. Crosses(place, place) BY <1>1, StayCrosses
    <3> QED BY <1>3, <3>1, <3>2
  <2> QED BY <2>1, <2>2
<1> QED BY <1>1, <1>2, <1>3, <1>4 DEF Moves, SameRun

\* A process that ends with a failure is back at the first step of its task.
LEMMA FailMoves ==
    ASSUME RunOK, Running, NEW clean \in BOOLEAN,
           run' = [failed(run) EXCEPT !.clean = clean]
    PROVE  /\ Moves /\ run'.chunk = 0
           /\ run.kind # "tokens" => Falls
<1>1. place \in Places BY PlaceIs
<1>2. /\ RunOK' /\ run'.chunk = 0
      /\ run'.kind = run.kind /\ run'.oracle = run.oracle /\ run'.admin = run.admin
      /\ run'.inputs = run.inputs /\ run'.target = run.target
      /\ run.kind = "tokens" => place = 0 /\ place' = 0
      /\ run.kind # "tokens" => place' \in Firsts /\ place' <= place
  BY Fails
<1>3. place \in Nat BY <1>1, StayCrosses
<1>4. Crosses(place, place') /\ place' \in Nat
  <2>1. CASE run.kind # "tokens" BY <1>1, <1>2, <2>1, BackCrosses
  <2>2. CASE run.kind = "tokens"
    <3>1. place' = place BY <1>2, <2>2
    <3>2. Crosses(place, place) BY <1>1, StayCrosses
    <3> QED BY <1>3, <3>1, <3>2
  <2> QED BY <2>1, <2>2
<1> QED BY <1>1, <1>2, <1>3, <1>4 DEF Moves, Falls

\* A call that fails ends the process and counts as a fault.
LEMMA BreakMoves ==
    ASSUME RunOK, Running, Break
    PROVE  /\ Moves /\ run'.chunk = 0 /\ faults' = faults + 1 /\ faults < target.faults
           /\ run.kind # "tokens" => Falls
BY FailMoves DEF Break

\* After a transaction a migration is at the next place, or a call has failed and
\* it is at the first step of the task.
LEMMA MinedMoves ==
    ASSUME RunOK, Running, Mined
    PROVE  /\ Moves /\ run'.chunk = 0
           /\ run.kind # "tokens" => NextPlace(place, place') \/ Falls
           /\ \/ faults' = faults /\ (run.kind # "tokens" => NextPlace(place, place'))
              \/ faults' = faults + 1 /\ faults < target.faults /\ (run.kind # "tokens" => Falls)
BY ContinueMoves, BreakMoves DEF Mined

\* One pass of a loop: once more, on to the next place, or a failure.
LEMMA MinedChunkMoves ==
    ASSUME RunOK, Running, NEW array, NEW size, MinedChunk(array, size)
    PROVE  /\ Moves
           /\ \/ /\ place' = place /\ run'.chunk = run.chunk + 1 /\ faults' = faults
                 /\ (run.chunk + 1) * size < Len(array)
              \/ /\ (run.chunk + 1) * size >= Len(array)
                 /\ run'.chunk = 0 /\ faults' = faults
                 /\ run.kind # "tokens" => NextPlace(place, place')
              \/ /\ run'.chunk = 0 /\ faults' = faults + 1 /\ faults < target.faults
                 /\ run.kind # "tokens" => Falls
<1>1. CASE (run.chunk + 1) * size < Len(array) /\ run' = [run EXCEPT !.chunk = @ + 1]
           /\ UNCHANGED faults
  <2>1. /\ RunOK' /\ run'.chunk = run.chunk + 1
        /\ run'.kind = run.kind /\ run'.oracle = run.oracle
        /\ run'.admin = run.admin /\ run'.inputs = run.inputs /\ run'.target = run.target
        /\ place' = place
    BY <1>1, Loops
  <2>2. place \in Places BY PlaceIs
  <2>3. Crosses(place, place) /\ place \in Nat BY <2>2, StayCrosses
  <2>4. run.kind = "tokens" => place = 0 BY DEF place, placeOf
  <2>5. Moves BY <2>1, <2>2, <2>3, <2>4 DEF Moves
  <2> QED BY <1>1, <2>1, <2>5
<1>2. CASE (run.chunk + 1) * size >= Len(array) /\ Continue(run)
  BY <1>2, ContinueMoves
<1>3. CASE Break BY <1>3, BreakMoves
<1> QED BY <1>1, <1>2, <1>3 DEF MinedChunk
-----------------------------------------------------------------------------
(* The inductive invariant.                                                  *)

IsSequence(s) == Len(s) \in Nat /\ s = [i \in 1 .. Len(s) |-> s[i]]

IsMarket(r) ==
    r = [admin |-> r.admin, emergency |-> r.emergency, pool |-> r.pool,
         configurator |-> r.configurator, priceOracle |-> r.priceOracle,
         rateOracle |-> r.rateOracle, manager |-> r.manager, gateway |-> r.gateway,
         listed |-> r.listed, terms |-> r.terms]
IsOracle(r) == r = [owner |-> r.owner, rates |-> r.rates]

Termed == {s \in Reserves : HasTerms(s)}
ownStrategy(p, n) == [rates |-> p.strategy.rates, provider |-> n]

\* Of every market: only reserves with an address are listed, only those with
\* terms get theirs, and none before all are listed.
MarketsOK ==
    \A n \in 1 .. Len(markets) :
        /\ IsMarket(markets[n])
        /\ DOMAIN markets[n].listed \subseteq Reserves \intersect config.assets
        /\ DOMAIN markets[n].terms \subseteq Termed
        /\ DOMAIN markets[n].terms # {} => DOMAIN markets[n].listed = Reserves
        /\ \A s \in DOMAIN markets[n].terms : markets[n].terms[s] = termsOf(reservesParams[s])

\* A rate oracle has the configured rate of an asset, or none.
OraclesOK ==
    \A o \in 1 .. Len(oracles) :
        /\ IsOracle(oracles[o])
        /\ \A s \in DOMAIN oracles[o].rates :
             s \in DOMAIN config.rates /\ oracles[o].rates[s] = config.rates[s]

\* The market of the address book is the last one; the entries of its
\* configurator and of the registry name what exists.
BookOK ==
    /\ found(Provider) => Len(markets) # 0 /\ m = Len(markets)
    /\ found("LendingPoolConfigurator") => configurator \in 0 .. Len(markets)
    /\ run.kind = "tokens" => found(Provider) /\ found("LendingPoolConfigurator")
    /\ found(Registry) => db[Registry] \in 1 .. Len(registered)
    /\ Configured("ProviderRegistry") => Len(registered) # 0
    /\ Configured("LendingRateOracle") => Len(oracles) # 0

ChainOK ==
    /\ IsSequence(markets) /\ IsSequence(oracles) /\ IsSequence(registered)
    /\ MarketsOK /\ OraclesOK /\ BookOK

\* No more markets than migrations and failed calls: a migration that has still
\* to deploy its provider has one to come.
Budget ==
    /\ started \in 0 .. target.migrations /\ faults \in 0 .. target.faults
    /\ Len(markets) + (IF 0 < place /\ place <= 203 THEN 1 ELSE 0) <= started + faults

Recorded(c) == found(c) /\ db[c] = m
nameOf(p) == p.strategy.name

\* What is in the address book from a step of the migration on.
BookAt ==
    /\ place > 202 => Configured("ProviderRegistry") \/ found(Registry)
    /\ place > 203 => found(Provider)
    /\ place > 304 => Recorded("LendingPool")
    /\ place > 307 => Recorded("LendingPoolConfigurator")
    /\ place > 308 => Recorded("StableAndVariableTokensHelper")
    /\ place > 309 => Recorded("ATokensAndRatesHelper")
    /\ place > 707 => \A s \in Reserves :
         /\ found(nameOf(reservesParams[s]))
         /\ db[nameOf(reservesParams[s])] = ownStrategy(reservesParams[s], m)

\* What is set in the provider.
ProviderAt ==
    /\ place > 204 => m \in registered[registry]
    /\ place > 206 => market.emergency
    /\ place > 303 => market.pool
    /\ place > 306 => market.configurator
    /\ place > 408 => market.priceOracle
    /\ place > 409 => market.rateOracle = run.oracle
    /\ place > 718 => market.manager
    /\ place > 721 => target.pool = "Moola" \/ market.gateway

OracleAt ==
    /\ place > 403 => run.oracle \in 1 .. Len(oracles)
    /\ place = 406 => \A i \in 1 .. Len(rateSymbols) :
         i <= run.chunk * ratesChunks => rateSymbols[i] \in DOMAIN oracles[run.oracle].rates
    /\ place > 406 => \A i \in 1 .. Len(rateSymbols) :
         rateSymbols[i] \in DOMAIN oracles[run.oracle].rates
    /\ place > 407 => oracles[run.oracle].owner = Deployer

\* Who has the admin's rights, and what is listed and has its terms.
ListingAt ==
    /\ place \in 204 .. 205 => market.admin = NoOne
    /\ place > 203 => \A s \in DOMAIN market.listed : market.listed[s] = ownStrategy(reservesParams[s], m)
    /\ place \in 704 .. 714 => run.admin = market.admin
    /\ place \in 709 .. 710 => run.inputs = config.order
    /\ place = 710 =>
         /\ run.chunk * initChunks < Len(run.inputs)
         /\ \A i \in 1 .. Len(run.inputs) :
              i <= run.chunk * initChunks => run.inputs[i] \in DOMAIN market.listed
    /\ place > 710 => DOMAIN market.listed = Reserves
    /\ place \in 711 .. 714 => market.admin = Deployer /\ DOMAIN market.terms = {}
    /\ place \in 714 .. 715 =>
         /\ \A i \in 1 .. Len(run.inputs) : run.inputs[i] \in Termed
         /\ \A s \in Termed : \E i \in 1 .. Len(run.inputs) : run.inputs[i] = s
    /\ place \in 715 .. 716 => market.admin = m /\ run.admin = Deployer
    /\ place = 715 => \A i \in 1 .. Len(run.inputs) :
         i <= run.chunk * enableChunks => run.inputs[i] \in DOMAIN market.terms
    /\ place > 715 => DOMAIN market.terms = Termed
    /\ place > 716 => market.admin = Deployer

IInv == RunOK /\ ChainOK /\ Budget /\ BookAt /\ ProviderAt /\ OracleAt /\ ListingAt

-----------------------------------------------------------------------------
(* What a step changes on the chain and in the address book.                 *)

\* s and one element more; s with another n-th element.
Grown(s, q, e) ==
    /\ IsSequence(q) /\ Len(q) = Len(s) + 1 /\ q[Len(s) + 1] = e
    /\ \A i \in 1 .. Len(s) : q[i] = s[i]
Updated(s, q, n, e) ==
    /\ IsSequence(q) /\ Len(q) = Len(s) /\ q[n] = e
    /\ \A i \in 1 .. Len(s) : i # n => q[i] = s[i]

\* Every sequence of the library is one here.
LEMMA SeqIsSequence ==
    ASSUME NEW T, NEW s \in Seq(T)
    PROVE  IsSequence(s)
BY DEF IsSequence

\* Append adds one element at the end.
LEMMA AppendIs ==
    ASSUME NEW s, IsSequence(s), NEW e, NEW q, q = Append(s, e)
    PROVE  Grown(s, q, e) /\ Len(s) \in Nat
<1> DEFINE T == {s[i] : i \in 1 .. Len(s)} \union {e}
<1>1. s \in Seq(T) /\ Len(s) \in Nat BY DEF IsSequence
<1>2. e \in T OBVIOUS
<1> HIDE DEF T
<1>3. Append(s, e) \in Seq(T) BY <1>1, <1>2
<1>4. IsSequence(Append(s, e)) BY <1>3, SeqIsSequence
<1> QED BY <1>1, <1>2, <1>4, AppendProperties DEF Grown

\* A sequence with one element replaced.
LEMMA ExceptIs ==
    ASSUME NEW s, IsSequence(s), NEW e, NEW n \in 1 .. Len(s), NEW q, q = [s EXCEPT ![n] = e]
    PROVE  Updated(s, q, n, e) /\ Len(s) \in Nat
<1> DEFINE T == {s[i] : i \in 1 .. Len(s)} \union {e}
<1>1. s \in Seq(T) /\ Len(s) \in Nat BY DEF IsSequence
<1>2. e \in T OBVIOUS
<1> HIDE DEF T
<1>3. [s EXCEPT ![n] = e] \in Seq(T) BY <1>1, <1>2, ExceptSeq
<1>4. IsSequence([s EXCEPT ![n] = e]) BY <1>3, SeqIsSequence
<1> QED BY <1>1, <1>2, <1>4, ExceptSeq DEF Updated

\* over has the new value where there is one and the old value elsewhere.
LEMMA OverIs ==
    ASSUME NEW new, NEW old
    PROVE  /\ DOMAIN over(new, old) = DOMAIN new \union DOMAIN old
           /\ \A x \in DOMAIN new : over(new, old)[x] = new[x]
           /\ \A x \in DOMAIN old \ DOMAIN new : over(new, old)[x] = old[x]
BY DEF over

\* An entry that the step leaves as it is.
Kept(c) == found(c) => c \in DOMAIN db' /\ db'[c] = db[c]

\* An entry of the address book replaces that contract's, and no other.
LEMMA EntryIs ==
    ASSUME NEW c, NEW address, db' = inBook(entry(c, address))
    PROVE  /\ c \in DOMAIN db' /\ db'[c] = address
           /\ \A x : x # c => Kept(x) /\ (x \in DOMAIN db' <=> found(x))
<1>1. DOMAIN entry(c, address) = {c} /\ entry(c, address)[c] = address BY DEF entry
<1> DEFINE new == entry(c, address)
<1>2. db' = over(new, db) BY DEF inBook
<1> HIDE DEF new
<1>3. /\ DOMAIN db' = DOMAIN new \union DOMAIN db
      /\ \A x \in DOMAIN new : db'[x] = new[x]
      /\ \A x \in DOMAIN db \ DOMAIN new : db'[x] = db[x]
  BY <1>2 DEF over
<1>4. DOMAIN new = {c} /\ new[c] = address BY <1>1 DEF new
<1>5. ASSUME NEW x, x # c PROVE Kept(x) /\ (x \in DOMAIN db' <=> found(x))
  BY <1>3, <1>4, <1>5 DEF Kept, found
<1> QED BY <1>3, <1>4, <1>5

\* An address book that stays the same names the same addresses.
LEMMA UnchangedBook ==
    ASSUME db' = db
    PROVE  /\ \A x : Kept(x) /\ (x \in DOMAIN db' <=> found(x))
           /\ m' = m /\ configurator' = configurator /\ helper' = helper
           /\ rateHelper' = rateHelper
BY DEF Kept, found, m, configurator, helper, rateHelper

\* The market in use.
LEMMA MarketInUse ==
    ASSUME RunOK, ChainOK, BookAt, place > 203
    PROVE  /\ found(Provider) /\ m \in 1 .. Len(markets) /\ m = Len(markets) /\ m \in Nat \ {0}
           /\ Len(markets) \in Nat
<1>1. found(Provider) BY DEF BookAt
<1>2. Len(markets) \in Nat BY DEF ChainOK, IsSequence
<1>3. m = Len(markets) /\ Len(markets) # 0 BY <1>1 DEF ChainOK, BookOK
<1> QED BY <1>1, <1>2, <1>3

-----------------------------------------------------------------------------
(* What a step leaves as it is.                                              *)

\* The configuration and what is read from it depend on the target alone.
LEMMA SameConfig ==
    ASSUME run'.target = run.target
    PROVE  /\ config' = config /\ reservesParams' = reservesParams /\ Reserves' = Reserves
           /\ Termed' = Termed /\ rateSymbols' = rateSymbols /\ target' = target
           /\ \A c : Configured(c)' = Configured(c)
<1>1. config' = config /\ reservesParams' = reservesParams /\ Reserves' = Reserves
      /\ target' = target
  BY SameTarget
<1>2. Termed' = Termed BY <1>1 DEF Termed, HasTerms
<1>3. rateSymbols' = rateSymbols BY <1>1 DEF rateSymbols
<1>4. ASSUME NEW c PROVE Configured(c)' = Configured(c) BY <1>1 DEF Configured
<1> QED BY <1>1, <1>2, <1>3, <1>4

\* ChainOK when the chain and the address book stay the same.
LEMMA ChainFrame ==
    ASSUME ChainOK, UNCHANGED chain, db' = db, run'.target = run.target,
           run'.kind = "tokens" => found(Provider) /\ found("LendingPoolConfigurator")
    PROVE  ChainOK'
<1>1. markets' = markets /\ oracles' = oracles /\ registered' = registered BY DEF chain
<1>2. config' = config /\ reservesParams' = reservesParams /\ Reserves' = Reserves
      /\ Termed' = Termed
  BY SameConfig
<1>3. MarketsOK' BY <1>1, <1>2 DEF ChainOK, MarketsOK
<1>4. OraclesOK' BY <1>1, <1>2 DEF ChainOK, OraclesOK
<1>5. BookOK' BY <1>1, <1>2 DEF ChainOK, BookOK, found, m, configurator, Configured
<1>6. IsSequence(markets') /\ IsSequence(oracles') /\ IsSequence(registered')
  BY <1>1 DEF ChainOK
<1> QED BY <1>3, <1>4, <1>5, <1>6 DEF ChainOK

\* Budget when no market is added and no place before the provider's deployment is reached.
LEMMA BudgetStays ==
    ASSUME Budget, Goes, Len(markets) \in Nat, Len(markets') = Len(markets), started' = started,
           \/ faults' = faults /\ (0 < place' /\ place' <= 203 => 0 < place /\ place <= 203)
           \/ faults' = faults + 1 /\ faults < target.faults
    PROVE  Budget'
<1>1. target' = target BY SameConfig DEF Goes
<1>2. target.migrations \in Nat /\ target.faults \in Nat
  BY ConfigOK DEF Goes, RunOK, IsRun
<1>3. place \in Nat /\ place' \in Nat BY DEF Goes
<1> QED BY <1>1, <1>2, <1>3 DEF Budget

\* Budget after a move that keeps the number of markets.
LEMMA BudgetFrame ==
    ASSUME Budget, Moves, Len(markets) \in Nat, Len(markets') = Len(markets), started' = started,
           \/ faults' = faults /\ (0 < place' /\ place' <= 203 => 0 < place /\ place <= 203)
           \/ faults' = faults + 1 /\ faults < target.faults
    PROVE  Budget'
BY MovesGo, BudgetStays

\* BookAt when the entries in use are kept.
LEMMA BookAtStays ==
    ASSUME BookAt, Goes, db' = db,
           place' <= place \/ place \notin {202, 203, 304, 307, 308, 309, 707}
    PROVE  BookAt'
<1>1. /\ config' = config /\ reservesParams' = reservesParams /\ Reserves' = Reserves
      /\ \A c : Configured(c)' = Configured(c)
  BY SameConfig DEF Goes
<1>2. place \in Nat /\ place' \in Nat /\ Crossing(place, place') BY DEF Goes, Crosses
<1>3. /\ \A c : found(c)' = found(c)
      /\ \A c : Recorded(c)' = Recorded(c)
      /\ m' = m
  BY DEF found, Recorded, m
<1>4. /\ place' > 202 => place > 202
      /\ place' > 203 => place > 203
      /\ place' > 304 => place > 304
      /\ place' > 307 => place > 307
      /\ place' > 308 => place > 308
      /\ place' > 309 => place > 309
      /\ place' > 707 => place > 707
  BY <1>2 DEF Crossing
<1>5. place' > 707 => \A s \in Reserves :
         /\ found(nameOf(reservesParams[s]))'
         /\ db'[nameOf(reservesParams'[s])] = ownStrategy(reservesParams'[s], m')
  BY <1>1, <1>3, <1>4 DEF BookAt, found
<1> QED BY <1>1, <1>3, <1>4, <1>5 DEF BookAt

\* BookAt after a move with the same address book.
LEMMA BookAtFrame ==
    ASSUME BookAt, Moves, db' = db,
           place' <= place \/ place \notin {202, 203, 304, 307, 308, 309, 707}
    PROVE  BookAt'
BY MovesGo, BookAtStays

\* The settings of a provider.
SameFlags(r, q) ==
    /\ q.emergency = r.emergency /\ q.pool = r.pool /\ q.configurator = r.configurator
    /\ q.priceOracle = r.priceOracle /\ q.rateOracle = r.rateOracle
    /\ q.manager = r.manager /\ q.gateway = r.gateway

\* ProviderAt when the settings of the market are kept.
LEMMA ProviderStays ==
    ASSUME ProviderAt, Goes, place > 409 => run'.oracle = run.oracle,
           place > 203 => /\ m' = m /\ registry' = registry /\ SameFlags(market, market')
                          /\ registered[registry] \subseteq registered'[registry],
           \/ place' <= place
           \/ place \notin {203, 204, 206, 303, 306, 408, 409, 718, 719, 721}
           \/ place = 719 /\ NextPlace(place, place')
    PROVE  ProviderAt'
<1>1. target' = target BY SameConfig DEF Goes
<1>2. place \in Nat /\ place' \in Nat /\ Crossing(place, place') BY DEF Goes, Crosses
<1>3. /\ place' > 204 => place > 204
      /\ place' > 206 => place > 206
      /\ place' > 303 => place > 303
      /\ place' > 306 => place > 306
      /\ place' > 408 => place > 408
      /\ place' > 409 => place > 409
      /\ place' > 718 => place > 718
  <2>1. CASE place = 719 BY <1>2, <2>1 DEF Crossing
  <2>2. CASE place # 719 BY <1>2, <2>2 DEF Crossing
  <2> QED BY <2>1, <2>2
<1>4. place' > 721 => place > 721 \/ target.pool = "Moola"
  <2>1. CASE place = 719 /\ NextPlace(place, place') BY <2>1 DEF NextPlace
  <2>2. CASE place' <= place \/ place \notin {203, 204, 206, 303, 306, 408, 409, 718, 719, 721}
    BY <1>2, <2>2 DEF Crossing
  <2> QED BY <2>1, <2>2
<1>9. place' > 409 => run'.oracle = run.oracle BY <1>3
<1>5. place' > 204 => place > 203 BY <1>2, <1>3
<1>6. place' > 204 => SameFlags(market, market') BY <1>5
<1>7. place' > 204 => m' \in registered'[registry'] BY <1>3, <1>5 DEF ProviderAt
<1>8. /\ place' > 206 => place' > 204
      /\ place' > 303 => place' > 204
      /\ place' > 306 => place' > 204
      /\ place' > 408 => place' > 204
      /\ place' > 409 => place' > 204
      /\ place' > 718 => place' > 204
      /\ place' > 721 => place' > 204
  BY <1>2
<1> QED BY <1>1, <1>3, <1>4, <1>6, <1>7, <1>8, <1>9 DEF ProviderAt, SameFlags

\* ProviderAt after a move that keeps the settings of the market.
LEMMA ProviderFrame ==
    ASSUME ProviderAt, Moves,
           place > 203 => /\ m' = m /\ registry' = registry /\ SameFlags(market, market')
                          /\ registered[registry] \subseteq registered'[registry],
           place' <= place \/ place \notin {203, 204, 206, 303, 306, 408, 409, 718, 719, 721}
    PROVE  ProviderAt'
BY MovesGo, ProviderStays

\* OracleAt when the oracles are kept.
LEMMA OracleStays ==
    ASSUME OracleAt, Goes, place > 403 => run'.oracle = run.oracle,
           place > 403 => oracles' = oracles,
           place' = 406 => run'.chunk = 0,
           place' <= place \/ place \notin {403, 406, 407}
    PROVE  OracleAt'
<1>1. rateSymbols' = rateSymbols BY SameConfig DEF Goes
<1>2. /\ place \in Nat /\ place' \in Nat
      /\ Crossing(place, place') /\ CrossingIntoPart(place, place')
  BY DEF Goes, Crosses
<1>3. /\ place' > 403 => place > 403
      /\ place' > 406 => place > 406 /\ place > 403
      /\ place' > 407 => place > 407 /\ place > 403
  BY <1>2 DEF Crossing
<1>4. place' = 406 => \A i \in 1 .. Len(rateSymbols') :
         i <= run'.chunk * ratesChunks => rateSymbols'[i] \in DOMAIN oracles'[run'.oracle].rates
  <2> SUFFICES ASSUME place' = 406, NEW i \in 1 .. Len(rateSymbols')
               PROVE  ~ (i <= run'.chunk * ratesChunks)
    OBVIOUS
  <2>1. run'.chunk * ratesChunks = 0 BY DEF ratesChunks
  <2> QED BY <2>1
<1>8. place' > 403 => run'.oracle = run.oracle BY <1>3
<1>5. place' > 403 => run'.oracle \in 1 .. Len(oracles') BY <1>1, <1>3, <1>8 DEF OracleAt
<1>6. place' > 406 => \A i \in 1 .. Len(rateSymbols') :
         rateSymbols'[i] \in DOMAIN oracles'[run'.oracle].rates
  BY <1>1, <1>3, <1>8 DEF OracleAt
<1>7. place' > 407 => oracles'[run'.oracle].owner = Deployer BY <1>1, <1>3, <1>8 DEF OracleAt
<1> QED BY <1>4, <1>5, <1>6, <1>7 DEF OracleAt

\* OracleAt after a move that keeps the oracles.
LEMMA OracleFrame ==
    ASSUME OracleAt, Moves,
           place > 403 => oracles' = oracles,
           place' = 406 => run'.chunk = 0,
           place' <= place \/ place \notin {403, 406, 407}
    PROVE  OracleAt'
BY MovesGo, OracleStays

SameListing(r, q) == q.admin = r.admin /\ q.listed = r.listed /\ q.terms = r.terms

\* ListingAt when the admin, the listed reserves and the terms are kept.
LEMMA ListingStays ==
    ASSUME ListingAt, Goes,
           place > 703 => run'.admin = run.admin /\ run'.inputs = run.inputs,
           place > 203 => m' = m /\ SameListing(market, market'),
           place' \in {710, 715} => run'.chunk = 0,
           \/ place' <= place
           \/ place \notin {203, 205, 703, 708, 710, 713, 714, 715, 716}
    PROVE  ListingAt'
<1>1. /\ config' = config /\ reservesParams' = reservesParams /\ Reserves' = Reserves
      /\ Termed' = Termed
  BY SameConfig DEF Goes
<1>2. /\ place \in Nat /\ place' \in Nat
      /\ Crossing(place, place') /\ CrossingIntoPart(place, place')
  BY DEF Goes, Crosses
<1>3. place' > 203 => place > 203 /\ m' = m /\ SameListing(market, market')
  <2>1. place' > 203 => place > 203 BY <1>2 DEF Crossing
  <2> QED BY <2>1
<1>4. /\ place' > 710 => place > 710 /\ place' > 203
      /\ place' > 715 => place > 715 /\ place' > 203
      /\ place' > 716 => place > 716 /\ place' > 203
  BY <1>2 DEF Crossing
<1>5. /\ place' \in 204 .. 205 => place \in 204 .. 205 /\ place' > 203
      /\ place' \in 704 .. 714 => place \in 704 .. 714 /\ place' > 203
      /\ place' \in 709 .. 710 => place \in 709 .. 710 /\ place' > 203
      /\ place' = 710 => place' > 203 /\ place \in 709 .. 710
      /\ place' \in 711 .. 714 => place \in 711 .. 714 /\ place' > 203
      /\ place' \in 714 .. 715 => place \in 714 .. 715 /\ place' > 203
      /\ place' \in 715 .. 716 => place \in 715 .. 716 /\ place' > 203
      /\ place' = 715 => place' > 203
  BY <1>2 DEF CrossingIntoPart
<1>13. place' \in 704 .. 716 => run'.admin = run.admin /\ run'.inputs = run.inputs
  <2>1. place' \in 704 .. 716 => place > 703
    <3>1. place' \in 704 .. 714 \/ place' \in 715 .. 716 => place > 703 BY <1>5
    <3> QED BY <3>1
  <2> QED BY <2>1
<1>6. /\ place' \in 204 .. 205 => market'.admin = NoOne
      /\ place' > 203 => \A s \in DOMAIN market'.listed :
           market'.listed[s] = ownStrategy(reservesParams'[s], m')
      /\ place' \in 704 .. 714 => run'.admin = market'.admin
      /\ place' \in 709 .. 710 => run'.inputs = config'.order
  BY <1>1, <1>3, <1>5, <1>13 DEF ListingAt, SameListing
<1>7. place' = 710 =>
         /\ run'.chunk * initChunks < Len(run'.inputs)
         /\ \A i \in 1 .. Len(run'.inputs) :
              i <= run'.chunk * initChunks => run'.inputs[i] \in DOMAIN market'.listed
  <2> SUFFICES ASSUME place' = 710
               PROVE  /\ run'.chunk * initChunks < Len(run'.inputs)
                      /\ \A i \in 1 .. Len(run'.inputs) : ~ (i <= run'.chunk * initChunks)
    OBVIOUS
  <2>1. run'.chunk * initChunks = 0 BY DEF initChunks
  <2>2. run'.inputs = config.order BY <1>1, <1>5, <1>13 DEF ListingAt
  <2>3. config.order \in Seq(Reserves) /\ config.order # <<>>
    <3>1. run.target \in Targets
      <4>3. RunOK' /\ run'.target = run.target BY DEF Goes
      <4>1. IsRun(run') BY <4>3, Zenon DEF RunOK
      <4>2. run'.target \in Targets BY <4>1 DEF IsRun
      <4> QED BY <4>2, <4>3
    <3>2. WellFormed(config) BY <3>1, ConfigOK
    <3> QED BY <3>2 DEF WellFormed, Reserves, reservesParams
  <2>4. Len(config.order) \in Nat /\ Len(config.order) # 0 BY <2>3, EmptySeq
  <2> QED BY <2>1, <2>2, <2>4
<1>8. place' \in 714 .. 715 =>
           /\ \A i \in 1 .. Len(run'.inputs) : run'.inputs[i] \in Termed'
           /\ \A s \in Termed' : \E i \in 1 .. Len(run'.inputs) : run'.inputs[i] = s
  <2> SUFFICES ASSUME place' \in 714 .. 715
               PROVE  /\ \A i \in 1 .. Len(run'.inputs) : run'.inputs[i] \in Termed'
                      /\ \A s \in Termed' : \E i \in 1 .. Len(run'.inputs) : run'.inputs[i] = s
    OBVIOUS
  <2>1. place \in 714 .. 715 /\ place' \in 704 .. 716 BY <1>5
  <2>2. run'.inputs = run.inputs BY <1>13, <2>1
  <2>3. /\ \A i \in 1 .. Len(run.inputs) : run.inputs[i] \in Termed
        /\ \A s \in Termed : \E i \in 1 .. Len(run.inputs) : run.inputs[i] = s
    BY <2>1 DEF ListingAt
  <2> QED BY <1>1, <2>2, <2>3
<1>11. /\ place' > 710 => DOMAIN market'.listed = Reserves'
       /\ place' \in 711 .. 714 => market'.admin = Deployer /\ DOMAIN market'.terms = {}
  BY <1>1, <1>3, <1>4, <1>5 DEF ListingAt, SameListing
<1>12. place' \in 715 .. 716 => market'.admin = m' /\ run'.admin = Deployer
  <2> SUFFICES ASSUME place' \in 715 .. 716
               PROVE  market'.admin = m' /\ run'.admin = Deployer
    OBVIOUS
  <2>1. place \in 715 .. 716 /\ place' > 203 BY <1>5
  <2>2. market.admin = m /\ run.admin = Deployer BY <2>1 DEF ListingAt
  <2> QED BY <1>3, <1>13, <2>1, <2>2 DEF SameListing
<1>9. place' = 715 => \A i \in 1 .. Len(run'.inputs) :
         i <= run'.chunk * enableChunks => run'.inputs[i] \in DOMAIN market'.terms
  <2> SUFFICES ASSUME place' = 715, NEW i \in 1 .. Len(run'.inputs)
               PROVE  ~ (i <= run'.chunk * enableChunks)
    OBVIOUS
  <2>1. run'.chunk * enableChunks = 0 BY DEF enableChunks
  <2> QED BY <2>1
<1>10. /\ place' > 715 => DOMAIN market'.terms = Termed'
       /\ place' > 716 => market'.admin = Deployer
  BY <1>1, <1>3, <1>4 DEF ListingAt, SameListing
<1> QED BY <1>6, <1>7, <1>8, <1>9, <1>10, <1>11, <1>12 DEF ListingAt

\* ListingAt after a move that keeps them.
LEMMA ListingFrame ==
    ASSUME ListingAt, Moves,
           place > 203 => m' = m /\ SameListing(market, market'),
           place' \in {710, 715} => run'.chunk = 0,
           \/ place' <= place
           \/ place \notin {203, 205, 703, 708, 710, 713, 714, 715, 716}
    PROVE  ListingAt'
BY MovesGo, ListingStays

-----------------------------------------------------------------------------
(* The setters of the provider.                                              *)

\* A running migration has a place.
LEMMA MigrationIsSomewhere ==
    ASSUME RunOK, Migrating
    PROVE  place > 0 /\ place \in Nat
<1>1. Head(run.tasks) \in MigrationTasks /\ place = Rank(Head(run.tasks)) + run.pc
      /\ run.pc \in 1 .. Size(Head(run.tasks))
  BY PlaceInTask DEF Size
<1>2. Rank(Head(run.tasks)) \in Nat /\ Size(Head(run.tasks)) \in Nat
  BY <1>1, FirstsOfTasks, SizesAreNat
<1> QED BY <1>1, <1>2

\* Only four kinds of step occur in full:initialize-tokens.
LEMMA OnlyInMigrations ==
    ASSUME RunOK, Running, step.do \notin {"find", "read", "deploy", "batchInitReserve"}
    PROVE  Migrating
<1> SUFFICES ASSUME run.kind = "tokens" PROVE FALSE
  BY DEF Migrating
<1>1. /\ \A c : Find(c).do = "find" /\ Read(c).do = "read" /\ Deploy(c).do = "deploy"
      /\ \A f : Tx(f).do = f
  BY DEF Find, Read, Deploy, Tx, Step
<1>2. run.pc \in {1, 2, 3, 4, 5, 6} BY StepsOfTokens
<1> QED BY <1>1, <1>2, StepsOfTokens

\* The registry and the market of the address book when the book stays the same.
LEMMA SameRegistry ==
    ASSUME db' = db, run'.target = run.target
    PROVE  m' = m /\ registry' = registry
<1>1. Configured("ProviderRegistry")' = Configured("ProviderRegistry") BY SameConfig
<1> QED BY <1>1 DEF m, registry

RowOK(r) ==
    /\ IsMarket(r)
    /\ DOMAIN r.listed \subseteq Reserves \intersect config.assets
    /\ DOMAIN r.terms \subseteq Termed
    /\ DOMAIN r.terms # {} => DOMAIN r.listed = Reserves
    /\ \A s \in DOMAIN r.terms : r.terms[s] = termsOf(reservesParams[s])

\* One market of the chain has changed.
LEMMA ChainOfMarket ==
    ASSUME ChainOK, NEW n \in 1 .. Len(markets), NEW r, RowOK(r),
           markets' = [markets EXCEPT ![n] = r], UNCHANGED <<db, registered, oracles>>,
           run'.target = run.target, run'.kind = run.kind
    PROVE  ChainOK' /\ Updated(markets, markets', n, r) /\ Len(markets) \in Nat
<1>1. Updated(markets, markets', n, r) /\ Len(markets) \in Nat
  BY ExceptIs DEF ChainOK
<1>2. config' = config /\ reservesParams' = reservesParams /\ Reserves' = Reserves
      /\ Termed' = Termed
  BY SameConfig
<1>3. \A i \in 1 .. Len(markets') : RowOK(markets'[i])
  <2>1. \A i \in 1 .. Len(markets) : RowOK(markets[i]) BY DEF ChainOK, MarketsOK, RowOK
  <2>2. \A i \in 1 .. Len(markets') : i = n \/ markets'[i] = markets[i] BY <1>1 DEF Updated
  <2>3. Len(markets') = Len(markets) /\ markets'[n] = r BY <1>1 DEF Updated
  <2> QED BY <2>1, <2>2, <2>3
<1>4. MarketsOK' BY <1>2, <1>3 DEF MarketsOK, RowOK
<1>5. OraclesOK' BY <1>2 DEF ChainOK, OraclesOK
<1>6. BookOK'
  BY <1>1, <1>2 DEF ChainOK, BookOK, found, m, configurator, Configured, Updated
<1>7. IsSequence(markets') /\ IsSequence(oracles') /\ IsSequence(registered')
  BY <1>1 DEF ChainOK, Updated
<1> QED BY <1>1, <1>4, <1>5, <1>6, <1>7 DEF ChainOK

Setters == {205, 206, 303, 306, 408, 409, 714, 716, 718, 721}

\* What a setter of the provider keeps, whatever it sets.
LEMMA SetterKeeps ==
    ASSUME IInv, Migrating, place \in Setters, NEW r, IsMarket(r),
           r.listed = market.listed, r.terms = market.terms,
           markets' = [markets EXCEPT ![m] = r], Mined,
           UNCHANGED <<db, registered, oracles, started>>
    PROVE  /\ Moves /\ run'.chunk = 0 /\ (NextPlace(place, place') \/ Falls)
           /\ m' = m /\ market' = r /\ registry' = registry /\ place > 203
           /\ m \in 1 .. Len(markets) /\ Updated(markets, markets', m, r)
           /\ ChainOK' /\ Budget' /\ BookAt' /\ OracleAt'
<1>1. RunOK /\ ChainOK /\ Budget /\ BookAt /\ OracleAt BY DEF IInv
<1>2. Running /\ run.kind # "tokens" BY DEF Migrating
<1>3. /\ Moves /\ run'.chunk = 0 /\ (NextPlace(place, place') \/ Falls)
      /\ \/ faults' = faults /\ NextPlace(place, place')
         \/ faults' = faults + 1 /\ faults < target.faults
  BY <1>1, <1>2, MinedMoves
<1>4. run'.target = run.target /\ run'.kind = run.kind BY <1>3 DEF Moves
<1>5. m' = m /\ registry' = registry BY <1>4, SameRegistry
<1>6. place > 203 BY DEF Setters
<1>7. m \in 1 .. Len(markets) BY <1>1, <1>6, MarketInUse
<1>8. RowOK(r)
  <2>1. RowOK(market) BY <1>1, <1>7 DEF ChainOK, MarketsOK, RowOK, market
  <2> QED BY <2>1 DEF RowOK
<1>9. ChainOK' /\ Updated(markets, markets', m, r) /\ Len(markets) \in Nat
  BY <1>1, <1>4, <1>7, <1>8, ChainOfMarket
<1>10. market' = r BY <1>5, <1>9 DEF market, Updated
<1>11. Budget'
  <2>1. NextPlace(place, place') => ~ (place' <= 203)
    <3>1. /\ place \in Places /\ place \in Nat /\ place' \in Nat
      BY <1>3 DEF Moves
    <3>2. NextPlace(place, place') => place' > place BY <3>1, NextIsLater
    <3> QED BY <1>6, <3>1, <3>2
  <2>2. Len(markets') = Len(markets) BY <1>9 DEF Updated
  <2> QED BY <1>1, <1>3, <1>9, <2>1, <2>2, BudgetFrame
<1>12. BookAt'
  <2>1. place \notin {202, 203, 304, 307, 308, 309, 707} BY DEF Setters
  <2> QED BY <1>1, <1>3, <2>1, BookAtFrame
<1>13. OracleAt'
  <2>1. place \notin {403, 406, 407} BY DEF Setters
  <2> QED BY <1>1, <1>3, <2>1, OracleFrame
<1> QED BY <1>3, <1>5, <1>6, <1>7, <1>9, <1>10, <1>11, <1>12, <1>13

\* A transaction of a migration has its place and a market.
LEMMA TransactionAt ==
    ASSUME IInv, NEW f, At(f), f \in {"setGenesisAdmin", "setEmergencyAdmin", "setLendingPoolImpl",
             "setLendingPoolConfiguratorImpl", "setPriceOracle", "setLendingRateOracle",
             "setTemporalAdmin", "setAdminBack", "configureReserves",
             "setLendingPoolCollateralManager", "authorizeLendingPool"}
    PROVE  /\ Migrating /\ m \in 1 .. Len(markets) /\ RowOK(market) /\ IsMarket(market)
           /\ f = "setGenesisAdmin" => place = 205
           /\ f = "setEmergencyAdmin" => place = 206
           /\ f = "setLendingPoolImpl" => place = 303
           /\ f = "setLendingPoolConfiguratorImpl" => place = 306
           /\ f = "setPriceOracle" => place = 408
           /\ f = "setLendingRateOracle" => place = 409
           /\ f = "setTemporalAdmin" => place = 714
           /\ f = "configureReserves" => place = 715
           /\ f = "setAdminBack" => place = 716
           /\ f = "setLendingPoolCollateralManager" => place = 718
           /\ f = "authorizeLendingPool" => place = 721
<1>1. RunOK /\ ChainOK /\ BookAt /\ Running /\ step.do = f BY DEF IInv, At
<1>2. Migrating BY <1>1, OnlyInMigrations
<1>3. /\ f = "setGenesisAdmin" => place = 205
      /\ f = "setEmergencyAdmin" => place = 206
      /\ f = "setLendingPoolImpl" => place = 303
      /\ f = "setLendingPoolConfiguratorImpl" => place = 306
      /\ f = "setPriceOracle" => place = 408
      /\ f = "setLendingRateOracle" => place = 409
      /\ f = "setTemporalAdmin" => place = 714
      /\ f = "configureReserves" => place = 715
      /\ f = "setAdminBack" => place = 716
      /\ f = "setLendingPoolCollateralManager" => place = 718
      /\ f = "authorizeLendingPool" => place = 721
  BY <1>1, <1>2, PlacesOfSteps
<1>4. place > 203 BY <1>3
<1>5. m \in 1 .. Len(markets) BY <1>1, <1>4, MarketInUse
<1>6. RowOK(market) BY <1>1, <1>5 DEF ChainOK, MarketsOK, RowOK, market
<1>7. IsMarket(market) BY <1>6 DEF RowOK
<1> QED BY <1>2, <1>3, <1>5, <1>6, <1>7

\* A setting of the provider that is not its admin.
LEMMA SettingKeeps ==
    ASSUME IInv, NEW r, NEW f, SetInProvider(f, r), IsMarket(r), SameListing(market, r),
           f \in {"setEmergencyAdmin", "setLendingPoolImpl", "setLendingPoolConfiguratorImpl",
                  "setPriceOracle", "setLendingRateOracle", "setLendingPoolCollateralManager",
                  "authorizeLendingPool"}
    PROVE  /\ RunOK' /\ ChainOK' /\ Budget' /\ BookAt' /\ OracleAt' /\ ListingAt'
           /\ NextPlace(place, place') \/ Falls
           /\ m' \in registered'[registry'] /\ market' = r
           /\ run'.oracle = run.oracle /\ target' = target
           /\ place \in Nat /\ place' \in Nat /\ place \in Places
<1>1. /\ At(f) /\ markets' = [markets EXCEPT ![m] = r] /\ Mined
      /\ UNCHANGED <<db, registered, oracles, started>>
  BY DEF SetInProvider
<1>2. Migrating /\ place \in {206, 303, 306, 408, 409, 718, 721} BY <1>1, TransactionAt
<1>3. place \in Setters BY <1>2 DEF Setters
<1>4. /\ Moves /\ run'.chunk = 0 /\ (NextPlace(place, place') \/ Falls)
      /\ m' = m /\ market' = r /\ registry' = registry /\ place > 203
      /\ ChainOK' /\ Budget' /\ BookAt' /\ OracleAt'
  <2>1. r.listed = market.listed /\ r.terms = market.terms BY DEF SameListing
  <2>2. markets' = [markets EXCEPT ![m] = r] /\ Mined BY <1>1
  <2>3. UNCHANGED <<db, registered, oracles, started>> BY <1>1
  <2>4. Migrating BY <1>2
  <2> QED BY <1>3, <2>1, <2>2, <2>3, <2>4, SetterKeeps
<1>5. ListingAt'
  <2>1. place \notin {203, 205, 703, 708, 710, 713, 714, 715, 716} BY <1>2
  <2> QED BY <1>4, <2>1, ListingFrame DEF IInv
<1>6. m \in registered[registry]
  <2>1. place > 204 BY <1>2
  <2> QED BY <2>1 DEF IInv, ProviderAt
<1>7. RunOK' /\ run'.oracle = run.oracle /\ target' = target
      /\ place \in Nat /\ place' \in Nat /\ place \in Places
  BY <1>4, SameConfig DEF Moves
<1> QED BY <1>1, <1>4, <1>5, <1>6, <1>7

\* Where a step of the provider's setters leads to.
LEMMA AfterSetter ==
    ASSUME place \in Places, place \in Nat, place' \in Nat, NextPlace(place, place') \/ Falls
    PROVE  /\ place = 206 => place' <= 301
           /\ place = 303 => place' <= 304
           /\ place = 306 => place' <= 307
           /\ place = 408 => place' <= 409
           /\ place = 409 => place' <= 501
           /\ place = 718 => place' <= 719
<1>1. CASE NextPlace(place, place') BY <1>1 DEF NextPlace
<1>2. CASE Falls BY <1>2 DEF Falls
<1> QED BY <1>1, <1>2

\* A market with one field changed.
LEMMA AdminChanged ==
    ASSUME NEW r, IsMarket(r), NEW v, NEW q, q = [r EXCEPT !.admin = v]
    PROVE  /\ IsMarket(q)
           /\ q.admin = v /\ q.emergency = r.emergency /\ q.pool = r.pool
           /\ q.configurator = r.configurator /\ q.priceOracle = r.priceOracle
           /\ q.rateOracle = r.rateOracle /\ q.manager = r.manager
           /\ q.gateway = r.gateway /\ q.listed = r.listed /\ q.terms = r.terms
<1>1. q = [admin |-> v, emergency |-> r.emergency, pool |-> r.pool,
           configurator |-> r.configurator, priceOracle |-> r.priceOracle,
           rateOracle |-> r.rateOracle, manager |-> r.manager, gateway |-> r.gateway,
           listed |-> r.listed, terms |-> r.terms]
  BY DEF IsMarket
<1> QED BY <1>1 DEF IsMarket

\* A market with its emergency admin set.
LEMMA EmergencyChanged ==
    ASSUME NEW r, IsMarket(r), NEW v, NEW q, q = [r EXCEPT !.emergency = v]
    PROVE  /\ IsMarket(q)
           /\ q.emergency = v /\ q.admin = r.admin /\ q.pool = r.pool
           /\ q.configurator = r.configurator /\ q.priceOracle = r.priceOracle
           /\ q.rateOracle = r.rateOracle /\ q.manager = r.manager
           /\ q.gateway = r.gateway /\ q.listed = r.listed /\ q.terms = r.terms
<1>1. q = [admin |-> r.admin, emergency |-> v, pool |-> r.pool,
           configurator |-> r.configurator, priceOracle |-> r.priceOracle,
           rateOracle |-> r.rateOracle, manager |-> r.manager, gateway |-> r.gateway,
           listed |-> r.listed, terms |-> r.terms]
  BY DEF IsMarket
<1> QED BY <1>1 DEF IsMarket

\* A market with its pool set.
LEMMA PoolChanged ==
    ASSUME NEW r, IsMarket(r), NEW v, NEW q, q = [r EXCEPT !.pool = v]
    PROVE  /\ IsMarket(q)
           /\ q.pool = v /\ q.admin = r.admin /\ q.emergency = r.emergency
           /\ q.configurator = r.configurator /\ q.priceOracle = r.priceOracle
           /\ q.rateOracle = r.rateOracle /\ q.manager = r.manager
           /\ q.gateway = r.gateway /\ q.listed = r.listed /\ q.terms = r.terms
<1>1. q = [admin |-> r.admin, emergency |-> r.emergency, pool |-> v,
           configurator |-> r.configurator, priceOracle |-> r.priceOracle,
           rateOracle |-> r.rateOracle, manager |-> r.manager, gateway |-> r.gateway,
           listed |-> r.listed, terms |-> r.terms]
  BY DEF IsMarket
<1> QED BY <1>1 DEF IsMarket

\* A market with its configurator set.
LEMMA ConfiguratorChanged ==
    ASSUME NEW r, IsMarket(r), NEW v, NEW q, q = [r EXCEPT !.configurator = v]
    PROVE  /\ IsMarket(q)
           /\ q.configurator = v /\ q.admin = r.admin /\ q.emergency = r.emergency
           /\ q.pool = r.pool /\ q.priceOracle = r.priceOracle
           /\ q.rateOracle = r.rateOracle /\ q.manager = r.manager
           /\ q.gateway = r.gateway /\ q.listed = r.listed /\ q.terms = r.terms
<1>1. q = [admin |-> r.admin, emergency |-> r.emergency, pool |-> r.pool,
           configurator |-> v, priceOracle |-> r.priceOracle, rateOracle |-> r.rateOracle,
           manager |-> r.manager, gateway |-> r.gateway, listed |-> r.listed,
           terms |-> r.terms]
  BY DEF IsMarket
<1> QED BY <1>1 DEF IsMarket

\* A market with its price oracle set.
LEMMA PriceOracleChanged ==
    ASSUME NEW r, IsMarket(r), NEW v, NEW q, q = [r EXCEPT !.priceOracle = v]
    PROVE  /\ IsMarket(q)
           /\ q.priceOracle = v /\ q.admin = r.admin /\ q.emergency = r.emergency
           /\ q.pool = r.pool /\ q.configurator = r.configurator
           /\ q.rateOracle = r.rateOracle /\ q.manager = r.manager
           /\ q.gateway = r.gateway /\ q.listed = r.listed /\ q.terms = r.terms
<1>1. q = [admin |-> r.admin, emergency |-> r.emergency, pool |-> r.pool,
           configurator |-> r.configurator, priceOracle |-> v, rateOracle |-> r.rateOracle,
           manager |-> r.manager, gateway |-> r.gateway, listed |-> r.listed,
           terms |-> r.terms]
  BY DEF IsMarket
<1> QED BY <1>1 DEF IsMarket

\* A market with its rate oracle set.
LEMMA RateOracleChanged ==
    ASSUME NEW r, IsMarket(r), NEW v, NEW q, q = [r EXCEPT !.rateOracle = v]
    PROVE  /\ IsMarket(q)
           /\ q.rateOracle = v /\ q.admin = r.admin /\ q.emergency = r.emergency
           /\ q.pool = r.pool /\ q.configurator = r.configurator
           /\ q.priceOracle = r.priceOracle /\ q.manager = r.manager
           /\ q.gateway = r.gateway /\ q.listed = r.listed /\ q.terms = r.terms
<1>1. q = [admin |-> r.admin, emergency |-> r.emergency, pool |-> r.pool,
           configurator |-> r.configurator, priceOracle |-> r.priceOracle,
           rateOracle |-> v, manager |-> r.manager, gateway |-> r.gateway,
           listed |-> r.listed, terms |-> r.terms]
  BY DEF IsMarket
<1> QED BY <1>1 DEF IsMarket

\* A market with its collateral manager set.
LEMMA ManagerChanged ==
    ASSUME NEW r, IsMarket(r), NEW v, NEW q, q = [r EXCEPT !.manager = v]
    PROVE  /\ IsMarket(q)
           /\ q.manager = v /\ q.admin = r.admin /\ q.emergency = r.emergency
           /\ q.pool = r.pool /\ q.configurator = r.configurator
           /\ q.priceOracle = r.priceOracle /\ q.rateOracle = r.rateOracle
           /\ q.gateway = r.gateway /\ q.listed = r.listed /\ q.terms = r.terms
<1>1. q = [admin |-> r.admin, emergency |-> r.emergency, pool |-> r.pool,
           configurator |-> r.configurator, priceOracle |-> r.priceOracle,
           rateOracle |-> r.rateOracle, manager |-> v, gateway |-> r.gateway,
           listed |-> r.listed, terms |-> r.terms]
  BY DEF IsMarket
<1> QED BY <1>1 DEF IsMarket

\* A market with its gateway authorised.
LEMMA GatewayChanged ==
    ASSUME NEW r, IsMarket(r), NEW v, NEW q, q = [r EXCEPT !.gateway = v]
    PROVE  /\ IsMarket(q)
           /\ q.gateway = v /\ q.admin = r.admin /\ q.emergency = r.emergency
           /\ q.pool = r.pool /\ q.configurator = r.configurator
           /\ q.priceOracle = r.priceOracle /\ q.rateOracle = r.rateOracle
           /\ q.manager = r.manager /\ q.listed = r.listed /\ q.terms = r.terms
<1>1. q = [admin |-> r.admin, emergency |-> r.emergency, pool |-> r.pool,
           configurator |-> r.configurator, priceOracle |-> r.priceOracle,
           rateOracle |-> r.rateOracle, manager |-> r.manager, gateway |-> v,
           listed |-> r.listed, terms |-> r.terms]
  BY DEF IsMarket
<1> QED BY <1>1 DEF IsMarket

\* A market with other listed reserves.
LEMMA ListedChanged ==
    ASSUME NEW r, IsMarket(r), NEW v, NEW q, q = [r EXCEPT !.listed = v]
    PROVE  /\ IsMarket(q)
           /\ q.listed = v /\ q.admin = r.admin /\ q.emergency = r.emergency
           /\ q.pool = r.pool /\ q.configurator = r.configurator
           /\ q.priceOracle = r.priceOracle /\ q.rateOracle = r.rateOracle
           /\ q.manager = r.manager /\ q.gateway = r.gateway /\ q.terms = r.terms
<1>1. q = [admin |-> r.admin, emergency |-> r.emergency, pool |-> r.pool,
           configurator |-> r.configurator, priceOracle |-> r.priceOracle,
           rateOracle |-> r.rateOracle, manager |-> r.manager, gateway |-> r.gateway,
           listed |-> v, terms |-> r.terms]
  BY DEF IsMarket
<1> QED BY <1>1 DEF IsMarket

\* A market with other terms.
LEMMA TermsChanged ==
    ASSUME NEW r, IsMarket(r), NEW v, NEW q, q = [r EXCEPT !.terms = v]
    PROVE  /\ IsMarket(q)
           /\ q.terms = v /\ q.admin = r.admin /\ q.emergency = r.emergency
           /\ q.pool = r.pool /\ q.configurator = r.configurator
           /\ q.priceOracle = r.priceOracle /\ q.rateOracle = r.rateOracle
           /\ q.manager = r.manager /\ q.gateway = r.gateway /\ q.listed = r.listed
<1>1. q = [admin |-> r.admin, emergency |-> r.emergency, pool |-> r.pool,
           configurator |-> r.configurator, priceOracle |-> r.priceOracle,
           rateOracle |-> r.rateOracle, manager |-> r.manager, gateway |-> r.gateway,
           listed |-> r.listed, terms |-> v]
  BY DEF IsMarket
<1> QED BY <1>1 DEF IsMarket

\* setEmergencyAdmin keeps the invariant.
LEMMA EmergencyAdminSet ==
    ASSUME IInv, SetEmergencyAdmin
    PROVE  IInv'
<1> DEFINE r == [market EXCEPT !.emergency = TRUE]
<1>1. SetInProvider("setEmergencyAdmin", r) BY DEF SetEmergencyAdmin
<1>2. At("setEmergencyAdmin") BY <1>1 DEF SetInProvider
<1>3. place = 206 /\ IsMarket(market) BY <1>2, TransactionAt
<1>4. IsMarket(r) /\ SameListing(market, r) /\ r.emergency
  <2>1. r = [market EXCEPT !.emergency = TRUE] OBVIOUS
  <2> HIDE DEF r
  <2>2. /\ IsMarket(r)
        /\ r.emergency = TRUE /\ r.admin = market.admin /\ r.listed = market.listed
        /\ r.terms = market.terms
    BY <1>3, <2>1, EmergencyChanged
  <2> QED BY <2>2, Zenon DEF SameListing
<1> HIDE DEF r
<1>5. /\ RunOK' /\ ChainOK' /\ Budget' /\ BookAt' /\ OracleAt' /\ ListingAt'
      /\ NextPlace(place, place') \/ Falls
      /\ m' \in registered'[registry'] /\ market' = r
      /\ place \in Nat /\ place' \in Nat /\ place \in Places
  BY <1>1, <1>4, SettingKeeps
<1>6. place' <= 301 BY <1>3, <1>5, AfterSetter
<1>7. ProviderAt' BY <1>4, <1>5, <1>6 DEF ProviderAt
<1> QED BY <1>5, <1>7 DEF IInv

\* setLendingPoolImpl keeps the invariant.
LEMMA LendingPoolSet ==
    ASSUME IInv, SetLendingPoolImpl
    PROVE  IInv'
<1> DEFINE r == [market EXCEPT !.pool = TRUE]
<1>1. SetInProvider("setLendingPoolImpl", r) BY DEF SetLendingPoolImpl
<1>2. At("setLendingPoolImpl") BY <1>1 DEF SetInProvider
<1>3. place = 303 /\ IsMarket(market) BY <1>2, TransactionAt
<1>4. IsMarket(r) /\ SameListing(market, r) /\ r.pool /\ r.emergency = market.emergency
  <2>1. r = [market EXCEPT !.pool = TRUE] OBVIOUS
  <2> HIDE DEF r
  <2>2. /\ IsMarket(r)
        /\ r.pool = TRUE /\ r.admin = market.admin /\ r.listed = market.listed
        /\ r.terms = market.terms /\ r.emergency = market.emergency
    BY <1>3, <2>1, PoolChanged
  <2> QED BY <2>2, Zenon DEF SameListing
<1>5. market.emergency BY <1>3 DEF IInv, ProviderAt
<1> HIDE DEF r
<1>6. /\ RunOK' /\ ChainOK' /\ Budget' /\ BookAt' /\ OracleAt' /\ ListingAt'
      /\ NextPlace(place, place') \/ Falls
      /\ m' \in registered'[registry'] /\ market' = r
      /\ place \in Nat /\ place' \in Nat /\ place \in Places
  BY <1>1, <1>4, SettingKeeps
<1>7. place' <= 304 BY <1>3, <1>6, AfterSetter
<1>10. r.emergency BY <1>4, <1>5, Zenon
<1>8. ProviderAt' BY <1>4, <1>5, <1>6, <1>7, <1>10 DEF ProviderAt
<1> QED BY <1>6, <1>8 DEF IInv

\* setLendingPoolConfiguratorImpl keeps the invariant.
LEMMA LendingPoolConfiguratorSet ==
    ASSUME IInv, SetLendingPoolConfiguratorImpl
    PROVE  IInv'
<1> DEFINE r == [market EXCEPT !.configurator = TRUE]
<1>1. SetInProvider("setLendingPoolConfiguratorImpl", r) BY DEF SetLendingPoolConfiguratorImpl
<1>2. At("setLendingPoolConfiguratorImpl") BY <1>1 DEF SetInProvider
<1>3. place = 306 /\ IsMarket(market) BY <1>2, TransactionAt
<1>4. /\ IsMarket(r) /\ SameListing(market, r) /\ r.configurator
      /\ r.emergency = market.emergency /\ r.pool = market.pool
  <2>1. r = [market EXCEPT !.configurator = TRUE] OBVIOUS
  <2> HIDE DEF r
  <2>2. /\ IsMarket(r)
        /\ r.configurator = TRUE /\ r.admin = market.admin /\ r.listed = market.listed
        /\ r.terms = market.terms /\ r.emergency = market.emergency
        /\ r.pool = market.pool
    BY <1>3, <2>1, ConfiguratorChanged
  <2> QED BY <2>2, Zenon DEF SameListing
<1>5. market.emergency /\ market.pool BY <1>3 DEF IInv, ProviderAt
<1> HIDE DEF r
<1>6. /\ RunOK' /\ ChainOK' /\ Budget' /\ BookAt' /\ OracleAt' /\ ListingAt'
      /\ NextPlace(place, place') \/ Falls
      /\ m' \in registered'[registry'] /\ market' = r
      /\ place \in Nat /\ place' \in Nat /\ place \in Places
  BY <1>1, <1>4, SettingKeeps
<1>7. place' <= 307 BY <1>3, <1>6, AfterSetter
<1>10. r.emergency /\ r.pool BY <1>4, <1>5, Zenon
<1>8. ProviderAt' BY <1>4, <1>5, <1>6, <1>7, <1>10 DEF ProviderAt
<1> QED BY <1>6, <1>8 DEF IInv

\* setPriceOracle keeps the invariant.
LEMMA PriceOracleSet ==
    ASSUME IInv, SetPriceOracle
    PROVE  IInv'
<1> DEFINE r == [market EXCEPT !.priceOracle = TRUE]
<1>1. SetInProvider("setPriceOracle", r) BY DEF SetPriceOracle
<1>2. At("setPriceOracle") BY <1>1 DEF SetInProvider
<1>3. place = 408 /\ IsMarket(market) BY <1>2, TransactionAt
<1>4. /\ IsMarket(r) /\ SameListing(market, r) /\ r.priceOracle
      /\ r.emergency = market.emergency /\ r.pool = market.pool
      /\ r.configurator = market.configurator
  <2>1. r = [market EXCEPT !.priceOracle = TRUE] OBVIOUS
  <2> HIDE DEF r
  <2>2. /\ IsMarket(r)
        /\ r.priceOracle = TRUE /\ r.admin = market.admin /\ r.listed = market.listed
        /\ r.terms = market.terms /\ r.emergency = market.emergency
        /\ r.pool = market.pool /\ r.configurator = market.configurator
    BY <1>3, <2>1, PriceOracleChanged
  <2> QED BY <2>2, Zenon DEF SameListing
<1>5. market.emergency /\ market.pool /\ market.configurator BY <1>3 DEF IInv, ProviderAt
<1> HIDE DEF r
<1>6. /\ RunOK' /\ ChainOK' /\ Budget' /\ BookAt' /\ OracleAt' /\ ListingAt'
      /\ NextPlace(place, place') \/ Falls
      /\ m' \in registered'[registry'] /\ market' = r
      /\ place \in Nat /\ place' \in Nat /\ place \in Places
  BY <1>1, <1>4, SettingKeeps
<1>7. place' <= 409 BY <1>3, <1>6, AfterSetter
<1>10. r.emergency /\ r.pool /\ r.configurator BY <1>4, <1>5, Zenon
<1>8. ProviderAt' BY <1>4, <1>5, <1>6, <1>7, <1>10 DEF ProviderAt
<1> QED BY <1>6, <1>8 DEF IInv

\* setLendingRateOracle keeps the invariant.
LEMMA LendingRateOracleSet ==
    ASSUME IInv, SetLendingRateOracle
    PROVE  IInv'
<1> DEFINE r == [market EXCEPT !.rateOracle = run.oracle]
<1>1. SetInProvider("setLendingRateOracle", r) BY DEF SetLendingRateOracle
<1>2. At("setLendingRateOracle") BY <1>1 DEF SetInProvider
<1>3. place = 409 /\ IsMarket(market) BY <1>2, TransactionAt
<1>4. /\ IsMarket(r) /\ SameListing(market, r) /\ r.rateOracle = run.oracle
      /\ r.emergency = market.emergency /\ r.pool = market.pool
      /\ r.configurator = market.configurator /\ r.priceOracle = market.priceOracle
  <2>1. r = [market EXCEPT !.rateOracle = run.oracle] OBVIOUS
  <2> HIDE DEF r
  <2>2. /\ IsMarket(r)
        /\ r.rateOracle = run.oracle /\ r.admin = market.admin
        /\ r.listed = market.listed /\ r.terms = market.terms
        /\ r.emergency = market.emergency /\ r.pool = market.pool
        /\ r.configurator = market.configurator /\ r.priceOracle = market.priceOracle
    BY <1>3, <2>1, RateOracleChanged
  <2> QED BY <2>2, Zenon DEF SameListing
<1>5. market.emergency /\ market.pool /\ market.configurator /\ market.priceOracle
  BY <1>3 DEF IInv, ProviderAt
<1> HIDE DEF r
<1>6. /\ RunOK' /\ ChainOK' /\ Budget' /\ BookAt' /\ OracleAt' /\ ListingAt'
      /\ NextPlace(place, place') \/ Falls
      /\ m' \in registered'[registry'] /\ market' = r /\ run'.oracle = run.oracle
      /\ place \in Nat /\ place' \in Nat /\ place \in Places
  BY <1>1, <1>4, SettingKeeps
<1>7. place' <= 501 BY <1>3, <1>6, AfterSetter
<1>10. r.emergency /\ r.pool /\ r.configurator /\ r.priceOracle BY <1>4, <1>5, Zenon
<1>8. ProviderAt' BY <1>4, <1>5, <1>6, <1>7, <1>10 DEF ProviderAt
<1> QED BY <1>6, <1>8 DEF IInv

\* setLendingPoolCollateralManager keeps the invariant.
LEMMA CollateralManagerSet ==
    ASSUME IInv, SetLendingPoolCollateralManager
    PROVE  IInv'
<1> DEFINE r == [market EXCEPT !.manager = TRUE]
<1>1. SetInProvider("setLendingPoolCollateralManager", r) BY DEF SetLendingPoolCollateralManager
<1>2. At("setLendingPoolCollateralManager") BY <1>1 DEF SetInProvider
<1>3. place = 718 /\ IsMarket(market) BY <1>2, TransactionAt
<1>4. /\ IsMarket(r) /\ SameListing(market, r) /\ r.manager
      /\ r.emergency = market.emergency /\ r.pool = market.pool
      /\ r.configurator = market.configurator /\ r.priceOracle = market.priceOracle
      /\ r.rateOracle = market.rateOracle
  <2>1. r = [market EXCEPT !.manager = TRUE] OBVIOUS
  <2> HIDE DEF r
  <2>2. /\ IsMarket(r)
        /\ r.manager = TRUE /\ r.admin = market.admin /\ r.listed = market.listed
        /\ r.terms = market.terms /\ r.emergency = market.emergency
        /\ r.pool = market.pool /\ r.configurator = market.configurator
        /\ r.priceOracle = market.priceOracle /\ r.rateOracle = market.rateOracle
    BY <1>3, <2>1, ManagerChanged
  <2> QED BY <2>2, Zenon DEF SameListing
<1>5. /\ market.emergency /\ market.pool /\ market.configurator /\ market.priceOracle
      /\ market.rateOracle = run.oracle
  BY <1>3 DEF IInv, ProviderAt
<1> HIDE DEF r
<1>6. /\ RunOK' /\ ChainOK' /\ Budget' /\ BookAt' /\ OracleAt' /\ ListingAt'
      /\ NextPlace(place, place') \/ Falls
      /\ m' \in registered'[registry'] /\ market' = r /\ run'.oracle = run.oracle
      /\ place \in Nat /\ place' \in Nat /\ place \in Places
  BY <1>1, <1>4, SettingKeeps
<1>7. place' <= 719 BY <1>3, <1>6, AfterSetter
<1>10. r.emergency /\ r.pool /\ r.configurator /\ r.priceOracle BY <1>4, <1>5, Zenon
<1>8. ProviderAt' BY <1>4, <1>5, <1>6, <1>7, <1>10 DEF ProviderAt
<1> QED BY <1>6, <1>8 DEF IInv

\* authorizeLendingPool keeps the invariant.
LEMMA LendingPoolAuthorized ==
    ASSUME IInv, AuthorizeLendingPool
    PROVE  IInv'
<1> DEFINE r == [market EXCEPT !.gateway = TRUE]
<1>1. SetInProvider("authorizeLendingPool", r) BY DEF AuthorizeLendingPool
<1>2. At("authorizeLendingPool") BY <1>1 DEF SetInProvider
<1>3. place = 721 /\ IsMarket(market) BY <1>2, TransactionAt
<1>4. /\ IsMarket(r) /\ SameListing(market, r) /\ r.gateway
      /\ r.emergency = market.emergency /\ r.pool = market.pool
      /\ r.configurator = market.configurator /\ r.priceOracle = market.priceOracle
      /\ r.rateOracle = market.rateOracle /\ r.manager = market.manager
  <2>1. r = [market EXCEPT !.gateway = TRUE] OBVIOUS
  <2> HIDE DEF r
  <2>2. /\ IsMarket(r)
        /\ r.gateway = TRUE /\ r.admin = market.admin /\ r.listed = market.listed
        /\ r.terms = market.terms /\ r.emergency = market.emergency
        /\ r.pool = market.pool /\ r.configurator = market.configurator
        /\ r.priceOracle = market.priceOracle /\ r.rateOracle = market.rateOracle
        /\ r.manager = market.manager
    BY <1>3, <2>1, GatewayChanged
  <2> QED BY <2>2, Zenon DEF SameListing
<1>5. /\ market.emergency /\ market.pool /\ market.configurator /\ market.priceOracle
      /\ market.rateOracle = run.oracle /\ market.manager
  BY <1>3 DEF IInv, ProviderAt
<1> HIDE DEF r
<1>6. /\ RunOK' /\ ChainOK' /\ Budget' /\ BookAt' /\ OracleAt' /\ ListingAt'
      /\ m' \in registered'[registry'] /\ market' = r /\ run'.oracle = run.oracle
  BY <1>1, <1>4, SettingKeeps
<1>10. r.emergency /\ r.pool /\ r.configurator /\ r.priceOracle /\ r.manager BY <1>4, <1>5, Zenon
<1>7. ProviderAt' BY <1>4, <1>5, <1>6, <1>10 DEF ProviderAt
<1> QED BY <1>6, <1>7 DEF IInv

-----------------------------------------------------------------------------
(* The admin's rights, and the reserves and their terms.                     *)

\* Where a transaction leads to that is not the last of its task.
LEMMA AfterTransaction ==
    ASSUME place \in {203, 204, 205, 405, 406, 407, 710, 714, 715, 716}
    PROVE  /\ NextPlace(place, place') => place' = place + 1
           /\ Falls => place' <= place /\ place' \in Firsts
           /\ Falls /\ place > 701 => place' <= 701
<1>1. NextPlace(place, place') => place' = place + 1 BY DEF NextPlace
<1>2. Falls => place' <= place /\ place' \in Firsts BY DEF Falls
<1>3. place' \in Firsts /\ place' <= place => place' <= 701 BY DEF Firsts
<1> QED BY <1>1, <1>2, <1>3

\* The transactions that change who is admin.
LEMMA AdminKeeps ==
    ASSUME IInv, NEW v, NEW f, NEW r, SetInProvider(f, r), IsMarket(r), r.admin = v,
           r.listed = market.listed, r.terms = market.terms, SameFlags(market, r),
           f \in {"setGenesisAdmin", "setTemporalAdmin", "setAdminBack"}
    PROVE  /\ Moves /\ run'.chunk = 0 /\ (NextPlace(place, place') \/ Falls)
           /\ ChainOK' /\ Budget' /\ BookAt' /\ OracleAt' /\ ProviderAt'
           /\ m' = m /\ market'.admin = v /\ market'.listed = market.listed
           /\ market'.terms = market.terms /\ m \in 1 .. Len(markets)
           /\ Updated(markets, markets', m, market') /\ Migrating
           /\ f = "setGenesisAdmin" => place = 205
           /\ f = "setTemporalAdmin" => place = 714
           /\ f = "setAdminBack" => place = 716
<1>1. /\ At(f) /\ markets' = [markets EXCEPT ![m] = r] /\ Mined
      /\ UNCHANGED <<db, registered, oracles, started>>
  BY DEF SetInProvider
<1>2. /\ Migrating /\ place \in {205, 714, 716} /\ IsMarket(market)
      /\ f = "setGenesisAdmin" => place = 205
      /\ f = "setTemporalAdmin" => place = 714
      /\ f = "setAdminBack" => place = 716
  BY <1>1, TransactionAt
<1>4. place \in Setters BY <1>2 DEF Setters
<1>5. /\ Moves /\ run'.chunk = 0 /\ (NextPlace(place, place') \/ Falls)
      /\ m' = m /\ market' = r /\ registry' = registry /\ place > 203
      /\ m \in 1 .. Len(markets) /\ Updated(markets, markets', m, r)
      /\ ChainOK' /\ Budget' /\ BookAt' /\ OracleAt'
  BY <1>1, <1>2, <1>4, SetterKeeps
<1>6. ProviderAt'
  <2>1. SameFlags(market, market') BY <1>5
  <2>2. place \notin {203, 204, 206, 303, 306, 408, 409, 718, 719, 721} BY <1>2
  <2>3. registered' = registered BY <1>1
  <2> QED BY <1>5, <2>1, <2>2, <2>3, ProviderFrame DEF IInv
<1> QED BY <1>2, <1>5, <1>6

\* A market with another admin is still a market, and its other fields are kept.
LEMMA AdminIsSet ==
    ASSUME IInv, NEW f, NEW v, NEW r, r = [market EXCEPT !.admin = v], SetInProvider(f, r),
           f \in {"setGenesisAdmin", "setTemporalAdmin", "setAdminBack"}
    PROVE  /\ IsMarket(r) /\ r.admin = v /\ SameFlags(market, r)
           /\ r.listed = market.listed /\ r.terms = market.terms
<1>1. At(f) BY DEF SetInProvider
<1>2. IsMarket(market) BY <1>1, TransactionAt
<1> QED BY <1>2, AdminChanged DEF SameFlags

\* The facts of the listing that hold before and after, at the start of a task or
\* within the task of the provider.
LEMMA ListingEarly ==
    ASSUME place' \in Nat, place' < 701 \/ place' = 701, place' \notin 204 .. 205,
           place' > 203 => \A s \in DOMAIN market'.listed :
               market'.listed[s] = ownStrategy(reservesParams'[s], m')
    PROVE  ListingAt'
BY DEF ListingAt

\* setGenesisAdmin keeps the invariant.
LEMMA GenesisAdminSet ==
    ASSUME IInv, SetGenesisAdmin
    PROVE  IInv'
<1> DEFINE r == [market EXCEPT !.admin = Deployer]
<1>1. SetInProvider("setGenesisAdmin", r) BY DEF SetGenesisAdmin
<1>0. /\ IsMarket(r) /\ r.admin = Deployer /\ SameFlags(market, r)
      /\ r.listed = market.listed /\ r.terms = market.terms
  BY <1>1, AdminIsSet
<1> HIDE DEF r
<1>2. /\ Moves /\ run'.chunk = 0 /\ (NextPlace(place, place') \/ Falls)
      /\ ChainOK' /\ Budget' /\ BookAt' /\ OracleAt' /\ ProviderAt'
      /\ m' = m /\ market'.listed = market.listed /\ place = 205
  BY <1>1, <1>0, AdminKeeps
<1>3. place' \in Nat /\ reservesParams' = reservesParams BY <1>2, SameConfig DEF Moves
<1>4. place' \in {101, 201, 206}
  BY <1>2, <1>3 DEF NextPlace, Falls, Firsts
<1>5. \A s \in DOMAIN market.listed : market.listed[s] = ownStrategy(reservesParams[s], m)
  BY <1>2 DEF IInv, ListingAt
<1>6. ListingAt' BY <1>2, <1>3, <1>4, <1>5, ListingEarly
<1> QED BY <1>2, <1>6 DEF IInv, Moves

\* The handover keeps the invariant, and comes when all reserves are listed.
LEMMA TemporalAdminSet ==
    ASSUME IInv, SetTemporalAdmin
    PROVE  IInv' /\ market.admin = Deployer /\ DOMAIN market.listed = Reserves
<1> DEFINE r == [market EXCEPT !.admin = helper]
<1>1. SetInProvider("setTemporalAdmin", r) BY DEF SetTemporalAdmin
<1>0. /\ IsMarket(r) /\ r.admin = helper /\ SameFlags(market, r)
      /\ r.listed = market.listed /\ r.terms = market.terms
  BY <1>1, AdminIsSet
<1> HIDE DEF r
<1>2. /\ Moves /\ run'.chunk = 0 /\ (NextPlace(place, place') \/ Falls)
      /\ ChainOK' /\ Budget' /\ BookAt' /\ OracleAt' /\ ProviderAt'
      /\ m' = m /\ market'.admin = helper /\ market'.listed = market.listed
      /\ market'.terms = market.terms /\ place = 714
  BY <1>1, <1>0, AdminKeeps
<1>3. /\ place' \in Nat /\ reservesParams' = reservesParams /\ Reserves' = Reserves
      /\ Termed' = Termed /\ run'.admin = run.admin /\ run'.inputs = run.inputs
  BY <1>2, SameConfig DEF Moves
<1>4. place' = 715 \/ (place' <= 701 /\ place' \in Firsts)
  <2>1. place' = place + 1 \/ (place' <= place /\ place' \in Firsts)
    BY <1>2, <1>3, AfterTransaction
  <2>2. place = 714 BY <1>2
  <2> QED BY <2>1, <2>2 DEF Firsts
<1>5. helper = m BY <1>2 DEF IInv, BookAt, Recorded, helper
<1>6. /\ market.admin = Deployer /\ DOMAIN market.listed = Reserves /\ run.admin = Deployer
      /\ \A s \in DOMAIN market.listed : market.listed[s] = ownStrategy(reservesParams[s], m)
      /\ \A i \in 1 .. Len(run.inputs) : run.inputs[i] \in Termed
      /\ \A s \in Termed : \E i \in 1 .. Len(run.inputs) : run.inputs[i] = s
  BY <1>2 DEF IInv, ListingAt
<1>7. CASE place' = 715
  <2>1. run'.chunk * enableChunks = 0 BY <1>2 DEF enableChunks
  <2>2. \A i \in 1 .. Len(run'.inputs) : ~ (i <= run'.chunk * enableChunks) BY <2>1
  <2> QED BY <1>2, <1>3, <1>5, <1>6, <1>7, <2>2 DEF ListingAt, IInv, Moves
<1>8. CASE place' <= 701 /\ place' \in Firsts
  <2>1. place' \notin 204 .. 205 BY <1>8 DEF Firsts
  <2>2. ListingAt' BY <1>2, <1>3, <1>6, <1>8, <2>1, ListingEarly
  <2> QED BY <1>2, <1>6, <2>2 DEF IInv, Moves
<1> QED BY <1>4, <1>7, <1>8

\* The hand-back keeps the invariant, and comes when all have their terms.
LEMMA AdminBackSet ==
    ASSUME IInv, SetAdminBack
    PROVE  IInv' /\ market.admin = m /\ run.admin = Deployer /\ DOMAIN market.terms = Termed
<1> DEFINE r == [market EXCEPT !.admin = run.admin]
<1>1. SetInProvider("setAdminBack", r) BY DEF SetAdminBack
<1>0. /\ IsMarket(r) /\ r.admin = run.admin /\ SameFlags(market, r)
      /\ r.listed = market.listed /\ r.terms = market.terms
  BY <1>1, AdminIsSet
<1> HIDE DEF r
<1>2. /\ Moves /\ run'.chunk = 0 /\ (NextPlace(place, place') \/ Falls)
      /\ ChainOK' /\ Budget' /\ BookAt' /\ OracleAt' /\ ProviderAt'
      /\ m' = m /\ market'.admin = run.admin /\ market'.listed = market.listed
      /\ market'.terms = market.terms /\ place = 716
  BY <1>1, <1>0, AdminKeeps
<1>3. /\ place' \in Nat /\ reservesParams' = reservesParams /\ Reserves' = Reserves
      /\ Termed' = Termed
  BY <1>2, SameConfig DEF Moves
<1>4. place' = 717 \/ (place' <= 701 /\ place' \in Firsts)
  <2>1. place' = place + 1 \/ (place' <= place /\ place' \in Firsts)
    BY <1>2, <1>3, AfterTransaction
  <2>2. place = 716 BY <1>2
  <2> QED BY <2>1, <2>2 DEF Firsts
<1>6. /\ market.admin = m /\ run.admin = Deployer /\ DOMAIN market.terms = Termed
      /\ DOMAIN market.listed = Reserves
      /\ \A s \in DOMAIN market.listed : market.listed[s] = ownStrategy(reservesParams[s], m)
  BY <1>2 DEF IInv, ListingAt
<1>7. CASE place' = 717
  BY <1>2, <1>3, <1>6, <1>7 DEF ListingAt, IInv, Moves
<1>8. CASE place' <= 701 /\ place' \in Firsts
  <2>1. place' \notin 204 .. 205 BY <1>8 DEF Firsts
  <2>2. ListingAt' BY <1>2, <1>3, <1>6, <1>8, <2>1, ListingEarly
  <2> QED BY <1>2, <1>6, <2>2 DEF IInv, Moves
<1> QED BY <1>4, <1>7, <1>8
\* What follows a pass of a loop: the next pass, the next place, or a failed call.
AfterPass(array, size) ==
    \/ /\ place' = place /\ run'.chunk = run.chunk + 1
       /\ (run.chunk + 1) * size < Len(array)
    \/ /\ (run.chunk + 1) * size >= Len(array) /\ run'.chunk = 0
       /\ run.kind # "tokens" => place' = place + 1
    \/ /\ run'.chunk = 0
       /\ run.kind # "tokens" => place' <= 701 /\ place' \in Firsts

\* A pass of a loop that changes one market.
LEMMA ChunkKeeps ==
    ASSUME IInv, Running, run.kind = "tokens" \/ place \in {710, 715},
           NEW n \in 1 .. Len(markets), run.kind # "tokens" => n = m,
           NEW r, RowOK(r), SameFlags(markets[n], r),
           NEW array, NEW size, MinedChunk(array, size),
           markets' = [markets EXCEPT ![n] = r], UNCHANGED <<db, registered, oracles, started>>
    PROVE  /\ Moves /\ ChainOK' /\ Budget' /\ BookAt' /\ OracleAt' /\ ProviderAt'
           /\ m' = m /\ Updated(markets, markets', n, r)
           /\ run.kind # "tokens" => market' = r
           /\ AfterPass(array, size)
<1>1. RunOK /\ ChainOK /\ Budget /\ BookAt /\ OracleAt /\ ProviderAt BY DEF IInv
<1>2. /\ Moves
      /\ \/ /\ place' = place /\ run'.chunk = run.chunk + 1 /\ faults' = faults
            /\ (run.chunk + 1) * size < Len(array)
         \/ /\ (run.chunk + 1) * size >= Len(array)
            /\ run'.chunk = 0 /\ faults' = faults
            /\ run.kind # "tokens" => NextPlace(place, place')
         \/ /\ run'.chunk = 0 /\ faults' = faults + 1 /\ faults < target.faults
            /\ run.kind # "tokens" => Falls
  BY <1>1, MinedChunkMoves
<1>3. run'.target = run.target /\ run'.kind = run.kind BY <1>2 DEF Moves
<1>4. m' = m /\ registry' = registry BY <1>3, SameRegistry
<1>5. ChainOK' /\ Updated(markets, markets', n, r) /\ Len(markets) \in Nat
  BY <1>1, <1>3, ChainOfMarket
<1>6. run.kind # "tokens" => market' = r BY <1>4, <1>5 DEF market, Updated
<1>7. run.kind = "tokens" => place = 0 /\ place' = 0 BY <1>2 DEF Moves
<1>8. place \in {0, 710, 715} /\ place' \in Nat BY <1>2, <1>7 DEF Moves
<1>9. /\ NextPlace(place, place') /\ place # 0 => place' = place + 1
      /\ Falls /\ place # 0 => place' <= 701 /\ place' \in Firsts
  BY <1>8, AfterTransaction
<1>10. place # 0 => run.kind # "tokens" BY <1>7
<1>11. \/ /\ place' = place /\ run'.chunk = run.chunk + 1 /\ faults' = faults
          /\ (run.chunk + 1) * size < Len(array)
       \/ /\ (run.chunk + 1) * size >= Len(array) /\ run'.chunk = 0 /\ faults' = faults
          /\ run.kind # "tokens" => place' = place + 1
       \/ /\ run'.chunk = 0 /\ faults' = faults + 1 /\ faults < target.faults
          /\ run.kind # "tokens" => place' <= 701 /\ place' \in Firsts
  <2>1. run.kind # "tokens" => place # 0 OBVIOUS
  <2> QED BY <1>2, <1>9, <2>1
<1>12. Budget'
  <2>1. Len(markets') = Len(markets) BY <1>5 DEF Updated
  <2>2. faults' = faults \/ (faults' = faults + 1 /\ faults < target.faults) BY <1>2
  <2>3. faults' = faults => ~ (0 < place' /\ place' <= 203)
    <3>1. CASE run.kind = "tokens" BY <1>7, <3>1
    <3>2. CASE run.kind # "tokens"
      <4>1. faults' = faults => place' = place \/ place' = place + 1 \/ faults' = faults + 1
        BY <1>11, <3>2
      <4>2. faults \in Nat
        <5>1. run.target \in Targets BY <1>1, RunIs
        <5>2. target.faults \in Nat BY <5>1, ConfigOK
        <5> QED BY <1>1, <5>2 DEF Budget
      <4>3. place \in {710, 715} BY <3>2
      <4> QED BY <4>1, <4>2, <4>3
    <3> QED BY <3>1, <3>2
  <2> QED BY <1>1, <1>2, <1>5, <2>1, <2>2, <2>3, BudgetFrame
<1>13. BookAt'
  <2>1. place \notin {202, 203, 304, 307, 308, 309, 707} BY <1>8
  <2> QED BY <1>1, <1>2, <2>1, BookAtFrame
<1>14. place' = 406 => run'.chunk = 0
  <2>1. place' # place => run'.chunk = 0 BY <1>11
  <2> QED BY <1>8, <2>1
<1>15. OracleAt'
  <2>1. place \notin {403, 406, 407} BY <1>8
  <2> QED BY <1>1, <1>2, <1>14, <2>1, OracleFrame
<1>16. ProviderAt'
  <2>1. place > 203 => SameFlags(market, market')
    <3>1. place > 203 => run.kind # "tokens" BY <1>7
    <3> QED BY <1>6, <3>1 DEF market
  <2>2. place \notin {203, 204, 206, 303, 306, 408, 409, 718, 719, 721} BY <1>8
  <2> QED BY <1>1, <1>2, <1>4, <2>1, <2>2, ProviderFrame
<1>17. AfterPass(array, size) BY <1>11 DEF AfterPass
<1> QED BY <1>2, <1>4, <1>5, <1>6, <1>12, <1>13, <1>15, <1>16, <1>17
\* The reserves of one chunk are listed.
LEMMA ReservesListed ==
    ASSUME IInv, BatchInitReserve
    PROVE  /\ IInv'
           /\ configurator \in 1 .. Len(markets) /\ markets[configurator].admin = Deployer
           /\ \E r : /\ RowOK(r) /\ SameFlags(markets[configurator], r)
                     /\ r.admin = markets[configurator].admin
                     /\ r.terms = markets[configurator].terms
                     /\ DOMAIN markets[configurator].listed \subseteq DOMAIN r.listed
                     /\ Updated(markets, markets', configurator, r)
<1> DEFINE n == configurator
           old == markets[n].listed
           syms == symbols(run.inputs, initChunks)
           new == [s \in syms |-> strategyOf(s)]
           r == [markets[n] EXCEPT !.listed = over(new, old)]
<1>1. /\ RunOK /\ ChainOK /\ BookAt /\ ListingAt /\ Running /\ step.do = "batchInitReserve"
      /\ Listable(syms) /\ MinedChunk(run.inputs, initChunks)
      /\ UNCHANGED <<db, registered, oracles, started>>
  BY DEF BatchInitReserve, At, IInv
<1>2. markets' = [markets EXCEPT ![n] = r] BY DEF BatchInitReserve
<1>3. run.kind # "tokens" => place = 710 BY <1>1, PlacesOfSteps DEF Migrating
<1>4. n \in 1 .. Len(markets) /\ (run.kind # "tokens" => n = m)
  <2>1. Len(markets) \in Nat BY <1>1 DEF ChainOK, IsSequence
  <2>2. found("LendingPoolConfigurator") /\ (run.kind # "tokens" => n = m)
    BY <1>1, <1>3 DEF BookAt, Recorded, ChainOK, BookOK, configurator
  <2>3. n \in 0 .. Len(markets) BY <1>1, <2>2 DEF ChainOK, BookOK
  <2>4. n # 0 BY <1>1 DEF Listable, Implementation
  <2> QED BY <2>1, <2>2, <2>3, <2>4
<1>5. RowOK(markets[n]) /\ IsMarket(markets[n]) BY <1>1, <1>4 DEF ChainOK, MarketsOK, RowOK
<1>6. /\ syms \subseteq config.assets /\ markets[n].admin = Deployer
      /\ syms \intersect DOMAIN old = {}
  BY <1>1 DEF Listable
<1>7. run.chunk \in Nat /\ run.inputs \in Seq(Reserves) BY <1>1, RunIs
<1>8. syms = {run.inputs[i] : i \in {j \in 1 .. Len(run.inputs) :
                 run.chunk * initChunks < j /\ j <= (run.chunk + 1) * initChunks}}
  <2>1. initChunks \in Nat \ {0} BY DEF initChunks
  <2> QED BY <1>7, <2>1, SymbolsAre
<1> HIDE DEF n, syms
<1>9. syms \subseteq Reserves
  <2>1. \A i \in 1 .. Len(run.inputs) : run.inputs[i] \in Reserves BY <1>7
  <2> QED BY <1>8, <2>1
<1>10. /\ DOMAIN over(new, old) = syms \union DOMAIN old
       /\ \A s \in syms : over(new, old)[s] = strategyOf(s)
       /\ \A s \in DOMAIN old \ syms : over(new, old)[s] = old[s]
  BY DEF over
<1> HIDE DEF new, old
<1>11. r = [markets[n] EXCEPT !.listed = over(new, old)] OBVIOUS
<1> HIDE DEF r
<1>12. /\ IsMarket(r) /\ r.listed = over(new, old) /\ SameFlags(markets[n], r)
       /\ r.admin = markets[n].admin /\ r.terms = markets[n].terms
  BY <1>5, <1>11, ListedChanged DEF SameFlags
<1>13. RowOK(r)
  <2>1. /\ DOMAIN old \subseteq Reserves \intersect config.assets
        /\ DOMAIN markets[n].terms # {} => DOMAIN old = Reserves
    BY <1>5 DEF RowOK, old
  <2>2. /\ DOMAIN r.listed \subseteq Reserves \intersect config.assets
        /\ DOMAIN r.terms # {} => DOMAIN r.listed = Reserves
    BY <1>6, <1>9, <1>10, <1>12, <2>1
  <2>3. /\ DOMAIN markets[n].terms \subseteq Termed
        /\ \A s \in DOMAIN markets[n].terms : markets[n].terms[s] = termsOf(reservesParams[s])
    BY <1>5 DEF RowOK
  <2> QED BY <1>12, <2>2, <2>3 DEF RowOK
<1>14. /\ Moves /\ ChainOK' /\ Budget' /\ BookAt' /\ OracleAt' /\ ProviderAt'
       /\ m' = m /\ Updated(markets, markets', n, r)
       /\ run.kind # "tokens" => market' = r
       /\ \/ /\ place' = place /\ run'.chunk = run.chunk + 1
             /\ (run.chunk + 1) * initChunks < Len(run.inputs)
          \/ /\ (run.chunk + 1) * initChunks >= Len(run.inputs) /\ run'.chunk = 0
             /\ run.kind # "tokens" => place' = place + 1
          \/ /\ run'.chunk = 0
             /\ run.kind # "tokens" => place' <= 701 /\ place' \in Firsts
  <2>1. PICK inputs, e, k : inputs = run.inputs /\ e = r /\ k = n OBVIOUS
  <2>2. MinedChunk(inputs, initChunks) BY <1>1, <2>1 DEF MinedChunk
  <2>3. /\ k \in 1 .. Len(markets) /\ (run.kind # "tokens" => k = m)
        /\ RowOK(e) /\ SameFlags(markets[k], e)
        /\ markets' = [markets EXCEPT ![k] = e]
    BY <1>2, <1>4, <1>12, <1>13, <2>1
  <2>5. Running /\ (run.kind = "tokens" \/ place \in {710, 715})
        /\ UNCHANGED <<db, registered, oracles, started>>
    BY <1>1, <1>3
  <2>4. /\ Moves /\ ChainOK' /\ Budget' /\ BookAt' /\ OracleAt' /\ ProviderAt'
        /\ m' = m /\ Updated(markets, markets', k, e)
        /\ run.kind # "tokens" => market' = e
        /\ AfterPass(inputs, initChunks)
    BY <2>2, <2>3, <2>5, ChunkKeeps
  <2> QED BY <2>1, <2>4 DEF AfterPass
<1>15. /\ config' = config /\ reservesParams' = reservesParams /\ Reserves' = Reserves
       /\ run'.admin = run.admin /\ run'.inputs = run.inputs /\ place' \in Nat
       /\ run.kind = "tokens" => place' = 0
  BY <1>14, SameConfig DEF Moves
<1>16. ListingAt'
  <2>1. CASE run.kind = "tokens"
    <3>1. place' = 0 BY <1>15, <2>1
    <3> QED BY <3>1, ListingEarly
  <2>2. CASE run.kind # "tokens"
    <3>1. /\ place = 710 /\ market' = r /\ n = m /\ market = markets[n]
      BY <1>3, <1>4, <1>14, <2>2 DEF market
    <3>2. /\ \A s \in DOMAIN old : old[s] = ownStrategy(reservesParams[s], m)
          /\ run.admin = market.admin /\ run.inputs = config.order
          /\ run.chunk * initChunks < Len(run.inputs)
          /\ \A i \in 1 .. Len(run.inputs) :
               i <= run.chunk * initChunks => run.inputs[i] \in DOMAIN old
      BY <1>1, <3>1 DEF ListingAt, old
    <3>3. \A s \in Reserves : strategyOf(s) = ownStrategy(reservesParams[s], m)
      BY <1>1, <3>1 DEF BookAt, strategyOf, nameOf
    <3>4. \A s \in DOMAIN r.listed : r.listed[s] = ownStrategy(reservesParams[s], m)
      BY <1>9, <1>10, <1>12, <3>2, <3>3
    <3>5. \A i \in 1 .. Len(run.inputs) :
            i <= (run.chunk + 1) * initChunks => run.inputs[i] \in DOMAIN r.listed
      <4> SUFFICES ASSUME NEW i \in 1 .. Len(run.inputs), i <= (run.chunk + 1) * initChunks
                   PROVE  run.inputs[i] \in DOMAIN r.listed
        OBVIOUS
      <4>1. CASE i <= run.chunk * initChunks BY <1>10, <1>12, <3>2, <4>1
      <4>2. CASE run.chunk * initChunks < i
        <5>1. run.inputs[i] \in syms BY <1>8, <4>2
        <5> QED BY <1>10, <1>12, <5>1
      <4>3. run.chunk * initChunks \in Nat BY <1>7 DEF initChunks
      <4> QED BY <4>1, <4>2, <4>3
    <3>6. DOMAIN market.terms = {}
      <4>1. Len(run.inputs) \in Nat /\ run.chunk * initChunks + 1 \in 1 .. Len(run.inputs)
            /\ run.chunk * initChunks < run.chunk * initChunks + 1
            /\ run.chunk * initChunks + 1 <= (run.chunk + 1) * initChunks
        BY <1>7, <3>2 DEF initChunks
      <4>2. run.inputs[run.chunk * initChunks + 1] \in syms BY <1>8, <4>1
      <4>3. DOMAIN old # Reserves BY <1>6, <1>9, <4>2
      <4> QED BY <1>5, <3>1, <4>3 DEF RowOK, old
    <3>7. CASE place' = 710 /\ run'.chunk = run.chunk + 1
               /\ (run.chunk + 1) * initChunks < Len(run.inputs)
      BY <1>12, <1>14, <1>15, <3>1, <3>2, <3>4, <3>5, <3>7 DEF ListingAt
    <3>8. CASE place' = 711 /\ (run.chunk + 1) * initChunks >= Len(run.inputs)
      <4>1. \A s \in Reserves : \E i \in 1 .. Len(run.inputs) : run.inputs[i] = s
        <5>1. run.target \in Targets BY <1>1, RunIs
        <5>2. WellFormed(config) BY <5>1, ConfigOK
        <5>3. run.inputs \in Seq(Reserves) BY <1>7
        <5> QED BY <3>2, <5>2, <5>3 DEF WellFormed, Reserves, reservesParams
      <4>2. \A i \in 1 .. Len(run.inputs) : run.inputs[i] \in DOMAIN r.listed
        <5>1. \A i \in 1 .. Len(run.inputs) : i <= (run.chunk + 1) * initChunks
          BY <1>7, <3>8 DEF initChunks
        <5> QED BY <3>5, <5>1
      <4>3. DOMAIN r.listed = Reserves
        <5>1. DOMAIN r.listed \subseteq Reserves BY <1>13 DEF RowOK
        <5> QED BY <4>1, <4>2, <5>1
      <4>4. r.admin = Deployer /\ DOMAIN r.terms = {} BY <1>6, <1>12, <3>1, <3>6
      <4>5. run'.admin = market'.admin BY <1>12, <1>15, <3>1, <3>2
      <4> QED BY <1>14, <1>15, <3>1, <3>4, <3>8, <4>3, <4>4, <4>5 DEF ListingAt
    <3>9. CASE place' <= 701 /\ place' \in Firsts
      <4>1. place' \notin 204 .. 205 BY <3>9 DEF Firsts
      <4> QED BY <1>14, <1>15, <3>1, <3>4, <3>9, <4>1, ListingEarly
    <3> QED BY <1>14, <2>2, <3>1, <3>7, <3>8, <3>9
  <2> QED BY <2>1, <2>2
<1>17. DOMAIN markets[n].listed \subseteq DOMAIN r.listed BY <1>10, <1>12 DEF old
<1>18. IInv' BY <1>14, <1>16 DEF IInv, Moves
<1> QED BY <1>4, <1>6, <1>12, <1>13, <1>14, <1>17, <1>18 DEF n
\* The reserves of one chunk get their terms.
LEMMA ReservesConfigured ==
    ASSUME IInv, ConfigureReserves
    PROVE  /\ IInv'
           /\ m \in 1 .. Len(markets) /\ market.admin = m
           /\ \E r : /\ RowOK(r) /\ SameFlags(market, r)
                     /\ r.admin = market.admin /\ r.listed = market.listed
                     /\ DOMAIN market.terms \subseteq DOMAIN r.terms
                     /\ Updated(markets, markets', m, r)
<1> DEFINE old == market.terms
           syms == symbols(run.inputs, enableChunks)
           new == [s \in syms |-> termsOf(reservesParams[s])]
           r == [market EXCEPT !.terms = over(new, old)]
<1>1. /\ RunOK /\ BookAt /\ ListingAt /\ Running /\ At("configureReserves")
      /\ MinedChunk(run.inputs, enableChunks)
      /\ UNCHANGED <<db, registered, oracles, started>>
  BY DEF ConfigureReserves, At, IInv
<1>2. /\ Migrating /\ place = 715 /\ m \in 1 .. Len(markets) /\ RowOK(market) /\ IsMarket(market)
  BY <1>1, TransactionAt
<1>3. helper = m BY <1>1, <1>2 DEF BookAt, Recorded, helper
<1>4. markets' = [markets EXCEPT ![m] = r] BY <1>3 DEF ConfigureReserves, market
<1>5. /\ market.admin = m /\ run.admin = Deployer /\ DOMAIN market.listed = Reserves
      /\ \A s \in DOMAIN market.listed : market.listed[s] = ownStrategy(reservesParams[s], m)
      /\ \A i \in 1 .. Len(run.inputs) : run.inputs[i] \in Termed
      /\ \A s \in Termed : \E i \in 1 .. Len(run.inputs) : run.inputs[i] = s
      /\ \A i \in 1 .. Len(run.inputs) : i <= run.chunk * enableChunks => run.inputs[i] \in DOMAIN old
  BY <1>1, <1>2 DEF ListingAt
<1>7. run.chunk \in Nat /\ run.inputs \in Seq(Reserves) BY <1>1, RunIs
<1>8. syms = {run.inputs[i] : i \in {j \in 1 .. Len(run.inputs) :
                 run.chunk * enableChunks < j /\ j <= (run.chunk + 1) * enableChunks}}
  <2>1. enableChunks \in Nat \ {0} BY DEF enableChunks
  <2> QED BY <1>7, <2>1, SymbolsAre
<1> HIDE DEF syms
<1>9. syms \subseteq Termed BY <1>5, <1>8
<1>10. /\ DOMAIN over(new, old) = syms \union DOMAIN old
       /\ \A s \in syms : over(new, old)[s] = termsOf(reservesParams[s])
       /\ \A s \in DOMAIN old \ syms : over(new, old)[s] = old[s]
  BY DEF over
<1> HIDE DEF new, old
<1>11. r = [market EXCEPT !.terms = over(new, old)] OBVIOUS
<1> HIDE DEF r
<1>12. /\ IsMarket(r) /\ r.terms = over(new, old) /\ SameFlags(market, r)
       /\ r.admin = market.admin /\ r.listed = market.listed
  <2>1. IsMarket(market) BY <1>2
  <2>2. PICK v : v = over(new, old) OBVIOUS
  <2>3. r = [market EXCEPT !.terms = v] BY <1>11, <2>2
  <2>4. /\ IsMarket(r)
        /\ r.terms = v /\ r.admin = market.admin /\ r.emergency = market.emergency
        /\ r.pool = market.pool /\ r.configurator = market.configurator
        /\ r.priceOracle = market.priceOracle /\ r.rateOracle = market.rateOracle
        /\ r.manager = market.manager /\ r.gateway = market.gateway /\ r.listed = market.listed
    BY <2>1, <2>3, TermsChanged
  <2> QED BY <2>2, <2>4 DEF SameFlags
<1>13. RowOK(r)
  <2>1. /\ DOMAIN old \subseteq Termed
        /\ \A s \in DOMAIN old : old[s] = termsOf(reservesParams[s])
    BY <1>2 DEF RowOK, old
  <2>2. /\ DOMAIN r.terms \subseteq Termed
        /\ \A s \in DOMAIN r.terms : r.terms[s] = termsOf(reservesParams[s])
    BY <1>9, <1>10, <1>12, <2>1
  <2>3. DOMAIN r.listed \subseteq Reserves \intersect config.assets BY <1>2, <1>12 DEF RowOK
  <2> QED BY <1>5, <1>12, <2>2, <2>3 DEF RowOK
<1>14. /\ Moves /\ ChainOK' /\ Budget' /\ BookAt' /\ OracleAt' /\ ProviderAt'
       /\ m' = m /\ Updated(markets, markets', m, r) /\ market' = r
       /\ \/ /\ place' = place /\ run'.chunk = run.chunk + 1
          \/ /\ (run.chunk + 1) * enableChunks >= Len(run.inputs) /\ place' = 716
          \/ /\ place' <= 701 /\ place' \in Firsts
  <2>1. PICK inputs, e, k : inputs = run.inputs /\ e = r /\ k = m OBVIOUS
  <2>2. MinedChunk(inputs, enableChunks) BY <1>1, <2>1 DEF MinedChunk
  <2>3. /\ k \in 1 .. Len(markets) /\ (run.kind # "tokens" => k = m)
        /\ RowOK(e) /\ SameFlags(markets[k], e)
        /\ markets' = [markets EXCEPT ![k] = e]
    BY <1>2, <1>4, <1>12, <1>13, <2>1 DEF market
  <2>4. Running /\ (run.kind = "tokens" \/ place \in {710, 715})
        /\ UNCHANGED <<db, registered, oracles, started>>
    BY <1>1, <1>2
  <2>5. /\ Moves /\ ChainOK' /\ Budget' /\ BookAt' /\ OracleAt' /\ ProviderAt'
        /\ m' = m /\ Updated(markets, markets', k, e)
        /\ run.kind # "tokens" => market' = e
        /\ AfterPass(inputs, enableChunks)
    BY <2>2, <2>3, <2>4, ChunkKeeps
  <2>6. run.kind # "tokens" /\ place + 1 = 716 BY <1>2 DEF Migrating
  <2> QED BY <2>1, <2>5, <2>6 DEF AfterPass
<1>15. /\ config' = config /\ reservesParams' = reservesParams /\ Reserves' = Reserves
       /\ Termed' = Termed
       /\ run'.admin = run.admin /\ run'.inputs = run.inputs /\ place' \in Nat
  BY <1>14, SameConfig DEF Moves
<1>16. \A i \in 1 .. Len(run.inputs) :
         i <= (run.chunk + 1) * enableChunks => run.inputs[i] \in DOMAIN r.terms
  <2> SUFFICES ASSUME NEW i \in 1 .. Len(run.inputs), i <= (run.chunk + 1) * enableChunks
               PROVE  run.inputs[i] \in DOMAIN r.terms
    OBVIOUS
  <2>1. CASE i <= run.chunk * enableChunks BY <1>5, <1>10, <1>12, <2>1
  <2>2. CASE run.chunk * enableChunks < i
    <3>1. run.inputs[i] \in syms BY <1>8, <2>2
    <3> QED BY <1>10, <1>12, <3>1
  <2>3. run.chunk * enableChunks \in Nat BY <1>7 DEF enableChunks
  <2> QED BY <2>1, <2>2, <2>3
<1>17. \A s \in DOMAIN r.listed : r.listed[s] = ownStrategy(reservesParams[s], m)
  BY <1>5, <1>12
<1>24. /\ market' = r /\ m' = m /\ reservesParams' = reservesParams /\ Reserves' = Reserves
       /\ Termed' = Termed /\ run'.admin = run.admin /\ run'.inputs = run.inputs
       /\ r.admin = m /\ DOMAIN r.listed = Reserves
  BY <1>5, <1>12, <1>14, <1>15
<1>25. \A s \in DOMAIN market'.listed : market'.listed[s] = ownStrategy(reservesParams'[s], m')
  BY <1>17, <1>24
<1>18. ASSUME place' = 715 /\ run'.chunk = run.chunk + 1 PROVE ListingAt'
  BY <1>5, <1>16, <1>18, <1>24, <1>25 DEF ListingAt
<1>19. ASSUME place' = 716 /\ (run.chunk + 1) * enableChunks >= Len(run.inputs) PROVE ListingAt'
  <2>1. \A i \in 1 .. Len(run.inputs) : run.inputs[i] \in DOMAIN r.terms
    <3>1. \A i \in 1 .. Len(run.inputs) : i <= (run.chunk + 1) * enableChunks
      BY <1>7, <1>19 DEF enableChunks
    <3> QED BY <1>16, <3>1
  <2>2. DOMAIN r.terms = Termed
    <3>1. DOMAIN r.terms \subseteq Termed BY <1>13 DEF RowOK
    <3> QED BY <1>5, <2>1, <3>1
  <2> QED BY <1>5, <1>19, <1>24, <1>25, <2>2 DEF ListingAt
<1>20. ASSUME place' <= 701 /\ place' \in Firsts PROVE ListingAt'
  <2>1. place' \notin 204 .. 205 BY <1>20 DEF Firsts
  <2>2. place' \in Nat BY <1>15
  <2> QED BY <1>20, <1>25, <2>1, <2>2, ListingEarly
<1>21. ListingAt'
  <2>1. place = 715 BY <1>2
  <2>2. \/ place' = place /\ run'.chunk = run.chunk + 1
        \/ (run.chunk + 1) * enableChunks >= Len(run.inputs) /\ place' = 716
        \/ place' <= 701 /\ place' \in Firsts
    BY <1>14
  <2> QED BY <1>18, <1>19, <1>20, <2>1, <2>2
<1>22. DOMAIN market.terms \subseteq DOMAIN r.terms BY <1>10, <1>12 DEF old
<1>23. IInv' BY <1>14, <1>21 DEF IInv, Moves
<1> QED BY <1>2, <1>5, <1>12, <1>13, <1>14, <1>22, <1>23
-----------------------------------------------------------------------------
(* The rate oracle and the registry.                                         *)

\* A step of the oracles' task leads to itself, to the next place, or back.
After(p, q) == q = p \/ q = p + 1 \/ (q \in Firsts /\ q <= p)

OracleOK(r) ==
    /\ IsOracle(r)
    /\ \A s \in DOMAIN r.rates : s \in DOMAIN config.rates /\ r.rates[s] = config.rates[s]

\* The oracles with one of them changed.
LEMMA OracleUpdated ==
    ASSUME ChainOK, NEW o \in 1 .. Len(oracles), NEW r, oracles' = [oracles EXCEPT ![o] = r]
    PROVE  Updated(oracles, oracles', o, r) /\ Len(oracles) \in Nat
BY ExceptIs DEF ChainOK

\* One oracle of the chain has changed.
LEMMA OracleChanges ==
    ASSUME IInv, Moves, place \in {405, 406, 407}, After(place, place'),
           \/ faults' = faults /\ place' \in {place, place + 1}
           \/ faults' = faults + 1 /\ faults < target.faults,
           NEW o, o = run.oracle, NEW r, OracleOK(r), Updated(oracles, oracles', o, r),
           UNCHANGED <<db, registered, markets, started>>
    PROVE  /\ ChainOK' /\ Budget' /\ BookAt' /\ ProviderAt' /\ ListingAt'
           /\ rateSymbols' = rateSymbols /\ run'.oracle = o /\ o \in 1 .. Len(oracles')
           /\ place' > 403 => place' \in {place, place + 1}
<1>1. RunOK /\ ChainOK /\ Budget /\ BookAt /\ ProviderAt /\ ListingAt /\ OracleAt BY DEF IInv
<1>2. run'.target = run.target /\ run'.kind = run.kind /\ run'.oracle = o BY DEF Moves
<1>3. /\ config' = config /\ reservesParams' = reservesParams /\ Reserves' = Reserves
      /\ Termed' = Termed /\ rateSymbols' = rateSymbols
  BY <1>2, SameConfig
<1>4. m' = m /\ registry' = registry BY <1>2, SameRegistry
<1>5. o \in 1 .. Len(oracles) BY <1>1 DEF OracleAt
<1>7. ChainOK'
  <2>1. MarketsOK' BY <1>1, <1>3 DEF ChainOK, MarketsOK
  <2>2. OraclesOK'
    <3>1. \A i \in 1 .. Len(oracles') : i = o \/ oracles'[i] = oracles[i] BY DEF Updated
    <3>2. Len(oracles') = Len(oracles) /\ oracles'[o] = r BY DEF Updated
    <3>3. \A i \in 1 .. Len(oracles) :
             /\ IsOracle(oracles[i])
             /\ \A s \in DOMAIN oracles[i].rates :
                  s \in DOMAIN config.rates /\ oracles[i].rates[s] = config.rates[s]
      BY <1>1 DEF ChainOK, OraclesOK
    <3> QED BY <1>3, <3>1, <3>2, <3>3 DEF OraclesOK, OracleOK
  <2>3. BookOK'
    BY <1>1, <1>2, <1>3 DEF ChainOK, BookOK, found, m, configurator, Configured, Updated
  <2>4. IsSequence(markets') /\ IsSequence(oracles') /\ IsSequence(registered')
    BY <1>1 DEF ChainOK, Updated
  <2> QED BY <2>1, <2>2, <2>3, <2>4 DEF ChainOK
<1>8. Budget'
  <2>1. Len(markets) \in Nat /\ Len(markets') = Len(markets) BY <1>1 DEF ChainOK, IsSequence
  <2>2. \/ faults' = faults /\ (0 < place' /\ place' <= 203 => 0 < place /\ place <= 203)
        \/ faults' = faults + 1 /\ faults < target.faults
    OBVIOUS
  <2> QED BY <1>1, <2>1, <2>2, BudgetFrame
<1>9. BookAt'
  <2>1. place \notin {202, 203, 304, 307, 308, 309, 707} OBVIOUS
  <2> QED BY <1>1, <2>1, BookAtFrame
<1>10. market' = market BY <1>4 DEF market
<1>11. ProviderAt'
  <2>1. SameFlags(market, market') BY <1>10 DEF SameFlags
  <2>2. place \notin {203, 204, 206, 303, 306, 408, 409, 718, 719, 721} OBVIOUS
  <2> QED BY <1>1, <1>4, <2>1, <2>2, ProviderFrame
<1>12. ListingAt'
  <2>1. SameListing(market, market') BY <1>10 DEF SameListing
  <2>2. place \notin {203, 205, 703, 708, 710, 713, 714, 715, 716} OBVIOUS
  <2>3. place' \notin {710, 715} BY DEF After, Firsts
  <2> QED BY <1>1, <1>4, <2>1, <2>2, <2>3, ListingFrame
<1>13. place' > 403 => place' \in {place, place + 1} BY DEF After, Firsts
<1>14. o \in 1 .. Len(oracles') BY <1>5 DEF Updated
<1> QED BY <1>2, <1>3, <1>7, <1>8, <1>9, <1>11, <1>12, <1>13, <1>14

\* The transactions that change the owner.
OwnerSet(v) ==
    /\ oracles' = [oracles EXCEPT ![run.oracle].owner = v]
    /\ Mined
    /\ UNCHANGED <<db, registered, markets, started>>

\* What the two transfers of the rate oracle keep.
LEMMA OwnerChanges ==
    ASSUME IInv, Migrating, place \in {405, 407}, NEW v, OwnerSet(v)
    PROVE  /\ RunOK' /\ ChainOK' /\ Budget' /\ BookAt' /\ ProviderAt' /\ ListingAt'
           /\ run'.oracle \in 1 .. Len(oracles') /\ run'.chunk = 0
           /\ oracles'[run'.oracle].owner = v
           /\ oracles'[run'.oracle].rates = oracles[run.oracle].rates
           /\ rateSymbols' = rateSymbols /\ place' \in Nat
           /\ place' > 403 => place' = place + 1
<1> DEFINE r == [oracles[run.oracle] EXCEPT !.owner = v]
<1>1. RunOK /\ ChainOK /\ Budget /\ OracleAt BY DEF IInv
<1>2. Running /\ run.kind # "tokens" BY DEF Migrating
<1>3. /\ Moves /\ run'.chunk = 0
      /\ \/ faults' = faults /\ NextPlace(place, place')
         \/ faults' = faults + 1 /\ faults < target.faults /\ Falls
  BY <1>1, <1>2, MinedMoves DEF OwnerSet
<1>4. /\ NextPlace(place, place') => place' = place + 1
      /\ Falls => place' <= place /\ place' \in Firsts
  BY AfterTransaction
<1>5. RunOK' /\ place' \in Nat BY <1>3 DEF Moves
<1>6. run.oracle \in 1 .. Len(oracles) BY <1>1 DEF OracleAt
<1>7. /\ IsOracle(oracles[run.oracle])
      /\ \A s \in DOMAIN oracles[run.oracle].rates :
           s \in DOMAIN config.rates /\ oracles[run.oracle].rates[s] = config.rates[s]
  BY <1>1, <1>6 DEF ChainOK, OraclesOK
<1>8. r = [owner |-> v, rates |-> oracles[run.oracle].rates] BY <1>7 DEF IsOracle
<1> HIDE DEF r
<1>9. IsOracle(r) /\ r.owner = v /\ r.rates = oracles[run.oracle].rates BY <1>8 DEF IsOracle
<1>10. PICK o, q : o = run.oracle /\ q = r OBVIOUS
<1>11. OracleOK(q) BY <1>7, <1>9, <1>10 DEF OracleOK
<1>12. Updated(oracles, oracles', o, q)
  <2>1. ChainOK /\ o \in 1 .. Len(oracles) /\ oracles' = [oracles EXCEPT ![o] = q]
    BY <1>1, <1>6, <1>10 DEF r, OwnerSet
  <2> QED BY <2>1, OracleUpdated
<1>13. /\ After(place, place')
       /\ \/ faults' = faults /\ place' \in {place, place + 1}
          \/ faults' = faults + 1 /\ faults < target.faults
       /\ place' > 403 => place' = place + 1
  <2>1. place' \in Firsts /\ place' <= place => ~ (place' > 403) BY DEF Firsts
  <2> QED BY <1>3, <1>4, <2>1 DEF After
<1>14. /\ ChainOK' /\ Budget' /\ BookAt' /\ ProviderAt' /\ ListingAt'
       /\ rateSymbols' = rateSymbols /\ run'.oracle = o /\ o \in 1 .. Len(oracles')
  <2>1. Moves /\ place \in {405, 406, 407} /\ o = run.oracle
        /\ UNCHANGED <<db, registered, markets, started>>
    BY <1>3, <1>10 DEF OwnerSet
  <2> QED BY <1>11, <1>12, <1>13, <2>1, OracleChanges
<1> QED BY <1>3, <1>5, <1>9, <1>10, <1>12, <1>13, <1>14 DEF Updated

\* The transfer of the rate oracle to the helper keeps the invariant.
LEMMA OwnershipTransferred ==
    ASSUME IInv, TransferOwnership
    PROVE  IInv'
<1>1. RunOK /\ Running /\ step.do = "transferOwnership" /\ Mined
  BY DEF TransferOwnership, At, IInv
<1>2. Migrating /\ place = 405 BY <1>1, OnlyInMigrations, PlacesOfSteps
<1>3. PICK v : v = rateHelper OBVIOUS
<1>4. OwnerSet(v) BY <1>3 DEF TransferOwnership, OwnerSet
<1>6. /\ RunOK' /\ ChainOK' /\ Budget' /\ BookAt' /\ ProviderAt' /\ ListingAt'
      /\ run'.oracle \in 1 .. Len(oracles') /\ run'.chunk = 0 /\ place' \in Nat
      /\ place' > 403 => place' = place + 1
  BY <1>2, <1>4, OwnerChanges
<1>7. place' > 403 => place' = 406 BY <1>2, <1>6
<1>8. run'.chunk * ratesChunks = 0 BY <1>6 DEF ratesChunks
<1>9. \A i \in 1 .. Len(rateSymbols') : ~ (i <= run'.chunk * ratesChunks) BY <1>8
<1>10. OracleAt' BY <1>6, <1>7, <1>9 DEF OracleAt
<1> QED BY <1>6, <1>10 DEF IInv

\* The transfer back keeps the invariant.
LEMMA OwnershipSet ==
    ASSUME IInv, SetOracleOwnership
    PROVE  IInv'
<1>1. RunOK /\ Running /\ step.do = "setOracleOwnership" /\ Mined
  BY DEF SetOracleOwnership, At, IInv
<1>2. Migrating /\ place = 407 BY <1>1, OnlyInMigrations, PlacesOfSteps
<1>3. OwnerSet(Deployer) BY DEF SetOracleOwnership, OwnerSet
<1>4. /\ RunOK' /\ ChainOK' /\ Budget' /\ BookAt' /\ ProviderAt' /\ ListingAt'
      /\ run'.oracle \in 1 .. Len(oracles') /\ run'.chunk = 0 /\ place' \in Nat
      /\ oracles'[run'.oracle].owner = Deployer
      /\ oracles'[run'.oracle].rates = oracles[run.oracle].rates
      /\ rateSymbols' = rateSymbols
      /\ place' > 403 => place' = place + 1
  BY <1>2, <1>3, OwnerChanges
<1>5. \A i \in 1 .. Len(rateSymbols) : rateSymbols[i] \in DOMAIN oracles[run.oracle].rates
  BY <1>2 DEF IInv, OracleAt
<1>6. place' > 403 => place' = 408 BY <1>2, <1>4
<1>7. OracleAt' BY <1>4, <1>5, <1>6 DEF OracleAt
<1> QED BY <1>4, <1>7 DEF IInv
\* The rates of one chunk.
RatesOf(syms) == [s \in syms |-> config.rates[s]]
RatesSet(syms) ==
    oracles' = [oracles EXCEPT ![run.oracle].rates = over(RatesOf(syms), @)]

\* A chunk of rates leaves an oracle with those rates and the ones it had.
LEMMA RatesGrow ==
    ASSUME ChainOK, run.oracle \in 1 .. Len(oracles), NEW syms, syms \subseteq DOMAIN config.rates,
           RatesSet(syms)
    PROVE  \E r : /\ OracleOK(r) /\ Updated(oracles, oracles', run.oracle, r)
                  /\ DOMAIN r.rates = syms \union DOMAIN oracles[run.oracle].rates
<1> DEFINE old == oracles[run.oracle].rates
           r == [oracles[run.oracle] EXCEPT !.rates = over(RatesOf(syms), old)]
<1>1. OracleOK(oracles[run.oracle]) BY DEF ChainOK, OraclesOK, OracleOK
<1>2. r = [owner |-> oracles[run.oracle].owner, rates |-> over(RatesOf(syms), old)]
  BY <1>1 DEF OracleOK, IsOracle
<1>3. /\ DOMAIN over(RatesOf(syms), old) = syms \union DOMAIN old
      /\ \A s \in syms : over(RatesOf(syms), old)[s] = config.rates[s]
      /\ \A s \in DOMAIN old \ syms : over(RatesOf(syms), old)[s] = old[s]
  BY DEF over, RatesOf
<1>4. oracles' = [oracles EXCEPT ![run.oracle] = r] BY DEF RatesSet
<1>5. \A s \in DOMAIN old : s \in DOMAIN config.rates /\ old[s] = config.rates[s]
  BY <1>1 DEF OracleOK
<1> HIDE DEF r, old
<1>6. IsOracle(r) /\ r.rates = over(RatesOf(syms), old) BY <1>2 DEF IsOracle
<1>7. OracleOK(r) BY <1>3, <1>5, <1>6 DEF OracleOK
<1>8. Updated(oracles, oracles', run.oracle, r)
  <2>1. PICK o, q : o = run.oracle /\ q = r OBVIOUS
  <2>2. o \in 1 .. Len(oracles) /\ oracles' = [oracles EXCEPT ![o] = q] BY <1>4, <2>1
  <2>3. Updated(oracles, oracles', o, q) BY <2>2, OracleUpdated
  <2> QED BY <2>1, <2>3
<1> QED BY <1>3, <1>6, <1>7, <1>8 DEF old

\* The symbols of the assets that have an address and a rate.
LEMMA RateSymbolsAre ==
    ASSUME RunOK
    PROVE  /\ rateSymbols \in Seq(Reserves)
           /\ \A i \in 1 .. Len(rateSymbols) : rateSymbols[i] \in DOMAIN config.rates
           /\ \A s \in Reserves \intersect config.assets \intersect DOMAIN config.rates :
                \E i \in 1 .. Len(rateSymbols) : rateSymbols[i] = s
<1> DEFINE S == {s \in config.assets : s \in DOMAIN config.rates}
<1>1. WellFormed(config) BY RunIs, ConfigOK
<1>2. config.order \in Seq(Reserves) /\ \A s \in Reserves : \E i \in DOMAIN config.order : config.order[i] = s
  BY <1>1 DEF WellFormed, Reserves, reservesParams
<1> DEFINE array == config.order
<1>3. rateSymbols = keep(array, S) BY DEF rateSymbols
<1>4. array \in Seq(Reserves) BY <1>2
<1>5. DOMAIN array = 1 .. Len(array) BY <1>4
<1> HIDE DEF S, array
<1>6. /\ keep(array, S) \in Seq(Reserves \intersect S)
      /\ \A i \in 1 .. Len(array) : array[i] \in S =>
           \E j \in DOMAIN keep(array, S) : keep(array, S)[j] = array[i]
  BY <1>4, KeepIs
<1>7. DOMAIN rateSymbols = 1 .. Len(rateSymbols) BY <1>3, <1>6
<1>8. /\ rateSymbols \in Seq(Reserves)
      /\ \A i \in 1 .. Len(rateSymbols) : rateSymbols[i] \in DOMAIN config.rates
  <2>1. rateSymbols \in Seq(Reserves \intersect S) BY <1>3, <1>6
  <2>2. \A i \in 1 .. Len(rateSymbols) : rateSymbols[i] \in Reserves \intersect S
    BY <2>1, ElementOfSeq
  <2>3. rateSymbols \in Seq(Reserves) BY <2>1, <2>2
  <2>4. \A s \in S : s \in DOMAIN config.rates BY DEF S
  <2> QED BY <2>2, <2>3, <2>4
<1>9. \A s \in Reserves \intersect S : \E i \in 1 .. Len(rateSymbols) : rateSymbols[i] = s
  <2> SUFFICES ASSUME NEW s \in Reserves \intersect S
               PROVE  \E i \in 1 .. Len(rateSymbols) : rateSymbols[i] = s
    OBVIOUS
  <2>1. PICK i \in 1 .. Len(array) : array[i] = s BY <1>2, <1>5 DEF array
  <2>2. PICK j \in DOMAIN keep(array, S) : keep(array, S)[j] = array[i] BY <1>6, <2>1
  <2> QED BY <1>3, <1>7, <2>1, <2>2
<1> QED BY <1>8, <1>9 DEF S

\* A chunk of setOracleBorrowRates keeps the invariant.
LEMMA BorrowRatesSet ==
    ASSUME IInv, SetOracleBorrowRates
    PROVE  IInv'
<1> DEFINE syms == symbols(rateSymbols, ratesChunks)
           old == oracles[run.oracle].rates
<1>1. /\ RunOK /\ ChainOK /\ OracleAt /\ Running /\ step.do = "setOracleBorrowRates"
      /\ MinedChunk(rateSymbols, ratesChunks)
      /\ RatesSet(syms)
      /\ UNCHANGED <<db, registered, markets, started>>
  BY DEF SetOracleBorrowRates, At, IInv, RatesSet, RatesOf
<1>2. Migrating /\ place = 406 BY <1>1, OnlyInMigrations, PlacesOfSteps
<1>3. /\ rateSymbols \in Seq(Reserves) /\ run.chunk \in Nat
      /\ \A i \in 1 .. Len(rateSymbols) : rateSymbols[i] \in DOMAIN config.rates
  BY <1>1, RateSymbolsAre, RunIs
<1>4. syms = {rateSymbols[i] : i \in {j \in 1 .. Len(rateSymbols) :
                 run.chunk * ratesChunks < j /\ j <= (run.chunk + 1) * ratesChunks}}
  <2>1. ratesChunks \in Nat \ {0} BY DEF ratesChunks
  <2>2. PICK array : array = rateSymbols OBVIOUS
  <2>3. symbols(array, ratesChunks) = {array[i] : i \in {j \in 1 .. Len(array) :
                 run.chunk * ratesChunks < j /\ j <= (run.chunk + 1) * ratesChunks}}
    BY <1>3, <2>1, <2>2, SymbolsAre
  <2> QED BY <2>2, <2>3 DEF symbols
<1> HIDE DEF syms
<1>5. syms \subseteq DOMAIN config.rates BY <1>3, <1>4
<1>6. /\ run.oracle \in 1 .. Len(oracles)
      /\ \A i \in 1 .. Len(rateSymbols) :
           i <= run.chunk * ratesChunks => rateSymbols[i] \in DOMAIN old
  BY <1>1, <1>2 DEF OracleAt
<1>7. PICK r : /\ OracleOK(r) /\ Updated(oracles, oracles', run.oracle, r)
               /\ DOMAIN r.rates = syms \union DOMAIN old
  <2>1. PICK z : z = syms OBVIOUS
  <2>2. RatesSet(z) /\ z \subseteq DOMAIN config.rates BY <1>1, <1>5, <2>1 DEF RatesSet
  <2>3. ChainOK BY <1>1
  <2>4. \E r : /\ OracleOK(r) /\ Updated(oracles, oracles', run.oracle, r)
               /\ DOMAIN r.rates = z \union DOMAIN oracles[run.oracle].rates
    BY <1>6, <2>2, <2>3, RatesGrow
  <2> QED BY <2>1, <2>4
<1> HIDE DEF old
<1>8. /\ Moves
      /\ \/ /\ place' = place /\ run'.chunk = run.chunk + 1 /\ faults' = faults
            /\ (run.chunk + 1) * ratesChunks < Len(rateSymbols)
         \/ /\ (run.chunk + 1) * ratesChunks >= Len(rateSymbols)
            /\ run'.chunk = 0 /\ faults' = faults /\ NextPlace(place, place')
         \/ /\ run'.chunk = 0 /\ faults' = faults + 1 /\ faults < target.faults /\ Falls
  <2>1. PICK array : array = rateSymbols OBVIOUS
  <2>2. MinedChunk(array, ratesChunks) BY <1>1, <2>1 DEF MinedChunk
  <2>3. RunOK /\ Running /\ run.kind # "tokens" BY <1>1, <1>2 DEF Migrating
  <2>4. /\ Moves
        /\ \/ /\ place' = place /\ run'.chunk = run.chunk + 1 /\ faults' = faults
              /\ (run.chunk + 1) * ratesChunks < Len(array)
           \/ /\ (run.chunk + 1) * ratesChunks >= Len(array)
              /\ run'.chunk = 0 /\ faults' = faults
              /\ run.kind # "tokens" => NextPlace(place, place')
           \/ /\ run'.chunk = 0 /\ faults' = faults + 1 /\ faults < target.faults
              /\ run.kind # "tokens" => Falls
    BY <2>2, <2>3, MinedChunkMoves
  <2> QED BY <2>1, <2>3, <2>4
<1>9. place \in {405, 406, 407} BY <1>2
<1>10. /\ NextPlace(place, place') => place' = place + 1
       /\ Falls => place' <= place /\ place' \in Firsts
  BY <1>9, AfterTransaction
<1>11. /\ After(place, place')
       /\ \/ faults' = faults /\ place' \in {place, place + 1}
          \/ faults' = faults + 1 /\ faults < target.faults
  BY <1>8, <1>10 DEF After
<1>12. PICK o : o = run.oracle OBVIOUS
<1>13. Updated(oracles, oracles', o, r) /\ OracleOK(r) BY <1>7, <1>12
<1>14. /\ ChainOK' /\ Budget' /\ BookAt' /\ ProviderAt' /\ ListingAt'
       /\ rateSymbols' = rateSymbols /\ run'.oracle = o /\ o \in 1 .. Len(oracles')
  <2>1. Moves /\ UNCHANGED <<db, registered, markets, started>> BY <1>1, <1>8
  <2> QED BY <1>9, <1>11, <1>12, <1>13, <2>1, OracleChanges
<1>15. oracles'[run'.oracle] = r BY <1>13, <1>14 DEF Updated
<1>16. \A i \in 1 .. Len(rateSymbols) :
         i <= (run.chunk + 1) * ratesChunks => rateSymbols[i] \in DOMAIN r.rates
  <2> SUFFICES ASSUME NEW i \in 1 .. Len(rateSymbols), i <= (run.chunk + 1) * ratesChunks
               PROVE  rateSymbols[i] \in DOMAIN r.rates
    OBVIOUS
  <2>1. CASE i <= run.chunk * ratesChunks BY <1>6, <1>7, <2>1
  <2>2. CASE run.chunk * ratesChunks < i
    <3>1. rateSymbols[i] \in syms BY <1>4, <2>2
    <3> QED BY <1>7, <3>1
  <2>3. run.chunk * ratesChunks \in Nat BY <1>3 DEF ratesChunks
  <2> QED BY <2>1, <2>2, <2>3
<1>17. OracleAt'
  <2>1. CASE place' = place /\ run'.chunk = run.chunk + 1
    <3>1. place' = 406 BY <1>2, <2>1
    <3> QED BY <1>14, <1>15, <1>16, <2>1, <3>1 DEF OracleAt
  <2>2. CASE (run.chunk + 1) * ratesChunks >= Len(rateSymbols) /\ place' = place + 1
    <3>1. place' = 407 BY <1>2, <2>2
    <3>2. \A i \in 1 .. Len(rateSymbols) : rateSymbols[i] \in DOMAIN r.rates
      <4>1. \A i \in 1 .. Len(rateSymbols) : i <= (run.chunk + 1) * ratesChunks
        BY <1>3, <2>2 DEF ratesChunks
      <4> QED BY <1>16, <4>1
    <3> QED BY <1>14, <1>15, <3>1, <3>2 DEF OracleAt
  <2>3. CASE place' <= place /\ place' \in Firsts
    <3>1. place' \in Nat /\ place' <= 401 BY <1>2, <2>3 DEF Firsts
    <3> QED BY <3>1 DEF OracleAt
  <2> QED BY <1>8, <1>10, <2>1, <2>2, <2>3
<1> QED BY <1>8, <1>14, <1>17 DEF IInv, Moves
\* The registry in use.
LEMMA RegistryInUse ==
    ASSUME ChainOK, BookAt, place > 202
    PROVE  registry \in 1 .. Len(registered) /\ Len(registered) \in Nat
<1>1. Len(registered) \in Nat BY DEF ChainOK, IsSequence
<1>2. CASE Configured("ProviderRegistry")
  <2>1. registry = 1 /\ Len(registered) # 0 BY <1>2 DEF registry, ChainOK, BookOK
  <2> QED BY <1>1, <2>1
<1>3. CASE ~ Configured("ProviderRegistry")
  <2>1. found(Registry) BY <1>3 DEF BookAt
  <2>2. registry = db[Registry] /\ db[Registry] \in 1 .. Len(registered)
    BY <1>3, <2>1 DEF registry, ChainOK, BookOK
  <2> QED BY <1>1, <2>2
<1> QED BY <1>2, <1>3

\* registerAddressesProvider keeps the invariant.
LEMMA ProviderRegistered ==
    ASSUME IInv, RegisterAddressesProvider
    PROVE  IInv'
<1>1. /\ RunOK /\ ChainOK /\ Budget /\ BookAt /\ ProviderAt /\ ListingAt /\ OracleAt
      /\ Running /\ step.do = "registerAddressesProvider" /\ Mined
      /\ UNCHANGED <<db, markets, oracles, started>>
  BY DEF RegisterAddressesProvider, At, IInv
<1>2. Migrating /\ place = 204 BY <1>1, OnlyInMigrations, PlacesOfSteps
<1>3. /\ Moves /\ run'.chunk = 0
      /\ \/ faults' = faults /\ NextPlace(place, place')
         \/ faults' = faults + 1 /\ faults < target.faults /\ Falls
  BY <1>1, <1>2, MinedMoves DEF Migrating
<1>4. /\ NextPlace(place, place') => place' = place + 1
      /\ Falls => place' <= place /\ place' \in Firsts
  BY <1>2, AfterTransaction
<1>5. registry \in 1 .. Len(registered) /\ Len(registered) \in Nat
  BY <1>1, <1>2, RegistryInUse
<1>6. Updated(registered, registered', registry, registered[registry] \union {m})
  <2>1. IsSequence(registered) BY <1>1 DEF ChainOK
  <2>2. PICK n, e : n = registry /\ e = registered[registry] \union {m} OBVIOUS
  <2>3. registered' = [registered EXCEPT ![n] = e] BY <2>2 DEF RegisterAddressesProvider
  <2>4. n \in 1 .. Len(registered) BY <1>5, <2>2
  <2>5. Updated(registered, registered', n, e) BY <2>1, <2>3, <2>4, ExceptIs
  <2> QED BY <2>2, <2>5
<1>7. run'.target = run.target /\ run'.kind = run.kind BY <1>3 DEF Moves
<1>8. m' = m /\ registry' = registry BY <1>1, <1>7, SameRegistry
<1>9. /\ config' = config /\ reservesParams' = reservesParams /\ Reserves' = Reserves
      /\ Termed' = Termed
  BY <1>7, SameConfig
<1>10. ChainOK'
  <2>1. MarketsOK' BY <1>1, <1>9 DEF ChainOK, MarketsOK
  <2>2. OraclesOK' BY <1>1, <1>9 DEF ChainOK, OraclesOK
  <2>3. Len(registered') = Len(registered) BY <1>6 DEF Updated
  <2>4. BookOK'
    BY <1>1, <1>7, <1>9, <2>3 DEF ChainOK, BookOK, found, m, configurator, Configured
  <2>5. IsSequence(markets') /\ IsSequence(oracles') /\ IsSequence(registered')
    BY <1>1, <1>6 DEF ChainOK, Updated
  <2> QED BY <2>1, <2>2, <2>4, <2>5 DEF ChainOK
<1>11. place' \in Nat /\ (faults' = faults => place' = 205 \/ faults' = faults + 1)
  BY <1>2, <1>3, <1>4 DEF Moves
<1>12. Budget'
  <2>1. Len(markets) \in Nat /\ Len(markets') = Len(markets) BY <1>1 DEF ChainOK, IsSequence
  <2>2. \/ faults' = faults /\ (0 < place' /\ place' <= 203 => 0 < place /\ place <= 203)
        \/ faults' = faults + 1 /\ faults < target.faults
    BY <1>2, <1>3, <1>4
  <2> QED BY <1>1, <1>3, <2>1, <2>2, BudgetFrame
<1>13. BookAt'
  <2>1. place \notin {202, 203, 304, 307, 308, 309, 707} BY <1>2
  <2> QED BY <1>1, <1>3, <2>1, BookAtFrame
<1>14. OracleAt'
  <2>1. place \notin {403, 406, 407} BY <1>2
  <2> QED BY <1>1, <1>3, <2>1, OracleFrame
<1>15. market' = market BY <1>1, <1>8 DEF market
<1>16. ListingAt'
  <2>1. SameListing(market, market') BY <1>15 DEF SameListing
  <2>2. place \notin {203, 205, 703, 708, 710, 713, 714, 715, 716} BY <1>2
  <2> QED BY <1>1, <1>3, <1>8, <2>1, <2>2, ListingFrame
<1>17. m' \in registered'[registry'] BY <1>6, <1>8 DEF Updated
<1>18. place' <= 205
  <2>1. place' = place + 1 \/ place' <= place BY <1>3, <1>4
  <2> QED BY <1>2, <1>11, <2>1
<1>19. ProviderAt' BY <1>11, <1>17, <1>18 DEF ProviderAt
<1> QED BY <1>3, <1>10, <1>12, <1>13, <1>14, <1>16, <1>19 DEF IInv, Moves
-----------------------------------------------------------------------------
(* The steps that change neither the chain nor the address book.             *)

\* What a step keeps that changes neither the chain nor the address book.
LEMMA QuietKeeps ==
    ASSUME IInv, Goes, UNCHANGED <<db, chain, started>>,
           place' \in {406, 710, 715} => run'.chunk = 0,
           run'.kind = "tokens" => found(Provider) /\ found("LendingPoolConfigurator"),
           \/ faults' = faults /\ (0 < place' /\ place' <= 203 => 0 < place /\ place <= 203)
           \/ faults' = faults + 1 /\ faults < target.faults
    PROVE  /\ RunOK' /\ ChainOK' /\ Budget'
           /\ m' = m /\ market' = market /\ registry' = registry
           /\ place' <= place \/ place \notin {202, 203, 304, 307, 308, 309, 707} => BookAt'
           /\ /\ place > 409 => run'.oracle = run.oracle
              /\ \/ place' <= place
                 \/ place \notin {203, 204, 206, 303, 306, 408, 409, 718, 719, 721}
                 \/ place = 719 /\ NextPlace(place, place')
              => ProviderAt'
           /\ /\ place > 403 => run'.oracle = run.oracle
              /\ place' <= place \/ place \notin {403, 406, 407}
              => OracleAt'
           /\ /\ place > 703 => run'.admin = run.admin /\ run'.inputs = run.inputs
              /\ place' <= place \/ place \notin {203, 205, 703, 708, 710, 713, 714, 715, 716}
              => ListingAt'
<1>1. RunOK /\ ChainOK /\ Budget /\ BookAt /\ ProviderAt /\ ListingAt /\ OracleAt BY DEF IInv
<1>2. RunOK' /\ run'.target = run.target BY DEF Goes
<1>3. db' = db /\ markets' = markets /\ oracles' = oracles /\ registered' = registered
      /\ started' = started
  BY DEF chain
<1>4. m' = m /\ registry' = registry BY <1>2, <1>3, SameRegistry
<1>5. market' = market BY <1>3, <1>4 DEF market
<1>6. ChainOK' BY <1>1, <1>2, ChainFrame
<1>7. Budget'
  <2>1. Len(markets) \in Nat /\ Len(markets') = Len(markets) BY <1>1, <1>3 DEF ChainOK, IsSequence
  <2> QED BY <1>1, <1>3, <2>1, BudgetStays
<1>8. place' <= place \/ place \notin {202, 203, 304, 307, 308, 309, 707} => BookAt'
  BY <1>1, <1>3, BookAtStays
<1>9. SameFlags(market, market') /\ SameListing(market, market')
  BY <1>5 DEF SameFlags, SameListing
<1>10. /\ place > 409 => run'.oracle = run.oracle
       /\ \/ place' <= place
          \/ place \notin {203, 204, 206, 303, 306, 408, 409, 718, 719, 721}
          \/ place = 719 /\ NextPlace(place, place')
       => ProviderAt'
  <2>1. registered[registry] \subseteq registered'[registry] BY <1>3
  <2> QED BY <1>1, <1>4, <1>9, <2>1, ProviderStays
<1>11. /\ place > 403 => run'.oracle = run.oracle
       /\ place' <= place \/ place \notin {403, 406, 407}
       => OracleAt'
  BY <1>1, <1>3, OracleStays
<1>12. /\ place > 703 => run'.admin = run.admin /\ run'.inputs = run.inputs
       /\ place' <= place \/ place \notin {203, 205, 703, 708, 710, 713, 714, 715, 716}
       => ListingAt'
  BY <1>1, <1>4, <1>9, ListingStays
<1> QED BY <1>2, <1>4, <1>5, <1>6, <1>7, <1>8, <1>10, <1>11, <1>12

\* The two entries of the address book that the operator needs to fill in reserves.
LEMMA EntriesForTokens ==
    ASSUME ChainOK
    PROVE  run.kind = "tokens" => found(Provider) /\ found("LendingPoolConfigurator")
BY DEF ChainOK, BookOK

\* A step that goes on without having set, listed or entered anything.
LEMMA NothingDone ==
    ASSUME IInv, Running, Continue(run), UNCHANGED <<db, chain, started>>,
           place \notin {202, 203, 204, 205, 206, 303, 304, 306, 307, 308, 309, 403, 406, 407, 408,
                         409, 703, 707, 708, 710, 713, 714, 715, 716, 718, 721},
           run.kind # "tokens" => place # 0
    PROVE  IInv'
<1>1. RunOK /\ ChainOK BY DEF IInv
<1>2. /\ Moves /\ run'.chunk = 0 /\ faults' = faults
      /\ run.kind # "tokens" => NextPlace(place, place')
  BY <1>1, ContinueMoves
<1>3. Goes /\ run'.oracle = run.oracle /\ run'.admin = run.admin /\ run'.inputs = run.inputs
  BY <1>2, MovesGo
<1>4. place \in Places /\ place \in Nat /\ place' \in Nat /\ run'.kind = run.kind
      /\ (run.kind = "tokens" => place = 0 /\ place' = 0)
  BY <1>2 DEF Moves
<1>5. 0 < place' /\ place' <= 203 => 0 < place /\ place <= 203
  <2>1. CASE run.kind = "tokens" BY <1>4, <2>1
  <2>2. CASE run.kind # "tokens"
    <3>1. place' > place BY <1>2, <1>4, <2>2, NextIsLater
    <3> QED BY <1>4, <2>2, <3>1
  <2> QED BY <2>1, <2>2
<1>6. /\ place \notin {202, 203, 304, 307, 308, 309, 707}
      /\ place \notin {403, 406, 407}
      /\ place \notin {203, 205, 703, 708, 710, 713, 714, 715, 716}
  OBVIOUS
<1>7. \/ place \notin {203, 204, 206, 303, 306, 408, 409, 718, 719, 721}
      \/ place = 719 /\ NextPlace(place, place')
  <2>1. place = 719 => NextPlace(place, place') BY <1>2, <1>4
  <2> QED BY <2>1
<1>8. run'.kind = "tokens" => found(Provider) /\ found("LendingPoolConfigurator")
  BY <1>1, <1>4, EntriesForTokens
<1>9. /\ RunOK' /\ ChainOK' /\ Budget'
      /\ place' <= place \/ place \notin {202, 203, 304, 307, 308, 309, 707} => BookAt'
      /\ /\ place > 409 => run'.oracle = run.oracle
         /\ \/ place' <= place
            \/ place \notin {203, 204, 206, 303, 306, 408, 409, 718, 719, 721}
            \/ place = 719 /\ NextPlace(place, place')
         => ProviderAt'
      /\ /\ place > 403 => run'.oracle = run.oracle
         /\ place' <= place \/ place \notin {403, 406, 407}
         => OracleAt'
      /\ /\ place > 703 => run'.admin = run.admin /\ run'.inputs = run.inputs
         /\ place' <= place \/ place \notin {203, 205, 703, 708, 710, 713, 714, 715, 716}
         => ListingAt'
  BY <1>2, <1>3, <1>5, <1>8, QuietKeeps
<1> QED BY <1>3, <1>6, <1>7, <1>9 DEF IInv
\* A getter: past the registry's a migration knows where it registers.
LEMMA Found ==
    ASSUME IInv, FindStep
    PROVE  IInv'
<1>1. /\ RunOK /\ Running /\ step.do = "find" /\ Findable(step.of) /\ Continue(run)
      /\ UNCHANGED <<db, chain, started>>
  BY DEF FindStep, At, IInv
<1>2. CASE run.kind = "tokens"
  <2>1. place = 0 BY <1>2 DEF place, placeOf
  <2> QED BY <1>1, <1>2, <2>1, NothingDone
<1>3. CASE run.kind # "tokens"
  <2>1. Migrating BY <1>1, <1>3 DEF Migrating
  <2>2. place \in {202, 301, 401, 404, 501, 701, 702, 704, 705, 709, 711, 712, 720}
    BY <1>1, <2>1, PlacesOfSteps
  <2>3. CASE place # 202 BY <1>1, <2>2, <2>3, NothingDone
  <2>4. CASE place = 202
    <3>1. step.of = Registry
      <4>1. Head(run.tasks) = "address-provider"
        <5>1. Head(run.tasks) \in MigrationTasks BY <1>1, <2>1, PlaceInTask
        <5> QED BY <1>1, <2>1, <2>4, <5>1, RegistrySteps, LendingPoolSteps, OracleSteps,
              DataProviderSteps, WethGatewaySteps, InitializeSteps DEF MigrationTasks
      <4>2. step = Find(Registry) BY <1>1, <2>1, <2>4, <4>1, AddressProviderSteps
      <4> QED BY <4>2 DEF Find, Step
    <3>2. Configured("ProviderRegistry") \/ found(Registry)
      BY <1>1, <3>1 DEF Findable, Registry
    <3>3. /\ Moves /\ run'.chunk = 0 /\ faults' = faults /\ NextPlace(place, place')
      BY <1>1, <1>3, ContinueMoves
    <3>4. place' = 203 BY <2>4, <3>3 DEF NextPlace
    <3>5. Goes /\ run'.oracle = run.oracle /\ run'.admin = run.admin /\ run'.inputs = run.inputs
          /\ run'.kind = run.kind /\ run'.target = run.target
      BY <3>3, MovesGo DEF Moves
    <3>6. run'.kind = "tokens" => found(Provider) /\ found("LendingPoolConfigurator")
      BY <1>3, <3>5
    <3>7. faults' = faults /\ (0 < place' /\ place' <= 203 => 0 < place /\ place <= 203)
      BY <2>4, <3>3
    <3>8. /\ place \notin {403, 406, 407}
          /\ place \notin {203, 205, 703, 708, 710, 713, 714, 715, 716}
          /\ place \notin {203, 204, 206, 303, 306, 408, 409, 718, 719, 721}
      BY <2>4
    <3>9. RunOK' /\ ChainOK' /\ Budget' /\ ProviderAt' /\ OracleAt' /\ ListingAt'
      BY <1>1, <3>3, <3>5, <3>6, <3>7, <3>8, QuietKeeps
    <3>10. BookAt'
      <4>1. Configured("ProviderRegistry")' = Configured("ProviderRegistry") BY <3>5, SameConfig
      <4>2. db' = db BY <1>1
      <4> QED BY <3>2, <3>4, <4>1, <4>2 DEF BookAt, found
    <3> QED BY <3>9, <3>10 DEF IInv
  <2> QED BY <2>3, <2>4
<1> QED BY <1>2, <1>3

\* A check of the configuration keeps the invariant.
LEMMA Checked ==
    ASSUME IInv, CheckStep
    PROVE  IInv'
<1>1. /\ RunOK /\ Running /\ step.do = "check" /\ Continue(run)
      /\ UNCHANGED <<db, chain, started>>
  BY DEF CheckStep, At, IInv
<1>2. Migrating /\ place = 201 BY <1>1, OnlyInMigrations, PlacesOfSteps
<1> QED BY <1>1, <1>2, NothingDone

\* There is something to list at the place of the migrations.
LEMMA NothingInitialised ==
    ASSUME IInv, NothingToInit
    PROVE  IInv' /\ place = 0
<1>1. /\ RunOK /\ ListingAt /\ Running /\ step.do = "batchInitReserve" /\ Continue(run)
      /\ run.inputs = <<>> /\ UNCHANGED <<db, chain, started>>
  BY DEF NothingToInit, At, IInv
<1>2. run.kind = "tokens"
  <2> SUFFICES ASSUME run.kind # "tokens" PROVE FALSE
    OBVIOUS
  <2>1. place = 710 BY <1>1, PlacesOfSteps DEF Migrating
  <2>2. run.chunk * initChunks < Len(run.inputs) BY <1>1, <2>1 DEF ListingAt
  <2>3. run.chunk \in Nat BY <1>1, RunIs
  <2>4. run.chunk * initChunks \in Nat BY <2>3 DEF initChunks
  <2>5. Len(run.inputs) = 0 BY <1>1
  <2> QED BY <2>2, <2>4, <2>5
<1>3. place = 0 BY <1>2 DEF place, placeOf
<1> QED BY <1>1, <1>2, <1>3, NothingDone

\* A failed call, with or without an answer, leaves what is there.
LEMMA Failed ==
    ASSUME IInv, Running, Moves, run'.chunk = 0, UNCHANGED <<db, chain, started>>,
           run.kind # "tokens" => Falls,
           \/ faults' = faults /\ (0 < place' /\ place' <= 203 => 0 < place /\ place <= 203)
           \/ faults' = faults + 1 /\ faults < target.faults
    PROVE  IInv'
<1>1. Goes /\ run'.oracle = run.oracle /\ run'.admin = run.admin /\ run'.inputs = run.inputs
      /\ run'.kind = run.kind
  BY MovesGo DEF Moves
<1>2. place' <= place
  <2>1. CASE run.kind = "tokens" BY <2>1 DEF Moves
  <2>2. CASE run.kind # "tokens" BY <2>2 DEF Falls
  <2> QED BY <2>1, <2>2
<1>3. run'.kind = "tokens" => found(Provider) /\ found("LendingPoolConfigurator")
  BY <1>1, EntriesForTokens DEF IInv
<1>4. RunOK' /\ ChainOK' /\ Budget' /\ BookAt' /\ ProviderAt' /\ OracleAt' /\ ListingAt'
  BY <1>1, <1>2, <1>3, QuietKeeps
<1> QED BY <1>4 DEF IInv

\* A call that fails keeps the invariant.
LEMMA CallFailed ==
    ASSUME IInv, CallFails
    PROVE  IInv'
<1>1. RunOK /\ Running /\ Break /\ UNCHANGED <<db, chain, started>> BY DEF CallFails, IInv
<1>2. /\ Moves /\ run'.chunk = 0 /\ faults' = faults + 1 /\ faults < target.faults
      /\ run.kind # "tokens" => Falls
  BY <1>1, BreakMoves
<1> QED BY <1>1, <1>2, Failed

\* Nothing throws between the deployment of a provider and the end of its task.
LEMMA Thrown ==
    ASSUME IInv, Throws
    PROVE  IInv'
<1>1. /\ RunOK /\ Running /\ throws /\ run' = failed(run)
      /\ UNCHANGED <<db, chain, started, faults>>
  BY DEF Throws, IInv
<1>2. run' = [failed(run) EXCEPT !.clean = run.clean]
  <2>1. run = [status |-> run.status, kind |-> run.kind, tasks |-> run.tasks, pc |-> run.pc,
               chunk |-> run.chunk, oracle |-> run.oracle, admin |-> run.admin,
               inputs |-> run.inputs, clean |-> run.clean, target |-> run.target]
    BY <1>1 DEF RunOK, IsRun
  <2> QED BY <1>1, <2>1 DEF failed
<1>3. run.clean \in BOOLEAN BY <1>1 DEF RunOK, IsRun
<1>4. /\ Moves /\ run'.chunk = 0
      /\ run.kind # "tokens" => Falls
  BY <1>1, <1>2, <1>3, FailMoves
<1>5. 0 < place' /\ place' <= 203 => 0 < place /\ place <= 203
  <2>1. CASE run.kind = "tokens" BY <1>4, <2>1 DEF Moves
  <2>2. CASE run.kind # "tokens"
    <3>1. Migrating BY <1>1, <2>2 DEF Migrating
    <3>2. /\ Head(run.tasks) \in MigrationTasks
          /\ place = Rank(Head(run.tasks)) + run.pc /\ place > 0
      BY <1>1, <3>1, PlaceInTask, MigrationIsSomewhere
    <3>3. place' = Rank(Head(run.tasks)) + 1
      <4>1. run'.tasks = run.tasks /\ run'.kind = run.kind /\ run'.status = "failed"
        BY <1>1, <1>2, <1>3, Fails
      <4> QED BY <2>2, <4>1 DEF place, placeOf
    <3>4. CASE Head(run.tasks) = "address-provider-registry"
      BY <1>1, <3>1, <3>2, <3>4, RegistrySteps
    <3>5. CASE Head(run.tasks) = "address-provider"
      <4>1. /\ place \in 201 .. 206
            /\ place = 204 => step = Tx("registerAddressesProvider")
            /\ place = 205 => step = Tx("setGenesisAdmin")
            /\ place = 206 => step = Tx("setEmergencyAdmin")
        BY <1>1, <3>1, <3>5, AddressProviderSteps
      <4>2. \A f : Tx(f).do = f BY DEF Tx, Step
      <4>3. step.do \notin {"registerAddressesProvider", "setGenesisAdmin", "setEmergencyAdmin"}
        BY <1>1 DEF throws
      <4>4. place \notin 204 .. 206 BY <4>1, <4>2, <4>3
      <4> QED BY <4>1, <4>4
    <3>6. CASE Head(run.tasks) \notin {"address-provider-registry", "address-provider"}
      <4>1. Rank(Head(run.tasks)) >= 300 BY <3>2, <3>6 DEF MigrationTasks, Rank
      <4>2. Rank(Head(run.tasks)) \in Nat BY <3>2, FirstsOfTasks
      <4> QED BY <3>3, <4>1, <4>2
    <3> QED BY <3>4, <3>5, <3>6
  <2> QED BY <2>1, <2>2
<1> QED BY <1>1, <1>4, <1>5, Failed
-----------------------------------------------------------------------------
(* What the process reads.                                                   *)

\* The process with another oracle, admin, or inputs.
RunWith(oracle, admin, inputs) ==
    [status |-> run.status, kind |-> run.kind, tasks |-> run.tasks, pc |-> run.pc,
     chunk |-> run.chunk, oracle |-> oracle, admin |-> admin, inputs |-> inputs,
     clean |-> run.clean, target |-> run.target]

\* A process that has read something is a process.
LEMMA RunWithIs ==
    ASSUME RunOK, NEW oracle \in Nat, NEW admin, NEW inputs, NEW r,
           r = RunWith(oracle, admin, inputs)
    PROVE  /\ IsRun(r) /\ r.status = run.status /\ r.kind = run.kind /\ r.tasks = run.tasks
           /\ r.pc = run.pc /\ r.target = run.target
           /\ r.oracle = oracle /\ r.admin = admin /\ r.inputs = inputs
<1>1. /\ r.status = run.status /\ r.kind = run.kind /\ r.tasks = run.tasks
      /\ r.pc = run.pc /\ r.chunk = run.chunk /\ r.target = run.target
      /\ r.oracle = oracle /\ r.admin = admin /\ r.inputs = inputs /\ r.clean = run.clean
  BY DEF RunWith
<1>2. r = [status |-> r.status, kind |-> r.kind, tasks |-> r.tasks, pc |-> r.pc,
           chunk |-> r.chunk, oracle |-> r.oracle, admin |-> r.admin, inputs |-> r.inputs,
           clean |-> r.clean, target |-> r.target]
  BY DEF RunWith
<1>3. /\ run.status \in {"idle", "running", "failed", "done"}
      /\ run.kind \in {"", "migration", "repeat", "tokens"}
      /\ run.chunk \in Nat /\ run.clean \in BOOLEAN /\ run.target \in Targets
  BY DEF RunOK, IsRun
<1>4. IsRun(r) BY <1>1, <1>2, <1>3, Zenon DEF IsRun
<1> QED BY <1>1, <1>4

\* The ways a process reads.
LEMMA RunWithExcept ==
    ASSUME RunOK
    PROVE  /\ \A v : [run EXCEPT !.oracle = v] = RunWith(v, run.admin, run.inputs)
           /\ \A v : [run EXCEPT !.admin = v] = RunWith(run.oracle, v, run.inputs)
           /\ \A v : [run EXCEPT !.inputs = v] = RunWith(run.oracle, run.admin, v)
           /\ run = RunWith(run.oracle, run.admin, run.inputs)
<1>1. run = [status |-> run.status, kind |-> run.kind, tasks |-> run.tasks, pc |-> run.pc,
             chunk |-> run.chunk, oracle |-> run.oracle, admin |-> run.admin,
             inputs |-> run.inputs, clean |-> run.clean, target |-> run.target]
  BY DEF RunOK, IsRun
<1>2. \A v : [run EXCEPT !.oracle = v] = RunWith(v, run.admin, run.inputs) BY <1>1 DEF RunWith
<1>3. \A v : [run EXCEPT !.admin = v] = RunWith(run.oracle, v, run.inputs) BY <1>1 DEF RunWith
<1>4. \A v : [run EXCEPT !.inputs = v] = RunWith(run.oracle, run.admin, v) BY <1>1 DEF RunWith
<1> QED BY <1>1, <1>2, <1>3, <1>4 DEF RunWith

\* The process goes on with what it has read.
LEMMA ReadsOn ==
    ASSUME RunOK, Running, NEW oracle \in Nat, NEW admin, NEW inputs \in Seq(Reserves),
           Continue(RunWith(oracle, admin, inputs))
    PROVE  /\ Goes /\ run'.chunk = 0 /\ faults' = faults /\ run'.kind = run.kind
           /\ run'.oracle = oracle /\ run'.admin = admin /\ run'.inputs = inputs
           /\ run.kind = "tokens" => place = 0 /\ place' = 0
           /\ run.kind # "tokens" => NextPlace(place, place')
<1>1. run.pc \in run.pc .. Len(program)
  <2>1. run.pc \in 1 .. Len(program) BY DEF RunOK
  <2>2. Len(program) \in Nat
    <3>1. CASE run.kind = "tokens"
      <4>1. program = Task("initialize-tokens") BY <3>1 DEF RunOK, program
      <4>2. Size("initialize-tokens") = 6 BY SizesOfTasks
      <4> QED BY <4>1, <4>2 DEF Size
    <3>2. CASE run.kind # "tokens"
      <4>1. Head(run.tasks) \in MigrationTasks BY <3>2, PlaceInTask DEF Migrating
      <4>2. Size(Head(run.tasks)) \in Nat BY <4>1, SizesAreNat
      <4> QED BY <4>2 DEF Size, program
    <3> QED BY <3>1, <3>2
  <2> QED BY <2>1, <2>2
<1>2. PICK r : r = RunWith(oracle, admin, inputs) OBVIOUS
<1>3. /\ IsRun(r) /\ r.status = run.status /\ r.kind = run.kind /\ r.tasks = run.tasks
      /\ r.pc = run.pc /\ r.target = run.target
      /\ r.oracle = oracle /\ r.admin = admin /\ r.inputs = inputs
  BY <1>2, RunWithIs
<1>4. run' = proceed(r) /\ faults' = faults BY <1>2 DEF Continue
<1>5. r.status = "running" /\ r.inputs \in Seq(Reserves) /\ r.pc \in run.pc .. Len(program)
  BY <1>1, <1>3 DEF Running
<1>6. /\ RunOK' /\ SameRun(r, run') /\ run'.chunk = 0
      /\ run.kind = "tokens" => place' = 0
      /\ run.kind # "tokens" => NextPlace(Rank(Head(run.tasks)) + r.pc, place')
  BY <1>3, <1>4, <1>5, Proceeds
<1>7. run.kind # "tokens" => place = Rank(Head(run.tasks)) + run.pc
  BY PlaceInTask DEF Migrating
<1>8. run.kind = "tokens" => place = 0 BY DEF place, placeOf
<1>9. run.kind # "tokens" => NextPlace(place, place') BY <1>3, <1>6, <1>7
<1>10. /\ run'.kind = run.kind /\ run'.target = run.target
       /\ run'.oracle = oracle /\ run'.admin = admin /\ run'.inputs = inputs
  BY <1>3, <1>6 DEF SameRun
<1>11. place \in Places BY PlaceIs
<1>12. place \in Nat /\ Crosses(place, place) BY <1>11, StayCrosses
<1>13. Crosses(place, place') /\ place' \in Nat
  <2>1. CASE run.kind # "tokens" BY <1>9, <1>11, <2>1, NextCrosses
  <2>2. CASE run.kind = "tokens"
    <3>1. place' = place BY <1>6, <1>8, <2>2
    <3> QED BY <1>12, <3>1
  <2> QED BY <2>1, <2>2
<1>14. Goes BY <1>6, <1>10, <1>11, <1>12, <1>13 DEF Goes
<1> QED BY <1>4, <1>6, <1>8, <1>9, <1>10, <1>14

\* A contract of the configuration is used; the rate oracle becomes the process's.
LEMMA Reused ==
    ASSUME IInv, ReuseStep
    PROVE  IInv'
<1>1. /\ RunOK /\ ChainOK /\ Running /\ step.do = "reuse" /\ Configured(step.of)
      /\ UNCHANGED <<db, chain, started>>
  BY DEF ReuseStep, At, IInv
<1>2. Migrating /\ place \in {302, 305, 402, 403, 601, 717}
  BY <1>1, OnlyInMigrations, PlacesOfSteps
<1>3. place # 403 => step.of # "LendingRateOracle" 
  <2>1. Head(run.tasks) \in MigrationTasks BY <1>1, <1>2, PlaceInTask
  <2>2. /\ place = 302 => step = Reuse("LendingPool")
        /\ place = 305 => step = Reuse("LendingPoolConfigurator")
        /\ place = 402 => step = Reuse("AaveOracle")
        /\ place = 601 => step = Reuse("WethGateway")
        /\ place = 717 => step = Reuse("LendingPoolCollateralManager")
    BY <1>1, <1>2, <2>1, RegistrySteps, AddressProviderSteps, LendingPoolSteps, OracleSteps,
       DataProviderSteps, WethGatewaySteps, InitializeSteps DEF MigrationTasks
  <2>3. \A c : Reuse(c).of = c BY DEF Reuse, Step
  <2> QED BY <1>2, <2>2, <2>3
<1>4. CASE place # 403
  <2>1. Continue(run) BY <1>3, <1>4 DEF ReuseStep
  <2> QED BY <1>1, <1>2, <1>4, <2>1, NothingDone
<1>5. CASE place = 403
  <2>1. step.of = "LendingRateOracle"
    <3>1. Head(run.tasks) \in MigrationTasks BY <1>1, <1>2, PlaceInTask
    <3>2. step = Reuse("LendingRateOracle")
      BY <1>1, <1>2, <1>5, <3>1, RegistrySteps, AddressProviderSteps, LendingPoolSteps, OracleSteps,
         DataProviderSteps, WethGatewaySteps, InitializeSteps DEF MigrationTasks
    <3> QED BY <3>2 DEF Reuse, Step
  <2>2. Continue(RunWith(1, run.admin, run.inputs)) BY <1>1, <2>1, RunWithExcept DEF ReuseStep
  <2>3. run.inputs \in Seq(Reserves) BY <1>1, RunIs
  <2>4. /\ Goes /\ run'.chunk = 0 /\ faults' = faults /\ run'.kind = run.kind
        /\ run'.oracle = 1 /\ run'.admin = run.admin /\ run'.inputs = run.inputs
        /\ NextPlace(place, place')
    BY <1>1, <1>2, <2>2, <2>3, ReadsOn DEF Migrating
  <2>5. place' = 404 BY <1>5, <2>4 DEF NextPlace
  <2>6. run'.kind = "tokens" => found(Provider) /\ found("LendingPoolConfigurator")
    BY <1>2, <2>4 DEF Migrating
  <2>7. faults' = faults /\ (0 < place' /\ place' <= 203 => 0 < place /\ place <= 203)
    BY <2>4, <2>5
  <2>8. /\ place \notin {202, 203, 304, 307, 308, 309, 707}
        /\ place \notin {203, 204, 206, 303, 306, 408, 409, 718, 719, 721}
        /\ place \notin {203, 205, 703, 708, 710, 713, 714, 715, 716}
        /\ ~ (place > 409) /\ ~ (place > 703)
    BY <1>5
  <2>9. RunOK' /\ ChainOK' /\ Budget' /\ BookAt' /\ ProviderAt' /\ ListingAt'
    BY <1>1, <2>4, <2>6, <2>7, <2>8, QuietKeeps
  <2>10. OracleAt'
    <3>1. oracles' = oracles BY <1>1 DEF chain
    <3>2. Len(oracles) \in Nat /\ Len(oracles) # 0
      BY <1>1, <2>1 DEF ChainOK, IsSequence, BookOK
    <3>3. run'.oracle \in 1 .. Len(oracles') BY <2>4, <3>1, <3>2
    <3> QED BY <2>5, <3>3 DEF OracleAt
  <2> QED BY <2>9, <2>10 DEF IInv
<1> QED BY <1>4, <1>5
\* The steps at the places where something is read, entered or deployed.
LEMMA StepIs ==
    ASSUME RunOK, Migrating
    PROVE  /\ place = 101 => step = Deploy(Registry)
           /\ place = 203 => step = Deploy(Provider)
           /\ place = 302 => step = Reuse("LendingPool")
           /\ place = 304 => step = Insert("LendingPool")
           /\ place = 305 => step = Reuse("LendingPoolConfigurator")
           /\ place = 307 => step = Insert("LendingPoolConfigurator")
           /\ place = 308 => step = Deploy("StableAndVariableTokensHelper")
           /\ place = 309 => step = Deploy("ATokensAndRatesHelper")
           /\ place = 402 => step = Reuse("AaveOracle")
           /\ place = 403 => step = Reuse("LendingRateOracle")
           /\ place = 502 => step = Deploy("AaveProtocolDataProvider")
           /\ place = 601 => step = Reuse("WethGateway")
           /\ place = 703 => step = Read("poolAdmin")
           /\ place = 706 => step = Deploy("TokenImplementations")
           /\ place = 707 => step = Deploy("Strategies")
           /\ place = 708 => step = Read("reserves")
           /\ place = 713 => step = Read("unconfigured")
           /\ place = 717 => step = Reuse("LendingPoolCollateralManager")
           /\ place = 719 => step = Deploy("WalletBalanceProvider")
<1>1. Head(run.tasks) \in MigrationTasks BY PlaceInTask
<1>2. CASE Head(run.tasks) = "address-provider-registry" BY <1>2, RegistrySteps
<1>3. CASE Head(run.tasks) = "address-provider" BY <1>3, AddressProviderSteps
<1>4. CASE Head(run.tasks) = "lending-pool" BY <1>4, LendingPoolSteps
<1>5. CASE Head(run.tasks) = "oracles" BY <1>5, OracleSteps
<1>6. CASE Head(run.tasks) = "data-provider" BY <1>6, DataProviderSteps
<1>7. CASE Head(run.tasks) = "weth-gateway" BY <1>7, WethGatewaySteps
<1>8. CASE Head(run.tasks) = "initialize-lending-pool" BY <1>8, InitializeSteps
<1> QED BY <1>1, <1>2, <1>3, <1>4, <1>5, <1>6, <1>7, <1>8 DEF MigrationTasks

\* The reserves that are left to configure, and those left to list.
LEMMA UnconfiguredAre ==
    ASSUME RunOK
    PROVE  /\ unconfigured \in Seq(Reserves)
           /\ \A i \in 1 .. Len(unconfigured) : unconfigured[i] \in Termed
           /\ DOMAIN market.terms = {} =>
                \A s \in Termed : \E i \in 1 .. Len(unconfigured) : unconfigured[i] = s
<1> DEFINE S == {s \in DOMAIN reservesParams : HasTerms(s) /\ ~ alreadyEnabled(s)}
           array == config.order
<1>1. WellFormed(config) BY RunIs, ConfigOK
<1>2. array \in Seq(Reserves) /\ \A s \in Reserves : \E i \in DOMAIN array : array[i] = s
  BY <1>1 DEF WellFormed, Reserves, reservesParams
<1>3. unconfigured = keep(array, S) BY DEF unconfigured
<1>4. S \subseteq Termed BY DEF Termed, Reserves
<1>5. DOMAIN market.terms = {} => S = Termed BY DEF alreadyEnabled, Termed, Reserves
<1>6. Termed \subseteq Reserves BY DEF Termed
<1>7. DOMAIN array = 1 .. Len(array) BY <1>2
<1> HIDE DEF array, S
<1>8. /\ keep(array, S) \in Seq(Reserves \intersect S)
      /\ \A i \in 1 .. Len(array) : array[i] \in S =>
           \E j \in DOMAIN keep(array, S) : keep(array, S)[j] = array[i]
  <2>1. array \in Seq(Reserves) BY <1>2
  <2> QED BY <2>1, KeepIs
<1>9. PICK u : u = keep(array, S) OBVIOUS
<1>10. u \in Seq(Reserves) /\ u \in Seq(S) /\ DOMAIN u = 1 .. Len(u)
  <2>1. u \in Seq(Reserves \intersect S) BY <1>8, <1>9
  <2> QED BY <2>1
<1>11. \A i \in 1 .. Len(u) : u[i] \in Termed
  <2>1. \A i \in 1 .. Len(u) : u[i] \in S BY <1>10
  <2> QED BY <1>4, <2>1
<1>12. DOMAIN market.terms = {} => \A s \in Termed : \E i \in 1 .. Len(u) : u[i] = s
  <2> SUFFICES ASSUME DOMAIN market.terms = {}, NEW s \in Termed
               PROVE  \E i \in 1 .. Len(u) : u[i] = s
    OBVIOUS
  <2>1. PICK i \in 1 .. Len(array) : array[i] = s BY <1>2, <1>6, <1>7
  <2>2. array[i] \in S BY <1>5, <2>1
  <2>3. PICK j \in DOMAIN u : u[j] = array[i] BY <1>8, <1>9, <2>2
  <2> QED BY <1>10, <2>1, <2>3
<1> QED BY <1>3, <1>9, <1>10, <1>11, <1>12

\* What is not initialised is an array of reserves.
LEMMA UninitialisedAre ==
    ASSUME RunOK
    PROVE  uninitialised \in Seq(Reserves)
<1> DEFINE S == {s \in config.assets : s \notin DOMAIN market.listed}
           array == config.order
<1>1. WellFormed(config) BY RunIs, ConfigOK
<1>2. array \in Seq(Reserves) BY <1>1 DEF WellFormed, Reserves, reservesParams
<1>3. uninitialised = keep(array, S) BY DEF uninitialised
<1> HIDE DEF array, S
<1>4. /\ keep(array, S) \in Seq(Reserves \intersect S)
      /\ \A i \in 1 .. Len(array) : array[i] \in S =>
           \E j \in DOMAIN keep(array, S) : keep(array, S)[j] = array[i]
  BY <1>2, KeepIs
<1>5. PICK u : u = keep(array, S) OBVIOUS
<1>6. u \in Seq(Reserves)
  <2>1. u \in Seq(Reserves \intersect S) BY <1>4, <1>5
  <2> QED BY <2>1
<1> QED BY <1>3, <1>5, <1>6
\* Having read something, the process is where it would be without.
LEMMA ReadKeeps ==
    ASSUME IInv, Running, Goes, UNCHANGED <<db, chain, started>>, run'.chunk = 0,
           faults' = faults, run'.kind = run.kind, run'.oracle = run.oracle,
           \/ run.kind = "tokens" /\ place = 0 /\ place' = 0
           \/ run.kind # "tokens" /\ place \in {703, 708, 713} /\ place' > 703
    PROVE  /\ RunOK' /\ ChainOK' /\ Budget' /\ BookAt' /\ ProviderAt' /\ OracleAt'
           /\ m' = m /\ market' = market /\ Reserves' = Reserves /\ Termed' = Termed
           /\ reservesParams' = reservesParams /\ config' = config
           /\ place = 0 => ListingAt'
<1>1. run'.kind = "tokens" => found(Provider) /\ found("LendingPoolConfigurator")
  BY EntriesForTokens DEF IInv
<1>2. 0 < place' /\ place' <= 203 => 0 < place /\ place <= 203 BY DEF Goes
<1>3. /\ place \notin {202, 203, 304, 307, 308, 309, 707}
      /\ place \notin {203, 204, 206, 303, 306, 408, 409, 718, 719, 721}
      /\ place \notin {403, 406, 407}
  OBVIOUS
<1>4. /\ RunOK' /\ ChainOK' /\ Budget' /\ BookAt' /\ ProviderAt' /\ OracleAt'
      /\ m' = m /\ market' = market
      /\ /\ place > 703 => run'.admin = run.admin /\ run'.inputs = run.inputs
         /\ place' <= place \/ place \notin {203, 205, 703, 708, 710, 713, 714, 715, 716}
         => ListingAt'
  BY <1>1, <1>2, <1>3, QuietKeeps
<1>5. place = 0 => ListingAt' BY <1>4
<1>6. Reserves' = Reserves /\ Termed' = Termed /\ reservesParams' = reservesParams /\ config' = config
  BY SameConfig DEF Goes
<1> QED BY <1>4, <1>5, <1>6

\* Reading the pool admin keeps the invariant.
LEMMA AdminRead ==
    ASSUME IInv, Running, run.kind # "tokens", place = 703,
           Continue([run EXCEPT !.admin = market.admin]), UNCHANGED <<db, chain, started>>
    PROVE  IInv'
<1>1. RunOK /\ ListingAt BY DEF IInv
<1>2. PICK v : v = market.admin OBVIOUS
<1>3. Continue(RunWith(run.oracle, v, run.inputs)) BY <1>1, <1>2, RunWithExcept
<1>4. run.inputs \in Seq(Reserves) /\ run.oracle \in Nat BY <1>1, RunIs
<1>5. /\ Goes /\ run'.chunk = 0 /\ faults' = faults /\ run'.kind = run.kind
      /\ run'.oracle = run.oracle /\ run'.admin = v /\ NextPlace(place, place')
  BY <1>1, <1>3, <1>4, ReadsOn
<1>6. place' = 704 BY <1>5 DEF NextPlace
<1>7. /\ RunOK' /\ ChainOK' /\ Budget' /\ BookAt' /\ ProviderAt' /\ OracleAt'
      /\ m' = m /\ market' = market /\ reservesParams' = reservesParams
  BY <1>5, <1>6, ReadKeeps
<1>8. \A s \in DOMAIN market.listed : market.listed[s] = ownStrategy(reservesParams[s], m)
  BY <1>1 DEF ListingAt
<1>9. ListingAt' BY <1>2, <1>5, <1>6, <1>7, <1>8 DEF ListingAt
<1> QED BY <1>7, <1>9 DEF IInv

\* Reading the reserves to list keeps the invariant.
LEMMA ReservesRead ==
    ASSUME IInv, Running, run.kind # "tokens", place = 708,
           Continue([run EXCEPT !.inputs = config.order]), UNCHANGED <<db, chain, started>>
    PROVE  IInv'
<1>1. RunOK /\ ListingAt BY DEF IInv
<1>2. PICK v : v = config.order OBVIOUS
<1>3. Continue(RunWith(run.oracle, run.admin, v)) BY <1>1, <1>2, RunWithExcept
<1>4. v \in Seq(Reserves) /\ run.oracle \in Nat
  <2>1. WellFormed(config) BY <1>1, RunIs, ConfigOK
  <2>2. v \in Seq(Reserves) BY <1>2, <2>1 DEF WellFormed, Reserves, reservesParams
  <2> QED BY <1>1, <2>2, RunIs
<1>5. /\ Goes /\ run'.chunk = 0 /\ faults' = faults /\ run'.kind = run.kind
      /\ run'.oracle = run.oracle /\ run'.admin = run.admin /\ run'.inputs = v
      /\ NextPlace(place, place')
  BY <1>1, <1>3, <1>4, ReadsOn
<1>6. place' = 709 BY <1>5 DEF NextPlace
<1>7. /\ RunOK' /\ ChainOK' /\ Budget' /\ BookAt' /\ ProviderAt' /\ OracleAt'
      /\ m' = m /\ market' = market /\ reservesParams' = reservesParams /\ config' = config
  BY <1>5, <1>6, ReadKeeps
<1>8. /\ \A s \in DOMAIN market.listed : market.listed[s] = ownStrategy(reservesParams[s], m)
      /\ run.admin = market.admin
  BY <1>1 DEF ListingAt
<1>9. ListingAt' BY <1>2, <1>5, <1>6, <1>7, <1>8 DEF ListingAt
<1> QED BY <1>7, <1>9 DEF IInv

\* Reading what is not initialised keeps the invariant.
LEMMA UninitialisedRead ==
    ASSUME IInv, Running, run.kind = "tokens",
           Continue([run EXCEPT !.inputs = uninitialised]), UNCHANGED <<db, chain, started>>
    PROVE  IInv'
<1>1. RunOK BY DEF IInv
<1>2. PICK v : v = uninitialised OBVIOUS
<1>3. Continue(RunWith(run.oracle, run.admin, v)) BY <1>1, <1>2, RunWithExcept
<1>4. v \in Seq(Reserves) /\ run.oracle \in Nat BY <1>1, <1>2, UninitialisedAre, RunIs
<1>5. /\ Goes /\ run'.chunk = 0 /\ faults' = faults /\ run'.kind = run.kind
      /\ run'.oracle = run.oracle /\ place = 0 /\ place' = 0
  BY <1>1, <1>3, <1>4, ReadsOn
<1>6. RunOK' /\ ChainOK' /\ Budget' /\ BookAt' /\ ProviderAt' /\ OracleAt' /\ ListingAt'
  BY <1>5, ReadKeeps
<1> QED BY <1>6 DEF IInv
\* With nothing to configure the process goes on after the three transactions.
LEMMA SkipsOn ==
    ASSUME RunOK, Running, run.kind # "tokens", place = 713, NEW inputs \in Seq(Reserves),
           Continue([run EXCEPT !.inputs = inputs, !.pc = @ + 3])
    PROVE  /\ Goes /\ run'.chunk = 0 /\ faults' = faults /\ run'.kind = run.kind
           /\ run'.oracle = run.oracle /\ place' = 717
<1>1. PICK r : r = [run EXCEPT !.inputs = inputs, !.pc = @ + 3] OBVIOUS
<1>2. run = [status |-> run.status, kind |-> run.kind, tasks |-> run.tasks, pc |-> run.pc,
             chunk |-> run.chunk, oracle |-> run.oracle, admin |-> run.admin,
             inputs |-> run.inputs, clean |-> run.clean, target |-> run.target]
  BY DEF RunOK, IsRun
<1>3. r = [status |-> run.status, kind |-> run.kind, tasks |-> run.tasks, pc |-> run.pc + 3,
             chunk |-> run.chunk, oracle |-> run.oracle, admin |-> run.admin,
             inputs |-> inputs, clean |-> run.clean, target |-> run.target]
  BY <1>1, <1>2
<1>4. /\ r.status = run.status /\ r.kind = run.kind /\ r.tasks = run.tasks
      /\ r.pc = run.pc + 3 /\ r.chunk = run.chunk /\ r.target = run.target
      /\ r.oracle = run.oracle /\ r.admin = run.admin /\ r.inputs = inputs /\ r.clean = run.clean
  BY <1>3
<1>5. IsRun(r)
  <2>1. r = [status |-> r.status, kind |-> r.kind, tasks |-> r.tasks, pc |-> r.pc,
             chunk |-> r.chunk, oracle |-> r.oracle, admin |-> r.admin, inputs |-> r.inputs,
             clean |-> r.clean, target |-> r.target]
    BY <1>3
  <2>2. /\ run.status \in {"idle", "running", "failed", "done"}
        /\ run.kind \in {"", "migration", "repeat", "tokens"} /\ run.oracle \in Nat
        /\ run.chunk \in Nat /\ run.clean \in BOOLEAN /\ run.target \in Targets
    BY DEF RunOK, IsRun
  <2> QED BY <1>4, <2>1, <2>2, Zenon DEF IsRun
<1>6. Migrating BY DEF Migrating
<1>7. /\ Head(run.tasks) \in MigrationTasks /\ place = Rank(Head(run.tasks)) + run.pc
      /\ run.pc \in 1 .. Size(Head(run.tasks)) /\ Size(Head(run.tasks)) \in Nat
      /\ Rank(Head(run.tasks)) \in Nat
  BY <1>6, PlaceInTask, SizesAreNat, FirstsOfTasks DEF Size
<1>8. Head(run.tasks) = "initialize-lending-pool"
  BY <1>6, <1>7, RegistrySteps, AddressProviderSteps, LendingPoolSteps, OracleSteps,
     DataProviderSteps, WethGatewaySteps DEF MigrationTasks
<1>9. run.pc = 13
  <2>1. Rank(Head(run.tasks)) = 700 BY <1>8 DEF Rank
  <2> QED BY <1>7, <2>1
<1>10. Size("initialize-lending-pool") >= 19 /\ Size("initialize-lending-pool") \in Nat
  BY SizesOfTasks
<1>11. Len(program) >= 19 /\ Len(program) \in Nat BY <1>8, <1>10 DEF program, Size
<1>12. r.pc \in run.pc .. Len(program) BY <1>4, <1>9, <1>11
<1>13. run' = proceed(r) /\ faults' = faults BY <1>1 DEF Continue
<1>14. r.status = "running" /\ r.inputs \in Seq(Reserves) BY <1>4 DEF Running
<1>15. /\ RunOK' /\ SameRun(r, run') /\ run'.chunk = 0
       /\ NextPlace(Rank(Head(run.tasks)) + r.pc, place')
  BY <1>4, <1>5, <1>12, <1>13, <1>14, Proceeds
<1>16. Rank(Head(run.tasks)) + r.pc = 716
  <2>1. Rank(Head(run.tasks)) = 700 BY <1>8 DEF Rank
  <2>2. r.pc = 16 BY <1>4, <1>9
  <2> QED BY <2>1, <2>2
<1>17. place' = 717 BY <1>15, <1>16 DEF NextPlace
<1>18. Crosses(713, 717)
  <2>1. Crossing(713, 717) BY DEF Crossing
  <2>2. CrossingIntoPart(713, 717) BY DEF CrossingIntoPart
  <2> QED BY <2>1, <2>2 DEF Crosses
<1>19. 713 \in Places /\ 713 \in Nat /\ 717 \in Nat BY DEF Places
<1>20. /\ run'.kind = run.kind /\ run'.target = run.target /\ run'.oracle = run.oracle
  BY <1>4, <1>15 DEF SameRun
<1>21. Goes BY <1>15, <1>17, <1>18, <1>19, <1>20 DEF Goes
<1> QED BY <1>13, <1>15, <1>17, <1>20, <1>21

\* Reading what is not configured keeps the invariant, also when that skips the configuration.
LEMMA UnconfiguredRead ==
    ASSUME IInv, Running, run.kind # "tokens", place = 713,
           Continue([run EXCEPT !.inputs = unconfigured,
                                !.pc = IF unconfigured = <<>> THEN @ + 3 ELSE @]),
           UNCHANGED <<db, chain, started>>
    PROVE  IInv'
<1>1. RunOK /\ ListingAt BY DEF IInv
<1>2. /\ DOMAIN market.terms = {} /\ market.admin = Deployer /\ run.admin = market.admin
      /\ DOMAIN market.listed = Reserves
      /\ \A s \in DOMAIN market.listed : market.listed[s] = ownStrategy(reservesParams[s], m)
  BY <1>1 DEF ListingAt
<1>3. PICK v : v = unconfigured OBVIOUS
<1>4. /\ v \in Seq(Reserves)
      /\ \A i \in 1 .. Len(v) : v[i] \in Termed
      /\ \A s \in Termed : \E i \in 1 .. Len(v) : v[i] = s
  BY <1>1, <1>2, <1>3, UnconfiguredAre
<1>5. CASE v = <<>>
  <2>1. Continue([run EXCEPT !.inputs = v, !.pc = @ + 3]) BY <1>3, <1>5
  <2>2. /\ Goes /\ run'.chunk = 0 /\ faults' = faults /\ run'.kind = run.kind
        /\ run'.oracle = run.oracle /\ place' = 717
    BY <1>1, <1>4, <2>1, SkipsOn
  <2>3. /\ RunOK' /\ ChainOK' /\ Budget' /\ BookAt' /\ ProviderAt' /\ OracleAt'
        /\ m' = m /\ market' = market /\ reservesParams' = reservesParams
        /\ Reserves' = Reserves /\ Termed' = Termed
    BY <2>2, ReadKeeps
  <2>4. Termed = {}
    <3>1. Len(v) = 0 BY <1>5
    <3> QED BY <1>4, <3>1
  <2>5. ListingAt' BY <1>2, <2>2, <2>3, <2>4 DEF ListingAt
  <2> QED BY <2>3, <2>5 DEF IInv
<1>6. CASE v # <<>>
  <2>1. Continue([run EXCEPT !.inputs = v, !.pc = @]) BY <1>3, <1>6
  <2>2. [run EXCEPT !.inputs = v, !.pc = @] = [run EXCEPT !.inputs = v]
    <3>1. run = [status |-> run.status, kind |-> run.kind, tasks |-> run.tasks, pc |-> run.pc,
                 chunk |-> run.chunk, oracle |-> run.oracle, admin |-> run.admin,
                 inputs |-> run.inputs, clean |-> run.clean, target |-> run.target]
      BY <1>1 DEF RunOK, IsRun
    <3> QED BY <3>1
  <2>3. Continue(RunWith(run.oracle, run.admin, v)) BY <1>1, <2>1, <2>2, RunWithExcept
  <2>4. run.oracle \in Nat BY <1>1, RunIs
  <2>5. /\ Goes /\ run'.chunk = 0 /\ faults' = faults /\ run'.kind = run.kind
        /\ run'.oracle = run.oracle /\ run'.admin = run.admin /\ run'.inputs = v
        /\ NextPlace(place, place')
    BY <1>1, <1>4, <2>3, <2>4, ReadsOn
  <2>6. place' = 714 BY <2>5 DEF NextPlace
  <2>7. /\ RunOK' /\ ChainOK' /\ Budget' /\ BookAt' /\ ProviderAt' /\ OracleAt'
        /\ m' = m /\ market' = market /\ reservesParams' = reservesParams
        /\ Reserves' = Reserves /\ Termed' = Termed
    BY <2>5, <2>6, ReadKeeps
  <2>8. ListingAt' BY <1>2, <1>4, <2>5, <2>6, <2>7 DEF ListingAt
  <2> QED BY <2>7, <2>8 DEF IInv
<1> QED BY <1>5, <1>6

\* What a process reads: the pool's admin, the reserves of the configuration, and
\* those left to list or to configure.
LEMMA HasRead ==
    ASSUME IInv, ReadStep
    PROVE  IInv'
<1>1. /\ RunOK /\ Running /\ step.do = "read" /\ UNCHANGED <<db, chain, started>>
  BY DEF ReadStep, At, IInv
<1>2. \A f : Read(f).of = f BY DEF Read, Step
<1>3. CASE run.kind = "tokens"
  <2>1. step = Read("uninitialised")
    <3>1. run.pc \in {1, 2, 3, 4, 5, 6} BY <1>1, <1>3, StepsOfTokens
    <3>2. \A c : Find(c).do = "find" /\ Deploy(c).do = "deploy" /\ Tx(c).do = c
      BY DEF Find, Deploy, Tx, Step
    <3> QED BY <1>1, <1>3, <3>1, <3>2, StepsOfTokens
  <2>2. step.of = "uninitialised" BY <1>2, <2>1
  <2>3. Continue([run EXCEPT !.inputs = uninitialised]) BY <2>2 DEF ReadStep
  <2> QED BY <1>1, <1>3, <2>3, UninitialisedRead
<1>4. CASE run.kind # "tokens"
  <2>1. Migrating /\ place \in {703, 708, 713} BY <1>1, <1>4, PlacesOfSteps DEF Migrating
  <2>2. /\ place = 703 => step = Read("poolAdmin")
        /\ place = 708 => step = Read("reserves")
        /\ place = 713 => step = Read("unconfigured")
    BY <1>1, <2>1, StepIs
  <2>3. CASE place = 703
    <3>1. step.of = "poolAdmin" BY <1>2, <2>2, <2>3
    <3>2. Continue([run EXCEPT !.admin = market.admin]) BY <3>1 DEF ReadStep
    <3> QED BY <1>1, <1>4, <2>3, <3>2, AdminRead
  <2>4. CASE place = 708
    <3>1. step.of = "reserves" BY <1>2, <2>2, <2>4
    <3>2. Continue([run EXCEPT !.inputs = config.order]) BY <3>1 DEF ReadStep
    <3> QED BY <1>1, <1>4, <2>4, <3>2, ReservesRead
  <2>5. CASE place = 713
    <3>1. step.of = "unconfigured" BY <1>2, <2>2, <2>5
    <3>2. Continue([run EXCEPT !.inputs = unconfigured,
                               !.pc = IF unconfigured = <<>> THEN @ + 3 ELSE @])
      BY <3>1 DEF ReadStep
    <3> QED BY <1>1, <1>4, <2>5, <3>2, UnconfiguredRead
  <2> QED BY <2>1, <2>3, <2>4, <2>5
<1> QED BY <1>3, <1>4
-----------------------------------------------------------------------------
(* What the process deploys and enters in the address book.                  *)

Untouched(c) == Kept(c) /\ (c \in DOMAIN db' <=> found(c))
Entered(c, address) == c \in DOMAIN db' /\ db'[c] = address

\* An entry of the address book after the step that makes it, and after the others.
BookGrows ==
    /\ Untouched(Provider) /\ Untouched(Registry)
    /\ found("LendingPoolConfigurator") => "LendingPoolConfigurator" \in DOMAIN db'
    /\ "LendingPoolConfigurator" \in DOMAIN db' =>
         db'["LendingPoolConfigurator"] \in 0 .. Len(markets)
    /\ place > 304 => Kept("LendingPool")
    /\ place = 304 => Entered("LendingPool", m)
    /\ place > 307 => Kept("LendingPoolConfigurator")
    /\ place = 307 => Entered("LendingPoolConfigurator", m)
    /\ place > 308 => Kept("StableAndVariableTokensHelper")
    /\ place = 308 => Entered("StableAndVariableTokensHelper", m)
    /\ place > 309 => Kept("ATokensAndRatesHelper")
    /\ place = 309 => Entered("ATokensAndRatesHelper", m)
    /\ place > 707 => \A s \in Reserves : Kept(nameOf(reservesParams[s]))
    /\ place = 707 => \A s \in Reserves :
         Entered(nameOf(reservesParams[s]), ownStrategy(reservesParams[s], m))

\* The book's facts at the place after the step.
LEMMA BookAtGrows ==
    ASSUME RunOK, ChainOK, BookAt, BookGrows, Goes, markets' = markets,
           place \notin {202, 203}
    PROVE  BookAt' /\ (found(Provider) => m' = m)
<1>1. /\ config' = config /\ reservesParams' = reservesParams /\ Reserves' = Reserves
      /\ \A c : Configured(c)' = Configured(c)
  BY SameConfig DEF Goes
<1>2. place \in Nat /\ place' \in Nat /\ Crossing(place, place') BY DEF Goes, Crosses
<1>3. found(Provider) => found(Provider)' /\ m' = m
  BY DEF BookGrows, Untouched, Kept, found, m
<1>4. found(Registry) => found(Registry)' BY DEF BookGrows, Untouched, Kept, found
<1>5. /\ place' > 202 => place > 202
      /\ place' > 203 => place > 203
      /\ place' > 304 => place >= 304
      /\ place' > 307 => place >= 307
      /\ place' > 308 => place >= 308
      /\ place' > 309 => place >= 309
      /\ place' > 707 => place >= 707
  BY <1>2 DEF Crossing
<1>6. place > 203 => found(Provider) BY DEF BookAt
<1>7. place' > 203 => found(Provider)' /\ found(Provider) /\ m' = m BY <1>3, <1>5, <1>6
<1>8. place' > 202 => Configured("ProviderRegistry")' \/ found(Registry)'
  BY <1>1, <1>4, <1>5 DEF BookAt
<1>9. /\ place' > 304 => place' > 203
      /\ place' > 307 => place' > 203
      /\ place' > 308 => place' > 203
      /\ place' > 309 => place' > 203
      /\ place' > 707 => place' > 203
  BY <1>2
<1>10. place' > 304 => Recorded("LendingPool")'
  <2>1. place >= 304 => Entered("LendingPool", m)
    BY <1>2 DEF BookAt, BookGrows, Recorded, Entered, Kept, found
  <2> QED BY <1>5, <1>7, <1>9, <2>1 DEF Recorded, Entered, found
<1>11. place' > 307 => Recorded("LendingPoolConfigurator")'
  <2>1. place >= 307 => Entered("LendingPoolConfigurator", m)
    BY <1>2 DEF BookAt, BookGrows, Recorded, Entered, Kept, found
  <2> QED BY <1>5, <1>7, <1>9, <2>1 DEF Recorded, Entered, found
<1>12. place' > 308 => Recorded("StableAndVariableTokensHelper")'
  <2>1. place >= 308 => Entered("StableAndVariableTokensHelper", m)
    BY <1>2 DEF BookAt, BookGrows, Recorded, Entered, Kept, found
  <2> QED BY <1>5, <1>7, <1>9, <2>1 DEF Recorded, Entered, found
<1>13. place' > 309 => Recorded("ATokensAndRatesHelper")'
  <2>1. place >= 309 => Entered("ATokensAndRatesHelper", m)
    BY <1>2 DEF BookAt, BookGrows, Recorded, Entered, Kept, found
  <2> QED BY <1>5, <1>7, <1>9, <2>1 DEF Recorded, Entered, found
<1>14. place' > 707 => \A s \in Reserves' :
         /\ found(nameOf(reservesParams[s]))'
         /\ db'[nameOf(reservesParams'[s])] = ownStrategy(reservesParams'[s], m')
  <2> SUFFICES ASSUME place' > 707, NEW s \in Reserves
               PROVE  Entered(nameOf(reservesParams[s]), ownStrategy(reservesParams[s], m))
    BY <1>1, <1>7, <1>9 DEF Entered, found
  <2>1. CASE place = 707 BY <2>1 DEF BookGrows
  <2>2. CASE place > 707
    <3>1. /\ found(nameOf(reservesParams[s]))
          /\ db[nameOf(reservesParams[s])] = ownStrategy(reservesParams[s], m)
      BY <2>2 DEF BookAt
    <3>2. Kept(nameOf(reservesParams[s])) BY <2>2 DEF BookGrows
    <3> QED BY <3>1, <3>2 DEF Kept, Entered, found
  <2> QED BY <1>2, <1>5, <2>1, <2>2
<1> QED BY <1>1, <1>3, <1>7, <1>8, <1>10, <1>11, <1>12, <1>13, <1>14 DEF BookAt
\* ChainOK when only the address book grows.
LEMMA ChainOfBook ==
    ASSUME ChainOK, UNCHANGED chain, BookGrows, run'.target = run.target, run'.kind = run.kind,
           found(Provider) => m' = m
    PROVE  ChainOK'
<1>1. markets' = markets /\ oracles' = oracles /\ registered' = registered BY DEF chain
<1>2. config' = config /\ reservesParams' = reservesParams /\ Reserves' = Reserves
      /\ Termed' = Termed
  BY SameConfig
<1>3. MarketsOK' BY <1>1, <1>2 DEF ChainOK, MarketsOK
<1>4. OraclesOK' BY <1>1, <1>2 DEF ChainOK, OraclesOK
<1>5. BookOK'
  <2>1. found(Provider)' <=> found(Provider) BY DEF BookGrows, Untouched, found
  <2>2. found(Registry)' => found(Registry) /\ db'[Registry] = db[Registry]
    BY DEF BookGrows, Untouched, Kept, found
  <2>3. /\ found("LendingPoolConfigurator") => found("LendingPoolConfigurator")'
        /\ found("LendingPoolConfigurator")' => configurator' \in 0 .. Len(markets)
    BY DEF BookGrows, found, configurator
  <2> QED BY <1>1, <1>2, <2>1, <2>2, <2>3 DEF ChainOK, BookOK, Configured
<1>6. IsSequence(markets') /\ IsSequence(oracles') /\ IsSequence(registered')
  BY <1>1 DEF ChainOK
<1> QED BY <1>3, <1>4, <1>5, <1>6 DEF ChainOK

\* A step that only makes entries in the address book.
LEMMA BookKeeps ==
    ASSUME IInv, Running, Continue(run), UNCHANGED <<chain, started>>, BookGrows,
           place \notin {202, 203, 204, 205, 206, 303, 306, 403, 406, 407, 408, 409,
                         703, 708, 710, 713, 714, 715, 716, 718, 721},
           run.kind # "tokens" => place # 0
    PROVE  IInv'
<1>1. RunOK /\ ChainOK /\ Budget /\ BookAt /\ ProviderAt /\ ListingAt /\ OracleAt BY DEF IInv
<1>2. /\ Moves /\ run'.chunk = 0 /\ faults' = faults
      /\ run.kind # "tokens" => NextPlace(place, place')
  BY <1>1, ContinueMoves
<1>3. Goes /\ run'.oracle = run.oracle /\ run'.admin = run.admin /\ run'.inputs = run.inputs
  BY <1>2, MovesGo
<1>4. place \in Places /\ place \in Nat /\ place' \in Nat /\ run'.kind = run.kind
      /\ run'.target = run.target /\ (run.kind = "tokens" => place = 0 /\ place' = 0)
  BY <1>2 DEF Moves
<1>5. markets' = markets /\ oracles' = oracles /\ registered' = registered /\ started' = started
  BY DEF chain
<1>6. 0 < place' /\ place' <= 203 => 0 < place /\ place <= 203
  <2>1. CASE run.kind = "tokens" BY <1>4, <2>1
  <2>2. CASE run.kind # "tokens"
    <3>1. place' > place BY <1>2, <1>4, <2>2, NextIsLater
    <3> QED BY <1>4, <2>2, <3>1
  <2> QED BY <2>1, <2>2
<1>7. BookAt' /\ (found(Provider) => m' = m) BY <1>1, <1>3, <1>5, BookAtGrows
<1>8. ChainOK' BY <1>1, <1>4, <1>7, ChainOfBook
<1>9. Budget'
  <2>1. Len(markets) \in Nat /\ Len(markets') = Len(markets) BY <1>1, <1>5 DEF ChainOK, IsSequence
  <2> QED BY <1>1, <1>2, <1>3, <1>5, <1>6, <2>1, BudgetStays
<1>10. place > 203 => m' = m /\ market' = market /\ registry' = registry
  <2>1. place > 203 => m' = m
    <3>1. place > 203 => found(Provider) BY <1>1 DEF BookAt
    <3> QED BY <1>7, <3>1
  <2>2. place > 203 => registry' = registry
    <3>1. place > 203 => Configured("ProviderRegistry") \/ found(Registry)
      BY <1>1, <1>4 DEF BookAt
    <3>2. Configured("ProviderRegistry")' = Configured("ProviderRegistry") BY <1>4, SameConfig
    <3>3. found(Registry) => db'[Registry] = db[Registry]
      BY DEF BookGrows, Untouched, Kept, found
    <3> QED BY <3>1, <3>2, <3>3 DEF registry
  <2> QED BY <1>5, <2>1, <2>2 DEF market
<1>11. place > 203 => SameFlags(market, market') /\ SameListing(market, market')
  BY <1>10 DEF SameFlags, SameListing
<1>12. ProviderAt'
  <2>1. \/ place \notin {203, 204, 206, 303, 306, 408, 409, 718, 719, 721}
        \/ place = 719 /\ NextPlace(place, place')
    <3>1. place = 719 => NextPlace(place, place') BY <1>2, <1>4
    <3> QED BY <3>1
  <2>2. place > 203 => registered[registry] \subseteq registered'[registry] BY <1>5
  <2> QED BY <1>1, <1>3, <1>10, <1>11, <2>1, <2>2, ProviderStays
<1>13. OracleAt'
  <2>1. place \notin {403, 406, 407} OBVIOUS
  <2> QED BY <1>1, <1>2, <1>3, <1>5, <2>1, OracleStays
<1>14. ListingAt'
  <2>1. place \notin {203, 205, 703, 708, 710, 713, 714, 715, 716} OBVIOUS
  <2> QED BY <1>1, <1>2, <1>3, <1>10, <1>11, <2>1, ListingStays
<1> QED BY <1>3, <1>7, <1>8, <1>9, <1>12, <1>13, <1>14 DEF IInv, Goes

\* The entry of one contract.
LEMMA NamesAreNoContracts ==
    ASSUME RunOK, NEW s \in Reserves
    PROVE  nameOf(reservesParams[s]) \notin Contracts
<1>1. WellFormed(config) BY RunIs, ConfigOK
<1> QED BY <1>1 DEF WellFormed, Reserves, reservesParams, nameOf

\* An entry outside the places that name it leaves the entries in use alone.
LEMMA EntryGrows ==
    ASSUME RunOK, ChainOK, NEW c \in Contracts \ {Provider, Registry}, NEW address,
           db' = inBook(entry(c, address)),
           c = "LendingPoolConfigurator" => address \in 0 .. Len(markets),
           place >= 304 => c # "LendingPool" \/ (place = 304 /\ address = m),
           place >= 307 => c # "LendingPoolConfigurator" \/ (place = 307 /\ address = m),
           place >= 308 => c # "StableAndVariableTokensHelper" \/ (place = 308 /\ address = m),
           place >= 309 => c # "ATokensAndRatesHelper" \/ (place = 309 /\ address = m),
           place = 304 => c = "LendingPool",
           place = 307 => c = "LendingPoolConfigurator",
           place = 308 => c = "StableAndVariableTokensHelper",
           place = 309 => c = "ATokensAndRatesHelper",
           place # 707
    PROVE  BookGrows
<1>1. /\ c \in DOMAIN db' /\ db'[c] = address
      /\ \A x : x # c => Kept(x) /\ (x \in DOMAIN db' <=> found(x))
  BY EntryIs
<1>2. Untouched(Provider) /\ Untouched(Registry) BY <1>1 DEF Untouched
<1>3. /\ found("LendingPoolConfigurator") => "LendingPoolConfigurator" \in DOMAIN db'
      /\ "LendingPoolConfigurator" \in DOMAIN db' =>
           db'["LendingPoolConfigurator"] \in 0 .. Len(markets)
  <2>1. CASE c = "LendingPoolConfigurator" BY <1>1, <2>1
  <2>2. CASE c # "LendingPoolConfigurator"
    <3>1. /\ Kept("LendingPoolConfigurator")
          /\ "LendingPoolConfigurator" \in DOMAIN db' <=> found("LendingPoolConfigurator")
      BY <1>1, <2>2
    <3> QED BY <3>1 DEF ChainOK, BookOK, Kept, configurator
  <2> QED BY <2>1, <2>2
<1>4. place \in Nat
  <2>1. place \in Places BY PlaceIs
  <2> QED BY <2>1, StayCrosses
<1>5. /\ place > 304 => Kept("LendingPool")
      /\ place > 307 => Kept("LendingPoolConfigurator")
      /\ place > 308 => Kept("StableAndVariableTokensHelper")
      /\ place > 309 => Kept("ATokensAndRatesHelper")
  BY <1>1, <1>4
<1>6. /\ place = 304 => Entered("LendingPool", m)
      /\ place = 307 => Entered("LendingPoolConfigurator", m)
      /\ place = 308 => Entered("StableAndVariableTokensHelper", m)
      /\ place = 309 => Entered("ATokensAndRatesHelper", m)
  BY <1>1 DEF Entered
<1>7. \A s \in Reserves : Kept(nameOf(reservesParams[s])) BY <1>1, NamesAreNoContracts
<1> QED BY <1>2, <1>3, <1>5, <1>6, <1>7 DEF BookGrows
\* The proxy of the pool, and that of its configurator, in place of their
\* implementations.
LEMMA Inserted ==
    ASSUME IInv, InsertStep
    PROVE  IInv'
<1>1. /\ RunOK /\ ChainOK /\ BookAt /\ Running /\ step.do = "insert" /\ Continue(run)
      /\ db' = inBook(entry(step.of, m)) /\ UNCHANGED <<chain, started>>
  BY DEF InsertStep, At, IInv
<1>2. Migrating /\ place \in {304, 307} BY <1>1, OnlyInMigrations, PlacesOfSteps
<1>3. place > 203 BY <1>2
<1>4. m \in 1 .. Len(markets) /\ Len(markets) \in Nat BY <1>1, <1>3, MarketInUse
<1>5. m \in 0 .. Len(markets) BY <1>4
<1>6. step.of = IF place = 304 THEN "LendingPool" ELSE "LendingPoolConfigurator"
  <2>1. /\ place = 304 => step = Insert("LendingPool")
        /\ place = 307 => step = Insert("LendingPoolConfigurator")
    BY <1>1, <1>2, StepIs
  <2> QED BY <1>2, <2>1 DEF Insert, Step
<1>7. PICK c, address : c = step.of /\ address = m OBVIOUS
<1>8. db' = inBook(entry(c, address)) BY <1>1, <1>7
<1>9. c \in Contracts \ {Provider, Registry}
  BY <1>6, <1>7 DEF Contracts, Provider, Registry
<1>10. BookGrows
  <2>1. /\ c = "LendingPoolConfigurator" => address \in 0 .. Len(markets)
        /\ place >= 304 => c # "LendingPool" \/ (place = 304 /\ address = m)
        /\ place >= 307 => c # "LendingPoolConfigurator" \/ (place = 307 /\ address = m)
        /\ place >= 308 => c # "StableAndVariableTokensHelper" \/ (place = 308 /\ address = m)
        /\ place >= 309 => c # "ATokensAndRatesHelper" \/ (place = 309 /\ address = m)
        /\ place = 304 => c = "LendingPool"
        /\ place = 307 => c = "LendingPoolConfigurator"
        /\ place = 308 => c = "StableAndVariableTokensHelper"
        /\ place = 309 => c = "ATokensAndRatesHelper"
        /\ place # 707
    BY <1>2, <1>5, <1>6, <1>7
  <2> QED BY <1>1, <1>8, <1>9, <2>1, EntryGrows
<1>11. place \notin {202, 203, 204, 205, 206, 303, 306, 403, 406, 407, 408, 409,
                     703, 708, 710, 713, 714, 715, 716, 718, 721} /\ place # 0
  BY <1>2
<1> QED BY <1>1, <1>10, <1>11, BookKeeps

\* The strategies by their names, with the rates of the first reserve that has the
\* name, which are the rates of all that have it.
LEMMA StrategiesGrow ==
    ASSUME RunOK, ChainOK, BookAt, place = 707,
           db' = inBook(strategies(strategyNames(DOMAIN reservesParams), m))
    PROVE  BookGrows
<1> DEFINE names == strategyNames(DOMAIN reservesParams)
           new == strategies(names, m)
<1>1. WellFormed(config) BY RunIs, ConfigOK
<1>2. names = {nameOf(reservesParams[s]) : s \in Reserves}
  BY DEF strategyNames, nameOf, Reserves
<1>3. DOMAIN new = names BY DEF strategies
<1>4. ASSUME NEW s \in Reserves
      PROVE  nameOf(reservesParams[s]) \in names
             /\ new[nameOf(reservesParams[s])] = ownStrategy(reservesParams[s], m)
  <2> DEFINE n == nameOf(reservesParams[s])
             at == {i \in DOMAIN config.order : nameOf(reservesParams[config.order[i]]) = n}
             i0 == CHOOSE i \in at : \A j \in at : i <= j
  <2>1. n \in names BY <1>2
  <2>2. new[n] = [rates |-> reservesParams[firstWith(n)].strategy.rates, provider |-> m]
    BY <2>1 DEF strategies
  <2>3. config.order \in Seq(Reserves) /\ \E i \in DOMAIN config.order : config.order[i] = s
    BY <1>1 DEF WellFormed, Reserves, reservesParams
  <2>4. DOMAIN config.order = 1 .. Len(config.order) /\ Len(config.order) \in Nat BY <2>3
  <2>5. at \subseteq Nat /\ at # {} BY <2>3, <2>4
  <2>6. firstWith(n) = config.order[i0] BY DEF firstWith, nameOf
  <2>7. i0 \in at
    <3> HIDE DEF at
    <3>1. \E i \in at : \A j \in at : i <= j BY <2>5, LeastOf
    <3> QED BY <3>1
  <2>8. config.order[i0] \in Reserves /\ nameOf(reservesParams[config.order[i0]]) = n
    <3>1. PICK i : i = i0 OBVIOUS
    <3>2. i \in DOMAIN config.order /\ nameOf(reservesParams[config.order[i]]) = n
      BY <2>7, <3>1
    <3>3. config.order[i] \in Reserves BY <2>3, <2>4, <3>2
    <3> QED BY <3>1, <3>2, <3>3
  <2>9. reservesParams[config.order[i0]].strategy.rates = reservesParams[s].strategy.rates
    <3>1. PICK z : z = config.order[i0] OBVIOUS
    <3>2. z \in Reserves /\ nameOf(reservesParams[z]) = nameOf(reservesParams[s]) BY <2>8, <3>1
    <3>3. reservesParams[z].strategy.rates = reservesParams[s].strategy.rates
      BY <1>1, <3>2 DEF WellFormed, Reserves, reservesParams, nameOf
    <3> QED BY <3>1, <3>3
  <2> QED BY <2>1, <2>2, <2>6, <2>9 DEF ownStrategy
<1>5. \A c \in Contracts : c \notin names BY <1>2, NamesAreNoContracts
<1>6. db' = over(new, db) BY DEF inBook
<1> HIDE DEF names, new
<1>7. /\ DOMAIN db' = names \union DOMAIN db
      /\ \A x \in names : db'[x] = new[x]
      /\ \A x \in DOMAIN db \ names : db'[x] = db[x]
  BY <1>3, <1>6 DEF over
<1>8. \A c \in Contracts : Kept(c) /\ Untouched(c)
  BY <1>5, <1>7 DEF Kept, Untouched, found
<1>9. /\ Provider \in Contracts /\ Registry \in Contracts /\ "LendingPool" \in Contracts
      /\ "LendingPoolConfigurator" \in Contracts
      /\ "StableAndVariableTokensHelper" \in Contracts /\ "ATokensAndRatesHelper" \in Contracts
  BY DEF Contracts, Provider, Registry
<1>10. /\ found("LendingPoolConfigurator") => "LendingPoolConfigurator" \in DOMAIN db'
       /\ "LendingPoolConfigurator" \in DOMAIN db' =>
            db'["LendingPoolConfigurator"] \in 0 .. Len(markets)
  <2>1. Untouched("LendingPoolConfigurator") BY <1>8, <1>9
  <2> QED BY <2>1 DEF ChainOK, BookOK, Untouched, Kept, configurator, found
<1>11. \A s \in Reserves : Entered(nameOf(reservesParams[s]), ownStrategy(reservesParams[s], m))
  BY <1>4, <1>7 DEF Entered
<1> QED BY <1>8, <1>9, <1>10, <1>11 DEF BookGrows
\* A contract that is neither a provider, a registry, nor a rate oracle.
LEMMA ContractDeployed ==
    ASSUME IInv, Running, Continue(run), UNCHANGED started, NEW c, DeployContract(c),
           \/ place = 0 /\ c = "DefaultReserveInterestRateStrategy" /\ run.kind = "tokens"
           \/ place = 302 /\ c = "LendingPool"
           \/ place = 305 /\ c = "LendingPoolConfigurator"
           \/ place = 308 /\ c = "StableAndVariableTokensHelper"
           \/ place = 309 /\ c = "ATokensAndRatesHelper"
           \/ place = 402 /\ c = "AaveOracle"
           \/ place = 502 /\ c = "AaveProtocolDataProvider"
           \/ place = 601 /\ c = "WethGateway"
           \/ place = 706 /\ c = "TokenImplementations"
           \/ place = 707 /\ c = "Strategies"
           \/ place = 717 /\ c = "LendingPoolCollateralManager"
           \/ place = 719 /\ c = "WalletBalanceProvider"
    PROVE  IInv'
<1>1. RunOK /\ ChainOK /\ BookAt BY DEF IInv
<1>2. place \notin {202, 203, 204, 205, 206, 303, 306, 403, 406, 407, 408, 409,
                    703, 708, 710, 713, 714, 715, 716, 718, 721}
      /\ (run.kind # "tokens" => place # 0)
  OBVIOUS
<1>3. c \in Contracts \ {Provider, Registry} /\ c # "LendingRateOracle"
  BY DEF Contracts, Provider, Registry
<1>4. CASE c = "Strategies"
  <2>1. place = 707 BY <1>4
  <2>2. db' = inBook(strategies(strategyNames(DOMAIN reservesParams), m)) /\ UNCHANGED chain
    BY <1>3, <1>4 DEF DeployContract
  <2>3. BookGrows BY <1>1, <2>1, <2>2, StrategiesGrow
  <2> QED BY <1>2, <2>2, <2>3, BookKeeps
<1>5. CASE c # "Strategies"
  <2> DEFINE address == IF c \in {"LendingPool", "LendingPoolConfigurator"} THEN Implementation
                        ELSE IF found(Provider) THEN m ELSE 0
  <2>1. db' = inBook(entry(c, address)) /\ UNCHANGED chain
    <3>1. CASE c \in {"LendingPool", "LendingPoolConfigurator"}
      BY <1>3, <3>1 DEF DeployContract, Provider, Registry
    <3>2. CASE c \notin {"LendingPool", "LendingPoolConfigurator"}
      BY <1>3, <1>5, <3>2 DEF DeployContract
    <3> QED BY <3>1, <3>2
  <2>2. Implementation \in 0 .. Len(markets)
    <3>1. Len(markets) \in Nat BY <1>1 DEF ChainOK, IsSequence
    <3> QED BY <3>1 DEF Implementation
  <2>3. c = "LendingPoolConfigurator" => address \in 0 .. Len(markets) BY <2>2
  <2>4. place \in {308, 309} => address = m
    <3>1. place \in {308, 309} => found(Provider) BY <1>1 DEF BookAt
    <3> QED BY <3>1
  <2> HIDE DEF address
  <2>5. PICK a : a = address OBVIOUS
  <2>6. /\ c = "LendingPoolConfigurator" => a \in 0 .. Len(markets)
        /\ place >= 304 => c # "LendingPool" \/ (place = 304 /\ a = m)
        /\ place >= 307 => c # "LendingPoolConfigurator" \/ (place = 307 /\ a = m)
        /\ place >= 308 => c # "StableAndVariableTokensHelper" \/ (place = 308 /\ a = m)
        /\ place >= 309 => c # "ATokensAndRatesHelper" \/ (place = 309 /\ a = m)
        /\ place = 304 => c = "LendingPool"
        /\ place = 307 => c = "LendingPoolConfigurator"
        /\ place = 308 => c = "StableAndVariableTokensHelper"
        /\ place = 309 => c = "ATokensAndRatesHelper"
        /\ place # 707
    BY <1>5, <2>3, <2>4, <2>5
  <2>7. db' = inBook(entry(c, a)) BY <2>1, <2>5
  <2>8. BookGrows BY <1>1, <1>3, <2>6, <2>7, EntryGrows
  <2> QED BY <1>2, <2>1, <2>8, BookKeeps
<1> QED BY <1>4, <1>5

\* The deployment of a registry keeps the invariant.
LEMMA RegistryDeployed ==
    ASSUME IInv, Running, Continue(run), UNCHANGED started, DeployContract(Registry), place = 101,
           run.kind # "tokens"
    PROVE  IInv'
<1>1. RunOK /\ ChainOK /\ Budget BY DEF IInv
<1>2. /\ registered' = Append(registered, {})
      /\ db' = inBook(entry(Registry, Len(registered')))
      /\ markets' = markets /\ oracles' = oracles
  BY DEF DeployContract, Provider, Registry
<1>3. Moves /\ faults' = faults /\ NextPlace(place, place') BY <1>1, ContinueMoves
<1>4. place' = 201 BY <1>3 DEF NextPlace
<1>5. Goes /\ run'.kind = run.kind /\ run'.target = run.target BY <1>3, MovesGo DEF Moves
<1>6. Grown(registered, registered', {}) /\ Len(registered) \in Nat
  <2>1. PICK e : e = {} OBVIOUS
  <2>2. registered' = Append(registered, e) BY <1>2, <2>1
  <2>3. IsSequence(registered) BY <1>1 DEF ChainOK
  <2>4. Grown(registered, registered', e) /\ Len(registered) \in Nat BY <2>2, <2>3, AppendIs
  <2> QED BY <2>1, <2>4
<1>7. PICK a : a = Len(registered') OBVIOUS
<1>8. db' = inBook(entry(Registry, a)) BY <1>2, <1>7
<1>9. /\ Registry \in DOMAIN db' /\ db'[Registry] = a
      /\ \A x : x # Registry => Kept(x) /\ (x \in DOMAIN db' <=> found(x))
  BY <1>8, EntryIs
<1>10. config' = config /\ reservesParams' = reservesParams /\ Reserves' = Reserves
       /\ Termed' = Termed
  BY <1>5, SameConfig
<1>11. ChainOK'
  <2>1. MarketsOK' BY <1>1, <1>2, <1>10 DEF ChainOK, MarketsOK
  <2>2. OraclesOK' BY <1>1, <1>2, <1>10 DEF ChainOK, OraclesOK
  <2>3. BookOK'
    <3>1. Provider # Registry /\ "LendingPoolConfigurator" # Registry BY DEF Provider, Registry
    <3>2. /\ Kept(Provider) /\ (found(Provider)' <=> found(Provider))
          /\ Kept("LendingPoolConfigurator")
          /\ found("LendingPoolConfigurator")' <=> found("LendingPoolConfigurator")
      BY <1>9, <3>1 DEF found
    <3>3. /\ found(Provider) => m' = m
          /\ found("LendingPoolConfigurator") => configurator' = configurator
      BY <3>2 DEF Kept, m, configurator
    <3>4. db'[Registry] \in 1 .. Len(registered') /\ Len(registered') # 0
      BY <1>6, <1>7, <1>9 DEF Grown
    <3> QED BY <1>1, <1>2, <1>5, <1>10, <3>2, <3>3, <3>4 DEF ChainOK, BookOK, Configured
  <2>4. IsSequence(markets') /\ IsSequence(oracles') /\ IsSequence(registered')
    BY <1>1, <1>2, <1>6 DEF ChainOK, Grown
  <2> QED BY <2>1, <2>2, <2>3, <2>4 DEF ChainOK
<1>12. Budget'
  <2>1. Len(markets) \in Nat /\ Len(markets') = Len(markets) BY <1>1, <1>2 DEF ChainOK, IsSequence
  <2>2. 0 < place /\ place <= 203 OBVIOUS
  <2> QED BY <1>1, <1>3, <1>5, <2>1, <2>2, BudgetStays
<1>13. BookAt' /\ ProviderAt' /\ OracleAt' /\ ListingAt'
  BY <1>4 DEF BookAt, ProviderAt, OracleAt, ListingAt
<1> QED BY <1>5, <1>11, <1>12, <1>13 DEF IInv, Goes

\* The deployment of a provider keeps the invariant: no earlier market is in use any more.
LEMMA ProviderDeployed ==
    ASSUME IInv, Running, Continue(run), UNCHANGED started, DeployContract(Provider), place = 203,
           run.kind # "tokens"
    PROVE  IInv'
<1>1. RunOK /\ ChainOK /\ Budget /\ BookAt BY DEF IInv
<1>2. /\ markets' = Append(markets, NewMarket)
      /\ db' = inBook(entry(Provider, Len(markets')))
      /\ registered' = registered /\ oracles' = oracles
  BY DEF DeployContract, Provider, Registry
<1>3. Moves /\ faults' = faults /\ NextPlace(place, place') BY <1>1, ContinueMoves
<1>4. place' = 204 BY <1>3 DEF NextPlace
<1>5. Goes /\ run'.kind = run.kind /\ run'.target = run.target BY <1>3, MovesGo DEF Moves
<1>6. Grown(markets, markets', NewMarket) /\ Len(markets) \in Nat
  <2>1. PICK e : e = NewMarket OBVIOUS
  <2>2. markets' = Append(markets, e) BY <1>2, <2>1
  <2>3. IsSequence(markets) BY <1>1 DEF ChainOK
  <2>4. Grown(markets, markets', e) /\ Len(markets) \in Nat BY <2>2, <2>3, AppendIs
  <2> QED BY <2>1, <2>4
<1>7. PICK a : a = Len(markets') OBVIOUS
<1>8. db' = inBook(entry(Provider, a)) BY <1>2, <1>7
<1>9. /\ Provider \in DOMAIN db' /\ db'[Provider] = a
      /\ \A x : x # Provider => Kept(x) /\ (x \in DOMAIN db' <=> found(x))
  BY <1>8, EntryIs
<1>10. config' = config /\ reservesParams' = reservesParams /\ Reserves' = Reserves
       /\ Termed' = Termed /\ \A c : Configured(c)' = Configured(c)
  BY <1>5, SameConfig
<1>11. /\ RowOK(NewMarket) /\ NewMarket.admin = NoOne /\ DOMAIN NewMarket.listed = {}
  BY DEF RowOK, NewMarket, IsMarket
<1>12. m' = Len(markets') /\ market' = NewMarket /\ Len(markets') = Len(markets) + 1
  BY <1>6, <1>7, <1>9 DEF Grown, m, market
<1>13. Registry # Provider /\ "LendingPoolConfigurator" # Provider BY DEF Provider, Registry
<1>14. /\ Kept(Registry) /\ (found(Registry)' <=> found(Registry))
       /\ Kept("LendingPoolConfigurator")
       /\ found("LendingPoolConfigurator")' <=> found("LendingPoolConfigurator")
  BY <1>9, <1>13 DEF found
<1>15. ChainOK'
  <2>1. MarketsOK'
    <3>1. \A i \in 1 .. Len(markets) : RowOK(markets[i]) BY <1>1 DEF ChainOK, MarketsOK, RowOK
    <3>2. \A i \in 1 .. Len(markets') : RowOK(markets'[i])
      <4> SUFFICES ASSUME NEW i \in 1 .. Len(markets') PROVE RowOK(markets'[i])
        OBVIOUS
      <4>1. CASE i = Len(markets) + 1 BY <1>6, <1>11, <4>1 DEF Grown
      <4>2. CASE i # Len(markets) + 1
        <5>1. i \in 1 .. Len(markets) BY <1>6, <1>12, <4>2
        <5>2. markets'[i] = markets[i] BY <1>6, <5>1 DEF Grown
        <5> QED BY <3>1, <5>1, <5>2
      <4> QED BY <4>1, <4>2
    <3> QED BY <1>10, <3>2 DEF MarketsOK, RowOK
  <2>2. OraclesOK' BY <1>1, <1>2, <1>10 DEF ChainOK, OraclesOK
  <2>3. BookOK'
    <3>1. found("LendingPoolConfigurator")' => configurator' \in 0 .. Len(markets')
      <4>1. found("LendingPoolConfigurator")' =>
              configurator' = configurator /\ configurator \in 0 .. Len(markets)
        BY <1>1, <1>14 DEF Kept, configurator, ChainOK, BookOK
      <4> QED BY <1>6, <1>12, <4>1
    <3>2. found(Registry)' => db'[Registry] \in 1 .. Len(registered')
      BY <1>1, <1>2, <1>14 DEF Kept, ChainOK, BookOK
    <3>3. Len(markets') # 0 BY <1>6, <1>12
    <3>4. found(Provider)' BY <1>9 DEF found
    <3>5. run'.kind # "tokens" BY <1>5
    <3> QED BY <1>1, <1>2, <1>10, <1>12, <3>1, <3>2, <3>3, <3>4, <3>5 DEF ChainOK, BookOK
  <2>4. IsSequence(markets') /\ IsSequence(oracles') /\ IsSequence(registered')
    BY <1>1, <1>2, <1>6 DEF ChainOK, Grown
  <2> QED BY <2>1, <2>2, <2>3, <2>4 DEF ChainOK
<1>16. Budget'
  <2>1. target' = target BY <1>5, SameConfig
  <2>2. Len(markets) + 1 <= started + faults BY <1>1 DEF Budget
  <2>3. ~ (0 < place' /\ place' <= 203) BY <1>4
  <2>4. started' = started /\ faults' = faults BY <1>3
  <2>5. started \in 0 .. target.migrations /\ faults \in 0 .. target.faults BY <1>1 DEF Budget
  <2>6. target.migrations \in Nat /\ target.faults \in Nat BY <1>1, RunIs, ConfigOK
  <2> QED BY <1>6, <1>12, <2>1, <2>2, <2>3, <2>4, <2>5, <2>6 DEF Budget
<1>17. BookAt'
  <2>1. found(Provider)' BY <1>9 DEF found
  <2>2. Configured("ProviderRegistry") \/ found(Registry) BY <1>1 DEF BookAt
  <2> QED BY <1>4, <1>10, <1>14, <2>1, <2>2 DEF BookAt
<1>18. ProviderAt' /\ OracleAt' BY <1>4 DEF ProviderAt, OracleAt
<1>19. ListingAt' BY <1>4, <1>11, <1>12 DEF ListingAt
<1> QED BY <1>5, <1>15, <1>16, <1>17, <1>18, <1>19 DEF IInv, Goes
\* The deployment of a rate oracle keeps the invariant.
LEMMA OracleDeployed ==
    ASSUME IInv, Running, UNCHANGED started, DeployContract("LendingRateOracle"), place = 403,
           Continue([run EXCEPT !.oracle = Len(oracles')]), run.kind # "tokens"
    PROVE  IInv'
<1> DEFINE new == [owner |-> Deployer, rates |-> <<>>]
<1>1. RunOK /\ ChainOK /\ Budget /\ BookAt /\ ProviderAt /\ ListingAt BY DEF IInv
<1>2. /\ oracles' = Append(oracles, new)
      /\ db' = inBook(entry("LendingRateOracle", Len(oracles')))
      /\ registered' = registered /\ markets' = markets
  BY DEF DeployContract, Provider, Registry
<1>3. OracleOK(new) BY DEF OracleOK, IsOracle
<1> HIDE DEF new
<1>4. Grown(oracles, oracles', new) /\ Len(oracles) \in Nat
  <2>1. IsSequence(oracles) BY <1>1 DEF ChainOK
  <2>2. PICK e : e = new OBVIOUS
  <2>3. oracles' = Append(oracles, e) BY <1>2, <2>2
  <2>4. Grown(oracles, oracles', e) /\ Len(oracles) \in Nat BY <2>1, <2>3, AppendIs
  <2> QED BY <2>2, <2>4
<1>5. PICK a : a = Len(oracles') OBVIOUS
<1>6. a \in Nat /\ a \in 1 .. Len(oracles') BY <1>4, <1>5 DEF Grown
<1>7. Continue(RunWith(a, run.admin, run.inputs)) BY <1>1, <1>5, RunWithExcept
<1>8. run.inputs \in Seq(Reserves) BY <1>1, RunIs
<1>9. /\ Goes /\ run'.chunk = 0 /\ faults' = faults /\ run'.kind = run.kind
      /\ run'.oracle = a /\ run'.admin = run.admin /\ run'.inputs = run.inputs
      /\ NextPlace(place, place')
  BY <1>1, <1>6, <1>7, <1>8, ReadsOn
<1>10. place' = 404 /\ run'.target = run.target BY <1>9 DEF NextPlace, Goes
<1>11. BookGrows
  <2>1. db' = inBook(entry("LendingRateOracle", a)) BY <1>2, <1>5
  <2>2. "LendingRateOracle" \in Contracts \ {Provider, Registry}
    BY DEF Contracts, Provider, Registry
  <2>3. PICK c : c = "LendingRateOracle" OBVIOUS
  <2>4. db' = inBook(entry(c, a)) /\ c \in Contracts \ {Provider, Registry} BY <2>1, <2>2, <2>3
  <2>5. /\ c # "LendingPoolConfigurator" /\ c # "LendingPool"
        /\ c # "StableAndVariableTokensHelper" /\ c # "ATokensAndRatesHelper"
    BY <2>3
  <2>6. /\ c = "LendingPoolConfigurator" => a \in 0 .. Len(markets)
        /\ place >= 304 => c # "LendingPool" \/ (place = 304 /\ a = m)
        /\ place >= 307 => c # "LendingPoolConfigurator" \/ (place = 307 /\ a = m)
        /\ place >= 308 => c # "StableAndVariableTokensHelper" \/ (place = 308 /\ a = m)
        /\ place >= 309 => c # "ATokensAndRatesHelper" \/ (place = 309 /\ a = m)
        /\ place = 304 => c = "LendingPool"
        /\ place = 307 => c = "LendingPoolConfigurator"
        /\ place = 308 => c = "StableAndVariableTokensHelper"
        /\ place = 309 => c = "ATokensAndRatesHelper"
        /\ place # 707
    BY <2>5
  <2> QED BY <1>1, <2>4, <2>6, EntryGrows
<1>12. BookAt' /\ m' = m
  <2>1. place \notin {202, 203} OBVIOUS
  <2>2. BookAt' /\ (found(Provider) => m' = m) BY <1>1, <1>2, <1>9, <1>11, <2>1, BookAtGrows
  <2>3. found(Provider) BY <1>1 DEF BookAt
  <2> QED BY <2>2, <2>3
<1>13. config' = config /\ reservesParams' = reservesParams /\ Reserves' = Reserves
       /\ Termed' = Termed /\ \A c : Configured(c)' = Configured(c)
  BY <1>10, SameConfig
<1>14. ChainOK'
  <2>1. MarketsOK' BY <1>1, <1>2, <1>13 DEF ChainOK, MarketsOK
  <2>2. OraclesOK'
    <3>1. \A i \in 1 .. Len(oracles) : OracleOK(oracles[i])
      BY <1>1 DEF ChainOK, OraclesOK, OracleOK
    <3>2. \A i \in 1 .. Len(oracles') : OracleOK(oracles'[i])
      <4> SUFFICES ASSUME NEW i \in 1 .. Len(oracles') PROVE OracleOK(oracles'[i])
        OBVIOUS
      <4>1. CASE i = Len(oracles) + 1 BY <1>3, <1>4, <4>1 DEF Grown
      <4>2. CASE i # Len(oracles) + 1
        <5>1. i \in 1 .. Len(oracles) BY <1>4, <4>2 DEF Grown
        <5>2. oracles'[i] = oracles[i] BY <1>4, <5>1 DEF Grown
        <5> QED BY <3>1, <5>1, <5>2
      <4> QED BY <4>1, <4>2
    <3> QED BY <1>13, <3>2 DEF OraclesOK, OracleOK
  <2>3. BookOK'
    <3>1. found(Provider)' /\ found(Provider)
      BY <1>1, <1>11 DEF BookGrows, Untouched, found, BookAt
    <3>2. found(Registry)' => found(Registry) /\ db'[Registry] = db[Registry]
      BY <1>11 DEF BookGrows, Untouched, Kept, found
    <3>3. found("LendingPoolConfigurator")' => configurator' \in 0 .. Len(markets)
      BY <1>11 DEF BookGrows, found, configurator
    <3>4. Len(oracles') # 0 BY <1>6
    <3>5. run'.kind # "tokens" BY <1>9
    <3> QED BY <1>1, <1>2, <1>12, <1>13, <3>1, <3>2, <3>3, <3>4, <3>5
          DEF ChainOK, BookOK
  <2>4. IsSequence(markets') /\ IsSequence(oracles') /\ IsSequence(registered')
    BY <1>1, <1>2, <1>4 DEF ChainOK, Grown
  <2> QED BY <2>1, <2>2, <2>3, <2>4 DEF ChainOK
<1>15. Budget'
  <2>1. Len(markets) \in Nat /\ Len(markets') = Len(markets) BY <1>1, <1>2 DEF ChainOK, IsSequence
  <2>2. ~ (0 < place' /\ place' <= 203) BY <1>10
  <2> QED BY <1>1, <1>9, <2>1, <2>2, BudgetStays
<1>16. market' = market /\ registry' = registry
  <2>1. Configured("ProviderRegistry") \/ found(Registry) BY <1>1 DEF BookAt
  <2>2. found(Registry) => db'[Registry] = db[Registry]
    BY <1>11 DEF BookGrows, Untouched, Kept, found
  <2> QED BY <1>2, <1>12, <1>13, <2>1, <2>2 DEF market, registry
<1>17. SameFlags(market, market') /\ SameListing(market, market')
  BY <1>16 DEF SameFlags, SameListing
<1>18. ProviderAt'
  <2>1. place \notin {203, 204, 206, 303, 306, 408, 409, 718, 719, 721} /\ ~ (place > 409)
    OBVIOUS
  <2>2. registered[registry] \subseteq registered'[registry] BY <1>2
  <2> QED BY <1>1, <1>9, <1>12, <1>16, <1>17, <2>1, <2>2, ProviderStays
<1>19. OracleAt' BY <1>5, <1>6, <1>9, <1>10 DEF OracleAt
<1>20. ListingAt'
  <2>1. place \notin {203, 205, 703, 708, 710, 713, 714, 715, 716} OBVIOUS
  <2> QED BY <1>1, <1>9, <1>12, <1>17, <2>1, ListingStays
<1> QED BY <1>9, <1>12, <1>14, <1>15, <1>18, <1>19, <1>20 DEF IInv, Goes

\* A deployment: of the contracts of a market in their order, or of the default
\* strategy when reserves are filled in.
LEMMA Deployed ==
    ASSUME IInv, DeployStep
    PROVE  IInv'
<1>1. /\ RunOK /\ Running /\ MustDeploy(step) /\ DeployContract(step.of) /\ UNCHANGED started
      /\ Continue(IF step.of = "LendingRateOracle" THEN [run EXCEPT !.oracle = Len(oracles')]
                  ELSE run)
  BY DEF DeployStep, IInv
<1>2. step.do \in {"deploy", "reuse"} BY <1>1 DEF MustDeploy
<1>3. /\ \A c : Deploy(c).of = c /\ Reuse(c).of = c
      /\ \A c : Find(c).do = "find" /\ Read(c).do = "read" /\ Tx(c).do = c
  BY DEF Deploy, Reuse, Find, Read, Tx, Step
<1>4. CASE run.kind = "tokens"
  <2>1. step = Deploy("DefaultReserveInterestRateStrategy") /\ place = 0
    <3>1. run.pc \in {1, 2, 3, 4, 5, 6} BY <1>1, <1>4, StepsOfTokens
    <3> QED BY <1>1, <1>2, <1>3, <1>4, <3>1, StepsOfTokens
  <2>2. step.of = "DefaultReserveInterestRateStrategy" BY <1>3, <2>1
  <2>3. Continue(run) BY <1>1, <2>2
  <2> QED BY <1>1, <1>4, <2>1, <2>2, <2>3, ContractDeployed
<1>5. CASE run.kind # "tokens"
  <2>1. Migrating BY <1>1, <1>5 DEF Migrating
  <2>2. place \in {302, 305, 402, 403, 601, 717} \union {101, 203, 308, 309, 502, 706, 707, 719}
    BY <1>1, <1>2, <2>1, PlacesOfSteps
  <2>3. /\ place = 101 => step.of = Registry
        /\ place = 203 => step.of = Provider
        /\ place = 302 => step.of = "LendingPool"
        /\ place = 305 => step.of = "LendingPoolConfigurator"
        /\ place = 308 => step.of = "StableAndVariableTokensHelper"
        /\ place = 309 => step.of = "ATokensAndRatesHelper"
        /\ place = 402 => step.of = "AaveOracle"
        /\ place = 403 => step.of = "LendingRateOracle"
        /\ place = 502 => step.of = "AaveProtocolDataProvider"
        /\ place = 601 => step.of = "WethGateway"
        /\ place = 706 => step.of = "TokenImplementations"
        /\ place = 707 => step.of = "Strategies"
        /\ place = 717 => step.of = "LendingPoolCollateralManager"
        /\ place = 719 => step.of = "WalletBalanceProvider"
    BY <1>1, <1>3, <2>1, StepIs
  <2>4. CASE place = 403
    <3>1. step.of = "LendingRateOracle" BY <2>3, <2>4
    <3>2. DeployContract("LendingRateOracle") /\ Continue([run EXCEPT !.oracle = Len(oracles')])
      BY <1>1, <3>1
    <3> QED BY <1>1, <1>5, <2>4, <3>2, OracleDeployed
  <2>5. place # 403 => step.of # "LendingRateOracle"
    BY <2>2, <2>3 DEF Provider, Registry
  <2>6. place # 403 => Continue(run) BY <1>1, <2>5
  <2>7. CASE place = 101
    <3>1. DeployContract(Registry) BY <1>1, <2>3, <2>7
    <3> QED BY <1>1, <1>5, <2>6, <2>7, <3>1, RegistryDeployed
  <2>8. CASE place = 203
    <3>1. DeployContract(Provider) BY <1>1, <2>3, <2>8
    <3> QED BY <1>1, <1>5, <2>6, <2>8, <3>1, ProviderDeployed
  <2>9. CASE place \notin {101, 203, 403}
    <3>1. PICK c : c = step.of OBVIOUS
    <3>2. \/ place = 302 /\ c = "LendingPool"
          \/ place = 305 /\ c = "LendingPoolConfigurator"
          \/ place = 308 /\ c = "StableAndVariableTokensHelper"
          \/ place = 309 /\ c = "ATokensAndRatesHelper"
          \/ place = 402 /\ c = "AaveOracle"
          \/ place = 502 /\ c = "AaveProtocolDataProvider"
          \/ place = 601 /\ c = "WethGateway"
          \/ place = 706 /\ c = "TokenImplementations"
          \/ place = 707 /\ c = "Strategies"
          \/ place = 717 /\ c = "LendingPoolCollateralManager"
          \/ place = 719 /\ c = "WalletBalanceProvider"
      BY <2>2, <2>3, <2>9, <3>1
    <3>3. DeployContract(c) BY <1>1, <3>1
    <3>4. Continue(run) BY <2>6, <2>9
    <3> QED BY <1>1, <3>2, <3>3, <3>4, ContractDeployed
  <2> QED BY <2>4, <2>7, <2>8, <2>9
<1> QED BY <1>4, <1>5
-----------------------------------------------------------------------------
(* What the operator starts.                                                 *)

\* What a process keeps that the operator starts.
LEMMA Begins ==
    ASSUME RunOK, NEW kind \in {"migration", "repeat", "tokens"}, NEW tasks, Begin(kind, tasks)
    PROVE  /\ IsRun(run') /\ run'.status = "running" /\ run'.kind = kind /\ run'.tasks = tasks
           /\ run'.pc = 1 /\ run'.oracle = run.oracle /\ run'.admin = run.admin
           /\ run'.inputs = run.inputs /\ run'.target = run.target
<1>1. run = [status |-> run.status, kind |-> run.kind, tasks |-> run.tasks, pc |-> run.pc,
             chunk |-> run.chunk, oracle |-> run.oracle, admin |-> run.admin,
             inputs |-> run.inputs, clean |-> run.clean, target |-> run.target]
  BY DEF RunOK, IsRun
<1>2. run' = [run EXCEPT !.status = "running", !.kind = kind, !.tasks = tasks,
                         !.pc = 1, !.clean = TRUE]
  BY DEF Begin
<1>3. run' = [status |-> "running", kind |-> kind, tasks |-> tasks, pc |-> 1,
              chunk |-> run.chunk, oracle |-> run.oracle, admin |-> run.admin,
              inputs |-> run.inputs, clean |-> TRUE, target |-> run.target]
  BY <1>1, <1>2
<1>4. /\ run'.status = "running" /\ run'.kind = kind /\ run'.tasks = tasks /\ run'.pc = 1
      /\ run'.chunk = run.chunk /\ run'.oracle = run.oracle /\ run'.admin = run.admin
      /\ run'.inputs = run.inputs /\ run'.clean = TRUE /\ run'.target = run.target
  BY <1>3
<1>5. IsRun(run')
  <2>1. run' = [status |-> run'.status, kind |-> run'.kind, tasks |-> run'.tasks,
                pc |-> run'.pc, chunk |-> run'.chunk, oracle |-> run'.oracle,
                admin |-> run'.admin, inputs |-> run'.inputs, clean |-> run'.clean,
                target |-> run'.target]
    BY <1>3
  <2>2. run.oracle \in Nat /\ run.chunk \in Nat /\ run.target \in Targets BY DEF RunOK, IsRun
  <2>3. /\ "running" \in {"idle", "running", "failed", "done"}
        /\ kind \in {"", "migration", "repeat", "tokens"} /\ TRUE \in BOOLEAN
    OBVIOUS
  <2> QED BY <1>4, <2>1, <2>2, <2>3, Zenon DEF IsRun
<1> QED BY <1>4, <1>5

\* A migration or its rest starts with the first step of a task.
LEMMA BeginsMigration ==
    ASSUME RunOK, NEW kind \in {"migration", "repeat"}, NEW tasks,
           InOrder(tasks, target.pool), Begin(kind, tasks)
    PROVE  RunOK' /\ place' = Rank(Head(tasks)) + 1 /\ Head(tasks) \in MigrationTasks
<1>1. /\ IsRun(run') /\ run'.status = "running" /\ run'.kind = kind /\ run'.tasks = tasks
      /\ run'.pc = 1 /\ run'.inputs = run.inputs /\ run'.target = run.target
  BY Begins
<1>2. /\ target' = target /\ Reserves' = Reserves /\ \A t : Task(t)' = Task(t)
  BY <1>1, SameTarget
<1>3. Head(tasks) \in MigrationTasks BY HeadTailProperties DEF InOrder
<1>4. Size(Head(tasks)) \in Nat \ {0} BY <1>3, SizesAreNat
<1>5. run'.pc \in 1 .. Len(program')
  <2>1. program' = Task(Head(tasks)) BY <1>1, <1>2 DEF program
  <2>2. Len(program') \in Nat \ {0} BY <1>4, <2>1 DEF Size
  <2> QED BY <1>1, <2>2
<1>6. run'.inputs \in Seq(Reserves') BY <1>1, <1>2, RunIs
<1>7. RunOK'
  <2>1. run'.kind # "tokens" /\ run'.kind # "" BY <1>1
  <2>2. InOrder(run'.tasks, target'.pool) BY <1>1, <1>2
  <2> QED BY <1>1, <1>5, <1>6, <2>1, <2>2 DEF RunOK
<1>8. place' = Rank(Head(tasks)) + 1 BY <1>1 DEF place, placeOf
<1> QED BY <1>3, <1>7, <1>8

\* The tasks of a migration follow each other.
LEMMA MigrationInOrder ==
    /\ InOrder(migration, target.pool)
    /\ Head(migration) \in {"address-provider-registry", "address-provider"}
<1>1. CASE target.pool = "Moola"
  <2>1. migration = moolaMigration BY <1>1 DEF migration
  <2>2. moolaMigration \in Seq(MigrationTasks) /\ Len(moolaMigration) = 6
    BY DEF moolaMigration, MigrationTasks
  <2>3. \A i \in 1 .. 5 : Follows(moolaMigration[i], moolaMigration[i + 1], "Moola")
    BY DEF moolaMigration, Follows
  <2>4. /\ moolaMigration[6] = "initialize-lending-pool"
        /\ Head(moolaMigration) = "address-provider-registry" /\ moolaMigration # <<>>
    BY DEF moolaMigration
  <2> QED BY <1>1, <2>1, <2>2, <2>3, <2>4 DEF InOrder
<1>2. CASE target.pool = "Matic"
  <2>1. migration = maticMigration BY <1>2 DEF migration
  <2>2. maticMigration \in Seq(MigrationTasks) /\ Len(maticMigration) = 5
    BY DEF maticMigration, MigrationTasks
  <2>3. \A i \in 1 .. 4 : Follows(maticMigration[i], maticMigration[i + 1], "Matic")
    BY DEF maticMigration, Follows
  <2>4. /\ maticMigration[5] = "initialize-lending-pool"
        /\ Head(maticMigration) = "address-provider" /\ maticMigration # <<>>
    BY DEF maticMigration
  <2> QED BY <1>2, <2>1, <2>2, <2>3, <2>4 DEF InOrder
<1>3. CASE target.pool \notin {"Moola", "Matic"}
  <2>1. migration = mainnetMigration BY <1>3 DEF migration
  <2>2. mainnetMigration \in Seq(MigrationTasks) /\ Len(mainnetMigration) = 6
    BY DEF mainnetMigration, MigrationTasks
  <2>3. \A i \in 1 .. 5 : Follows(mainnetMigration[i], mainnetMigration[i + 1], target.pool)
    BY <1>3 DEF mainnetMigration, Follows
  <2>4. /\ mainnetMigration[6] = "initialize-lending-pool"
        /\ Head(mainnetMigration) = "address-provider" /\ mainnetMigration # <<>>
    BY DEF mainnetMigration
  <2> QED BY <2>1, <2>2, <2>3, <2>4 DEF InOrder
<1> QED BY <1>1, <1>2, <1>3

\* A new migration keeps the invariant, whatever an earlier one left.
LEMMA MigrationStarted ==
    ASSUME IInv, StartMigration
    PROVE  IInv'
<1>1. /\ RunOK /\ ChainOK /\ Budget /\ started < target.migrations
      /\ Begin("migration", migration) /\ started' = started + 1
      /\ UNCHANGED <<db, chain, faults>>
  BY DEF StartMigration, Begin, IInv
<1>2. RunOK' /\ place' \in {101, 201}
  <2>1. PICK tasks : tasks = migration OBVIOUS
  <2>2. InOrder(tasks, target.pool) /\ Head(tasks) \in {"address-provider-registry", "address-provider"}
    BY <2>1, MigrationInOrder
  <2>3. Begin("migration", tasks) BY <1>1, <2>1
  <2>4. RunOK' /\ place' = Rank(Head(tasks)) + 1 BY <1>1, <2>2, <2>3, BeginsMigration
  <2> QED BY <2>2, <2>4 DEF Rank
<1>3. run'.target = run.target /\ run'.kind = "migration" BY <1>1, Begins
<1>4. ChainOK'
  <2>1. run'.kind # "tokens" BY <1>3
  <2> QED BY <1>1, <1>3, <2>1, ChainFrame
<1>5. Budget'
  <2>1. target' = target BY <1>3, SameConfig
  <2>2. markets' = markets BY <1>1 DEF chain
  <2>3. Len(markets) \in Nat BY <1>1 DEF ChainOK, IsSequence
  <2>4. started \in Nat /\ faults \in 0 .. target.faults /\ Len(markets) <= started + faults
    <3>1. target.migrations \in Nat /\ target.faults \in Nat BY <1>1, RunIs, ConfigOK
    <3> QED BY <1>1, <2>3, <3>1 DEF Budget
  <2>5. started' \in 0 .. target.migrations
    <3>1. target.migrations \in Nat BY <1>1, RunIs, ConfigOK
    <3> QED BY <1>1, <2>4, <3>1
  <2>6. faults' = faults /\ faults \in Nat
    <3>1. target.faults \in Nat BY <1>1, RunIs, ConfigOK
    <3> QED BY <1>1, <2>4, <3>1
  <2>7. Len(markets) + 1 <= started' + faults BY <1>1, <2>3, <2>4, <2>6
  <2>8. (IF 0 < place' /\ place' <= 203 THEN 1 ELSE 0) = 1 BY <1>2
  <2> QED BY <2>1, <2>2, <2>4, <2>5, <2>6, <2>7, <2>8 DEF Budget
<1>6. BookAt' /\ ProviderAt' /\ OracleAt' /\ ListingAt'
  BY <1>2 DEF BookAt, ProviderAt, OracleAt, ListingAt
<1> QED BY <1>2, <1>4, <1>5, <1>6 DEF IInv

\* The failed task is run again from its first step, where it failed.
LEMMA Repeated ==
    ASSUME IInv, Repeat
    PROVE  IInv'
<1>1. /\ RunOK /\ run.status = "failed" /\ run.kind # "tokens" /\ Begin("repeat", run.tasks)
      /\ UNCHANGED <<db, chain, faults, started>>
  BY DEF Repeat, Begin, IInv
<1>2. run.kind \in {"migration", "repeat"}
  <2>1. run.kind \in {"", "migration", "repeat", "tokens"} BY <1>1, RunIs
  <2>2. run.kind # "" BY <1>1 DEF RunOK
  <2> QED BY <1>1, <2>1, <2>2
<1>3. InOrder(run.tasks, target.pool) BY <1>1, <1>2 DEF RunOK
<1>4. RunOK' /\ place' = Rank(Head(run.tasks)) + 1
  <2>1. PICK tasks : tasks = run.tasks OBVIOUS
  <2>2. InOrder(tasks, target.pool) /\ Begin("repeat", tasks) BY <1>1, <1>3, <2>1
  <2>3. RunOK' /\ place' = Rank(Head(tasks)) + 1 BY <1>1, <2>2, BeginsMigration
  <2> QED BY <2>1, <2>3
<1>5. place' = place BY <1>1, <1>4 DEF place, placeOf
<1>6. /\ run'.kind = "repeat" /\ run'.oracle = run.oracle /\ run'.admin = run.admin
      /\ run'.inputs = run.inputs /\ run'.target = run.target
  <2>1. PICK tasks : tasks = run.tasks OBVIOUS
  <2> QED BY <1>1, <2>1, Begins
<1>7. place \in Firsts /\ place \in Places BY <1>1, PlaceIs
<1>8. Goes
  <2>1. Crosses(place, place) /\ place \in Nat BY <1>7, StayCrosses
  <2> QED BY <1>4, <1>5, <1>6, <1>7, <2>1 DEF Goes
<1>9. place' \notin {406, 710, 715} /\ place' <= place
  <2>1. place \notin {406, 710, 715} BY <1>7 DEF Firsts
  <2> QED BY <1>5, <1>8, <2>1 DEF Goes
<1>10. run'.kind # "tokens" BY <1>6
<1>11. RunOK' /\ ChainOK' /\ Budget' /\ BookAt' /\ ProviderAt' /\ OracleAt' /\ ListingAt'
  BY <1>1, <1>5, <1>6, <1>8, <1>9, <1>10, QuietKeeps
<1> QED BY <1>11 DEF IInv

\* Reserves are filled in after an initialisation has failed: the market and its
\* configurator are in the address book.
LEMMA TokensInitialised ==
    ASSUME IInv, InitializeTokens
    PROVE  IInv'
<1>1. /\ RunOK /\ BookAt /\ run.status = "failed" /\ Head(run.tasks) = "initialize-lending-pool"
      /\ Begin("tokens", <<"initialize-tokens">>) /\ UNCHANGED <<db, chain, faults, started>>
  BY DEF InitializeTokens, Begin, IInv
<1>2. run.kind # "tokens"
  <2>1. run.kind = "tokens" => Head(run.tasks) = "initialize-tokens" BY <1>1 DEF RunOK
  <2> QED BY <1>1, <2>1
<1>3. place = 701 BY <1>1, <1>2 DEF place, placeOf, Rank
<1>4. found(Provider) /\ found("LendingPoolConfigurator")
  BY <1>1, <1>3 DEF BookAt, Recorded
<1>5. PICK tasks : tasks = <<"initialize-tokens">> OBVIOUS
<1>6. /\ IsRun(run') /\ run'.status = "running" /\ run'.kind = "tokens" /\ run'.tasks = tasks
      /\ run'.pc = 1 /\ run'.inputs = run.inputs /\ run'.target = run.target
  <2>1. Begin("tokens", tasks) BY <1>1, <1>5
  <2> QED BY <1>1, <2>1, Begins
<1>7. RunOK'
  <2>1. Reserves' = Reserves /\ \A t : Task(t)' = Task(t) BY <1>6, SameTarget
  <2>2. run'.inputs \in Seq(Reserves') BY <1>1, <1>6, <2>1, RunIs
  <2>3. program' = Task("initialize-tokens")
    <3>1. Head(run'.tasks) = "initialize-tokens" BY <1>5, <1>6
    <3> QED BY <2>1, <3>1 DEF program
  <2>4. Len(program') = 6 BY <2>3, SizesOfTasks DEF Size
  <2>5. run'.pc \in 1 .. Len(program') BY <1>6, <2>4
  <2> QED BY <1>5, <1>6, <2>2, <2>5 DEF RunOK
<1>8. place' = 0 BY <1>6 DEF place, placeOf
<1>9. Goes
  <2>1. place \in Places /\ place \in Nat BY <1>3 DEF Places
  <2>2. Crosses(place, place') /\ place' \in Nat BY <1>8, <2>1, StartCrosses
  <2> QED BY <1>6, <1>7, <2>1, <2>2 DEF Goes
<1>10. /\ place' \notin {406, 710, 715} /\ place' <= place
       /\ faults' = faults /\ (0 < place' /\ place' <= 203 => 0 < place /\ place <= 203)
  BY <1>1, <1>3, <1>8
<1>11. ChainOK' /\ Budget'
  BY <1>1, <1>4, <1>9, <1>10, QuietKeeps
<1>12. BookAt' /\ ProviderAt' /\ OracleAt' /\ ListingAt'
  BY <1>8 DEF BookAt, ProviderAt, OracleAt, ListingAt
<1> QED BY <1>7, <1>11, <1>12 DEF IInv

\* A step of something else.
LEMMA Stuttered ==
    ASSUME IInv, UNCHANGED vars
    PROVE  IInv'
<1>1. /\ db' = db /\ registered' = registered /\ markets' = markets /\ oracles' = oracles
      /\ run' = run /\ started' = started /\ faults' = faults
  BY DEF vars, chain
<1>2. RunOK /\ ChainOK BY DEF IInv
<1>3. place' = place BY <1>1 DEF place
<1>4. target' = target BY <1>1, SameConfig
<1>5. RunOK'
  <2>1. Reserves' = Reserves /\ \A t : Task(t)' = Task(t) BY <1>1, SameTarget
  <2>2. program' = program BY <1>1, <2>1 DEF program
  <2>3. Running' = Running BY <1>1 DEF Running
  <2> QED BY <1>1, <1>2, <1>4, <2>1, <2>2, <2>3 DEF RunOK
<1>6. place \in Places BY <1>2, PlaceIs
<1>7. Crosses(place, place) /\ place \in Nat BY <1>6, StayCrosses
<1>8. Goes BY <1>1, <1>3, <1>5, <1>6, <1>7 DEF Goes
<1>9. run'.kind = "tokens" => found(Provider) /\ found("LendingPoolConfigurator")
  BY <1>1, <1>2, EntriesForTokens
<1>10. UNCHANGED <<db, chain, started>> /\ place' <= place BY <1>1, <1>3, <1>7 DEF chain
<1>11. ChainOK' BY <1>1, <1>2, <1>9, <1>10, ChainFrame
<1>12. /\ m' = m /\ market' = market /\ registry' = registry
  <2>1. run'.target = run.target BY <1>1
  <2>2. m' = m /\ registry' = registry BY <1>1, <2>1, SameRegistry
  <2> QED BY <1>1, <2>2 DEF market
<1>13. /\ Configured("ProviderRegistry")' = Configured("ProviderRegistry")
       /\ Reserves' = Reserves /\ reservesParams' = reservesParams /\ Termed' = Termed
       /\ rateSymbols' = rateSymbols /\ config' = config
  <2>1. run'.target = run.target BY <1>1
  <2> QED BY <2>1, SameConfig
<1>14. Budget' BY <1>1, <1>3, <1>4 DEF IInv, Budget
<1>15. BookAt' BY <1>1, <1>3, <1>12, <1>13 DEF IInv, BookAt, found, Recorded
<1>16. ProviderAt' BY <1>1, <1>3, <1>4, <1>12 DEF IInv, ProviderAt
<1>17. OracleAt' BY <1>1, <1>3, <1>13 DEF IInv, OracleAt
<1>18. ListingAt' BY <1>1, <1>3, <1>12, <1>13 DEF IInv, ListingAt
<1> QED BY <1>5, <1>11, <1>14, <1>15, <1>16, <1>17, <1>18 DEF IInv
-----------------------------------------------------------------------------
(* The invariant holds at first, after every step, and so always.            *)

\* The invariant holds at first.
LEMMA AtFirst ==
    ASSUME Init
    PROVE  IInv
<1>1. PICK t \in Targets :
        run = [status |-> "idle", kind |-> "", tasks |-> <<>>, pc |-> 1, chunk |-> 0,
               oracle |-> 0, admin |-> NoOne, inputs |-> <<>>, clean |-> TRUE, target |-> t]
  BY DEF Init
<1>2. /\ run.status = "idle" /\ run.kind = "" /\ run.inputs = <<>> /\ run.chunk = 0
      /\ run.oracle = 0 /\ run.clean = TRUE /\ run.target = t
  BY <1>1
<1>3. IsRun(run)
  <2>1. run = [status |-> run.status, kind |-> run.kind, tasks |-> run.tasks, pc |-> run.pc,
               chunk |-> run.chunk, oracle |-> run.oracle, admin |-> run.admin,
               inputs |-> run.inputs, clean |-> run.clean, target |-> run.target]
    BY <1>1
  <2>2. /\ "idle" \in {"idle", "running", "failed", "done"}
        /\ "" \in {"", "migration", "repeat", "tokens"} /\ 0 \in Nat /\ TRUE \in BOOLEAN
    OBVIOUS
  <2> QED BY <1>2, <2>1, <2>2, Zenon DEF IsRun
<1>4. RunOK
  <2>1. run.inputs \in Seq(Reserves) BY <1>2, EmptySeq
  <2> QED BY <1>2, <1>3, <2>1 DEF RunOK, Running
<1>5. place = 0 BY <1>2 DEF place, placeOf
<1>6. /\ db = <<>> /\ markets = <<>> /\ started = 0 /\ faults = 0
      /\ registered = (IF Configured("ProviderRegistry") THEN <<{}>> ELSE <<>>)
      /\ oracles = (IF Configured("LendingRateOracle")
                    THEN <<[owner |-> Deployer, rates |-> <<>>]>> ELSE <<>>)
  BY DEF Init
<1>7. \A c : ~ found(c) BY <1>6 DEF found
<1>8. MarketsOK BY <1>6 DEF MarketsOK
<1>9. IsSequence(oracles) /\ OraclesOK /\ (Configured("LendingRateOracle") => Len(oracles) # 0)
  <2> DEFINE o == [owner |-> Deployer, rates |-> <<>>]
  <2>1. OracleOK(o) BY DEF OracleOK, IsOracle
  <2>2. oracles = <<o>> \/ oracles = <<>> BY <1>6
  <2>3. Configured("LendingRateOracle") => oracles = <<o>> BY <1>6
  <2> HIDE DEF o
  <2>4. \A i \in 1 .. Len(oracles) : OracleOK(oracles[i]) BY <2>1, <2>2
  <2>5. OraclesOK BY <2>4 DEF OraclesOK, OracleOK
  <2>6. IsSequence(oracles)
    <3>1. <<>> \in Seq({o}) BY EmptySeq
    <3>2. <<o>> \in Seq({o}) OBVIOUS
    <3> QED BY <2>2, <3>1, <3>2, SeqIsSequence
  <2> QED BY <2>3, <2>5, <2>6
<1>10. IsSequence(registered) /\ (Configured("ProviderRegistry") => Len(registered) # 0)
  <2> DEFINE r == {}
  <2>1. <<>> \in Seq({r}) BY EmptySeq
  <2> HIDE DEF r
  <2>2. <<r>> \in Seq({r}) OBVIOUS
  <2>3. registered = <<r>> \/ registered = <<>> BY <1>6 DEF r
  <2>4. IsSequence(registered) BY <2>1, <2>2, <2>3, SeqIsSequence
  <2> QED BY <1>6, <2>4
<1>11. IsSequence(markets)
  <2>1. markets \in Seq({}) BY <1>6
  <2> QED BY <2>1, SeqIsSequence
<1>12. BookOK BY <1>2, <1>7, <1>9, <1>10 DEF BookOK
<1>13. ChainOK BY <1>8, <1>9, <1>10, <1>11, <1>12 DEF ChainOK
<1>14. Budget
  <2>1. target.migrations \in Nat /\ target.faults \in Nat BY <1>2, ConfigOK
  <2>2. Len(markets) = 0 BY <1>6
  <2> QED BY <1>5, <1>6, <2>1, <2>2 DEF Budget
<1>15. BookAt /\ ProviderAt /\ OracleAt /\ ListingAt
  BY <1>5 DEF BookAt, ProviderAt, OracleAt, ListingAt
<1> QED BY <1>4, <1>13, <1>14, <1>15 DEF IInv

\* Every step keeps the invariant.
LEMMA AtEachStep ==
    ASSUME IInv, [Next]_vars
    PROVE  IInv'
<1>1. CASE StartMigration BY <1>1, MigrationStarted
<1>2. CASE Repeat BY <1>2, Repeated
<1>3. CASE InitializeTokens BY <1>3, TokensInitialised
<1>4. CASE DeployStep BY <1>4, Deployed
<1>5. CASE ReuseStep BY <1>5, Reused
<1>6. CASE InsertStep BY <1>6, Inserted
<1>7. CASE FindStep BY <1>7, Found
<1>8. CASE CheckStep BY <1>8, Checked
<1>9. CASE ReadStep BY <1>9, HasRead
<1>10. CASE RegisterAddressesProvider BY <1>10, ProviderRegistered
<1>11. CASE SetGenesisAdmin BY <1>11, GenesisAdminSet
<1>12. CASE SetEmergencyAdmin BY <1>12, EmergencyAdminSet
<1>13. CASE SetLendingPoolImpl BY <1>13, LendingPoolSet
<1>14. CASE SetLendingPoolConfiguratorImpl BY <1>14, LendingPoolConfiguratorSet
<1>15. CASE TransferOwnership BY <1>15, OwnershipTransferred
<1>16. CASE SetOracleBorrowRates BY <1>16, BorrowRatesSet
<1>17. CASE SetOracleOwnership BY <1>17, OwnershipSet
<1>18. CASE SetPriceOracle BY <1>18, PriceOracleSet
<1>19. CASE SetLendingRateOracle BY <1>19, LendingRateOracleSet
<1>20. CASE BatchInitReserve BY <1>20, ReservesListed
<1>21. CASE NothingToInit BY <1>21, NothingInitialised
<1>22. CASE SetTemporalAdmin BY <1>22, TemporalAdminSet
<1>23. CASE ConfigureReserves BY <1>23, ReservesConfigured
<1>24. CASE SetAdminBack BY <1>24, AdminBackSet
<1>25. CASE SetLendingPoolCollateralManager BY <1>25, CollateralManagerSet
<1>26. CASE AuthorizeLendingPool BY <1>26, LendingPoolAuthorized
<1>27. CASE Throws BY <1>27, Thrown
<1>28. CASE CallFails BY <1>28, CallFailed
<1>29. CASE UNCHANGED vars BY <1>29, Stuttered
<1> QED BY <1>1, <1>2, <1>3, <1>4, <1>5, <1>6, <1>7, <1>8, <1>9, <1>10, <1>11, <1>12, <1>13,
          <1>14, <1>15, <1>16, <1>17, <1>18, <1>19, <1>20, <1>21, <1>22, <1>23, <1>24, <1>25,
          <1>26, <1>27, <1>28, <1>29 DEF Next

\* What is in the address book, set on the chain, listed and configured at every place
\* of a migration holds in every reachable state, after any failures and restarts.
THEOREM DeploymentInvariant == Spec => []IInv
<1>1. Init => IInv BY AtFirst
<1>2. IInv /\ [Next]_vars => IInv' BY AtEachStep
<1> QED BY <1>1, <1>2, PTL DEF Spec

\* The end of a migration is the last place, where the invariant has all of the
\* finished market.
LEMMA FinishedIsOpen ==
    ASSUME IInv
    PROVE  FinishedMarketIsOpen
<1> SUFFICES ASSUME run.status = "done", run.kind # "tokens"
             PROVE  /\ InPlace(m) /\ AsConfigured(m)
                    /\ markets[m].rateOracle # 0 /\ RatesInPlace(markets[m].rateOracle)
  BY DEF FinishedMarketIsOpen
<1>1. RunOK /\ ChainOK /\ BookAt /\ ProviderAt /\ OracleAt /\ ListingAt BY DEF IInv
<1>2. place = 1000 BY DEF place, placeOf, Finished
<1>3. m \in 1 .. Len(markets) BY <1>1, <1>2, MarketInUse
<1>4. InPlace(m)
  <2>1. m \in registered[registry] BY <1>1, <1>2 DEF ProviderAt
  <2>2. market.admin = Deployer BY <1>1, <1>2 DEF ListingAt
  <2>3. db["LendingPool"] = m /\ db["LendingPoolConfigurator"] = m
    BY <1>1, <1>2 DEF BookAt, Recorded
  <2>4. /\ market.emergency /\ market.pool /\ market.configurator /\ market.priceOracle
        /\ market.manager /\ (target.pool = "Moola" \/ market.gateway)
    BY <1>1, <1>2 DEF ProviderAt
  <2> QED BY <2>1, <2>2, <2>3, <2>4 DEF InPlace, market
<1>5. RowOK(market) BY <1>1, <1>3 DEF ChainOK, MarketsOK, RowOK, market
<1>6. DOMAIN market.listed = Reserves /\ DOMAIN market.terms = Termed BY <1>1, <1>2 DEF ListingAt
<1>7. AsConfigured(m)
  <2>1. \A s \in Reserves : market.listed[s] = ownStrategy(reservesParams[s], m)
    BY <1>1, <1>2, <1>6 DEF ListingAt
  <2> QED BY <1>5, <1>6, <2>1 DEF AsConfigured, market, ownStrategy, RowOK, Termed
<1>8. market.rateOracle = run.oracle /\ run.oracle \in 1 .. Len(oracles)
  BY <1>1, <1>2 DEF ProviderAt, OracleAt
<1>9. RatesInPlace(run.oracle)
  <2>1. oracles[run.oracle].owner = Deployer BY <1>1, <1>2 DEF OracleAt
  <2>2. Reserves \subseteq config.assets BY <1>5, <1>6 DEF RowOK
  <2>3. ASSUME NEW s \in Reserves \intersect DOMAIN config.rates
        PROVE  s \in DOMAIN oracles[run.oracle].rates
    <3>1. PICK i \in 1 .. Len(rateSymbols) : rateSymbols[i] = s
      BY <1>1, <2>2, RateSymbolsAre
    <3> QED BY <1>1, <1>2, <3>1 DEF OracleAt
  <2>4. \A s \in DOMAIN oracles[run.oracle].rates : oracles[run.oracle].rates[s] = config.rates[s]
    BY <1>1, <1>8 DEF ChainOK, OraclesOK
  <2> QED BY <2>1, <2>3, <2>4 DEF RatesInPlace
<1>10. run.oracle # 0 BY <1>8
<1> QED BY <1>4, <1>7, <1>8, <1>9, <1>10 DEF market

\* When a migration, or the repetition of its failed task and the tasks after it,
\* reports success, the market is complete, configured and in the deployer's hands,
\* whatever failed on the way.
THEOREM FinishedMarketsAreOpen == Spec => []FinishedMarketIsOpen
<1>1. IInv => FinishedMarketIsOpen BY FinishedIsOpen
<1> QED BY <1>1, DeploymentInvariant, PTL
-----------------------------------------------------------------------------
(* Every step lists, or does nothing that MarketListing sees.                *)

\* What MarketListing sees of a market.
rightsOf(n) ==
    IF ~ known(n) \/ markets[n].admin = NoOne THEN "none"
    ELSE IF markets[n].admin = Deployer THEN "genesis" ELSE "helper"
listedOf(n) == IF known(n) THEN DOMAIN markets[n].listed ELSE {}
termedOf(n) == IF known(n) THEN DOMAIN markets[n].terms ELSE {}
rightsSeen == [n \in Markets |-> rightsOf(n)]
listedSeen == [n \in Markets |-> listedOf(n)]
termedSeen == [n \in Markets |-> termedOf(n)]
planSeen == PlanOf(reservesParams)

\* A process keeps its target.
IsRecord(r) ==
    r = [status |-> r.status, kind |-> r.kind, tasks |-> r.tasks, pc |-> r.pc,
         chunk |-> r.chunk, oracle |-> r.oracle, admin |-> r.admin, inputs |-> r.inputs,
         clean |-> r.clean, target |-> r.target]

\* Going on keeps the target.
LEMMA ProceedKeepsTarget ==
    ASSUME NEW r, IsRecord(r), r.target = run.target, Continue(r)
    PROVE  run'.target = run.target
<1>1. run' = proceed(r) BY DEF Continue
<1>2. \/ run' = [r EXCEPT !.pc = @ + 1, !.chunk = 0]
      \/ run' = [r EXCEPT !.tasks = Tail(@), !.pc = 1, !.chunk = 0]
      \/ run' = [r EXCEPT !.status = "done", !.chunk = 0]
  BY <1>1 DEF proceed
<1>3. CASE run' = [r EXCEPT !.pc = @ + 1, !.chunk = 0] BY <1>3 DEF IsRecord
<1>4. CASE run' = [r EXCEPT !.tasks = Tail(@), !.pc = 1, !.chunk = 0] BY <1>4 DEF IsRecord
<1>5. CASE run' = [r EXCEPT !.status = "done", !.chunk = 0] BY <1>5 DEF IsRecord
<1> QED BY <1>2, <1>3, <1>4, <1>5

\* Failing and going round a loop keep the target.
LEMMA BreakKeepsTarget ==
    ASSUME IsRecord(run)
    PROVE  /\ Break => run'.target = run.target
           /\ run' = failed(run) => run'.target = run.target
           /\ run' = [run EXCEPT !.chunk = @ + 1] => run'.target = run.target
BY DEF IsRecord, Break, failed

\* The ways a step ends keep the target.
LEMMA RunIsRecord ==
    ASSUME RunOK
    PROVE  /\ IsRecord(run)
           /\ Continue(run) \/ Mined \/ Break => run'.target = run.target
           /\ \A array, size : MinedChunk(array, size) => run'.target = run.target
<1>1. IsRecord(run) BY DEF RunOK, IsRun, IsRecord
<1>2. Continue(run) => run'.target = run.target BY <1>1, ProceedKeepsTarget
<1>3. Break => run'.target = run.target BY <1>1, BreakKeepsTarget
<1>4. \A array, size : MinedChunk(array, size) => run'.target = run.target
  <2> SUFFICES ASSUME NEW array, NEW size, MinedChunk(array, size)
               PROVE  run'.target = run.target
    OBVIOUS
  <2>1. run' = [run EXCEPT !.chunk = @ + 1] \/ Continue(run) \/ Break BY DEF MinedChunk
  <2> QED BY <1>1, <1>2, <1>3, <2>1, BreakKeepsTarget
<1> QED BY <1>1, <1>2, <1>3, <1>4 DEF Mined

ReadInto(q, v, p) ==
    \/ q = [run EXCEPT !.admin = v]
    \/ q = [run EXCEPT !.inputs = v]
    \/ q = [run EXCEPT !.inputs = v, !.pc = p]

\* Reading keeps the target.
LEMMA ReadKeepsTarget ==
    ASSUME RunOK, ReadStep
    PROVE  run'.target = run.target
<1>1. IsRecord(run) BY RunIsRecord
<1>2. \/ Continue([run EXCEPT !.admin = market.admin])
      \/ Continue([run EXCEPT !.inputs = config.order])
      \/ Continue([run EXCEPT !.inputs = uninitialised])
      \/ Continue([run EXCEPT !.inputs = unconfigured,
                              !.pc = IF unconfigured = <<>> THEN @ + 3 ELSE @])
  <2>1. step.of \in {"poolAdmin", "reserves", "uninitialised", "unconfigured"}
    <3>1. RunOK /\ Running /\ step.do = "read" BY DEF ReadStep, At
    <3>2. \A f : Read(f).of = f BY DEF Read, Step
    <3>3. CASE run.kind = "tokens"
      <4>1. run.pc \in {1, 2, 3, 4, 5, 6} BY <3>1, <3>3, StepsOfTokens
      <4>2. \A c : Find(c).do = "find" /\ Deploy(c).do = "deploy" /\ Tx(c).do = c
        BY DEF Find, Deploy, Tx, Step
      <4>3. step = Read("uninitialised") BY <3>1, <3>3, <4>1, <4>2, StepsOfTokens
      <4> QED BY <3>2, <4>3
    <3>4. CASE run.kind # "tokens"
      <4>1. Migrating /\ place \in {703, 708, 713} BY <3>1, <3>4, PlacesOfSteps DEF Migrating
      <4>2. step \in {Read("poolAdmin"), Read("reserves"), Read("unconfigured")}
        BY <3>1, <4>1, StepIs
      <4> QED BY <3>2, <4>2
    <3> QED BY <3>3, <3>4
  <2> QED BY <2>1, Zenon DEF ReadStep
<1>3. ASSUME NEW v, NEW p, NEW q, ReadInto(q, v, p)
      PROVE  IsRecord(q) /\ q.target = run.target
  <2>1. CASE q = [run EXCEPT !.admin = v] BY <1>1, <2>1 DEF IsRecord
  <2>2. CASE q = [run EXCEPT !.inputs = v] BY <1>1, <2>2 DEF IsRecord
  <2>3. CASE q = [run EXCEPT !.inputs = v, !.pc = p] BY <1>1, <2>3 DEF IsRecord
  <2> QED BY <1>3, <2>1, <2>2, <2>3 DEF ReadInto
<1>4. PICK v, p, q : Continue(q) /\ ReadInto(q, v, p)
  <2>1. CASE Continue([run EXCEPT !.admin = market.admin]) BY <2>1 DEF ReadInto
  <2>2. CASE Continue([run EXCEPT !.inputs = config.order]) BY <2>2 DEF ReadInto
  <2>3. CASE Continue([run EXCEPT !.inputs = uninitialised]) BY <2>3 DEF ReadInto
  <2>4. CASE Continue([run EXCEPT !.inputs = unconfigured,
                                  !.pc = IF unconfigured = <<>> THEN @ + 3 ELSE @])
    BY <2>4 DEF ReadInto
  <2> QED BY <1>2, <2>1, <2>2, <2>3, <2>4
<1>5. IsRecord(q) /\ q.target = run.target BY <1>3, <1>4
<1> QED BY <1>4, <1>5, ProceedKeepsTarget

\* Choosing the rate oracle keeps the target.
LEMMA OracleKeepsTarget ==
    ASSUME RunOK, NEW v, NEW choice \in BOOLEAN,
           Continue(IF choice THEN [run EXCEPT !.oracle = v] ELSE run)
    PROVE  run'.target = run.target
<1>1. IsRecord(run) BY RunIsRecord
<1>2. CASE ~ choice BY <1>2, RunIsRecord
<1>3. CASE choice
  <2>1. PICK q : q = [run EXCEPT !.oracle = v] OBVIOUS
  <2>2. IsRecord(q) /\ q.target = run.target BY <1>1, <2>1 DEF IsRecord
  <2>3. Continue(q) BY <1>3, <2>1
  <2> QED BY <2>2, <2>3, ProceedKeepsTarget
<1> QED BY <1>2, <1>3

\* No step changes what is deployed.
LEMMA TargetStays ==
    ASSUME IInv, Next
    PROVE  run'.target = run.target
<1>1. RunOK BY DEF IInv
<1>2. /\ IsRecord(run)
      /\ Continue(run) \/ Mined \/ Break => run'.target = run.target
      /\ \A array, size : MinedChunk(array, size) => run'.target = run.target
  BY <1>1, RunIsRecord
<1>3. \A kind, tasks : Begin(kind, tasks) => run'.target = run.target
  BY <1>2 DEF Begin, IsRecord
<1>4. CASE StartMigration \/ Repeat \/ InitializeTokens
  BY <1>3, <1>4 DEF StartMigration, Repeat, InitializeTokens
<1>5. CASE DeployStep
  <2>1. PICK v : v = Len(oracles') OBVIOUS
  <2>2. PICK choice \in BOOLEAN : choice <=> step.of = "LendingRateOracle" OBVIOUS
  <2>3. Continue(IF step.of = "LendingRateOracle" THEN [run EXCEPT !.oracle = Len(oracles')] ELSE run)
    BY <1>5 DEF DeployStep
  <2>4. Continue(IF choice THEN [run EXCEPT !.oracle = v] ELSE run) BY <2>1, <2>2, <2>3
  <2> QED BY <1>1, <2>4, OracleKeepsTarget
<1>6. CASE ReuseStep
  <2>1. PICK v : v = 1 OBVIOUS
  <2>2. PICK choice \in BOOLEAN : choice <=> step.of = "LendingRateOracle" OBVIOUS
  <2>3. Continue(IF step.of = "LendingRateOracle" THEN [run EXCEPT !.oracle = 1] ELSE run)
    BY <1>6 DEF ReuseStep
  <2>4. Continue(IF choice THEN [run EXCEPT !.oracle = v] ELSE run) BY <2>1, <2>2, <2>3
  <2> QED BY <1>1, <2>4, OracleKeepsTarget
<1>7. CASE InsertStep \/ FindStep \/ CheckStep \/ NothingToInit
  BY <1>2, <1>7 DEF InsertStep, FindStep, CheckStep, NothingToInit
<1>8. CASE ReadStep BY <1>1, <1>8, ReadKeepsTarget
<1>9. CASE RegisterAddressesProvider \/ TransferOwnership \/ SetOracleOwnership
  BY <1>2, <1>9 DEF RegisterAddressesProvider, TransferOwnership, SetOracleOwnership
<1>10. \A f, r : SetInProvider(f, r) => run'.target = run.target BY <1>2 DEF SetInProvider
<1>11. CASE SetGenesisAdmin \/ SetTemporalAdmin \/ SetAdminBack
  BY <1>10, <1>11 DEF SetGenesisAdmin, SetTemporalAdmin, SetAdminBack
<1>12. CASE SetEmergencyAdmin \/ SetLendingPoolImpl \/ SetLendingPoolConfiguratorImpl
  BY <1>10, <1>12 DEF SetEmergencyAdmin, SetLendingPoolImpl, SetLendingPoolConfiguratorImpl
<1>13. CASE SetPriceOracle \/ SetLendingRateOracle
            \/ SetLendingPoolCollateralManager \/ AuthorizeLendingPool
  BY <1>10, <1>13
     DEF SetPriceOracle, SetLendingRateOracle, SetLendingPoolCollateralManager,
         AuthorizeLendingPool
<1>14. CASE SetOracleBorrowRates \/ BatchInitReserve \/ ConfigureReserves
  BY <1>2, <1>14 DEF SetOracleBorrowRates, BatchInitReserve, ConfigureReserves
<1>15. CASE Throws BY <1>2, <1>15, BreakKeepsTarget DEF Throws
<1>16. CASE CallFails BY <1>2, <1>16 DEF CallFails
<1> QED BY <1>4, <1>5, <1>6, <1>7, <1>8, <1>9, <1>11, <1>12, <1>13, <1>14, <1>15, <1>16
        DEF Next

\* What MarketListing sees is the plan and these three functions.
rightsFor(owner) ==
    IF owner = NoOne THEN "none" ELSE IF owner = Deployer THEN "genesis" ELSE "helper"
Unseen ==
    planSeen' = planSeen /\ rightsSeen' = rightsSeen /\ listedSeen' = listedSeen
    /\ termedSeen' = termedSeen

\* MarketListing's variables are these four.
LEMMA ListingSees ==
    Listing!vars = <<planSeen, rightsSeen, listedSeen, termedSeen>>
BY DEF Listing!vars, planSeen, rightsSeen, rightsOf, listedSeen, listedOf, termedSeen, termedOf

\* A step that changes none of the four is a stutter of MarketListing.
LEMMA UnseenStutters ==
    ASSUME Unseen
    PROVE  UNCHANGED Listing!vars
BY DEF Unseen, Listing!vars, planSeen, rightsSeen, rightsOf, listedSeen, listedOf, termedSeen, termedOf

\* The plan depends on the target alone.
LEMMA SamePlan ==
    ASSUME run'.target = run.target
    PROVE  planSeen' = planSeen
<1>1. reservesParams' = reservesParams BY SameConfig
<1> QED BY <1>1 DEF planSeen, PlanOf

\* The markets that MarketListing knows are those deployed.
LEMMA MarketsAreKnown ==
    ASSUME IInv
    PROVE  /\ Len(markets) \in Nat
           /\ \A n : known(n) <=> n \in 1 .. Len(markets)
           /\ \A n \in 1 .. Len(markets) : n \in Markets
<1>1. Len(markets) \in Nat /\ IsSequence(markets) BY DEF IInv, ChainOK, IsSequence
<1>2. \A n : known(n) <=> n \in 1 .. Len(markets) BY <1>1 DEF IsSequence, known
<1>3. run.target \in Targets /\ target.migrations \in Nat /\ target.faults \in Nat
  BY RunIs, ConfigOK DEF IInv
<1>4. Len(markets) <= target.migrations + target.faults
  <2>1. /\ started \in 0 .. target.migrations /\ faults \in 0 .. target.faults
        /\ Len(markets) + (IF 0 < place /\ place <= 203 THEN 1 ELSE 0) <= started + faults
    BY DEF IInv, Budget
  <2>2. Len(markets) <= started + faults BY <1>1, <1>3, <2>1
  <2> QED BY <1>1, <1>3, <2>1, <2>2
<1>5. \A n \in 1 .. Len(markets) : n \in 1 .. target.migrations + target.faults
  BY <1>1, <1>3, <1>4
<1>6. \A n \in 1 .. Len(markets) : n \in Markets BY <1>3, <1>5 DEF Markets, target
<1> QED BY <1>1, <1>2, <1>6

\* A step that leaves the markets alone is not seen.
LEMMA SameMarketsUnseen ==
    ASSUME run'.target = run.target, markets' = markets
    PROVE  Unseen
<1>1. planSeen' = planSeen BY SamePlan
<1>2. rightsSeen' = rightsSeen BY DEF rightsSeen, rightsOf, known
<1>3. listedSeen' = listedSeen BY DEF listedSeen, listedOf, known
<1>4. termedSeen' = termedSeen BY DEF termedSeen, termedOf, known
<1> QED BY <1>1, <1>2, <1>3, <1>4 DEF Unseen

\* One market has changed.
LEMMA MarketSeen ==
    ASSUME IInv, run'.target = run.target, NEW n \in 1 .. Len(markets), NEW r,
           Updated(markets, markets', n, r)
    PROVE  /\ n \in Markets /\ planSeen' = planSeen
           /\ rightsSeen[n] = rightsFor(markets[n].admin)
           /\ listedSeen[n] = DOMAIN markets[n].listed
           /\ termedSeen[n] = DOMAIN markets[n].terms
           /\ rightsSeen' = [rightsSeen EXCEPT ![n] = rightsFor(r.admin)]
           /\ listedSeen' = [listedSeen EXCEPT ![n] = DOMAIN r.listed]
           /\ termedSeen' = [termedSeen EXCEPT ![n] = DOMAIN r.terms]
<1>1. /\ Len(markets) \in Nat /\ n \in Markets
      /\ \A i : known(i) <=> i \in 1 .. Len(markets)
  BY MarketsAreKnown
<1>2. \A i : known(i)' <=> i \in 1 .. Len(markets)
  BY DEF Updated, IsSequence, known
<1>3. \A i \in 1 .. Len(markets) : markets'[i] = IF i = n THEN r ELSE markets[i]
  BY DEF Updated
<1>4. rightsSeen[n] = rightsFor(markets[n].admin) BY <1>1 DEF rightsSeen, rightsOf, rightsFor
<1>5. listedSeen[n] = DOMAIN markets[n].listed /\ termedSeen[n] = DOMAIN markets[n].terms
  BY <1>1 DEF listedSeen, listedOf, termedSeen, termedOf
<1>6. rightsSeen' = [rightsSeen EXCEPT ![n] = rightsFor(r.admin)]
  <2>1. ASSUME NEW i \in Markets
        PROVE  rightsOf(i)' = IF i = n THEN rightsFor(r.admin) ELSE rightsOf(i)
    BY <1>1, <1>2, <1>3 DEF rightsOf, rightsFor
  <2> QED BY <2>1 DEF rightsSeen
<1>7. listedSeen' = [listedSeen EXCEPT ![n] = DOMAIN r.listed]
  <2>1. ASSUME NEW i \in Markets
        PROVE  listedOf(i)' = IF i = n THEN DOMAIN r.listed ELSE listedOf(i)
    BY <1>1, <1>2, <1>3 DEF listedOf
  <2> QED BY <2>1 DEF listedSeen
<1>8. termedSeen' = [termedSeen EXCEPT ![n] = DOMAIN r.terms]
  <2>1. ASSUME NEW i \in Markets
        PROVE  termedOf(i)' = IF i = n THEN DOMAIN r.terms ELSE termedOf(i)
    BY <1>1, <1>2, <1>3 DEF termedOf
  <2> QED BY <2>1 DEF termedSeen
<1> QED BY <1>1, <1>4, <1>5, <1>6, <1>7, <1>8, SamePlan

\* A new market looks like one that is not there.
LEMMA NewMarketUnseen ==
    ASSUME IInv, run'.target = run.target, Grown(markets, markets', NewMarket)
    PROVE  Unseen
<1>1. /\ Len(markets) \in Nat
      /\ \A i : known(i) <=> i \in 1 .. Len(markets)
  BY MarketsAreKnown
<1>2. \A i : known(i)' <=> i \in 1 .. Len(markets) + 1
  BY DEF Grown, IsSequence, known
<1>3. /\ \A i \in 1 .. Len(markets) : markets'[i] = markets[i]
      /\ markets'[Len(markets) + 1] = NewMarket
  BY DEF Grown
<1>4. NewMarket.admin = NoOne /\ NewMarket.listed = <<>> /\ NewMarket.terms = <<>> BY DEF NewMarket
<1>5. DOMAIN NewMarket.listed = {} /\ DOMAIN NewMarket.terms = {} BY <1>4
<1>6. ASSUME NEW i
      PROVE  rightsOf(i)' = rightsOf(i) /\ listedOf(i)' = listedOf(i) /\ termedOf(i)' = termedOf(i)
  <2>1. CASE i \in 1 .. Len(markets)
    <3>1. known(i) /\ known(i)' /\ markets'[i] = markets[i] BY <1>1, <1>2, <1>3, <2>1
    <3> QED BY <3>1 DEF rightsOf, listedOf, termedOf
  <2>2. CASE i = Len(markets) + 1
    <3>1. ~ known(i) /\ known(i)' /\ markets'[i] = NewMarket BY <1>1, <1>2, <1>3, <2>2
    <3> QED BY <1>4, <1>5, <3>1 DEF rightsOf, listedOf, termedOf
  <2>3. CASE i \notin 1 .. Len(markets) + 1
    <3>1. ~ known(i) /\ ~ known(i)' BY <1>1, <1>2, <2>3
    <3> QED BY <3>1 DEF rightsOf, listedOf, termedOf
  <2> QED BY <1>1, <2>1, <2>2, <2>3
<1>7. rightsSeen' = rightsSeen /\ listedSeen' = listedSeen /\ termedSeen' = termedSeen
  BY <1>6 DEF rightsSeen, listedSeen, termedSeen
<1> QED BY <1>7, SamePlan DEF Unseen

\* Storing what is there changes nothing.
LEMMA SeenAreFunctions ==
    /\ \A n \in Markets : \A v : v = rightsSeen[n] => [rightsSeen EXCEPT ![n] = v] = rightsSeen
    /\ \A n \in Markets : \A v : v = listedSeen[n] => [listedSeen EXCEPT ![n] = v] = listedSeen
    /\ \A n \in Markets : \A v : v = termedSeen[n] => [termedSeen EXCEPT ![n] = v] = termedSeen
BY DEF rightsSeen, listedSeen, termedSeen

\* The settings of a provider that are not its admin.
LEMMA SettingUnseen ==
    ASSUME IInv, run'.target = run.target, NEW r, NEW f, SetInProvider(f, r),
           SameListing(market, r),
           f \in {"setEmergencyAdmin", "setLendingPoolImpl", "setLendingPoolConfiguratorImpl",
                  "setPriceOracle", "setLendingRateOracle", "setLendingPoolCollateralManager",
                  "authorizeLendingPool"}
    PROVE  Unseen
<1>1. At(f) /\ markets' = [markets EXCEPT ![m] = r] BY DEF SetInProvider
<1>2. m \in 1 .. Len(markets) BY <1>1, TransactionAt
<1>3. PICK n \in 1 .. Len(markets) : n = m BY <1>2
<1>4. IsSequence(markets) BY DEF IInv, ChainOK
<1>5. markets' = [markets EXCEPT ![n] = r] BY <1>1, <1>3
<1>6. Updated(markets, markets', n, r) BY <1>4, <1>5, ExceptIs
<1>7. /\ n \in Markets /\ planSeen' = planSeen
      /\ rightsSeen[n] = rightsFor(markets[n].admin)
      /\ listedSeen[n] = DOMAIN markets[n].listed
      /\ termedSeen[n] = DOMAIN markets[n].terms
      /\ rightsSeen' = [rightsSeen EXCEPT ![n] = rightsFor(r.admin)]
      /\ listedSeen' = [listedSeen EXCEPT ![n] = DOMAIN r.listed]
      /\ termedSeen' = [termedSeen EXCEPT ![n] = DOMAIN r.terms]
  BY <1>6, MarketSeen
<1>8. /\ r.admin = markets[n].admin /\ r.listed = markets[n].listed
      /\ r.terms = markets[n].terms
  BY <1>3 DEF SameListing, market
<1>9. /\ rightsFor(r.admin) = rightsSeen[n] /\ DOMAIN r.listed = listedSeen[n]
      /\ DOMAIN r.terms = termedSeen[n]
  BY <1>7, <1>8
<1>10. rightsSeen' = rightsSeen /\ listedSeen' = listedSeen /\ termedSeen' = termedSeen
  BY <1>7, <1>9, SeenAreFunctions
<1> QED BY <1>7, <1>10 DEF Unseen

\* None of the settings is seen.
LEMMA SettingsUnseen ==
    ASSUME IInv, run'.target = run.target,
           \/ SetEmergencyAdmin \/ SetLendingPoolImpl \/ SetLendingPoolConfiguratorImpl
           \/ SetPriceOracle \/ SetLendingRateOracle
           \/ SetLendingPoolCollateralManager \/ AuthorizeLendingPool
    PROVE  Unseen
<1>1. PICK o : o = run.oracle OBVIOUS
<1>2. CASE SetEmergencyAdmin
  <2>1. PICK r : r = [market EXCEPT !.emergency = TRUE] OBVIOUS
  <2>2. SetInProvider("setEmergencyAdmin", r) BY <1>2, <2>1 DEF SetEmergencyAdmin
  <2>3. IsMarket(market) BY <2>2, TransactionAt DEF SetInProvider
  <2>4. SameListing(market, r) BY <2>1, <2>3 DEF IsMarket, SameListing
  <2> QED BY <2>2, <2>4, SettingUnseen
<1>3. CASE SetLendingPoolImpl
  <2>1. PICK r : r = [market EXCEPT !.pool = TRUE] OBVIOUS
  <2>2. SetInProvider("setLendingPoolImpl", r) BY <1>3, <2>1 DEF SetLendingPoolImpl
  <2>3. IsMarket(market) BY <2>2, TransactionAt DEF SetInProvider
  <2>4. SameListing(market, r) BY <2>1, <2>3 DEF IsMarket, SameListing
  <2> QED BY <2>2, <2>4, SettingUnseen
<1>4. CASE SetLendingPoolConfiguratorImpl
  <2>1. PICK r : r = [market EXCEPT !.configurator = TRUE] OBVIOUS
  <2>2. SetInProvider("setLendingPoolConfiguratorImpl", r)
    BY <1>4, <2>1 DEF SetLendingPoolConfiguratorImpl
  <2>3. IsMarket(market) BY <2>2, TransactionAt DEF SetInProvider
  <2>4. SameListing(market, r) BY <2>1, <2>3 DEF IsMarket, SameListing
  <2> QED BY <2>2, <2>4, SettingUnseen
<1>5. CASE SetPriceOracle
  <2>1. PICK r : r = [market EXCEPT !.priceOracle = TRUE] OBVIOUS
  <2>2. SetInProvider("setPriceOracle", r) BY <1>5, <2>1 DEF SetPriceOracle
  <2>3. IsMarket(market) BY <2>2, TransactionAt DEF SetInProvider
  <2>4. SameListing(market, r) BY <2>1, <2>3 DEF IsMarket, SameListing
  <2> QED BY <2>2, <2>4, SettingUnseen
<1>6. CASE SetLendingRateOracle
  <2>1. PICK r : r = [market EXCEPT !.rateOracle = o] OBVIOUS
  <2>2. SetInProvider("setLendingRateOracle", r) BY <1>1, <1>6, <2>1 DEF SetLendingRateOracle
  <2>3. IsMarket(market) BY <2>2, TransactionAt DEF SetInProvider
  <2>4. SameListing(market, r) BY <2>1, <2>3 DEF IsMarket, SameListing
  <2> QED BY <2>2, <2>4, SettingUnseen
<1>7. CASE SetLendingPoolCollateralManager
  <2>1. PICK r : r = [market EXCEPT !.manager = TRUE] OBVIOUS
  <2>2. SetInProvider("setLendingPoolCollateralManager", r)
    BY <1>7, <2>1 DEF SetLendingPoolCollateralManager
  <2>3. IsMarket(market) BY <2>2, TransactionAt DEF SetInProvider
  <2>4. SameListing(market, r) BY <2>1, <2>3 DEF IsMarket, SameListing
  <2> QED BY <2>2, <2>4, SettingUnseen
<1>8. CASE AuthorizeLendingPool
  <2>1. PICK r : r = [market EXCEPT !.gateway = TRUE] OBVIOUS
  <2>2. SetInProvider("authorizeLendingPool", r) BY <1>8, <2>1 DEF AuthorizeLendingPool
  <2>3. IsMarket(market) BY <2>2, TransactionAt DEF SetInProvider
  <2>4. SameListing(market, r) BY <2>1, <2>3 DEF IsMarket, SameListing
  <2> QED BY <2>2, <2>4, SettingUnseen
<1> QED BY <1>2, <1>3, <1>4, <1>5, <1>6, <1>7, <1>8

\* No deployment is seen: a new market has no admin, no reserves and no terms.
LEMMA DeploymentUnseen ==
    ASSUME IInv, run'.target = run.target, DeployStep
    PROVE  Unseen
<1>1. DeployContract(step.of) BY DEF DeployStep
<1>2. PICK c : c = step.of OBVIOUS
<1>3. DeployContract(c) BY <1>1, <1>2
<1>4. CASE c = Provider
  <2>1. markets' = Append(markets, NewMarket) BY <1>3, <1>4 DEF DeployContract, Provider, Registry
  <2>2. IsSequence(markets) BY DEF IInv, ChainOK
  <2>3. PICK e : e = NewMarket OBVIOUS
  <2>4. Grown(markets, markets', e) BY <2>1, <2>2, <2>3, AppendIs
  <2>5. Grown(markets, markets', NewMarket) BY <2>3, <2>4
  <2> QED BY <2>5, NewMarketUnseen
<1>5. CASE c # Provider
  <2>1. markets' = markets BY <1>3, <1>5, Zenon DEF DeployContract, chain
  <2> QED BY <2>1, SameMarketsUnseen
<1> QED BY <1>4, <1>5

\* Every step that leaves the admin's rights and the reserves of the markets alone.
LEMMA QuietStepsUnseen ==
    ASSUME IInv, run'.target = run.target,
           \/ StartMigration \/ Repeat \/ InitializeTokens
           \/ ReuseStep \/ InsertStep \/ FindStep \/ CheckStep \/ ReadStep
           \/ RegisterAddressesProvider \/ TransferOwnership \/ SetOracleBorrowRates
           \/ SetOracleOwnership \/ NothingToInit \/ Throws \/ CallFails
    PROVE  Unseen
<1>1. CASE StartMigration \/ Repeat \/ InitializeTokens
  <2>1. \A kind, tasks : Begin(kind, tasks) => markets' = markets BY DEF Begin, chain
  <2>2. markets' = markets BY <1>1, <2>1 DEF StartMigration, Repeat, InitializeTokens
  <2> QED BY <2>2, SameMarketsUnseen
<1>2. CASE ReuseStep \/ InsertStep \/ FindStep \/ CheckStep \/ ReadStep
  <2>1. markets' = markets
    BY <1>2, Zenon DEF ReuseStep, InsertStep, FindStep, CheckStep, ReadStep, chain
  <2> QED BY <2>1, SameMarketsUnseen
<1>3. CASE RegisterAddressesProvider \/ TransferOwnership \/ SetOracleBorrowRates
           \/ SetOracleOwnership \/ NothingToInit \/ Throws \/ CallFails
  <2>1. markets' = markets
    BY <1>3, Zenon
       DEF RegisterAddressesProvider, TransferOwnership, SetOracleBorrowRates,
           SetOracleOwnership, NothingToInit, Throws, CallFails, chain
  <2> QED BY <2>1, SameMarketsUnseen
<1> QED BY <1>1, <1>2, <1>3

-----------------------------------------------------------------------------
(* The steps that MarketListing sees.                                        *)

\* The plan's reserves, and those with terms.
LEMMA PlanIs ==
    planSeen.reserves = Reserves /\ planSeen.reserves \ planSeen.untermed = Termed
BY DEF planSeen, PlanOf, Reserves, Termed, HasTerms

\* MarketListing's steps in what it sees.
LEMMA ListingStepsAre ==
    ASSUME NEW n \in Markets, planSeen' = planSeen
    PROVE  /\ /\ rightsSeen[n] = "none"
              /\ rightsSeen' = [rightsSeen EXCEPT ![n] = "genesis"]
              /\ listedSeen' = listedSeen /\ termedSeen' = termedSeen
              => Listing!Create(n)
           /\ /\ rightsSeen[n] = "genesis" /\ listedSeen[n] = Reserves
              /\ rightsSeen' = [rightsSeen EXCEPT ![n] = "helper"]
              /\ listedSeen' = listedSeen /\ termedSeen' = termedSeen
              => Listing!HandOver(n)
           /\ /\ rightsSeen[n] = "helper" /\ termedSeen[n] = Termed
              /\ rightsSeen' = [rightsSeen EXCEPT ![n] = "genesis"]
              /\ listedSeen' = listedSeen /\ termedSeen' = termedSeen
              => Listing!HandBack(n)
<1>1. planSeen.reserves = Reserves /\ planSeen.reserves \ planSeen.untermed = Termed
  BY PlanIs
<1>2. ASSUME rightsSeen[n] = "none",
             rightsSeen' = [rightsSeen EXCEPT ![n] = "genesis"],
             listedSeen' = listedSeen, termedSeen' = termedSeen
      PROVE  Listing!Create(n)
  BY <1>2
     DEF Listing!Create, planSeen, rightsSeen, rightsOf, listedSeen, listedOf, termedSeen, termedOf
<1>3. ASSUME rightsSeen[n] = "genesis", listedSeen[n] = Reserves,
             rightsSeen' = [rightsSeen EXCEPT ![n] = "helper"],
             listedSeen' = listedSeen, termedSeen' = termedSeen
      PROVE  Listing!HandOver(n)
  BY <1>1, <1>3
     DEF Listing!HandOver, Listing!Reserves, planSeen, rightsSeen, rightsOf, listedSeen, listedOf,
         termedSeen, termedOf
<1>4. ASSUME rightsSeen[n] = "helper", termedSeen[n] = Termed,
             rightsSeen' = [rightsSeen EXCEPT ![n] = "genesis"],
             listedSeen' = listedSeen, termedSeen' = termedSeen
      PROVE  Listing!HandBack(n)
  BY <1>1, <1>4
     DEF Listing!HandBack, Listing!Configurable, planSeen, rightsSeen, rightsOf, listedSeen,
         listedOf, termedSeen, termedOf
<1> QED BY <1>2, <1>3, <1>4

\* MarketListing's growing steps in what it sees.
LEMMA ListingGrowsAre ==
    ASSUME NEW n \in Markets, planSeen' = planSeen, rightsSeen' = rightsSeen, NEW v
    PROVE  /\ /\ rightsSeen[n] = "genesis"
              /\ listedSeen' = [listedSeen EXCEPT ![n] = v]
              /\ listedSeen[n] \subseteq v /\ v \subseteq Reserves
              /\ termedSeen' = termedSeen
              => Listing!List(n)
           /\ /\ rightsSeen[n] = "helper"
              /\ termedSeen' = [termedSeen EXCEPT ![n] = v]
              /\ termedSeen[n] \subseteq v /\ v \subseteq Termed
              /\ listedSeen' = listedSeen
              => Listing!Configure(n)
<1>1. planSeen.reserves = Reserves /\ planSeen.reserves \ planSeen.untermed = Termed
  BY PlanIs
<1>2. ASSUME rightsSeen[n] = "genesis",
             listedSeen' = [listedSeen EXCEPT ![n] = v],
             listedSeen[n] \subseteq v, v \subseteq Reserves,
             termedSeen' = termedSeen
      PROVE  Listing!List(n)
  <2>1. listedSeen'[n] = v BY <1>2 DEF listedSeen
  <2>2. listedSeen' = [listedSeen EXCEPT ![n] = listedSeen'[n]] BY <1>2, <2>1
  <2> QED
    BY <1>1, <1>2, <2>1, <2>2
       DEF Listing!List, Listing!Grows, Listing!Reserves, planSeen, rightsSeen, rightsOf,
           listedSeen, listedOf, termedSeen, termedOf
<1>3. ASSUME rightsSeen[n] = "helper",
             termedSeen' = [termedSeen EXCEPT ![n] = v],
             termedSeen[n] \subseteq v, v \subseteq Termed,
             listedSeen' = listedSeen
      PROVE  Listing!Configure(n)
  <2>1. termedSeen'[n] = v BY <1>3 DEF termedSeen
  <2>2. termedSeen' = [termedSeen EXCEPT ![n] = termedSeen'[n]] BY <1>3, <2>1
  <2> QED
    BY <1>1, <1>3, <2>1, <2>2
       DEF Listing!Configure, Listing!Grows, Listing!Configurable, planSeen, rightsSeen, rightsOf,
           listedSeen, listedOf, termedSeen, termedOf
<1> QED BY <1>2, <1>3

\* What is seen of a change of the admin.
LEMMA AdminSeen ==
    ASSUME IInv, run'.target = run.target, NEW f, NEW v, NEW r, r = [market EXCEPT !.admin = v],
           SetInProvider(f, r), f \in {"setGenesisAdmin", "setTemporalAdmin", "setAdminBack"}
    PROVE  \E n \in Markets :
             /\ n = m /\ planSeen' = planSeen
             /\ rightsSeen[n] = rightsFor(market.admin)
             /\ listedSeen[n] = DOMAIN market.listed
             /\ termedSeen[n] = DOMAIN market.terms
             /\ rightsSeen' = [rightsSeen EXCEPT ![n] = rightsFor(v)]
             /\ listedSeen' = listedSeen /\ termedSeen' = termedSeen
<1>1. At(f) /\ markets' = [markets EXCEPT ![m] = r] BY DEF SetInProvider
<1>2. m \in 1 .. Len(markets) BY <1>1, TransactionAt
<1>3. PICK n \in 1 .. Len(markets) : n = m BY <1>2
<1>4. IsSequence(markets) BY DEF IInv, ChainOK
<1>5. markets' = [markets EXCEPT ![n] = r] BY <1>1, <1>3
<1>6. Updated(markets, markets', n, r) BY <1>4, <1>5, ExceptIs
<1>7. r.admin = v /\ r.listed = market.listed /\ r.terms = market.terms BY AdminIsSet
<1>8. /\ n \in Markets /\ planSeen' = planSeen
      /\ rightsSeen[n] = rightsFor(markets[n].admin)
      /\ listedSeen[n] = DOMAIN markets[n].listed
      /\ termedSeen[n] = DOMAIN markets[n].terms
      /\ rightsSeen' = [rightsSeen EXCEPT ![n] = rightsFor(r.admin)]
      /\ listedSeen' = [listedSeen EXCEPT ![n] = DOMAIN r.listed]
      /\ termedSeen' = [termedSeen EXCEPT ![n] = DOMAIN r.terms]
  BY <1>6, MarketSeen
<1>9. market = markets[n] BY <1>3 DEF market
<1>10. DOMAIN r.listed = listedSeen[n] /\ DOMAIN r.terms = termedSeen[n] BY <1>7, <1>8, <1>9
<1>11. listedSeen' = listedSeen /\ termedSeen' = termedSeen BY <1>8, <1>10, SeenAreFunctions
<1> QED BY <1>3, <1>7, <1>8, <1>9, <1>11

\* setGenesisAdmin is a market's creation.
LEMMA GenesisAdminCreates ==
    ASSUME IInv, run'.target = run.target, SetGenesisAdmin
    PROVE  Listing!Next
<1>1. PICK r, v : v = Deployer /\ r = [market EXCEPT !.admin = v] OBVIOUS
<1>2. SetInProvider("setGenesisAdmin", r) BY <1>1 DEF SetGenesisAdmin
<1>3. PICK n \in Markets :
        /\ n = m /\ planSeen' = planSeen
        /\ rightsSeen[n] = rightsFor(market.admin)
        /\ listedSeen[n] = DOMAIN market.listed
        /\ termedSeen[n] = DOMAIN market.terms
        /\ rightsSeen' = [rightsSeen EXCEPT ![n] = rightsFor(v)]
        /\ listedSeen' = listedSeen /\ termedSeen' = termedSeen
  BY <1>1, <1>2, AdminSeen
<1>4. market.admin = NoOne
  <2>1. At("setGenesisAdmin") BY <1>2 DEF SetInProvider
  <2>2. place = 205 BY <2>1, TransactionAt
  <2> QED BY <2>2 DEF IInv, ListingAt
<1>5. rightsFor(market.admin) = "none" /\ rightsFor(v) = "genesis"
  BY <1>1, <1>4 DEF rightsFor, NoOne, Deployer
<1>6. Listing!Create(n) BY <1>3, <1>5, ListingStepsAre
<1> QED BY <1>6 DEF Listing!Next

\* setTemporalAdmin hands a market over when all its reserves are listed.
LEMMA TemporalAdminHandsOver ==
    ASSUME IInv, run'.target = run.target, SetTemporalAdmin
    PROVE  Listing!Next
<1>1. PICK r, v : v = helper /\ r = [market EXCEPT !.admin = v] OBVIOUS
<1>2. SetInProvider("setTemporalAdmin", r) BY <1>1 DEF SetTemporalAdmin
<1>3. PICK n \in Markets :
        /\ n = m /\ planSeen' = planSeen
        /\ rightsSeen[n] = rightsFor(market.admin)
        /\ listedSeen[n] = DOMAIN market.listed
        /\ termedSeen[n] = DOMAIN market.terms
        /\ rightsSeen' = [rightsSeen EXCEPT ![n] = rightsFor(v)]
        /\ listedSeen' = listedSeen /\ termedSeen' = termedSeen
  BY <1>1, <1>2, AdminSeen
<1>4. market.admin = Deployer /\ DOMAIN market.listed = Reserves BY TemporalAdminSet
<1>5. v = m /\ m \in Nat \ {0}
  <2>1. At("setTemporalAdmin") BY <1>2 DEF SetInProvider
  <2>2. place = 714 /\ m \in 1 .. Len(markets) BY <2>1, TransactionAt
  <2>3. helper = m BY <2>2 DEF IInv, BookAt, Recorded, helper
  <2> QED BY <1>1, <2>2, <2>3, MarketsAreKnown
<1>6. rightsFor(market.admin) = "genesis" /\ rightsFor(v) = "helper"
  BY <1>4, <1>5 DEF rightsFor, NoOne, Deployer
<1>7. Listing!HandOver(n) BY <1>3, <1>4, <1>6, ListingStepsAre
<1> QED BY <1>7 DEF Listing!Next

\* setAdminBack takes it back when all that can be configured is.
LEMMA AdminBackHandsBack ==
    ASSUME IInv, run'.target = run.target, SetAdminBack
    PROVE  Listing!Next
<1>1. PICK r, v : v = run.admin /\ r = [market EXCEPT !.admin = v] OBVIOUS
<1>2. SetInProvider("setAdminBack", r) BY <1>1 DEF SetAdminBack
<1>3. PICK n \in Markets :
        /\ n = m /\ planSeen' = planSeen
        /\ rightsSeen[n] = rightsFor(market.admin)
        /\ listedSeen[n] = DOMAIN market.listed
        /\ termedSeen[n] = DOMAIN market.terms
        /\ rightsSeen' = [rightsSeen EXCEPT ![n] = rightsFor(v)]
        /\ listedSeen' = listedSeen /\ termedSeen' = termedSeen
  BY <1>1, <1>2, AdminSeen
<1>4. market.admin = m /\ run.admin = Deployer /\ DOMAIN market.terms = Termed BY AdminBackSet
<1>5. m \in Nat \ {0}
  <2>1. At("setAdminBack") BY <1>2 DEF SetInProvider
  <2>2. m \in 1 .. Len(markets) BY <2>1, TransactionAt
  <2> QED BY <2>2, MarketsAreKnown
<1>6. rightsFor(market.admin) = "helper" /\ rightsFor(v) = "genesis"
  BY <1>1, <1>4, <1>5 DEF rightsFor, NoOne, Deployer
<1>7. Listing!HandBack(n) BY <1>3, <1>4, <1>6, ListingStepsAre
<1> QED BY <1>7 DEF Listing!Next

\* A part of batchInitReserve lists some reserves for the genesis admin.
LEMMA InitReserveLists ==
    ASSUME IInv, run'.target = run.target, BatchInitReserve
    PROVE  Listing!Next
<1>1. configurator \in 1 .. Len(markets) /\ markets[configurator].admin = Deployer
  BY ReservesListed
<1>2. PICK n \in 1 .. Len(markets) : n = configurator BY <1>1
<1>3. PICK r : /\ RowOK(r) /\ r.admin = markets[n].admin /\ r.terms = markets[n].terms
               /\ DOMAIN markets[n].listed \subseteq DOMAIN r.listed
               /\ Updated(markets, markets', n, r)
  BY <1>2, ReservesListed
<1>4. Updated(markets, markets', n, r) BY <1>3
<1>5. /\ n \in Markets /\ planSeen' = planSeen
      /\ rightsSeen[n] = rightsFor(markets[n].admin)
      /\ listedSeen[n] = DOMAIN markets[n].listed
      /\ termedSeen[n] = DOMAIN markets[n].terms
      /\ rightsSeen' = [rightsSeen EXCEPT ![n] = rightsFor(r.admin)]
      /\ listedSeen' = [listedSeen EXCEPT ![n] = DOMAIN r.listed]
      /\ termedSeen' = [termedSeen EXCEPT ![n] = DOMAIN r.terms]
  BY <1>4, MarketSeen
<1>6. rightsSeen[n] = "genesis" BY <1>1, <1>2, <1>5 DEF rightsFor, NoOne, Deployer
<1>7. rightsSeen' = rightsSeen /\ termedSeen' = termedSeen BY <1>3, <1>5, SeenAreFunctions
<1>8. listedSeen[n] \subseteq DOMAIN r.listed /\ DOMAIN r.listed \subseteq Reserves
  BY <1>3, <1>5 DEF RowOK
<1>9. Listing!List(n) BY <1>5, <1>6, <1>7, <1>8, ListingGrowsAre
<1> QED BY <1>5, <1>9 DEF Listing!Next

\* A part of configureReserves gives some reserves their terms, by the helper.
LEMMA ConfigureReservesConfigures ==
    ASSUME IInv, run'.target = run.target, ConfigureReserves
    PROVE  Listing!Next
<1>1. m \in 1 .. Len(markets) /\ market.admin = m BY ReservesConfigured
<1>2. PICK n \in 1 .. Len(markets) : n = m BY <1>1
<1>3. PICK r : /\ RowOK(r) /\ r.admin = market.admin /\ r.listed = market.listed
               /\ DOMAIN market.terms \subseteq DOMAIN r.terms
               /\ Updated(markets, markets', n, r)
  BY <1>2, ReservesConfigured
<1>4. Updated(markets, markets', n, r) BY <1>3
<1>5. /\ n \in Markets /\ planSeen' = planSeen
      /\ rightsSeen[n] = rightsFor(markets[n].admin)
      /\ listedSeen[n] = DOMAIN markets[n].listed
      /\ termedSeen[n] = DOMAIN markets[n].terms
      /\ rightsSeen' = [rightsSeen EXCEPT ![n] = rightsFor(r.admin)]
      /\ listedSeen' = [listedSeen EXCEPT ![n] = DOMAIN r.listed]
      /\ termedSeen' = [termedSeen EXCEPT ![n] = DOMAIN r.terms]
  BY <1>4, MarketSeen
<1>6. market = markets[n] BY <1>2 DEF market
<1>7. rightsSeen[n] = "helper"
  <2>1. m \in Nat \ {0} BY <1>1, MarketsAreKnown
  <2>2. markets[n].admin \in Nat \ {0} BY <1>1, <1>6, <2>1
  <2> QED BY <1>5, <2>2 DEF rightsFor, NoOne, Deployer
<1>8. rightsSeen' = rightsSeen /\ listedSeen' = listedSeen
  BY <1>3, <1>5, <1>6, SeenAreFunctions
<1>9. termedSeen[n] \subseteq DOMAIN r.terms /\ DOMAIN r.terms \subseteq Termed
  BY <1>3, <1>5, <1>6 DEF RowOK
<1>10. Listing!Configure(n) BY <1>5, <1>7, <1>8, <1>9, ListingGrowsAre
<1> QED BY <1>5, <1>10 DEF Listing!Next

\* A step of the deployment is one of MarketListing's or none.
LEMMA StepsList ==
    ASSUME IInv, [Next]_vars
    PROVE  [Listing!Next]_(Listing!vars)
<1>1. CASE UNCHANGED vars
  <2>1. markets' = markets /\ run'.target = run.target BY <1>1 DEF vars, chain
  <2> QED BY <2>1, SameMarketsUnseen, UnseenStutters
<1>2. CASE Next
  <2>1. run'.target = run.target BY <1>2, TargetStays
  <2>2. CASE StartMigration \/ Repeat \/ InitializeTokens
             \/ ReuseStep \/ InsertStep \/ FindStep \/ CheckStep \/ ReadStep
             \/ RegisterAddressesProvider \/ TransferOwnership \/ SetOracleBorrowRates
             \/ SetOracleOwnership \/ NothingToInit \/ Throws \/ CallFails
    BY <2>1, <2>2, QuietStepsUnseen, UnseenStutters
  <2>3. CASE DeployStep BY <2>1, <2>3, DeploymentUnseen, UnseenStutters
  <2>4. CASE SetEmergencyAdmin \/ SetLendingPoolImpl \/ SetLendingPoolConfiguratorImpl
             \/ SetPriceOracle \/ SetLendingRateOracle
             \/ SetLendingPoolCollateralManager \/ AuthorizeLendingPool
    BY <2>1, <2>4, SettingsUnseen, UnseenStutters
  <2>5. CASE SetGenesisAdmin BY <2>1, <2>5, GenesisAdminCreates
  <2>6. CASE SetTemporalAdmin BY <2>1, <2>6, TemporalAdminHandsOver
  <2>7. CASE SetAdminBack BY <2>1, <2>7, AdminBackHandsBack
  <2>8. CASE BatchInitReserve BY <2>1, <2>8, InitReserveLists
  <2>9. CASE ConfigureReserves BY <2>1, <2>9, ConfigureReservesConfigures
  <2> QED BY <1>2, <2>2, <2>3, <2>4, <2>5, <2>6, <2>7, <2>8, <2>9 DEF Next
<1> QED BY <1>1, <1>2

\* At first no market is there, and nothing is listed.
LEMMA StartsUnlisted ==
    ASSUME Init
    PROVE  Listing!Init
<1>1. run.target \in Targets /\ markets = <<>>
  <2>1. \E t \in Targets :
          run = [status |-> "idle", kind |-> "", tasks |-> <<>>, pc |-> 1, chunk |-> 0,
                 oracle |-> 0, admin |-> NoOne, inputs |-> <<>>, clean |-> TRUE, target |-> t]
    BY Zenon DEF Init
  <2>2. PICK t \in Targets :
          run = [status |-> "idle", kind |-> "", tasks |-> <<>>, pc |-> 1, chunk |-> 0,
                 oracle |-> 0, admin |-> NoOne, inputs |-> <<>>, clean |-> TRUE, target |-> t]
    BY <2>1
  <2>3. run.target = t BY <2>2
  <2>4. markets = <<>> BY Zenon DEF Init
  <2> QED BY <2>3, <2>4
<1>2. \A n : ~ known(n) BY <1>1 DEF known
<1>3. rightsSeen = [n \in Markets |-> "none"] BY <1>2 DEF rightsSeen, rightsOf
<1>4. listedSeen = [n \in Markets |-> {}] /\ termedSeen = [n \in Markets |-> {}]
  BY <1>2 DEF listedSeen, listedOf, termedSeen, termedOf
<1>5. planSeen \in {PlanOf(ConfigOf[t].reserves) : t \in Targets}
  BY <1>1 DEF planSeen, reservesParams, config, target
<1> QED BY <1>3, <1>4, <1>5
        DEF Listing!Init, planSeen, rightsSeen, rightsOf, listedSeen, listedOf, termedSeen, termedOf

\* The deployment implements MarketListing: whatever fails and whatever the operator
\* starts again, every market is listed by the genesis admin, handed over complete,
\* and handed back when all its reserves have their terms.
THEOREM MarketsListAsAWhole == Spec => ListsAsAWhole
<1>1. Init => Listing!Init BY StartsUnlisted
<1>2. IInv /\ [Next]_vars => [Listing!Next]_(Listing!vars) BY StepsList
<1> QED BY <1>1, <1>2, DeploymentInvariant, PTL DEF Spec, ListsAsAWhole, Listing!Spec

-----------------------------------------------------------------------------
(* A migration that met no failing call runs to its end.                     *)

\* A migration that is not the repetition of a failed task.
Underway == Running /\ run.kind = "migration"

\* What a deployment leaves in the address book, for a later task to find.
Deposited ==
    /\ target.pool = "Moola" /\ place > 101 => found(Registry)
    /\ place > 502 => found("AaveProtocolDataProvider")
    /\ place > 601 /\ target.pool \notin {"Moola", "Matic"} => Findable("WethGateway")

\* Such a migration meets the market it has made itself, and a rate oracle that the
\* deployer, and then the helper, owns.
Unspoilt ==
    /\ place \in 204 .. 303 => ~ market.pool
    /\ place \in 204 .. 306 => ~ market.configurator
    /\ place \in 404 .. 405 => oracles[run.oracle].owner = Deployer
    /\ place \in 406 .. 407 => oracles[run.oracle].owner = rateHelper
    /\ place \in 206 .. 710 => market.admin = Deployer
    /\ place \in 204 .. 709 => DOMAIN market.listed = {}
    /\ place = 710 => \A s \in DOMAIN market.listed :
         \E i \in 1 .. Len(run.inputs) : i <= run.chunk * initChunks /\ run.inputs[i] = s

\* A rate oracle that exists is used by every migration: none fails half way.
OracleShared ==
    Configured("LendingRateOracle") =>
        /\ run.status # "failed" /\ run.kind \in {"", "migration"}
        /\ place \notin {406, 407} => oracles[1].owner = Deployer
        /\ place > 403 => run.oracle = 1

CleanInv ==
    Suited(target) =>
        CleanMigrationsComplete /\ Deposited /\ (Underway => Unspoilt) /\ OracleShared

\* How a step of a migration ends: at the next place, in another pass of a loop, or
\* with a call that failed.
OnItsWay ==
    run'.status \in {"running", "done"} /\ run'.clean = run.clean /\ run'.kind = run.kind
Advances == OnItsWay /\ (NextPlace(place, place') \/ (place = 713 /\ place' = 717))
Stays ==
    /\ OnItsWay /\ place' = place /\ place \in {406, 710, 715}
    /\ run'.chunk = run.chunk + 1
GivesUp ==
    /\ run'.status = "failed" /\ ~ run'.clean /\ run'.kind = run.kind
    /\ faults < target.faults /\ Falls

\* Going on with a process that has read something.
LEMMA ProceedsCleanly ==
    ASSUME NEW r, IsRecord(r), r.status = "running", Continue(r)
    PROVE  /\ run'.status \in {"running", "done"} /\ run'.clean = r.clean
           /\ run'.kind = r.kind
<1>1. run' = proceed(r) BY DEF Continue
<1>2. \/ run' = [r EXCEPT !.pc = @ + 1, !.chunk = 0]
      \/ run' = [r EXCEPT !.tasks = Tail(@), !.pc = 1, !.chunk = 0]
      \/ run' = [r EXCEPT !.status = "done", !.chunk = 0]
  BY <1>1 DEF proceed
<1>3. CASE run' = [r EXCEPT !.pc = @ + 1, !.chunk = 0] BY <1>3 DEF IsRecord
<1>4. CASE run' = [r EXCEPT !.tasks = Tail(@), !.pc = 1, !.chunk = 0] BY <1>4 DEF IsRecord
<1>5. CASE run' = [r EXCEPT !.status = "done", !.chunk = 0] BY <1>5 DEF IsRecord
<1> QED BY <1>2, <1>3, <1>4, <1>5

\* A step that succeeds.
LEMMA ContinueAdvances ==
    ASSUME RunOK, Migrating, Continue(run)
    PROVE  Advances /\ run'.oracle = run.oracle /\ run'.inputs = run.inputs /\ run'.chunk = 0
<1>1. Running /\ run.kind # "tokens" /\ run.status = "running" BY DEF Migrating, Running
<1>2. IsRecord(run) BY RunIsRecord
<1>3. OnItsWay BY <1>1, <1>2, ProceedsCleanly DEF OnItsWay
<1>4. Moves /\ run'.chunk = 0 /\ NextPlace(place, place') BY <1>1, ContinueMoves
<1> QED BY <1>3, <1>4 DEF Advances, Moves

\* A call that fails.
LEMMA BreakGivesUp ==
    ASSUME RunOK, Migrating, Break
    PROVE  GivesUp /\ run'.oracle = run.oracle
<1>1. Running /\ run.kind # "tokens" BY DEF Migrating
<1>2. Moves /\ Falls /\ faults < target.faults BY <1>1, BreakMoves
<1>3. IsRecord(run) BY RunIsRecord
<1>4. run'.status = "failed" /\ ~ run'.clean BY <1>3 DEF Break, failed, IsRecord
<1> QED BY <1>2, <1>4 DEF GivesUp, Moves

\* A transaction.
LEMMA MinedEnds ==
    ASSUME RunOK, Migrating, Mined
    PROVE  (Advances \/ GivesUp) /\ run'.oracle = run.oracle
BY ContinueAdvances, BreakGivesUp DEF Mined

\* A pass of a loop.
LEMMA MinedChunkEnds ==
    ASSUME RunOK, Migrating, place \in {406, 710, 715}, NEW array, NEW size,
           MinedChunk(array, size)
    PROVE  (Advances \/ Stays \/ GivesUp) /\ run'.oracle = run.oracle
<1>1. CASE run' = [run EXCEPT !.chunk = @ + 1]
  <2>1. RunOK /\ Running BY DEF Migrating
  <2>2. run'.chunk = run.chunk + 1 /\ run'.oracle = run.oracle /\ place' = place
        /\ run'.kind = run.kind /\ run'.status = run.status
    BY <1>1, <2>1, Loops
  <2>3. IsRecord(run) BY RunIsRecord
  <2>4. run'.clean = run.clean BY <1>1, <2>3 DEF IsRecord
  <2> QED BY <2>1, <2>2, <2>4 DEF Stays, OnItsWay, Running
<1>2. CASE Continue(run) BY <1>2, ContinueAdvances
<1>3. CASE Break BY <1>3, BreakGivesUp
<1> QED BY <1>1, <1>2, <1>3 DEF MinedChunk

\* A step that has read something, or has chosen the rate oracle.
LEMMA ReadAdvances ==
    ASSUME RunOK, Migrating, NEW oracle \in Nat, NEW admin, NEW inputs \in Seq(Reserves),
           Continue(RunWith(oracle, admin, inputs))
    PROVE  Advances /\ run'.oracle = oracle /\ run'.inputs = inputs /\ run'.chunk = 0
<1>1. Running /\ run.kind # "tokens" /\ run.status = "running" BY DEF Migrating, Running
<1>2. PICK r : r = RunWith(oracle, admin, inputs) OBVIOUS
<1>3. IsRun(r) /\ r.status = run.status /\ r.kind = run.kind BY <1>2, RunWithIs
<1>4. r.clean = run.clean BY <1>2 DEF RunWith
<1>5. IsRecord(r) BY <1>3, Zenon DEF IsRun, IsRecord
<1>6. OnItsWay BY <1>1, <1>2, <1>3, <1>4, <1>5, ProceedsCleanly DEF OnItsWay
<1>7. /\ run'.chunk = 0 /\ run'.oracle = oracle /\ run'.inputs = inputs
      /\ NextPlace(place, place')
  BY <1>1, ReadsOn
<1> QED BY <1>6, <1>7 DEF Advances

\* The process reads that there is nothing to configure and skips three transactions.
LEMMA SkipAdvances ==
    ASSUME RunOK, Migrating, place = 713, NEW inputs \in Seq(Reserves),
           Continue([run EXCEPT !.inputs = inputs, !.pc = @ + 3])
    PROVE  Advances /\ run'.oracle = run.oracle
<1>1. Running /\ run.kind # "tokens" /\ run.status = "running" BY DEF Migrating, Running
<1>2. PICK r : r = [run EXCEPT !.inputs = inputs, !.pc = @ + 3] OBVIOUS
<1>3. IsRecord(run) BY RunIsRecord
<1>4. IsRecord(r) /\ r.status = "running" /\ r.clean = run.clean /\ r.kind = run.kind
  BY <1>1, <1>2, <1>3 DEF IsRecord
<1>5. OnItsWay BY <1>2, <1>4, ProceedsCleanly DEF OnItsWay
<1>6. run'.oracle = run.oracle /\ place' = 717 BY <1>1, SkipsOn
<1> QED BY <1>5, <1>6 DEF Advances

\* The address book loses no entry.
LEMMA BookLosesNothing ==
    ASSUME NEW new
    PROVE  /\ db' = inBook(new) => DOMAIN db \subseteq DOMAIN db' /\ DOMAIN new \subseteq DOMAIN db'
           /\ db' = db => DOMAIN db \subseteq DOMAIN db'
<1>1. CASE db' = inBook(new)
  <2>1. DOMAIN over(new, db) = DOMAIN new \union DOMAIN db BY OverIs
  <2> QED BY <1>1, <2>1 DEF inBook
<1> QED BY <1>1

\* What was deposited stays, and what the deployments add is there.
LEMMA DepositsStay ==
    ASSUME Deposited, RunOK, run'.target = run.target, DOMAIN db \subseteq DOMAIN db',
           Advances \/ Stays \/ GivesUp,
           place = 101 => Registry \in DOMAIN db',
           place = 502 => "AaveProtocolDataProvider" \in DOMAIN db',
           place = 601 => "WethGateway" \in DOMAIN db' \/ Configured("WethGateway")
    PROVE  Deposited'
<1>1. target' = target /\ \A c : Configured(c)' = Configured(c) BY SameConfig
<1>2. place \in Nat
  <2>1. place \in Places BY PlaceIs
  <2> QED BY <2>1, StayCrosses
<1>3. /\ \A c : found(c) => found(c)'
      /\ Findable("WethGateway") => Findable("WethGateway")'
  BY <1>1 DEF found, Findable
<1>4. NextPlace(place, place') \/ (place = 713 /\ place' = 717) \/ (place' <= place /\ place' \in Nat)
  BY <1>2 DEF Advances, Stays, GivesUp, Falls, Firsts
<1>5. /\ place' > 101 => place > 101 \/ place = 101
      /\ place' > 502 => place > 502 \/ place = 502
      /\ place' > 601 /\ target.pool \notin {"Moola", "Matic"} => place > 601 \/ place = 601
  <2>1. CASE NextPlace(place, place') BY <1>2, <2>1 DEF NextPlace, Finished
  <2>2. CASE place' <= place /\ place' \in Nat BY <1>2, <2>2
  <2>3. CASE place = 713 /\ place' = 717 BY <2>3
  <2> QED BY <1>4, <2>1, <2>2, <2>3
<1>6. target.pool = "Moola" /\ place' > 101 => found(Registry)' BY <1>3, <1>5 DEF Deposited, found
<1>7. place' > 502 => found("AaveProtocolDataProvider")' BY <1>3, <1>5 DEF Deposited, found
<1>8. place' > 601 /\ target.pool \notin {"Moola", "Matic"} => Findable("WethGateway")'
  <2>1. place = 601 => Findable("WethGateway")' BY <1>1 DEF Findable, found
  <2> QED BY <1>3, <1>5, <2>1 DEF Deposited
<1> QED BY <1>1, <1>6, <1>7, <1>8 DEF Deposited

\* The rate oracle in use, where it existed before.
SharedAfter ==
    Configured("LendingRateOracle") =>
        /\ place' \notin {406, 407} => oracles'[1].owner = Deployer
        /\ place' > 403 => run'.oracle = 1

\* Where a rate oracle exists, no call fails.
LEMMA SharedNeverBreaks ==
    ASSUME IInv, Suited(target), GivesUp
    PROVE  ~ Configured("LendingRateOracle")
<1>1. faults < target.faults BY DEF GivesUp
<1>2. faults \in 0 .. target.faults BY DEF IInv, Budget
<1>3. target.faults # 0 BY <1>1, <1>2
<1>4. config = ConfigOf[target] BY DEF config
<1> QED BY <1>3, <1>4 DEF Suited, Configured

\* A step of a migration keeps the invariant if the market it has made is still as it
\* should be.
LEMMA CleanKeeps ==
    ASSUME IInv, CleanInv, Suited(target), Migrating, run'.target = run.target,
           Advances \/ Stays \/ GivesUp, DOMAIN db \subseteq DOMAIN db',
           place = 101 => Registry \in DOMAIN db',
           place = 502 => "AaveProtocolDataProvider" \in DOMAIN db',
           place = 601 => "WethGateway" \in DOMAIN db' \/ Configured("WethGateway"),
           Advances \/ Stays => (run.kind = "migration" => Unspoilt') /\ SharedAfter
    PROVE  CleanInv'
<1>1. Deposited /\ OracleShared /\ RunOK BY DEF CleanInv, IInv
<1>2. target' = target /\ \A c : Configured(c)' = Configured(c) BY SameConfig
<1>3. Deposited' BY <1>1, DepositsStay
<1>4. CASE GivesUp
  <2>1. CleanMigrationsComplete' BY <1>4 DEF GivesUp, CleanMigrationsComplete
  <2>2. ~ Underway' BY <1>4 DEF GivesUp, Underway, Running
  <2>3. ~ Configured("LendingRateOracle") BY <1>4, SharedNeverBreaks
  <2> QED BY <1>2, <1>3, <2>1, <2>2, <2>3 DEF CleanInv, OracleShared
<1>5. CASE Advances \/ Stays
  <2>1. run'.status \in {"running", "done"} /\ run'.kind = run.kind
    BY <1>5 DEF Advances, Stays, OnItsWay
  <2>2. CleanMigrationsComplete' BY <2>1 DEF CleanMigrationsComplete
  <2>3. Underway' => Unspoilt' BY <1>5, <2>1 DEF Underway
  <2>4. OracleShared' BY <1>1, <1>2, <1>5, <2>1 DEF OracleShared, SharedAfter
  <2> QED BY <1>3, <2>2, <2>3, <2>4 DEF CleanInv
<1> QED BY <1>4, <1>5

\* A market that the step leaves alone, as far as it matters where the process is.
LEMMA UnspoiltStays ==
    ASSUME RunOK, Unspoilt, Advances, place \notin {203, 205, 403, 405},
           place \in 204 .. 709 => DOMAIN market'.listed = DOMAIN market.listed,
           place \in 206 .. 709 => market'.admin = market.admin,
           place \in 204 .. 302 => market'.pool = market.pool,
           place \in 204 .. 305 => market'.configurator = market.configurator,
           place \in {404, 406} => /\ oracles'[run'.oracle].owner = oracles[run.oracle].owner
                                   /\ rateHelper' = rateHelper
    PROVE  Unspoilt'
<1>1. place \in Nat /\ place \in Places
  <2>1. place \in Places BY PlaceIs
  <2> QED BY <2>1, StayCrosses
<1>2. /\ place' \in 204 .. 303 => place \in 204 .. 302
      /\ place' \in 204 .. 306 => place \in 204 .. 305
      /\ place' \in 404 .. 405 => place = 404
      /\ place' \in 406 .. 407 => place = 406
      /\ place' \in 206 .. 710 => place \in 206 .. 709
      /\ place' \in 204 .. 710 => place \in 204 .. 709
  <2>1. CASE NextPlace(place, place') BY <1>1, <2>1 DEF NextPlace, Finished
  <2>2. CASE place = 713 /\ place' = 717 BY <2>2
  <2> QED BY <2>1, <2>2 DEF Advances
<1>3. /\ place \in 204 .. 302 => ~ market.pool
      /\ place \in 204 .. 305 => ~ market.configurator
      /\ place = 404 => oracles[run.oracle].owner = Deployer
      /\ place = 406 => oracles[run.oracle].owner = rateHelper
      /\ place \in 206 .. 709 => market.admin = Deployer
      /\ place \in 204 .. 709 => DOMAIN market.listed = {}
  <2>1. /\ place \in 204 .. 302 => place \in 204 .. 303
        /\ place \in 204 .. 305 => place \in 204 .. 306
        /\ place = 404 => place \in 404 .. 405
        /\ place = 406 => place \in 406 .. 407
        /\ place \in 206 .. 709 => place \in 206 .. 710
    BY <1>1
  <2>2. place \in 204 .. 303 => ~ market.pool BY DEF Unspoilt
  <2>3. place \in 204 .. 306 => ~ market.configurator BY DEF Unspoilt
  <2>4. place \in 404 .. 405 => oracles[run.oracle].owner = Deployer BY DEF Unspoilt
  <2>5. place \in 406 .. 407 => oracles[run.oracle].owner = rateHelper BY DEF Unspoilt
  <2>6. place \in 206 .. 710 => market.admin = Deployer BY DEF Unspoilt
  <2>7. place \in 204 .. 709 => DOMAIN market.listed = {} BY DEF Unspoilt
  <2>8. place \in 204 .. 302 => ~ market.pool BY <2>1, <2>2
  <2>9. place \in 204 .. 305 => ~ market.configurator BY <2>1, <2>3
  <2>10. place = 404 => oracles[run.oracle].owner = Deployer BY <2>4
  <2>11. place = 406 => oracles[run.oracle].owner = rateHelper BY <2>5
  <2>12. place \in 206 .. 709 => market.admin = Deployer BY <2>1, <2>6
  <2> QED BY <2>7, <2>8, <2>9, <2>10, <2>11, <2>12
<1>4. place' \in 204 .. 303 => ~ market'.pool BY <1>2, <1>3
<1>5. place' \in 204 .. 306 => ~ market'.configurator BY <1>2, <1>3
<1>6. place' \in 404 .. 405 => oracles'[run'.oracle].owner = Deployer BY <1>2, <1>3
<1>7. place' \in 406 .. 407 => oracles'[run'.oracle].owner = rateHelper' BY <1>2, <1>3
<1>8. place' \in 206 .. 710 => market'.admin = Deployer BY <1>2, <1>3
<1>9. place' \in 204 .. 710 => DOMAIN market'.listed = {} BY <1>2, <1>3
<1>10. /\ place' \in 204 .. 709 => place' \in 204 .. 710
       /\ place' = 710 => place' \in 204 .. 710
  OBVIOUS
<1>11. place' \in 204 .. 709 => DOMAIN market'.listed = {} BY <1>9, <1>10
<1>12. place' = 710 => \A s \in DOMAIN market'.listed :
         \E i \in 1 .. Len(run'.inputs) : i <= run'.chunk * initChunks /\ run'.inputs[i] = s
  <2> SUFFICES ASSUME place' = 710, NEW s \in DOMAIN market'.listed PROVE FALSE
    OBVIOUS
  <2> QED BY <1>9, <1>10
<1> QED BY <1>4, <1>5, <1>6, <1>7, <1>8, <1>11, <1>12, Zenon DEF Unspoilt

\* The rate oracle in use where no step touches it.
LEMMA SharedStays ==
    ASSUME OracleShared, RunOK, Advances, place \notin {403, 405, 406, 407},
           oracles' = oracles, run'.oracle = run.oracle
    PROVE  SharedAfter
<1>1. place \in Nat
  <2>1. place \in Places BY PlaceIs
  <2> QED BY <2>1, StayCrosses
<1>2. place' > 403 => place > 403
  <2>1. CASE NextPlace(place, place') BY <1>1, <2>1 DEF NextPlace, Finished
  <2>2. CASE place = 713 /\ place' = 717 BY <2>2
  <2> QED BY <2>1, <2>2 DEF Advances
<1>3. Configured("LendingRateOracle") => oracles'[1].owner = Deployer
  <2>1. place \notin {406, 407} => oracles[1].owner = Deployer \/ ~ Configured("LendingRateOracle")
    BY DEF OracleShared
  <2> QED BY <2>1
<1>4. Configured("LendingRateOracle") /\ place' > 403 => run'.oracle = 1
  <2>1. Configured("LendingRateOracle") /\ place > 403 => run.oracle = 1 BY DEF OracleShared
  <2> QED BY <1>2, <2>1
<1> QED BY <1>3, <1>4 DEF SharedAfter

\* A step that changes neither a market nor an oracle.
LEMMA QuietClean ==
    ASSUME IInv, CleanInv, Suited(target), Migrating, run'.target = run.target,
           Advances \/ GivesUp, run'.oracle = run.oracle,
           place \notin {203, 205, 403, 405, 406, 407},
           markets' = markets, oracles' = oracles, DOMAIN db \subseteq DOMAIN db',
           place > 203 => m' = m, place = 404 => rateHelper' = rateHelper,
           place = 101 => Registry \in DOMAIN db',
           place = 502 => "AaveProtocolDataProvider" \in DOMAIN db',
           place = 601 => "WethGateway" \in DOMAIN db' \/ Configured("WethGateway")
    PROVE  CleanInv'
<1>1. RunOK /\ OracleShared /\ (Underway => Unspoilt) BY DEF IInv, CleanInv
<1>2. Advances => SharedAfter BY <1>1, SharedStays
<1>3. place > 203 => market' = market BY DEF market
<1>4. place \in Nat
  <2>1. place \in Places BY <1>1, PlaceIs
  <2> QED BY <2>1, StayCrosses
<1>5. Advances /\ run.kind = "migration" => Unspoilt'
  <2> SUFFICES ASSUME Advances, run.kind = "migration" PROVE Unspoilt'
    OBVIOUS
  <2>1. Unspoilt BY <1>1 DEF Migrating, Underway
  <2>2. place \in 204 .. 709 => market' = market BY <1>3, <1>4
  <2>3. /\ place \in 204 .. 709 => DOMAIN market'.listed = DOMAIN market.listed
        /\ place \in 206 .. 709 => market'.admin = market.admin
        /\ place \in 204 .. 302 => market'.pool = market.pool
        /\ place \in 204 .. 305 => market'.configurator = market.configurator
    <3>1. /\ place \in 206 .. 709 => place \in 204 .. 709
          /\ place \in 204 .. 302 => place \in 204 .. 709
          /\ place \in 204 .. 305 => place \in 204 .. 709
      BY <1>4
    <3> QED BY <2>2, <3>1
  <2>4. place \in {404, 406} => /\ oracles'[run'.oracle].owner = oracles[run.oracle].owner
                                /\ rateHelper' = rateHelper
    OBVIOUS
  <2>5. place \notin {203, 205, 403, 405} OBVIOUS
  <2> QED BY <1>1, <2>1, <2>3, <2>4, <2>5, UnspoiltStays
<1>7. CASE Advances BY <1>2, <1>5, <1>7, CleanKeeps
<1>8. CASE GivesUp
  <2>1. ~ (Advances \/ Stays) BY <1>8 DEF GivesUp, Advances, Stays, OnItsWay
  <2> QED BY <1>8, <2>1, CleanKeeps
<1> QED BY <1>7, <1>8

\* A getter finds its entry.
LEMMA FoundClean ==
    ASSUME IInv, CleanInv, Suited(target), Migrating, run'.target = run.target, FindStep
    PROVE  CleanInv'
<1>1. /\ RunOK /\ Continue(run) /\ UNCHANGED <<db, chain, started>> /\ step.do = "find"
  BY DEF FindStep, At, IInv
<1>2. place \in {202, 301, 401, 404, 501, 701, 702, 704, 705, 709, 711, 712, 720}
  BY <1>1, PlacesOfSteps
<1>3. Advances /\ run'.oracle = run.oracle BY <1>1, ContinueAdvances
<1>4. /\ markets' = markets /\ oracles' = oracles /\ m' = m /\ rateHelper' = rateHelper
      /\ DOMAIN db \subseteq DOMAIN db'
  BY <1>1, UnchangedBook DEF chain
<1>5. place \notin {203, 205, 403, 405, 406, 407} /\ place \notin {101, 502, 601} BY <1>2
<1> QED BY <1>3, <1>4, <1>5, QuietClean

\* The check of the configuration.
LEMMA CheckedClean ==
    ASSUME IInv, CleanInv, Suited(target), Migrating, run'.target = run.target, CheckStep
    PROVE  CleanInv'
<1>1. /\ RunOK /\ Continue(run) /\ UNCHANGED <<db, chain, started>> /\ step.do = "check"
  BY DEF CheckStep, At, IInv
<1>2. place = 201 BY <1>1, PlacesOfSteps
<1>3. Advances /\ run'.oracle = run.oracle BY <1>1, ContinueAdvances
<1>4. /\ markets' = markets /\ oracles' = oracles /\ m' = m /\ rateHelper' = rateHelper
      /\ DOMAIN db \subseteq DOMAIN db'
  BY <1>1, UnchangedBook DEF chain
<1> QED BY <1>2, <1>3, <1>4, QuietClean

\* The registration of the provider.
LEMMA RegisteredClean ==
    ASSUME IInv, CleanInv, Suited(target), Migrating, run'.target = run.target,
           RegisterAddressesProvider
    PROVE  CleanInv'
<1>1. /\ RunOK /\ Mined /\ UNCHANGED <<db, markets, oracles, started>>
      /\ step.do = "registerAddressesProvider"
  BY DEF RegisterAddressesProvider, At, IInv
<1>2. place = 204 BY <1>1, PlacesOfSteps
<1>3. (Advances \/ GivesUp) /\ run'.oracle = run.oracle BY <1>1, MinedEnds
<1>4. /\ markets' = markets /\ oracles' = oracles /\ m' = m /\ rateHelper' = rateHelper
      /\ DOMAIN db \subseteq DOMAIN db'
  BY <1>1, UnchangedBook
<1> QED BY <1>2, <1>3, <1>4, QuietClean

\* What a migration reads.
LEMMA ReadClean ==
    ASSUME IInv, CleanInv, Suited(target), Migrating, run'.target = run.target, ReadStep
    PROVE  CleanInv'
<1>1. /\ RunOK /\ Running /\ run.kind # "tokens" /\ UNCHANGED <<db, chain, started>>
      /\ step.do = "read" /\ run.oracle \in Nat /\ run.inputs \in Seq(Reserves)
  BY RunIs DEF ReadStep, At, IInv, Migrating
<1>2. place \in {703, 708, 713} BY <1>1, PlacesOfSteps
<1>3. Advances /\ run'.oracle = run.oracle
  <2>1. \A f : Read(f).of = f BY DEF Read, Step
  <2>2. CASE place = 703
    <3>1. step.of = "poolAdmin" BY <1>1, <2>1, <2>2, StepIs
    <3>2. Continue([run EXCEPT !.admin = market.admin]) BY <3>1 DEF ReadStep
    <3>3. Continue(RunWith(run.oracle, market.admin, run.inputs)) BY <1>1, <3>2, RunWithExcept
    <3> QED BY <1>1, <3>3, ReadAdvances
  <2>3. CASE place = 708
    <3>1. step.of = "reserves" BY <1>1, <2>1, <2>3, StepIs
    <3>2. Continue([run EXCEPT !.inputs = config.order]) BY <3>1 DEF ReadStep
    <3>3. Continue(RunWith(run.oracle, run.admin, config.order)) BY <1>1, <3>2, RunWithExcept
    <3>4. config.order \in Seq(Reserves)
      <4>1. WellFormed(config) BY <1>1, RunIs, ConfigOK
      <4> QED BY <4>1 DEF WellFormed, Reserves, reservesParams
    <3> QED BY <1>1, <3>3, <3>4, ReadAdvances
  <2>4. CASE place = 713
    <3>1. step.of = "unconfigured" BY <1>1, <2>1, <2>4, StepIs
    <3>2. Continue([run EXCEPT !.inputs = unconfigured,
                               !.pc = IF unconfigured = <<>> THEN @ + 3 ELSE @])
      BY <3>1 DEF ReadStep
    <3>3. PICK todo : todo = unconfigured OBVIOUS
    <3>4. todo \in Seq(Reserves) BY <1>1, <3>3, UnconfiguredAre
    <3>5. CASE todo = <<>>
      <4>1. Continue([run EXCEPT !.inputs = todo, !.pc = @ + 3]) BY <3>2, <3>3, <3>5
      <4> QED BY <1>1, <2>4, <3>4, <4>1, SkipAdvances
    <3>6. CASE todo # <<>>
      <4>1. [run EXCEPT !.inputs = todo, !.pc = @] = [run EXCEPT !.inputs = todo]
        <5>1. IsRecord(run) BY <1>1, RunIsRecord
        <5> QED BY <5>1 DEF IsRecord
      <4>2. Continue([run EXCEPT !.inputs = todo]) BY <3>2, <3>3, <3>6, <4>1
      <4>3. Continue(RunWith(run.oracle, run.admin, todo)) BY <1>1, <4>2, RunWithExcept
      <4> QED BY <1>1, <3>4, <4>3, ReadAdvances
    <3> QED BY <3>5, <3>6
  <2> QED BY <1>2, <2>2, <2>3, <2>4
<1>4. /\ markets' = markets /\ oracles' = oracles /\ m' = m /\ rateHelper' = rateHelper
      /\ DOMAIN db \subseteq DOMAIN db'
  BY <1>1, UnchangedBook DEF chain
<1>5. place \notin {203, 205, 403, 405, 406, 407} /\ place \notin {101, 502, 601} BY <1>2
<1> QED BY <1>3, <1>4, <1>5, QuietClean

\* The contract a deployment is of.
LEMMA DeploymentsAre ==
    ASSUME RunOK, Migrating, step.do \in {"deploy", "reuse"}
    PROVE  /\ place \in {302, 305, 402, 403, 601, 717}
                  \union {101, 203, 308, 309, 502, 706, 707, 719}
           /\ place = 101 => step.of = Registry
           /\ place = 203 => step.of = Provider
           /\ place = 302 => step.of = "LendingPool"
           /\ place = 305 => step.of = "LendingPoolConfigurator"
           /\ place = 308 => step.of = "StableAndVariableTokensHelper"
           /\ place = 309 => step.of = "ATokensAndRatesHelper"
           /\ place = 402 => step.of = "AaveOracle"
           /\ place = 403 => step.of = "LendingRateOracle"
           /\ place = 502 => step.of = "AaveProtocolDataProvider"
           /\ place = 601 => step.of = "WethGateway"
           /\ place = 706 => step.of = "TokenImplementations"
           /\ place = 707 => step.of = "Strategies"
           /\ place = 717 => step.of = "LendingPoolCollateralManager"
           /\ place = 719 => step.of = "WalletBalanceProvider"
<1>1. \A c : Deploy(c).of = c /\ Reuse(c).of = c BY DEF Deploy, Reuse, Step
<1>2. place \in {302, 305, 402, 403, 601, 717} \union {101, 203, 308, 309, 502, 706, 707, 719}
  BY PlacesOfSteps
<1> QED BY <1>1, <1>2, StepIs

\* A contract of the configuration is used, other than the rate oracle.
LEMMA ReusedClean ==
    ASSUME IInv, CleanInv, Suited(target), Migrating, run'.target = run.target, ReuseStep,
           place # 403
    PROVE  CleanInv'
<1>1. /\ RunOK /\ Running /\ UNCHANGED <<db, chain, started>> /\ step.do = "reuse"
      /\ Configured(step.of)
  BY DEF ReuseStep, At, IInv
<1>2. place \in {302, 305, 402, 601, 717} BY <1>1, PlacesOfSteps
<1>3. /\ step.of # "LendingRateOracle" /\ (place = 601 => step.of = "WethGateway")
  BY <1>1, <1>2, DeploymentsAre
<1>4. Continue(run) BY <1>3 DEF ReuseStep
<1>5. Advances /\ run'.oracle = run.oracle BY <1>1, <1>4, ContinueAdvances
<1>6. /\ markets' = markets /\ oracles' = oracles /\ m' = m /\ rateHelper' = rateHelper
      /\ DOMAIN db \subseteq DOMAIN db'
  BY <1>1, UnchangedBook DEF chain
<1>7. place \notin {203, 205, 403, 405, 406, 407} /\ place \notin {101, 502} BY <1>2
<1>8. place = 601 => Configured("WethGateway") BY <1>1, <1>3
<1> QED BY <1>5, <1>6, <1>7, <1>8, QuietClean

\* A rate oracle of the configuration is the deployer's again when it is used.
LEMMA OracleReusedClean ==
    ASSUME IInv, CleanInv, Suited(target), Migrating, run'.target = run.target, ReuseStep,
           place = 403
    PROVE  CleanInv'
<1>1. /\ RunOK /\ Running /\ UNCHANGED <<db, chain, started>> /\ step.do = "reuse"
      /\ Configured(step.of) /\ OracleShared
  BY DEF ReuseStep, At, IInv, CleanInv
<1>2. step.of = "LendingRateOracle" BY <1>1, DeploymentsAre
<1>3. Continue(RunWith(1, run.admin, run.inputs)) BY <1>1, <1>2, RunWithExcept DEF ReuseStep
<1>4. run.inputs \in Seq(Reserves) BY <1>1, RunIs
<1>5. Advances /\ run'.oracle = 1 BY <1>1, <1>3, <1>4, ReadAdvances
<1>6. place' = 404 BY <1>5 DEF Advances, NextPlace
<1>7. oracles' = oracles /\ oracles[1].owner = Deployer
  <2>1. Configured("LendingRateOracle") /\ place \notin {406, 407} BY <1>1, <1>2
  <2>2. oracles[1].owner = Deployer BY <1>1, <2>1 DEF OracleShared
  <2> QED BY <1>1, <2>2 DEF chain
<1>8. SharedAfter BY <1>5, <1>7 DEF SharedAfter
<1>9. run.kind = "migration" => Unspoilt'
  <2> SUFFICES ASSUME run.kind = "migration" PROVE Unspoilt'
    OBVIOUS
  <2>1. Unspoilt BY DEF Migrating, Underway, CleanInv
  <2>2. place > 203 /\ m' = m /\ markets' = markets BY <1>1, UnchangedBook DEF chain
  <2>3. market' = market BY <2>2 DEF market
  <2>4. market.admin = Deployer /\ DOMAIN market.listed = {} BY <2>1 DEF Unspoilt
  <2> QED BY <1>5, <1>6, <1>7, <2>3, <2>4 DEF Unspoilt
<1>10. DOMAIN db \subseteq DOMAIN db' BY <1>1
<1> QED BY <1>5, <1>8, <1>9, <1>10, CleanKeeps

\* An entry for a proxy.
LEMMA InsertedClean ==
    ASSUME IInv, CleanInv, Suited(target), Migrating, run'.target = run.target, InsertStep
    PROVE  CleanInv'
<1>1. /\ RunOK /\ Running /\ UNCHANGED <<chain, started>> /\ step.do = "insert"
      /\ Continue(run) /\ BookAt
  BY DEF InsertStep, At, IInv
<1>2. place \in {304, 307} BY <1>1, PlacesOfSteps
<1>3. step.of # Provider
  <2>1. \A c : Insert(c).of = c BY DEF Insert, Step
  <2> QED BY <1>1, <1>2, <2>1, StepIs DEF Provider
<1>4. Advances /\ run'.oracle = run.oracle BY <1>1, ContinueAdvances
<1>5. PICK c, a : c = step.of /\ a = m OBVIOUS
<1>6. db' = inBook(entry(c, a)) BY <1>5 DEF InsertStep
<1>7. Kept(Provider) BY <1>3, <1>5, <1>6, EntryIs
<1>8. m' = m BY <1>1, <1>2, <1>7 DEF BookAt, Kept, m
<1>9. DOMAIN db \subseteq DOMAIN db' BY <1>6, BookLosesNothing
<1>10. markets' = markets /\ oracles' = oracles BY <1>1 DEF chain
<1>11. /\ place \notin {203, 205, 403, 405, 406, 407}
       /\ place # 404 /\ place \notin {101, 502, 601}
  BY <1>2
<1> QED BY <1>4, <1>8, <1>9, <1>10, <1>11, QuietClean

\* The deployment of a contract that is neither a provider nor a rate oracle.
LEMMA ContractClean ==
    ASSUME IInv, CleanInv, Suited(target), Migrating, run'.target = run.target, DeployStep,
           place \notin {203, 403}
    PROVE  CleanInv'
<1>1. /\ RunOK /\ ChainOK /\ BookAt /\ Running /\ UNCHANGED started /\ MustDeploy(step)
      /\ DeployContract(step.of)
      /\ Continue(IF step.of = "LendingRateOracle" THEN [run EXCEPT !.oracle = Len(oracles')]
                  ELSE run)
  BY DEF DeployStep, IInv
<1>2. step.do \in {"deploy", "reuse"} BY <1>1 DEF MustDeploy
<1>3. PICK c : c = step.of OBVIOUS
<1>4. /\ place \in {302, 305, 402, 601, 717, 101, 308, 309, 502, 706, 707, 719}
      /\ place = 101 <=> c = Registry
      /\ place = 502 => c = "AaveProtocolDataProvider"
      /\ place = 601 => c = "WethGateway"
      /\ place = 707 <=> c = "Strategies"
      /\ c # Provider /\ c # "LendingRateOracle"
  BY <1>1, <1>2, <1>3, DeploymentsAre DEF Provider, Registry
<1>5. Continue(run) BY <1>1, <1>3, <1>4
<1>6. Advances /\ run'.oracle = run.oracle BY <1>1, <1>5, ContinueAdvances
<1>7. DeployContract(c) BY <1>1, <1>3
<1>8. /\ markets' = markets /\ oracles' = oracles
      /\ DOMAIN db \subseteq DOMAIN db' /\ (c # "Strategies" => c \in DOMAIN db')
      /\ place > 203 => m' = m
  <2>1. CASE c = "Strategies"
    <3>1. /\ db' = inBook(strategies(strategyNames(DOMAIN reservesParams), m)) /\ UNCHANGED chain
      BY <1>4, <1>7, <2>1 DEF DeployContract, Registry
    <3>2. BookGrows BY <1>1, <1>4, <2>1, <3>1, StrategiesGrow
    <3>3. m' = m BY <1>1, <1>4, <2>1, <3>2 DEF BookGrows, Untouched, Kept, BookAt, m
    <3>4. DOMAIN db \subseteq DOMAIN db' BY <3>1, BookLosesNothing
    <3> QED BY <2>1, <3>1, <3>3, <3>4 DEF chain
  <2>2. CASE c # "Strategies"
    <3>1. \E a : db' = inBook(entry(c, a)) /\ markets' = markets /\ oracles' = oracles
      BY <1>4, <1>7, <2>2 DEF DeployContract, Registry, chain
    <3>2. PICK a : db' = inBook(entry(c, a)) /\ markets' = markets /\ oracles' = oracles BY <3>1
    <3>3. Kept(Provider) /\ c \in DOMAIN db' BY <1>4, <3>2, EntryIs
    <3>4. place > 203 => m' = m BY <1>1, <3>3 DEF BookAt, Kept, m
    <3>5. DOMAIN db \subseteq DOMAIN db' BY <3>2, BookLosesNothing
    <3> QED BY <3>2, <3>3, <3>4, <3>5
  <2> QED BY <2>1, <2>2
<1>9. /\ place \notin {203, 205, 403, 405, 406, 407} /\ place # 404
      /\ place = 101 => Registry \in DOMAIN db'
      /\ place = 502 => "AaveProtocolDataProvider" \in DOMAIN db'
      /\ place = 601 => "WethGateway" \in DOMAIN db'
  <2>1. Registry # "Strategies" BY DEF Registry
  <2> QED BY <1>4, <1>8, <2>1
<1> QED BY <1>6, <1>8, <1>9, QuietClean

\* A new provider has nothing yet of what its migration will set.
LEMMA ProviderClean ==
    ASSUME IInv, CleanInv, Suited(target), Migrating, run'.target = run.target, DeployStep,
           place = 203
    PROVE  CleanInv'
<1>1. /\ RunOK /\ ChainOK /\ Running /\ MustDeploy(step) /\ DeployContract(step.of)
      /\ Continue(IF step.of = "LendingRateOracle" THEN [run EXCEPT !.oracle = Len(oracles')]
                  ELSE run)
      /\ OracleShared
  BY DEF DeployStep, IInv, CleanInv
<1>2. step.do \in {"deploy", "reuse"} BY <1>1 DEF MustDeploy
<1>3. step.of = Provider BY <1>1, <1>2, DeploymentsAre
<1>4. Continue(run) /\ DeployContract(Provider) BY <1>1, <1>3 DEF Provider
<1>5. Advances /\ run'.oracle = run.oracle BY <1>1, <1>4, ContinueAdvances
<1>6. place' = 204 BY <1>5 DEF Advances, NextPlace
<1>7. /\ markets' = Append(markets, NewMarket)
      /\ db' = inBook(entry(Provider, Len(markets'))) /\ oracles' = oracles
  BY <1>4 DEF DeployContract, Provider, Registry
<1>8. market' = NewMarket
  <2>1. PICK e, a : e = NewMarket /\ a = Len(markets') OBVIOUS
  <2>2. IsSequence(markets) /\ markets' = Append(markets, e) BY <1>1, <1>7, <2>1 DEF ChainOK
  <2>3. Grown(markets, markets', e) /\ Len(markets) \in Nat BY <2>2, AppendIs
  <2>4. db' = inBook(entry(Provider, a)) BY <1>7, <2>1
  <2>5. db'[Provider] = a BY <2>4, EntryIs
  <2> QED BY <2>1, <2>3, <2>5 DEF market, m, Grown
<1>9. Unspoilt'
  <2>1. ~ NewMarket.pool /\ ~ NewMarket.configurator /\ DOMAIN NewMarket.listed = {}
    BY DEF NewMarket
  <2> QED BY <1>6, <1>8, <2>1 DEF Unspoilt
<1>10. SharedAfter BY <1>1, <1>5, <1>6, <1>7, SharedStays
<1>11. DOMAIN db \subseteq DOMAIN db'
  <2>1. PICK new : new = entry(Provider, Len(markets')) OBVIOUS
  <2> QED BY <1>7, <2>1, BookLosesNothing
<1> QED BY <1>5, <1>9, <1>10, <1>11, CleanKeeps

\* A new rate oracle is the deployer's.
LEMMA OracleClean ==
    ASSUME IInv, CleanInv, Suited(target), Migrating, run'.target = run.target, DeployStep,
           place = 403
    PROVE  CleanInv'
<1>1. /\ RunOK /\ ChainOK /\ BookAt /\ Running /\ MustDeploy(step) /\ DeployContract(step.of)
      /\ Continue(IF step.of = "LendingRateOracle" THEN [run EXCEPT !.oracle = Len(oracles')]
                  ELSE run)
  BY DEF DeployStep, IInv
<1>2. step.do \in {"deploy", "reuse"} BY <1>1 DEF MustDeploy
<1>3. step.of = "LendingRateOracle" BY <1>1, <1>2, DeploymentsAre
<1>4. PICK a : a = Len(oracles') OBVIOUS
<1>5. /\ oracles' = Append(oracles, [owner |-> Deployer, rates |-> <<>>])
      /\ db' = inBook(entry("LendingRateOracle", a)) /\ markets' = markets
  BY <1>1, <1>3, <1>4 DEF DeployContract, Provider, Registry
<1>6. PICK e : e = [owner |-> Deployer, rates |-> <<>>] OBVIOUS
<1>7. Grown(oracles, oracles', e) /\ Len(oracles) \in Nat /\ e.owner = Deployer
  <2>1. IsSequence(oracles) /\ oracles' = Append(oracles, e) BY <1>1, <1>5, <1>6 DEF ChainOK
  <2> QED BY <1>6, <2>1, AppendIs
<1>8. oracles'[a].owner = Deployer /\ a \in Nat BY <1>4, <1>7 DEF Grown
<1>9. Continue(RunWith(a, run.admin, run.inputs)) BY <1>1, <1>3, <1>4, RunWithExcept
<1>10. run.inputs \in Seq(Reserves) BY <1>1, RunIs
<1>11. Advances /\ run'.oracle = a BY <1>1, <1>8, <1>9, <1>10, ReadAdvances
<1>12. place' = 404 BY <1>11 DEF Advances, NextPlace
<1>13. m' = m
  <2>1. Kept(Provider)
    <3>1. "LendingRateOracle" # Provider BY DEF Provider
    <3> QED BY <1>5, <3>1, EntryIs
  <2> QED BY <1>1, <2>1 DEF Kept, BookAt, m
<1>14. ~ Configured("LendingRateOracle")
  <2>1. step = Reuse("LendingRateOracle") BY <1>1, StepIs
  <2>2. step.do = "reuse" BY <2>1 DEF Reuse, Step
  <2> QED BY <1>1, <1>3, <2>2 DEF MustDeploy
<1>15. SharedAfter BY <1>14 DEF SharedAfter
<1>16. run.kind = "migration" => Unspoilt'
  <2> SUFFICES ASSUME run.kind = "migration" PROVE Unspoilt'
    OBVIOUS
  <2>1. Unspoilt BY DEF Migrating, Underway, CleanInv
  <2>2. market' = market BY <1>5, <1>13 DEF market
  <2>3. market.admin = Deployer /\ DOMAIN market.listed = {} BY <2>1 DEF Unspoilt
  <2> QED BY <1>8, <1>11, <1>12, <2>2, <2>3 DEF Unspoilt
<1>17. DOMAIN db \subseteq DOMAIN db'
  <2>1. PICK new : new = entry("LendingRateOracle", a) OBVIOUS
  <2> QED BY <1>5, <2>1, BookLosesNothing
<1> QED BY <1>11, <1>15, <1>16, <1>17, CleanKeeps

\* A setter of the provider.
LEMMA SetterClean ==
    ASSUME IInv, CleanInv, Suited(target), Migrating, run'.target = run.target,
           place \in Setters, NEW r, IsMarket(r), r.listed = market.listed, r.terms = market.terms,
           markets' = [markets EXCEPT ![m] = r], Mined, UNCHANGED <<db, registered, oracles, started>>,
           place = 205 => r.admin = Deployer,
           place \in {206, 303, 306, 408, 409} => r.admin = market.admin,
           place \in {205, 206} => r.pool = market.pool,
           place \in {205, 206, 303} => r.configurator = market.configurator
    PROVE  CleanInv'
<1>1. RunOK /\ OracleShared /\ (Underway => Unspoilt) BY DEF IInv, CleanInv
<1>2. m' = m /\ market' = r BY SetterKeeps
<1>3. (Advances \/ GivesUp) /\ run'.oracle = run.oracle BY <1>1, MinedEnds
<1>4. oracles' = oracles /\ db' = db /\ rateHelper' = rateHelper BY UnchangedBook
<1>5. /\ place \in {205, 206, 303, 306, 408, 409, 714, 716, 718, 721}
      /\ place \in Nat /\ place \notin {203, 403, 404, 405, 406, 407}
  BY DEF Setters
<1>6. Advances => SharedAfter BY <1>1, <1>3, <1>4, <1>5, SharedStays
<1>7. Advances /\ run.kind = "migration" => Unspoilt'
  <2> SUFFICES ASSUME Advances, run.kind = "migration" PROVE Unspoilt'
    OBVIOUS
  <2>1. Unspoilt BY <1>1 DEF Migrating, Underway
  <2>2. CASE place = 205
    <3>1. place' = 206 BY <2>2 DEF Advances, NextPlace
    <3>2. ~ market.pool /\ ~ market.configurator /\ DOMAIN market.listed = {}
      <4>1. place \in 204 .. 303 /\ place \in 204 .. 306 /\ place \in 204 .. 709 BY <2>2
      <4>2. ~ market.pool BY <2>1, <4>1 DEF Unspoilt
      <4>3. ~ market.configurator BY <2>1, <4>1 DEF Unspoilt
      <4>4. DOMAIN market.listed = {} BY <2>1, <4>1 DEF Unspoilt
      <4> QED BY <4>2, <4>3, <4>4
    <3>3. /\ ~ market'.pool /\ ~ market'.configurator /\ DOMAIN market'.listed = {}
          /\ market'.admin = Deployer
      BY <1>2, <2>2, <3>2
    <3>4. /\ place' \notin 404 .. 405 /\ place' \notin 406 .. 407 /\ place' # 710 BY <3>1
    <3> QED BY <3>3, <3>4 DEF Unspoilt
  <2>3. CASE place # 205
    <3>1. /\ place \in 206 .. 709 => place \in {206, 303, 306, 408, 409}
          /\ place \in 204 .. 302 => place = 206
          /\ place \in 204 .. 305 => place \in {206, 303}
      BY <1>5, <2>3
    <3>2. place \in 204 .. 709 => DOMAIN market'.listed = DOMAIN market.listed BY <1>2
    <3>3. place \in 206 .. 709 => market'.admin = market.admin BY <1>2, <3>1
    <3>4. place \in 204 .. 302 => market'.pool = market.pool BY <1>2, <3>1
    <3>5. place \in 204 .. 305 => market'.configurator = market.configurator BY <1>2, <3>1
    <3>6. place \notin {203, 205, 403, 405} /\ place \notin {404, 406} BY <1>5, <2>3
    <3> QED BY <1>1, <2>1, <3>2, <3>3, <3>4, <3>5, <3>6, UnspoiltStays
  <2> QED BY <2>2, <2>3
<1>8. place \notin {101, 502, 601} /\ DOMAIN db \subseteq DOMAIN db' BY <1>4, <1>5
<1>9. CASE Advances BY <1>6, <1>7, <1>8, <1>9, CleanKeeps
<1>10. CASE GivesUp
  <2>1. ~ (Advances \/ Stays) BY <1>10 DEF GivesUp, Advances, Stays, OnItsWay
  <2> QED BY <1>8, <1>10, <2>1, CleanKeeps
<1> QED BY <1>3, <1>9, <1>10

\* The settings of the provider, the admin's rights apart.
LEMMA SettingsClean ==
    ASSUME IInv, CleanInv, Suited(target), run'.target = run.target,
           \/ SetEmergencyAdmin \/ SetLendingPoolImpl \/ SetLendingPoolConfiguratorImpl
           \/ SetPriceOracle \/ SetLendingRateOracle
           \/ SetLendingPoolCollateralManager \/ AuthorizeLendingPool
    PROVE  CleanInv'
<1>1. PICK o : o = run.oracle OBVIOUS
<1>2. PICK q : q = market OBVIOUS
<1>3. CASE SetEmergencyAdmin
  <2>1. PICK r : r = [q EXCEPT !.emergency = TRUE] OBVIOUS
  <2>2. SetInProvider("setEmergencyAdmin", r) BY <1>2, <1>3, <2>1 DEF SetEmergencyAdmin
  <2>3. IsMarket(q) /\ Migrating /\ place = 206 BY <1>2, <2>2, TransactionAt DEF SetInProvider
  <2>4. /\ IsMarket(r) /\ r.listed = q.listed /\ r.terms = q.terms /\ r.admin = q.admin
        /\ r.pool = q.pool /\ r.configurator = q.configurator
    BY <2>1, <2>3, EmergencyChanged
  <2>5. /\ markets' = [markets EXCEPT ![m] = r] /\ Mined /\ place \in Setters
        /\ UNCHANGED <<db, registered, oracles, started>>
    BY <2>2, <2>3 DEF SetInProvider, Setters
  <2>6. /\ r.listed = market.listed /\ r.terms = market.terms
        /\ place = 205 => r.admin = Deployer
        /\ place \in {206, 303, 306, 408, 409} => r.admin = market.admin
        /\ place \in {205, 206} => r.pool = market.pool
        /\ place \in {205, 206, 303} => r.configurator = market.configurator
    BY <1>2, <2>3, <2>4
  <2> QED BY <2>3, <2>4, <2>5, <2>6, SetterClean
<1>4. CASE SetLendingPoolImpl
  <2>1. PICK r : r = [q EXCEPT !.pool = TRUE] OBVIOUS
  <2>2. SetInProvider("setLendingPoolImpl", r) BY <1>2, <1>4, <2>1 DEF SetLendingPoolImpl
  <2>3. IsMarket(q) /\ Migrating /\ place = 303 BY <1>2, <2>2, TransactionAt DEF SetInProvider
  <2>4. /\ IsMarket(r) /\ r.listed = q.listed /\ r.terms = q.terms /\ r.admin = q.admin
        /\ r.configurator = q.configurator
    BY <2>1, <2>3, PoolChanged
  <2>5. /\ markets' = [markets EXCEPT ![m] = r] /\ Mined /\ place \in Setters
        /\ UNCHANGED <<db, registered, oracles, started>>
    BY <2>2, <2>3 DEF SetInProvider, Setters
  <2>6. /\ r.listed = market.listed /\ r.terms = market.terms
        /\ place = 205 => r.admin = Deployer
        /\ place \in {206, 303, 306, 408, 409} => r.admin = market.admin
        /\ place \in {205, 206} => r.pool = market.pool
        /\ place \in {205, 206, 303} => r.configurator = market.configurator
    BY <1>2, <2>3, <2>4
  <2> QED BY <2>3, <2>4, <2>5, <2>6, SetterClean
<1>5. CASE SetLendingPoolConfiguratorImpl
  <2>1. PICK r : r = [q EXCEPT !.configurator = TRUE] OBVIOUS
  <2>2. SetInProvider("setLendingPoolConfiguratorImpl", r)
    BY <1>2, <1>5, <2>1 DEF SetLendingPoolConfiguratorImpl
  <2>3. IsMarket(q) /\ Migrating /\ place = 306 BY <1>2, <2>2, TransactionAt DEF SetInProvider
  <2>4. IsMarket(r) /\ r.listed = q.listed /\ r.terms = q.terms /\ r.admin = q.admin
    BY <2>1, <2>3, ConfiguratorChanged
  <2>5. /\ markets' = [markets EXCEPT ![m] = r] /\ Mined /\ place \in Setters
        /\ UNCHANGED <<db, registered, oracles, started>>
    BY <2>2, <2>3 DEF SetInProvider, Setters
  <2>6. /\ r.listed = market.listed /\ r.terms = market.terms
        /\ place = 205 => r.admin = Deployer
        /\ place \in {206, 303, 306, 408, 409} => r.admin = market.admin
        /\ place \in {205, 206} => r.pool = market.pool
        /\ place \in {205, 206, 303} => r.configurator = market.configurator
    BY <1>2, <2>3, <2>4
  <2> QED BY <2>3, <2>4, <2>5, <2>6, SetterClean
<1>6. CASE SetPriceOracle
  <2>1. PICK r : r = [q EXCEPT !.priceOracle = TRUE] OBVIOUS
  <2>2. SetInProvider("setPriceOracle", r) BY <1>2, <1>6, <2>1 DEF SetPriceOracle
  <2>3. IsMarket(q) /\ Migrating /\ place = 408 BY <1>2, <2>2, TransactionAt DEF SetInProvider
  <2>4. IsMarket(r) /\ r.listed = q.listed /\ r.terms = q.terms /\ r.admin = q.admin
    BY <2>1, <2>3, PriceOracleChanged
  <2>5. /\ markets' = [markets EXCEPT ![m] = r] /\ Mined /\ place \in Setters
        /\ UNCHANGED <<db, registered, oracles, started>>
    BY <2>2, <2>3 DEF SetInProvider, Setters
  <2>6. /\ r.listed = market.listed /\ r.terms = market.terms
        /\ place = 205 => r.admin = Deployer
        /\ place \in {206, 303, 306, 408, 409} => r.admin = market.admin
        /\ place \in {205, 206} => r.pool = market.pool
        /\ place \in {205, 206, 303} => r.configurator = market.configurator
    BY <1>2, <2>3, <2>4
  <2> QED BY <2>3, <2>4, <2>5, <2>6, SetterClean
<1>7. CASE SetLendingRateOracle
  <2>1. PICK r : r = [q EXCEPT !.rateOracle = o] OBVIOUS
  <2>2. SetInProvider("setLendingRateOracle", r)
    BY <1>1, <1>2, <1>7, <2>1 DEF SetLendingRateOracle
  <2>3. IsMarket(q) /\ Migrating /\ place = 409 BY <1>2, <2>2, TransactionAt DEF SetInProvider
  <2>4. IsMarket(r) /\ r.listed = q.listed /\ r.terms = q.terms /\ r.admin = q.admin
    BY <2>1, <2>3, RateOracleChanged
  <2>5. /\ markets' = [markets EXCEPT ![m] = r] /\ Mined /\ place \in Setters
        /\ UNCHANGED <<db, registered, oracles, started>>
    BY <2>2, <2>3 DEF SetInProvider, Setters
  <2>6. /\ r.listed = market.listed /\ r.terms = market.terms
        /\ place = 205 => r.admin = Deployer
        /\ place \in {206, 303, 306, 408, 409} => r.admin = market.admin
        /\ place \in {205, 206} => r.pool = market.pool
        /\ place \in {205, 206, 303} => r.configurator = market.configurator
    BY <1>2, <2>3, <2>4
  <2> QED BY <2>3, <2>4, <2>5, <2>6, SetterClean
<1>8. CASE SetLendingPoolCollateralManager
  <2>1. PICK r : r = [q EXCEPT !.manager = TRUE] OBVIOUS
  <2>2. SetInProvider("setLendingPoolCollateralManager", r)
    BY <1>2, <1>8, <2>1 DEF SetLendingPoolCollateralManager
  <2>3. IsMarket(q) /\ Migrating /\ place = 718 BY <1>2, <2>2, TransactionAt DEF SetInProvider
  <2>4. IsMarket(r) /\ r.listed = q.listed /\ r.terms = q.terms BY <2>1, <2>3, ManagerChanged
  <2>5. /\ markets' = [markets EXCEPT ![m] = r] /\ Mined /\ place \in Setters
        /\ UNCHANGED <<db, registered, oracles, started>>
    BY <2>2, <2>3 DEF SetInProvider, Setters
  <2>6. /\ r.listed = market.listed /\ r.terms = market.terms
        /\ place = 205 => r.admin = Deployer
        /\ place \in {206, 303, 306, 408, 409} => r.admin = market.admin
        /\ place \in {205, 206} => r.pool = market.pool
        /\ place \in {205, 206, 303} => r.configurator = market.configurator
    BY <1>2, <2>3, <2>4
  <2> QED BY <2>3, <2>4, <2>5, <2>6, SetterClean
<1>9. CASE AuthorizeLendingPool
  <2>1. PICK r : r = [q EXCEPT !.gateway = TRUE] OBVIOUS
  <2>2. SetInProvider("authorizeLendingPool", r)
    BY <1>2, <1>9, <2>1 DEF AuthorizeLendingPool
  <2>3. IsMarket(q) /\ Migrating /\ place = 721 BY <1>2, <2>2, TransactionAt DEF SetInProvider
  <2>4. IsMarket(r) /\ r.listed = q.listed /\ r.terms = q.terms BY <2>1, <2>3, GatewayChanged
  <2>5. /\ markets' = [markets EXCEPT ![m] = r] /\ Mined /\ place \in Setters
        /\ UNCHANGED <<db, registered, oracles, started>>
    BY <2>2, <2>3 DEF SetInProvider, Setters
  <2>6. /\ r.listed = market.listed /\ r.terms = market.terms
        /\ place = 205 => r.admin = Deployer
        /\ place \in {206, 303, 306, 408, 409} => r.admin = market.admin
        /\ place \in {205, 206} => r.pool = market.pool
        /\ place \in {205, 206, 303} => r.configurator = market.configurator
    BY <1>2, <2>3, <2>4
  <2> QED BY <2>3, <2>4, <2>5, <2>6, SetterClean
<1> QED BY <1>3, <1>4, <1>5, <1>6, <1>7, <1>8, <1>9

\* The admin's rights.
LEMMA AdminClean ==
    ASSUME IInv, CleanInv, Suited(target), run'.target = run.target,
           SetGenesisAdmin \/ SetTemporalAdmin \/ SetAdminBack
    PROVE  CleanInv'
<1>1. PICK q, h, a : q = market /\ h = helper /\ a = run.admin OBVIOUS
<1>2. CASE SetGenesisAdmin
  <2>1. PICK r : r = [q EXCEPT !.admin = Deployer] OBVIOUS
  <2>2. SetInProvider("setGenesisAdmin", r) BY <1>1, <1>2, <2>1 DEF SetGenesisAdmin
  <2>3. IsMarket(q) /\ Migrating /\ place = 205 BY <1>1, <2>2, TransactionAt DEF SetInProvider
  <2>4. /\ IsMarket(r) /\ r.listed = q.listed /\ r.terms = q.terms /\ r.admin = Deployer
        /\ r.pool = q.pool /\ r.configurator = q.configurator
    BY <2>1, <2>3, AdminChanged
  <2>5. /\ markets' = [markets EXCEPT ![m] = r] /\ Mined /\ place \in Setters
        /\ UNCHANGED <<db, registered, oracles, started>>
    BY <2>2, <2>3 DEF SetInProvider, Setters
  <2>6. /\ r.listed = market.listed /\ r.terms = market.terms
        /\ place = 205 => r.admin = Deployer
        /\ place \in {206, 303, 306, 408, 409} => r.admin = market.admin
        /\ place \in {205, 206} => r.pool = market.pool
        /\ place \in {205, 206, 303} => r.configurator = market.configurator
    BY <1>1, <2>3, <2>4
  <2> QED BY <2>3, <2>4, <2>5, <2>6, SetterClean
<1>3. CASE SetTemporalAdmin
  <2>1. PICK r : r = [q EXCEPT !.admin = h] OBVIOUS
  <2>2. SetInProvider("setTemporalAdmin", r) BY <1>1, <1>3, <2>1 DEF SetTemporalAdmin
  <2>3. IsMarket(q) /\ Migrating /\ place = 714 BY <1>1, <2>2, TransactionAt DEF SetInProvider
  <2>4. IsMarket(r) /\ r.listed = q.listed /\ r.terms = q.terms BY <2>1, <2>3, AdminChanged
  <2>5. /\ markets' = [markets EXCEPT ![m] = r] /\ Mined /\ place \in Setters
        /\ UNCHANGED <<db, registered, oracles, started>>
    BY <2>2, <2>3 DEF SetInProvider, Setters
  <2>6. /\ r.listed = market.listed /\ r.terms = market.terms
        /\ place = 205 => r.admin = Deployer
        /\ place \in {206, 303, 306, 408, 409} => r.admin = market.admin
        /\ place \in {205, 206} => r.pool = market.pool
        /\ place \in {205, 206, 303} => r.configurator = market.configurator
    BY <1>1, <2>3, <2>4
  <2> QED BY <2>3, <2>4, <2>5, <2>6, SetterClean
<1>4. CASE SetAdminBack
  <2>1. PICK r : r = [q EXCEPT !.admin = a] OBVIOUS
  <2>2. SetInProvider("setAdminBack", r) BY <1>1, <1>4, <2>1 DEF SetAdminBack
  <2>3. IsMarket(q) /\ Migrating /\ place = 716 BY <1>1, <2>2, TransactionAt DEF SetInProvider
  <2>4. IsMarket(r) /\ r.listed = q.listed /\ r.terms = q.terms BY <2>1, <2>3, AdminChanged
  <2>5. /\ markets' = [markets EXCEPT ![m] = r] /\ Mined /\ place \in Setters
        /\ UNCHANGED <<db, registered, oracles, started>>
    BY <2>2, <2>3 DEF SetInProvider, Setters
  <2>6. /\ r.listed = market.listed /\ r.terms = market.terms
        /\ place = 205 => r.admin = Deployer
        /\ place \in {206, 303, 306, 408, 409} => r.admin = market.admin
        /\ place \in {205, 206} => r.pool = market.pool
        /\ place \in {205, 206, 303} => r.configurator = market.configurator
    BY <1>1, <2>3, <2>4
  <2> QED BY <2>3, <2>4, <2>5, <2>6, SetterClean
<1> QED BY <1>2, <1>3, <1>4

\* The rate oracle goes to the helper, which sets the rates, and comes back.
LEMMA OwnerClean ==
    ASSUME IInv, CleanInv, Suited(target), Migrating, run'.target = run.target,
           place \in {405, 406, 407}, Advances \/ Stays \/ GivesUp, run'.oracle = run.oracle,
           UNCHANGED <<db, registered, markets>>,
           place = 405 => oracles'[run.oracle].owner = rateHelper,
           place = 406 => oracles'[run.oracle].owner = oracles[run.oracle].owner,
           place = 407 => oracles'[run.oracle].owner = Deployer
    PROVE  CleanInv'
<1>1. OracleShared /\ (Underway => Unspoilt) BY DEF CleanInv
<1>2. Advances => place' = place + 1 BY DEF Advances, NextPlace
<1>3. Stays => place' = place /\ place = 406
  <2>1. 405 \notin {406, 710, 715} /\ 407 \notin {406, 710, 715} OBVIOUS
  <2> QED BY <2>1 DEF Stays
<1>4. m' = m /\ rateHelper' = rateHelper /\ market' = market
  BY UnchangedBook DEF market
<1>5. Advances \/ Stays => SharedAfter
  <2> SUFFICES ASSUME Advances \/ Stays, Configured("LendingRateOracle")
               PROVE  (place' \notin {406, 407} => oracles'[1].owner = Deployer) /\ run'.oracle = 1
    BY DEF SharedAfter
  <2>1. place > 403 OBVIOUS
  <2>2. run.oracle = 1 BY <1>1, <2>1 DEF OracleShared
  <2>3. place' \notin {406, 407} => place = 407 BY <1>2, <1>3
  <2> QED BY <2>2, <2>3
<1>6. Advances \/ Stays => (run.kind = "migration" => Unspoilt')
  <2> SUFFICES ASSUME Advances \/ Stays, run.kind = "migration" PROVE Unspoilt'
    OBVIOUS
  <2>1. Unspoilt BY <1>1 DEF Migrating, Underway
  <2>2. market'.admin = Deployer /\ DOMAIN market'.listed = {}
    <3>1. place \in 206 .. 710 /\ place \in 204 .. 709 OBVIOUS
    <3>2. market.admin = Deployer BY <2>1, <3>1 DEF Unspoilt
    <3>3. DOMAIN market.listed = {} BY <2>1, <3>1 DEF Unspoilt
    <3> QED BY <1>4, <3>2, <3>3
  <2>3. place = 406 => oracles[run.oracle].owner = rateHelper BY <2>1 DEF Unspoilt
  <2>4. place' \in {406, 407} => oracles'[run'.oracle].owner = rateHelper'
    BY <1>2, <1>3, <1>4, <2>3
  <2>5. /\ place' \notin 204 .. 303 /\ place' \notin 204 .. 306
        /\ place' \notin 404 .. 405 /\ place' # 710
        /\ place' \in 406 .. 407 => place' \in {406, 407}
    BY <1>2, <1>3
  <2> QED BY <2>2, <2>4, <2>5 DEF Unspoilt
<1>7. place \notin {101, 502, 601} /\ DOMAIN db \subseteq DOMAIN db' OBVIOUS
<1> QED BY <1>5, <1>6, <1>7, CleanKeeps

\* transferOwnership, setOracleBorrowRates and setOracleOwnership.
LEMMA OracleStepsClean ==
    ASSUME IInv, CleanInv, Suited(target), run'.target = run.target,
           TransferOwnership \/ SetOracleBorrowRates \/ SetOracleOwnership
    PROVE  CleanInv'
<1>1. RunOK /\ ChainOK BY DEF IInv
<1>2. ASSUME NEW v, OwnerSet(v), Migrating, place \in {405, 407}
      PROVE  /\ Advances \/ GivesUp
             /\ run'.oracle = run.oracle /\ oracles'[run.oracle].owner = v
             /\ UNCHANGED <<db, registered, markets>>
  <2>1. (Advances \/ GivesUp) /\ run'.oracle = run.oracle
    BY <1>1, <1>2, MinedEnds DEF OwnerSet
  <2>2. oracles'[run'.oracle].owner = v BY <1>2, OwnerChanges
  <2>3. UNCHANGED <<db, registered, markets>> BY <1>2 DEF OwnerSet
  <2> QED BY <2>1, <2>2, <2>3
<1>3. CASE TransferOwnership
  <2>1. Running /\ step.do = "transferOwnership" BY <1>3 DEF TransferOwnership, At
  <2>2. Migrating /\ place = 405 BY <1>1, <2>1, OnlyInMigrations, PlacesOfSteps
  <2>3. PICK v : v = rateHelper OBVIOUS
  <2>4. OwnerSet(v) BY <1>3, <2>3 DEF TransferOwnership, OwnerSet
  <2>5. /\ Advances \/ GivesUp
        /\ run'.oracle = run.oracle /\ oracles'[run.oracle].owner = v
        /\ UNCHANGED <<db, registered, markets>>
    BY <1>2, <2>2, <2>4
  <2> QED BY <2>2, <2>3, <2>5, OwnerClean
<1>4. CASE SetOracleOwnership
  <2>1. Running /\ step.do = "setOracleOwnership" BY <1>4 DEF SetOracleOwnership, At
  <2>2. Migrating /\ place = 407 BY <1>1, <2>1, OnlyInMigrations, PlacesOfSteps
  <2>3. OwnerSet(Deployer) BY <1>4 DEF SetOracleOwnership, OwnerSet
  <2>4. /\ Advances \/ GivesUp
        /\ run'.oracle = run.oracle /\ oracles'[run.oracle].owner = Deployer
        /\ UNCHANGED <<db, registered, markets>>
    BY <1>2, <2>2, <2>3
  <2> QED BY <2>2, <2>4, OwnerClean
<1>5. CASE SetOracleBorrowRates
  <2>1. PICK o, old, array, rates :
          /\ o = run.oracle /\ old = oracles[o] /\ array = rateSymbols
          /\ rates = over([s \in symbols(array, ratesChunks) |-> config.rates[s]], old.rates)
    OBVIOUS
  <2>2. /\ Running /\ step.do = "setOracleBorrowRates"
        /\ oracles' = [oracles EXCEPT ![o].rates = rates]
        /\ MinedChunk(array, ratesChunks) /\ UNCHANGED <<db, registered, markets>>
    BY <1>5, <2>1 DEF SetOracleBorrowRates, At
  <2>3. Migrating /\ place = 406 BY <1>1, <2>2, OnlyInMigrations, PlacesOfSteps
  <2>4. o \in 1 .. Len(oracles) /\ IsOracle(old)
    <3>1. o \in 1 .. Len(oracles) BY <2>1, <2>3 DEF IInv, OracleAt
    <3> QED BY <1>1, <2>1, <3>1 DEF ChainOK, OraclesOK
  <2>5. PICK new : new = [old EXCEPT !.rates = rates] OBVIOUS
  <2>6. new.owner = old.owner BY <2>4, <2>5 DEF IsOracle
  <2>7. oracles' = [oracles EXCEPT ![o] = new] BY <2>1, <2>2, <2>5
  <2>8. oracles'[o] = new BY <1>1, <2>4, <2>7, OracleUpdated DEF Updated
  <2>9. (Advances \/ Stays \/ GivesUp) /\ run'.oracle = run.oracle
    BY <1>1, <2>2, <2>3, MinedChunkEnds
  <2>10. oracles'[run.oracle].owner = oracles[run.oracle].owner BY <2>1, <2>6, <2>8
  <2> QED BY <2>2, <2>3, <2>9, <2>10, OwnerClean
<1> QED BY <1>3, <1>4, <1>5

\* A step of the initialisation after the market was made: what it finds is its own work.
LEMMA LateClean ==
    ASSUME IInv, CleanInv, Suited(target), Migrating, run'.target = run.target,
           place \in {710, 715}, Advances \/ Stays \/ GivesUp, run'.oracle = run.oracle,
           db' = db, oracles' = oracles,
           place = 710 /\ Stays /\ run.kind = "migration" =>
               /\ market'.admin = Deployer
               /\ \A s \in DOMAIN market'.listed :
                    \E i \in 1 .. Len(run'.inputs) :
                        i <= run'.chunk * initChunks /\ run'.inputs[i] = s
    PROVE  CleanInv'
<1>1. OracleShared /\ (Underway => Unspoilt) BY DEF CleanInv
<1>2. Advances => place' = place + 1 BY DEF Advances, NextPlace
<1>3. Stays => place' = place BY DEF Stays
<1>4. Advances \/ Stays => SharedAfter
  <2> SUFFICES ASSUME Advances \/ Stays, Configured("LendingRateOracle")
               PROVE  oracles'[1].owner = Deployer /\ run'.oracle = 1
    BY DEF SharedAfter
  <2>1. place > 403 /\ place \notin {406, 407} OBVIOUS
  <2>2. oracles[1].owner = Deployer BY <1>1, <2>1 DEF OracleShared
  <2>3. run.oracle = 1 BY <1>1, <2>1 DEF OracleShared
  <2> QED BY <2>2, <2>3
<1>5. Advances \/ Stays => (run.kind = "migration" => Unspoilt')
  <2> SUFFICES ASSUME Advances \/ Stays, run.kind = "migration" PROVE Unspoilt'
    OBVIOUS
  <2>0. place' \in {710, 711, 715, 716} BY <1>2, <1>3
  <2>1. /\ place' \notin 204 .. 303 /\ place' \notin 204 .. 306 /\ place' \notin 404 .. 405
        /\ place' \notin 406 .. 407 /\ place' \notin 204 .. 709
        /\ place' \in 206 .. 710 => place' = 710
    BY <2>0
  <2>2. place' = 710 => place = 710
    BY <1>2, <1>3
  <2>3. place' = 710 => Stays BY <1>2, <2>2
  <2>4. place' = 710 => market'.admin = Deployer BY <2>2, <2>3
  <2>5. place' = 710 => \A s \in DOMAIN market'.listed :
          \E i \in 1 .. Len(run'.inputs) : i <= run'.chunk * initChunks /\ run'.inputs[i] = s
    BY <2>2, <2>3
  <2>6. place' \in 206 .. 710 => market'.admin = Deployer BY <2>1, <2>4
  <2>7. place' \in 204 .. 303 => ~ market'.pool BY <2>1
  <2>8. place' \in 204 .. 306 => ~ market'.configurator BY <2>1
  <2>9. place' \in 404 .. 405 => oracles'[run'.oracle].owner = Deployer BY <2>1
  <2>10. place' \in 406 .. 407 => oracles'[run'.oracle].owner = rateHelper' BY <2>1
  <2>11. place' \in 204 .. 709 => DOMAIN market'.listed = {} BY <2>1
  <2> QED BY <2>5, <2>6, <2>7, <2>8, <2>9, <2>10, <2>11, Zenon DEF Unspoilt
<1>6. place \notin {101, 502, 601} /\ DOMAIN db \subseteq DOMAIN db' OBVIOUS
<1> QED BY <1>4, <1>5, <1>6, CleanKeeps

\* configureReserves.
LEMMA ConfiguredClean ==
    ASSUME IInv, CleanInv, Suited(target), run'.target = run.target, ConfigureReserves
    PROVE  CleanInv'
<1>1. PICK array : array = run.inputs OBVIOUS
<1>2. /\ RunOK /\ At("configureReserves") /\ MinedChunk(array, enableChunks)
      /\ db' = db /\ oracles' = oracles
  BY <1>1 DEF ConfigureReserves, IInv
<1>3. Migrating /\ place = 715 BY <1>2, TransactionAt
<1>4. (Advances \/ Stays \/ GivesUp) /\ run'.oracle = run.oracle
  BY <1>2, <1>3, MinedChunkEnds
<1> QED BY <1>2, <1>3, <1>4, LateClean

\* batchInitReserve of a migration.
LEMMA ListedClean ==
    ASSUME IInv, CleanInv, Suited(target), Migrating, run'.target = run.target, BatchInitReserve
    PROVE  CleanInv'
<1> DEFINE syms == symbols(run.inputs, initChunks)
           old == market.listed
           new == [s \in syms |-> strategyOf(s)]
           r == [market EXCEPT !.listed = over(new, old)]
<1>1. /\ RunOK /\ ChainOK /\ BookAt /\ Running /\ step.do = "batchInitReserve"
      /\ MinedChunk(run.inputs, initChunks) /\ db' = db /\ oracles' = oracles
      /\ (Underway => Unspoilt)
  BY DEF BatchInitReserve, At, IInv, CleanInv
<1>2. place = 710 BY <1>1, PlacesOfSteps
<1>3. m \in 1 .. Len(markets) /\ m' = m BY <1>1, <1>2, MarketInUse, UnchangedBook
<1>4. configurator = m BY <1>1, <1>2 DEF BookAt, Recorded, configurator
<1>5. markets' = [markets EXCEPT ![m] = r]
  <2>1. markets' = [markets EXCEPT ![configurator].listed = over(new, @)]
    BY DEF BatchInitReserve
  <2> QED BY <1>4, <2>1 DEF market
<1>6. /\ IsMarket(market) BY <1>1, <1>3 DEF ChainOK, MarketsOK, market
<1>7. run.chunk \in Nat /\ run.inputs \in Seq(Reserves) BY <1>1, RunIs
<1>8. syms = {run.inputs[i] : i \in {j \in 1 .. Len(run.inputs) :
                 run.chunk * initChunks < j /\ j <= (run.chunk + 1) * initChunks}}
  <2>1. initChunks \in Nat \ {0} BY DEF initChunks
  <2> QED BY <1>7, <2>1, SymbolsAre
<1> HIDE DEF syms
<1>9. DOMAIN over(new, old) = syms \union DOMAIN old BY DEF over
<1> HIDE DEF new, old
<1>10. r.admin = market.admin /\ r.listed = over(new, old) BY <1>6 DEF IsMarket
<1> HIDE DEF r
<1>11. market' = r
  <2>1. PICK e, k : e = r /\ k = m OBVIOUS
  <2>2. IsSequence(markets) /\ k \in 1 .. Len(markets) /\ markets' = [markets EXCEPT ![k] = e]
    BY <1>1, <1>3, <1>5, <2>1 DEF ChainOK
  <2>3. Updated(markets, markets', k, e) BY <2>2, ExceptIs
  <2> QED BY <1>3, <2>1, <2>3 DEF Updated, market
<1>12. PICK array : array = run.inputs OBVIOUS
<1>13. MinedChunk(array, initChunks) BY <1>1, <1>12
<1>14. (Advances \/ Stays \/ GivesUp) /\ run'.oracle = run.oracle
  BY <1>1, <1>2, <1>13, MinedChunkEnds
<1>15. run'.inputs = run.inputs BY <1>1, <1>13, MinedChunkMoves DEF Moves
<1>16. ASSUME Stays, run.kind = "migration"
       PROVE  /\ market'.admin = Deployer
              /\ \A s \in DOMAIN market'.listed :
                   \E i \in 1 .. Len(run'.inputs) :
                       i <= run'.chunk * initChunks /\ run'.inputs[i] = s
  <2>1. Unspoilt BY <1>1, <1>16 DEF Underway
  <2>2. market.admin = Deployer BY <1>2, <2>1 DEF Unspoilt
  <2>3. \A s \in DOMAIN old :
          \E i \in 1 .. Len(run.inputs) : i <= run.chunk * initChunks /\ run.inputs[i] = s
    BY <1>2, <2>1 DEF Unspoilt, old
  <2>4. run'.chunk = run.chunk + 1 BY <1>16 DEF Stays
  <2>5. ASSUME NEW s \in DOMAIN market'.listed
        PROVE  \E i \in 1 .. Len(run.inputs) :
                   i <= (run.chunk + 1) * initChunks /\ run.inputs[i] = s
    <3>1. s \in syms \/ s \in DOMAIN old BY <1>9, <1>10, <1>11, <2>5
    <3>2. CASE s \in syms BY <1>8, <3>2
    <3>3. CASE s \in DOMAIN old
      <4>1. PICK i \in 1 .. Len(run.inputs) : i <= run.chunk * initChunks /\ run.inputs[i] = s
        BY <2>3, <3>3
      <4>2. i <= (run.chunk + 1) * initChunks BY <1>7, <4>1 DEF initChunks
      <4> QED BY <4>1, <4>2
    <3> QED BY <3>1, <3>2, <3>3
  <2> QED BY <1>10, <1>11, <1>15, <2>2, <2>4, <2>5
<1> QED BY <1>1, <1>2, <1>14, <1>16, LateClean

\* What was deposited is there for a task that is started again.
LEMMA DepositsWait ==
    ASSUME Deposited, RunOK, run'.target = run.target, db' = db,
           place' \in Nat, place' <= place \/ place' \in {0, 101} \/ (place' = 201 /\ target.pool # "Moola")
    PROVE  Deposited'
<1>1. target' = target /\ \A c : Configured(c)' = Configured(c) BY SameConfig
<1>2. place \in Nat
  <2>1. place \in Places BY PlaceIs
  <2> QED BY <2>1, StayCrosses
<1>3. \A c : found(c)' = found(c) BY DEF found
<1>4. Findable("WethGateway")' = Findable("WethGateway") BY <1>1, <1>3 DEF Findable
<1>5. /\ target.pool = "Moola" /\ place' > 101 => place > 101
      /\ place' > 502 => place > 502
      /\ place' > 601 => place > 601
  BY <1>2
<1>6. target.pool = "Moola" /\ place' > 101 => found(Registry)' BY <1>3, <1>5 DEF Deposited
<1>7. place' > 502 => found("AaveProtocolDataProvider")' BY <1>3, <1>5 DEF Deposited
<1>8. place' > 601 /\ target.pool \notin {"Moola", "Matic"} => Findable("WethGateway")'
  BY <1>4, <1>5 DEF Deposited
<1> QED BY <1>1, <1>6, <1>7, <1>8 DEF Deposited

\* A call that fails.
LEMMA CallFailedClean ==
    ASSUME IInv, CleanInv, Suited(target), Migrating, run'.target = run.target, CallFails
    PROVE  CleanInv'
<1>1. RunOK /\ Break /\ db' = db /\ Deposited BY DEF IInv, CallFails, CleanInv
<1>2. GivesUp BY <1>1, BreakGivesUp
<1>3. CleanMigrationsComplete' /\ ~ Underway'
  BY <1>2 DEF GivesUp, CleanMigrationsComplete, Underway, Running
<1>4. ~ Configured("LendingRateOracle") BY <1>2, SharedNeverBreaks
<1>5. target' = target /\ \A c : Configured(c)' = Configured(c) BY SameConfig
<1>6. place' \in Nat /\ place' <= place BY <1>2 DEF GivesUp, Falls, Firsts
<1>7. Deposited' BY <1>1, <1>6, DepositsWait
<1> QED BY <1>3, <1>4, <1>5, <1>7 DEF CleanInv, OracleShared

\* What a configuration that is suited has.
LEMMA SuitedHas ==
    ASSUME Suited(target)
    PROVE  /\ Configured("ProviderRegistryOwner")
           /\ target.pool # "Moola" => Configured("ProviderRegistry")
           /\ target.pool = "Matic" => Configured("WethGateway")
           /\ Configured("AaveOracle") \/ aggregatorsFound
           /\ Reserves \subseteq config.assets
           /\ \A s \in Termed : ValidTerms(reservesParams[s])
<1>1. config = ConfigOf[target] BY DEF config
<1> QED BY <1>1 DEF Suited, Configured, aggregatorsFound, Reserves, reservesParams, Termed, HasTerms

\* What a getter or a check of a migration looks for.
LEMMA FindsAre ==
    ASSUME RunOK, Migrating
    PROVE  /\ step.do = "check" => step.of = "ProviderRegistryOwner"
           /\ step.do = "find" =>
                \/ place = 202 /\ step.of = Registry
                \/ place \in {301, 401, 501, 701, 705, 711} /\ step.of = Provider
                \/ place \in {404, 704} /\ step.of = "StableAndVariableTokensHelper"
                \/ place = 702 /\ step.of = "AaveProtocolDataProvider"
                \/ place = 709 /\ step.of = "LendingPoolConfigurator"
                \/ place = 712 /\ step.of = "ATokensAndRatesHelper"
                \/ place = 720 /\ step.of = "WethGateway" /\ target.pool # "Moola"
<1>1. \A c : Find(c).of = c /\ Check(c).of = c BY DEF Find, Check, Step
<1>2. /\ step.do = "check" => place = 201
      /\ step.do = "find" =>
           place \in {202, 301, 401, 404, 501, 701, 702, 704, 705, 709, 711, 712, 720}
  BY PlacesOfSteps
<1>3. Head(run.tasks) \in MigrationTasks BY PlaceInTask
<1>4. CASE Head(run.tasks) = "address-provider-registry" BY <1>2, <1>4, RegistrySteps
<1>5. CASE Head(run.tasks) = "address-provider" BY <1>1, <1>2, <1>5, AddressProviderSteps
<1>6. CASE Head(run.tasks) = "lending-pool" BY <1>1, <1>2, <1>6, LendingPoolSteps
<1>7. CASE Head(run.tasks) = "oracles" BY <1>1, <1>2, <1>7, OracleSteps
<1>8. CASE Head(run.tasks) = "data-provider" BY <1>1, <1>2, <1>8, DataProviderSteps
<1>9. CASE Head(run.tasks) = "weth-gateway" BY <1>2, <1>9, WethGatewaySteps
<1>10. CASE Head(run.tasks) = "initialize-lending-pool"
  <2>1. /\ place \in 701 .. 721
        /\ place = 701 => step = Find(Provider)
        /\ place = 702 => step = Find("AaveProtocolDataProvider")
        /\ place = 704 => step = Find("StableAndVariableTokensHelper")
        /\ place = 705 => step = Find(Provider)
        /\ place = 709 => step = Find("LendingPoolConfigurator")
        /\ place = 711 => step = Find(Provider)
        /\ place = 712 => step = Find("ATokensAndRatesHelper")
        /\ place = 720 => step = Find("WethGateway")
        /\ place > 719 => target.pool # "Moola"
    BY <1>10, InitializeSteps
  <2>2. step.do # "check" BY <1>2, <2>1
  <2>3. step.do = "find" => place \in {701, 702, 704, 705, 709, 711, 712, 720} BY <1>2, <2>1
  <2> QED BY <1>1, <2>1, <2>2, <2>3
<1> QED BY <1>3, <1>4, <1>5, <1>6, <1>7, <1>8, <1>9, <1>10 DEF MigrationTasks

\* Every getter of a migration finds its entry, and the owner of the registry is known.
LEMMA EverythingIsFound ==
    ASSUME IInv, CleanInv, Suited(target), Migrating
    PROVE  /\ step.do = "find" => Findable(step.of)
           /\ step.do = "check" => Configured(step.of)
<1>1. RunOK /\ BookAt /\ Deposited BY DEF IInv, CleanInv
<1>2. ASSUME step.do = "find" PROVE Findable(step.of)
  <2>1. CASE place = 202 /\ step.of = Registry
    <3>1. CASE target.pool = "Moola"
      <4>1. found(Registry) BY <1>1, <2>1, <3>1 DEF Deposited
      <4> QED BY <2>1, <4>1 DEF Findable
    <3>2. CASE target.pool # "Moola"
      <4>1. Configured("ProviderRegistry") BY <3>2, SuitedHas
      <4> QED BY <2>1, <4>1 DEF Findable
    <3> QED BY <3>1, <3>2
  <2>2. CASE place \in {301, 401, 501, 701, 705, 711} /\ step.of = Provider
    <3>1. place > 203 BY <2>2
    <3>2. found(Provider) BY <1>1, <3>1 DEF BookAt
    <3> QED BY <2>2, <3>2 DEF Findable
  <2>3. CASE place \in {404, 704} /\ step.of = "StableAndVariableTokensHelper"
    <3>1. place > 308 BY <2>3
    <3>2. found("StableAndVariableTokensHelper") BY <1>1, <3>1 DEF BookAt, Recorded
    <3> QED BY <2>3, <3>2 DEF Findable
  <2>4. CASE place = 702 /\ step.of = "AaveProtocolDataProvider"
    <3>1. place > 502 BY <2>4
    <3>2. found("AaveProtocolDataProvider") BY <1>1, <3>1 DEF Deposited
    <3> QED BY <2>4, <3>2 DEF Findable
  <2>5. CASE place = 709 /\ step.of = "LendingPoolConfigurator"
    <3>1. place > 307 BY <2>5
    <3>2. found("LendingPoolConfigurator") BY <1>1, <3>1 DEF BookAt, Recorded
    <3> QED BY <2>5, <3>2 DEF Findable
  <2>6. CASE place = 712 /\ step.of = "ATokensAndRatesHelper"
    <3>1. place > 309 BY <2>6
    <3>2. found("ATokensAndRatesHelper") BY <1>1, <3>1 DEF BookAt, Recorded
    <3> QED BY <2>6, <3>2 DEF Findable
  <2>7. CASE place = 720 /\ step.of = "WethGateway" /\ target.pool # "Moola"
    <3>1. CASE target.pool = "Matic"
      <4>1. Configured("WethGateway") BY <3>1, SuitedHas
      <4> QED BY <2>7, <4>1 DEF Findable
    <3>2. CASE target.pool # "Matic"
      <4>1. place > 601 /\ target.pool \notin {"Moola", "Matic"} BY <2>7, <3>2
      <4>2. Findable("WethGateway") BY <1>1, <4>1 DEF Deposited
      <4> QED BY <2>7, <4>2
    <3> QED BY <3>1, <3>2
  <2> QED BY <1>1, <1>2, <2>1, <2>2, <2>3, <2>4, <2>5, <2>6, <2>7, FindsAre
<1>3. ASSUME step.do = "check" PROVE Configured(step.of)
  <2>1. step.of = "ProviderRegistryOwner" BY <1>1, <1>3, FindsAre
  <2>2. Configured("ProviderRegistryOwner") BY SuitedHas
  <2> QED BY <2>1, <2>2
<1> QED BY <1>2, <1>3

\* The next part of the reserves can be listed.
LEMMA CanList ==
    ASSUME IInv, CleanInv, Suited(target), Underway, place = 710
    PROVE  Listable(symbols(run.inputs, initChunks))
<1> DEFINE syms == symbols(run.inputs, initChunks)
<1>1. /\ RunOK /\ ChainOK /\ BookAt /\ ListingAt /\ Unspoilt
  BY DEF IInv, CleanInv
<1>2. configurator = m BY <1>1 DEF BookAt, Recorded, configurator
<1>3. m \in Nat \ {0} BY <1>1, MarketInUse
<1>4. market.admin = Deployer BY <1>1 DEF Unspoilt
<1>5. run.chunk \in Nat /\ run.inputs \in Seq(Reserves) BY <1>1, RunIs
<1>6. syms = {run.inputs[i] : i \in {j \in 1 .. Len(run.inputs) :
                 run.chunk * initChunks < j /\ j <= (run.chunk + 1) * initChunks}}
  <2>1. initChunks \in Nat \ {0} BY DEF initChunks
  <2> QED BY <1>5, <2>1, SymbolsAre
<1> HIDE DEF syms
<1>7. syms \subseteq config.assets
  <2>1. \A i \in 1 .. Len(run.inputs) : run.inputs[i] \in Reserves BY <1>5
  <2>2. syms \subseteq Reserves BY <1>6, <2>1
  <2> QED BY <2>2, SuitedHas
<1>8. \A i, j \in 1 .. Len(run.inputs) : run.inputs[i] = run.inputs[j] => i = j
  <2>1. run.inputs = config.order BY <1>1 DEF ListingAt
  <2>2. run.target \in Targets BY <1>1, RunIs
  <2>3. WellFormed(config) BY <2>2, ConfigOK
  <2>4. DOMAIN run.inputs = 1 .. Len(run.inputs) BY <1>5
  <2> QED BY <2>1, <2>3, <2>4 DEF WellFormed
<1>9. syms \intersect DOMAIN market.listed = {}
  <2> SUFFICES ASSUME NEW s \in syms, s \in DOMAIN market.listed PROVE FALSE
    OBVIOUS
  <2>1. PICK i \in 1 .. Len(run.inputs) : run.chunk * initChunks < i /\ run.inputs[i] = s
    BY <1>6
  <2>2. PICK j \in 1 .. Len(run.inputs) : j <= run.chunk * initChunks /\ run.inputs[j] = s
    BY <1>1 DEF Unspoilt
  <2>3. i = j BY <1>8, <2>1, <2>2
  <2> QED BY <1>5, <2>1, <2>2, <2>3 DEF initChunks
<1>10. markets[configurator] = market BY <1>2 DEF market
<1> QED BY <1>2, <1>3, <1>4, <1>7, <1>9, <1>10 DEF Listable, Implementation, syms

\* The next part of the reserves can be configured.
LEMMA CanConfigure ==
    ASSUME IInv, Suited(target), place = 715
    PROVE  Configures(symbols(run.inputs, enableChunks))
<1> DEFINE syms == symbols(run.inputs, enableChunks)
<1>1. RunOK /\ BookAt /\ ListingAt BY DEF IInv
<1>2. helper = m BY <1>1 DEF BookAt, Recorded, helper
<1>3. market.admin = m BY <1>1 DEF ListingAt
<1>4. run.chunk \in Nat /\ run.inputs \in Seq(Reserves) BY <1>1, RunIs
<1>5. syms = {run.inputs[i] : i \in {j \in 1 .. Len(run.inputs) :
                 run.chunk * enableChunks < j /\ j <= (run.chunk + 1) * enableChunks}}
  <2>1. enableChunks \in Nat \ {0} BY DEF enableChunks
  <2> QED BY <1>4, <2>1, SymbolsAre
<1> HIDE DEF syms
<1>6. \A i \in 1 .. Len(run.inputs) : run.inputs[i] \in Termed BY <1>1 DEF ListingAt
<1>7. syms \subseteq Termed BY <1>5, <1>6
<1>8. \A s \in syms : ValidTerms(reservesParams[s]) BY <1>7, SuitedHas
<1> QED BY <1>2, <1>3, <1>8 DEF Configures, market, syms

\* No step of a migration that is not a repetition throws.
LEMMA NothingThrows ==
    ASSUME IInv, CleanInv, Suited(target), Underway
    PROVE  ~ throws
<1>1. RunOK /\ Unspoilt /\ Migrating BY DEF IInv, CleanInv, Underway, Migrating
<1>2. /\ step.do = "find" => Findable(step.of)
      /\ step.do = "check" => Configured(step.of)
  BY <1>1, EverythingIsFound
<1>3. step.do = "reuse" => Configured("AaveOracle") \/ aggregatorsFound BY SuitedHas
<1>4. step.do = "setLendingPoolImpl" => ~ market.pool
  <2>1. step.do = "setLendingPoolImpl" => place \in 204 .. 303 BY <1>1, PlacesOfSteps
  <2> QED BY <1>1, <2>1 DEF Unspoilt
<1>5. step.do = "setLendingPoolConfiguratorImpl" => ~ market.configurator
  <2>1. step.do = "setLendingPoolConfiguratorImpl" => place \in 204 .. 306
    BY <1>1, PlacesOfSteps
  <2> QED BY <1>1, <2>1 DEF Unspoilt
<1>6. step.do = "transferOwnership" => oracles[run.oracle].owner = Deployer
  <2>1. step.do = "transferOwnership" => place \in 404 .. 405 BY <1>1, PlacesOfSteps
  <2> QED BY <1>1, <2>1 DEF Unspoilt
<1>7. step.do \in {"setOracleBorrowRates", "setOracleOwnership"} =>
        oracles[run.oracle].owner = rateHelper
  <2>1. step.do \in {"setOracleBorrowRates", "setOracleOwnership"} => place \in 406 .. 407
    BY <1>1, PlacesOfSteps
  <2> QED BY <1>1, <2>1 DEF Unspoilt
<1>8. step.do = "batchInitReserve" => Listable(symbols(run.inputs, initChunks))
  BY <1>1, PlacesOfSteps, CanList
<1>9. step.do = "configureReserves" => Configures(symbols(run.inputs, enableChunks))
  BY <1>1, PlacesOfSteps, CanConfigure
<1> QED BY <1>2, <1>3, <1>4, <1>5, <1>6, <1>7, <1>8, <1>9 DEF throws

\* A repetition that throws: nothing is said of it, and the oracle is not shared.
LEMMA ThrownClean ==
    ASSUME IInv, CleanInv, Suited(target), run'.target = run.target, Throws
    PROVE  CleanInv'
<1>1. /\ RunOK /\ Running /\ throws /\ run' = failed(run) /\ db' = db /\ Deposited /\ OracleShared
  BY DEF Throws, IInv, CleanInv
<1>2. run.kind # "migration" BY <1>1, NothingThrows DEF Underway
<1>3. IsRecord(run) BY <1>1, RunIsRecord
<1>4. run'.status = "failed" /\ run'.kind = run.kind
  BY <1>1, <1>3 DEF failed, IsRecord
<1>5. CleanMigrationsComplete' /\ ~ Underway'
  BY <1>2, <1>4 DEF CleanMigrationsComplete, Underway, Running
<1>6. ~ Configured("LendingRateOracle")
  <2>1. run.kind # "" BY <1>1 DEF RunOK, Running
  <2> QED BY <1>1, <1>2, <2>1 DEF OracleShared
<1>7. target' = target /\ \A c : Configured(c)' = Configured(c) BY SameConfig
<1>8. Deposited'
  <2>1. run' = [failed(run) EXCEPT !.clean = run.clean]
    BY <1>1, <1>3 DEF failed, IsRecord
  <2>2. run.clean \in BOOLEAN BY <1>1 DEF RunOK, IsRun
  <2>3. run.kind = "tokens" => place' = 0 BY <1>1, <2>1, <2>2, Fails
  <2>4. run.kind # "tokens" => Falls BY <1>1, <2>1, <2>2, FailMoves
  <2>5. place' \in Nat /\ (place' <= place \/ place' \in {0, 101})
    BY <2>3, <2>4 DEF Falls, Firsts
  <2> QED BY <1>1, <2>5, DepositsWait
<1> QED BY <1>5, <1>6, <1>7, <1>8 DEF CleanInv, OracleShared

\* A process that fills in reserves is no migration, and the rate oracle is its own.
LEMMA TokensClean ==
    ASSUME CleanInv, Suited(target), RunOK, run'.target = run.target, Running,
           run.kind = "tokens", run'.kind = run.kind
    PROVE  CleanInv'
<1>1. OracleShared BY DEF CleanInv
<1>2. ~ Configured("LendingRateOracle") BY <1>1 DEF OracleShared
<1>3. target' = target /\ \A c : Configured(c)' = Configured(c) BY SameConfig
<1>4. place' = 0 BY DEF place, placeOf
<1>5. CleanMigrationsComplete' /\ ~ Underway' BY DEF CleanMigrationsComplete, Underway
<1>6. Deposited' BY <1>4 DEF Deposited
<1> QED BY <1>2, <1>3, <1>5, <1>6 DEF CleanInv, OracleShared

\* The steps of such a process go on with it.
LEMMA TokensGoOn ==
    ASSUME IInv, Running, run.kind = "tokens",
           \/ FindStep \/ ReadStep \/ DeployStep \/ BatchInitReserve \/ NothingToInit
           \/ CallFails
    PROVE  run'.kind = run.kind
<1>1. RunOK BY DEF IInv
<1>2. /\ \A c : Find(c).do = "find" /\ Deploy(c).do = "deploy" /\ Read(c).do = "read"
      /\ \A c : Tx(c).do = c /\ Read(c).of = c /\ Deploy(c).of = c
  BY DEF Find, Read, Deploy, Tx, Step
<1>3. run.pc \in {1, 2, 3, 4, 5, 6} BY <1>1, StepsOfTokens
<1>4. CASE FindStep \/ NothingToInit
  BY <1>1, <1>4, ContinueMoves DEF FindStep, NothingToInit, Moves
<1>5. CASE ReadStep
  <2>1. step.do = "read" BY <1>5 DEF ReadStep, At
  <2>2. step = Read("uninitialised") BY <1>1, <1>2, <1>3, <2>1, StepsOfTokens
  <2>3. step.of = "uninitialised" BY <1>2, <2>2
  <2>4. Continue([run EXCEPT !.inputs = uninitialised]) BY <1>5, <2>3 DEF ReadStep
  <2>5. PICK v : v = uninitialised OBVIOUS
  <2>6. v \in Seq(Reserves) BY <1>1, <2>5, UninitialisedAre
  <2>7. Continue(RunWith(run.oracle, run.admin, v)) BY <1>1, <2>4, <2>5, RunWithExcept
  <2>8. run.oracle \in Nat BY <1>1, RunIs
  <2> QED BY <1>1, <2>6, <2>7, <2>8, ReadsOn
<1>6. CASE DeployStep
  <2>1. MustDeploy(step)
        /\ Continue(IF step.of = "LendingRateOracle" THEN [run EXCEPT !.oracle = Len(oracles')]
                    ELSE run)
    BY <1>6 DEF DeployStep
  <2>2. step.do \in {"deploy", "reuse"} BY <2>1 DEF MustDeploy
  <2>3. step = Deploy("DefaultReserveInterestRateStrategy")
    BY <1>1, <1>2, <1>3, <2>2, StepsOfTokens
  <2>4. step.of # "LendingRateOracle" BY <1>2, <2>3
  <2>5. Continue(run) BY <2>1, <2>4
  <2> QED BY <1>1, <2>5, ContinueMoves DEF Moves
<1>7. CASE BatchInitReserve
  <2>1. PICK array : array = run.inputs OBVIOUS
  <2>2. MinedChunk(array, initChunks) BY <1>7, <2>1 DEF BatchInitReserve
  <2> QED BY <1>1, <2>2, MinedChunkMoves DEF Moves
<1>8. CASE CallFails BY <1>1, <1>8, BreakMoves DEF CallFails, Moves
<1> QED BY <1>4, <1>5, <1>6, <1>7, <1>8

\* A new migration makes its market anew.
LEMMA StartedClean ==
    ASSUME IInv, CleanInv, Suited(target), run'.target = run.target, StartMigration
    PROVE  CleanInv'
<1>1. /\ RunOK /\ ~ Running /\ Begin("migration", migration) /\ UNCHANGED <<db, chain>>
      /\ Deposited /\ OracleShared
  BY DEF StartMigration, Begin, IInv, CleanInv
<1>2. PICK tasks : tasks = migration OBVIOUS
<1>3. /\ InOrder(tasks, target.pool)
      /\ Head(tasks) \in {"address-provider-registry", "address-provider"}
  BY <1>2, MigrationInOrder
<1>4. target.pool = "Moola" => Head(tasks) = "address-provider-registry"
  BY <1>2 DEF migration, moolaMigration
<1>5. Begin("migration", tasks) BY <1>1, <1>2
<1>6. place' = Rank(Head(tasks)) + 1 BY <1>1, <1>3, <1>5, BeginsMigration
<1>7. place' \in {101, 201} /\ (target.pool = "Moola" => place' = 101)
  BY <1>3, <1>4, <1>6 DEF Rank
<1>8. run'.status = "running" /\ run'.kind = "migration" BY <1>1, <1>5, Begins
<1>9. target' = target /\ \A c : Configured(c)' = Configured(c) BY SameConfig
<1>10. Deposited' BY <1>1, <1>7, DepositsWait
<1>11. CleanMigrationsComplete' BY <1>8 DEF CleanMigrationsComplete
<1>12. Unspoilt'
  <2>1. /\ place' \notin 204 .. 303 /\ place' \notin 204 .. 306 /\ place' \notin 404 .. 405
        /\ place' \notin 406 .. 407 /\ place' \notin 206 .. 710 /\ place' \notin 204 .. 709
        /\ place' # 710
    BY <1>7
  <2> QED BY <2>1 DEF Unspoilt
<1>13. OracleShared'
  <2> SUFFICES ASSUME Configured("LendingRateOracle") PROVE oracles'[1].owner = Deployer
    BY <1>7, <1>8, <1>9 DEF OracleShared
  <2>1. place \notin {406, 407}
    <3>1. place = 0 \/ place \in Firsts \union {Finished} BY <1>1, PlaceIs
    <3> QED BY <3>1 DEF Firsts, Finished
  <2>2. oracles[1].owner = Deployer BY <1>1, <2>1 DEF OracleShared
  <2> QED BY <1>1, <2>2 DEF chain
<1> QED BY <1>9, <1>10, <1>11, <1>12, <1>13 DEF CleanInv

\* After a failure nothing is said of what the operator starts next.
LEMMA RestartedClean ==
    ASSUME IInv, CleanInv, Suited(target), run'.target = run.target, Repeat \/ InitializeTokens
    PROVE  CleanInv'
<1>1. RunOK /\ run.status = "failed" /\ db' = db /\ Deposited /\ OracleShared
  BY DEF Repeat, InitializeTokens, Begin, IInv, CleanInv
<1>2. ~ Configured("LendingRateOracle") BY <1>1 DEF OracleShared
<1>3. target' = target /\ \A c : Configured(c)' = Configured(c) BY SameConfig
<1>4. run'.status = "running" /\ run'.kind \in {"repeat", "tokens"} /\ place' \in Nat
      /\ (place' <= place \/ place' = 0)
  <2>1. CASE Repeat
    <3>1. PICK tasks : tasks = run.tasks OBVIOUS
    <3>2. Begin("repeat", tasks) /\ run.kind # "tokens" BY <2>1, <3>1 DEF Repeat
    <3>3. run'.status = "running" /\ run'.kind = "repeat" /\ run'.tasks = tasks /\ run'.pc = 1
      BY <1>1, <3>2, Begins
    <3>4. place' = place BY <1>1, <3>1, <3>2, <3>3 DEF place, placeOf
    <3>5. place \in Nat
      <4>1. place \in Places BY <1>1, PlaceIs
      <4> QED BY <4>1, StayCrosses
    <3> QED BY <3>3, <3>4, <3>5
  <2>2. CASE InitializeTokens
    <3>1. PICK tasks : tasks = <<"initialize-tokens">> OBVIOUS
    <3>2. Begin("tokens", tasks) BY <2>2, <3>1 DEF InitializeTokens
    <3>3. run'.status = "running" /\ run'.kind = "tokens" BY <1>1, <3>2, Begins
    <3>4. place' = 0 BY <3>3 DEF place, placeOf
    <3> QED BY <3>3, <3>4
  <2> QED BY <2>1, <2>2
<1>5. Deposited' BY <1>1, <1>4, DepositsWait
<1>6. CleanMigrationsComplete' /\ ~ Underway'
  BY <1>4 DEF CleanMigrationsComplete, Underway
<1> QED BY <1>2, <1>3, <1>5, <1>6 DEF CleanInv, OracleShared

\* At first nothing has been started.
LEMMA CleanAtFirst ==
    ASSUME Init
    PROVE  CleanInv
<1>1. IInv BY AtFirst
<1>2. PICK t \in Targets :
        run = [status |-> "idle", kind |-> "", tasks |-> <<>>, pc |-> 1, chunk |-> 0,
               oracle |-> 0, admin |-> NoOne, inputs |-> <<>>, clean |-> TRUE, target |-> t]
  BY DEF Init
<1>3. run.status = "idle" /\ run.kind = "" BY <1>2
<1>4. place = 0 BY <1>3 DEF place, placeOf
<1>5. CleanMigrationsComplete /\ ~ Underway
  BY <1>3 DEF CleanMigrationsComplete, Underway, Running
<1>6. Deposited BY <1>4 DEF Deposited
<1>7. Configured("LendingRateOracle") => oracles[1].owner = Deployer
  <2> DEFINE o == [owner |-> Deployer, rates |-> <<>>]
  <2>1. o.owner = Deployer OBVIOUS
  <2>2. Configured("LendingRateOracle") => oracles = <<o>> BY DEF Init
  <2> HIDE DEF o
  <2> QED BY <2>1, <2>2
<1>8. OracleShared
  <2>1. run.status # "failed" /\ run.kind \in {"", "migration"} BY <1>3
  <2>2. ~ (place > 403)
    <3>1. ~ (0 > 403) OBVIOUS
    <3> QED BY <1>4, <3>1
  <2> QED BY <1>7, <2>1, <2>2 DEF OracleShared
<1> QED BY <1>5, <1>6, <1>8 DEF CleanInv

\* A step of something else.
LEMMA StutteredClean ==
    ASSUME CleanInv, UNCHANGED vars
    PROVE  CleanInv'
<1>1. run' = run /\ db' = db /\ markets' = markets /\ oracles' = oracles BY DEF vars, chain
<1>2. place' = place /\ m' = m /\ rateHelper' = rateHelper
  BY <1>1 DEF place, m, rateHelper
<1>3. market' = market BY <1>1, <1>2 DEF market
<1>4. target' = target /\ \A c : Configured(c)' = Configured(c) BY <1>1, SameConfig
<1>5. \A c : found(c)' = found(c) BY <1>1 DEF found
<1>6. Findable("WethGateway")' = Findable("WethGateway") BY <1>4, <1>5 DEF Findable
<1> SUFFICES ASSUME Suited(target)
             PROVE  CleanMigrationsComplete' /\ Deposited' /\ (Underway' => Unspoilt') /\ OracleShared'
  BY <1>4 DEF CleanInv
<1>7. CleanMigrationsComplete /\ Deposited /\ (Underway => Unspoilt) /\ OracleShared
  BY DEF CleanInv
<1>8. CleanMigrationsComplete' /\ (Underway' = Underway)
  BY <1>1, <1>7 DEF CleanMigrationsComplete, Underway, Running
<1>9. Deposited' BY <1>2, <1>4, <1>5, <1>6, <1>7 DEF Deposited
<1>10. Unspoilt' = Unspoilt BY <1>1, <1>2, <1>3 DEF Unspoilt
<1>11. OracleShared' BY <1>1, <1>2, <1>4, <1>7 DEF OracleShared
<1> QED BY <1>7, <1>8, <1>9, <1>10, <1>11

\* The steps that a migration and the filling in of reserves have in common.
LEMMA CommonStepsClean ==
    ASSUME IInv, CleanInv, Suited(target), run'.target = run.target,
           \/ FindStep \/ ReadStep \/ DeployStep \/ BatchInitReserve \/ NothingToInit
           \/ CallFails
    PROVE  CleanInv'
<1>1. RunOK /\ Running
  BY DEF IInv, FindStep, ReadStep, DeployStep, BatchInitReserve, NothingToInit, CallFails, At
<1>2. CASE run.kind = "tokens" BY <1>1, <1>2, TokensGoOn, TokensClean
<1>3. CASE run.kind # "tokens"
  <2>1. Migrating /\ place # 0 BY <1>1, <1>3, MigrationIsSomewhere DEF Migrating
  <2>2. CASE FindStep BY <2>1, <2>2, FoundClean
  <2>3. CASE ReadStep BY <2>1, <2>3, ReadClean
  <2>4. CASE DeployStep BY <2>1, <2>4, ContractClean, ProviderClean, OracleClean
  <2>5. CASE BatchInitReserve BY <2>1, <2>5, ListedClean
  <2>6. CASE NothingToInit BY <2>1, <2>6, NothingInitialised
  <2>7. CASE CallFails BY <2>1, <2>7, CallFailedClean
  <2> QED BY <2>2, <2>3, <2>4, <2>5, <2>6, <2>7
<1> QED BY <1>2, <1>3

\* The steps of migrations that change no market.
LEMMA MigrationStepsClean ==
    ASSUME IInv, CleanInv, Suited(target), run'.target = run.target,
           ReuseStep \/ InsertStep \/ CheckStep \/ RegisterAddressesProvider
    PROVE  CleanInv'
<1>1. RunOK /\ Running /\ step.do \in {"reuse", "insert", "check", "registerAddressesProvider"}
  BY DEF IInv, ReuseStep, InsertStep, CheckStep, RegisterAddressesProvider, At
<1>2. Migrating BY <1>1, OnlyInMigrations
<1>3. CASE ReuseStep BY <1>2, <1>3, ReusedClean, OracleReusedClean
<1>4. CASE InsertStep BY <1>2, <1>4, InsertedClean
<1>5. CASE CheckStep BY <1>2, <1>5, CheckedClean
<1>6. CASE RegisterAddressesProvider BY <1>2, <1>6, RegisteredClean
<1> QED BY <1>3, <1>4, <1>5, <1>6

\* Every step keeps the invariant.
LEMMA CleanAtEachStep ==
    ASSUME IInv, CleanInv, [Next]_vars
    PROVE  CleanInv'
<1>1. CASE UNCHANGED vars BY <1>1, StutteredClean
<1>2. CASE Next
  <2>1. run'.target = run.target BY <1>2, TargetStays
  <2>2. CASE ~ Suited(target)
    <3>1. target' = target BY <2>1, SameConfig
    <3> QED BY <2>2, <3>1 DEF CleanInv
  <2>3. CASE Suited(target)
    <3>1. CASE StartMigration BY <2>1, <2>3, <3>1, StartedClean
    <3>2. CASE Repeat \/ InitializeTokens BY <2>1, <2>3, <3>2, RestartedClean
    <3>3. CASE FindStep \/ ReadStep \/ DeployStep \/ BatchInitReserve \/ NothingToInit \/ CallFails
      BY <2>1, <2>3, <3>3, CommonStepsClean
    <3>4. CASE ReuseStep \/ InsertStep \/ CheckStep \/ RegisterAddressesProvider
      BY <2>1, <2>3, <3>4, MigrationStepsClean
    <3>5. CASE SetEmergencyAdmin \/ SetLendingPoolImpl \/ SetLendingPoolConfiguratorImpl
               \/ SetPriceOracle \/ SetLendingRateOracle
               \/ SetLendingPoolCollateralManager \/ AuthorizeLendingPool
      BY <2>1, <2>3, <3>5, SettingsClean
    <3>6. CASE SetGenesisAdmin \/ SetTemporalAdmin \/ SetAdminBack
      BY <2>1, <2>3, <3>6, AdminClean
    <3>7. CASE TransferOwnership \/ SetOracleBorrowRates \/ SetOracleOwnership
      BY <2>1, <2>3, <3>7, OracleStepsClean
    <3>8. CASE ConfigureReserves BY <2>1, <2>3, <3>8, ConfiguredClean
    <3>9. CASE Throws BY <2>1, <2>3, <3>9, ThrownClean
    <3> QED BY <1>2, <3>1, <3>2, <3>3, <3>4, <3>5, <3>6, <3>7, <3>8, <3>9 DEF Next
  <2> QED BY <2>2, <2>3
<1> QED BY <1>1, <1>2

\* With a configuration that has all the tasks ask for, a migration that met no failing
\* call runs to its end, whatever earlier and interrupted migrations left in the address
\* book and on the chain.
THEOREM CleanMigrationsAreComplete == Spec => [](Suited(target) => CleanMigrationsComplete)
<1>1. Init => CleanInv BY CleanAtFirst
<1>2. IInv /\ CleanInv /\ [Next]_vars => CleanInv' BY CleanAtEachStep
<1>3. CleanInv => (Suited(target) => CleanMigrationsComplete) BY DEF CleanInv
<1> QED BY <1>1, <1>2, <1>3, DeploymentInvariant, PTL DEF Spec
=============================================================================
