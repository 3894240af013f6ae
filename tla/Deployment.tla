------------------------------- MODULE Deployment -----------------------------
(* The deployment of a market (tasks/migrations, tasks/full, tasks/misc and the *)
(* helpers they call): each task is a program of deployments, address-book      *)
(* entries and transactions of one deployer.  A call may fail and a transaction *)
(* may be mined although its answer is lost; the process then ends, and the     *)
(* operator starts a new migration, repeats from the failed task on, or fills   *)
(* in the missing reserves.  The address book (a JSON file) outlives the        *)
(* process.                                                                     *)
EXTENDS MarketConfigs

CONSTANT Targets   \* what may be deployed: records with a pool (the configuration),
                   \* a network, the choices of the operator, and the bounds on the
                   \* migrations started and the calls that fail

VARIABLES db,          \* the address book: the last address of each contract
          registered,  \* the providers in each registry
          markets,     \* the deployed addresses providers, with their markets
          oracles,     \* the lending rate oracles
          run,         \* the operator's process and its target
          started,     \* migrations started
          faults

chain == <<registered, markets, oracles>>
vars == <<db, chain, run, started, faults>>

ConfigOf == [t \in Targets |-> loadPoolConfig(t.pool, t.network)]
target == run.target
config == ConfigOf[target]
Configured(contract) == contract \in config.contracts
reservesParams == config.reserves
Reserves == DOMAIN reservesParams
HasTerms(s) == reservesParams[s].ltv # -1

\* The contracts the address book names; a strategy is entered under its own name.
Contracts ==
    {"LendingPoolAddressesProviderRegistry", "LendingPoolAddressesProvider", "LendingPool",
     "LendingPoolConfigurator", "StableAndVariableTokensHelper", "ATokensAndRatesHelper",
     "AaveOracle", "LendingRateOracle", "AaveProtocolDataProvider", "WethGateway",
     "TokenImplementations", "Strategies", "LendingPoolCollateralManager",
     "WalletBalanceProvider", "DefaultReserveInterestRateStrategy"}

\* The order of listing has every reserve once; a strategy's name stands for its
\* rates and for no contract.
WellFormed(c) ==
    /\ c.order \in Seq(DOMAIN c.reserves) \ {<<>>}
    /\ \A i, j \in DOMAIN c.order : c.order[i] = c.order[j] => i = j
    /\ \A s \in DOMAIN c.reserves : \E i \in DOMAIN c.order : c.order[i] = s
    /\ \A s \in DOMAIN c.reserves : c.reserves[s].strategy.name \notin Contracts
    /\ \A s, z \in DOMAIN c.reserves :
         c.reserves[s].strategy.name = c.reserves[z].strategy.name =>
             c.reserves[s].strategy.rates = c.reserves[z].strategy.rates

ASSUME TargetsAssumption ==
    \A t \in Targets : t.migrations \in Nat /\ t.faults \in Nat /\ WellFormed(ConfigOf[t])

\* Numbers stand for addresses: a market is its provider's, a helper is the
\* market it was deployed for, an oracle or a registry its place in the order of
\* deployment.  0 is the deployer (the genesis admin) as an owner, an
\* implementation instead of a proxy in the address book, and a contract of
\* the configuration elsewhere.
Deployer == 0
Implementation == 0
NoOne == -1

initChunks == 4
enableChunks == 20
ratesChunks == 20

NewMarket ==
    [admin |-> NoOne, emergency |-> FALSE, pool |-> FALSE, configurator |-> FALSE,
     priceOracle |-> FALSE, rateOracle |-> 0, manager |-> FALSE, gateway |-> FALSE,
     listed |-> <<>>, terms |-> <<>>]

-----------------------------------------------------------------------------
(* The programs. *)

Step(do, of) == [do |-> do, of |-> of]
Find(c)   == Step("find", c)     \* a getter: the configuration's address or the book's
Check(c)  == Step("check", c)
Read(f)   == Step("read", f)
Deploy(c) == Step("deploy", c)   \* withSaveAndVerify: deploy, then write the book
Reuse(c)  == Step("reuse", c)    \* deployed unless the configuration names it
Insert(c) == Step("insert", c)   \* insertContractAddressInDb of the proxy
Tx(f)     == Step(f, "")         \* waitForTx(await contract.f(...))

Provider == "LendingPoolAddressesProvider"
Registry == "LendingPoolAddressesProviderRegistry"

deployAddressProviderRegistry == <<Deploy(Registry)>>

deployAddressProvider ==
    <<Check("ProviderRegistryOwner"), Find(Registry), Deploy(Provider),
      Tx("registerAddressesProvider"), Tx("setGenesisAdmin"), Tx("setEmergencyAdmin")>>

\* Fault: the address book keeps the configurator's implementation.
deployLendingPoolUnrecorded ==
    <<Find(Provider), Reuse("LendingPool"), Tx("setLendingPoolImpl"), Insert("LendingPool"),
      Reuse("LendingPoolConfigurator"), Tx("setLendingPoolConfiguratorImpl"),
      Deploy("StableAndVariableTokensHelper"), Deploy("ATokensAndRatesHelper")>>

deployLendingPool ==
    <<Find(Provider), Reuse("LendingPool"), Tx("setLendingPoolImpl"), Insert("LendingPool"),
      Reuse("LendingPoolConfigurator"), Tx("setLendingPoolConfiguratorImpl"),
      Insert("LendingPoolConfigurator"),
      Deploy("StableAndVariableTokensHelper"), Deploy("ATokensAndRatesHelper")>>

setInitialMarketRatesInRatesOracleByHelper ==
    <<Find("StableAndVariableTokensHelper"), Tx("transferOwnership"),
      Tx("setOracleBorrowRates"), Tx("setOracleOwnership")>>

deployOracles ==
    <<Find(Provider), Reuse("AaveOracle"), Reuse("LendingRateOracle")>>
        \o setInitialMarketRatesInRatesOracleByHelper
        \o <<Tx("setPriceOracle"), Tx("setLendingRateOracle")>>

dataProvider == <<Find(Provider), Deploy("AaveProtocolDataProvider")>>

deployWethGateway == <<Reuse("WethGateway")>>

initReservesByHelper ==
    <<Find("StableAndVariableTokensHelper"), Find(Provider), Deploy("TokenImplementations"),
      Deploy("Strategies"), Read("reserves"), Find("LendingPoolConfigurator"),
      Tx("batchInitReserve")>>

configureReservesByHelper ==
    <<Find(Provider), Find("ATokensAndRatesHelper"), Read("unconfigured"),
      Tx("setTemporalAdmin"), Tx("configureReserves"), Tx("setAdminBack")>>

\* Fault: the reserves are configured before they are all listed.
configureBeforeInit ==
    <<Find(Provider), Find("AaveProtocolDataProvider"), Read("poolAdmin")>>
        \o configureReservesByHelper \o initReservesByHelper

\* The gateway is not authorised on the Celo networks.
initializeLendingPool ==
    <<Find(Provider), Find("AaveProtocolDataProvider"), Read("poolAdmin")>>
        \o initReservesByHelper \o configureReservesByHelper
        \o <<Reuse("LendingPoolCollateralManager"), Tx("setLendingPoolCollateralManager"),
             Deploy("WalletBalanceProvider")>>
        \o IF target.pool = "Moola" THEN <<>> ELSE <<Find("WethGateway"), Tx("authorizeLendingPool")>>

\* full:initialize-tokens, initTokenReservesByHelper: only what is not listed yet.
initializeTokens ==
    <<Find(Registry), Find("AaveProtocolDataProvider"), Read("uninitialised"),
      Deploy("DefaultReserveInterestRateStrategy"), Find("LendingPoolConfigurator"), Tx("batchInitReserve")>>

Task(t) ==
    CASE t = "address-provider-registry" -> deployAddressProviderRegistry
      [] t = "address-provider" -> deployAddressProvider
      [] t = "lending-pool" -> deployLendingPool
      [] t = "oracles" -> deployOracles
      [] t = "data-provider" -> dataProvider
      [] t = "weth-gateway" -> deployWethGateway
      [] t = "initialize-lending-pool" -> initializeLendingPool
      [] t = "initialize-tokens" -> initializeTokens

\* The migrations moola:celo (and moola:alfajores), matic:mainnet, and
\* aave:mainnet and amm:mainnet.
moolaMigration ==
    <<"address-provider-registry", "address-provider", "lending-pool", "oracles",
      "data-provider", "initialize-lending-pool">>
maticMigration ==
    <<"address-provider", "lending-pool", "oracles", "data-provider", "initialize-lending-pool">>
mainnetMigration ==
    <<"address-provider", "lending-pool", "oracles", "data-provider", "weth-gateway",
      "initialize-lending-pool">>

migration ==
    CASE target.pool = "Moola" -> moolaMigration
      [] target.pool = "Matic" -> maticMigration
      [] OTHER -> mainnetMigration

-----------------------------------------------------------------------------
(* The process. *)

Running == run.status = "running"
program == Task(Head(run.tasks))
step == program[run.pc]
At(f) == Running /\ step.do = f

proceed(r) ==
    IF r.pc < Len(Task(Head(r.tasks))) THEN [r EXCEPT !.pc = @ + 1, !.chunk = 0]
    ELSE IF Len(r.tasks) > 1 THEN [r EXCEPT !.tasks = Tail(@), !.pc = 1, !.chunk = 0]
    ELSE [r EXCEPT !.status = "done", !.chunk = 0]

failed(r) == [r EXCEPT !.status = "failed", !.chunk = 0]

Continue(r) == run' = proceed(r) /\ UNCHANGED faults

\* The call fails, or its answer does not arrive.
Break ==
    /\ faults < target.faults
    /\ faults' = faults + 1
    /\ run' = [failed(run) EXCEPT !.clean = FALSE]

\* A transaction was mined.
Mined == Continue(run) \/ Break

\* What TLC's @@ and SelectSeq compute, in a form that can be reasoned about: a
\* function changed where the new one is defined, and the elements of an array that
\* are in a set, in their order.
over(new, old) ==
    [x \in DOMAIN new \union DOMAIN old |-> IF x \in DOMAIN new THEN new[x] ELSE old[x]]
keep(array, S) ==
    LET upTo[i \in 0 .. Len(array)] ==
            IF i = 0 THEN <<>>
            ELSE IF array[i] \in S THEN Append(upTo[i - 1], array[i]) ELSE upTo[i - 1]
    IN  upTo[Len(array)]

\* Fault: the last element of a full chunk is lost.
shortChunk(array, size, k) ==
    SubSeq(array, k * size + 1, IF (k + 1) * size < Len(array) THEN (k + 1) * size - 1 ELSE Len(array))

\* chunk(array, size) of misc-utils: the k-th part, from 0.
chunk(array, size, k) ==
    SubSeq(array, k * size + 1, IF (k + 1) * size < Len(array) THEN (k + 1) * size ELSE Len(array))

\* One pass of a loop over the chunks.
MinedChunk(array, size) ==
    \/ /\ (run.chunk + 1) * size < Len(array)
       /\ run' = [run EXCEPT !.chunk = @ + 1]
       /\ UNCHANGED faults
    \/ /\ (run.chunk + 1) * size >= Len(array)
       /\ Continue(run)
    \/ Break

symbols(array, size) ==
    LET part == chunk(array, size, run.chunk) IN {part[i] : i \in DOMAIN part}

found(c) == c \in DOMAIN db

\* A getter reads the address book, of two contracts the configuration first.
Findable(c) ==
    \/ found(c)
    \/ c = Registry /\ Configured("ProviderRegistry")
    \/ c = "WethGateway" /\ Configured(c)

m == db[Provider]
market == markets[m]
rateHelper == db["StableAndVariableTokensHelper"]
helper == db["ATokensAndRatesHelper"]
configurator == db["LendingPoolConfigurator"]

\* getLendingRateOracles: the rates of the assets that have an address.
rateSymbols == keep(config.order, {s \in config.assets : s \in DOMAIN config.rates})

-----------------------------------------------------------------------------
(* Deployments. *)

\* initReservesByHelper deploys one strategy for each name, with the rates of the
\* first reserve that uses it.
strategyNames(syms) == {reservesParams[s].strategy.name : s \in syms}
firstWith(name) ==
    LET at == {i \in DOMAIN config.order : reservesParams[config.order[i]].strategy.name = name}
    IN  config.order[CHOOSE i \in at : \A j \in at : i <= j]
strategies(names, provider) ==
    [n \in names |-> [rates |-> reservesParams[firstWith(n)].strategy.rates, provider |-> provider]]

\* getPairsTokenAggregator: every asset but WETH and CELO needs an aggregator.
aggregatorsFound == config.assets \ {"WETH", "CELO"} \subseteq config.aggregators

inBook(names) == over(names, db)
entry(c, address) == [x \in {c} |-> address]

\* The contract and what the address book says of it.
DeployContract(c) ==
    CASE c = Provider ->
            /\ markets' = Append(markets, NewMarket)
            /\ db' = inBook(entry(c, Len(markets')))
            /\ UNCHANGED <<registered, oracles>>
      [] c = Registry ->
            /\ registered' = Append(registered, {})
            /\ db' = inBook(entry(c, Len(registered')))
            /\ UNCHANGED <<markets, oracles>>
      [] c = "LendingRateOracle" ->
            /\ oracles' = Append(oracles, [owner |-> Deployer, rates |-> <<>>])
            /\ db' = inBook(entry(c, Len(oracles')))
            /\ UNCHANGED <<registered, markets>>
      [] c \in {"LendingPool", "LendingPoolConfigurator"} ->
            db' = inBook(entry(c, Implementation)) /\ UNCHANGED chain
      [] c = "Strategies" ->
            /\ db' = inBook(strategies(strategyNames(DOMAIN reservesParams), m))
            /\ UNCHANGED chain
      [] OTHER -> db' = inBook(entry(c, IF found(Provider) THEN m ELSE 0)) /\ UNCHANGED chain

MustDeploy(s) == s.do = "deploy" \/ (s.do = "reuse" /\ ~ Configured(s.of))

DeployStep ==
    /\ Running
    /\ MustDeploy(step)
    /\ step.of = "AaveOracle" => aggregatorsFound
    /\ DeployContract(step.of)
    /\ Continue(IF step.of = "LendingRateOracle" THEN [run EXCEPT !.oracle = Len(oracles')] ELSE run)
    /\ UNCHANGED started

\* A configured rate oracle is the first.
ReuseStep ==
    /\ At("reuse")
    /\ Configured(step.of)
    /\ Continue(IF step.of = "LendingRateOracle" THEN [run EXCEPT !.oracle = 1] ELSE run)
    /\ UNCHANGED <<db, chain, started>>

InsertStep ==
    /\ At("insert")
    /\ db' = inBook(entry(step.of, m))
    /\ Continue(run)
    /\ UNCHANGED <<chain, started>>

-----------------------------------------------------------------------------
(* What the process reads. *)

FindStep ==
    /\ At("find")
    /\ Findable(step.of)
    /\ Continue(run)
    /\ UNCHANGED <<db, chain, started>>

CheckStep ==
    /\ At("check")
    /\ Configured(step.of)
    /\ Continue(run)
    /\ UNCHANGED <<db, chain, started>>

\* getReserveConfigurationData: usageAsCollateralEnabled.
alreadyEnabled(s) == s \in DOMAIN market.terms /\ market.terms[s].threshold # 0

unconfigured ==
    keep(config.order, {s \in DOMAIN reservesParams : HasTerms(s) /\ ~ alreadyEnabled(s)})
uninitialised ==
    keep(config.order, {s \in config.assets : s \notin DOMAIN market.listed})

ReadStep ==
    /\ At("read")
    /\ CASE step.of = "poolAdmin" -> Continue([run EXCEPT !.admin = market.admin])
         [] step.of = "reserves" -> Continue([run EXCEPT !.inputs = config.order])
         [] step.of = "uninitialised" -> Continue([run EXCEPT !.inputs = uninitialised])
         \* Nothing to configure: the three transactions are skipped.
         [] step.of = "unconfigured" ->
                Continue([run EXCEPT !.inputs = unconfigured,
                                     !.pc = IF unconfigured = <<>> THEN @ + 3 ELSE @])
    /\ UNCHANGED <<db, chain, started>>

-----------------------------------------------------------------------------
(* Transactions. *)

registry == IF Configured("ProviderRegistry") THEN 1 ELSE db[Registry]

RegisterAddressesProvider ==
    /\ At("registerAddressesProvider")
    /\ registered' = [registered EXCEPT ![registry] = @ \union {m}]
    /\ Mined
    /\ UNCHANGED <<db, markets, oracles, started>>

\* A setter of LendingPoolAddressesProvider, sent by its owner.
SetInProvider(f, setting) ==
    /\ At(f)
    /\ markets' = [markets EXCEPT ![m] = setting]
    /\ Mined
    /\ UNCHANGED <<db, registered, oracles, started>>

SetGenesisAdmin == SetInProvider("setGenesisAdmin", [market EXCEPT !.admin = Deployer])
SetEmergencyAdmin == SetInProvider("setEmergencyAdmin", [market EXCEPT !.emergency = TRUE])

\* _updateImpl: the first call makes the proxy and initialises it; a second one
\* initialises the same revision again and reverts.
SetLendingPoolImpl ==
    /\ At("setLendingPoolImpl") /\ ~ market.pool
    /\ SetInProvider("setLendingPoolImpl", [market EXCEPT !.pool = TRUE])
SetLendingPoolConfiguratorImpl ==
    /\ At("setLendingPoolConfiguratorImpl") /\ ~ market.configurator
    /\ SetInProvider("setLendingPoolConfiguratorImpl", [market EXCEPT !.configurator = TRUE])

SetPriceOracle == SetInProvider("setPriceOracle", [market EXCEPT !.priceOracle = TRUE])
SetLendingRateOracle ==
    SetInProvider("setLendingRateOracle", [market EXCEPT !.rateOracle = run.oracle])
SetTemporalAdmin == SetInProvider("setTemporalAdmin", [market EXCEPT !.admin = helper])
SetAdminBack == SetInProvider("setAdminBack", [market EXCEPT !.admin = run.admin])
SetLendingPoolCollateralManager ==
    SetInProvider("setLendingPoolCollateralManager", [market EXCEPT !.manager = TRUE])

\* The signer is the oracle's owner, if it is an account.
TransferOwnership ==
    /\ At("transferOwnership")
    /\ oracles[run.oracle].owner = Deployer
    /\ oracles' = [oracles EXCEPT ![run.oracle].owner = rateHelper]
    /\ Mined
    /\ UNCHANGED <<db, registered, markets, started>>

SetOracleBorrowRates ==
    /\ At("setOracleBorrowRates")
    /\ oracles[run.oracle].owner = rateHelper
    /\ oracles' = [oracles EXCEPT ![run.oracle].rates =
                    over([s \in symbols(rateSymbols, ratesChunks) |-> config.rates[s]], @)]
    /\ MinedChunk(rateSymbols, ratesChunks)
    /\ UNCHANGED <<db, registered, markets, started>>

SetOracleOwnership ==
    /\ At("setOracleOwnership")
    /\ oracles[run.oracle].owner = rateHelper
    /\ oracles' = [oracles EXCEPT ![run.oracle].owner = Deployer]
    /\ Mined
    /\ UNCHANGED <<db, registered, markets, started>>

\* batchInitReserve of the configurator in the address book: for the pool admin,
\* reserves with an address, not initialised before.
Listable(syms) ==
    /\ configurator # Implementation
    /\ markets[configurator].admin = Deployer
    /\ syms \subseteq config.assets
    /\ syms \intersect DOMAIN markets[configurator].listed = {}

\* The strategy in the address book; without one initTokenReservesByHelper deploys
\* its own and passes the token where the provider belongs.
strategyOf(s) ==
    LET name == reservesParams[s].strategy.name
    IN  IF found(name) THEN db[name] ELSE strategies({name}, NoOne)[name]

BatchInitReserve ==
    /\ At("batchInitReserve")
    /\ run.inputs # <<>>
    /\ LET syms == symbols(run.inputs, initChunks) IN
         /\ Listable(syms)
         /\ markets' = [markets EXCEPT ![configurator].listed =
                over([s \in syms |-> strategyOf(s)], @)]
    /\ MinedChunk(run.inputs, initChunks)
    /\ UNCHANGED <<db, registered, oracles, started>>

\* configureReserveAsCollateral's conditions on the terms.
ValidTerms(p) ==
    /\ p.ltv <= p.threshold
    /\ IF p.threshold = 0 THEN p.bonus = 0
       ELSE p.bonus > 10000 /\ (p.threshold * p.bonus + 5000) \div 10000 <= 10000

\* configureReserves: borrowing is enabled whatever the configuration says.
termsOf(p) ==
    [ltv |-> p.ltv, threshold |-> p.threshold, bonus |-> p.bonus,
     borrowing |-> TRUE, stable |-> p.stable, factor |-> p.factor]

Configures(syms) ==
    /\ markets[helper].admin = helper
    /\ \A s \in syms : ValidTerms(reservesParams[s])

ConfigureReserves ==
    /\ At("configureReserves")
    /\ LET syms == symbols(run.inputs, enableChunks) IN
         /\ Configures(syms)
         /\ markets' = [markets EXCEPT ![helper].terms =
                over([s \in syms |-> termsOf(reservesParams[s])], @)]
    /\ MinedChunk(run.inputs, enableChunks)
    /\ UNCHANGED <<db, registered, oracles, started>>

AuthorizeLendingPool == SetInProvider("authorizeLendingPool", [market EXCEPT !.gateway = TRUE])

-----------------------------------------------------------------------------
\* The step throws: no entry or no aggregator, or the transaction reverts.
throws ==
    CASE step.do = "find" -> ~ Findable(step.of)
      [] step.do = "check" -> ~ Configured(step.of)
      [] step.do = "reuse" -> step.of = "AaveOracle" /\ ~ Configured(step.of) /\ ~ aggregatorsFound
      [] step.do = "setLendingPoolImpl" -> market.pool
      [] step.do = "setLendingPoolConfiguratorImpl" -> market.configurator
      [] step.do = "transferOwnership" -> oracles[run.oracle].owner # Deployer
      [] step.do \in {"setOracleBorrowRates", "setOracleOwnership"} ->
            oracles[run.oracle].owner # rateHelper
      [] step.do = "batchInitReserve" ->
            run.inputs # <<>> /\ ~ Listable(symbols(run.inputs, initChunks))
      [] step.do = "configureReserves" -> ~ Configures(symbols(run.inputs, enableChunks))
      [] OTHER -> FALSE

Throws ==
    /\ Running
    /\ throws
    /\ run' = failed(run)
    /\ UNCHANGED <<db, chain, started, faults>>

CallFails ==
    /\ Running
    /\ Break
    /\ UNCHANGED <<db, chain, started>>

\* What the operator starts.
Begin(kind, tasks) ==
    /\ ~ Running
    /\ kind \in target.choices
    /\ run' = [run EXCEPT !.status = "running", !.kind = kind, !.tasks = tasks,
                         !.pc = 1, !.clean = TRUE]
    /\ UNCHANGED <<db, chain, faults>>

StartMigration ==
    /\ started < target.migrations
    /\ Begin("migration", migration)
    /\ started' = started + 1

\* The failed task is run again, and the rest after it.
Repeat ==
    /\ run.status = "failed"
    /\ run.kind # "tokens"
    /\ Begin("repeat", run.tasks)
    /\ UNCHANGED started

\* An interrupted initialisation is filled in.
InitializeTokens ==
    /\ run.status = "failed"
    /\ Head(run.tasks) = "initialize-lending-pool"
    /\ Begin("tokens", <<"initialize-tokens">>)
    /\ UNCHANGED started

\* Nothing left to initialise.
NothingToInit ==
    /\ At("batchInitReserve")
    /\ run.inputs = <<>>
    /\ Continue(run)
    /\ UNCHANGED <<db, chain, started>>

Init ==
    /\ \E t \in Targets :
         run = [status |-> "idle", kind |-> "", tasks |-> <<>>, pc |-> 1, chunk |-> 0,
                oracle |-> 0, admin |-> NoOne, inputs |-> <<>>, clean |-> TRUE, target |-> t]
    /\ db = <<>>
    /\ registered = IF Configured("ProviderRegistry") THEN <<{}>> ELSE <<>>
    /\ markets = <<>>
    /\ oracles = IF Configured("LendingRateOracle")
                 THEN <<[owner |-> Deployer, rates |-> <<>>]>> ELSE <<>>
    /\ started = 0
    /\ faults = 0

Next ==
    \/ StartMigration \/ Repeat \/ InitializeTokens
    \/ DeployStep \/ ReuseStep \/ InsertStep \/ FindStep \/ CheckStep \/ ReadStep
    \/ RegisterAddressesProvider \/ SetGenesisAdmin \/ SetEmergencyAdmin
    \/ SetLendingPoolImpl \/ SetLendingPoolConfiguratorImpl
    \/ TransferOwnership \/ SetOracleBorrowRates \/ SetOracleOwnership
    \/ SetPriceOracle \/ SetLendingRateOracle
    \/ BatchInitReserve \/ NothingToInit
    \/ SetTemporalAdmin \/ ConfigureReserves \/ SetAdminBack
    \/ SetLendingPoolCollateralManager \/ AuthorizeLendingPool
    \/ Throws \/ CallFails

Spec == Init /\ [][Next]_vars

-----------------------------------------------------------------------------
(* The properties. *)

\* Nothing the tasks ask for is missing from the configuration: the owner of the
\* registry and the registry, which only Moola deploys, the gateway, which Matic
\* does not deploy, an oracle or the aggregators for one, an address for every reserve
\* and terms the configurator accepts.  A rate oracle that exists is not made anew: a
\* call that fails leaves it to the helper.
Suited(t) ==
    LET c == ConfigOf[t] IN
    /\ "ProviderRegistryOwner" \in c.contracts
    /\ t.pool = "Moola" \/ "ProviderRegistry" \in c.contracts
    /\ t.pool = "Matic" => "WethGateway" \in c.contracts
    /\ "AaveOracle" \in c.contracts \/ c.assets \ {"WETH", "CELO"} \subseteq c.aggregators
    /\ "LendingRateOracle" \in c.contracts => t.faults = 0
    /\ DOMAIN c.reserves \subseteq c.assets
    /\ \A s \in DOMAIN c.reserves : c.reserves[s].ltv # -1 => ValidTerms(c.reserves[s])

\* A migration that met no failing call runs to its end, whatever earlier and
\* interrupted migrations left in the address book and on the chain.
CleanMigrationsComplete ==
    run.status = "failed" /\ run.kind = "migration" => ~ run.clean

\* The deployed market, with its pool and configurator reachable through the
\* provider and through the address book.
InPlace(n) ==
    /\ n \in registered[registry]
    /\ markets[n].admin = Deployer
    /\ markets[n].emergency /\ markets[n].priceOracle /\ markets[n].manager
    /\ markets[n].pool /\ db["LendingPool"] = n
    /\ markets[n].configurator /\ db["LendingPoolConfigurator"] = n
    /\ target.pool = "Moola" \/ markets[n].gateway

\* Every reserve of the configuration is listed with its own strategy, which reads
\* the rate oracle through this market's provider, and has its risk parameters.
AsConfigured(n) ==
    /\ DOMAIN markets[n].listed = Reserves
    /\ \A s \in Reserves :
         markets[n].listed[s] = [rates |-> reservesParams[s].strategy.rates, provider |-> n]
    /\ DOMAIN markets[n].terms = {s \in Reserves : HasTerms(s)}
    /\ \A s \in DOMAIN markets[n].terms : markets[n].terms[s] = termsOf(reservesParams[s])

\* The deployer has the rate oracle back, with the rates of all listed assets.
RatesInPlace(o) ==
    /\ oracles[o].owner = Deployer
    /\ \A s \in Reserves \intersect DOMAIN config.rates :
         s \in DOMAIN oracles[o].rates /\ oracles[o].rates[s] = config.rates[s]

\* When a migration, or the repetition of its failed task and the tasks after it,
\* reports success, the market is complete, configured and in the deployer's
\* hands: no failure on the way left a gap that a later task stepped over.
FinishedMarketIsOpen ==
    run.status = "done" /\ run.kind # "tokens" =>
        /\ InPlace(m)
        /\ AsConfigured(m)
        /\ markets[m].rateOracle # 0 /\ RatesInPlace(markets[m].rateOracle)

\* What MarketListing says of the markets.
PlanOf(params) ==
    [reserves |-> DOMAIN params, untermed |-> {s \in DOMAIN params : params[s].ltv = -1}]
Markets == UNION {1 .. t.migrations + t.faults : t \in Targets}
known(n) == n \in DOMAIN markets
Listing == INSTANCE MarketListing WITH
    Plans <- {PlanOf(ConfigOf[t].reserves) : t \in Targets},
    plan <- PlanOf(reservesParams),
    admin <- [n \in Markets |->
                IF ~ known(n) \/ markets[n].admin = NoOne THEN "none"
                ELSE IF markets[n].admin = Deployer THEN "genesis" ELSE "helper"],
    listed <- [n \in Markets |-> IF known(n) THEN DOMAIN markets[n].listed ELSE {}],
    configured <- [n \in Markets |-> IF known(n) THEN DOMAIN markets[n].terms ELSE {}]

\* Every step of the tasks is one of MarketListing's for one market, or none:
\* reserves are listed by the genesis admin, the helper's rights begin when
\* all are listed and end when all are configured.
ListsAsAWhole == Listing!Spec
=============================================================================
