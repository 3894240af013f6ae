----------------------------- MODULE MarketConfigs ---------------------------
(* The market configurations under markets/: for every reserve the risk        *)
(* parameters and the interest rate strategy, in listing order; for every      *)
(* network which contracts exist already and which assets have an address and  *)
(* a price aggregator.  Percentages of rates are in hundredths; addresses,     *)
(* decimals and token names are left out.                                      *)
EXTENDS Integers, Sequences, FiniteSets, TLC

\* IInterestRateStrategyParams: name, optimal utilization, base variable rate,
\* variable slopes, stable slopes.
Strategy(name, rates) == [name |-> name, rates |-> rates]

\* IReserveParams; a base LTV of -1 keeps the reserve out of the configuration.
Reserve(strategy, ltv, threshold, bonus, borrowing, stable, factor) ==
    [strategy |-> strategy, ltv |-> ltv, threshold |-> threshold, bonus |-> bonus,
     borrowing |-> borrowing, stable |-> stable, factor |-> factor]

-----------------------------------------------------------------------------
(* Moola *)

moolaStableTwo == Strategy("rateStrategyStableTwo", <<80, 0, 4, 75, 2, 75>>)
moolaCELO      == Strategy("rateStrategyWETH", <<65, 0, 8, 100, 10, 100>>)

moolaReserves ==
    [CUSD  |-> Reserve(moolaStableTwo, 7500, 8000, 10500, TRUE, TRUE, 1000),
     CEUR  |-> Reserve(moolaStableTwo, 7500, 8000, 10500, TRUE, TRUE, 1000),
     CREAL |-> Reserve(moolaStableTwo, 7500, 8000, 10500, TRUE, TRUE, 1000),
     MOO   |-> Reserve(moolaCELO, 5000, 6500, 11000, TRUE, TRUE, 1000),
     CELO  |-> Reserve(moolaCELO, 8000, 8250, 10500, TRUE, TRUE, 1000)]

moolaOrder == <<"CELO", "CUSD", "CEUR", "CREAL", "MOO">>

\* LendingRateOracleRatesCommon, in tenths of a percent.
moolaRates == [CELO |-> 30, CUSD |-> 39, CEUR |-> 39, CREAL |-> 39, MOO |-> 30, UBE |-> 30]

\* What exists on Celo and on Alfajores: only the price oracle.
moolaCelo == {"ProviderRegistryOwner", "AaveOracle"}

-----------------------------------------------------------------------------
(* Aave *)

aaveStableOne     == Strategy("rateStrategyStableOne", <<80, 0, 4, 100, 0, 0>>)
aaveStableTwo     == Strategy("rateStrategyStableTwo", <<80, 0, 4, 75, 2, 75>>)
aaveStableThree   == Strategy("rateStrategyStableThree", <<90, 0, 4, 60, 2, 60>>)
aaveWETH          == Strategy("rateStrategyWETH", <<65, 0, 8, 100, 10, 100>>)
aaveAAVE          == Strategy("rateStrategyAAVE", <<45, 0, 0, 0, 0, 0>>)
aaveVolatileOne   == Strategy("rateStrategyVolatileOne", <<45, 0, 7, 300, 10, 300>>)
aaveVolatileTwo   == Strategy("rateStrategyVolatileTwo", <<65, 0, 8, 300, 10, 300>>)
aaveVolatileThree == Strategy("rateStrategyVolatileThree", <<65, 0, 8, 300, 10, 300>>)
aaveVolatileFour  == Strategy("rateStrategyVolatileFour", <<45, 0, 7, 300, 0, 0>>)

aaveReservesToWETH ==
    [BUSD |-> Reserve(aaveStableOne, 0, 0, 0, TRUE, FALSE, 1000),
     DAI  |-> Reserve(aaveStableTwo, 7500, 8000, 10500, TRUE, TRUE, 1000),
     SUSD |-> Reserve(aaveStableOne, 0, 0, 0, TRUE, FALSE, 2000),
     TUSD |-> Reserve(aaveStableTwo, 7500, 8000, 10500, TRUE, TRUE, 1000),
     USDC |-> Reserve(aaveStableThree, 8000, 8500, 10500, TRUE, TRUE, 1000),
     USDT |-> Reserve(aaveStableThree, 8000, 8500, 10500, TRUE, TRUE, 1000),
     AAVE |-> Reserve(aaveAAVE, 5000, 6500, 11000, FALSE, FALSE, 0),
     BAT  |-> Reserve(aaveVolatileOne, 7000, 7500, 11000, TRUE, TRUE, 2000),
     WETH |-> Reserve(aaveWETH, 8000, 8250, 10500, TRUE, TRUE, 1000)]

aaveReservesFromKNC ==
    [KNC    |-> Reserve(aaveVolatileTwo, 6000, 6500, 11000, TRUE, TRUE, 2000),
     LINK   |-> Reserve(aaveVolatileOne, 7000, 7500, 11000, TRUE, TRUE, 2000),
     MANA   |-> Reserve(aaveVolatileOne, 6000, 6500, 11000, TRUE, TRUE, 3500),
     MKR    |-> Reserve(aaveVolatileOne, 6000, 6500, 11000, TRUE, TRUE, 2000),
     REN    |-> Reserve(aaveVolatileOne, 5500, 6000, 11000, TRUE, TRUE, 2000),
     SNX    |-> Reserve(aaveVolatileThree, 1500, 4000, 11000, TRUE, FALSE, 3500),
     UNI    |-> Reserve(aaveVolatileThree, 6000, 6500, 11000, FALSE, FALSE, 2000),
     WBTC   |-> Reserve(aaveVolatileTwo, 7000, 7500, 11000, TRUE, TRUE, 2000),
     YFI    |-> Reserve(aaveVolatileOne, 4000, 5500, 11500, TRUE, TRUE, 2000),
     ZRX    |-> Reserve(aaveVolatileOne, 6000, 6500, 11000, TRUE, TRUE, 2000),
     xSUSHI |-> Reserve(aaveVolatileFour, 2500, 4500, 11500, TRUE, FALSE, 3500)]

\* ENJ is listed with the parameters of REN.
aaveReserves == aaveReservesToWETH @@ aaveReservesFromKNC @@ [ENJ |-> aaveReservesFromKNC.REN]

aaveOrder ==
    <<"AAVE", "BAT", "BUSD", "DAI", "ENJ", "KNC", "LINK", "MANA", "MKR", "REN", "SNX",
      "SUSD", "TUSD", "UNI", "USDC", "USDT", "WBTC", "WETH", "YFI", "ZRX", "xSUSHI">>

aaveListed == {aaveOrder[i] : i \in DOMAIN aaveOrder}

\* ReserveAssets: on Kovan xSUSHI has no address.
aaveAssets(network) == IF network = "kovan" THEN aaveListed \ {"xSUSHI"} ELSE aaveListed

aaveRates ==
    [s \in aaveListed \ {"ENJ", "xSUSHI"} |->
        CASE s \in {"DAI", "USDC"} -> 39
          [] s \in {"TUSD", "SUSD", "USDT"} -> 35
          [] s = "BUSD" -> 50
          [] OTHER -> 30]

aaveContracts(network) ==
    CASE network = "kovan" -> {"ProviderRegistry", "ProviderRegistryOwner",
                               "LendingPoolCollateralManager", "WethGateway"}
      [] network = "main" -> {"ProviderRegistry", "ProviderRegistryOwner",
                              "LendingPoolCollateralManager"}
      [] network = "tenderlyMain" -> {"ProviderRegistry", "ProviderRegistryOwner", "LendingRateOracle",
                                      "LendingPoolCollateralManager", "AaveOracle"}

\* ChainlinkAggregator: the same assets on every network, xSUSHI on none.
aaveAggregators == aaveListed \ {"WETH", "xSUSHI"}

-----------------------------------------------------------------------------
(* AMM *)

ammBase    == Strategy("rateStrategyAmmBase", <<45, 3, 10, 300, 10, 300>>)
ammBaseOne == Strategy("rateStrategyBaseOne", <<65, 0, 8, 100, 10, 100>>)
ammStable  == Strategy("rateStrategyStable", <<80, 0, 4, 75, 2, 60>>)

ammToken(strategy, ltv, threshold, bonus, factor) ==
    Reserve(strategy, ltv, threshold, bonus, TRUE, FALSE, factor)

ammReservesToBATWETH ==
    [WETH        |-> ammToken(ammBaseOne, 8000, 8250, 10500, 1000),
     WBTC        |-> ammToken(ammBaseOne, 7000, 7500, 11000, 2000),
     DAI         |-> ammToken(ammStable, 7500, 8000, 10500, 1000),
     USDC        |-> ammToken(ammStable, 8000, 8500, 10500, 1000),
     USDT        |-> ammToken(ammStable, -1, 8500, 10500, 1000),
     UniDAIWETH  |-> ammToken(ammBase, 6000, 7000, 11500, 1000),
     UniWBTCWETH |-> ammToken(ammBase, 6000, 7000, 11500, 1500),
     UniAAVEWETH |-> ammToken(ammBase, 6000, 7000, 11500, 500),
     UniBATWETH  |-> ammToken(ammBase, 6000, 7000, 11500, 1500)]

ammReservesFromDAIUSDC ==
    [UniDAIUSDC  |-> ammToken(ammBase, 6000, 7000, 11500, 1000),
     UniCRVWETH  |-> ammToken(ammBase, 5000, 6000, 11500, 1500),
     UniLINKWETH |-> ammToken(ammBase, 6000, 7000, 11500, 1500),
     UniMKRWETH  |-> ammToken(ammBase, 6000, 7000, 11500, 1500),
     UniRENWETH  |-> ammToken(ammBase, 6000, 7000, 11500, 1500),
     UniSNXWETH  |-> ammToken(ammBase, 4000, 6000, 11500, 2000),
     UniUNIWETH  |-> ammToken(ammBase, 6000, 7000, 11500, 1500),
     UniUSDCWETH |-> ammToken(ammBase, 6000, 7000, 11500, 1000),
     UniWBTCUSDC |-> ammToken(ammBase, 6000, 7000, 11500, 1500),
     UniYFIWETH  |-> ammToken(ammBase, 5000, 6000, 11500, 1500),
     BptBALWETH  |-> ammToken(ammBase, 6000, 7000, 11500, 1500)]

\* BptWBTCWETH is listed with the parameters of UniWBTCWETH.
ammReserves ==
    ammReservesToBATWETH @@ ammReservesFromDAIUSDC
        @@ [BptWBTCWETH |-> ammReservesToBATWETH.UniWBTCWETH]

ammOrder ==
    <<"WETH", "DAI", "USDC", "USDT", "WBTC", "UniDAIWETH", "UniWBTCWETH", "UniAAVEWETH",
      "UniBATWETH", "UniDAIUSDC", "UniCRVWETH", "UniLINKWETH", "UniMKRWETH", "UniRENWETH",
      "UniSNXWETH", "UniUNIWETH", "UniUSDCWETH", "UniWBTCUSDC", "UniYFIWETH",
      "BptWBTCWETH", "BptBALWETH">>

ammListed == {ammOrder[i] : i \in DOMAIN ammOrder}

ammRates ==
    [s \in ammListed |->
        CASE s \in {"WETH", "WBTC"} -> 30
          [] s \in {"DAI", "USDC"} -> 39
          [] s = "USDT" -> 35
          [] OTHER -> 50]

ammContracts(network) ==
    CASE network = "kovan" -> {"ProviderRegistry", "ProviderRegistryOwner", "LendingRateOracle",
                               "LendingPoolCollateralManager", "LendingPoolConfigurator",
                               "LendingPool", "WethGateway", "AaveOracle"}
      [] network = "main" -> {"ProviderRegistry", "ProviderRegistryOwner",
                              "LendingPoolCollateralManager"}

ammAggregators == ammListed \ {"WETH"}

-----------------------------------------------------------------------------
(* Matic *)

maticStableTwo   == Strategy("rateStrategyStableTwo", <<80, 0, 4, 75, 2, 75>>)
maticStableThree == Strategy("rateStrategyStableThree", <<90, 0, 4, 60, 2, 60>>)
maticWETH        == Strategy("rateStrategyWETH", <<65, 0, 8, 100, 10, 100>>)
maticVolatileOne == Strategy("rateStrategyVolatileOne", <<45, 0, 7, 300, 10, 300>>)
maticVolatileTwo == Strategy("rateStrategyVolatileTwo", <<65, 0, 8, 300, 10, 300>>)

maticReserves ==
    [DAI    |-> Reserve(maticStableTwo, 7500, 8000, 10500, TRUE, TRUE, 1000),
     USDC   |-> Reserve(maticStableThree, 8000, 8500, 10500, TRUE, TRUE, 1000),
     USDT   |-> Reserve(maticStableThree, 8000, 8500, 10500, TRUE, TRUE, 1000),
     WETH   |-> Reserve(maticWETH, 8000, 8250, 10500, TRUE, TRUE, 1000),
     WBTC   |-> Reserve(maticVolatileTwo, 7000, 7500, 11000, TRUE, TRUE, 2000),
     WMATIC |-> Reserve(maticVolatileOne, 5000, 6500, 11000, TRUE, TRUE, 2000)]

maticOrder == <<"DAI", "USDC", "USDT", "WBTC", "WETH", "WMATIC">>

maticRates == [WETH |-> 30, DAI |-> 39, USDC |-> 39, USDT |-> 35, WBTC |-> 30, WMATIC |-> 50]

maticContracts(network) ==
    {"ProviderRegistry", "ProviderRegistryOwner"}
        \union IF network = "matic"
               THEN {"LendingPool", "LendingPoolConfigurator", "LendingPoolCollateralManager",
                     "WethGateway", "AaveOracle"}
               ELSE {}

maticAggregators == {"DAI", "USDC", "USDT", "WBTC", "WMATIC"}

-----------------------------------------------------------------------------
\* loadPoolConfig and getParamPerNetwork: the configuration of one market on one
\* network.  The order is that of ReservesConfig.
Config(reserves, order, assets, rates, aggregators, contracts) ==
    [reserves |-> reserves, order |-> order, assets |-> assets, rates |-> rates,
     aggregators |-> aggregators, contracts |-> contracts]

loadPoolConfig(pool, network) ==
    CASE pool = "Moola" -> Config(moolaReserves, moolaOrder, DOMAIN moolaReserves, moolaRates,
                                  {}, moolaCelo)
      [] pool = "Aave" -> Config(aaveReserves, aaveOrder, aaveAssets(network), aaveRates,
                                 aaveAggregators, aaveContracts(network))
      [] pool = "Amm" -> Config(ammReserves, ammOrder, ammListed, ammRates,
                                ammAggregators, ammContracts(network))
      [] pool = "Matic" -> Config(maticReserves, maticOrder, DOMAIN maticReserves, maticRates,
                                  maticAggregators, maticContracts(network))
=============================================================================
