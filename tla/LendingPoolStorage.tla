------------------------- MODULE LendingPoolStorage -------------------------
(* The state shared by lendingpool/LendingPool.sol and the collateral manager  *)
(* it delegates to (LendingPoolStorage.sol), with what they read around it:    *)
(* underlying balances, the price oracle and the clock; and the read-only      *)
(* account arithmetic of libraries/logic/GenericLogic.sol.  The two bitmaps of *)
(* a user's configuration are kept as sets of assets.                          *)
EXTENDS ReserveLogic, FiniteSetsExt

CONSTANTS
    Assets,
    TokenUnit,      \* 10 ** decimals of each asset
    MAX_UINT256,    \* type(uint256).max: "everything", and an infinite health factor
    Configurations  \* the values a reserve configuration takes in a model instance

ASSUME StorageConstants ==
    /\ TokenUnit \in [Assets -> Nat \ {0}]
    /\ MAX_UINT256 \in Nat

VARIABLES
    reserves,      \* _reserves, with the token ledgers behind each reserve
    configuration, \* _reserves[asset].configuration
    usersConfig,   \* _usersConfig: assets borrowed, and used as collateral
    allowances,    \* _borrowAllowances of each asset's two debt tokens
    wallets,       \* underlying held outside the aToken contracts
    prices,        \* the price oracle
    paused,        \* _paused
    now            \* block.timestamp

poolVars == <<reserves, configuration, usersConfig, allowances, wallets, prices, paused, now>>

STABLE   == "stable"
VARIABLE_MODE == "variable"
InterestRateMode == {STABLE, VARIABLE_MODE}

\* The default thresholds, health factors and limits of the code.
HEALTH_FACTOR_LIQUIDATION_THRESHOLD == WAD

\* ReserveConfiguration: the parameters packed in a reserve's bitmap.
ReserveConfigurationMap ==
    [active: BOOLEAN, frozen: BOOLEAN, borrowingEnabled: BOOLEAN,
     stableRateBorrowingEnabled: BOOLEAN,
     ltv: Nat, liquidationThreshold: Nat, liquidationBonus: Nat, reserveFactor: Nat]

UserConfigurationMap == [borrowing: SUBSET Assets, collateral: SUBSET Assets]

setUsingAsCollateral(uc, user, asset, use) ==
    [uc EXCEPT ![user].collateral = IF use THEN @ \cup {asset} ELSE @ \ {asset}]

setBorrowing(uc, user, asset, borrowing) ==
    [uc EXCEPT ![user].borrowing = IF borrowing THEN @ \cup {asset} ELSE @ \ {asset}]

-----------------------------------------------------------------------------
(* Balances as the token contracts report them.                              *)

aTokenBalance(r, user) == scaledBalanceOf(r.aToken, user, getNormalizedIncome(r, now))

variableDebtOf(r, user) == scaledBalanceOf(r.variableDebt, user, getNormalizedDebt(r, now))

stableDebtOf(r, user) == stableBalanceOf(r.stableDebt, user, now)

inETH(asset, amount) == (prices[asset] * amount) \div TokenUnit[asset]

-----------------------------------------------------------------------------
(* GenericLogic.                                                             *)

calculateHealthFactorFromBalances(collateral, debt, liquidationThreshold) ==
    IF debt = 0
    THEN MAX_UINT256
    ELSE wadDiv(percentMul(collateral, liquidationThreshold), debt)

\* calculateUserAccountData over the reserves rs and the flags uc of the user:
\* only reserves with a liquidation threshold that he enabled count as
\* collateral, only reserves flagged as borrowed count as debt.
collateralETH(rs, a, user) == inETH(a, aTokenBalance(rs[a], user))

debtETH(rs, a, user) == inETH(a, stableDebtOf(rs[a], user) + variableDebtOf(rs[a], user))

countedCollateral(uc) == {a \in uc.collateral : configuration[a].liquidationThreshold # 0}

totalCollateralETH(rs, user, uc) ==
    MapThenSumSet(LAMBDA a : collateralETH(rs, a, user), countedCollateral(uc))

totalDebtETH(rs, user, uc) ==
    MapThenSumSet(LAMBDA a : debtETH(rs, a, user), uc.borrowing)

\* avgLtv and avgLiquidationThreshold: collateral-weighted, rounded down.
averageLtv(rs, user, uc, total) ==
    IF total = 0
    THEN 0
    ELSE MapThenSumSet(LAMBDA a : collateralETH(rs, a, user) * configuration[a].ltv,
                       countedCollateral(uc)) \div total

averageLiquidationThreshold(rs, user, uc, total) ==
    IF total = 0
    THEN 0
    ELSE MapThenSumSet(LAMBDA a : collateralETH(rs, a, user)
                                    * configuration[a].liquidationThreshold,
                       countedCollateral(uc)) \div total

healthFactor(rs, user, uc) ==
    LET debt == totalDebtETH(rs, user, uc)
        collateral == totalCollateralETH(rs, user, uc)
    IN  IF debt = 0
        THEN MAX_UINT256
        ELSE calculateHealthFactorFromBalances(
                collateral, debt, averageLiquidationThreshold(rs, user, uc, collateral))

isHealthy(user) ==
    healthFactor(reserves, user, usersConfig[user]) >= HEALTH_FACTOR_LIQUIDATION_THRESHOLD

\* Fault: the average threshold is not recomputed for what is left.
decreaseAtOldThreshold(asset, user, amount) ==
    LET uc         == usersConfig[user]
        collateral == totalCollateralETH(reserves, user, uc)
        debt       == totalDebtETH(reserves, user, uc)
        left       == collateral - inETH(asset, amount)
        threshold  == averageLiquidationThreshold(reserves, user, uc, collateral)
    IN  \/ uc.borrowing = {}
        \/ asset \notin countedCollateral(uc)
        \/ debt = 0
        \/ /\ left > 0
           /\ calculateHealthFactorFromBalances(left, debt, threshold)
                >= HEALTH_FACTOR_LIQUIDATION_THRESHOLD

\* Fault: a withdrawal is not checked at all.
decreaseUnchecked(asset, user, amount) == TRUE

\* The subtractions are checked: an account that cannot cover them reverts.
balanceDecreaseAllowed(asset, user, amount) ==
    LET uc         == usersConfig[user]
        collateral == totalCollateralETH(reserves, user, uc)
        debt       == totalDebtETH(reserves, user, uc)
        decrease   == inETH(asset, amount)
        left       == collateral - decrease
        weight     == collateral * averageLiquidationThreshold(reserves, user, uc, collateral)
        lost       == decrease * configuration[asset].liquidationThreshold
    IN  \/ uc.borrowing = {}
        \/ asset \notin countedCollateral(uc)
        \/ debt = 0
        \/ /\ left > 0
           /\ lost <= weight
           /\ calculateHealthFactorFromBalances(left, debt, (weight - lost) \div left)
                >= HEALTH_FACTOR_LIQUIDATION_THRESHOLD
=============================================================================
