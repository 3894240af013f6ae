---------------------------- MODULE ReserveLogic ----------------------------
(* libraries/logic/ReserveLogic.sol over the storage of one reserve and its    *)
(* three tokens: indexes, rates, aToken ledger, variable debt ledger, stable   *)
(* debt ledger and the underlying held by the aToken contract (cash).  Every   *)
(* operator maps the reserve before a call to the reserve after it; t is       *)
(* block.timestamp and rf the reserve factor of the reserve's configuration.   *)
EXTENDS StableDebt, InterestRateStrategy

CONSTANTS
    Treasury,      \* the account that collects the protocol's share
    MAX_UINT128    \* type(uint128).max: indexes and rates are stored in 128 bits

ASSUME ReserveLogicConstants ==
    /\ Treasury \in Users
    /\ MAX_UINT128 \in Nat

ReserveData ==
    [liquidityIndex: Nat,
     variableBorrowIndex: Nat,
     currentLiquidityRate: Nat,
     currentVariableBorrowRate: Nat,
     currentStableBorrowRate: Nat,
     lastUpdateTimestamp: Nat,
     aToken: ScaledLedger,
     variableDebt: ScaledLedger,
     stableDebt: StableLedger,
     cash: Nat]

\* ReserveLogic.init: a listed reserve nobody has used.
InitReserve ==
    [liquidityIndex |-> RAY,
     variableBorrowIndex |-> RAY,
     currentLiquidityRate |-> 0,
     currentVariableBorrowRate |-> 0,
     currentStableBorrowRate |-> 0,
     lastUpdateTimestamp |-> 0,
     aToken |-> EmptyScaledLedger,
     variableDebt |-> EmptyScaledLedger,
     stableDebt |-> EmptyStableLedger,
     cash |-> 0]

\* What the arithmetic of a reserve relies on at time t: indexes never fall below
\* one ray, the debt is not ahead of the reserve, nor the reserve of the clock.
ReserveInOrder(r, t) ==
    /\ RAY <= r.liquidityIndex
    /\ RAY <= r.variableBorrowIndex
    /\ r.lastUpdateTimestamp <= t
    /\ StableClocks(r.stableDebt, r.lastUpdateTimestamp)

\* What a view reports for the index at time t, without storing it.
getNormalizedIncome(r, t) ==
    IF r.lastUpdateTimestamp = t
    THEN r.liquidityIndex
    ELSE rayMul(calculateLinearInterest(r.currentLiquidityRate, r.lastUpdateTimestamp, t),
                r.liquidityIndex)

getNormalizedDebt(r, t) ==
    IF r.lastUpdateTimestamp = t
    THEN r.variableBorrowIndex
    ELSE rayMul(calculateCompoundedInterest(r.currentVariableBorrowRate,
                                            r.lastUpdateTimestamp, t),
                r.variableBorrowIndex)

\* _updateIndexes: the stored indexes move only while income is produced, the
\* variable one only while there is variable debt; the timestamp always moves.
nextLiquidityIndex(r, t) ==
    IF r.currentLiquidityRate > 0
    THEN rayMul(calculateLinearInterest(r.currentLiquidityRate, r.lastUpdateTimestamp, t),
                r.liquidityIndex)
    ELSE r.liquidityIndex

\* Fault: the stored borrow index grows linearly, like the liquidity index.
linearVariableBorrowIndex(r, t) ==
    IF r.currentLiquidityRate > 0 /\ r.variableDebt.totalSupply # 0
    THEN rayMul(calculateLinearInterest(r.currentVariableBorrowRate,
                                        r.lastUpdateTimestamp, t),
                r.variableBorrowIndex)
    ELSE r.variableBorrowIndex

nextVariableBorrowIndex(r, t) ==
    IF r.currentLiquidityRate > 0 /\ r.variableDebt.totalSupply # 0
    THEN rayMul(calculateCompoundedInterest(r.currentVariableBorrowRate,
                                            r.lastUpdateTimestamp, t),
                r.variableBorrowIndex)
    ELSE r.variableBorrowIndex

\* Fault: the stable part of the current debt without its interest.
currentDebtOfPrincipals(r, t) ==
    scaledTotalSupplyOf(r.variableDebt, nextVariableBorrowIndex(r, t))
      + r.stableDebt.totalSupply

\* _mintToTreasury: debt at time t and debt at the last update, the stable part
\* at the average rate; the checked subtraction reverts if the debt shrank.
currentDebt(r, t) ==
    scaledTotalSupplyOf(r.variableDebt, nextVariableBorrowIndex(r, t))
      + stableTotalSupply(r.stableDebt, t)

previousDebt(r) ==
    scaledTotalSupplyOf(r.variableDebt, r.variableBorrowIndex)
      + rayMul(r.stableDebt.totalSupply,
               calculateCompoundedInterest(r.stableDebt.avgStableRate,
                                           r.stableDebt.totalSupplyTimestamp,
                                           r.lastUpdateTimestamp))

accrualDefined(r, t) ==
    /\ r.stableDebt.totalSupplyTimestamp <= r.lastUpdateTimestamp
    /\ previousDebt(r) <= currentDebt(r, t)

treasuryShare(r, rf, t) == percentMul(currentDebt(r, t) - previousDebt(r), rf)

\* Nothing is computed when the reserve factor is zero.
updateStateAllowed(r, rf, t) == rf = 0 \/ accrualDefined(r, t)

updateState(r, rf, t) ==
    LET index == nextLiquidityIndex(r, t)
        share == IF rf = 0 THEN 0 ELSE treasuryShare(r, rf, t)
    IN  [r EXCEPT
            !.liquidityIndex = index,
            !.variableBorrowIndex = nextVariableBorrowIndex(r, t),
            !.lastUpdateTimestamp = t,
            !.aToken = IF share = 0 THEN @ ELSE scaledMint(@, Treasury, share, index)]

\* The rates of a reserve that holds the given liquidity.
ratesFor(r, availableLiquidity, rf, t) ==
    calculateInterestRates(availableLiquidity,
                           stableTotalSupply(r.stableDebt, t),
                           scaledTotalSupplyOf(r.variableDebt, r.variableBorrowIndex),
                           r.stableDebt.avgStableRate,
                           rf)

updateInterestRatesAllowed(r, added, taken, rf) ==
    /\ taken <= r.cash + added
    /\ rf <= PERCENTAGE_FACTOR

\* Fault: the liquidity about to leave is still counted.
updateInterestRatesBefore(r, added, taken, rf, t) ==
    LET rates == ratesFor(r, r.cash + added, rf, t)
    IN  [r EXCEPT !.currentLiquidityRate = rates.liquidity,
                  !.currentStableBorrowRate = rates.stable,
                  !.currentVariableBorrowRate = rates.variable]

updateInterestRates(r, added, taken, rf, t) ==
    LET rates == ratesFor(r, r.cash + added - taken, rf, t)
    IN  [r EXCEPT !.currentLiquidityRate = rates.liquidity,
                  !.currentStableBorrowRate = rates.stable,
                  !.currentVariableBorrowRate = rates.variable]

\* The 128-bit checks of _updateIndexes, updateInterestRates and
\* StableDebtToken.mint; a call that would exceed them reverts.
FitsUint128(r) ==
    /\ r.liquidityIndex <= MAX_UINT128
    /\ r.variableBorrowIndex <= MAX_UINT128
    /\ r.currentLiquidityRate <= MAX_UINT128
    /\ r.currentStableBorrowRate <= MAX_UINT128
    /\ r.currentVariableBorrowRate <= MAX_UINT128
    /\ \A u \in Users : r.stableDebt.usersStableRate[u] <= MAX_UINT128
=============================================================================
