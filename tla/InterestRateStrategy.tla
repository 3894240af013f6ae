------------------------ MODULE InterestRateStrategy ------------------------
(* lendingpool/DefaultReserveInterestRateStrategy.sol: the two-slope curve     *)
(* that turns the utilisation of a reserve into its three rates.  One set of   *)
(* parameters serves every reserve of a model instance.                        *)
EXTENDS WadRayMath

CONSTANTS
    OPTIMAL_UTILIZATION_RATE,
    baseVariableBorrowRate,
    variableRateSlope1, variableRateSlope2,
    stableRateSlope1, stableRateSlope2,
    marketBorrowRate      \* LendingRateOracle.getMarketBorrowRate

ASSUME StrategyConstants ==
    /\ OPTIMAL_UTILIZATION_RATE \in Nat \ {0}
    /\ OPTIMAL_UTILIZATION_RATE < RAY
    /\ baseVariableBorrowRate \in Nat
    /\ variableRateSlope1 \in Nat
    /\ variableRateSlope2 \in Nat
    /\ stableRateSlope1 \in Nat
    /\ stableRateSlope2 \in Nat
    /\ marketBorrowRate \in Nat

EXCESS_UTILIZATION_RATE == RAY - OPTIMAL_UTILIZATION_RATE

getMaxVariableBorrowRate == baseVariableBorrowRate + variableRateSlope1 + variableRateSlope2

utilizationRate(availableLiquidity, totalDebt) ==
    IF totalDebt = 0 THEN 0 ELSE rayDiv(totalDebt, availableLiquidity + totalDebt)

stableBorrowRate(utilization) ==
    IF utilization > OPTIMAL_UTILIZATION_RATE
    THEN marketBorrowRate + stableRateSlope1
           + rayMul(stableRateSlope2,
                    rayDiv(utilization - OPTIMAL_UTILIZATION_RATE, EXCESS_UTILIZATION_RATE))
    ELSE marketBorrowRate
           + rayMul(stableRateSlope1, rayDiv(utilization, OPTIMAL_UTILIZATION_RATE))

variableBorrowRate(utilization) ==
    IF utilization > OPTIMAL_UTILIZATION_RATE
    THEN baseVariableBorrowRate + variableRateSlope1
           + rayMul(variableRateSlope2,
                    rayDiv(utilization - OPTIMAL_UTILIZATION_RATE, EXCESS_UTILIZATION_RATE))
    ELSE baseVariableBorrowRate
           + rayDiv(rayMul(utilization, variableRateSlope1), OPTIMAL_UTILIZATION_RATE)

\* _getOverallBorrowRate: the debt-weighted average of the two borrow rates.
overallBorrowRate(totalStableDebt, totalVariableDebt, variableRate, averageStableRate) ==
    IF totalStableDebt + totalVariableDebt = 0
    THEN 0
    ELSE rayDiv(rayMul(wadToRay(totalVariableDebt), variableRate)
                  + rayMul(wadToRay(totalStableDebt), averageStableRate),
                wadToRay(totalStableDebt + totalVariableDebt))

\* The call reverts when the reserve factor exceeds 100%.
calculateInterestRates(liquidity, stableDebt, variableDebt, averageStableRate, reserveFactor) ==
    LET utilization  == utilizationRate(liquidity, stableDebt + variableDebt)
        variableRate == variableBorrowRate(utilization)
    IN  [liquidity |->
            percentMul(rayMul(overallBorrowRate(stableDebt, variableDebt,
                                                variableRate, averageStableRate),
                              utilization),
                       PERCENTAGE_FACTOR - reserveFactor),
         stable   |-> stableBorrowRate(utilization),
         variable |-> variableRate]
=============================================================================
