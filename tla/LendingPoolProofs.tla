-------------------------- MODULE LendingPoolProofs --------------------------
(* The lending pool for any users, assets, amounts, prices and scales.  Types  *)
(* are not inductive on their own: dividing by an index or subtracting a time  *)
(* needs ReservesInOrder, and a debt without flag could appear in a repayment  *)
(* if full repayments left dust, which the indexes above one ray rule out.     *)
EXTENDS LendingPool, LedgerProofs

-----------------------------------------------------------------------------
(* A reserve.  What accrual and the rate update do to it when it is well       *)
(* formed and in order: they are defined, they keep it so, they touch nothing  *)
(* else, and the indexes a view reports agree with the stored ones.            *)

ReserveOK(r, t) == r \in ReserveData /\ ReserveInOrder(r, t)

\* s and r owe the same; s differs from r in its rates only.
SameDebts(s, r) == s.variableDebt = r.variableDebt /\ s.stableDebt = r.stableDebt

RatesOnly(s, r) ==
    /\ SameDebts(s, r)
    /\ s.aToken = r.aToken
    /\ s.cash = r.cash
    /\ s.liquidityIndex = r.liquidityIndex
    /\ s.variableBorrowIndex = r.variableBorrowIndex
    /\ s.lastUpdateTimestamp = r.lastUpdateTimestamp

\* The parts of a reserve that is well formed, as facts about naturals.
LEMMA ReserveParts ==
    ASSUME NEW r, NEW t \in Nat, ReserveOK(r, t)
    PROVE  /\ r.liquidityIndex \in Nat /\ RAY <= r.liquidityIndex
           /\ r.variableBorrowIndex \in Nat /\ RAY <= r.variableBorrowIndex
           /\ r.currentLiquidityRate \in Nat
           /\ r.currentVariableBorrowRate \in Nat
           /\ r.currentStableBorrowRate \in Nat
           /\ r.lastUpdateTimestamp \in Nat /\ r.lastUpdateTimestamp <= t
           /\ r.aToken \in ScaledLedger
           /\ r.variableDebt \in ScaledLedger
           /\ r.stableDebt \in StableLedger
           /\ r.cash \in Nat
           /\ r.stableDebt.totalSupplyTimestamp \in Nat
           /\ StableClocks(r.stableDebt, r.lastUpdateTimestamp)
           /\ StableClocks(r.stableDebt, t)
<1>1. /\ r.liquidityIndex \in Nat
      /\ r.variableBorrowIndex \in Nat
      /\ r.currentLiquidityRate \in Nat
      /\ r.currentVariableBorrowRate \in Nat
      /\ r.currentStableBorrowRate \in Nat
      /\ r.lastUpdateTimestamp \in Nat
      /\ r.aToken \in ScaledLedger
      /\ r.variableDebt \in ScaledLedger
      /\ r.stableDebt \in StableLedger
      /\ r.cash \in Nat
  BY DEF ReserveOK, ReserveData
<1>2. r.stableDebt.totalSupplyTimestamp \in Nat BY <1>1 DEF StableLedger
<1>3. ReserveInOrder(r, t) BY DEF ReserveOK
<1>4. StableClocks(r.stableDebt, t) BY <1>1, <1>2, <1>3 DEF ReserveInOrder, StableClocks
<1> QED BY <1>1, <1>2, <1>3, <1>4 DEF ReserveInOrder

\* A reserve stays in order while time passes.
LEMMA ReserveLater ==
    ASSUME NEW r, NEW t \in Nat, NEW u \in Nat, ReserveOK(r, t), t <= u
    PROVE  ReserveOK(r, u)
<1>1. r.lastUpdateTimestamp \in Nat /\ r.lastUpdateTimestamp <= t BY ReserveParts
<1> QED BY <1>1 DEF ReserveOK, ReserveInOrder

\* The two indexes a refresh stores: they do not fall.
LEMMA NextLiquidityIndex ==
    ASSUME NEW r, NEW t \in Nat, ReserveOK(r, t)
    PROVE  /\ nextLiquidityIndex(r, t) \in Nat
           /\ r.liquidityIndex <= nextLiquidityIndex(r, t)
           /\ RAY <= nextLiquidityIndex(r, t)
           /\ nextLiquidityIndex(r, t) = getNormalizedIncome(r, t)
<1> DEFINE factor == calculateLinearInterest(r.currentLiquidityRate, r.lastUpdateTimestamp, t)
<1>1. /\ r.liquidityIndex \in Nat /\ RAY <= r.liquidityIndex
      /\ r.currentLiquidityRate \in Nat
      /\ r.lastUpdateTimestamp \in Nat /\ r.lastUpdateTimestamp <= t
  BY ReserveParts
<1>2. /\ factor \in Nat /\ RAY <= factor
      /\ r.currentLiquidityRate = 0 => factor = RAY
  BY <1>1, LinearFactor
<1>3. r.lastUpdateTimestamp = t => factor = RAY
  <2>1. r.lastUpdateTimestamp = t => r.currentLiquidityRate * (t - r.lastUpdateTimestamp) = 0
    BY <1>1
  <2>2. 0 \div SECONDS_PER_YEAR = 0 BY MathConstants
  <2> QED BY <2>1, <2>2, RayPositive DEF calculateLinearInterest
<1>4. /\ nextLiquidityIndex(r, t) = IF r.currentLiquidityRate > 0
                                    THEN rayMul(factor, r.liquidityIndex)
                                    ELSE r.liquidityIndex
      /\ getNormalizedIncome(r, t) = IF r.lastUpdateTimestamp = t
                                     THEN r.liquidityIndex
                                     ELSE rayMul(factor, r.liquidityIndex)
  BY DEF nextLiquidityIndex, getNormalizedIncome
<1>. HIDE DEF factor
<1>5. /\ rayMul(factor, r.liquidityIndex) \in Nat
      /\ r.liquidityIndex <= rayMul(factor, r.liquidityIndex)
  BY <1>1, <1>2, RayMulGrows
<1>6. rayMul(RAY, r.liquidityIndex) = r.liquidityIndex BY <1>1, RayMulRay
<1> QED BY <1>1, <1>2, <1>3, <1>4, <1>5, <1>6, RayPositive

\* The stored variable index only grows, and never past the reported one.
LEMMA NextVariableBorrowIndex ==
    ASSUME NEW r, NEW t \in Nat, ReserveOK(r, t)
    PROVE  /\ nextVariableBorrowIndex(r, t) \in Nat
           /\ r.variableBorrowIndex <= nextVariableBorrowIndex(r, t)
           /\ RAY <= nextVariableBorrowIndex(r, t)
           /\ getNormalizedDebt(r, t) \in Nat
           /\ nextVariableBorrowIndex(r, t) <= getNormalizedDebt(r, t)
<1> DEFINE factor == calculateCompoundedInterest(r.currentVariableBorrowRate,
                                                 r.lastUpdateTimestamp, t)
<1>1. /\ r.variableBorrowIndex \in Nat /\ RAY <= r.variableBorrowIndex
      /\ r.currentVariableBorrowRate \in Nat
      /\ r.lastUpdateTimestamp \in Nat /\ r.lastUpdateTimestamp <= t
  BY ReserveParts
<1>2. factor \in Nat /\ RAY <= factor BY <1>1, CompoundedFactor
<1>3. r.lastUpdateTimestamp = t => factor = RAY
  BY <1>1 DEF calculateCompoundedInterest
<1>4. /\ \/ nextVariableBorrowIndex(r, t) = rayMul(factor, r.variableBorrowIndex)
         \/ nextVariableBorrowIndex(r, t) = r.variableBorrowIndex
      /\ getNormalizedDebt(r, t) = IF r.lastUpdateTimestamp = t
                                   THEN r.variableBorrowIndex
                                   ELSE rayMul(factor, r.variableBorrowIndex)
  BY DEF nextVariableBorrowIndex, getNormalizedDebt
<1>. HIDE DEF factor
<1>5. /\ rayMul(factor, r.variableBorrowIndex) \in Nat
      /\ r.variableBorrowIndex <= rayMul(factor, r.variableBorrowIndex)
  BY <1>1, <1>2, RayMulGrows
<1>6. rayMul(RAY, r.variableBorrowIndex) = r.variableBorrowIndex BY <1>1, RayMulRay
<1> QED BY <1>1, <1>2, <1>3, <1>4, <1>5, <1>6, RayPositive

\* The accrual of a reserve in order is defined: neither the stable part, which
\* compounds from the token's clock, nor the variable part can have shrunk.
LEMMA AccrualDefined ==
    ASSUME NEW r, NEW t \in Nat, ReserveOK(r, t)
    PROVE  /\ accrualDefined(r, t)
           /\ currentDebt(r, t) \in Nat
           /\ previousDebt(r) \in Nat
<1> DEFINE l     == r.stableDebt
           index == nextVariableBorrowIndex(r, t)
           f     == calculateCompoundedInterest(l.avgStableRate, l.totalSupplyTimestamp,
                                                r.lastUpdateTimestamp)
           g     == calculateCompoundedInterest(l.avgStableRate, l.totalSupplyTimestamp, t)
           before == rayMul(l.totalSupply, f)
           after  == stableTotalSupply(l, t)
           scaled == r.variableDebt.totalSupply
<1>1. /\ r.variableBorrowIndex \in Nat
      /\ r.lastUpdateTimestamp \in Nat /\ r.lastUpdateTimestamp <= t
      /\ l \in StableLedger /\ StableClocks(l, r.lastUpdateTimestamp) /\ StableClocks(l, t)
      /\ r.variableDebt \in ScaledLedger
  BY ReserveParts
<1>2. /\ l.totalSupply \in Nat /\ l.avgStableRate \in Nat /\ l.totalSupplyTimestamp \in Nat
      /\ scaled \in Nat
  BY <1>1 DEF StableLedger, ScaledLedger
<1>3. l.totalSupplyTimestamp <= r.lastUpdateTimestamp /\ l.totalSupplyTimestamp <= t
  BY <1>1 DEF StableClocks
<1>4. f \in Nat /\ g \in Nat /\ f <= g
  BY <1>1, <1>2, <1>3, CompoundedFactor, CompoundedMono
<1>5. before \in Nat /\ after \in Nat /\ before <= after
  <2>1. l.totalSupply <= l.totalSupply BY <1>2
  <2>2. /\ rayMul(l.totalSupply, f) \in Nat /\ rayMul(l.totalSupply, g) \in Nat
        /\ rayMul(l.totalSupply, f) <= rayMul(l.totalSupply, g)
    BY <2>1, <1>2, <1>4, RayMulNat, RayMulMono
  <2>3. after = IF l.totalSupply = 0 THEN 0 ELSE rayMul(l.totalSupply, g)
    BY DEF stableTotalSupply
  <2>4. rayMul(0, f) = 0
    <3>1. RAY \in Nat \ {0} /\ 0 * f = 0 /\ RAY * 0 = 0 BY <1>4, RayPositive
    <3>2. HalfUp(RAY * 0, RAY) = 0 BY <3>1, HalfUpExact
    <3> QED BY <3>1, <3>2 DEF rayMul
  <2> QED BY <2>2, <2>3, <2>4
<1>6. index \in Nat /\ r.variableBorrowIndex <= index BY NextVariableBorrowIndex
<1>7. /\ rayMul(scaled, r.variableBorrowIndex) \in Nat /\ rayMul(scaled, index) \in Nat
      /\ rayMul(scaled, r.variableBorrowIndex) <= rayMul(scaled, index)
  <2>1. scaled <= scaled BY <1>2
  <2> QED BY <2>1, <1>1, <1>2, <1>6, RayMulNat, RayMulMono
<1>8. /\ currentDebt(r, t) = rayMul(scaled, index) + after
      /\ previousDebt(r) = rayMul(scaled, r.variableBorrowIndex) + before
  BY DEF currentDebt, previousDebt, scaledTotalSupplyOf
<1>. HIDE DEF before, after, scaled, index
<1>9. /\ previousDebt(r) <= currentDebt(r, t)
      /\ currentDebt(r, t) \in Nat /\ previousDebt(r) \in Nat
  BY <1>5, <1>7, <1>8
<1> QED BY <1>3, <1>9 DEF accrualDefined

\* updateState keeps a reserve in order, stamps it, and moves nothing but the
\* indexes and the treasury's aTokens.
LEMMA UpdateStateOK ==
    ASSUME NEW r, NEW t \in Nat, ReserveOK(r, t), NEW rf \in Nat
    PROVE  LET s == updateState(r, rf, t)
           IN  /\ ReserveOK(s, t)
               /\ s.lastUpdateTimestamp = t
               /\ s.liquidityIndex = nextLiquidityIndex(r, t)
               /\ s.variableBorrowIndex = nextVariableBorrowIndex(r, t)
               /\ s.variableDebt = r.variableDebt
               /\ s.stableDebt = r.stableDebt
               /\ s.cash = r.cash
<1> DEFINE index == nextLiquidityIndex(r, t)
           share == IF rf = 0 THEN 0 ELSE treasuryShare(r, rf, t)
           ledger1 == IF share = 0 THEN r.aToken ELSE scaledMint(r.aToken, Treasury, share, index)
           s == updateState(r, rf, t)
<1>1. index \in Nat \ {0} /\ RAY <= index BY NextLiquidityIndex, RayPositive
<1>2. nextVariableBorrowIndex(r, t) \in Nat /\ RAY <= nextVariableBorrowIndex(r, t)
  BY NextVariableBorrowIndex
<1>3. share \in Nat
  <2>1. currentDebt(r, t) - previousDebt(r) \in Nat BY AccrualDefined DEF accrualDefined
  <2> QED BY <2>1, PercentMulNat DEF treasuryShare
<1>4. Treasury \in Users BY ReserveLogicConstants
<1>. HIDE DEF index, share
<1>5. ledger1 \in ScaledLedger BY <1>1, <1>3, <1>4, ReserveParts, ScaledMintOK
<1>6. s = [r EXCEPT !.liquidityIndex = index,
                    !.variableBorrowIndex = nextVariableBorrowIndex(r, t),
                    !.lastUpdateTimestamp = t,
                    !.aToken = ledger1]
  BY DEF updateState, index, share
<1>. HIDE DEF ledger1, s
<1>7. r \in ReserveData BY DEF ReserveOK
<1>8. /\ s \in ReserveData
      /\ s.liquidityIndex = index
      /\ s.variableBorrowIndex = nextVariableBorrowIndex(r, t)
      /\ s.lastUpdateTimestamp = t
      /\ s.variableDebt = r.variableDebt /\ s.stableDebt = r.stableDebt /\ s.cash = r.cash
  BY <1>1, <1>2, <1>5, <1>6, <1>7 DEF ReserveData
<1>9. ReserveInOrder(s, t)
  <2>1. StableClocks(s.stableDebt, t) BY <1>8, ReserveParts
  <2> QED BY <1>1, <1>2, <1>8, <2>1 DEF ReserveInOrder
<1> QED BY <1>8, <1>9 DEF ReserveOK, index, s

-----------------------------------------------------------------------------

\* The utilisation and every rate of the curve are naturals.
LEMMA UtilizationNat ==
    ASSUME NEW liquidity \in Nat, NEW debt \in Nat
    PROVE  utilizationRate(liquidity, debt) \in Nat
<1>1. debt # 0 => liquidity + debt \in Nat \ {0} OBVIOUS
<1> QED BY <1>1, RayDivNat DEF utilizationRate

\* The two borrow rates of the strategy are natural numbers.
LEMMA StrategyRatesNat ==
    ASSUME NEW u \in Nat
    PROVE  stableBorrowRate(u) \in Nat /\ variableBorrowRate(u) \in Nat
<1>1. /\ OPTIMAL_UTILIZATION_RATE \in Nat \ {0} /\ EXCESS_UTILIZATION_RATE \in Nat \ {0}
      /\ baseVariableBorrowRate \in Nat /\ marketBorrowRate \in Nat
      /\ variableRateSlope1 \in Nat /\ variableRateSlope2 \in Nat
      /\ stableRateSlope1 \in Nat /\ stableRateSlope2 \in Nat
  BY StrategyConstants, RayPositive DEF EXCESS_UTILIZATION_RATE
<1>2. rayDiv(u, OPTIMAL_UTILIZATION_RATE) \in Nat BY <1>1, RayDivNat
<1>3. rayDiv(rayMul(u, variableRateSlope1), OPTIMAL_UTILIZATION_RATE) \in Nat
  BY <1>1, RayMulNat, RayDivNat
<1>4. rayMul(stableRateSlope1, rayDiv(u, OPTIMAL_UTILIZATION_RATE)) \in Nat
  BY <1>1, <1>2, RayMulNat
<1>5. CASE u > OPTIMAL_UTILIZATION_RATE
  <2>1. u - OPTIMAL_UTILIZATION_RATE \in Nat BY <1>1, <1>5
  <2>2. rayDiv(u - OPTIMAL_UTILIZATION_RATE, EXCESS_UTILIZATION_RATE) \in Nat
    BY <1>1, <2>1, RayDivNat
  <2>3. /\ rayMul(stableRateSlope2,
                  rayDiv(u - OPTIMAL_UTILIZATION_RATE, EXCESS_UTILIZATION_RATE)) \in Nat
        /\ rayMul(variableRateSlope2,
                  rayDiv(u - OPTIMAL_UTILIZATION_RATE, EXCESS_UTILIZATION_RATE)) \in Nat
    BY <1>1, <2>2, RayMulNat
  <2> QED BY <1>1, <1>5, <2>3 DEF stableBorrowRate, variableBorrowRate
<1>6. CASE ~(u > OPTIMAL_UTILIZATION_RATE)
  BY <1>1, <1>3, <1>4, <1>6 DEF stableBorrowRate, variableBorrowRate
<1> QED BY <1>5, <1>6

\* The overall borrow rate is a natural number.
LEMMA OverallRateNat ==
    ASSUME NEW s \in Nat, NEW v \in Nat, NEW rv \in Nat, NEW rs \in Nat
    PROVE  overallBorrowRate(s, v, rv, rs) \in Nat
<1>1. CASE s + v = 0 BY <1>1 DEF overallBorrowRate
<1>2. CASE s + v # 0
  <2>1. wadToRay(s + v) \in Nat \ {0}
    <3>1. s + v \in Nat \ {0} BY <1>2
    <3> QED BY <3>1, WadToRayPositive
  <2>2. rayMul(wadToRay(v), rv) \in Nat /\ rayMul(wadToRay(s), rs) \in Nat
    BY WadToRayNat, RayMulNat
  <2>3. rayMul(wadToRay(v), rv) + rayMul(wadToRay(s), rs) \in Nat BY <2>2
  <2> QED BY <1>2, <2>1, <2>3, RayDivNat DEF overallBorrowRate
<1> QED BY <1>1, <1>2

\* The three rates of calculateInterestRates are natural numbers.
LEMMA InterestRatesNat ==
    ASSUME NEW liquidity \in Nat, NEW s \in Nat, NEW v \in Nat, NEW avg \in Nat,
           NEW rf \in Nat, rf <= PERCENTAGE_FACTOR
    PROVE  LET rates == calculateInterestRates(liquidity, s, v, avg, rf)
           IN  rates.liquidity \in Nat /\ rates.stable \in Nat /\ rates.variable \in Nat
<1> DEFINE u  == utilizationRate(liquidity, s + v)
           rv == variableBorrowRate(u)
           o  == overallBorrowRate(s, v, rv, avg)
<1>1. s + v \in Nat OBVIOUS
<1>2. u \in Nat BY <1>1, UtilizationNat
<1>. HIDE DEF u
<1>3. rv \in Nat /\ stableBorrowRate(u) \in Nat BY <1>2, StrategyRatesNat
<1>. HIDE DEF rv
<1>4. o \in Nat BY <1>3, OverallRateNat
<1>. HIDE DEF o
<1>5. PERCENTAGE_FACTOR - rf \in Nat BY MathConstants
<1>6. percentMul(rayMul(o, u), PERCENTAGE_FACTOR - rf) \in Nat
  BY <1>2, <1>4, <1>5, RayMulNat, PercentMulNat
<1>7. calculateInterestRates(liquidity, s, v, avg, rf)
        = [liquidity |-> percentMul(rayMul(o, u), PERCENTAGE_FACTOR - rf),
           stable    |-> stableBorrowRate(u),
           variable  |-> rv]
  BY DEF calculateInterestRates, o, rv, u
<1> QED BY <1>3, <1>6, <1>7

\* updateInterestRates keeps a reserve in order and moves only the rates.
LEMMA UpdateInterestRatesOK ==
    ASSUME NEW r, NEW t \in Nat, ReserveOK(r, t),
           NEW added \in Nat, NEW taken \in Nat, NEW rf \in Nat,
           updateInterestRatesAllowed(r, added, taken, rf)
    PROVE  LET s == updateInterestRates(r, added, taken, rf, t)
           IN  ReserveOK(s, t) /\ RatesOnly(s, r)
<1> DEFINE rates == ratesFor(r, r.cash + added - taken, rf, t)
           s == updateInterestRates(r, added, taken, rf, t)
<1>1. /\ r.cash \in Nat /\ r.variableBorrowIndex \in Nat
      /\ r.variableDebt \in ScaledLedger /\ r.stableDebt \in StableLedger
      /\ StableClocks(r.stableDebt, t)
  BY ReserveParts
<1>2. r.cash + added - taken \in Nat /\ rf <= PERCENTAGE_FACTOR
  BY <1>1 DEF updateInterestRatesAllowed
<1>3. stableTotalSupply(r.stableDebt, t) \in Nat BY <1>1, StableSupplyNat
<1>4. scaledTotalSupplyOf(r.variableDebt, r.variableBorrowIndex) \in Nat
  <2>1. r.variableDebt.totalSupply \in Nat BY <1>1 DEF ScaledLedger
  <2> QED BY <1>1, <2>1, RayMulNat DEF scaledTotalSupplyOf
<1>5. r.stableDebt.avgStableRate \in Nat BY <1>1 DEF StableLedger
<1>6. rates.liquidity \in Nat /\ rates.stable \in Nat /\ rates.variable \in Nat
  BY <1>2, <1>3, <1>4, <1>5, InterestRatesNat DEF ratesFor
<1>7. s = [r EXCEPT !.currentLiquidityRate = rates.liquidity,
                    !.currentStableBorrowRate = rates.stable,
                    !.currentVariableBorrowRate = rates.variable]
  BY DEF updateInterestRates
<1>. HIDE DEF rates, s
<1>8. r \in ReserveData BY DEF ReserveOK
<1>9. /\ s \in ReserveData
      /\ s.lastUpdateTimestamp = r.lastUpdateTimestamp
      /\ s.liquidityIndex = r.liquidityIndex
      /\ s.variableBorrowIndex = r.variableBorrowIndex
      /\ s.aToken = r.aToken
      /\ s.variableDebt = r.variableDebt
      /\ s.stableDebt = r.stableDebt
      /\ s.cash = r.cash
  BY <1>6, <1>7, <1>8 DEF ReserveData
<1>10. ReserveInOrder(s, t) BY <1>9 DEF ReserveOK, ReserveInOrder
<1> QED BY <1>9, <1>10 DEF ReserveOK, RatesOnly, SameDebts, s

\* The treasury's share is minted like any other balance.
LEMMA UpdateStateBalanced ==
    ASSUME NEW r, NEW t \in Nat, ReserveOK(r, t), NEW rf \in Nat, Balanced(r.aToken)
    PROVE  Balanced(updateState(r, rf, t).aToken)
<1> DEFINE index == nextLiquidityIndex(r, t)
           share == IF rf = 0 THEN 0 ELSE treasuryShare(r, rf, t)
           ledger1 == IF share = 0 THEN r.aToken ELSE scaledMint(r.aToken, Treasury, share, index)
<1>1. index \in Nat \ {0} BY NextLiquidityIndex, RayPositive
<1>2. share \in Nat
  <2>1. currentDebt(r, t) - previousDebt(r) \in Nat BY AccrualDefined DEF accrualDefined
  <2> QED BY <2>1, PercentMulNat DEF treasuryShare
<1>3. Treasury \in Users BY ReserveLogicConstants
<1>4. r.aToken \in ScaledLedger BY ReserveParts
<1>5. updateState(r, rf, t).aToken = ledger1
  BY DEF updateState, ReserveOK, ReserveData
<1>. HIDE DEF index, share
<1> QED BY <1>1, <1>2, <1>3, <1>4, <1>5, ScaledMintBalanced

\* The rates of s are those of its debts and its cash.
RatesMatch(s, rf, t) ==
    LET rates == ratesFor(s, s.cash, rf, t)
    IN  /\ s.currentLiquidityRate = rates.liquidity
        /\ s.currentStableBorrowRate = rates.stable
        /\ s.currentVariableBorrowRate = rates.variable

\* Reserve q after its aTokens and its underlying moved.
Moved(q, l, c) == [q EXCEPT !.aToken = l, !.cash = c]

\* Rates refreshed for liquidity about to move match the reserve once it has
\* moved, whatever happens to the aTokens meanwhile.
LEMMA RatesMatched ==
    ASSUME NEW r, NEW t \in Nat, ReserveOK(r, t),
           NEW added \in Nat, NEW taken \in Nat, NEW rf \in Nat,
           updateInterestRatesAllowed(r, added, taken, rf),
           NEW q, q = updateInterestRates(r, added, taken, rf, t),
           NEW l \in ScaledLedger, NEW c, c = r.cash + added - taken,
           NEW s, s = Moved(q, l, c)
    PROVE  /\ ReserveOK(s, t)
           /\ RatesMatch(s, rf, t)
           /\ SameDebts(s, r)
           /\ s.aToken = l
           /\ s.cash = c
           /\ s.liquidityIndex = r.liquidityIndex
           /\ s.variableBorrowIndex = r.variableBorrowIndex
           /\ s.lastUpdateTimestamp = r.lastUpdateTimestamp
<1> DEFINE rates == ratesFor(r, c, rf, t)
<1>1. ReserveOK(q, t) /\ RatesOnly(q, r) BY UpdateInterestRatesOK
<1>2. c \in Nat
  <2>1. r.cash \in Nat BY ReserveParts
  <2> QED BY <2>1 DEF updateInterestRatesAllowed
<1>3. /\ q.currentLiquidityRate = rates.liquidity
      /\ q.currentStableBorrowRate = rates.stable
      /\ q.currentVariableBorrowRate = rates.variable
  BY DEF updateInterestRates, ReserveOK, ReserveData
<1>. HIDE DEF rates
<1>4. /\ ReserveOK(s, t) /\ s.aToken = l /\ s.cash = c
      /\ s.stableDebt = q.stableDebt /\ s.variableDebt = q.variableDebt
      /\ s.liquidityIndex = q.liquidityIndex
      /\ s.variableBorrowIndex = q.variableBorrowIndex
      /\ s.lastUpdateTimestamp = q.lastUpdateTimestamp
      /\ s.currentLiquidityRate = q.currentLiquidityRate
      /\ s.currentStableBorrowRate = q.currentStableBorrowRate
      /\ s.currentVariableBorrowRate = q.currentVariableBorrowRate
  BY <1>1, <1>2 DEF Moved, ReserveOK, ReserveData, ReserveInOrder
<1>5. /\ s.stableDebt = r.stableDebt /\ s.variableDebt = r.variableDebt
      /\ s.variableBorrowIndex = r.variableBorrowIndex
      /\ s.liquidityIndex = r.liquidityIndex
      /\ s.lastUpdateTimestamp = r.lastUpdateTimestamp
  BY <1>1, <1>4 DEF RatesOnly, SameDebts
<1>6. ratesFor(s, s.cash, rf, t) = rates BY <1>4, <1>5 DEF ratesFor, rates
<1>7. RatesMatch(s, rf, t) BY <1>3, <1>4, <1>6 DEF RatesMatch
<1> QED BY <1>4, <1>5, <1>7 DEF SameDebts

-----------------------------------------------------------------------------
(* The pool.                                                                 *)

PoolInv ==
    /\ PoolTypeOK
    /\ configuration \in [Assets -> Configurations]
    /\ ReservesInOrder
    /\ NoHiddenDebt

\* What the invariant says of one reserve and its configuration.
LEMMA PoolParts ==
    ASSUME PoolInv, NEW a \in Assets
    PROVE  /\ now \in Nat
           /\ ReserveOK(reserves[a], now)
           /\ Factor(a) \in Nat
           /\ configuration[a] \in Configurations
           /\ prices[a] \in Nat \ {0}
           /\ TokenUnit[a] \in Nat \ {0}
<1>1. reserves[a] \in ReserveData /\ ReserveInOrder(reserves[a], now) /\ now \in Nat
  BY DEF PoolInv, PoolTypeOK, ReservesInOrder
<1>2. configuration[a].reserveFactor \in Nat
  BY DEF PoolInv, PoolTypeOK, ReserveConfigurationMap
<1>3. prices[a] \in Nat \ {0} /\ configuration[a] \in Configurations
  BY DEF PoolInv, PoolTypeOK
<1>4. TokenUnit[a] \in Nat \ {0} BY StorageConstants
<1> QED BY <1>1, <1>2, <1>3, <1>4 DEF ReserveOK, Factor

\* The amounts of a call are naturals.
LEMMA RequestsNat == Requests \subseteq Nat
BY PoolConstants, StorageConstants DEF Requests

\* The smaller of two amounts is an amount, and exceeds neither.
LEMMA LesserNat ==
    ASSUME NEW x \in Nat, NEW y \in Nat
    PROVE  lesser(x, y) \in Nat /\ lesser(x, y) <= x /\ lesser(x, y) <= y
BY DEF lesser

-----------------------------------------------------------------------------
(* Flags.                                                                    *)

\* m is a configuration of the users with the borrowing flags of uc.
SameBorrowing(m, uc) ==
    /\ m \in [Users -> UserConfigurationMap]
    /\ \A v \in Users : m[v].borrowing = uc[v].borrowing

\* The two bit setters touch one bit of one user.
LEMMA CollateralFlag ==
    ASSUME NEW uc \in [Users -> UserConfigurationMap], NEW u \in Users, NEW a \in Assets
    PROVE  /\ SameBorrowing(setUsingAsCollateral(uc, u, a, TRUE), uc)
           /\ SameBorrowing(setUsingAsCollateral(uc, u, a, FALSE), uc)
           /\ SameBorrowing(uc, uc)
<1>1. uc[u] \in UserConfigurationMap OBVIOUS
<1>2. ASSUME NEW set \in SUBSET Assets
      PROVE  SameBorrowing([uc EXCEPT ![u] = [uc[u] EXCEPT !.collateral = set]], uc)
  <2>1. /\ [uc[u] EXCEPT !.collateral = set] \in UserConfigurationMap
        /\ [uc[u] EXCEPT !.collateral = set].borrowing = uc[u].borrowing
    BY <1>1 DEF UserConfigurationMap
  <2> QED BY <2>1 DEF SameBorrowing
<1>3. /\ uc[u].collateral \cup {a} \in SUBSET Assets
      /\ uc[u].collateral \ {a} \in SUBSET Assets
  BY <1>1 DEF UserConfigurationMap
<1>4. SameBorrowing(uc, uc) BY DEF SameBorrowing
<1> QED BY <1>2, <1>3, <1>4 DEF setUsingAsCollateral

\* What setBorrowing does to the flags of the user and of everybody else.
LEMMA BorrowingFlag ==
    ASSUME NEW uc \in [Users -> UserConfigurationMap], NEW u \in Users, NEW a \in Assets,
           NEW borrowing \in BOOLEAN
    PROVE  /\ setBorrowing(uc, u, a, borrowing) \in [Users -> UserConfigurationMap]
           /\ a \in setBorrowing(uc, u, a, borrowing)[u].borrowing <=> borrowing
           /\ \A v \in Users, b \in Assets : v # u \/ b # a =>
                 (b \in setBorrowing(uc, u, a, borrowing)[v].borrowing
                    <=> b \in uc[v].borrowing)
<1> DEFINE set == IF borrowing THEN uc[u].borrowing \cup {a} ELSE uc[u].borrowing \ {a}
           m == setBorrowing(uc, u, a, borrowing)
<1>1. uc[u] \in UserConfigurationMap OBVIOUS
<1>2. set \in SUBSET Assets BY <1>1 DEF UserConfigurationMap
<1>3. m = [uc EXCEPT ![u] = [uc[u] EXCEPT !.borrowing = set]] BY DEF setBorrowing
<1>4. /\ a \in set <=> borrowing
      /\ \A b \in Assets \ {a} : b \in set <=> b \in uc[u].borrowing
  OBVIOUS
<1>. HIDE DEF set, m
<1>5. /\ [uc[u] EXCEPT !.borrowing = set] \in UserConfigurationMap
      /\ [uc[u] EXCEPT !.borrowing = set].borrowing = set
  BY <1>1, <1>2 DEF UserConfigurationMap
<1>6. m \in [Users -> UserConfigurationMap]
      /\ m[u].borrowing = set /\ \A v \in Users \ {u} : m[v] = uc[v]
  BY <1>3, <1>5
<1> QED BY <1>4, <1>6 DEF m

-----------------------------------------------------------------------------
(* Reserves.                                                                 *)

\* Replacing the aToken ledger and the cash leaves the debts and the order alone.
LEMMA TokensMoved ==
    ASSUME NEW r, NEW t \in Nat, ReserveOK(r, t), NEW l \in ScaledLedger, NEW c \in Nat
    PROVE  LET s == [r EXCEPT !.aToken = l, !.cash = c]
           IN  ReserveOK(s, t) /\ SameDebts(s, r)
BY DEF ReserveOK, ReserveData, ReserveInOrder, SameDebts

\* Replacing a debt ledger keeps a reserve refreshed at t in order, if the
\* stable one is not ahead of t.
LEMMA StableDebtMoved ==
    ASSUME NEW r, NEW t \in Nat, ReserveOK(r, t), r.lastUpdateTimestamp = t,
           NEW l \in StableLedger, StableClocks(l, t)
    PROVE  LET s == [r EXCEPT !.stableDebt = l]
           IN  /\ ReserveOK(s, t)
               /\ s.lastUpdateTimestamp = t
               /\ s.variableDebt = r.variableDebt
               /\ s.stableDebt = l
               /\ s.cash = r.cash
BY DEF ReserveOK, ReserveData, ReserveInOrder

\* Replacing the variable ledger of a reserve keeps its type and its order.
LEMMA VariableDebtMoved ==
    ASSUME NEW r, NEW t \in Nat, ReserveOK(r, t), r.lastUpdateTimestamp = t,
           NEW v \in ScaledLedger
    PROVE  LET s == [r EXCEPT !.variableDebt = v]
           IN  /\ ReserveOK(s, t)
               /\ s.lastUpdateTimestamp = t
               /\ s.variableDebt = v
               /\ s.stableDebt = r.stableDebt
               /\ s.cash = r.cash
BY DEF ReserveOK, ReserveData, ReserveInOrder

\* A refresh leaves every reserve in order and its debts as they are.
LEMMA RefreshedOK ==
    ASSUME PoolInv, NEW a \in Assets
    PROVE  /\ ReserveOK(Refreshed(a), now)
           /\ Refreshed(a).lastUpdateTimestamp = now
           /\ Refreshed(a).liquidityIndex = nextLiquidityIndex(reserves[a], now)
           /\ Refreshed(a).variableBorrowIndex = nextVariableBorrowIndex(reserves[a], now)
           /\ Refreshed(a).variableDebt = reserves[a].variableDebt
           /\ Refreshed(a).stableDebt = reserves[a].stableDebt
           /\ Refreshed(a).cash = reserves[a].cash
BY PoolParts, UpdateStateOK DEF Refreshed

\* The balances tokens report are naturals.
LEMMA ReportedBalances ==
    ASSUME NEW r, now \in Nat, ReserveOK(r, now), NEW u \in Users
    PROVE  /\ aTokenBalance(r, u) \in Nat
           /\ variableDebtOf(r, u) \in Nat
           /\ r.variableDebt.balances[u] \in Nat
           /\ r.stableDebt.balances[u] \in Nat
           /\ variableDebtOf(r, u) = 0 <=> r.variableDebt.balances[u] = 0
           /\ stableDebtOf(r, u) \in Nat
           /\ stableDebtOf(r, u) = 0 <=> r.stableDebt.balances[u] = 0
<1>1. /\ r.aToken \in ScaledLedger /\ r.variableDebt \in ScaledLedger
      /\ r.stableDebt \in StableLedger /\ StableClocks(r.stableDebt, now)
  BY ReserveParts
<1>2. getNormalizedIncome(r, now) \in Nat /\ RAY <= getNormalizedIncome(r, now)
  BY NextLiquidityIndex
<1>3. getNormalizedDebt(r, now) \in Nat /\ RAY <= getNormalizedDebt(r, now)
  BY NextVariableBorrowIndex, RayPositive
<1>4. aTokenBalance(r, u) \in Nat BY <1>1, <1>2, ScaledBalance DEF aTokenBalance
<1>5. /\ variableDebtOf(r, u) \in Nat
      /\ variableDebtOf(r, u) = 0 <=> r.variableDebt.balances[u] = 0
  BY <1>1, <1>3, ScaledBalance DEF variableDebtOf
<1>6. /\ stableDebtOf(r, u) \in Nat
      /\ stableDebtOf(r, u) = 0 <=> r.stableDebt.balances[u] = 0
  BY <1>1, StableBalance DEF stableDebtOf
<1> QED BY <1>1, <1>4, <1>5, <1>6 DEF ScaledLedger, StableLedger

\* Whoever owes something reported owes something stored.
LEMMA HasDebt ==
    ASSUME NEW r, now \in Nat, ReserveOK(r, now), NEW u \in Users
    PROVE  hasDebt(r, u) <=> stableDebtOf(r, u) + variableDebtOf(r, u) > 0
BY ReportedBalances DEF hasDebt

\* Minting debt keeps a refreshed reserve in order and touches one borrower.
LEMMA MintDebtOK ==
    ASSUME NEW r, now \in Nat, ReserveOK(r, now), r.lastUpdateTimestamp = now,
           NEW user \in Users, NEW amount \in Nat, amount # 0, NEW mode \in InterestRateMode
    PROVE  LET s == mintDebt(r, user, amount, mode)
           IN  /\ ReserveOK(s, now)
               /\ s.lastUpdateTimestamp = now
               /\ s.cash = r.cash
               /\ \A u \in Users \ {user} : hasDebt(s, u) => hasDebt(r, u)
<1>1. /\ r.variableDebt \in ScaledLedger /\ r.stableDebt \in StableLedger
      /\ StableClocks(r.stableDebt, now)
      /\ r.variableBorrowIndex \in Nat \ {0} /\ r.currentStableBorrowRate \in Nat
      /\ r \in ReserveData
  BY ReserveParts, RayPositive DEF ReserveOK
<1>2. CASE mode = STABLE
  <2> DEFINE l == stableMint(r.stableDebt, user, amount, r.currentStableBorrowRate, now)
             s == [r EXCEPT !.stableDebt = l]
  <2>1. /\ l \in StableLedger /\ StableClocks(l, now)
        /\ \A u \in Users \ {user} : l.balances[u] = r.stableDebt.balances[u]
    BY <1>1, StableMintOK
  <2>2. mintDebt(r, user, amount, mode) = s BY <1>2 DEF mintDebt
  <2>. HIDE DEF l
  <2>3. /\ ReserveOK(s, now) /\ s.lastUpdateTimestamp = now /\ s.cash = r.cash
        /\ s.variableDebt = r.variableDebt /\ s.stableDebt = l
    BY <2>1, StableDebtMoved
  <2> QED BY <2>1, <2>2, <2>3 DEF hasDebt
<1>3. CASE mode # STABLE
  <2> DEFINE v == scaledMint(r.variableDebt, user, amount, r.variableBorrowIndex)
             s == [r EXCEPT !.variableDebt = v]
  <2>1. /\ v \in ScaledLedger
        /\ \A u \in Users \ {user} : v.balances[u] = r.variableDebt.balances[u]
    <3>0. r.variableDebt \in ScaledLedger /\ r.variableBorrowIndex \in Nat \ {0}
      BY <1>1
    <3>1. v \in ScaledLedger BY <1>1, ScaledMintOK
    <3>2. \A u \in Users \ {user} : v.balances[u] = r.variableDebt.balances[u]
      BY <3>0 DEF scaledMint, ScaledLedger
    <3> QED BY <3>1, <3>2
  <2>2. mintDebt(r, user, amount, mode) = s BY <1>3 DEF mintDebt
  <2>. HIDE DEF v
  <2>3. /\ ReserveOK(s, now) /\ s.lastUpdateTimestamp = now /\ s.cash = r.cash
        /\ s.variableDebt = v /\ s.stableDebt = r.stableDebt
    BY <2>1, VariableDebtMoved
  <2> QED BY <2>1, <2>2, <2>3 DEF hasDebt
<1> QED BY <1>2, <1>3

\* Burning debt keeps it in order and gives nobody a debt; burning the balance
\* a view reports leaves no debt of that kind.
LEMMA RepayDebtOK ==
    ASSUME NEW r, now \in Nat, ReserveOK(r, now), r.lastUpdateTimestamp = now,
           NEW user \in Users, NEW amount \in Nat, NEW mode \in InterestRateMode,
           repayDebtAllowed(r, user, amount, mode)
    PROVE  LET s == repayDebt(r, user, amount, mode)
           IN  /\ ReserveOK(s, now)
               /\ s.lastUpdateTimestamp = now
               /\ s.cash = r.cash
               /\ \A u \in Users : hasDebt(s, u) => hasDebt(r, u)
               /\ mode = STABLE =>
                     /\ s.variableDebt = r.variableDebt
                     /\ s.stableDebt.balances[user] = stableDebtOf(r, user) - amount
               /\ mode # STABLE =>
                     /\ s.stableDebt = r.stableDebt
                     /\ s.variableDebt = scaledBurn(r.variableDebt, user, amount,
                                                    r.variableBorrowIndex)
<1>1. /\ r.variableDebt \in ScaledLedger /\ r.stableDebt \in StableLedger
      /\ StableClocks(r.stableDebt, now)
      /\ r.variableBorrowIndex \in Nat \ {0}
  BY ReserveParts, RayPositive
<1>2. CASE mode = STABLE
  <2> DEFINE l == stableBurn(r.stableDebt, user, amount, now)
             s == [r EXCEPT !.stableDebt = l]
  <2>0. stableBurnAllowed(r.stableDebt, user, amount, now) BY <1>2 DEF repayDebtAllowed
  <2>1. /\ l \in StableLedger /\ StableClocks(l, now)
        /\ l.balances[user] = stableBalanceOf(r.stableDebt, user, now) - amount
        /\ \A u \in Users \ {user} : l.balances[u] = r.stableDebt.balances[u]
    BY <1>1, <2>0, StableBurnOK
  <2>2. repayDebt(r, user, amount, mode) = s BY <1>2 DEF repayDebt
  <2>. HIDE DEF l
  <2>3. /\ ReserveOK(s, now) /\ s.lastUpdateTimestamp = now /\ s.cash = r.cash
        /\ s.variableDebt = r.variableDebt /\ s.stableDebt = l
    BY <2>1, StableDebtMoved
  <2>4. hasDebt(s, user) => hasDebt(r, user)
    <3>1. /\ stableDebtOf(r, user) \in Nat /\ r.stableDebt.balances[user] \in Nat
          /\ stableDebtOf(r, user) = 0 <=> r.stableDebt.balances[user] = 0
      BY ReportedBalances
    <3>2. l.balances[user] = stableDebtOf(r, user) - amount BY <2>1 DEF stableDebtOf
    <3>3. l.balances[user] > 0 => r.stableDebt.balances[user] > 0 BY <3>1, <3>2
    <3> QED BY <2>3, <3>3 DEF hasDebt
  <2>5. \A u \in Users \ {user} : hasDebt(s, u) => hasDebt(r, u)
    BY <2>1, <2>3 DEF hasDebt
  <2>6. s.stableDebt.balances[user] = stableDebtOf(r, user) - amount
    BY <2>1, <2>3 DEF stableDebtOf
  <2> QED BY <1>2, <2>2, <2>3, <2>4, <2>5, <2>6
<1>3. CASE mode # STABLE
  <2> DEFINE v == scaledBurn(r.variableDebt, user, amount, r.variableBorrowIndex)
             s == [r EXCEPT !.variableDebt = v]
  <2>0. scaledBurnAllowed(r.variableDebt, user, amount, r.variableBorrowIndex)
    BY <1>3 DEF repayDebtAllowed
  <2>1. /\ v \in ScaledLedger
        /\ \A u \in Users : v.balances[u] <= r.variableDebt.balances[u]
    BY <1>1, <2>0, ScaledBurnOK
  <2>2. repayDebt(r, user, amount, mode) = s BY <1>3 DEF repayDebt
  <2>. HIDE DEF v
  <2>3. /\ ReserveOK(s, now) /\ s.lastUpdateTimestamp = now /\ s.cash = r.cash
        /\ s.variableDebt = v /\ s.stableDebt = r.stableDebt
    BY <2>1, VariableDebtMoved
  <2>4. \A u \in Users : hasDebt(s, u) => hasDebt(r, u)
    <3>1. \A u \in Users : v.balances[u] \in Nat /\ r.variableDebt.balances[u] \in Nat
      BY <1>1, <2>1 DEF ScaledLedger
    <3>2. \A u \in Users : v.balances[u] > 0 => r.variableDebt.balances[u] > 0
      BY <2>1, <3>1
    <3> QED BY <2>3, <3>2 DEF hasDebt
  <2> QED BY <1>3, <2>2, <2>3, <2>4 DEF v
<1> QED BY <1>2, <1>3

-----------------------------------------------------------------------------
(* Operations on one reserve.                                                *)

\* An operation that stores a reserve in order keeps the invariant, provided the
\* flags it leaves cover the debts of that reserve and keep those of the others.
LEMMA StoreInv ==
    ASSUME PoolInv, NEW a \in Assets, NEW r, ReserveOK(r, now),
           reserves' = [reserves EXCEPT ![a] = r],
           configuration' = configuration, prices' = prices, now' = now, paused' = paused,
           allowances' \in [Assets -> [InterestRateMode -> [Users -> [Users -> Nat]]]],
           wallets' \in [Assets -> [Users -> Nat]],
           usersConfig' \in [Users -> UserConfigurationMap],
           \A u \in Users, b \in Assets \ {a} :
               b \in usersConfig[u].borrowing => b \in usersConfig'[u].borrowing,
           \A u \in Users : hasDebt(r, u) => a \in usersConfig'[u].borrowing
    PROVE  PoolInv'
<1>1. r \in ReserveData /\ ReserveInOrder(r, now) BY DEF ReserveOK
<1>2. \A b \in Assets : reserves'[b] = IF b = a THEN r ELSE reserves[b]
  BY DEF PoolInv, PoolTypeOK
<1>3. PoolTypeOK' BY <1>1 DEF PoolInv, PoolTypeOK
<1>4. ReservesInOrder' BY <1>1, <1>2 DEF PoolInv, ReservesInOrder
<1>5. NoHiddenDebt' BY <1>2 DEF PoolInv, NoHiddenDebt
<1> QED BY <1>3, <1>4, <1>5 DEF PoolInv

\* The same when debts and borrowing flags stay as they are.
LEMMA StoreTokensInv ==
    ASSUME PoolInv, NEW a \in Assets, NEW r, ReserveOK(r, now),
           SameDebts(r, reserves[a]),
           reserves' = [reserves EXCEPT ![a] = r],
           configuration' = configuration, prices' = prices, now' = now, paused' = paused,
           allowances' = allowances,
           wallets' \in [Assets -> [Users -> Nat]],
           SameBorrowing(usersConfig', usersConfig)
    PROVE  PoolInv'
<1>1. \A u \in Users : hasDebt(r, u) => a \in usersConfig'[u].borrowing
  BY DEF PoolInv, NoHiddenDebt, hasDebt, SameDebts, SameBorrowing
<1>2. allowances \in [Assets -> [InterestRateMode -> [Users -> [Users -> Nat]]]]
  BY DEF PoolInv, PoolTypeOK
<1>3. /\ usersConfig' \in [Users -> UserConfigurationMap]
      /\ \A u \in Users, b \in Assets \ {a} :
            b \in usersConfig[u].borrowing => b \in usersConfig'[u].borrowing
  BY DEF SameBorrowing
<1> QED BY <1>1, <1>2, <1>3, StoreInv

\* Underlying that changes hands stays counted in naturals.
LEMMA WalletPaid ==
    ASSUME PoolInv, NEW a \in Assets, NEW u \in Users, NEW x \in Nat
    PROVE  /\ [wallets EXCEPT ![a][u] = @ + x] \in [Assets -> [Users -> Nat]]
           /\ wallets[a][u] >= x =>
                [wallets EXCEPT ![a][u] = @ - x] \in [Assets -> [Users -> Nat]]
<1>1. wallets \in [Assets -> [Users -> Nat]] /\ wallets[a][u] \in Nat
  BY DEF PoolInv, PoolTypeOK
<1>2. wallets[a][u] + x \in Nat /\ wallets[a][u] >= x => wallets[a][u] - x \in Nat
  BY <1>1
<1> QED BY <1>1, <1>2

\* deposit preserves the invariant: it mints aTokens and touches no debt.
LEMMA DepositInv ==
    ASSUME PoolInv, NEW caller \in Users, NEW a \in Assets, NEW amount \in Amounts,
           NEW onBehalfOf \in Users, Deposit(caller, a, amount, onBehalfOf)
    PROVE  PoolInv'
<1> DEFINE r1 == Refreshed(a)
           r2 == updateInterestRates(r1, amount, 0, Factor(a), now)
           l  == scaledMint(r2.aToken, onBehalfOf, amount, r2.liquidityIndex)
           c  == r2.cash + amount
           r3 == [r2 EXCEPT !.aToken = l, !.cash = c]
<1>1. amount \in Nat /\ 0 \in Nat BY PoolConstants
<1>2. now \in Nat /\ Factor(a) \in Nat BY PoolParts
<1>3. ReserveOK(r1, now) BY RefreshedOK
<1>4. SameDebts(r1, reserves[a]) BY RefreshedOK DEF SameDebts
<1>5. updateInterestRatesAllowed(r1, amount, 0, Factor(a)) BY DEF Deposit
<1>6. ReserveOK(r2, now) /\ RatesOnly(r2, r1)
  BY <1>1, <1>2, <1>3, <1>5, UpdateInterestRatesOK, Zenon
<1>. DEFINE paid == [wallets EXCEPT ![a][caller] = @ - amount]
<1>7. /\ reserves' = [reserves EXCEPT ![a] = r3]
      /\ wallets[a][caller] >= amount /\ wallets' = paid
  BY DEF Deposit, Store
<1>8. \/ usersConfig' = setUsingAsCollateral(usersConfig, onBehalfOf, a, TRUE)
      \/ usersConfig' = usersConfig
  BY DEF Deposit
<1>9. /\ configuration' = configuration /\ prices' = prices /\ now' = now
      /\ paused' = paused /\ allowances' = allowances
  BY DEF Deposit
<1>. HIDE DEF r1, r2
<1>10. /\ r2.aToken \in ScaledLedger /\ c \in Nat
       /\ r2.liquidityIndex \in Nat \ {0}
  BY <1>1, <1>2, <1>6, ReserveParts, RayPositive
<1>11. l \in ScaledLedger BY <1>1, <1>10, ScaledMintOK
<1>. HIDE DEF l, c
<1>12. ReserveOK(r3, now) /\ SameDebts(r3, r2) BY <1>2, <1>6, <1>10, <1>11, TokensMoved
<1>. HIDE DEF r3
<1>13. SameDebts(r3, reserves[a]) BY <1>4, <1>6, <1>12 DEF RatesOnly, SameDebts
<1>14. wallets' \in [Assets -> [Users -> Nat]] BY <1>1, <1>7, WalletPaid
<1>15. SameBorrowing(usersConfig', usersConfig)
  <2>1. usersConfig \in [Users -> UserConfigurationMap] BY DEF PoolInv, PoolTypeOK
  <2> QED BY <1>8, <2>1, CollateralFlag, Zenon
<1> QED BY <1>7, <1>9, <1>12, <1>13, <1>14, <1>15, StoreTokensInv, Zenon

\* withdraw preserves the invariant: the burn is covered and touches no debt.
LEMMA WithdrawInv ==
    ASSUME PoolInv, NEW caller \in Users, NEW a \in Assets, NEW request \in Requests,
           NEW to \in Users, Withdraw(caller, a, request, to)
    PROVE  PoolInv'
<1> DEFINE userBalance == aTokenBalance(reserves[a], caller)
           amount == IF request = MAX_UINT256 THEN userBalance ELSE request
           r1 == Refreshed(a)
           r2 == updateInterestRates(r1, 0, amount, Factor(a), now)
           l  == scaledBurn(r2.aToken, caller, amount, r2.liquidityIndex)
           c  == r2.cash - amount
           r3 == [r2 EXCEPT !.aToken = l, !.cash = c]
           paid == [wallets EXCEPT ![a][to] = @ + amount]
<1>1. now \in Nat /\ Factor(a) \in Nat /\ 0 \in Nat /\ ReserveOK(reserves[a], now)
  BY PoolParts
<1>2. amount \in Nat BY <1>1, RequestsNat, ReportedBalances
<1>3. ReserveOK(r1, now) /\ r1.cash = reserves[a].cash BY RefreshedOK
<1>4. SameDebts(r1, reserves[a]) BY RefreshedOK DEF SameDebts
<1>5. updateInterestRatesAllowed(r1, 0, amount, Factor(a)) BY DEF Withdraw
<1>6. /\ amount <= reserves[a].cash
      /\ scaledBurnAllowed(r2.aToken, caller, amount, r2.liquidityIndex)
      /\ reserves' = [reserves EXCEPT ![a] = r3]
      /\ wallets' = paid
  BY DEF Withdraw, Store
<1>7. \/ usersConfig' = setUsingAsCollateral(usersConfig, caller, a, FALSE)
      \/ usersConfig' = usersConfig
  BY DEF Withdraw
<1>8. /\ configuration' = configuration /\ prices' = prices /\ now' = now
      /\ paused' = paused /\ allowances' = allowances
  BY DEF Withdraw
<1>. HIDE DEF amount, r1
<1>9. ReserveOK(r2, now) /\ RatesOnly(r2, r1)
  BY <1>1, <1>2, <1>3, <1>5, UpdateInterestRatesOK, Zenon
<1>. HIDE DEF r2
<1>10. /\ r2.aToken \in ScaledLedger /\ r2.liquidityIndex \in Nat \ {0}
       /\ r2.cash \in Nat /\ r2.cash = reserves[a].cash
  BY <1>1, <1>3, <1>9, ReserveParts, RayPositive DEF RatesOnly
<1>11. c \in Nat BY <1>2, <1>6, <1>10
<1>12. l \in ScaledLedger BY <1>2, <1>6, <1>10, ScaledBurnOK
<1>. HIDE DEF l, c
<1>13. ReserveOK(r3, now) /\ SameDebts(r3, r2) BY <1>1, <1>9, <1>11, <1>12, TokensMoved
<1>. HIDE DEF r3
<1>14. SameDebts(r3, reserves[a]) BY <1>4, <1>9, <1>13 DEF RatesOnly, SameDebts
<1>15. wallets' \in [Assets -> [Users -> Nat]] BY <1>2, <1>6, WalletPaid
<1>16. SameBorrowing(usersConfig', usersConfig)
  <2>1. usersConfig \in [Users -> UserConfigurationMap] BY DEF PoolInv, PoolTypeOK
  <2> QED BY <1>7, <2>1, CollateralFlag, Zenon
<1> QED BY <1>6, <1>8, <1>13, <1>14, <1>15, <1>16, StoreTokensInv, Zenon

\* A transfer of aTokens, with its hook, preserves the invariant.
LEMMA TransferInv ==
    ASSUME PoolInv, NEW from \in Users, NEW a \in Assets, NEW amount \in Amounts,
           NEW to \in Users, TransferAToken(from, a, amount, to)
    PROVE  PoolInv'
<1> DEFINE r  == reserves[a]
           index == getNormalizedIncome(r, now)
           l  == scaledTransfer(r.aToken, from, to, amount, index)
           r1 == [r EXCEPT !.aToken = l]
           emptied == from # to /\ aTokenBalance(r, from) = amount
           first == from # to /\ aTokenBalance(r, to) = 0 /\ amount # 0
           flags1 == IF emptied THEN setUsingAsCollateral(usersConfig, from, a, FALSE)
                     ELSE usersConfig
<1>1. amount \in Nat BY PoolConstants
<1>2. now \in Nat /\ ReserveOK(r, now) BY PoolParts
<1>3. r.aToken \in ScaledLedger /\ index \in Nat \ {0}
  BY <1>2, ReserveParts, NextLiquidityIndex, RayPositive
<1>4. /\ scaledTransferAllowed(r.aToken, from, amount, index)
      /\ reserves' = [reserves EXCEPT ![a] = r1]
  BY DEF TransferAToken
<1>5. usersConfig' = IF first THEN setUsingAsCollateral(flags1, to, a, TRUE) ELSE flags1
  BY DEF TransferAToken
<1>6. /\ configuration' = configuration /\ prices' = prices /\ now' = now
      /\ paused' = paused /\ allowances' = allowances /\ wallets' = wallets
  BY DEF TransferAToken
<1>7. l \in ScaledLedger BY <1>1, <1>3, <1>4, ScaledTransferOK
<1>. HIDE DEF l
<1>8. ReserveOK(r1, now) /\ SameDebts(r1, r)
  BY <1>2, <1>7 DEF ReserveOK, ReserveData, ReserveInOrder, SameDebts
<1>9. SameBorrowing(usersConfig', usersConfig)
  <2>1. usersConfig \in [Users -> UserConfigurationMap] BY DEF PoolInv, PoolTypeOK
  <2>2. SameBorrowing(flags1, usersConfig) BY <2>1, CollateralFlag
  <2>. HIDE DEF flags1, first
  <2>3. flags1 \in [Users -> UserConfigurationMap] BY <2>2 DEF SameBorrowing
  <2>4. SameBorrowing(usersConfig', flags1) BY <1>5, <2>3, CollateralFlag
  <2> QED BY <2>2, <2>4 DEF SameBorrowing
<1>10. wallets' \in [Assets -> [Users -> Nat]] BY <1>6 DEF PoolInv, PoolTypeOK
<1>. HIDE DEF r1
<1> QED BY <1>4, <1>6, <1>8, <1>9, <1>10, StoreTokensInv, Zenon

-----------------------------------------------------------------------------
(* Operations on a debt.                                                     *)

\* Refreshing the rates and moving cash afterwards leaves the debts alone.
LEMMA SettledOK ==
    ASSUME NEW r, now \in Nat, ReserveOK(r, now), NEW added \in Nat, NEW taken \in Nat,
           NEW rf \in Nat, updateInterestRatesAllowed(r, added, taken, rf), NEW c \in Nat
    PROVE  LET s == [updateInterestRates(r, added, taken, rf, now) EXCEPT !.cash = c]
           IN  ReserveOK(s, now) /\ SameDebts(s, r)
<1> DEFINE q == updateInterestRates(r, added, taken, rf, now)
           s == [q EXCEPT !.cash = c]
<1>1. ReserveOK(q, now) /\ RatesOnly(q, r) BY UpdateInterestRatesOK
<1>. HIDE DEF q
<1>2. ReserveOK(s, now) /\ SameDebts(s, q)
  BY <1>1 DEF ReserveOK, ReserveData, ReserveInOrder, SameDebts
<1>3. ReserveOK(s, now) /\ SameDebts(s, r) BY <1>1, <1>2 DEF RatesOnly, SameDebts
<1> QED BY <1>3 DEF q

\* The reserve a refresh leaves has the debts stored before it.
LEMMA RefreshedDebts ==
    ASSUME PoolInv, NEW a \in Assets, NEW u \in Users
    PROVE  /\ hasDebt(Refreshed(a), u) => a \in usersConfig[u].borrowing
           /\ stableDebtOf(Refreshed(a), u) = stableDebtOf(reserves[a], u)
BY RefreshedOK DEF PoolInv, NoHiddenDebt, hasDebt, stableDebtOf

\* borrow preserves the invariant: the debt it opens is flagged, now or before.
LEMMA BorrowInv ==
    ASSUME PoolInv, NEW caller \in Users, NEW a \in Assets, NEW amount \in Amounts,
           NEW mode \in InterestRateMode, NEW onBehalfOf \in Users,
           Borrow(caller, a, amount, mode, onBehalfOf)
    PROVE  PoolInv'
<1> DEFINE r1 == Refreshed(a)
           r2 == mintDebt(r1, onBehalfOf, amount, mode)
           q  == updateInterestRates(r2, 0, amount, Factor(a), now)
           c  == q.cash - amount
           r3 == [q EXCEPT !.cash = c]
           paid == [wallets EXCEPT ![a][caller] = @ + amount]
           spent == decreaseBorrowAllowance(a, mode, onBehalfOf, caller, amount)
           first == isFirstBorrowing(r1, onBehalfOf, mode)
<1>1. amount \in Nat /\ 0 \in Nat BY PoolConstants
<1>2. now \in Nat /\ Factor(a) \in Nat BY PoolParts
<1>3. /\ ReserveOK(r1, now) /\ r1.lastUpdateTimestamp = now /\ r1.cash = reserves[a].cash
  BY RefreshedOK
<1>4. amount # 0 BY DEF Borrow, validateBorrow
<1>5. /\ amount <= reserves[a].cash
      /\ updateInterestRatesAllowed(r2, 0, amount, Factor(a))
      /\ reserves' = [reserves EXCEPT ![a] = r3]
      /\ wallets' = paid
  BY DEF Borrow, Store
<1>6. /\ configuration' = configuration /\ prices' = prices /\ now' = now
      /\ paused' = paused
  BY DEF Borrow
<1>7. usersConfig' = IF first THEN setBorrowing(usersConfig, onBehalfOf, a, TRUE)
                     ELSE usersConfig
  BY DEF Borrow
<1>8. \/ allowances' = allowances
      \/ amount <= allowances[a][mode][onBehalfOf][caller] /\ allowances' = spent
  BY DEF Borrow
<1>9. first \/ hasDebt(r1, onBehalfOf)
  BY <1>2, <1>3, ReportedBalances DEF isFirstBorrowing, hasDebt
<1>. HIDE DEF r1, first
<1>10. /\ ReserveOK(r2, now) /\ r2.cash = r1.cash
       /\ \A u \in Users \ {onBehalfOf} : hasDebt(r2, u) => hasDebt(r1, u)
  BY <1>1, <1>2, <1>3, <1>4, MintDebtOK
<1>. HIDE DEF r2
<1>11. q.cash = r2.cash
  <2>1. RatesOnly(q, r2) BY <1>1, <1>2, <1>5, <1>10, UpdateInterestRatesOK, Zenon
  <2> QED BY <2>1 DEF RatesOnly
<1>12. c \in Nat
  <2>1. r2.cash \in Nat BY <1>2, <1>10, ReserveParts
  <2> QED BY <2>1, <1>1, <1>3, <1>5, <1>10, <1>11
<1>. HIDE DEF c
<1>13. ReserveOK(r3, now) /\ SameDebts(r3, r2)
  BY <1>1, <1>2, <1>5, <1>10, <1>12, SettledOK, Zenon
<1>. HIDE DEF r3
<1>14. wallets' \in [Assets -> [Users -> Nat]] BY <1>1, <1>5, WalletPaid
<1>15. allowances' \in [Assets -> [InterestRateMode -> [Users -> [Users -> Nat]]]]
  <2>1. allowances \in [Assets -> [InterestRateMode -> [Users -> [Users -> Nat]]]]
    BY DEF PoolInv, PoolTypeOK
  <2>2. allowances[a][mode][onBehalfOf][caller] \in Nat BY <2>1
  <2>3. amount <= allowances[a][mode][onBehalfOf][caller]
          => allowances[a][mode][onBehalfOf][caller] - amount \in Nat
    BY <1>1, <2>2
  <2>4. amount <= allowances[a][mode][onBehalfOf][caller]
          => spent \in [Assets -> [InterestRateMode -> [Users -> [Users -> Nat]]]]
    BY <2>1, <2>3 DEF decreaseBorrowAllowance
  <2> QED BY <1>8, <2>1, <2>4
<1>16. usersConfig \in [Users -> UserConfigurationMap] BY DEF PoolInv, PoolTypeOK
<1>17. /\ usersConfig' \in [Users -> UserConfigurationMap]
       /\ \A u \in Users, b \in Assets :
             b \in usersConfig[u].borrowing => b \in usersConfig'[u].borrowing
       /\ first => a \in usersConfig'[onBehalfOf].borrowing
  BY <1>7, <1>16, BorrowingFlag
<1>18. \A u \in Users : hasDebt(r3, u) => a \in usersConfig'[u].borrowing
  <2>1. ASSUME NEW u \in Users \ {onBehalfOf}, hasDebt(r3, u)
        PROVE  a \in usersConfig'[u].borrowing
    <3>1. hasDebt(r1, u) BY <1>10, <1>13, <2>1 DEF SameDebts, hasDebt
    <3> QED BY <1>17, <3>1, RefreshedDebts DEF r1
  <2>2. a \in usersConfig'[onBehalfOf].borrowing
    BY <1>9, <1>17, RefreshedDebts DEF r1
  <2> QED BY <2>1, <2>2
<1>19. \A u \in Users, b \in Assets \ {a} :
          b \in usersConfig[u].borrowing => b \in usersConfig'[u].borrowing
  BY <1>17
<1> QED BY <1>5, <1>6, <1>13, <1>14, <1>15, <1>17, <1>18, <1>19, StoreInv, Zenon

\* repay preserves the invariant: it clears the flag only when both debts, read
\* before the indexes move, are repaid to the last scaled unit.
LEMMA RepayInv ==
    ASSUME PoolInv, NEW caller \in Users, NEW a \in Assets, NEW request \in Requests,
           NEW mode \in InterestRateMode, NEW onBehalfOf \in Users,
           Repay(caller, a, request, mode, onBehalfOf)
    PROVE  PoolInv'
<1> DEFINE stableDebt   == stableDebtOf(reserves[a], onBehalfOf)
           variableDebt == variableDebtOf(reserves[a], onBehalfOf)
           debt    == IF mode = STABLE THEN stableDebt ELSE variableDebt
           payback == lesser(request, debt)
           whole   == stableDebt + variableDebt - payback = 0
           r1 == Refreshed(a)
           r2 == repayDebt(r1, onBehalfOf, payback, mode)
           q  == updateInterestRates(r2, payback, 0, Factor(a), now)
           c  == q.cash + payback
           r3 == [q EXCEPT !.cash = c]
           paid == [wallets EXCEPT ![a][caller] = @ - payback]
<1>1. now \in Nat /\ Factor(a) \in Nat /\ 0 \in Nat /\ ReserveOK(reserves[a], now)
  BY PoolParts
<1>2. /\ stableDebt \in Nat /\ variableDebt \in Nat
      /\ payback \in Nat /\ payback <= debt
  BY <1>1, RequestsNat, ReportedBalances, LesserNat
<1>3. /\ ReserveOK(r1, now) /\ r1.lastUpdateTimestamp = now
      /\ r1.variableDebt = reserves[a].variableDebt
      /\ r1.stableDebt = reserves[a].stableDebt
      /\ r1.variableBorrowIndex = nextVariableBorrowIndex(reserves[a], now)
  BY RefreshedOK
<1>4. /\ wallets[a][caller] >= payback
      /\ repayDebtAllowed(r1, onBehalfOf, payback, mode)
      /\ updateInterestRatesAllowed(r2, payback, 0, Factor(a))
      /\ reserves' = [reserves EXCEPT ![a] = r3]
      /\ wallets' = paid
  BY DEF Repay, Store
<1>5. /\ configuration' = configuration /\ prices' = prices /\ now' = now
      /\ paused' = paused /\ allowances' = allowances
  BY DEF Repay
<1>6. usersConfig' = IF whole THEN setBorrowing(usersConfig, onBehalfOf, a, FALSE)
                     ELSE usersConfig
  BY DEF Repay, nothingLeft
<1>7. stableDebtOf(r1, onBehalfOf) = stableDebt BY RefreshedDebts
<1>8. /\ stableDebt = 0 => r1.stableDebt.balances[onBehalfOf] = 0
      /\ variableDebt = 0 => r1.variableDebt.balances[onBehalfOf] = 0
  BY <1>1, <1>3, ReportedBalances
<1>9. whole => \/ mode = STABLE /\ payback = stableDebt /\ variableDebt = 0
               \/ mode # STABLE /\ payback = variableDebt /\ stableDebt = 0
  BY <1>2
<1>10. ASSUME payback = variableDebt, mode # STABLE
       PROVE  scaledBurn(r1.variableDebt, onBehalfOf, payback,
                         r1.variableBorrowIndex).balances[onBehalfOf] = 0
  <2> DEFINE reported == getNormalizedDebt(reserves[a], now)
             index == r1.variableBorrowIndex
             l == r1.variableDebt
  <2>1. /\ index \in Nat /\ RAY <= index /\ reported \in Nat /\ index <= reported
    BY <1>1, <1>3, NextVariableBorrowIndex
  <2>2. payback = scaledBalanceOf(l, onBehalfOf, reported)
    BY <1>3, <1>10 DEF variableDebtOf
  <2>3. scaledBurnAllowed(l, onBehalfOf, payback, index)
    BY <1>4, <1>10 DEF repayDebtAllowed
  <2>4. l \in ScaledLedger BY <1>1, <1>3, ReserveParts
  <2>. HIDE DEF index, l, reported, payback
  <2>5. scaledBurn(l, onBehalfOf, payback, index).balances[onBehalfOf] = 0
    BY <2>1, <2>2, <2>3, <2>4, FullScaledBurn
  <2> QED BY <2>5 DEF l, index
<1>. HIDE DEF r1, payback, whole, stableDebt, variableDebt
<1>11. /\ ReserveOK(r2, now) /\ r2.cash = r1.cash
       /\ \A u \in Users : hasDebt(r2, u) => hasDebt(r1, u)
       /\ mode = STABLE =>
             /\ r2.variableDebt = r1.variableDebt
             /\ r2.stableDebt.balances[onBehalfOf] = stableDebtOf(r1, onBehalfOf) - payback
       /\ mode # STABLE =>
             /\ r2.stableDebt = r1.stableDebt
             /\ r2.variableDebt = scaledBurn(r1.variableDebt, onBehalfOf, payback,
                                             r1.variableBorrowIndex)
  BY <1>1, <1>2, <1>3, <1>4, RepayDebtOK
<1>12. whole => ~hasDebt(r2, onBehalfOf)
  <2>1. ASSUME mode = STABLE, payback = stableDebt, variableDebt = 0
        PROVE  ~hasDebt(r2, onBehalfOf)
    <3>1. r2.stableDebt.balances[onBehalfOf] = 0 BY <1>2, <1>7, <1>11, <2>1
    <3>2. r2.variableDebt.balances[onBehalfOf] = 0 BY <1>8, <1>11, <2>1
    <3> QED BY <3>1, <3>2 DEF hasDebt
  <2>2. ASSUME mode # STABLE, payback = variableDebt, stableDebt = 0
        PROVE  ~hasDebt(r2, onBehalfOf)
    <3>1. r2.stableDebt.balances[onBehalfOf] = 0 BY <1>8, <1>11, <2>2
    <3>2. r2.variableDebt.balances[onBehalfOf] = 0 BY <1>10, <1>11, <2>2
    <3> QED BY <3>1, <3>2 DEF hasDebt
  <2> QED BY <1>9, <2>1, <2>2
<1>. HIDE DEF r2
<1>13. c \in Nat
  <2>1. RatesOnly(q, r2) BY <1>1, <1>2, <1>4, <1>11, UpdateInterestRatesOK, Zenon
  <2>2. r2.cash \in Nat BY <1>1, <1>11, ReserveParts
  <2> QED BY <2>1, <2>2, <1>2 DEF RatesOnly
<1>. HIDE DEF c
<1>14. ReserveOK(r3, now) /\ SameDebts(r3, r2)
  BY <1>1, <1>2, <1>4, <1>11, <1>13, SettledOK, Zenon
<1>. HIDE DEF r3
<1>15. wallets' \in [Assets -> [Users -> Nat]] BY <1>2, <1>4, WalletPaid
<1>16. allowances' \in [Assets -> [InterestRateMode -> [Users -> [Users -> Nat]]]]
  BY <1>5 DEF PoolInv, PoolTypeOK
<1>17. usersConfig \in [Users -> UserConfigurationMap] BY DEF PoolInv, PoolTypeOK
<1>18. /\ usersConfig' \in [Users -> UserConfigurationMap]
       /\ \A u \in Users, b \in Assets : u # onBehalfOf \/ b # a \/ ~whole =>
             (b \in usersConfig[u].borrowing => b \in usersConfig'[u].borrowing)
  BY <1>6, <1>17, BorrowingFlag
<1>19. \A u \in Users, b \in Assets \ {a} :
          b \in usersConfig[u].borrowing => b \in usersConfig'[u].borrowing
  BY <1>18
<1>20. ASSUME NEW u \in Users, hasDebt(r3, u) PROVE a \in usersConfig'[u].borrowing
  <2>1. hasDebt(r2, u) BY <1>14, <1>20 DEF SameDebts, hasDebt
  <2>2. a \in usersConfig[u].borrowing BY <1>11, <2>1, RefreshedDebts DEF r1
  <2>3. u # onBehalfOf \/ ~whole BY <1>12, <2>1
  <2> QED BY <1>18, <2>2, <2>3
<1> QED BY <1>4, <1>5, <1>14, <1>15, <1>16, <1>18, <1>19, <1>20, StoreInv

\* Both rate operations burn a whole debt and mint it again.
LEMMA ReplacedDebtInv ==
    ASSUME PoolInv, NEW a \in Assets, NEW user \in Users, NEW debt \in Nat, debt # 0,
           NEW from \in InterestRateMode, NEW to \in InterestRateMode,
           a \in usersConfig[user].borrowing,
           repayDebtAllowed(Refreshed(a), user, debt, from),
           NEW r3, r3 = mintDebt(repayDebt(Refreshed(a), user, debt, from), user, debt, to),
           updateInterestRatesAllowed(r3, 0, 0, Factor(a)),
           Store(a, updateInterestRates(r3, 0, 0, Factor(a), now)),
           UNCHANGED <<configuration, usersConfig, allowances, wallets, prices, paused, now>>
    PROVE  PoolInv'
<1> DEFINE r1 == Refreshed(a)
           r2 == repayDebt(r1, user, debt, from)
           r4 == updateInterestRates(r3, 0, 0, Factor(a), now)
<1>1. now \in Nat /\ Factor(a) \in Nat /\ 0 \in Nat BY PoolParts
<1>2. ReserveOK(r1, now) /\ r1.lastUpdateTimestamp = now BY RefreshedOK
<1>3. reserves' = [reserves EXCEPT ![a] = r4] BY DEF Store
<1>4. repayDebtAllowed(r1, user, debt, from) /\ r3 = mintDebt(r2, user, debt, to) OBVIOUS
<1>5. \A u \in Users : hasDebt(r1, u) => a \in usersConfig[u].borrowing BY RefreshedDebts
<1>. HIDE DEF r1
<1>6. /\ ReserveOK(r2, now) /\ r2.lastUpdateTimestamp = now
      /\ \A u \in Users : hasDebt(r2, u) => hasDebt(r1, u)
  BY <1>1, <1>2, <1>4, RepayDebtOK
<1>. HIDE DEF r2
<1>7. /\ ReserveOK(r3, now)
      /\ \A u \in Users \ {user} : hasDebt(r3, u) => hasDebt(r2, u)
  <2> DEFINE minted == mintDebt(r2, user, debt, to)
  <2>1. /\ ReserveOK(minted, now)
        /\ \A u \in Users \ {user} : hasDebt(minted, u) => hasDebt(r2, u)
    BY <1>1, <1>6, MintDebtOK, Zenon
  <2>2. r3 = minted BY <1>4
  <2> QED BY <2>1, <2>2, Zenon
<1>8. ReserveOK(r4, now) /\ RatesOnly(r4, r3)
  BY <1>1, <1>7, UpdateInterestRatesOK, Zenon
<1>. HIDE DEF r4
<1>9. ASSUME NEW u \in Users, hasDebt(r4, u) PROVE a \in usersConfig[u].borrowing
  <2>1. hasDebt(r3, u) BY <1>8, <1>9 DEF RatesOnly, SameDebts, hasDebt
  <2> QED BY <1>5, <1>6, <1>7, <2>1
<1>10. /\ usersConfig \in [Users -> UserConfigurationMap]
       /\ wallets \in [Assets -> [Users -> Nat]]
       /\ allowances \in [Assets -> [InterestRateMode -> [Users -> [Users -> Nat]]]]
  BY DEF PoolInv, PoolTypeOK
<1> QED BY <1>3, <1>8, <1>9, <1>10, StoreInv

\* swapBorrowRateMode preserves the invariant: the debt stays in its reserve.
LEMMA SwapBorrowRateModeInv ==
    ASSUME PoolInv, NEW caller \in Users, NEW a \in Assets, NEW mode \in InterestRateMode,
           SwapBorrowRateMode(caller, a, mode)
    PROVE  PoolInv'
<1> DEFINE debt == IF mode = STABLE
                   THEN stableDebtOf(reserves[a], caller)
                   ELSE variableDebtOf(reserves[a], caller)
           r3 == mintDebt(repayDebt(Refreshed(a), caller, debt, mode), caller, debt,
                          otherMode(mode))
<1>1. now \in Nat /\ ReserveOK(reserves[a], now) BY PoolParts
<1>2. mode = STABLE \/ mode = VARIABLE_MODE BY DEF InterestRateMode
<1>3. debt > 0 BY <1>2 DEF SwapBorrowRateMode, validateSwapRateMode
<1>4. /\ debt \in Nat /\ debt # 0 /\ otherMode(mode) \in InterestRateMode
      /\ hasDebt(reserves[a], caller)
  BY <1>1, <1>3, ReportedBalances DEF otherMode, InterestRateMode, hasDebt
<1>5. a \in usersConfig[caller].borrowing BY <1>4 DEF PoolInv, NoHiddenDebt
<1>6. /\ repayDebtAllowed(Refreshed(a), caller, debt, mode)
      /\ updateInterestRatesAllowed(r3, 0, 0, Factor(a))
      /\ Store(a, updateInterestRates(r3, 0, 0, Factor(a), now))
      /\ UNCHANGED <<configuration, usersConfig, allowances, wallets, prices, paused, now>>
  BY DEF SwapBorrowRateMode
<1>. HIDE DEF debt
<1> QED BY <1>4, <1>5, <1>6, ReplacedDebtInv

\* rebalanceStableBorrowRate preserves the invariant: it replaces a stable debt.
LEMMA RebalanceInv ==
    ASSUME PoolInv, NEW a \in Assets, NEW user \in Users, RebalanceStableBorrowRate(a, user)
    PROVE  PoolInv'
<1> DEFINE debt == stableDebtOf(reserves[a], user)
           r3 == mintDebt(repayDebt(Refreshed(a), user, debt, STABLE), user, debt, STABLE)
<1>1. now \in Nat /\ ReserveOK(reserves[a], now) BY PoolParts
<1>2. debt > 0 BY DEF RebalanceStableBorrowRate
<1>3. /\ debt \in Nat /\ debt # 0 /\ STABLE \in InterestRateMode
      /\ hasDebt(reserves[a], user)
  BY <1>1, <1>2, ReportedBalances DEF InterestRateMode, hasDebt
<1>4. a \in usersConfig[user].borrowing BY <1>3 DEF PoolInv, NoHiddenDebt
<1>5. /\ updateInterestRatesAllowed(r3, 0, 0, Factor(a))
      /\ Store(a, updateInterestRates(r3, 0, 0, Factor(a), now))
      /\ UNCHANGED <<configuration, usersConfig, allowances, wallets, prices, paused, now>>
  BY DEF RebalanceStableBorrowRate
<1>6. repayDebtAllowed(Refreshed(a), user, debt, STABLE)
  <2>1. debt = stableBalanceOf(Refreshed(a).stableDebt, user, now)
    BY RefreshedOK DEF stableDebtOf
  <2> QED BY <1>3, <2>1 DEF repayDebtAllowed, stableBurnAllowed
<1>. HIDE DEF debt
<1> QED BY <1>3, <1>4, <1>5, <1>6, ReplacedDebtInv

-----------------------------------------------------------------------------
(* Liquidation.                                                              *)

\* The terms of a liquidation are naturals; the treasury's part is part of the
\* collateral because the reserve percentage is part of the bonus.
LEMMA LiquidationTermsNat ==
    ASSUME PoolInv, NEW c \in Assets, NEW d \in Assets, NEW user \in Users,
           NEW debtToCover \in Nat, validateLiquidationCall(c, d, user)
    PROVE  LET terms == liquidationTerms(c, d, user, debtToCover)
           IN  /\ terms.toLiquidator \in Nat
               /\ terms.forReserve \in Nat
               /\ terms.debt \in Nat
<1> DEFINE R     == LIQUIDATION_RESERVE_PERCENT
           bonus == configuration[c].liquidationBonus + R
           balance == aTokenBalance(reserves[c], user)
           most  == percentMul(stableDebtOf(reserves[d], user)
                                 + variableDebtOf(reserves[d], user),
                               LIQUIDATION_CLOSE_FACTOR_PERCENT)
           actual == lesser(debtToCover, most)
           x     == percentMul(prices[d] * actual * TokenUnit[c], bonus)
           max   == x \div (prices[c] * TokenUnit[d])
           taken == IF max > balance THEN balance ELSE max
           y     == (prices[c] * taken * TokenUnit[d]) \div (prices[d] * TokenUnit[c])
           needed == IF max > balance THEN percentDiv(y, bonus) ELSE actual
           kept  == (taken * R) \div bonus
<1>1. R \in Nat
  BY CollateralManagerConstants DEF LIQUIDATION_RESERVE_PERCENT
<1>2. bonus \in Nat \ {0} /\ R <= bonus
  <2>1. configuration[c] \in Configurations /\ configuration[c].liquidationThreshold > 0
    BY PoolParts DEF validateLiquidationCall
  <2>2. configuration[c].liquidationBonus \in Nat
    BY <2>1, PoolConstants DEF ReserveConfigurationMap
  <2>3. configuration[c].liquidationBonus > PERCENTAGE_FACTOR
    BY <2>1, PoolConstants, Zenon
  <2>4. PERCENTAGE_FACTOR \in Nat BY MathConstants
  <2> QED BY <1>1, <2>2, <2>3, <2>4
<1>3. /\ now \in Nat /\ ReserveOK(reserves[c], now) /\ ReserveOK(reserves[d], now)
      /\ prices[c] \in Nat \ {0} /\ prices[d] \in Nat \ {0}
      /\ TokenUnit[c] \in Nat \ {0} /\ TokenUnit[d] \in Nat \ {0}
  BY PoolParts
<1>4. balance \in Nat BY <1>3, ReportedBalances
<1>5. actual \in Nat
  <2>1. /\ stableDebtOf(reserves[d], user) + variableDebtOf(reserves[d], user) \in Nat
        /\ LIQUIDATION_CLOSE_FACTOR_PERCENT \in Nat
    BY <1>3, ReportedBalances, CollateralManagerConstants
  <2>2. most \in Nat BY <2>1, PercentMulNat
  <2> QED BY <2>2, LesserNat
<1>. HIDE DEF R, bonus, balance, actual
<1>6. prices[d] * actual * TokenUnit[c] \in Nat BY <1>3, <1>5, MulNat
<1>7. x \in Nat BY <1>2, <1>6, PercentMulNat
<1>8. /\ prices[c] * TokenUnit[d] \in Nat \ {0}
      /\ prices[d] * TokenUnit[c] \in Nat \ {0}
  BY <1>3, ProductPositive
<1>. HIDE DEF x
<1>9. max \in Nat BY <1>7, <1>8, DivBounds
<1>. HIDE DEF max
<1>10. taken \in Nat BY <1>4, <1>9
<1>11. y \in Nat
  <2>1. prices[c] * taken * TokenUnit[d] \in Nat BY <1>3, <1>10, MulNat
  <2>. HIDE DEF taken
  <2> QED BY <1>8, <2>1, DivBounds
<1>. HIDE DEF taken, y
<1>12. needed \in Nat BY <1>2, <1>5, <1>11, PercentDivNat
<1>13. kept \in Nat /\ kept <= taken
  <2>1. taken * R \in Nat /\ taken * R <= taken * bonus
    BY <1>1, <1>2, <1>10, MulNat, MulMono
  <2>2. kept \in Nat BY <1>2, <2>1, DivBounds
  <2>3. kept <= taken BY <1>1, <1>2, <1>10, <2>1, DivAtMost
  <2> QED BY <2>2, <2>3
<1>. HIDE DEF needed, kept
<1>14. lesser(needed, actual) \in Nat /\ taken - kept \in Nat
  <2>1. lesser(needed, actual) \in Nat BY <1>5, <1>12, LesserNat
  <2>2. taken - kept \in Nat BY <1>10, <1>13
  <2> QED BY <2>1, <2>2
<1>15. LET terms == liquidationTerms(c, d, user, debtToCover)
       IN  /\ terms.toLiquidator = taken - kept
           /\ terms.forReserve = kept
           /\ terms.debt = lesser(needed, actual)
  BY Zenon DEF liquidationTerms, availableCollateralToLiquidate, taken, kept, needed, actual, max,
         x, y, bonus, R, balance
<1> QED BY <1>13, <1>14, <1>15

\* Burning debt in a liquidation: variable first, then stable; nobody gains a debt.
LEMMA BurnDebtOK ==
    ASSUME NEW r, now \in Nat, ReserveOK(r, now), r.lastUpdateTimestamp = now,
           NEW user \in Users, NEW debt \in Nat, NEW variable \in Nat, variable <= debt,
           burnDebtAllowed(r, user, debt, variable)
    PROVE  LET s == burnDebt(r, user, debt, variable)
           IN  /\ ReserveOK(s, now)
               /\ s.cash = r.cash
               /\ \A u \in Users : hasDebt(s, u) => hasDebt(r, u)
<1> DEFINE v == IF variable > 0
                THEN scaledBurn(r.variableDebt, user, variable, r.variableBorrowIndex)
                ELSE r.variableDebt
           l == IF debt > variable
                THEN stableBurn(r.stableDebt, user, debt - variable, now)
                ELSE r.stableDebt
           s == [r EXCEPT !.variableDebt = v, !.stableDebt = l]
<1>1. /\ r.variableDebt \in ScaledLedger /\ r.stableDebt \in StableLedger
      /\ StableClocks(r.stableDebt, now)
      /\ r.variableBorrowIndex \in Nat \ {0}
  BY ReserveParts, RayPositive
<1>2. /\ v \in ScaledLedger
      /\ \A u \in Users : v.balances[u] <= r.variableDebt.balances[u]
  <2>1. CASE variable > 0
    <3>1. scaledBurnAllowed(r.variableDebt, user, variable, r.variableBorrowIndex)
      BY <2>1 DEF burnDebtAllowed
    <3> QED BY <1>1, <2>1, <3>1, ScaledBurnOK
  <2>2. CASE ~(variable > 0)
    BY <1>1, <2>2 DEF ScaledLedger
  <2> QED BY <2>1, <2>2
<1>3. /\ l \in StableLedger /\ StableClocks(l, now)
      /\ \A u \in Users : l.balances[u] > 0 => r.stableDebt.balances[u] > 0
  <2>1. CASE debt > variable
    <3> DEFINE amount == debt - variable
    <3>1. amount \in Nat /\ stableBurnAllowed(r.stableDebt, user, amount, now)
      BY <2>1 DEF burnDebtAllowed
    <3>2. /\ stableBalanceOf(r.stableDebt, user, now) \in Nat
          /\ r.stableDebt.balances[user] \in Nat
          /\ r.stableDebt.balances[user] = 0 <=> stableBalanceOf(r.stableDebt, user, now) = 0
      BY <1>1, StableBalance DEF StableLedger
    <3>. HIDE DEF amount
    <3>3. LET b == stableBurn(r.stableDebt, user, amount, now)
          IN  /\ b \in StableLedger /\ StableClocks(b, now)
              /\ b.balances[user] = stableBalanceOf(r.stableDebt, user, now) - amount
              /\ \A u \in Users \ {user} : b.balances[u] = r.stableDebt.balances[u]
      BY <1>1, <3>1, StableBurnOK
    <3>4. stableBalanceOf(r.stableDebt, user, now) - amount > 0
            => r.stableDebt.balances[user] > 0
      BY <3>1, <3>2
    <3> QED BY <2>1, <3>3, <3>4 DEF amount
  <2>2. CASE ~(debt > variable) BY <1>1, <2>2
  <2> QED BY <2>1, <2>2
<1>4. burnDebt(r, user, debt, variable) = s BY DEF burnDebt
<1>. HIDE DEF v, l
<1>5. /\ ReserveOK(s, now) /\ s.cash = r.cash
      /\ s.variableDebt = v /\ s.stableDebt = l
  BY <1>2, <1>3 DEF ReserveOK, ReserveData, ReserveInOrder
<1>6. \A u \in Users : v.balances[u] > 0 => r.variableDebt.balances[u] > 0
  BY <1>1, <1>2 DEF ScaledLedger
<1>7. \A u \in Users : hasDebt(s, u) => hasDebt(r, u)
  BY <1>3, <1>5, <1>6 DEF hasDebt
<1> QED BY <1>4, <1>5, <1>7

\* Replacing the aToken ledger alone.
LEMMA LedgerMoved ==
    ASSUME NEW r, NEW t \in Nat, ReserveOK(r, t), NEW l \in ScaledLedger
    PROVE  LET s == [r EXCEPT !.aToken = l]
           IN  ReserveOK(s, t) /\ SameDebts(s, r)
BY DEF ReserveOK, ReserveData, ReserveInOrder, SameDebts

\* Paying the liquidator moves tokens and cash, never a debt.
LEMMA PayLiquidatorOK ==
    ASSUME NEW r, now \in Nat, ReserveOK(r, now), NEW rf \in Nat, NEW user \in Users,
           NEW liquidator \in Users, NEW amount \in Nat, NEW receiveAToken \in BOOLEAN,
           payLiquidatorAllowed(r, rf, user, amount, receiveAToken)
    PROVE  LET s == payLiquidator(r, rf, user, liquidator, amount, receiveAToken)
           IN  ReserveOK(s, now) /\ SameDebts(s, r)
<1>1. CASE receiveAToken
  <2> DEFINE index == getNormalizedIncome(r, now)
             l == scaledTransfer(r.aToken, user, liquidator, amount, index)
  <2>1. r.aToken \in ScaledLedger /\ index \in Nat \ {0}
    BY ReserveParts, NextLiquidityIndex, RayPositive
  <2>2. scaledTransferAllowed(r.aToken, user, amount, index)
    BY <1>1 DEF payLiquidatorAllowed
  <2>3. payLiquidator(r, rf, user, liquidator, amount, receiveAToken) = [r EXCEPT !.aToken = l]
    BY <1>1 DEF payLiquidator
  <2>4. l \in ScaledLedger BY <2>1, <2>2, ScaledTransferOK
  <2>. HIDE DEF l
  <2> QED BY <2>3, <2>4, LedgerMoved
<1>2. CASE ~receiveAToken
  <2> DEFINE r0 == updateState(r, rf, now)
             r1 == updateInterestRates(r0, 0, amount, rf, now)
             l  == scaledBurn(r1.aToken, user, amount, r1.liquidityIndex)
             c  == r1.cash - amount
             s  == [r1 EXCEPT !.aToken = l, !.cash = c]
  <2>1. /\ updateInterestRatesAllowed(r, 0, amount, rf)
        /\ scaledBurnAllowed(r0.aToken, user, amount, nextLiquidityIndex(r, now))
    BY <1>2 DEF payLiquidatorAllowed
  <2>2. payLiquidator(r, rf, user, liquidator, amount, receiveAToken) = s
    BY <1>2 DEF payLiquidator
  <2>3. /\ ReserveOK(r0, now)
        /\ r0.liquidityIndex = nextLiquidityIndex(r, now)
        /\ r0.variableDebt = r.variableDebt
        /\ r0.stableDebt = r.stableDebt
        /\ r0.cash = r.cash
    BY UpdateStateOK
  <2>4. SameDebts(r0, r) BY <2>3 DEF SameDebts
  <2>5. updateInterestRatesAllowed(r0, 0, amount, rf)
    BY <2>1, <2>3 DEF updateInterestRatesAllowed
  <2>. HIDE DEF r0
  <2>6. ReserveOK(r1, now) /\ RatesOnly(r1, r0)
    <3>1. 0 \in Nat OBVIOUS
    <3> QED BY <2>3, <2>5, <3>1, UpdateInterestRatesOK, Zenon
  <2>. HIDE DEF r1
  <2>7. r1.aToken \in ScaledLedger /\ r1.liquidityIndex \in Nat \ {0}
    BY <2>6, ReserveParts, RayPositive
  <2>8. c \in Nat
    <3>1. r1.cash = r.cash /\ r.cash \in Nat BY <2>3, <2>6, ReserveParts DEF RatesOnly
    <3>2. amount <= r.cash BY <2>1, <3>1 DEF updateInterestRatesAllowed
    <3> QED BY <3>1, <3>2
  <2>9. l \in ScaledLedger
    <3>1. scaledBurnAllowed(r1.aToken, user, amount, r1.liquidityIndex)
      BY <2>1, <2>3, <2>6 DEF RatesOnly
    <3> QED BY <2>7, <3>1, ScaledBurnOK
  <2>. HIDE DEF l, c
  <2>10. ReserveOK(s, now) /\ SameDebts(s, r1) BY <2>6, <2>8, <2>9, TokensMoved
  <2>. HIDE DEF s
  <2>11. SameDebts(s, r) BY <2>4, <2>6, <2>10 DEF RatesOnly, SameDebts
  <2> QED BY <2>2, <2>10, <2>11
<1> QED BY <1>1, <1>2

\* The share of the reserve moves aTokens only.
LEMMA PayReserveOK ==
    ASSUME NEW r, now \in Nat, ReserveOK(r, now), NEW user \in Users, NEW amount \in Nat,
           payReserveAllowed(r, user, amount)
    PROVE  LET s == payReserve(r, user, amount)
           IN  ReserveOK(s, now) /\ SameDebts(s, r)
<1>1. CASE amount > 0
  <2> DEFINE index == getNormalizedIncome(r, now)
             l == scaledTransfer(r.aToken, user, Treasury, amount, index)
  <2>1. r.aToken \in ScaledLedger /\ index \in Nat \ {0}
    BY ReserveParts, NextLiquidityIndex, RayPositive
  <2>2. scaledTransferAllowed(r.aToken, user, amount, index)
    BY <1>1 DEF payReserveAllowed
  <2>3. payReserve(r, user, amount) = [r EXCEPT !.aToken = l] BY <1>1 DEF payReserve
  <2>4. Treasury \in Users BY ReserveLogicConstants
  <2>5. l \in ScaledLedger BY <2>1, <2>2, <2>4, ScaledTransferOK
  <2>. HIDE DEF l
  <2> QED BY <2>3, <2>5, LedgerMoved
<1>2. CASE ~(amount > 0)
  BY <1>2 DEF payReserve, SameDebts
<1> QED BY <1>1, <1>2

\* Cash that arrives.
LEMMA CashMoved ==
    ASSUME NEW r, NEW t \in Nat, ReserveOK(r, t), NEW x \in Nat
    PROVE  LET s == [r EXCEPT !.cash = @ + x]
           IN  ReserveOK(s, t) /\ SameDebts(s, r)
<1>1. r.cash + x \in Nat BY ReserveParts
<1> QED BY <1>1 DEF ReserveOK, ReserveData, ReserveInOrder, SameDebts

\* A liquidation moves collateral flags only.
LEMMA LiquidationFlags ==
    ASSUME NEW c \in Assets, NEW user \in Users, NEW liquidator \in Users,
           usersConfig \in [Users -> UserConfigurationMap],
           NEW whole, NEW firstReceipt
    PROVE  SameBorrowing(liquidationFlags(c, user, liquidator, whole, firstReceipt),
                         usersConfig)
<1> DEFINE clear(uc) == IF whole THEN setUsingAsCollateral(uc, user, c, FALSE) ELSE uc
           grant(uc) == IF firstReceipt THEN setUsingAsCollateral(uc, liquidator, c, TRUE) ELSE uc
<1>1. ASSUME NEW uc \in [Users -> UserConfigurationMap], SameBorrowing(uc, usersConfig)
      PROVE  /\ SameBorrowing(clear(uc), usersConfig)
             /\ SameBorrowing(grant(uc), usersConfig)
             /\ clear(uc) \in [Users -> UserConfigurationMap]
             /\ grant(uc) \in [Users -> UserConfigurationMap]
  <2>2. /\ SameBorrowing(setUsingAsCollateral(uc, user, c, FALSE), uc)
        /\ SameBorrowing(setUsingAsCollateral(uc, liquidator, c, TRUE), uc)
    BY CollateralFlag
  <2>3. /\ SameBorrowing(setUsingAsCollateral(uc, user, c, FALSE), usersConfig)
        /\ SameBorrowing(setUsingAsCollateral(uc, liquidator, c, TRUE), usersConfig)
    BY <1>1, <2>2 DEF SameBorrowing
  <2>4. /\ SameBorrowing(clear(uc), usersConfig)
        /\ SameBorrowing(grant(uc), usersConfig)
    BY <1>1, <2>3
  <2> QED BY <2>4 DEF SameBorrowing
<1>2. SameBorrowing(usersConfig, usersConfig) BY DEF SameBorrowing
<1>3. liquidationFlags(c, user, liquidator, whole, firstReceipt)
        = IF CollateralManager = STANDARD
          THEN clear(grant(usersConfig)) ELSE grant(clear(usersConfig))
  BY DEF liquidationFlags
<1>. HIDE DEF clear, grant
<1> QED BY <1>1, <1>2, <1>3

\* liquidationCall preserves the invariant, also when collateral and debt are the
\* same reserve: it burns debt and never touches a borrowing flag.
LEMMA LiquidationCallInv ==
    ASSUME PoolInv, NEW liquidator \in Users, NEW c \in Assets, NEW d \in Assets,
           NEW user \in Users, NEW debtToCover \in Requests, NEW receiveAToken \in BOOLEAN,
           LiquidationCall(liquidator, c, d, user, debtToCover, receiveAToken)
    PROVE  PoolInv'
<1> DEFINE userBalance == aTokenBalance(reserves[c], user)
           terms    == liquidationTerms(c, d, user, debtToCover)
           T        == terms.toLiquidator
           K        == terms.forReserve
           D        == terms.debt
           variable == variablePart(reserves[d], user, D)
           rfD      == configuration[d].reserveFactor
           rfC      == configuration[c].reserveFactor
           debt1    == updateState(reserves[d], rfD, now)
           debt2    == burnDebt(debt1, user, D, variable)
           debt3    == updateInterestRates(debt2, D, 0, rfD, now)
           reserves1 == [reserves EXCEPT ![d] = debt3]
           coll1    == reserves1[c]
           coll2    == payLiquidator(coll1, rfC, user, liquidator, T, receiveAToken)
           coll3    == payReserve(coll2, user, K)
           placed   == [reserves1 EXCEPT ![c] = coll3]
           reserves2 == [placed EXCEPT ![d].cash = @ + D]
           payout   == IF receiveAToken THEN 0 ELSE T
           wallets1 == [wallets EXCEPT ![c][liquidator] = @ + payout]
           wallets2 == [wallets1 EXCEPT ![d][liquidator] = @ - D]
<1>1. /\ validateLiquidationCall(c, d, user)
      /\ burnDebtAllowed(debt1, user, D, variable)
      /\ updateInterestRatesAllowed(debt2, D, 0, rfD)
      /\ payLiquidatorAllowed(coll1, rfC, user, T, receiveAToken)
      /\ payReserveAllowed(coll2, user, K)
      /\ wallets1[d][liquidator] >= D
      /\ reserves' = reserves2
      /\ wallets' = wallets2
  BY ZenonT(60) DEF LiquidationCall
<1>2. /\ configuration' = configuration /\ prices' = prices /\ now' = now
      /\ paused' = paused /\ allowances' = allowances
  BY ZenonT(60) DEF LiquidationCall
<1>3. usersConfig' = liquidationFlags(c, user, liquidator, terms.collateral = userBalance,
                                      receiveAToken /\ aTokenBalance(coll1, liquidator) = 0)
  BY ZenonT(60) DEF LiquidationCall
<1>4. T \in Nat /\ K \in Nat /\ D \in Nat
  BY <1>1, RequestsNat, LiquidationTermsNat
<1>. HIDE DEF terms
<1>5. /\ now \in Nat /\ 0 \in Nat /\ rfD \in Nat /\ rfC \in Nat
      /\ ReserveOK(reserves[d], now) /\ ReserveOK(reserves[c], now)
  BY PoolParts DEF Factor
<1>. HIDE DEF T, K, D
<1>6. variable \in Nat /\ variable <= D
  BY <1>4, <1>5, ReportedBalances, LesserNat DEF variablePart
<1>. HIDE DEF variable
<1>7. /\ ReserveOK(debt1, now) /\ debt1.lastUpdateTimestamp = now
      /\ \A u \in Users : hasDebt(debt1, u) => hasDebt(reserves[d], u)
  <2>1. /\ ReserveOK(debt1, now) /\ debt1.lastUpdateTimestamp = now
        /\ debt1.variableDebt = reserves[d].variableDebt
        /\ debt1.stableDebt = reserves[d].stableDebt
    <3>1. debt1 = Refreshed(d) BY DEF Refreshed, Factor
    <3>. HIDE DEF debt1
    <3> QED BY <3>1, RefreshedOK
  <2>. HIDE DEF debt1
  <2> QED BY <2>1 DEF hasDebt
<1>. HIDE DEF debt1
<1>8. /\ ReserveOK(debt2, now)
      /\ \A u \in Users : hasDebt(debt2, u) => hasDebt(debt1, u)
  <2>1. burnDebtAllowed(debt1, user, D, variable) BY <1>1
  <2>2. now \in Nat /\ ReserveOK(debt1, now) /\ debt1.lastUpdateTimestamp = now
    BY <1>5, <1>7
  <2>3. D \in Nat /\ variable \in Nat /\ variable <= D BY <1>4, <1>6
  <2> QED BY <2>1, <2>2, <2>3, BurnDebtOK, Zenon
<1>. HIDE DEF debt2
<1>9. ReserveOK(debt3, now) /\ RatesOnly(debt3, debt2)
  BY <1>1, <1>4, <1>5, <1>8, UpdateInterestRatesOK, Zenon
<1>10. \A u \in Users : hasDebt(debt3, u) => hasDebt(reserves[d], u)
  BY <1>7, <1>8, <1>9 DEF RatesOnly, SameDebts, hasDebt
<1>. HIDE DEF debt3
<1>11. DOMAIN reserves = Assets /\ reserves \in [Assets -> ReserveData]
  BY DEF PoolInv, PoolTypeOK
<1>12. \A b \in Assets : reserves1[b] = IF b = d THEN debt3 ELSE reserves[b]
  BY <1>11
<1>13. /\ ReserveOK(coll1, now)
       /\ \A u \in Users : hasDebt(coll1, u) => hasDebt(reserves[c], u)
  BY <1>5, <1>9, <1>10, <1>12
<1>. HIDE DEF coll1
<1>14. ReserveOK(coll2, now) /\ SameDebts(coll2, coll1)
  BY <1>1, <1>4, <1>5, <1>13, PayLiquidatorOK
<1>. HIDE DEF coll2
<1>15. ReserveOK(coll3, now) /\ SameDebts(coll3, coll2)
  BY <1>1, <1>4, <1>5, <1>14, PayReserveOK
<1>16. \A u \in Users : hasDebt(coll3, u) => hasDebt(reserves[c], u)
  BY <1>13, <1>14, <1>15 DEF SameDebts, hasDebt
<1>. HIDE DEF coll3
<1>17. DOMAIN reserves1 = Assets BY <1>11
<1>18. \A b \in Assets : placed[b] = IF b = c THEN coll3 ELSE reserves1[b]
  BY <1>17
<1>19. DOMAIN placed = Assets BY <1>17
<1>. HIDE DEF reserves1
<1>20. ASSUME NEW b \in Assets
       PROVE  /\ ReserveOK(placed[b], now)
              /\ \A u \in Users : hasDebt(placed[b], u) => hasDebt(reserves[b], u)
  <2>1. ReserveOK(reserves[b], now) BY PoolParts
  <2>2. CASE b = c BY <1>15, <1>16, <1>18, <2>2
  <2>3. CASE b # c /\ b = d BY <1>9, <1>10, <1>12, <1>18, <2>3
  <2>4. CASE b # c /\ b # d BY <1>12, <1>18, <2>1, <2>4
  <2> QED BY <2>2, <2>3, <2>4
<1>. HIDE DEF placed
<1>21. \A b \in Assets :
          reserves2[b] = IF b = d THEN [placed[d] EXCEPT !.cash = @ + D] ELSE placed[b]
  BY <1>19
<1>22. reserves2 = [b \in Assets |-> reserves2[b]] BY <1>19
<1>. HIDE DEF reserves2
<1>23. ASSUME NEW b \in Assets
       PROVE  /\ ReserveOK(reserves2[b], now)
              /\ \A u \in Users : hasDebt(reserves2[b], u) => hasDebt(reserves[b], u)
  <2>1. CASE b = d
    <3> DEFINE s == [placed[d] EXCEPT !.cash = @ + D]
    <3>1. ReserveOK(s, now) /\ SameDebts(s, placed[d]) BY <1>4, <1>5, <1>20, CashMoved
    <3>2. reserves2[b] = s BY <1>21, <2>1
    <3>. HIDE DEF s
    <3> QED BY <1>20, <2>1, <3>1, <3>2 DEF SameDebts, hasDebt
  <2>2. CASE b # d BY <1>20, <1>21, <2>2
  <2> QED BY <2>1, <2>2
<1>24. reserves' \in [Assets -> ReserveData] /\ ReservesInOrder'
  <2>1. \A b \in Assets : reserves2[b] \in ReserveData /\ ReserveInOrder(reserves2[b], now)
    BY <1>23 DEF ReserveOK
  <2> QED BY <1>1, <1>2, <1>22, <2>1 DEF ReservesInOrder
<1>25. SameBorrowing(usersConfig', usersConfig)
  <2>1. usersConfig \in [Users -> UserConfigurationMap] BY DEF PoolInv, PoolTypeOK
  <2> QED BY <1>3, <2>1, LiquidationFlags
<1>26. NoHiddenDebt' BY <1>1, <1>23, <1>25 DEF PoolInv, NoHiddenDebt, SameBorrowing
<1>27. wallets' \in [Assets -> [Users -> Nat]]
  <2>1. payout \in Nat BY <1>4, <1>5
  <2>2. wallets1 \in [Assets -> [Users -> Nat]] BY <2>1, WalletPaid
  <2>. HIDE DEF wallets1
  <2>3. wallets1[d][liquidator] - D \in Nat
    <3>1. wallets1[d][liquidator] \in Nat BY <2>2
    <3> QED BY <1>1, <1>4, <3>1
  <2> QED BY <1>1, <2>2, <2>3
<1>28. PoolTypeOK' BY <1>2, <1>24, <1>25, <1>27 DEF PoolInv, PoolTypeOK, SameBorrowing
<1> QED BY <1>2, <1>24, <1>26, <1>28, Zenon DEF PoolInv

-----------------------------------------------------------------------------
(* The other operations and the environment.                                 *)

\* setUserUseReserveAsCollateral preserves the invariant.
LEMMA SetCollateralInv ==
    ASSUME PoolInv, NEW caller \in Users, NEW a \in Assets, NEW use \in BOOLEAN,
           SetUserUseReserveAsCollateral(caller, a, use)
    PROVE  PoolInv'
<1>1. usersConfig \in [Users -> UserConfigurationMap] BY DEF PoolInv, PoolTypeOK
<1>2. \/ usersConfig' = setUsingAsCollateral(usersConfig, caller, a, TRUE)
      \/ usersConfig' = setUsingAsCollateral(usersConfig, caller, a, FALSE)
  <2>1. use = TRUE \/ use = FALSE OBVIOUS
  <2>2. usersConfig' = setUsingAsCollateral(usersConfig, caller, a, use)
    BY DEF SetUserUseReserveAsCollateral
  <2> QED BY <2>1, <2>2, Zenon
<1>3. SameBorrowing(usersConfig', usersConfig) BY <1>1, <1>2, CollateralFlag, Zenon
<1>4. UNCHANGED <<reserves, configuration, allowances, wallets, prices, paused, now>>
  BY DEF SetUserUseReserveAsCollateral
<1> QED BY <1>3, <1>4
        DEF PoolInv, PoolTypeOK, ReservesInOrder, NoHiddenDebt, SameBorrowing

\* approveDelegation preserves the invariant.
LEMMA ApproveDelegationInv ==
    ASSUME PoolInv, NEW caller \in Users, NEW a \in Assets, NEW mode \in InterestRateMode,
           NEW to \in Users, NEW amount \in DelegationAmounts,
           ApproveDelegation(caller, a, mode, to, amount)
    PROVE  PoolInv'
<1>1. amount \in Nat BY PoolConstants
<1>2. allowances' \in [Assets -> [InterestRateMode -> [Users -> [Users -> Nat]]]]
  BY <1>1 DEF ApproveDelegation, PoolInv, PoolTypeOK
<1>3. UNCHANGED <<reserves, configuration, usersConfig, wallets, prices, paused, now>>
  BY DEF ApproveDelegation
<1> QED BY <1>2, <1>3 DEF PoolInv, PoolTypeOK, ReservesInOrder, NoHiddenDebt

\* Pauses, prices and the clock preserve the invariant.
LEMMA EnvironmentInv == ASSUME PoolInv, Environment PROVE PoolInv'
<1>1. ASSUME NEW value \in PauseValues, SetPause(value) PROVE PoolInv'
  <2>1. value \in BOOLEAN BY PoolConstants
  <2>2. paused' \in BOOLEAN BY <1>1, <2>1, Zenon DEF SetPause
  <2>3. UNCHANGED <<reserves, configuration, usersConfig, allowances, wallets, prices, now>>
    BY <1>1 DEF SetPause
  <2> QED BY <2>2, <2>3 DEF PoolInv, PoolTypeOK, ReservesInOrder, NoHiddenDebt
<1>2. ASSUME NEW a \in Assets, NEW price \in Prices[a], SetAssetPrice(a, price) PROVE PoolInv'
  <2>1. price \in Nat \ {0} BY PoolConstants
  <2>2. prices' \in [Assets -> Nat \ {0}] BY <1>2, <2>1 DEF SetAssetPrice, PoolInv, PoolTypeOK
  <2>3. UNCHANGED <<reserves, configuration, usersConfig, allowances, wallets, paused, now>>
    BY <1>2 DEF SetAssetPrice
  <2> QED BY <2>2, <2>3 DEF PoolInv, PoolTypeOK, ReservesInOrder, NoHiddenDebt
<1>3. ASSUME AdvanceTime PROVE PoolInv'
  <2>1. now \in Nat /\ now + 1 \in Nat /\ now <= now + 1 BY DEF PoolInv, PoolTypeOK
  <2>2. now' = now + 1 BY <1>3 DEF AdvanceTime
  <2>3. UNCHANGED <<reserves, configuration, usersConfig, allowances, wallets, prices, paused>>
    BY <1>3 DEF AdvanceTime
  <2>4. ASSUME NEW a \in Assets PROVE ReserveInOrder(reserves[a], now + 1)
    <3>1. ReserveOK(reserves[a], now) BY PoolParts
    <3> QED BY <2>1, <3>1, ReserveLater DEF ReserveOK
  <2>5. ReservesInOrder' BY <2>2, <2>3, <2>4 DEF ReservesInOrder
  <2> QED BY <2>1, <2>2, <2>3, <2>5 DEF PoolInv, PoolTypeOK, NoHiddenDebt
<1> QED BY <1>1, <1>2, <1>3 DEF Environment

-----------------------------------------------------------------------------
(* The specification.                                                        *)

\* The invariant holds when the pool is deployed.
LEMMA InitInv == PoolInit => PoolInv
<1> SUFFICES ASSUME PoolInit PROVE PoolInv OBVIOUS
<1>1. EmptyScaledLedger \in ScaledLedger BY DEF EmptyScaledLedger, ScaledLedger
<1>2. /\ EmptyStableLedger \in StableLedger /\ StableClocks(EmptyStableLedger, 0)
  BY DEF EmptyStableLedger, StableLedger, StableClocks
<1>3. InitReserve \in ReserveData /\ ReserveInOrder(InitReserve, 0)
  BY <1>1, <1>2, RayPositive DEF InitReserve, ReserveData, ReserveInOrder
<1>4. \A u \in Users : ~hasDebt(InitReserve, u)
  BY DEF hasDebt, InitReserve, EmptyScaledLedger, EmptyStableLedger
<1>5. \A a \in Assets : reserves[a] = InitReserve BY DEF PoolInit
<1>6. ReservesInOrder BY <1>3, <1>5 DEF PoolInit, ReservesInOrder
<1>7. NoHiddenDebt BY <1>4, <1>5 DEF NoHiddenDebt
<1>8. configuration \in [Assets -> Configurations]
      /\ configuration \in [Assets -> ReserveConfigurationMap]
  BY PoolConstants DEF PoolInit
<1>9. usersConfig \in [Users -> UserConfigurationMap]
  BY DEF PoolInit, UserConfigurationMap
<1>10. reserves \in [Assets -> ReserveData] BY <1>3 DEF PoolInit
<1>11. /\ allowances \in [Assets -> [InterestRateMode -> [Users -> [Users -> Nat]]]]
       /\ wallets \in [Assets -> [Users -> Nat]]
       /\ prices \in [Assets -> Nat \ {0}]
       /\ paused \in BOOLEAN /\ now \in Nat
  BY PoolConstants DEF PoolInit
<1> QED BY <1>6, <1>7, <1>8, <1>9, <1>10, <1>11 DEF PoolInv, PoolTypeOK

\* Every operation of a user preserves the invariant.
LEMMA UserOperationInv == ASSUME PoolInv, UserOperation PROVE PoolInv'
<1> PICK caller \in Users, a \in Assets :
        \/ \E amount \in Amounts, to \in Users :
              Deposit(caller, a, amount, to) \/ TransferAToken(caller, a, amount, to)
        \/ \E request \in Requests, to \in Users : Withdraw(caller, a, request, to)
        \/ \E amount \in Amounts, mode \in InterestRateMode, onBehalfOf \in Users :
              Borrow(caller, a, amount, mode, onBehalfOf)
        \/ \E request \in Requests, mode \in InterestRateMode, onBehalfOf \in Users :
              Repay(caller, a, request, mode, onBehalfOf)
        \/ \E mode \in InterestRateMode : SwapBorrowRateMode(caller, a, mode)
        \/ RebalanceStableBorrowRate(a, caller)
        \/ \E use \in BOOLEAN : SetUserUseReserveAsCollateral(caller, a, use)
        \/ \E mode \in InterestRateMode, to \in Users, amount \in DelegationAmounts :
              ApproveDelegation(caller, a, mode, to, amount)
        \/ \E d \in Assets, user \in Users, amount \in Requests, receiveAToken \in BOOLEAN :
              LiquidationCall(caller, a, d, user, amount, receiveAToken)
  BY DEF UserOperation
<1>1. CASE \E amount \in Amounts, to \in Users :
              Deposit(caller, a, amount, to) \/ TransferAToken(caller, a, amount, to)
  BY <1>1, DepositInv, TransferInv
<1>2. CASE \E request \in Requests, to \in Users : Withdraw(caller, a, request, to)
  BY <1>2, WithdrawInv
<1>3. CASE \E amount \in Amounts, mode \in InterestRateMode, onBehalfOf \in Users :
              Borrow(caller, a, amount, mode, onBehalfOf)
  BY <1>3, BorrowInv
<1>4. CASE \E request \in Requests, mode \in InterestRateMode, onBehalfOf \in Users :
              Repay(caller, a, request, mode, onBehalfOf)
  BY <1>4, RepayInv
<1>5. CASE \E mode \in InterestRateMode : SwapBorrowRateMode(caller, a, mode)
  BY <1>5, SwapBorrowRateModeInv
<1>6. CASE RebalanceStableBorrowRate(a, caller) BY <1>6, RebalanceInv
<1>7. CASE \E use \in BOOLEAN : SetUserUseReserveAsCollateral(caller, a, use)
  BY <1>7, SetCollateralInv
<1>8. CASE \E mode \in InterestRateMode, to \in Users, amount \in DelegationAmounts :
              ApproveDelegation(caller, a, mode, to, amount)
  BY <1>8, ApproveDelegationInv
<1>9. CASE \E d \in Assets, user \in Users, amount \in Requests, receiveAToken \in BOOLEAN :
              LiquidationCall(caller, a, d, user, amount, receiveAToken)
  BY <1>9, LiquidationCallInv
<1> QED BY <1>1, <1>2, <1>3, <1>4, <1>5, <1>6, <1>7, <1>8, <1>9, Zenon

\* Types, order of clocks and indexes, and flags are inductive together.
THEOREM PoolInvariant == PoolSpec => []PoolInv
<1>1. PoolInit => PoolInv BY InitInv
<1>2. PoolInv /\ [PoolNext]_poolVars => PoolInv'
  <2> SUFFICES ASSUME PoolInv, [PoolNext]_poolVars PROVE PoolInv' OBVIOUS
  <2>1. CASE UserOperation BY <2>1, UserOperationInv
  <2>2. CASE Environment BY <2>2, EnvironmentInv
  <2>3. CASE UNCHANGED poolVars
    BY <2>3 DEF poolVars, PoolInv, PoolTypeOK, ReservesInOrder, NoHiddenDebt
  <2> QED BY <2>1, <2>2, <2>3 DEF PoolNext
<1> QED BY <1>1, <1>2, PTL DEF PoolSpec

\* Every amount, index, rate and timestamp the pool stores stays a natural: no
\* operation that the guards let through underflows a balance or a supply.
THEOREM PoolTypeCorrect == PoolSpec => []PoolTypeOK
<1>1. PoolInv => PoolTypeOK BY DEF PoolInv
<1> QED BY <1>1, PoolInvariant, PTL

\* Indexes stay above one ray, no debt ledger is ahead of its reserve.
THEOREM ReservesStayInOrder == PoolSpec => []ReservesInOrder
<1>1. PoolInv => ReservesInOrder BY DEF PoolInv
<1> QED BY <1>1, PoolInvariant, PTL

\* Whoever owes on a reserve has its borrowing flag, so that the account data
\* which guard withdrawals and liquidations count every debt.
THEOREM DebtsAreFlagged == PoolSpec => []NoHiddenDebt
<1>1. PoolInv => NoHiddenDebt BY DEF PoolInv
<1> QED BY <1>1, PoolInvariant, PTL

\* The subtraction of _mintToTreasury never reverts: updateState, which every
\* operation calls first, cannot lock a reserve.
THEOREM AccrualAlwaysDefined == PoolSpec => []AccrualNeverReverts
<1>1. ASSUME PoolInv PROVE AccrualNeverReverts
  <2>1. ASSUME NEW a \in Assets PROVE accrualDefined(reserves[a], now)
    BY <1>1, PoolParts, AccrualDefined
  <2> QED BY <2>1 DEF AccrualNeverReverts
<1> QED BY <1>1, PoolInvariant, PTL

\* Burning the balance an aToken reports burns the scaled balance exactly, for
\* every index the reserve can reach.
THEOREM ExitsAreExact == PoolSpec => []ExitIsExact
<1>1. ASSUME PoolInv PROVE ExitIsExact
  <2>1. ASSUME NEW u \in Users, NEW a \in Assets
        PROVE  rayDiv(aTokenBalance(reserves[a], u), nextLiquidityIndex(reserves[a], now))
                 = reserves[a].aToken.balances[u]
    <3> DEFINE r == reserves[a]
               index == nextLiquidityIndex(r, now)
               scaled == r.aToken.balances[u]
    <3>1. now \in Nat /\ ReserveOK(r, now) BY <1>1, PoolParts
    <3>2. index \in Nat /\ RAY <= index /\ index = getNormalizedIncome(r, now)
      BY <3>1, NextLiquidityIndex
    <3>3. scaled \in Nat
      <4>1. r.aToken \in ScaledLedger BY <3>1, ReserveParts
      <4> QED BY <4>1 DEF ScaledLedger
    <3>4. aTokenBalance(r, u) = rayMul(scaled, index)
      BY <3>2 DEF aTokenBalance, scaledBalanceOf
    <3>. HIDE DEF index, scaled
    <3>5. rayDiv(rayMul(scaled, index), index) = scaled BY <3>2, <3>3, RoundTrip
    <3> QED BY <3>4, <3>5 DEF index, scaled
  <2> QED BY <2>1 DEF ExitIsExact
<1> QED BY <1>1, PoolInvariant, PTL
-----------------------------------------------------------------------------
(* The books of the lending pool, for any users, assets, amounts, prices and   *)
(* scales: supplies are the sums of balances, underlying is conserved, rates   *)
(* follow the liquidity, no debt grows without consent, whole debts can be     *)
(* repaid and, where nothing is charged, claims equal cash plus debts.  Every  *)
(* operation is first reduced to the one reserve it stores; what that reserve  *)
(* is relative to the one before then decides each property.                   *)

(* What a step does to one reserve.                                          *)

\* s is what an operation may store for reserve a: refreshed, in order, at rates
\* that match its debts and its cash.
Settled(a, s) ==
    /\ ReserveOK(s, now)
    /\ RatesMatch(s, Factor(a), now)
    /\ s.liquidityIndex = nextLiquidityIndex(reserves[a], now)
    /\ s.variableBorrowIndex = nextVariableBorrowIndex(reserves[a], now)
    /\ s.lastUpdateTimestamp = now

\* The step stores s for a and no other reserve; configuration and time stay.
Stores(a, s) ==
    /\ Settled(a, s)
    /\ reserves' = [reserves EXCEPT ![a] = s]
    /\ configuration' = configuration
    /\ now' = now

\* s and r differ in their debts only.
DebtsOnly(s, r) ==
    /\ s.aToken = r.aToken
    /\ s.cash = r.cash
    /\ s.liquidityIndex = r.liquidityIndex
    /\ s.variableBorrowIndex = r.variableBorrowIndex
    /\ s.lastUpdateTimestamp = r.lastUpdateTimestamp

\* What is owed in units is a natural.
LEMMA DebtUnitsNat ==
    ASSUME NEW r, now \in Nat, ReserveOK(r, now), NEW u \in Users, NEW mode \in InterestRateMode
    PROVE  debtUnits(r, u, mode) \in Nat
BY ReportedBalances DEF debtUnits

\* Minting debt adds the units of the amount to one debt of one borrower.
LEMMA MintDebtMoves ==
    ASSUME NEW r, now \in Nat, ReserveOK(r, now), NEW user \in Users,
           NEW amount \in Nat, amount # 0, NEW mode \in InterestRateMode
    PROVE  LET s == mintDebt(r, user, amount, mode)
           IN  /\ DebtsOnly(s, r)
               /\ Balanced(r.variableDebt) => Balanced(s.variableDebt)
               /\ debtUnits(s, user, mode) = debtUnits(r, user, mode) + unitsOf(r, amount, mode)
               /\ \A u \in Users, m \in InterestRateMode : u # user \/ m # mode =>
                     debtUnits(s, u, m) = debtUnits(r, u, m)
<1>1. /\ r.variableDebt \in ScaledLedger /\ r.stableDebt \in StableLedger
      /\ StableClocks(r.stableDebt, now)
      /\ r.variableBorrowIndex \in Nat \ {0} /\ r.currentStableBorrowRate \in Nat
      /\ r \in ReserveData
  BY ReserveParts, RayPositive DEF ReserveOK
<1>2. CASE mode = STABLE
  <2> DEFINE l == stableMint(r.stableDebt, user, amount, r.currentStableBorrowRate, now)
             s == [r EXCEPT !.stableDebt = l]
  <2>1. /\ stableBalanceOf(l, user, now) = stableBalanceOf(r.stableDebt, user, now) + amount
        /\ \A u \in Users \ {user} :
              stableBalanceOf(l, u, now) = stableBalanceOf(r.stableDebt, u, now)
    BY <1>1, StableMintBalances
  <2>2. mintDebt(r, user, amount, mode) = s BY <1>2 DEF mintDebt
  <2>. HIDE DEF l
  <2>3. DebtsOnly(s, r) /\ s.variableDebt = r.variableDebt /\ s.stableDebt = l
    BY <1>1 DEF ReserveData, DebtsOnly
  <2>. HIDE DEF s
  <2>4. debtUnits(s, user, mode) = debtUnits(r, user, mode) + unitsOf(r, amount, mode)
    BY <1>2, <2>1, <2>3 DEF debtUnits, unitsOf, stableDebtOf
  <2>5. ASSUME NEW u \in Users, NEW m \in InterestRateMode, u # user \/ m # mode
        PROVE  debtUnits(s, u, m) = debtUnits(r, u, m)
    BY <1>2, <2>1, <2>3, <2>5 DEF debtUnits, stableDebtOf
  <2> QED BY <2>2, <2>3, <2>4, <2>5
<1>3. CASE mode # STABLE
  <2> DEFINE scaled == rayDiv(amount, r.variableBorrowIndex)
             v == scaledMint(r.variableDebt, user, amount, r.variableBorrowIndex)
             s == [r EXCEPT !.variableDebt = v]
  <2>1. /\ v.balances[user] = r.variableDebt.balances[user] + scaled
        /\ \A u \in Users \ {user} : v.balances[u] = r.variableDebt.balances[u]
    BY <1>1 DEF scaledMint, ScaledLedger
  <2>2. Balanced(r.variableDebt) => Balanced(v) BY <1>1, ScaledMintBalanced
  <2>3. mintDebt(r, user, amount, mode) = s BY <1>3 DEF mintDebt
  <2>. HIDE DEF v, scaled
  <2>4. DebtsOnly(s, r) /\ s.variableDebt = v /\ s.stableDebt = r.stableDebt
    BY <1>1 DEF ReserveData, DebtsOnly
  <2>. HIDE DEF s
  <2>5. debtUnits(s, user, mode) = debtUnits(r, user, mode) + unitsOf(r, amount, mode)
    BY <1>3, <2>1, <2>4 DEF debtUnits, unitsOf, scaled
  <2>6. ASSUME NEW u \in Users, NEW m \in InterestRateMode, u # user \/ m # mode
        PROVE  debtUnits(s, u, m) = debtUnits(r, u, m)
    <3>1. m # STABLE => m = mode BY <1>3 DEF InterestRateMode
    <3> QED BY <1>3, <2>1, <2>4, <2>6, <3>1 DEF debtUnits, stableDebtOf
  <2> QED BY <2>2, <2>3, <2>4, <2>5, <2>6
<1> QED BY <1>2, <1>3

\* A guarded burn takes the units of the amount off one debt of one borrower.
LEMMA RepayDebtMoves ==
    ASSUME NEW r, now \in Nat, ReserveOK(r, now), NEW user \in Users,
           NEW amount \in Nat, NEW mode \in InterestRateMode,
           repayDebtAllowed(r, user, amount, mode)
    PROVE  LET s == repayDebt(r, user, amount, mode)
           IN  /\ DebtsOnly(s, r)
               /\ Balanced(r.variableDebt) => Balanced(s.variableDebt)
               /\ unitsOf(r, amount, mode) \in Nat
               /\ debtUnits(s, user, mode) = debtUnits(r, user, mode) - unitsOf(r, amount, mode)
               /\ \A u \in Users, m \in InterestRateMode : u # user \/ m # mode =>
                     debtUnits(s, u, m) = debtUnits(r, u, m)
<1>1. /\ r.variableDebt \in ScaledLedger /\ r.stableDebt \in StableLedger
      /\ StableClocks(r.stableDebt, now)
      /\ r.variableBorrowIndex \in Nat \ {0} /\ r \in ReserveData
  BY ReserveParts, RayPositive DEF ReserveOK
<1>2. CASE mode = STABLE
  <2> DEFINE l == stableBurn(r.stableDebt, user, amount, now)
             s == [r EXCEPT !.stableDebt = l]
  <2>0. stableBurnAllowed(r.stableDebt, user, amount, now) BY <1>2 DEF repayDebtAllowed
  <2>1. /\ stableBalanceOf(l, user, now) = stableBalanceOf(r.stableDebt, user, now) - amount
        /\ \A u \in Users \ {user} :
              stableBalanceOf(l, u, now) = stableBalanceOf(r.stableDebt, u, now)
    BY <1>1, <2>0, StableBurnBalances
  <2>2. repayDebt(r, user, amount, mode) = s BY <1>2 DEF repayDebt
  <2>. HIDE DEF l
  <2>3. DebtsOnly(s, r) /\ s.variableDebt = r.variableDebt /\ s.stableDebt = l
    BY <1>1 DEF ReserveData, DebtsOnly
  <2>. HIDE DEF s
  <2>4. /\ debtUnits(s, user, mode) = debtUnits(r, user, mode) - unitsOf(r, amount, mode)
        /\ unitsOf(r, amount, mode) \in Nat
    BY <1>2, <2>1, <2>3 DEF debtUnits, unitsOf, stableDebtOf
  <2>5. ASSUME NEW u \in Users, NEW m \in InterestRateMode, u # user \/ m # mode
        PROVE  debtUnits(s, u, m) = debtUnits(r, u, m)
    BY <1>2, <2>1, <2>3, <2>5 DEF debtUnits, stableDebtOf
  <2> QED BY <2>2, <2>3, <2>4, <2>5
<1>3. CASE mode # STABLE
  <2> DEFINE scaled == rayDiv(amount, r.variableBorrowIndex)
             v == scaledBurn(r.variableDebt, user, amount, r.variableBorrowIndex)
             s == [r EXCEPT !.variableDebt = v]
  <2>0. scaled \in Nat BY <1>1, RayDivNat
  <2>1. /\ v.balances[user] = r.variableDebt.balances[user] - scaled
        /\ \A u \in Users \ {user} : v.balances[u] = r.variableDebt.balances[u]
    BY <1>1 DEF scaledBurn, ScaledLedger
  <2>2. Balanced(r.variableDebt) => Balanced(v) BY <1>1, ScaledBurnBalanced
  <2>3. repayDebt(r, user, amount, mode) = s BY <1>3 DEF repayDebt
  <2>. HIDE DEF v, scaled
  <2>4. DebtsOnly(s, r) /\ s.variableDebt = v /\ s.stableDebt = r.stableDebt
    BY <1>1 DEF ReserveData, DebtsOnly
  <2>. HIDE DEF s
  <2>5. /\ debtUnits(s, user, mode) = debtUnits(r, user, mode) - unitsOf(r, amount, mode)
        /\ unitsOf(r, amount, mode) \in Nat
    BY <1>3, <2>0, <2>1, <2>4 DEF debtUnits, unitsOf, scaled
  <2>6. ASSUME NEW u \in Users, NEW m \in InterestRateMode, u # user \/ m # mode
        PROVE  debtUnits(s, u, m) = debtUnits(r, u, m)
    <3>1. m # STABLE => m = mode BY <1>3 DEF InterestRateMode
    <3> QED BY <1>3, <2>1, <2>4, <2>6, <3>1 DEF debtUnits, stableDebtOf
  <2> QED BY <2>2, <2>3, <2>4, <2>5, <2>6
<1> QED BY <1>2, <1>3

\* deposit: aTokens for cash.
LEMMA DepositEffect ==
    ASSUME PoolInv, NEW caller \in Users, NEW a \in Assets, NEW amount \in Amounts,
           NEW onBehalfOf \in Users, Deposit(caller, a, amount, onBehalfOf)
    PROVE  \E s : /\ Stores(a, s)
                  /\ SameDebts(s, reserves[a])
                  /\ s.cash = reserves[a].cash + amount
                  /\ s.aToken = scaledMint(Refreshed(a).aToken, onBehalfOf, amount,
                                           nextLiquidityIndex(reserves[a], now))
                  /\ wallets' = [wallets EXCEPT ![a][caller] = @ - amount]
<1> DEFINE r1 == Refreshed(a)
           r2 == updateInterestRates(r1, amount, 0, Factor(a), now)
           l  == scaledMint(r2.aToken, onBehalfOf, amount, r2.liquidityIndex)
           c  == r2.cash + amount
           s  == [r2 EXCEPT !.aToken = l, !.cash = c]
<1>1. amount \in Nat /\ 0 \in Nat BY PoolConstants
<1>2. now \in Nat /\ Factor(a) \in Nat BY PoolParts
<1>3. /\ ReserveOK(r1, now) /\ r1.lastUpdateTimestamp = now
      /\ r1.liquidityIndex = nextLiquidityIndex(reserves[a], now)
      /\ r1.variableBorrowIndex = nextVariableBorrowIndex(reserves[a], now)
      /\ SameDebts(r1, reserves[a])
      /\ r1.cash = reserves[a].cash
  BY RefreshedOK DEF SameDebts
<1>4. updateInterestRatesAllowed(r1, amount, 0, Factor(a)) BY DEF Deposit
<1>5. /\ reserves' = [reserves EXCEPT ![a] = s]
      /\ wallets' = [wallets EXCEPT ![a][caller] = @ - amount]
      /\ configuration' = configuration /\ now' = now
  BY DEF Deposit, Store
<1>6. RatesOnly(r2, r1) BY <1>1, <1>2, <1>3, <1>4, UpdateInterestRatesOK, Zenon
<1>7. r2 = updateInterestRates(r1, amount, 0, Factor(a), now) OBVIOUS
<1>. HIDE DEF r2
<1>8. l = scaledMint(Refreshed(a).aToken, onBehalfOf, amount,
                     nextLiquidityIndex(reserves[a], now))
  BY <1>3, <1>6 DEF RatesOnly
<1>. HIDE DEF r1
<1>9. /\ r1.aToken \in ScaledLedger /\ r1.liquidityIndex \in Nat \ {0} /\ r1.cash \in Nat
  BY <1>2, <1>3, ReserveParts, RayPositive
<1>10. l \in ScaledLedger BY <1>1, <1>6, <1>9, ScaledMintOK DEF RatesOnly
<1>11. c = r1.cash + amount - 0 BY <1>1, <1>6, <1>9 DEF RatesOnly
<1>. HIDE DEF l, c
<1>12. s = Moved(r2, l, c) BY DEF Moved
<1>. HIDE DEF s
<1>13. /\ ReserveOK(s, now) /\ RatesMatch(s, Factor(a), now) /\ SameDebts(s, r1)
       /\ s.aToken = l /\ s.cash = c
       /\ s.liquidityIndex = r1.liquidityIndex
       /\ s.variableBorrowIndex = r1.variableBorrowIndex
       /\ s.lastUpdateTimestamp = r1.lastUpdateTimestamp
  BY <1>1, <1>2, <1>3, <1>4, <1>7, <1>10, <1>11, <1>12, RatesMatched
<1>14. Stores(a, s) BY <1>3, <1>5, <1>13, Zenon DEF Stores, Settled
<1>15. s.cash = reserves[a].cash + amount BY <1>1, <1>3, <1>9, <1>11, <1>13
<1>16. SameDebts(s, reserves[a]) BY <1>3, <1>13 DEF SameDebts
<1> QED BY <1>5, <1>8, <1>13, <1>14, <1>15, <1>16

\* withdraw: cash for aTokens.
LEMMA WithdrawEffect ==
    ASSUME PoolInv, NEW caller \in Users, NEW a \in Assets, NEW request \in Requests,
           NEW to \in Users, Withdraw(caller, a, request, to)
    PROVE  \E s : \E amount \in Nat :
              /\ Stores(a, s)
              /\ SameDebts(s, reserves[a])
              /\ s.cash = reserves[a].cash - amount
              /\ s.aToken = scaledBurn(Refreshed(a).aToken, caller, amount,
                                       nextLiquidityIndex(reserves[a], now))
              /\ amount \in {request, aTokenBalance(reserves[a], caller)}
              /\ wallets' = [wallets EXCEPT ![a][to] = @ + amount]
<1> DEFINE userBalance == aTokenBalance(reserves[a], caller)
           amount == IF request = MAX_UINT256 THEN userBalance ELSE request
           r1 == Refreshed(a)
           r2 == updateInterestRates(r1, 0, amount, Factor(a), now)
           l  == scaledBurn(r2.aToken, caller, amount, r2.liquidityIndex)
           c  == r2.cash - amount
           s  == [r2 EXCEPT !.aToken = l, !.cash = c]
<1>1. now \in Nat /\ Factor(a) \in Nat /\ 0 \in Nat /\ ReserveOK(reserves[a], now)
  BY PoolParts
<1>2. amount \in Nat BY <1>1, RequestsNat, ReportedBalances
<1>3. /\ ReserveOK(r1, now) /\ r1.lastUpdateTimestamp = now
      /\ r1.liquidityIndex = nextLiquidityIndex(reserves[a], now)
      /\ r1.variableBorrowIndex = nextVariableBorrowIndex(reserves[a], now)
      /\ SameDebts(r1, reserves[a])
      /\ r1.cash = reserves[a].cash
  BY RefreshedOK DEF SameDebts
<1>4. /\ updateInterestRatesAllowed(r1, 0, amount, Factor(a))
      /\ scaledBurnAllowed(r2.aToken, caller, amount, r2.liquidityIndex)
  BY DEF Withdraw
<1>5. /\ reserves' = [reserves EXCEPT ![a] = s]
      /\ wallets' = [wallets EXCEPT ![a][to] = @ + amount]
      /\ configuration' = configuration /\ now' = now
  BY DEF Withdraw, Store
<1>6. amount \in {request, aTokenBalance(reserves[a], caller)} OBVIOUS
<1>. HIDE DEF amount
<1>7. RatesOnly(r2, r1) BY <1>1, <1>2, <1>3, <1>4, UpdateInterestRatesOK, Zenon
<1>8. r2 = updateInterestRates(r1, 0, amount, Factor(a), now) OBVIOUS
<1>. HIDE DEF r2
<1>9. l = scaledBurn(Refreshed(a).aToken, caller, amount,
                     nextLiquidityIndex(reserves[a], now))
  BY <1>3, <1>7 DEF RatesOnly
<1>. HIDE DEF r1
<1>10. /\ r1.aToken \in ScaledLedger /\ r1.liquidityIndex \in Nat \ {0} /\ r1.cash \in Nat
  BY <1>1, <1>3, ReserveParts, RayPositive
<1>11. l \in ScaledLedger BY <1>2, <1>4, <1>7, <1>10, ScaledBurnOK DEF RatesOnly
<1>12. c = r1.cash + 0 - amount BY <1>2, <1>7, <1>10 DEF RatesOnly
<1>. HIDE DEF l, c
<1>13. s = Moved(r2, l, c) BY DEF Moved
<1>. HIDE DEF s
<1>14. /\ ReserveOK(s, now) /\ RatesMatch(s, Factor(a), now) /\ SameDebts(s, r1)
       /\ s.aToken = l /\ s.cash = c
       /\ s.liquidityIndex = r1.liquidityIndex
       /\ s.variableBorrowIndex = r1.variableBorrowIndex
       /\ s.lastUpdateTimestamp = r1.lastUpdateTimestamp
  BY <1>1, <1>2, <1>3, <1>4, <1>8, <1>11, <1>12, <1>13, RatesMatched
<1>15. Stores(a, s) BY <1>3, <1>5, <1>14, Zenon DEF Stores, Settled
<1>16. s.cash = reserves[a].cash - amount BY <1>2, <1>3, <1>10, <1>12, <1>14
<1>17. SameDebts(s, reserves[a]) BY <1>3, <1>14 DEF SameDebts
<1> QED BY <1>2, <1>5, <1>6, <1>9, <1>14, <1>15, <1>16, <1>17

\* Moving cash alone.
LEMMA OnlyCash ==
    ASSUME NEW q \in ReserveData, NEW c
    PROVE  [q EXCEPT !.cash = c] = Moved(q, q.aToken, c) /\ q = Moved(q, q.aToken, q.cash)
BY DEF Moved, ReserveData

\* A refreshed reserve whose debts changed, at the rates of what it will hold.
LEMMA DebtSettled ==
    ASSUME PoolInv, NEW a \in Assets, NEW r, ReserveOK(r, now), DebtsOnly(r, Refreshed(a)),
           NEW added \in Nat, NEW taken \in Nat,
           updateInterestRatesAllowed(r, added, taken, Factor(a)),
           NEW q, q = updateInterestRates(r, added, taken, Factor(a), now),
           NEW c, c = q.cash + added - taken, NEW s, s = Moved(q, q.aToken, c)
    PROVE  /\ Settled(a, s)
           /\ SameDebts(s, r)
           /\ s.aToken = Refreshed(a).aToken
           /\ s.cash = reserves[a].cash + added - taken
<1>1. now \in Nat /\ Factor(a) \in Nat BY PoolParts
<1>2. /\ Refreshed(a).lastUpdateTimestamp = now
      /\ Refreshed(a).liquidityIndex = nextLiquidityIndex(reserves[a], now)
      /\ Refreshed(a).variableBorrowIndex = nextVariableBorrowIndex(reserves[a], now)
      /\ Refreshed(a).cash = reserves[a].cash
  BY RefreshedOK
<1>3. RatesOnly(q, r) BY <1>1, UpdateInterestRatesOK, Zenon
<1>4. q.aToken \in ScaledLedger BY <1>1, <1>3, ReserveParts DEF RatesOnly
<1>5. c = r.cash + added - taken BY <1>3 DEF RatesOnly
<1>6. /\ ReserveOK(s, now) /\ RatesMatch(s, Factor(a), now) /\ SameDebts(s, r)
      /\ s.aToken = q.aToken /\ s.cash = c
      /\ s.liquidityIndex = r.liquidityIndex
      /\ s.variableBorrowIndex = r.variableBorrowIndex
      /\ s.lastUpdateTimestamp = r.lastUpdateTimestamp
  BY <1>1, <1>4, <1>5, RatesMatched
<1>7. Settled(a, s) BY <1>2, <1>6 DEF DebtsOnly, Settled
<1> QED BY <1>2, <1>3, <1>5, <1>6, <1>7 DEF DebtsOnly, RatesOnly

\* borrow: the debt opened, cash for the caller, an allowance spent.
LEMMA BorrowEffect ==
    ASSUME PoolInv, NEW caller \in Users, NEW a \in Assets, NEW amount \in Amounts,
           NEW mode \in InterestRateMode, NEW onBehalfOf \in Users,
           Borrow(caller, a, amount, mode, onBehalfOf)
    PROVE  \E s : /\ Stores(a, s)
                  /\ amount \in Nat
                  /\ amount # 0
                  /\ SameDebts(s, mintDebt(Refreshed(a), onBehalfOf, amount, mode))
                  /\ s.cash = reserves[a].cash - amount
                  /\ s.aToken = Refreshed(a).aToken
                  /\ wallets' = [wallets EXCEPT ![a][caller] = @ + amount]
                  /\ caller # onBehalfOf =>
                        allowances' = decreaseBorrowAllowance(a, mode, onBehalfOf, caller, amount)
<1> DEFINE r1 == Refreshed(a)
           r2 == mintDebt(r1, onBehalfOf, amount, mode)
           q  == updateInterestRates(r2, 0, amount, Factor(a), now)
           c  == q.cash - amount
           s  == [q EXCEPT !.cash = c]
<1>1. amount \in Nat /\ 0 \in Nat BY PoolConstants
<1>2. now \in Nat /\ Factor(a) \in Nat BY PoolParts
<1>3. ReserveOK(r1, now) /\ r1.lastUpdateTimestamp = now BY RefreshedOK
<1>4. amount # 0 BY DEF Borrow, validateBorrow
<1>5. /\ updateInterestRatesAllowed(r2, 0, amount, Factor(a))
      /\ reserves' = [reserves EXCEPT ![a] = s]
      /\ wallets' = [wallets EXCEPT ![a][caller] = @ + amount]
      /\ configuration' = configuration /\ now' = now
      /\ caller # onBehalfOf =>
            allowances' = decreaseBorrowAllowance(a, mode, onBehalfOf, caller, amount)
  BY DEF Borrow, Store
<1>6. ReserveOK(r2, now) BY <1>1, <1>2, <1>3, <1>4, MintDebtOK
<1>7. DebtsOnly(r2, Refreshed(a)) BY <1>1, <1>2, <1>3, <1>4, MintDebtMoves
<1>8. r2 = mintDebt(Refreshed(a), onBehalfOf, amount, mode) OBVIOUS
<1>. HIDE DEF r2
<1>9. ReserveOK(q, now) BY <1>1, <1>2, <1>5, <1>6, UpdateInterestRatesOK, Zenon
<1>10. q = updateInterestRates(r2, 0, amount, Factor(a), now) OBVIOUS
<1>. HIDE DEF q
<1>11. s = Moved(q, q.aToken, c) BY <1>9, OnlyCash DEF ReserveOK
<1>12. c = q.cash + 0 - amount
  <2>1. q.cash \in Nat BY <1>2, <1>9, ReserveParts
  <2> QED BY <1>1, <2>1
<1>. HIDE DEF c, s
<1>13. /\ Settled(a, s) /\ SameDebts(s, r2) /\ s.aToken = Refreshed(a).aToken
       /\ s.cash = reserves[a].cash + 0 - amount
  BY <1>1, <1>5, <1>6, <1>7, <1>10, <1>11, <1>12, DebtSettled
<1>14. s.cash = reserves[a].cash - amount
  <2>1. reserves[a].cash \in Nat BY PoolParts, ReserveParts
  <2> QED BY <1>1, <1>13, <2>1
<1>15. Stores(a, s) BY <1>5, <1>13, Zenon DEF Stores
<1> QED BY <1>1, <1>4, <1>5, <1>8, <1>13, <1>14, <1>15

\* repay: cash of the caller for the debt of somebody.
LEMMA RepayEffect ==
    ASSUME PoolInv, NEW caller \in Users, NEW a \in Assets, NEW request \in Requests,
           NEW mode \in InterestRateMode, NEW onBehalfOf \in Users,
           Repay(caller, a, request, mode, onBehalfOf)
    PROVE  \E s : \E payback \in Nat :
              /\ Stores(a, s)
              /\ repayDebtAllowed(Refreshed(a), onBehalfOf, payback, mode)
              /\ SameDebts(s, repayDebt(Refreshed(a), onBehalfOf, payback, mode))
              /\ s.cash = reserves[a].cash + payback
              /\ s.aToken = Refreshed(a).aToken
              /\ wallets' = [wallets EXCEPT ![a][caller] = @ - payback]
<1> DEFINE stableDebt   == stableDebtOf(reserves[a], onBehalfOf)
           variableDebt == variableDebtOf(reserves[a], onBehalfOf)
           debt    == IF mode = STABLE THEN stableDebt ELSE variableDebt
           payback == lesser(request, debt)
           r1 == Refreshed(a)
           r2 == repayDebt(r1, onBehalfOf, payback, mode)
           q  == updateInterestRates(r2, payback, 0, Factor(a), now)
           c  == q.cash + payback
           s  == [q EXCEPT !.cash = c]
<1>1. now \in Nat /\ Factor(a) \in Nat /\ 0 \in Nat /\ ReserveOK(reserves[a], now)
  BY PoolParts
<1>2. payback \in Nat BY <1>1, RequestsNat, ReportedBalances, LesserNat
<1>3. ReserveOK(r1, now) /\ r1.lastUpdateTimestamp = now BY RefreshedOK
<1>4. /\ repayDebtAllowed(r1, onBehalfOf, payback, mode)
      /\ updateInterestRatesAllowed(r2, payback, 0, Factor(a))
      /\ reserves' = [reserves EXCEPT ![a] = s]
      /\ wallets' = [wallets EXCEPT ![a][caller] = @ - payback]
      /\ configuration' = configuration /\ now' = now
  BY DEF Repay, Store
<1>. HIDE DEF payback
<1>5. ReserveOK(r2, now) BY <1>1, <1>2, <1>3, <1>4, RepayDebtOK
<1>6. DebtsOnly(r2, Refreshed(a)) BY <1>1, <1>2, <1>3, <1>4, RepayDebtMoves
<1>7. r2 = repayDebt(Refreshed(a), onBehalfOf, payback, mode) OBVIOUS
<1>. HIDE DEF r2
<1>8. ReserveOK(q, now) BY <1>1, <1>2, <1>4, <1>5, UpdateInterestRatesOK, Zenon
<1>9. q = updateInterestRates(r2, payback, 0, Factor(a), now) OBVIOUS
<1>. HIDE DEF q
<1>10. s = Moved(q, q.aToken, c) BY <1>8, OnlyCash DEF ReserveOK
<1>11. c = q.cash + payback - 0
  <2>1. q.cash \in Nat BY <1>1, <1>8, ReserveParts
  <2> QED BY <1>2, <2>1
<1>. HIDE DEF c, s
<1>12. /\ Settled(a, s) /\ SameDebts(s, r2) /\ s.aToken = Refreshed(a).aToken
       /\ s.cash = reserves[a].cash + payback - 0
  BY <1>1, <1>2, <1>4, <1>5, <1>6, <1>9, <1>10, <1>11, DebtSettled
<1>13. s.cash = reserves[a].cash + payback
  <2>1. reserves[a].cash \in Nat BY PoolParts, ReserveParts
  <2> QED BY <1>2, <1>12, <2>1
<1>14. Stores(a, s) BY <1>4, <1>12, Zenon DEF Stores
<1> QED BY <1>2, <1>4, <1>7, <1>12, <1>13, <1>14

\* A refresh changes what nobody owes in units.
LEMMA RefreshedUnits ==
    ASSUME PoolInv, NEW a \in Assets, NEW u \in Users, NEW mode \in InterestRateMode
    PROVE  /\ debtUnits(Refreshed(a), u, mode) = debtUnits(reserves[a], u, mode)
           /\ debtUnits(reserves[a], u, mode) \in Nat
BY RefreshedOK, PoolParts, DebtUnitsNat DEF debtUnits, stableDebtOf

\* Repaying what a debt token reports leaves nothing of that debt.
LEMMA WholeRepaid ==
    ASSUME PoolInv, NEW a \in Assets, NEW user \in Users, NEW mode \in InterestRateMode,
           NEW debt, debt = reportedDebt(reserves[a], user, mode),
           repayDebtAllowed(Refreshed(a), user, debt, mode)
    PROVE  debtUnits(repayDebt(Refreshed(a), user, debt, mode), user, mode) = 0
<1> DEFINE r == Refreshed(a)
           s == repayDebt(r, user, debt, mode)
<1>1. /\ now \in Nat /\ ReserveOK(reserves[a], now)
      /\ ReserveOK(r, now) /\ r.lastUpdateTimestamp = now
      /\ r.variableDebt = reserves[a].variableDebt
      /\ r.variableBorrowIndex = nextVariableBorrowIndex(reserves[a], now)
  BY PoolParts, RefreshedOK
<1>2. debt \in Nat BY <1>1, ReportedBalances DEF reportedDebt
<1>3. /\ debtUnits(s, user, mode) = debtUnits(r, user, mode) - unitsOf(r, debt, mode)
      /\ debtUnits(r, user, mode) = debtUnits(reserves[a], user, mode)
      /\ debtUnits(reserves[a], user, mode) \in Nat
  BY <1>1, <1>2, RepayDebtMoves, RefreshedUnits
<1>4. CASE mode = STABLE
  BY <1>2, <1>3, <1>4 DEF debtUnits, unitsOf, reportedDebt
<1>5. CASE mode # STABLE
  <2> DEFINE reported == getNormalizedDebt(reserves[a], now)
             index == r.variableBorrowIndex
             l == r.variableDebt
  <2>1. /\ index \in Nat /\ RAY <= index /\ reported \in Nat /\ index <= reported
    BY <1>1, NextVariableBorrowIndex
  <2>2. debt = scaledBalanceOf(l, user, reported)
    BY <1>1, <1>5 DEF variableDebtOf, reportedDebt
  <2>3. scaledBurnAllowed(l, user, debt, index) BY <1>5 DEF repayDebtAllowed
  <2>4. l \in ScaledLedger BY <1>1, ReserveParts
  <2>5. s = [r EXCEPT !.variableDebt = scaledBurn(l, user, debt, index)]
    BY <1>5 DEF repayDebt
  <2>6. r \in ReserveData BY <1>1 DEF ReserveOK
  <2>. HIDE DEF index, l, reported, r
  <2>7. scaledBurn(l, user, debt, index).balances[user] = 0
    BY <2>1, <2>2, <2>3, <2>4, FullScaledBurn
  <2>8. s.variableDebt = scaledBurn(l, user, debt, index) BY <2>5, <2>6 DEF ReserveData
  <2> QED BY <1>5, <2>7, <2>8 DEF debtUnits, r
<1> QED BY <1>4, <1>5

\* Both rate operations repay a whole debt and open it again in a mode.
LEMMA ReplacedEffect ==
    ASSUME PoolInv, NEW a \in Assets, NEW user \in Users,
           NEW from \in InterestRateMode, NEW to \in InterestRateMode,
           NEW debt, debt = reportedDebt(reserves[a], user, from), debt # 0,
           repayDebtAllowed(Refreshed(a), user, debt, from),
           NEW r3, r3 = mintDebt(repayDebt(Refreshed(a), user, debt, from), user, debt, to),
           updateInterestRatesAllowed(r3, 0, 0, Factor(a)),
           Store(a, updateInterestRates(r3, 0, 0, Factor(a), now)),
           UNCHANGED <<configuration, now>>
    PROVE  \E s : /\ Stores(a, s)
                  /\ SameDebts(s, r3)
                  /\ s.cash = reserves[a].cash
                  /\ s.aToken = Refreshed(a).aToken
                  /\ Balanced(reserves[a].variableDebt) => Balanced(s.variableDebt)
                  /\ from = to => debtUnits(s, user, to) = unitsOf(s, debt, to)
                  /\ from # to =>
                        /\ debtUnits(s, user, from) = 0
                        /\ debtUnits(s, user, to)
                             = debtUnits(reserves[a], user, to) + unitsOf(s, debt, to)
                  /\ \A u \in Users, m \in InterestRateMode : u # user \/ m \notin {from, to} =>
                        debtUnits(s, u, m) = debtUnits(reserves[a], u, m)
<1> DEFINE r1 == Refreshed(a)
           r2 == repayDebt(r1, user, debt, from)
           s  == updateInterestRates(r3, 0, 0, Factor(a), now)
<1>1. now \in Nat /\ Factor(a) \in Nat /\ 0 \in Nat /\ ReserveOK(reserves[a], now)
  BY PoolParts
<1>2. debt \in Nat BY <1>1, ReportedBalances DEF reportedDebt
<1>3. /\ ReserveOK(r1, now) /\ r1.lastUpdateTimestamp = now
      /\ r1.variableDebt = reserves[a].variableDebt
  BY RefreshedOK
<1>4. /\ ReserveOK(r2, now) /\ r2.lastUpdateTimestamp = now
  BY <1>1, <1>2, <1>3, RepayDebtOK
<1>5. /\ DebtsOnly(r2, r1)
      /\ Balanced(r1.variableDebt) => Balanced(r2.variableDebt)
      /\ \A u \in Users, m \in InterestRateMode : u # user \/ m # from =>
            debtUnits(r2, u, m) = debtUnits(r1, u, m)
  BY <1>1, <1>2, <1>3, RepayDebtMoves
<1>6. debtUnits(r2, user, from) = 0 BY WholeRepaid
<1>7. \A u \in Users, m \in InterestRateMode :
         debtUnits(r1, u, m) = debtUnits(reserves[a], u, m)
  BY RefreshedUnits
<1>8. r3 = mintDebt(r2, user, debt, to) OBVIOUS
<1>9. reserves' = [reserves EXCEPT ![a] = s] BY DEF Store
<1>. HIDE DEF r2
<1>10. /\ ReserveOK(r3, now)
       /\ DebtsOnly(r3, r2)
       /\ Balanced(r2.variableDebt) => Balanced(r3.variableDebt)
       /\ debtUnits(r3, user, to) = debtUnits(r2, user, to) + unitsOf(r2, debt, to)
       /\ \A u \in Users, m \in InterestRateMode : u # user \/ m # to =>
             debtUnits(r3, u, m) = debtUnits(r2, u, m)
  <2> DEFINE x == mintDebt(r2, user, debt, to)
  <2>1. ReserveOK(x, now) BY <1>1, <1>2, <1>4, MintDebtOK
  <2>2. /\ DebtsOnly(x, r2)
        /\ Balanced(r2.variableDebt) => Balanced(x.variableDebt)
        /\ debtUnits(x, user, to) = debtUnits(r2, user, to) + unitsOf(r2, debt, to)
        /\ \A u \in Users, m \in InterestRateMode : u # user \/ m # to =>
              debtUnits(x, u, m) = debtUnits(r2, u, m)
    BY <1>1, <1>2, <1>4, MintDebtMoves
  <2>3. r3 = x BY <1>8
  <2>. HIDE DEF x
  <2> QED BY <2>1, <2>2, <2>3
<1>11. DebtsOnly(r3, Refreshed(a)) BY <1>5, <1>10 DEF DebtsOnly
<1>12. ReserveOK(s, now) BY <1>1, <1>10, UpdateInterestRatesOK, Zenon
<1>13. s = updateInterestRates(r3, 0, 0, Factor(a), now) OBVIOUS
<1>. HIDE DEF s, r1
<1>14. s = Moved(s, s.aToken, s.cash) BY <1>12, OnlyCash DEF ReserveOK
<1>15. s.cash = s.cash + 0 - 0
  <2>1. s.cash \in Nat BY <1>1, <1>12, ReserveParts
  <2> QED BY <2>1
<1>16. /\ Settled(a, s) /\ SameDebts(s, r3) /\ s.aToken = Refreshed(a).aToken
       /\ s.cash = reserves[a].cash + 0 - 0
  BY <1>1, <1>10, <1>11, <1>13, <1>14, <1>15, DebtSettled
<1>17. s.cash = reserves[a].cash
  <2>1. reserves[a].cash \in Nat BY <1>1, ReserveParts
  <2> QED BY <1>16, <2>1
<1>18. Stores(a, s) BY <1>9, <1>16, Zenon DEF Stores
<1>19. \A u \in Users, m \in InterestRateMode : debtUnits(s, u, m) = debtUnits(r3, u, m)
  BY <1>16 DEF SameDebts, debtUnits, stableDebtOf
<1>20. unitsOf(s, debt, to) = unitsOf(r2, debt, to)
  <2>1. RatesOnly(s, r3) BY <1>1, <1>10, <1>13, UpdateInterestRatesOK, Zenon
  <2> QED BY <1>10, <2>1 DEF DebtsOnly, RatesOnly, unitsOf
<1>21. unitsOf(r2, debt, to) \in Nat
  <2>1. r2.variableBorrowIndex \in Nat \ {0} BY <1>1, <1>4, ReserveParts, RayPositive
  <2> QED BY <1>2, <2>1, RayDivNat DEF unitsOf
<1>22. from = to => debtUnits(s, user, to) = unitsOf(s, debt, to)
  BY <1>6, <1>10, <1>19, <1>20, <1>21
<1>23. from # to => /\ debtUnits(s, user, from) = 0
                    /\ debtUnits(s, user, to)
                         = debtUnits(reserves[a], user, to) + unitsOf(s, debt, to)
  BY <1>5, <1>6, <1>7, <1>10, <1>19, <1>20
<1>24. \A u \in Users, m \in InterestRateMode : u # user \/ m \notin {from, to} =>
          debtUnits(s, u, m) = debtUnits(reserves[a], u, m)
  BY <1>5, <1>7, <1>10, <1>19
<1>25. Balanced(reserves[a].variableDebt) => Balanced(s.variableDebt)
  BY <1>3, <1>5, <1>10, <1>16 DEF SameDebts
<1> QED BY <1>16, <1>17, <1>18, <1>22, <1>23, <1>24, <1>25

\* swapBorrowRateMode: what was owed in one kind is owed in the other.
LEMMA SwapEffect ==
    ASSUME PoolInv, NEW caller \in Users, NEW a \in Assets, NEW mode \in InterestRateMode,
           SwapBorrowRateMode(caller, a, mode)
    PROVE  \E s : LET debt  == reportedDebt(reserves[a], caller, mode)
                      other == otherMode(mode)
                  IN  /\ Stores(a, s)
                      /\ other \in InterestRateMode \ {mode}
                      /\ repayDebtAllowed(Refreshed(a), caller, debt, mode)
                      /\ SameDebts(s, mintDebt(repayDebt(Refreshed(a), caller, debt, mode),
                                               caller, debt, other))
                      /\ s.cash = reserves[a].cash
                      /\ s.aToken = Refreshed(a).aToken
                      /\ Balanced(reserves[a].variableDebt) => Balanced(s.variableDebt)
                      /\ debtUnits(s, caller, mode) = 0
                      /\ debtUnits(s, caller, other)
                           = debtUnits(reserves[a], caller, other) + unitsOf(s, debt, other)
                      /\ \A u \in Users \ {caller}, m \in InterestRateMode :
                            debtUnits(s, u, m) = debtUnits(reserves[a], u, m)
<1> DEFINE debt == reportedDebt(reserves[a], caller, mode)
           other == otherMode(mode)
           r3 == mintDebt(repayDebt(Refreshed(a), caller, debt, mode), caller, debt, other)
<1>1. mode = STABLE \/ mode = VARIABLE_MODE BY DEF InterestRateMode
<1>2. debt > 0 BY <1>1 DEF SwapBorrowRateMode, validateSwapRateMode, reportedDebt
<1>3. debt \in Nat BY PoolParts, ReportedBalances DEF reportedDebt
<1>4. other \in InterestRateMode /\ other # mode
  BY <1>1 DEF otherMode, InterestRateMode, STABLE, VARIABLE_MODE
<1>5. /\ repayDebtAllowed(Refreshed(a), caller, debt, mode)
      /\ updateInterestRatesAllowed(r3, 0, 0, Factor(a))
      /\ Store(a, updateInterestRates(r3, 0, 0, Factor(a), now))
      /\ UNCHANGED <<configuration, now>>
  BY DEF SwapBorrowRateMode, reportedDebt
<1>6. debt # 0 BY <1>2, <1>3
<1>7. debt = reportedDebt(reserves[a], caller, mode) OBVIOUS
<1>. HIDE DEF debt, other
<1>8. PICK s : /\ Stores(a, s)
               /\ SameDebts(s, r3)
               /\ s.cash = reserves[a].cash
               /\ s.aToken = Refreshed(a).aToken
               /\ Balanced(reserves[a].variableDebt) => Balanced(s.variableDebt)
               /\ debtUnits(s, caller, mode) = 0
               /\ debtUnits(s, caller, other)
                    = debtUnits(reserves[a], caller, other) + unitsOf(s, debt, other)
               /\ \A u \in Users, m \in InterestRateMode : u # caller \/ m \notin {mode, other} =>
                     debtUnits(s, u, m) = debtUnits(reserves[a], u, m)
  BY <1>4, <1>5, <1>6, <1>7, ReplacedEffect
<1> QED BY <1>4, <1>5, <1>8 DEF debt, other

\* rebalanceStableBorrowRate: nobody owes more or less than before.
LEMMA RebalanceEffect ==
    ASSUME PoolInv, NEW a \in Assets, NEW user \in Users, RebalanceStableBorrowRate(a, user)
    PROVE  \E s : /\ Stores(a, s)
                  /\ \E debt \in Nat \ {0} :
                        /\ repayDebtAllowed(Refreshed(a), user, debt, STABLE)
                        /\ SameDebts(s, mintDebt(repayDebt(Refreshed(a), user, debt, STABLE),
                                                 user, debt, STABLE))
                  /\ s.cash = reserves[a].cash
                  /\ s.aToken = Refreshed(a).aToken
                  /\ Balanced(reserves[a].variableDebt) => Balanced(s.variableDebt)
                  /\ \A u \in Users, m \in InterestRateMode :
                        debtUnits(s, u, m) = debtUnits(reserves[a], u, m)
<1> DEFINE debt == stableDebtOf(reserves[a], user)
           r3 == mintDebt(repayDebt(Refreshed(a), user, debt, STABLE), user, debt, STABLE)
<1>1. now \in Nat /\ ReserveOK(reserves[a], now) BY PoolParts
<1>2. debt > 0 BY DEF RebalanceStableBorrowRate
<1>3. debt \in Nat /\ debt # 0 /\ STABLE \in InterestRateMode
  BY <1>1, <1>2, ReportedBalances DEF InterestRateMode
<1>4. /\ updateInterestRatesAllowed(r3, 0, 0, Factor(a))
      /\ Store(a, updateInterestRates(r3, 0, 0, Factor(a), now))
      /\ UNCHANGED <<configuration, now>>
  BY DEF RebalanceStableBorrowRate
<1>5. repayDebtAllowed(Refreshed(a), user, debt, STABLE)
  <2>1. debt = stableBalanceOf(Refreshed(a).stableDebt, user, now)
    BY RefreshedOK DEF stableDebtOf
  <2> QED BY <1>3, <2>1 DEF repayDebtAllowed, stableBurnAllowed
<1>6. debt = reportedDebt(reserves[a], user, STABLE) BY DEF reportedDebt
<1>7. debt = debtUnits(reserves[a], user, STABLE) BY DEF debtUnits
<1>. HIDE DEF debt
<1>8. PICK s : /\ Stores(a, s)
               /\ SameDebts(s, r3)
               /\ s.cash = reserves[a].cash
               /\ s.aToken = Refreshed(a).aToken
               /\ Balanced(reserves[a].variableDebt) => Balanced(s.variableDebt)
               /\ debtUnits(s, user, STABLE) = unitsOf(s, debt, STABLE)
               /\ \A u \in Users, m \in InterestRateMode : u # user \/ m \notin {STABLE, STABLE} =>
                     debtUnits(s, u, m) = debtUnits(reserves[a], u, m)
  BY <1>3, <1>4, <1>5, <1>6, ReplacedEffect
<1>9. unitsOf(s, debt, STABLE) = debt BY DEF unitsOf
<1>10. ASSUME NEW u \in Users, NEW m \in InterestRateMode
       PROVE  debtUnits(s, u, m) = debtUnits(reserves[a], u, m)
  <2>1. CASE u = user /\ m = STABLE BY <1>7, <1>8, <1>9, <2>1
  <2>2. CASE ~(u = user /\ m = STABLE) BY <1>8, <2>2
  <2> QED BY <2>1, <2>2
<1> QED BY <1>3, <1>5, <1>8, <1>10

-----------------------------------------------------------------------------
(* aToken transfers and liquidations.                                        *)

\* s and r differ in their aTokens only.
TokensOnly(s, r) ==
    /\ SameDebts(s, r)
    /\ s.cash = r.cash
    /\ s.liquidityIndex = r.liquidityIndex
    /\ s.variableBorrowIndex = r.variableBorrowIndex
    /\ s.lastUpdateTimestamp = r.lastUpdateTimestamp
    /\ s.currentLiquidityRate = r.currentLiquidityRate
    /\ s.currentStableBorrowRate = r.currentStableBorrowRate
    /\ s.currentVariableBorrowRate = r.currentVariableBorrowRate

\* Rates do not depend on aTokens.
LEMMA TokensOnlyRates ==
    ASSUME NEW s, NEW r, TokensOnly(s, r), NEW rf, NEW t, RatesMatch(r, rf, t)
    PROVE  RatesMatch(s, rf, t)
<1>1. ratesFor(s, s.cash, rf, t) = ratesFor(r, r.cash, rf, t)
  BY DEF TokensOnly, SameDebts, ratesFor
<1> QED BY <1>1 DEF RatesMatch, TokensOnly

\* Replacing the ledger of a reserve, and doing nothing to it.
LEMMA LedgerReplaced ==
    ASSUME NEW r \in ReserveData, NEW l
    PROVE  /\ TokensOnly([r EXCEPT !.aToken = l], r)
           /\ [r EXCEPT !.aToken = l].aToken = l
           /\ TokensOnly(r, r)
BY DEF ReserveData, TokensOnly, SameDebts

\* A transfer of aTokens touches one ledger of one reserve.
LEMMA TransferEffect ==
    ASSUME PoolInv, NEW from \in Users, NEW a \in Assets, NEW amount \in Amounts,
           NEW to \in Users, TransferAToken(from, a, amount, to)
    PROVE  \E s : /\ reserves' = [reserves EXCEPT ![a] = s]
                  /\ UNCHANGED <<configuration, wallets, now>>
                  /\ TokensOnly(s, reserves[a])
                  /\ Balanced(reserves[a].aToken) =>
                        /\ Balanced(s.aToken)
                        /\ s.aToken.totalSupply = reserves[a].aToken.totalSupply
<1> DEFINE r  == reserves[a]
           index == getNormalizedIncome(r, now)
           l  == scaledTransfer(r.aToken, from, to, amount, index)
           s == [r EXCEPT !.aToken = l]
<1>1. amount \in Nat BY PoolConstants
<1>2. now \in Nat /\ ReserveOK(r, now) BY PoolParts
<1>3. r.aToken \in ScaledLedger /\ index \in Nat \ {0}
  BY <1>2, ReserveParts, NextLiquidityIndex, RayPositive
<1>4. reserves' = [reserves EXCEPT ![a] = s] BY DEF TransferAToken
<1>5. UNCHANGED <<configuration, wallets, now>> BY DEF TransferAToken
<1>6. Balanced(r.aToken) => Balanced(l) /\ l.totalSupply = r.aToken.totalSupply
  BY <1>1, <1>3, ScaledTransferBalanced
<1>. HIDE DEF l
<1>7. TokensOnly(s, r) /\ s.aToken = l BY <1>2, LedgerReplaced DEF ReserveOK
<1>. HIDE DEF s
<1> QED BY <1>4, <1>5, <1>6, <1>7

\* Paying the liquidator keeps the books: aTokens change hands at the same rates,
\* or are burned for cash at new ones.
LEMMA PayLiquidatorMoves ==
    ASSUME NEW r, now \in Nat, ReserveOK(r, now), NEW rf \in Nat, NEW user \in Users,
           NEW liquidator \in Users, NEW amount \in Nat, NEW receiveAToken \in BOOLEAN,
           payLiquidatorAllowed(r, rf, user, amount, receiveAToken),
           NEW s, s = payLiquidator(r, rf, user, liquidator, amount, receiveAToken)
    PROVE  /\ Balanced(r.aToken) => Balanced(s.aToken)
           /\ receiveAToken =>
                 /\ TokensOnly(s, r)
                 /\ Balanced(r.aToken) => s.aToken.totalSupply = r.aToken.totalSupply
           /\ ~receiveAToken =>
                 /\ RatesMatch(s, rf, now)
                 /\ s.cash = r.cash - amount
                 /\ s.liquidityIndex = nextLiquidityIndex(r, now)
                 /\ s.variableBorrowIndex = nextVariableBorrowIndex(r, now)
                 /\ s.aToken = scaledBurn(updateState(r, rf, now).aToken, user, amount,
                                          nextLiquidityIndex(r, now))
<1>1. CASE receiveAToken
  <2> DEFINE index == getNormalizedIncome(r, now)
             l == scaledTransfer(r.aToken, user, liquidator, amount, index)
  <2>1. r.aToken \in ScaledLedger /\ index \in Nat \ {0} /\ r \in ReserveData
    BY ReserveParts, NextLiquidityIndex, RayPositive DEF ReserveOK
  <2>2. s = [r EXCEPT !.aToken = l] BY <1>1 DEF payLiquidator
  <2>3. Balanced(r.aToken) => Balanced(l) /\ l.totalSupply = r.aToken.totalSupply
    BY <2>1, ScaledTransferBalanced
  <2>. HIDE DEF l
  <2>4. TokensOnly(s, r) /\ s.aToken = l BY <2>1, <2>2, LedgerReplaced
  <2> QED BY <1>1, <2>3, <2>4
<1>2. CASE ~receiveAToken
  <2> DEFINE r0 == updateState(r, rf, now)
             q  == updateInterestRates(r0, 0, amount, rf, now)
             l  == scaledBurn(q.aToken, user, amount, q.liquidityIndex)
             c  == q.cash - amount
  <2>1. /\ updateInterestRatesAllowed(r, 0, amount, rf)
        /\ scaledBurnAllowed(r0.aToken, user, amount, nextLiquidityIndex(r, now))
    BY <1>2 DEF payLiquidatorAllowed
  <2>2. s = [q EXCEPT !.aToken = l, !.cash = c] BY <1>2 DEF payLiquidator
  <2>3. /\ ReserveOK(r0, now)
        /\ r0.liquidityIndex = nextLiquidityIndex(r, now)
        /\ r0.variableBorrowIndex = nextVariableBorrowIndex(r, now)
        /\ r0.cash = r.cash
    BY UpdateStateOK
  <2>4. Balanced(r.aToken) => Balanced(r0.aToken) BY UpdateStateBalanced
  <2>5. updateInterestRatesAllowed(r0, 0, amount, rf)
    BY <2>1, <2>3 DEF updateInterestRatesAllowed
  <2>6. 0 \in Nat OBVIOUS
  <2>. HIDE DEF r0
  <2>7. RatesOnly(q, r0) BY <2>3, <2>5, <2>6, UpdateInterestRatesOK, Zenon
  <2>8. q = updateInterestRates(r0, 0, amount, rf, now) OBVIOUS
  <2>. HIDE DEF q
  <2>9. l = scaledBurn(r0.aToken, user, amount, nextLiquidityIndex(r, now))
    BY <2>3, <2>7 DEF RatesOnly
  <2>10. /\ r0.aToken \in ScaledLedger /\ nextLiquidityIndex(r, now) \in Nat \ {0}
         /\ r0.cash \in Nat
    BY <2>3, ReserveParts, NextLiquidityIndex, RayPositive
  <2>11. l \in ScaledLedger BY <2>1, <2>9, <2>10, ScaledBurnOK
  <2>12. Balanced(r0.aToken) => Balanced(l) BY <2>9, <2>10, ScaledBurnBalanced
  <2>13. c = r0.cash + 0 - amount BY <2>7, <2>10 DEF RatesOnly
  <2>. HIDE DEF l, c
  <2>14. s = Moved(q, l, c) BY <2>2 DEF Moved
  <2>15. /\ RatesMatch(s, rf, now) /\ s.aToken = l /\ s.cash = c
         /\ s.liquidityIndex = r0.liquidityIndex
         /\ s.variableBorrowIndex = r0.variableBorrowIndex
    BY <2>3, <2>5, <2>6, <2>8, <2>11, <2>13, <2>14, RatesMatched
  <2>16. s.cash = r.cash - amount BY <2>3, <2>10, <2>13, <2>15
  <2> QED BY <1>2, <2>3, <2>4, <2>9, <2>12, <2>15, <2>16 DEF r0
<1> QED BY <1>1, <1>2

\* So does the share of the reserve.
LEMMA PayReserveMoves ==
    ASSUME NEW r, now \in Nat, ReserveOK(r, now), NEW user \in Users, NEW amount \in Nat,
           NEW s, s = payReserve(r, user, amount)
    PROVE  /\ TokensOnly(s, r)
           /\ Balanced(r.aToken) =>
                 Balanced(s.aToken) /\ s.aToken.totalSupply = r.aToken.totalSupply
<1> DEFINE index == getNormalizedIncome(r, now)
           l == scaledTransfer(r.aToken, user, Treasury, amount, index)
<1>1. r.aToken \in ScaledLedger /\ index \in Nat \ {0} /\ r \in ReserveData
  BY ReserveParts, NextLiquidityIndex, RayPositive DEF ReserveOK
<1>2. Treasury \in Users BY ReserveLogicConstants
<1>3. Balanced(r.aToken) => Balanced(l) /\ l.totalSupply = r.aToken.totalSupply
  BY <1>1, <1>2, ScaledTransferBalanced
<1>4. s = r \/ s = [r EXCEPT !.aToken = l] BY DEF payReserve
<1>. HIDE DEF l
<1>5. CASE s = r
  <2>1. TokensOnly(r, r) BY <1>1, LedgerReplaced
  <2> QED BY <1>5, <2>1
<1>6. CASE s = [r EXCEPT !.aToken = l]
  <2>1. TokensOnly(s, r) /\ s.aToken = l BY <1>1, <1>6, LedgerReplaced
  <2> QED BY <1>3, <2>1
<1> QED BY <1>4, <1>5, <1>6

\* Burning nothing is burning no unit.
LEMMA NoUnits == ASSUME NEW index \in Nat \ {0} PROVE rayDiv(0, index) = 0
<1>1. 0 * RAY = 0 BY RayPositive
<1>2. HalfUp(0 * index, index) = 0 BY HalfUpExact
<1>3. 0 * index = 0 OBVIOUS
<1> QED BY <1>1, <1>2, <1>3 DEF rayDiv

\* The debt a liquidation burns, in units of the two kinds.
LEMMA BurnDebtMoves ==
    ASSUME NEW r, now \in Nat, ReserveOK(r, now), NEW user \in Users,
           NEW debt \in Nat, NEW variable \in Nat, variable <= debt,
           burnDebtAllowed(r, user, debt, variable),
           NEW s, s = burnDebt(r, user, debt, variable)
    PROVE  /\ DebtsOnly(s, r)
           /\ Balanced(r.variableDebt) => Balanced(s.variableDebt)
           /\ unitsOf(r, variable, VARIABLE_MODE) \in Nat
           /\ debtUnits(s, user, VARIABLE_MODE)
                = debtUnits(r, user, VARIABLE_MODE) - unitsOf(r, variable, VARIABLE_MODE)
           /\ debtUnits(s, user, STABLE) = debtUnits(r, user, STABLE) - (debt - variable)
           /\ \A u \in Users \ {user}, m \in InterestRateMode :
                 debtUnits(s, u, m) = debtUnits(r, u, m)
<1> DEFINE index == r.variableBorrowIndex
           v == IF variable > 0
                THEN scaledBurn(r.variableDebt, user, variable, index)
                ELSE r.variableDebt
           l == IF debt > variable
                THEN stableBurn(r.stableDebt, user, debt - variable, now)
                ELSE r.stableDebt
           q == [r EXCEPT !.variableDebt = v, !.stableDebt = l]
<1>1. /\ r.variableDebt \in ScaledLedger /\ r.stableDebt \in StableLedger
      /\ StableClocks(r.stableDebt, now)
      /\ index \in Nat \ {0} /\ r \in ReserveData
  BY ReserveParts, RayPositive DEF ReserveOK
<1>2. rayDiv(variable, index) \in Nat BY <1>1, RayDivNat
<1>3. /\ Balanced(r.variableDebt) => Balanced(v)
      /\ v.balances[user] = r.variableDebt.balances[user] - rayDiv(variable, index)
      /\ \A u \in Users \ {user} : v.balances[u] = r.variableDebt.balances[u]
  <2>1. CASE variable > 0
    <3>1. v = scaledBurn(r.variableDebt, user, variable, index) BY <2>1
    <3>2. Balanced(r.variableDebt) => Balanced(v) BY <1>1, <3>1, ScaledBurnBalanced
    <3> QED BY <1>1, <3>1, <3>2 DEF scaledBurn, ScaledLedger
  <2>2. CASE ~(variable > 0)
    <3>1. variable = 0 /\ v = r.variableDebt BY <2>2
    <3>2. rayDiv(variable, index) = 0 BY <1>1, <3>1, NoUnits
    <3> QED BY <1>1, <3>1, <3>2 DEF ScaledLedger
  <2> QED BY <2>1, <2>2
<1>4. /\ stableBalanceOf(l, user, now)
           = stableBalanceOf(r.stableDebt, user, now) - (debt - variable)
      /\ \A u \in Users \ {user} :
            stableBalanceOf(l, u, now) = stableBalanceOf(r.stableDebt, u, now)
  <2>1. CASE debt > variable
    <3> DEFINE amount == debt - variable
    <3>1. amount \in Nat /\ stableBurnAllowed(r.stableDebt, user, amount, now)
      BY <2>1 DEF burnDebtAllowed
    <3>2. l = stableBurn(r.stableDebt, user, amount, now) BY <2>1
    <3>. HIDE DEF amount, l
    <3>3. /\ stableBalanceOf(l, user, now) = stableBalanceOf(r.stableDebt, user, now) - amount
          /\ \A u \in Users \ {user} :
                stableBalanceOf(l, u, now) = stableBalanceOf(r.stableDebt, u, now)
      BY <1>1, <3>1, <3>2, StableBurnBalances
    <3> QED BY <3>3 DEF amount
  <2>2. CASE ~(debt > variable)
    <3>1. stableBalanceOf(r.stableDebt, user, now) \in Nat BY <1>1, StableBalance
    <3>2. debt - variable = 0 /\ l = r.stableDebt BY <2>2
    <3>. HIDE DEF l
    <3> QED BY <3>1, <3>2
  <2> QED BY <2>1, <2>2
<1>5. s = q BY DEF burnDebt
<1>. HIDE DEF v, l
<1>6. DebtsOnly(s, r) /\ s.variableDebt = v /\ s.stableDebt = l
  BY <1>1, <1>5 DEF ReserveData, DebtsOnly
<1>7. STABLE # VARIABLE_MODE BY DEF STABLE, VARIABLE_MODE
<1>8. ASSUME NEW u \in Users \ {user}, NEW m \in InterestRateMode
      PROVE  debtUnits(s, u, m) = debtUnits(r, u, m)
  BY <1>3, <1>4, <1>6 DEF debtUnits, stableDebtOf
<1>. HIDE DEF index
<1>9. /\ unitsOf(r, variable, VARIABLE_MODE) = rayDiv(variable, index)
      /\ debtUnits(r, user, VARIABLE_MODE) = r.variableDebt.balances[user]
      /\ debtUnits(s, user, VARIABLE_MODE) = v.balances[user]
      /\ debtUnits(s, user, STABLE) = stableBalanceOf(l, user, now)
      /\ debtUnits(r, user, STABLE) = stableBalanceOf(r.stableDebt, user, now)
  BY <1>6, <1>7 DEF unitsOf, debtUnits, stableDebtOf, index
<1> QED BY <1>2, <1>3, <1>4, <1>6, <1>8, <1>9

\* The stages of a liquidation: the debt reserve with the debt burned (debt2) and
\* at new rates (debt3); the collateral reserve as found (coll1), once the
\* liquidator is paid (coll2) and the reserve's share (coll3).
LiquidationStages(liquidator, c, d, user, receiveAToken,
                  D, T, K, variable, debt2, debt3, coll1, coll2, coll3) ==
    /\ variable <= D
    /\ burnDebtAllowed(Refreshed(d), user, D, variable)
    /\ debt2 = burnDebt(Refreshed(d), user, D, variable)
    /\ ReserveOK(debt2, now)
    /\ updateInterestRatesAllowed(debt2, D, 0, Factor(d))
    /\ debt3 = updateInterestRates(debt2, D, 0, Factor(d), now)
    /\ ReserveOK(debt3, now)
    /\ coll1 = (IF c = d THEN debt3 ELSE reserves[c])
    /\ ReserveOK(coll1, now)
    /\ payLiquidatorAllowed(coll1, Factor(c), user, T, receiveAToken)
    /\ coll2 = payLiquidator(coll1, Factor(c), user, liquidator, T, receiveAToken)
    /\ ReserveOK(coll2, now) /\ SameDebts(coll2, coll1)
    /\ coll3 = payReserve(coll2, user, K)
    /\ ReserveOK(coll3, now)
    /\ \A b \in Assets :
          reserves'[b] = IF b # d THEN IF b = c THEN coll3 ELSE reserves[b]
                         ELSE IF c = d THEN [coll3 EXCEPT !.cash = @ + D]
                         ELSE [debt3 EXCEPT !.cash = @ + D]
    /\ \A b \in Assets :
          /\ wallets'[b][liquidator]
               = wallets[b][liquidator] + (IF b = c /\ ~receiveAToken THEN T ELSE 0)
                   - (IF b = d THEN D ELSE 0)
          /\ \A v \in Users \ {liquidator} : wallets'[b][v] = wallets[b][v]
    /\ UNCHANGED <<configuration, now>>

\* A liquidation goes through these stages.
LEMMA LiquidationEffect ==
    ASSUME PoolInv, NEW liquidator \in Users, NEW c \in Assets, NEW d \in Assets,
           NEW user \in Users, NEW debtToCover \in Requests, NEW receiveAToken \in BOOLEAN,
           LiquidationCall(liquidator, c, d, user, debtToCover, receiveAToken)
    PROVE  \E D \in Nat, T \in Nat, K \in Nat, variable \in Nat :
              \E debt2, debt3, coll1, coll2, coll3 :
                 LiquidationStages(liquidator, c, d, user, receiveAToken,
                                   D, T, K, variable, debt2, debt3, coll1, coll2, coll3)
<1> DEFINE terms    == liquidationTerms(c, d, user, debtToCover)
           T        == terms.toLiquidator
           K        == terms.forReserve
           D        == terms.debt
           variable == variablePart(reserves[d], user, D)
           rfD      == configuration[d].reserveFactor
           rfC      == configuration[c].reserveFactor
           debt1    == updateState(reserves[d], rfD, now)
           debt2    == burnDebt(debt1, user, D, variable)
           debt3    == updateInterestRates(debt2, D, 0, rfD, now)
           reserves1 == [reserves EXCEPT ![d] = debt3]
           coll1    == reserves1[c]
           coll2    == payLiquidator(coll1, rfC, user, liquidator, T, receiveAToken)
           coll3    == payReserve(coll2, user, K)
           placed   == [reserves1 EXCEPT ![c] = coll3]
           reserves2 == [placed EXCEPT ![d].cash = @ + D]
           payout   == IF receiveAToken THEN 0 ELSE T
           wallets1 == [wallets EXCEPT ![c][liquidator] = @ + payout]
           wallets2 == [wallets1 EXCEPT ![d][liquidator] = @ - D]
<1>1. /\ validateLiquidationCall(c, d, user)
      /\ burnDebtAllowed(debt1, user, D, variable)
      /\ updateInterestRatesAllowed(debt2, D, 0, rfD)
      /\ payLiquidatorAllowed(coll1, rfC, user, T, receiveAToken)
      /\ payReserveAllowed(coll2, user, K)
      /\ reserves' = reserves2
      /\ wallets' = wallets2
      /\ configuration' = configuration /\ now' = now
  BY ZenonT(60) DEF LiquidationCall
<1>2. T \in Nat /\ K \in Nat /\ D \in Nat BY <1>1, RequestsNat, LiquidationTermsNat
<1>. HIDE DEF terms
<1>3. /\ now \in Nat /\ 0 \in Nat /\ rfD \in Nat /\ rfC \in Nat
      /\ rfD = Factor(d) /\ rfC = Factor(c)
      /\ ReserveOK(reserves[d], now) /\ ReserveOK(reserves[c], now)
  BY PoolParts DEF Factor
<1>4. debt1 = Refreshed(d) BY DEF Refreshed, Factor
<1>. HIDE DEF T, K, D, rfD, rfC
<1>5. variable \in Nat /\ variable <= D
  BY <1>2, <1>3, ReportedBalances, LesserNat DEF variablePart
<1>. HIDE DEF variable, debt1
<1>6. ReserveOK(debt1, now) /\ debt1.lastUpdateTimestamp = now BY <1>4, RefreshedOK
<1>7. ReserveOK(debt2, now)
  BY <1>1, <1>2, <1>3, <1>5, <1>6, BurnDebtOK, Zenon
<1>8. debt2 = burnDebt(debt1, user, D, variable) OBVIOUS
<1>. HIDE DEF debt2
<1>9. ReserveOK(debt3, now) BY <1>1, <1>2, <1>3, <1>7, UpdateInterestRatesOK, Zenon
<1>10. debt3 = updateInterestRates(debt2, D, 0, rfD, now) OBVIOUS
<1>. HIDE DEF debt3
<1>11. DOMAIN reserves = Assets BY DEF PoolInv, PoolTypeOK
<1>12. coll1 = IF c = d THEN debt3 ELSE reserves[c] BY <1>11
<1>13. ReserveOK(coll1, now) BY <1>3, <1>9, <1>12
<1>. HIDE DEF coll1
<1>14. ReserveOK(coll2, now) /\ SameDebts(coll2, coll1)
  BY <1>1, <1>2, <1>3, <1>13, PayLiquidatorOK
<1>15. coll2 = payLiquidator(coll1, rfC, user, liquidator, T, receiveAToken) OBVIOUS
<1>. HIDE DEF coll2
<1>16. ReserveOK(coll3, now) BY <1>1, <1>2, <1>3, <1>14, PayReserveOK
<1>17. coll3 = payReserve(coll2, user, K) OBVIOUS
<1>. HIDE DEF coll3
<1>18. \A b \in Assets :
          reserves'[b] = IF b # d THEN IF b = c THEN coll3 ELSE reserves[b]
                         ELSE IF c = d THEN [coll3 EXCEPT !.cash = @ + D]
                         ELSE [debt3 EXCEPT !.cash = @ + D]
  <2>1. /\ DOMAIN placed = Assets
        /\ \A b \in Assets : placed[b] = IF b = c THEN coll3
                                         ELSE IF b = d THEN debt3 ELSE reserves[b]
    BY <1>11
  <2>. HIDE DEF placed
  <2>2. \A b \in Assets :
          reserves'[b] = IF b = d THEN [placed[d] EXCEPT !.cash = @ + D] ELSE placed[b]
    BY <1>1, <2>1
  <2> QED BY <2>1, <2>2
<1>19. ASSUME NEW b \in Assets
       PROVE  /\ wallets'[b][liquidator]
                   = wallets[b][liquidator] + (IF b = c /\ ~receiveAToken THEN T ELSE 0)
                       - (IF b = d THEN D ELSE 0)
              /\ \A v \in Users \ {liquidator} : wallets'[b][v] = wallets[b][v]
  <2>1. wallets \in [Assets -> [Users -> Nat]] BY DEF PoolInv, PoolTypeOK
  <2>2. payout \in Nat BY <1>2, <1>3
  <2>3. /\ wallets1 \in [Assets -> [Users -> Nat]]
        /\ wallets1[b][liquidator]
             = wallets[b][liquidator] + (IF b = c THEN payout ELSE 0)
        /\ \A v \in Users \ {liquidator} : wallets1[b][v] = wallets[b][v]
    BY <2>1, <2>2
  <2>. HIDE DEF wallets1, payout
  <2>5. /\ wallets'[b][liquidator] = wallets1[b][liquidator] - (IF b = d THEN D ELSE 0)
        /\ \A v \in Users \ {liquidator} : wallets'[b][v] = wallets1[b][v]
    BY <1>1, <1>2, <2>3
  <2>6. wallets[b][liquidator] \in Nat BY <2>1
  <2>7. payout = IF receiveAToken THEN 0 ELSE T BY DEF payout
  <2>8. \A v \in Users \ {liquidator} : wallets'[b][v] = wallets[b][v] BY <2>3, <2>5
  <2> QED BY <1>2, <2>2, <2>3, <2>5, <2>6, <2>7, <2>8
<1>20. LiquidationStages(liquidator, c, d, user, receiveAToken,
                         D, T, K, variable, debt2, debt3, coll1, coll2, coll3)
  BY <1>1, <1>3, <1>4, <1>5, <1>7, <1>8, <1>9, <1>10, <1>12, <1>13, <1>14, <1>15, <1>16,
     <1>17, <1>18, <1>19, Zenon
     DEF LiquidationStages
<1> QED BY <1>2, <1>5, <1>20

\* Rates that match what is stored for a are current.
LEMMA Followed ==
    ASSUME NEW a \in Assets, UNCHANGED <<configuration, now>>,
           RatesMatch(reserves'[a], Factor(a), now)
    PROVE  RatesFollowed(a)
<1>1. ratesCurrent(a)' BY DEF ratesCurrent, RatesMatch, Factor
<1> QED BY <1>1 DEF RatesFollowed

\* The two scaled ledgers of a stay balanced.
KeepsSupplies(a) ==
    /\ Balanced(reserves[a].aToken) => Balanced(reserves'[a].aToken)
    /\ Balanced(reserves[a].variableDebt) => Balanced(reserves'[a].variableDebt)

\* A refresh keeps the supply of aTokens.
LEMMA RefreshedBalanced ==
    ASSUME PoolInv, NEW a \in Assets, Balanced(reserves[a].aToken)
    PROVE  Balanced(Refreshed(a).aToken)
BY PoolParts, UpdateStateBalanced DEF Refreshed

\* What the stages of a liquidation do to a reserve.
LEMMA LiquidationMoves ==
    ASSUME PoolInv, NEW liquidator \in Users, NEW c \in Assets, NEW d \in Assets,
           NEW user \in Users, NEW receiveAToken \in BOOLEAN,
           NEW D \in Nat, NEW T \in Nat, NEW K \in Nat, NEW variable \in Nat,
           NEW debt2, NEW debt3, NEW coll1, NEW coll2, NEW coll3,
           LiquidationStages(liquidator, c, d, user, receiveAToken,
                             D, T, K, variable, debt2, debt3, coll1, coll2, coll3),
           NEW b \in Assets
    PROVE  /\ KeepsSupplies(b)
           /\ b # d => SameDebts(reserves'[b], reserves[b])
           /\ b = d => SameDebts(reserves'[b], debt2)
           /\ (b = c /\ b = d /\ ~receiveAToken) \/ RatesFollowed(b)
<1> USE DEF LiquidationStages
<1>1. now \in Nat /\ Factor(d) \in Nat /\ Factor(c) \in Nat /\ 0 \in Nat /\ ReserveOK(reserves[b], now)
  BY PoolParts
<1>2. /\ ReserveOK(Refreshed(d), now)
      /\ Refreshed(d).variableDebt = reserves[d].variableDebt
  BY RefreshedOK
<1>3. /\ DebtsOnly(debt2, Refreshed(d))
      /\ Balanced(Refreshed(d).variableDebt) => Balanced(debt2.variableDebt)
  BY <1>1, <1>2, BurnDebtMoves, Zenon
<1>4. RatesOnly(debt3, debt2) BY <1>1, UpdateInterestRatesOK, Zenon
<1>5. /\ SameDebts(debt3, debt2)
      /\ Balanced(reserves[d].aToken) => Balanced(debt3.aToken)
      /\ Balanced(reserves[d].variableDebt) => Balanced(debt3.variableDebt)
  BY <1>2, <1>3, <1>4, RefreshedBalanced DEF DebtsOnly, RatesOnly, SameDebts
<1>6. /\ Balanced(coll1.aToken) => Balanced(coll2.aToken)
      /\ receiveAToken => TokensOnly(coll2, coll1)
      /\ ~receiveAToken => RatesMatch(coll2, Factor(c), now)
  BY <1>1, PayLiquidatorMoves
<1>7. /\ TokensOnly(coll3, coll2)
      /\ Balanced(coll2.aToken) => Balanced(coll3.aToken)
  BY <1>1, PayReserveMoves
<1>8. /\ SameDebts(coll3, coll1)
      /\ Balanced(coll1.aToken) => Balanced(coll3.aToken)
      /\ receiveAToken => TokensOnly(coll3, coll1)
      /\ ~receiveAToken => RatesMatch(coll3, Factor(c), now)
  <2>1. SameDebts(coll2, coll1) OBVIOUS
  <2>2. SameDebts(coll3, coll1) BY <1>7, <2>1 DEF TokensOnly, SameDebts
  <2>3. receiveAToken => TokensOnly(coll3, coll1) BY <1>6, <1>7 DEF TokensOnly, SameDebts
  <2>4. ~receiveAToken => RatesMatch(coll3, Factor(c), now) BY <1>6, <1>7, TokensOnlyRates
  <2> QED BY <1>6, <1>7, <2>2, <2>3, <2>4
<1>9. coll3 \in ReserveData /\ debt3 \in ReserveData BY DEF ReserveOK
<1>10. CASE b # d /\ b # c
  <2>1. reserves'[b] = reserves[b] BY <1>10
  <2> QED BY <1>10, <2>1 DEF KeepsSupplies, RatesFollowed, SameDebts
<1>11. CASE b # d /\ b = c
  <2>1. reserves'[b] = coll3 /\ coll1 = reserves[b] BY <1>11
  <2>2. SameDebts(reserves'[b], reserves[b]) BY <1>8, <2>1
  <2>3. RatesFollowed(b)
    <3>1. CASE receiveAToken BY <1>8, <2>1, <3>1 DEF RatesFollowed, TokensOnly, SameDebts
    <3>2. CASE ~receiveAToken BY <1>8, <1>11, <2>1, <3>2, Followed
    <3> QED BY <3>1, <3>2
  <2>4. KeepsSupplies(b) BY <1>8, <2>1, <2>2 DEF KeepsSupplies, SameDebts
  <2> QED BY <1>11, <2>2, <2>3, <2>4
<1>12. CASE b = d /\ b # c
  <2> DEFINE s == [debt3 EXCEPT !.cash = @ + D]
             l == debt3.aToken
             e == debt3.cash + D
  <2>1. reserves'[b] = s BY <1>12
  <2>2. s = Moved(debt3, l, e) BY <1>9, OnlyCash
  <2>3. /\ l \in ScaledLedger /\ debt2.cash \in Nat /\ debt3.cash = debt2.cash
    BY <1>1, <1>4, ReserveParts DEF RatesOnly
  <2>4. e = debt2.cash + D - 0 BY <2>3
  <2>. HIDE DEF s, l, e
  <2>5. RatesMatch(s, Factor(d), now) /\ SameDebts(s, debt2) /\ s.aToken = l
    BY <1>1, <2>2, <2>3, <2>4, RatesMatched
  <2>6. RatesFollowed(b) BY <1>12, <2>1, <2>5, Followed
  <2>7. KeepsSupplies(b)
    BY <1>5, <1>12, <2>1, <2>5 DEF KeepsSupplies, SameDebts, l
  <2> QED BY <1>12, <2>1, <2>5, <2>6, <2>7
<1>13. CASE b = d /\ b = c
  <2> DEFINE s == [coll3 EXCEPT !.cash = @ + D]
  <2>1. reserves'[b] = s /\ coll1 = debt3 BY <1>13
  <2>2. /\ SameDebts(s, coll3) /\ s.aToken = coll3.aToken /\ s.cash = coll3.cash + D
        /\ s.liquidityIndex = coll3.liquidityIndex
        /\ s.variableBorrowIndex = coll3.variableBorrowIndex
        /\ s.lastUpdateTimestamp = coll3.lastUpdateTimestamp
        /\ s.currentLiquidityRate = coll3.currentLiquidityRate
        /\ s.currentStableBorrowRate = coll3.currentStableBorrowRate
        /\ s.currentVariableBorrowRate = coll3.currentVariableBorrowRate
    BY <1>9 DEF ReserveData, SameDebts
  <2>. HIDE DEF s
  <2>3. SameDebts(s, debt2) BY <1>5, <1>8, <2>1, <2>2 DEF SameDebts
  <2>4. KeepsSupplies(b)
    BY <1>5, <1>8, <1>13, <2>1, <2>2 DEF KeepsSupplies, SameDebts
  <2>5. ~receiveAToken \/ RatesFollowed(b)
    <3>1. SUFFICES ASSUME receiveAToken PROVE RatesFollowed(b) OBVIOUS
    <3> DEFINE l == debt3.aToken
               e == debt3.cash + D
               q == Moved(debt3, l, e)
    <3>2. /\ l \in ScaledLedger /\ debt2.cash \in Nat /\ debt3.cash = debt2.cash
      BY <1>1, <1>4, ReserveParts DEF RatesOnly
    <3>3. e = debt2.cash + D - 0 BY <3>2
    <3>4. /\ SameDebts(q, debt3) /\ q.cash = debt3.cash + D
          /\ q.liquidityIndex = debt3.liquidityIndex
          /\ q.variableBorrowIndex = debt3.variableBorrowIndex
          /\ q.lastUpdateTimestamp = debt3.lastUpdateTimestamp
          /\ q.currentLiquidityRate = debt3.currentLiquidityRate
          /\ q.currentStableBorrowRate = debt3.currentStableBorrowRate
          /\ q.currentVariableBorrowRate = debt3.currentVariableBorrowRate
      BY <1>9 DEF Moved, ReserveData, SameDebts
    <3>5. q = Moved(debt3, l, e) OBVIOUS
    <3>. HIDE DEF l, e, q
    <3>6. RatesMatch(q, Factor(d), now) BY <1>1, <3>2, <3>3, <3>5, RatesMatched
    <3>7. TokensOnly(s, q)
      <4>1. TokensOnly(coll3, debt3) BY <1>8, <2>1, <3>1
      <4>2. SameDebts(s, q) BY <2>2, <3>4, <4>1 DEF TokensOnly, SameDebts
      <4>3. s.cash = q.cash BY <2>2, <3>4, <4>1 DEF TokensOnly
      <4> QED BY <2>2, <3>4, <4>1, <4>2, <4>3 DEF TokensOnly
    <3>8. RatesMatch(s, Factor(d), now) BY <3>6, <3>7, TokensOnlyRates
    <3> QED BY <1>13, <2>1, <3>8, Followed
  <2> QED BY <1>13, <2>1, <2>3, <2>4, <2>5
<1> QED BY <1>10, <1>11, <1>12, <1>13

-----------------------------------------------------------------------------
(* Supplies and rates, operation by operation.                               *)

\* What no step may do to any reserve.
KeepsBooks ==
    \A b \in Assets : KeepsSupplies(b) /\ RatesFollowed(b)

\* A reserve that is not touched keeps its books.
LEMMA Untouched ==
    ASSUME NEW b \in Assets, reserves'[b] = reserves[b]
    PROVE  KeepsSupplies(b) /\ RatesFollowed(b)
BY DEF KeepsSupplies, RatesFollowed

\* Storing a settled reserve with balanced ledgers.
LEMMA StoreKeepsBooks ==
    ASSUME PoolInv, NEW a \in Assets, NEW s, Stores(a, s),
           Balanced(reserves[a].aToken) => Balanced(s.aToken),
           Balanced(reserves[a].variableDebt) => Balanced(s.variableDebt)
    PROVE  KeepsBooks
<1>1. reserves'[a] = s /\ \A b \in Assets \ {a} : reserves'[b] = reserves[b]
  BY DEF Stores, PoolInv, PoolTypeOK
<1>2. KeepsSupplies(a) BY <1>1 DEF KeepsSupplies
<1>3. RatesFollowed(a) BY <1>1, Followed DEF Stores, Settled
<1>4. \A b \in Assets \ {a} : KeepsSupplies(b) /\ RatesFollowed(b) BY <1>1, Untouched
<1> QED BY <1>2, <1>3, <1>4 DEF KeepsBooks

\* Deposits and withdrawals.
LEMMA DepositKeepsBooks ==
    ASSUME PoolInv, NEW caller \in Users, NEW a \in Assets, NEW amount \in Amounts,
           NEW onBehalfOf \in Users, Deposit(caller, a, amount, onBehalfOf)
    PROVE  KeepsBooks
<1>1. PICK s : /\ Stores(a, s)
               /\ SameDebts(s, reserves[a])
               /\ s.aToken = scaledMint(Refreshed(a).aToken, onBehalfOf, amount,
                                        nextLiquidityIndex(reserves[a], now))
  BY DepositEffect
<1>2. /\ amount \in Nat /\ ReserveOK(Refreshed(a), now)
      /\ now \in Nat /\ nextLiquidityIndex(reserves[a], now) \in Nat \ {0}
  BY PoolConstants, PoolParts, RefreshedOK, ReserveParts, NextLiquidityIndex, RayPositive
<1>3. Balanced(reserves[a].aToken) => Balanced(s.aToken)
  BY <1>1, <1>2, RefreshedBalanced, ReserveParts, ScaledMintBalanced
<1> QED BY <1>1, <1>3, StoreKeepsBooks DEF SameDebts

\* A withdrawal moves cash one way and aTokens the other.
LEMMA WithdrawKeepsBooks ==
    ASSUME PoolInv, NEW caller \in Users, NEW a \in Assets, NEW request \in Requests,
           NEW to \in Users, Withdraw(caller, a, request, to)
    PROVE  KeepsBooks
<1>1. PICK s : \E amount \in Nat :
               /\ Stores(a, s)
               /\ SameDebts(s, reserves[a])
               /\ s.aToken = scaledBurn(Refreshed(a).aToken, caller, amount,
                                        nextLiquidityIndex(reserves[a], now))
  BY WithdrawEffect
<1>2. PICK amount \in Nat :
               /\ Stores(a, s)
               /\ SameDebts(s, reserves[a])
               /\ s.aToken = scaledBurn(Refreshed(a).aToken, caller, amount,
                                        nextLiquidityIndex(reserves[a], now))
  BY <1>1
<1>3. /\ ReserveOK(Refreshed(a), now)
      /\ now \in Nat /\ nextLiquidityIndex(reserves[a], now) \in Nat \ {0}
  BY PoolParts, RefreshedOK, NextLiquidityIndex, RayPositive
<1>4. Balanced(reserves[a].aToken) => Balanced(s.aToken)
  BY <1>2, <1>3, RefreshedBalanced, ReserveParts, ScaledBurnBalanced
<1> QED BY <1>2, <1>4, StoreKeepsBooks DEF SameDebts

\* Borrows, repayments and the two rate operations.
LEMMA BorrowKeepsBooks ==
    ASSUME PoolInv, NEW caller \in Users, NEW a \in Assets, NEW amount \in Amounts,
           NEW mode \in InterestRateMode, NEW onBehalfOf \in Users,
           Borrow(caller, a, amount, mode, onBehalfOf)
    PROVE  KeepsBooks
<1>1. PICK s : /\ Stores(a, s)
               /\ amount \in Nat
               /\ amount # 0
               /\ SameDebts(s, mintDebt(Refreshed(a), onBehalfOf, amount, mode))
               /\ s.aToken = Refreshed(a).aToken
  BY BorrowEffect
<1>2. /\ ReserveOK(Refreshed(a), now) /\ now \in Nat
      /\ Refreshed(a).variableDebt = reserves[a].variableDebt
  BY PoolParts, RefreshedOK
<1>3. Balanced(reserves[a].variableDebt) => Balanced(s.variableDebt)
  BY <1>1, <1>2, MintDebtMoves DEF SameDebts
<1> QED BY <1>1, <1>3, RefreshedBalanced, StoreKeepsBooks

\* A repayment brings the cash that the debt was for.
LEMMA RepayKeepsBooks ==
    ASSUME PoolInv, NEW caller \in Users, NEW a \in Assets, NEW request \in Requests,
           NEW mode \in InterestRateMode, NEW onBehalfOf \in Users,
           Repay(caller, a, request, mode, onBehalfOf)
    PROVE  KeepsBooks
<1>1. PICK s : \E payback \in Nat :
               /\ Stores(a, s)
               /\ repayDebtAllowed(Refreshed(a), onBehalfOf, payback, mode)
               /\ SameDebts(s, repayDebt(Refreshed(a), onBehalfOf, payback, mode))
               /\ s.aToken = Refreshed(a).aToken
  BY RepayEffect
<1>2. PICK payback \in Nat :
               /\ Stores(a, s)
               /\ repayDebtAllowed(Refreshed(a), onBehalfOf, payback, mode)
               /\ SameDebts(s, repayDebt(Refreshed(a), onBehalfOf, payback, mode))
               /\ s.aToken = Refreshed(a).aToken
  BY <1>1
<1>3. /\ ReserveOK(Refreshed(a), now) /\ now \in Nat
      /\ Refreshed(a).variableDebt = reserves[a].variableDebt
  BY PoolParts, RefreshedOK
<1>4. Balanced(reserves[a].variableDebt) => Balanced(s.variableDebt)
  BY <1>2, <1>3, RepayDebtMoves DEF SameDebts
<1> QED BY <1>2, <1>4, RefreshedBalanced, StoreKeepsBooks

\* Changing the kind or the rate of a debt moves no cash.
LEMMA RateOperationKeepsBooks ==
    ASSUME PoolInv, NEW caller \in Users, NEW a \in Assets,
           RebalanceStableBorrowRate(a, caller)
             \/ \E mode \in InterestRateMode : SwapBorrowRateMode(caller, a, mode)
    PROVE  KeepsBooks
<1>1. PICK s : /\ Stores(a, s)
               /\ s.aToken = Refreshed(a).aToken
               /\ Balanced(reserves[a].variableDebt) => Balanced(s.variableDebt)
  BY RebalanceEffect, SwapEffect
<1> QED BY <1>1, RefreshedBalanced, StoreKeepsBooks

\* A transfer of aTokens moves neither cash nor debt.
LEMMA TransferKeepsBooks ==
    ASSUME PoolInv, NEW from \in Users, NEW a \in Assets, NEW amount \in Amounts,
           NEW to \in Users, TransferAToken(from, a, amount, to)
    PROVE  KeepsBooks
<1>1. PICK s : /\ reserves' = [reserves EXCEPT ![a] = s]
               /\ UNCHANGED <<configuration, wallets, now>>
               /\ TokensOnly(s, reserves[a])
               /\ Balanced(reserves[a].aToken) => Balanced(s.aToken)
  BY TransferEffect
<1>2. reserves'[a] = s /\ \A b \in Assets \ {a} : reserves'[b] = reserves[b]
  BY <1>1 DEF PoolInv, PoolTypeOK
<1>3. \A b \in Assets \ {a} : KeepsSupplies(b) /\ RatesFollowed(b)
  BY <1>1, <1>2, Untouched
<1>4. KeepsSupplies(a) /\ RatesFollowed(a)
  BY <1>1, <1>2 DEF KeepsSupplies, RatesFollowed, TokensOnly, SameDebts
<1> QED BY <1>3, <1>4 DEF KeepsBooks

\* A liquidation, also one whose collateral and debt are the same reserve.
LEMMA LiquidationKeepsBooks ==
    ASSUME PoolInv, NEW liquidator \in Users, NEW c \in Assets, NEW d \in Assets,
           NEW user \in Users, NEW debtToCover \in Requests, NEW receiveAToken \in BOOLEAN,
           LiquidationCall(liquidator, c, d, user, debtToCover, receiveAToken)
    PROVE  KeepsBooks
<1>1. PICK D \in Nat, T \in Nat, K \in Nat, variable \in Nat :
              \E debt2, debt3, coll1, coll2, coll3 :
                 LiquidationStages(liquidator, c, d, user, receiveAToken,
                                   D, T, K, variable, debt2, debt3, coll1, coll2, coll3)
  BY LiquidationEffect
<1>2. PICK debt2, debt3, coll1, coll2, coll3 :
                 LiquidationStages(liquidator, c, d, user, receiveAToken,
                                   D, T, K, variable, debt2, debt3, coll1, coll2, coll3)
  BY <1>1
<1>3. ASSUME NEW b \in Assets
      PROVE  KeepsSupplies(b) /\ RatesFollowed(b)
  <2>1. /\ KeepsSupplies(b)
        /\ (b = c /\ b = d /\ ~receiveAToken) \/ RatesFollowed(b)
    BY <1>2, LiquidationMoves
  <2>2. CASE b = c /\ b = d /\ ~receiveAToken
    <3>1. LiquidationCall(liquidator, b, b, user, debtToCover, FALSE)
      <4>1. receiveAToken = FALSE BY <2>2
      <4> QED BY <2>2, <4>1
    <3> QED BY <2>1, <3>1 DEF RatesFollowed
  <2> QED BY <2>1, <2>2
<1> QED BY <1>3 DEF KeepsBooks

\* So does every step of the pool.
LEMMA StepKeepsBooks == ASSUME PoolInv, [PoolNext]_poolVars PROVE KeepsBooks
<1>1. ASSUME UNCHANGED <<reserves, wallets>> PROVE KeepsBooks
  BY <1>1, Untouched DEF KeepsBooks
<1>2. ASSUME NEW caller \in Users, NEW a \in Assets,
        \/ \E amount \in Amounts, to \in Users :
              Deposit(caller, a, amount, to) \/ TransferAToken(caller, a, amount, to)
        \/ \E request \in Requests, to \in Users : Withdraw(caller, a, request, to)
        \/ \E amount \in Amounts, mode \in InterestRateMode, onBehalfOf \in Users :
              Borrow(caller, a, amount, mode, onBehalfOf)
        \/ \E request \in Requests, mode \in InterestRateMode, onBehalfOf \in Users :
              Repay(caller, a, request, mode, onBehalfOf)
        \/ \E mode \in InterestRateMode : SwapBorrowRateMode(caller, a, mode)
        \/ RebalanceStableBorrowRate(a, caller)
        \/ \E use \in BOOLEAN : SetUserUseReserveAsCollateral(caller, a, use)
        \/ \E mode \in InterestRateMode, to \in Users, amount \in DelegationAmounts :
              ApproveDelegation(caller, a, mode, to, amount)
        \/ \E d \in Assets, user \in Users, amount \in Requests, receiveAToken \in BOOLEAN :
              LiquidationCall(caller, a, d, user, amount, receiveAToken)
      PROVE  KeepsBooks
  <2>1. CASE \E amount \in Amounts, to \in Users :
                Deposit(caller, a, amount, to) \/ TransferAToken(caller, a, amount, to)
    BY <2>1, DepositKeepsBooks, TransferKeepsBooks
  <2>2. CASE \E request \in Requests, to \in Users : Withdraw(caller, a, request, to)
    BY <2>2, WithdrawKeepsBooks
  <2>3. CASE \E amount \in Amounts, mode \in InterestRateMode, onBehalfOf \in Users :
                Borrow(caller, a, amount, mode, onBehalfOf)
    BY <2>3, BorrowKeepsBooks
  <2>4. CASE \E request \in Requests, mode \in InterestRateMode, onBehalfOf \in Users :
                Repay(caller, a, request, mode, onBehalfOf)
    BY <2>4, RepayKeepsBooks
  <2>5. CASE \/ RebalanceStableBorrowRate(a, caller)
             \/ \E mode \in InterestRateMode : SwapBorrowRateMode(caller, a, mode)
    BY <2>5, RateOperationKeepsBooks
  <2>6. CASE \E use \in BOOLEAN : SetUserUseReserveAsCollateral(caller, a, use)
    BY <1>1, <2>6 DEF SetUserUseReserveAsCollateral
  <2>7. CASE \E mode \in InterestRateMode, to \in Users, amount \in DelegationAmounts :
                ApproveDelegation(caller, a, mode, to, amount)
    BY <1>1, <2>7 DEF ApproveDelegation
  <2>8. CASE \E d \in Assets, user \in Users, amount \in Requests, receiveAToken \in BOOLEAN :
                LiquidationCall(caller, a, d, user, amount, receiveAToken)
    BY <2>8, LiquidationKeepsBooks
  <2> QED BY <1>2, <2>1, <2>2, <2>3, <2>4, <2>5, <2>6, <2>7, <2>8, Zenon
<1>3. CASE UserOperation BY <1>2, <1>3, Zenon DEF UserOperation
<1>4. CASE Environment
  BY <1>1, <1>4 DEF Environment, SetPause, SetAssetPrice, AdvanceTime
<1>5. CASE UNCHANGED poolVars BY <1>1, <1>5 DEF poolVars
<1> QED BY <1>3, <1>4, <1>5 DEF PoolNext

\* The invariant of the pool is kept.
LEMMA PoolInvStep == ASSUME PoolInv, [PoolNext]_poolVars PROVE PoolInv'
<1>1. CASE UserOperation BY <1>1, UserOperationInv
<1>2. CASE Environment BY <1>2, EnvironmentInv
<1>3. CASE UNCHANGED poolVars
  BY <1>3 DEF poolVars, PoolInv, PoolTypeOK, ReservesInOrder, NoHiddenDebt
<1> QED BY <1>1, <1>2, <1>3 DEF PoolNext

\* The supply an aToken or a variable debt token stores is the sum of its
\* balances, although mints, burns, transfers and the treasury's share each write
\* the two apart.
THEOREM SuppliesAlwaysAddUp == PoolSpec => []SuppliesAddUp
<1>1. PoolInit => PoolInv /\ SuppliesAddUp
  <2> SUFFICES ASSUME PoolInit PROVE SuppliesAddUp BY InitInv
  <2> DEFINE l == EmptyScaledLedger
  <2>1. /\ l.balances \in [Users -> Int]
        /\ \A u \in Users : l.balances[u] = 0
        /\ l.totalSupply = 0
    BY DEF EmptyScaledLedger
  <2>2. \A a \in Assets : reserves[a].aToken = l /\ reserves[a].variableDebt = l
    BY DEF PoolInit, InitReserve
  <2>. HIDE DEF l
  <2>3. SumFunction(l.balances) = 0 BY <2>1, UsersFinite, SumZero
  <2> QED BY <2>1, <2>2, <2>3 DEF SuppliesAddUp
<1>2. PoolInv /\ SuppliesAddUp /\ [PoolNext]_poolVars => (PoolInv /\ SuppliesAddUp)'
  <2> SUFFICES ASSUME PoolInv, SuppliesAddUp, [PoolNext]_poolVars
               PROVE  PoolInv' /\ SuppliesAddUp'
    OBVIOUS
  <2>1. KeepsBooks BY StepKeepsBooks
  <2>2. \A a \in Assets : /\ Balanced(reserves'[a].aToken)
                          /\ Balanced(reserves'[a].variableDebt)
    BY <2>1 DEF KeepsBooks, KeepsSupplies, SuppliesAddUp, Balanced
  <2> QED BY <2>2, PoolInvStep DEF SuppliesAddUp, Balanced
<1> QED BY <1>1, <1>2, PTL DEF PoolSpec

\* Every operation that moves liquidity or debt leaves the rates of the state it
\* leaves, whatever the strategy's parameters; the one exception is a liquidation
\* of a reserve against itself that pays out the underlying.
THEOREM RatesAlwaysFollow == PoolSpec => RatesFollowLiquidity
<1>1. PoolInv /\ [PoolNext]_poolVars => [\A a \in Assets : RatesFollowed(a)]_poolVars
  BY StepKeepsBooks DEF KeepsBooks
<1> QED BY <1>1, PoolInvariant, PTL DEF PoolSpec, RatesFollowLiquidity

-----------------------------------------------------------------------------
(* No debt grows without its owner's consent.                                *)

\* What no step within a block may do.
KeepsConsent ==
    \A a \in Assets, user \in Users, mode \in InterestRateMode : Consented(a, user, mode)

\* Units of the next state, in a block that has not ended.
LEMMA UnitsPrimed ==
    ASSUME now' = now, NEW a \in Assets, NEW u \in Users, NEW mode \in InterestRateMode
    PROVE  debtUnits(reserves[a], u, mode)' = debtUnits(reserves'[a], u, mode)
BY DEF debtUnits, stableDebtOf

\* A debt that does not grow needs no consent.
LEMMA NotMore ==
    ASSUME PoolInv, now' = now, NEW a \in Assets, NEW u \in Users, NEW mode \in InterestRateMode,
           NEW x \in Nat, debtUnits(reserves'[a], u, mode) = debtUnits(reserves[a], u, mode) - x
    PROVE  Consented(a, u, mode)
<1>1. debtUnits(reserves[a], u, mode) \in Nat BY RefreshedUnits
<1>2. ~(debtUnits(reserves[a], u, mode)' - debtUnits(reserves[a], u, mode) > 0)
  BY <1>1, UnitsPrimed
<1> QED BY <1>2, Zenon DEF Consented

\* Nor do debts that stay as they are.
LEMMA SameDebtsConsent ==
    ASSUME PoolInv, now' = now, NEW a \in Assets, SameDebts(reserves'[a], reserves[a]),
           NEW u \in Users, NEW mode \in InterestRateMode
    PROVE  Consented(a, u, mode)
<1>1. debtUnits(reserves'[a], u, mode) = debtUnits(reserves[a], u, mode)
  BY DEF debtUnits, stableDebtOf, SameDebts
<1>2. debtUnits(reserves[a], u, mode) \in Nat BY RefreshedUnits
<1>3. debtUnits(reserves'[a], u, mode) = debtUnits(reserves[a], u, mode) - 0 /\ 0 \in Nat
  BY <1>1, <1>2
<1> QED BY <1>3, NotMore

\* A step that stores one reserve is answerable for that reserve.
LEMMA StoreConsent ==
    ASSUME PoolInv, NEW a \in Assets, NEW s, Stores(a, s),
           \A u \in Users, mode \in InterestRateMode : Consented(a, u, mode)
    PROVE  KeepsConsent
<1>1. now' = now /\ \A b \in Assets \ {a} : reserves'[b] = reserves[b]
  BY DEF Stores, PoolInv, PoolTypeOK
<1>2. \A b \in Assets \ {a} : SameDebts(reserves'[b], reserves[b])
  BY <1>1 DEF SameDebts
<1> QED BY <1>1, <1>2, SameDebtsConsent DEF KeepsConsent

\* Deposits, withdrawals and aToken transfers leave the debts alone.
LEMMA TokensConsent ==
    ASSUME PoolInv, NEW caller \in Users, NEW a \in Assets, NEW request \in Requests,
           NEW to \in Users,
           \/ request \in Amounts /\ Deposit(caller, a, request, to)
           \/ request \in Amounts /\ TransferAToken(caller, a, request, to)
           \/ Withdraw(caller, a, request, to)
    PROVE  KeepsConsent
<1>1. PICK s : /\ reserves' = [reserves EXCEPT ![a] = s]
               /\ now' = now
               /\ SameDebts(s, reserves[a])
  BY DepositEffect, TransferEffect, WithdrawEffect DEF Stores, TokensOnly
<1>2. \A b \in Assets : SameDebts(reserves'[b], reserves[b])
  BY <1>1 DEF PoolInv, PoolTypeOK, SameDebts
<1> QED BY <1>1, <1>2, SameDebtsConsent DEF KeepsConsent

\* A borrower consents by receiving the amount or by the allowance he gave.
LEMMA BorrowConsent ==
    ASSUME PoolInv, NEW caller \in Users, NEW a \in Assets, NEW amount \in Amounts,
           NEW mode \in InterestRateMode, NEW onBehalfOf \in Users,
           Borrow(caller, a, amount, mode, onBehalfOf)
    PROVE  KeepsConsent
<1> DEFINE r == Refreshed(a)
           q == mintDebt(r, onBehalfOf, amount, mode)
<1>1. PICK s : /\ Stores(a, s)
               /\ amount \in Nat
               /\ amount # 0
               /\ SameDebts(s, q)
               /\ wallets' = [wallets EXCEPT ![a][caller] = @ + amount]
               /\ caller # onBehalfOf =>
                     allowances' = decreaseBorrowAllowance(a, mode, onBehalfOf, caller, amount)
  BY BorrowEffect
<1>2. ReserveOK(r, now) /\ now \in Nat BY PoolParts, RefreshedOK
<1>3. /\ debtUnits(q, onBehalfOf, mode)
           = debtUnits(r, onBehalfOf, mode) + unitsOf(r, amount, mode)
      /\ \A u \in Users, m \in InterestRateMode : u # onBehalfOf \/ m # mode =>
            debtUnits(q, u, m) = debtUnits(r, u, m)
  BY <1>1, <1>2, MintDebtMoves
<1>4. \A u \in Users, m \in InterestRateMode :
         /\ debtUnits(s, u, m) = debtUnits(q, u, m)
         /\ debtUnits(r, u, m) = debtUnits(reserves[a], u, m)
         /\ debtUnits(reserves[a], u, m) \in Nat
  BY <1>1, RefreshedUnits DEF SameDebts, debtUnits, stableDebtOf
<1>5. reserves'[a] = s /\ now' = now BY <1>1 DEF Stores, PoolInv, PoolTypeOK
<1>6. unitsOf(s, amount, mode) = unitsOf(r, amount, mode)
  BY <1>1, RefreshedOK DEF Stores, Settled, unitsOf
<1>7. unitsOf(r, amount, mode) \in Nat
  <2>1. r.variableBorrowIndex \in Nat \ {0} BY <1>2, ReserveParts, RayPositive
  <2> QED BY <1>1, <2>1, RayDivNat DEF unitsOf
<1>. HIDE DEF r, q
<1>8. Consented(a, onBehalfOf, mode)
  <2> DEFINE more == debtUnits(reserves[a], onBehalfOf, mode)'
                       - debtUnits(reserves[a], onBehalfOf, mode)
  <2>1. more = unitsOf(reserves'[a], amount, mode)
    BY <1>3, <1>4, <1>5, <1>6, <1>7, UnitsPrimed
  <2>2. wallets'[a][caller] = wallets[a][caller] + amount
    BY <1>1 DEF PoolInv, PoolTypeOK
  <2>3. caller # onBehalfOf =>
           allowances[a][mode][onBehalfOf][caller]
             - allowances'[a][mode][onBehalfOf][caller] = amount
    <3>1. allowances \in [Assets -> [InterestRateMode -> [Users -> [Users -> Nat]]]]
      BY DEF PoolInv, PoolTypeOK
    <3>2. allowances[a][mode][onBehalfOf][caller] \in Nat BY <3>1
    <3>3. caller # onBehalfOf =>
             allowances'[a][mode][onBehalfOf][caller]
               = allowances[a][mode][onBehalfOf][caller] - amount
      BY <1>1, <3>1 DEF decreaseBorrowAllowance
    <3> QED BY <1>1, <3>2, <3>3
  <2>. HIDE DEF more
  <2>4. \E x \in Amounts :
           /\ more = unitsOf(reserves'[a], x, mode)
           /\ \/ wallets'[a][onBehalfOf] = wallets[a][onBehalfOf] + x
              \/ \E v \in Users \ {onBehalfOf} :
                    /\ allowances[a][mode][onBehalfOf][v]
                         - allowances'[a][mode][onBehalfOf][v] = x
                    /\ wallets'[a][v] = wallets[a][v] + x
    <3>1. CASE caller = onBehalfOf BY <2>1, <2>2, <3>1
    <3>2. CASE caller # onBehalfOf BY <2>1, <2>2, <2>3, <3>2
    <3> QED BY <3>1, <3>2
  <2> QED BY <2>4, Zenon DEF Consented, more
<1>9. ASSUME NEW u \in Users, NEW m \in InterestRateMode, u # onBehalfOf \/ m # mode
      PROVE  Consented(a, u, m)
  <2>1. debtUnits(reserves'[a], u, m) = debtUnits(reserves[a], u, m) - 0 /\ 0 \in Nat
    BY <1>3, <1>4, <1>5, <1>9
  <2> QED BY <1>5, <2>1, NotMore
<1> QED BY <1>1, <1>8, <1>9, StoreConsent

\* A repayment lowers one debt.
LEMMA RepayConsent ==
    ASSUME PoolInv, NEW caller \in Users, NEW a \in Assets, NEW request \in Requests,
           NEW mode \in InterestRateMode, NEW onBehalfOf \in Users,
           Repay(caller, a, request, mode, onBehalfOf)
    PROVE  KeepsConsent
<1> DEFINE r == Refreshed(a)
<1>1. PICK s : \E payback \in Nat :
               /\ Stores(a, s)
               /\ repayDebtAllowed(r, onBehalfOf, payback, mode)
               /\ SameDebts(s, repayDebt(r, onBehalfOf, payback, mode))
  BY RepayEffect
<1>2. PICK payback \in Nat :
               /\ Stores(a, s)
               /\ repayDebtAllowed(r, onBehalfOf, payback, mode)
               /\ SameDebts(s, repayDebt(r, onBehalfOf, payback, mode))
  BY <1>1
<1> DEFINE q == repayDebt(r, onBehalfOf, payback, mode)
<1>3. ReserveOK(r, now) /\ now \in Nat BY PoolParts, RefreshedOK
<1>4. /\ unitsOf(r, payback, mode) \in Nat
      /\ debtUnits(q, onBehalfOf, mode)
           = debtUnits(r, onBehalfOf, mode) - unitsOf(r, payback, mode)
      /\ \A u \in Users, m \in InterestRateMode : u # onBehalfOf \/ m # mode =>
            debtUnits(q, u, m) = debtUnits(r, u, m)
  BY <1>2, <1>3, RepayDebtMoves
<1>5. \A u \in Users, m \in InterestRateMode :
         /\ debtUnits(s, u, m) = debtUnits(q, u, m)
         /\ debtUnits(r, u, m) = debtUnits(reserves[a], u, m)
         /\ debtUnits(reserves[a], u, m) \in Nat
  BY <1>2, RefreshedUnits DEF SameDebts, debtUnits, stableDebtOf
<1>6. reserves'[a] = s /\ now' = now BY <1>2 DEF Stores, PoolInv, PoolTypeOK
<1>. HIDE DEF r, q
<1>7. ASSUME NEW u \in Users, NEW m \in InterestRateMode PROVE Consented(a, u, m)
  <2>1. CASE u = onBehalfOf /\ m = mode BY <1>4, <1>5, <1>6, <2>1, NotMore
  <2>2. CASE u # onBehalfOf \/ m # mode
    <3>1. debtUnits(reserves'[a], u, m) = debtUnits(reserves[a], u, m) - 0 /\ 0 \in Nat
      BY <1>4, <1>5, <1>6, <2>2
    <3> QED BY <1>6, <3>1, NotMore
  <2> QED BY <2>1, <2>2
<1> QED BY <1>2, <1>7, StoreConsent

\* Who swaps owes in one kind what he owed in the other.
LEMMA SwapConsent ==
    ASSUME PoolInv, NEW caller \in Users, NEW a \in Assets, NEW mode \in InterestRateMode,
           SwapBorrowRateMode(caller, a, mode)
    PROVE  KeepsConsent
<1> DEFINE debt  == reportedDebt(reserves[a], caller, mode)
           other == otherMode(mode)
<1>1. PICK s : /\ Stores(a, s)
               /\ other \in InterestRateMode \ {mode}
               /\ debtUnits(s, caller, mode) = 0
               /\ debtUnits(s, caller, other)
                    = debtUnits(reserves[a], caller, other) + unitsOf(s, debt, other)
               /\ \A u \in Users \ {caller}, m \in InterestRateMode :
                     debtUnits(s, u, m) = debtUnits(reserves[a], u, m)
  BY SwapEffect
<1>2. \A u \in Users, m \in InterestRateMode : debtUnits(reserves[a], u, m) \in Nat
  BY RefreshedUnits
<1>3. reserves'[a] = s /\ now' = now BY <1>1 DEF Stores, PoolInv, PoolTypeOK
<1>4. otherMode(other) = mode BY DEF otherMode, InterestRateMode, STABLE, VARIABLE_MODE
<1>5. unitsOf(s, debt, other) \in Nat
  <2>1. debt \in Nat BY PoolParts, ReportedBalances DEF reportedDebt
  <2>2. s.variableBorrowIndex \in Nat \ {0}
    BY <1>1, PoolParts, ReserveParts, RayPositive DEF Stores, Settled
  <2> QED BY <2>1, <2>2, RayDivNat DEF unitsOf
<1>6. Consented(a, caller, other)
  <2> DEFINE more == debtUnits(reserves[a], caller, other)'
                       - debtUnits(reserves[a], caller, other)
  <2>. HIDE DEF debt, other
  <2>1. more = unitsOf(reserves'[a], debt, other) BY <1>1, <1>2, <1>3, <1>5, UnitsPrimed
  <2>2. debtUnits(reserves[a], caller, otherMode(other))' = 0
    <3>1. debtUnits(reserves[a], caller, mode)' = 0 BY <1>1, <1>3, UnitsPrimed
    <3>2. (otherMode(other))' = mode BY <1>4 DEF other, otherMode
    <3> QED BY <3>1, <3>2, <1>4
  <2>3. more = unitsOf(reserves'[a],
                       reportedDebt(reserves[a], caller, otherMode(other)), other)
    BY <1>4, <2>1 DEF debt
  <2>. HIDE DEF more
  <2> QED BY <2>2, <2>3, Zenon DEF Consented, more
<1>7. Consented(a, caller, mode)
  <2>1. debtUnits(reserves'[a], caller, mode)
          = debtUnits(reserves[a], caller, mode) - debtUnits(reserves[a], caller, mode)
    BY <1>1, <1>2, <1>3
  <2> QED BY <1>2, <1>3, <2>1, NotMore
<1>8. ASSUME NEW u \in Users \ {caller}, NEW m \in InterestRateMode PROVE Consented(a, u, m)
  <2>1. debtUnits(reserves'[a], u, m) = debtUnits(reserves[a], u, m) - 0 /\ 0 \in Nat
    BY <1>1, <1>2, <1>3
  <2> QED BY <1>3, <2>1, NotMore
<1>9. \A m \in InterestRateMode : m = mode \/ m = other
  BY DEF otherMode, InterestRateMode
<1>. HIDE DEF debt, other
<1> QED BY <1>1, <1>6, <1>7, <1>8, <1>9, StoreConsent

\* A rebalancing changes the rate of a debt and not the debt.
LEMMA RebalanceConsent ==
    ASSUME PoolInv, NEW a \in Assets, NEW user \in Users, RebalanceStableBorrowRate(a, user)
    PROVE  KeepsConsent
<1>1. PICK s : /\ Stores(a, s)
               /\ \A u \in Users, m \in InterestRateMode :
                     debtUnits(s, u, m) = debtUnits(reserves[a], u, m)
  BY RebalanceEffect
<1>2. reserves'[a] = s /\ now' = now BY <1>1 DEF Stores, PoolInv, PoolTypeOK
<1>3. ASSUME NEW u \in Users, NEW m \in InterestRateMode PROVE Consented(a, u, m)
  <2>1. debtUnits(reserves[a], u, m) \in Nat BY RefreshedUnits
  <2>2. debtUnits(reserves'[a], u, m) = debtUnits(reserves[a], u, m) - 0 /\ 0 \in Nat
    BY <1>1, <1>2, <2>1
  <2> QED BY <1>2, <2>2, NotMore
<1> QED BY <1>1, <1>3, StoreConsent

\* A liquidation burns debt of one borrower.
LEMMA LiquidationConsent ==
    ASSUME PoolInv, NEW liquidator \in Users, NEW c \in Assets, NEW d \in Assets,
           NEW user \in Users, NEW debtToCover \in Requests, NEW receiveAToken \in BOOLEAN,
           LiquidationCall(liquidator, c, d, user, debtToCover, receiveAToken)
    PROVE  KeepsConsent
<1>1. PICK D \in Nat, T \in Nat, K \in Nat, variable \in Nat :
              \E debt2, debt3, coll1, coll2, coll3 :
                 LiquidationStages(liquidator, c, d, user, receiveAToken,
                                   D, T, K, variable, debt2, debt3, coll1, coll2, coll3)
  BY LiquidationEffect
<1>2. PICK debt2, debt3, coll1, coll2, coll3 :
                 LiquidationStages(liquidator, c, d, user, receiveAToken,
                                   D, T, K, variable, debt2, debt3, coll1, coll2, coll3)
  BY <1>1
<1> DEFINE r == Refreshed(d)
<1>3. /\ variable <= D /\ burnDebtAllowed(r, user, D, variable)
      /\ debt2 = burnDebt(r, user, D, variable) /\ now' = now
  BY <1>2 DEF LiquidationStages
<1>4. /\ \A b \in Assets \ {d} : SameDebts(reserves'[b], reserves[b])
      /\ SameDebts(reserves'[d], debt2)
  BY <1>2, LiquidationMoves
<1>5. ReserveOK(r, now) /\ now \in Nat BY PoolParts, RefreshedOK
<1>6. /\ unitsOf(r, variable, VARIABLE_MODE) \in Nat
      /\ debtUnits(debt2, user, VARIABLE_MODE)
           = debtUnits(r, user, VARIABLE_MODE) - unitsOf(r, variable, VARIABLE_MODE)
      /\ debtUnits(debt2, user, STABLE) = debtUnits(r, user, STABLE) - (D - variable)
      /\ \A u \in Users \ {user}, m \in InterestRateMode :
            debtUnits(debt2, u, m) = debtUnits(r, u, m)
  BY <1>3, <1>5, BurnDebtMoves
<1>7. \A u \in Users, m \in InterestRateMode :
         /\ debtUnits(reserves'[d], u, m) = debtUnits(debt2, u, m)
         /\ debtUnits(r, u, m) = debtUnits(reserves[d], u, m)
         /\ debtUnits(reserves[d], u, m) \in Nat
  BY <1>4, RefreshedUnits DEF SameDebts, debtUnits, stableDebtOf
<1>. HIDE DEF r
<1>8. ASSUME NEW u \in Users, NEW m \in InterestRateMode PROVE Consented(d, u, m)
  <2>1. CASE u = user /\ m = VARIABLE_MODE BY <1>3, <1>6, <1>7, <2>1, NotMore
  <2>2. CASE u = user /\ m = STABLE
    <3>1. D - variable \in Nat BY <1>3
    <3> QED BY <1>3, <1>6, <1>7, <2>2, <3>1, NotMore
  <2>3. CASE u # user
    <3>1. debtUnits(reserves'[d], u, m) = debtUnits(reserves[d], u, m) - 0 /\ 0 \in Nat
      BY <1>6, <1>7, <2>3
    <3> QED BY <1>3, <3>1, NotMore
  <2> QED BY <2>1, <2>2, <2>3 DEF InterestRateMode
<1> QED BY <1>3, <1>4, <1>8, SameDebtsConsent DEF KeepsConsent

\* No step within a block lets a debt grow against its owner's will.
LEMMA StepKeepsConsent ==
    ASSUME PoolInv, [PoolNext]_poolVars, now' = now PROVE KeepsConsent
<1>1. ASSUME UNCHANGED reserves PROVE KeepsConsent
  BY <1>1, SameDebtsConsent DEF KeepsConsent, SameDebts
<1>2. ASSUME NEW caller \in Users, NEW a \in Assets,
        \/ \E amount \in Amounts, to \in Users :
              Deposit(caller, a, amount, to) \/ TransferAToken(caller, a, amount, to)
        \/ \E request \in Requests, to \in Users : Withdraw(caller, a, request, to)
        \/ \E amount \in Amounts, mode \in InterestRateMode, onBehalfOf \in Users :
              Borrow(caller, a, amount, mode, onBehalfOf)
        \/ \E request \in Requests, mode \in InterestRateMode, onBehalfOf \in Users :
              Repay(caller, a, request, mode, onBehalfOf)
        \/ \E mode \in InterestRateMode : SwapBorrowRateMode(caller, a, mode)
        \/ RebalanceStableBorrowRate(a, caller)
        \/ \E use \in BOOLEAN : SetUserUseReserveAsCollateral(caller, a, use)
        \/ \E mode \in InterestRateMode, to \in Users, amount \in DelegationAmounts :
              ApproveDelegation(caller, a, mode, to, amount)
        \/ \E d \in Assets, user \in Users, amount \in Requests, receiveAToken \in BOOLEAN :
              LiquidationCall(caller, a, d, user, amount, receiveAToken)
      PROVE  KeepsConsent
  <2>1. CASE \E amount \in Amounts, to \in Users :
                Deposit(caller, a, amount, to) \/ TransferAToken(caller, a, amount, to)
    BY <2>1, TokensConsent DEF Requests
  <2>2. CASE \E request \in Requests, to \in Users : Withdraw(caller, a, request, to)
    BY <2>2, TokensConsent
  <2>3. CASE \E amount \in Amounts, mode \in InterestRateMode, onBehalfOf \in Users :
                Borrow(caller, a, amount, mode, onBehalfOf)
    BY <2>3, BorrowConsent
  <2>4. CASE \E request \in Requests, mode \in InterestRateMode, onBehalfOf \in Users :
                Repay(caller, a, request, mode, onBehalfOf)
    BY <2>4, RepayConsent
  <2>5. CASE \E mode \in InterestRateMode : SwapBorrowRateMode(caller, a, mode)
    BY <2>5, SwapConsent
  <2>6. CASE RebalanceStableBorrowRate(a, caller) BY <2>6, RebalanceConsent
  <2>7. CASE \E use \in BOOLEAN : SetUserUseReserveAsCollateral(caller, a, use)
    BY <1>1, <2>7 DEF SetUserUseReserveAsCollateral
  <2>8. CASE \E mode \in InterestRateMode, to \in Users, amount \in DelegationAmounts :
                ApproveDelegation(caller, a, mode, to, amount)
    BY <1>1, <2>8 DEF ApproveDelegation
  <2>9. CASE \E d \in Assets, user \in Users, amount \in Requests, receiveAToken \in BOOLEAN :
                LiquidationCall(caller, a, d, user, amount, receiveAToken)
    BY <2>9, LiquidationConsent
  <2> QED BY <1>2, <2>1, <2>2, <2>3, <2>4, <2>5, <2>6, <2>7, <2>8, <2>9, Zenon
<1>3. CASE UserOperation BY <1>2, <1>3, Zenon DEF UserOperation
<1>4. CASE Environment
  BY <1>1, <1>4 DEF Environment, SetPause, SetAssetPrice, AdvanceTime
<1>5. CASE UNCHANGED poolVars BY <1>1, <1>5 DEF poolVars
<1> QED BY <1>3, <1>4, <1>5 DEF PoolNext

\* No caller can make somebody else owe more: a debt grows with what its owner
\* received, with the allowance he granted for that kind of debt, or by the swap
\* of his own debt of the other kind.
THEOREM NoDebtWithoutConsent == PoolSpec => DebtNeedsConsent
<1>1. PoolInv /\ [PoolNext]_poolVars => [now' = now => KeepsConsent]_poolVars
  BY StepKeepsConsent
<1>2. DebtNeedsConsent <=> [][now' = now => KeepsConsent]_poolVars
  BY DEF DebtNeedsConsent, KeepsConsent
<1> QED BY <1>1, <1>2, PoolInvariant, PTL DEF PoolSpec

-----------------------------------------------------------------------------
(* Repaying a whole debt.                                                    *)

\* The stored variable index of a catches up with the one the token reports: the
\* reserve pays its depositors, or was refreshed in this block.
CatchesUp(a) ==
    reserves[a].currentLiquidityRate > 0 \/ reserves[a].lastUpdateTimestamp = now

\* Then the index a repayment burns at is the index the balance is reported at.
LEMMA IndexesAgree ==
    ASSUME PoolInv, NEW a \in Assets, CatchesUp(a), reserves[a].variableDebt.totalSupply # 0
    PROVE  nextVariableBorrowIndex(reserves[a], now) = getNormalizedDebt(reserves[a], now)
<1> DEFINE r == reserves[a]
           factor == calculateCompoundedInterest(r.currentVariableBorrowRate,
                                                 r.lastUpdateTimestamp, now)
<1>1. /\ now \in Nat /\ ReserveOK(r, now) /\ r.variableBorrowIndex \in Nat
      /\ r.lastUpdateTimestamp \in Nat
  BY PoolParts, ReserveParts
<1>2. r.lastUpdateTimestamp = now => factor = RAY
  BY <1>1 DEF calculateCompoundedInterest
<1>3. /\ nextVariableBorrowIndex(r, now)
           = IF r.currentLiquidityRate > 0 THEN rayMul(factor, r.variableBorrowIndex)
             ELSE r.variableBorrowIndex
      /\ getNormalizedDebt(r, now)
           = IF r.lastUpdateTimestamp = now THEN r.variableBorrowIndex
             ELSE rayMul(factor, r.variableBorrowIndex)
  BY DEF nextVariableBorrowIndex, getNormalizedDebt
<1>4. rayMul(RAY, r.variableBorrowIndex) = r.variableBorrowIndex BY <1>1, RayMulRay
<1>5. r.currentLiquidityRate > 0 \/ r.lastUpdateTimestamp = now BY DEF CatchesUp
<1>. HIDE DEF factor
<1> QED BY <1>2, <1>3, <1>4, <1>5

\* What a variable debt token reports can be burned in one call: neither the
\* borrower's scaled balance nor the supply is exceeded by rounding.
LEMMA WholeDebtBurns ==
    ASSUME PoolInv, SuppliesAddUp, NEW a \in Assets, CatchesUp(a), NEW u \in Users,
           variableDebtOf(reserves[a], u) > 0
    PROVE  repayDebtAllowed(Refreshed(a), u, variableDebtOf(reserves[a], u), VARIABLE_MODE)
<1> DEFINE l == reserves[a].variableDebt
           index == nextVariableBorrowIndex(reserves[a], now)
           debt == variableDebtOf(reserves[a], u)
<1>1. now \in Nat /\ ReserveOK(reserves[a], now) BY PoolParts
<1>2. l \in ScaledLedger /\ l.balances \in [Users -> Nat] /\ l.balances[u] \in Nat
  BY <1>1, ReserveParts DEF ScaledLedger
<1>3. l.balances[u] # 0 BY <1>1, ReportedBalances
<1>4. l.totalSupply \in Nat /\ l.balances[u] <= l.totalSupply
  BY <1>2, UsersFinite, SumNat DEF SuppliesAddUp
<1>5. index = getNormalizedDebt(reserves[a], now) BY <1>2, <1>3, <1>4, IndexesAgree
<1>6. index \in Nat /\ RAY <= index BY <1>1, NextVariableBorrowIndex
<1>7. debt = rayMul(l.balances[u], index) BY <1>5 DEF variableDebtOf, scaledBalanceOf
<1>8. /\ Refreshed(a).variableDebt = l
      /\ Refreshed(a).variableBorrowIndex = index
  BY RefreshedOK
<1>. HIDE DEF l, index, debt
<1>9. rayDiv(debt, index) = l.balances[u] BY <1>2, <1>6, <1>7, RoundTrip
<1>10. scaledBurnAllowed(l, u, debt, index) BY <1>3, <1>4, <1>9, <1>2 DEF scaledBurnAllowed
<1>11. VARIABLE_MODE # STABLE BY DEF VARIABLE_MODE, STABLE
<1> QED BY <1>8, <1>10, <1>11 DEF repayDebtAllowed, debt

\* "Send the value type(uint256).max in order to repay the whole debt" holds as
\* long as every reserve catches up.  A reserve that takes all interest for the
\* treasury (or none at all) does not, and there it fails: the token reports an
\* index the pool never stores.
THEOREM WholeDebtsRepayable ==
    PoolSpec => []((\A a \in Assets : CatchesUp(a)) => WholeDebtRepayable)
<1>1. ASSUME PoolInv, SuppliesAddUp, \A a \in Assets : CatchesUp(a)
      PROVE  WholeDebtRepayable
  BY <1>1, WholeDebtBurns DEF WholeDebtRepayable
<1> QED BY <1>1, PoolInvariant, SuppliesAlwaysAddUp, PTL

-----------------------------------------------------------------------------
(* The books without interest.                                               *)

\* The strategy of a pool that charges no interest.
InterestFree ==
    /\ baseVariableBorrowRate = 0
    /\ variableRateSlope1 = 0
    /\ variableRateSlope2 = 0
    /\ stableRateSlope1 = 0
    /\ stableRateSlope2 = 0
    /\ marketBorrowRate = 0

\* Nothing times or divided by anything is nothing.
LEMMA NothingEarned ==
    ASSUME NEW x \in Int
    PROVE  rayMul(0, x) = 0 /\ rayMul(x, 0) = 0 /\ percentMul(0, x) = 0
<1>1. HalfUp(RAY * 0, RAY) = 0 /\ HalfUp(PERCENTAGE_FACTOR * 0, PERCENTAGE_FACTOR) = 0
  BY RayPositive, MathConstants, HalfUpExact
<1>2. RAY * 0 = 0 /\ PERCENTAGE_FACTOR * 0 = 0 BY RayPositive, MathConstants
<1>3. 0 * x = 0 /\ x * 0 = 0 OBVIOUS
<1> QED BY <1>1, <1>2, <1>3 DEF rayMul, percentMul

\* At a rate of zero a debt stays what it is.
LEMMA NoGrowth ==
    ASSUME NEW since \in Nat, NEW t \in Nat, since <= t
    PROVE  calculateCompoundedInterest(0, since, t) = RAY
<1> DEFINE e == t - since
           m == IF e > 2 THEN e - 2 ELSE 0
           perSecond == 0 \div SECONDS_PER_YEAR
           two == rayMul(perSecond, perSecond)
           three == rayMul(two, perSecond)
<1>1. calculateCompoundedInterest(0, since, t)
        = IF e = 0 THEN RAY
          ELSE RAY + perSecond * e + (e * (e - 1) * two) \div 2
                   + (e * (e - 1) * m * three) \div 6
  BY DEF calculateCompoundedInterest
<1>2. e \in Nat /\ m \in Nat OBVIOUS
<1>3. perSecond = 0
  <2>1. SECONDS_PER_YEAR \in Nat \ {0} BY MathConstants
  <2>. HIDE DEF perSecond
  <2>2. 0 \div SECONDS_PER_YEAR = 0
    <3>1. SECONDS_PER_YEAR * 0 <= 0 /\ 0 < SECONDS_PER_YEAR * 0 + SECONDS_PER_YEAR BY <2>1
    <3> QED BY <2>1, <3>1, DivUnique
  <2> QED BY <2>2 DEF perSecond
<1>4. two = 0 /\ three = 0 BY <1>3, NothingEarned
<1>5. RAY \in Nat BY RayPositive
<1>. HIDE DEF e, m, perSecond, two, three
<1>6. /\ perSecond * e = 0
      /\ e * (e - 1) * two = 0
      /\ e * (e - 1) * m * three = 0
  <2>1. e * (e - 1) \in Int /\ e * (e - 1) * m \in Int BY <1>2
  <2>2. \A x \in Int : x * 0 = 0 /\ 0 * x = 0 OBVIOUS
  <2> QED BY <1>2, <1>3, <1>4, <2>1, <2>2
<1>7. 0 \div 2 = 0 /\ 0 \div 6 = 0 OBVIOUS
<1> QED BY <1>1, <1>5, <1>6, <1>7

\* No borrower of a stable ledger, nor their average, pays a rate.
StillRates(l) == l.avgStableRate = 0 /\ \A u \in Users : l.usersStableRate[u] = 0

\* A reserve on which nothing ever accrued.
Flat(r) ==
    /\ r.liquidityIndex = RAY
    /\ r.variableBorrowIndex = RAY
    /\ r.currentLiquidityRate = 0
    /\ r.currentStableBorrowRate = 0
    /\ r.currentVariableBorrowRate = 0
    /\ StillRates(r.stableDebt)

\* Its indexes and balances are reported as they are stored, at any time.
LEMMA FlatViews ==
    ASSUME NEW r, now \in Nat, ReserveOK(r, now), Flat(r)
    PROVE  /\ nextLiquidityIndex(r, now) = RAY
           /\ getNormalizedIncome(r, now) = RAY
           /\ nextVariableBorrowIndex(r, now) = RAY
           /\ getNormalizedDebt(r, now) = RAY
           /\ \A u \in Users :
                 /\ aTokenBalance(r, u) = r.aToken.balances[u]
                 /\ variableDebtOf(r, u) = r.variableDebt.balances[u]
                 /\ stableDebtOf(r, u) = r.stableDebt.balances[u]
<1>1. /\ r.lastUpdateTimestamp \in Nat /\ r.lastUpdateTimestamp <= now
      /\ r.aToken \in ScaledLedger /\ r.variableDebt \in ScaledLedger
      /\ r.stableDebt \in StableLedger /\ StableClocks(r.stableDebt, now)
  BY ReserveParts
<1>2. rayMul(RAY, RAY) = RAY BY RayPositive, RayMulRay
<1>3. calculateCompoundedInterest(0, r.lastUpdateTimestamp, now) = RAY BY <1>1, NoGrowth
<1>4. nextLiquidityIndex(r, now) = RAY /\ nextVariableBorrowIndex(r, now) = RAY
  BY DEF Flat, nextLiquidityIndex, nextVariableBorrowIndex
<1>5. getNormalizedIncome(r, now) = RAY BY <1>4, NextLiquidityIndex
<1>6. getNormalizedDebt(r, now) = RAY BY <1>2, <1>3 DEF Flat, getNormalizedDebt
<1>7. ASSUME NEW u \in Users
      PROVE  /\ aTokenBalance(r, u) = r.aToken.balances[u]
             /\ variableDebtOf(r, u) = r.variableDebt.balances[u]
             /\ stableDebtOf(r, u) = r.stableDebt.balances[u]
  <2>1. /\ r.aToken.balances[u] \in Nat /\ r.variableDebt.balances[u] \in Nat
        /\ r.stableDebt.balances[u] \in Nat /\ r.stableDebt.timestamps[u] \in Nat
        /\ r.stableDebt.totalSupplyTimestamp \in Nat
    BY <1>1 DEF ScaledLedger, StableLedger
  <2>2. r.stableDebt.timestamps[u] <= now BY <1>1, <2>1 DEF StableClocks
  <2>3. calculateCompoundedInterest(r.stableDebt.usersStableRate[u],
                                    r.stableDebt.timestamps[u], now) = RAY
    BY <2>1, <2>2, NoGrowth DEF Flat, StillRates
  <2>4. stableDebtOf(r, u) = r.stableDebt.balances[u]
    BY <2>1, <2>3, RayMulRay DEF stableDebtOf, stableBalanceOf
  <2> QED BY <1>5, <1>6, <2>1, <2>4, RayMulRay
          DEF aTokenBalance, variableDebtOf, scaledBalanceOf
<1> QED BY <1>4, <1>5, <1>6, <1>7

\* Refreshing it mints nothing to the treasury.
LEMMA FlatRefresh ==
    ASSUME NEW r, now \in Nat, ReserveOK(r, now), Flat(r), NEW rf \in Nat
    PROVE  Flat(updateState(r, rf, now)) /\ updateState(r, rf, now).aToken = r.aToken
<1> DEFINE s == updateState(r, rf, now)
           l == r.stableDebt
<1>1. /\ r \in ReserveData /\ l \in StableLedger /\ StableClocks(l, now)
      /\ r.variableDebt \in ScaledLedger
      /\ l.totalSupplyTimestamp \in Nat /\ r.lastUpdateTimestamp \in Nat
      /\ l.totalSupplyTimestamp <= r.lastUpdateTimestamp
      /\ r.lastUpdateTimestamp <= now
  BY ReserveParts DEF ReserveOK, StableClocks
<1>2. l.totalSupply \in Nat /\ r.variableDebt.totalSupply \in Nat
  BY <1>1 DEF StableLedger, ScaledLedger
<1>3. l.avgStableRate = 0 /\ nextVariableBorrowIndex(r, now) = RAY
      /\ r.variableBorrowIndex = RAY /\ nextLiquidityIndex(r, now) = RAY
  BY FlatViews DEF Flat, StillRates
<1>4. /\ calculateCompoundedInterest(0, l.totalSupplyTimestamp, now) = RAY
      /\ calculateCompoundedInterest(0, l.totalSupplyTimestamp, r.lastUpdateTimestamp) = RAY
  BY <1>1, NoGrowth
<1>5. stableTotalSupply(l, now) = l.totalSupply
  BY <1>2, <1>3, <1>4, RayMulRay DEF stableTotalSupply
<1>6. rayMul(l.totalSupply, RAY) = l.totalSupply BY <1>2, RayMulRay
<1>7. currentDebt(r, now) = previousDebt(r)
  BY <1>3, <1>4, <1>5, <1>6 DEF currentDebt, previousDebt
<1>8. previousDebt(r) \in Nat BY AccrualDefined
<1>9. treasuryShare(r, rf, now) = 0
  <2>1. currentDebt(r, now) - previousDebt(r) = 0 BY <1>7, <1>8
  <2> QED BY <2>1, NothingEarned DEF treasuryShare
<1>10. s = [r EXCEPT !.liquidityIndex = RAY, !.variableBorrowIndex = RAY,
                     !.lastUpdateTimestamp = now]
  <2>1. s = [r EXCEPT !.liquidityIndex = RAY, !.variableBorrowIndex = RAY,
                      !.lastUpdateTimestamp = now, !.aToken = @]
    BY <1>3, <1>9 DEF updateState
  <2> QED BY <1>1, <2>1 DEF ReserveData
<1>11. s = updateState(r, rf, now) OBVIOUS
<1>. HIDE DEF s
<1>12. Flat(s) /\ s.aToken = r.aToken BY <1>1, <1>10 DEF Flat, ReserveData
<1> QED BY <1>11, <1>12

\* Its next rates are nothing, whatever its liquidity.
LEMMA FlatRates ==
    ASSUME InterestFree, NEW r, now \in Nat, ReserveOK(r, now), Flat(r),
           NEW liquidity \in Nat, NEW rf \in Nat
    PROVE  LET rates == ratesFor(r, liquidity, rf, now)
           IN  rates.liquidity = 0 /\ rates.stable = 0 /\ rates.variable = 0
<1> DEFINE stable == stableTotalSupply(r.stableDebt, now)
           variable == scaledTotalSupplyOf(r.variableDebt, r.variableBorrowIndex)
           used == utilizationRate(liquidity, stable + variable)
           rest == PERCENTAGE_FACTOR - rf
           overall == overallBorrowRate(stable, variable, 0, 0)
<1>1. /\ r.variableDebt \in ScaledLedger /\ r.stableDebt \in StableLedger
      /\ StableClocks(r.stableDebt, now) /\ r.variableBorrowIndex \in Nat
  BY ReserveParts
<1>2. stable \in Nat BY <1>1, StableSupplyNat
<1>3. variable \in Nat BY <1>1, RayMulNat DEF ScaledLedger, scaledTotalSupplyOf
<1>4. used \in Nat
  <2>1. stable + variable \in Nat BY <1>2, <1>3
  <2>. HIDE DEF stable, variable
  <2> QED BY <2>1, UtilizationNat
<1>5. r.stableDebt.avgStableRate = 0 BY DEF Flat, StillRates
<1>6. rest \in Int BY MathConstants
<1>7. ratesFor(r, liquidity, rf, now)
        = [liquidity |-> percentMul(rayMul(overallBorrowRate(stable, variable,
                                                 variableBorrowRate(used), 0), used), rest),
           stable    |-> stableBorrowRate(used),
           variable  |-> variableBorrowRate(used)]
  BY <1>5 DEF ratesFor, calculateInterestRates
<1>. HIDE DEF used, rest, stable, variable
<1>8. stableBorrowRate(used) = 0 /\ variableBorrowRate(used) = 0
  <2> DEFINE over == rayDiv(used - OPTIMAL_UTILIZATION_RATE, EXCESS_UTILIZATION_RATE)
             share == rayDiv(used, OPTIMAL_UTILIZATION_RATE)
  <2>1. OPTIMAL_UTILIZATION_RATE \in Nat \ {0} BY StrategyConstants
  <2>2. EXCESS_UTILIZATION_RATE \in Nat \ {0}
    BY RayPositive, StrategyConstants DEF EXCESS_UTILIZATION_RATE
  <2>3. share \in Int BY <1>4, <2>1, RayDivNat
  <2>4. used > OPTIMAL_UTILIZATION_RATE => over \in Int
    <3>1. used > OPTIMAL_UTILIZATION_RATE => used - OPTIMAL_UTILIZATION_RATE \in Nat
      BY <1>4, <2>1
    <3> QED BY <2>2, <3>1, RayDivNat
  <2>5. rayMul(0, share) = 0 /\ rayMul(used, 0) = 0 BY <1>4, <2>3, NothingEarned
  <2>6. used > OPTIMAL_UTILIZATION_RATE => rayMul(0, over) = 0 BY <2>4, NothingEarned
  <2>7. rayDiv(0, OPTIMAL_UTILIZATION_RATE) = 0 BY <2>1, NoUnits
  <2>. HIDE DEF over, share
  <2>8. stableBorrowRate(used) = IF used > OPTIMAL_UTILIZATION_RATE
                                 THEN 0 + 0 + rayMul(0, over) ELSE 0 + rayMul(0, share)
    BY DEF stableBorrowRate, InterestFree, over, share
  <2>9. variableBorrowRate(used)
          = IF used > OPTIMAL_UTILIZATION_RATE THEN 0 + 0 + rayMul(0, over)
            ELSE 0 + rayDiv(rayMul(used, 0), OPTIMAL_UTILIZATION_RATE)
    BY DEF variableBorrowRate, InterestFree, over
  <2> QED BY <2>5, <2>6, <2>7, <2>8, <2>9
<1>9. overall = 0
  <2>1. CASE stable + variable = 0 BY <2>1 DEF overallBorrowRate
  <2>2. CASE stable + variable # 0
    <3>1. wadToRay(stable + variable) \in Nat \ {0} BY <1>2, <1>3, <2>2, WadToRayPositive
    <3>2. wadToRay(variable) \in Int /\ wadToRay(stable) \in Int
      BY <1>2, <1>3, WadToRayNat
    <3>3. rayMul(wadToRay(variable), 0) = 0 /\ rayMul(wadToRay(stable), 0) = 0
      BY <3>2, NothingEarned
    <3>4. rayDiv(0 + 0, wadToRay(stable + variable)) = 0 BY <3>1, NoUnits
    <3> QED BY <2>2, <3>3, <3>4 DEF overallBorrowRate
  <2> QED BY <2>1, <2>2
<1>10. percentMul(rayMul(0, used), rest) = 0 BY <1>4, <1>6, NothingEarned
<1> QED BY <1>7, <1>8, <1>9, <1>10

\* So a refresh of the rates leaves it flat,
LEMMA FlatUpdate ==
    ASSUME InterestFree, NEW r, now \in Nat, ReserveOK(r, now), Flat(r),
           NEW added \in Nat, NEW taken \in Nat, NEW rf \in Nat,
           updateInterestRatesAllowed(r, added, taken, rf),
           NEW q, q = updateInterestRates(r, added, taken, rf, now)
    PROVE  Flat(q)
<1> DEFINE liquidity == r.cash + added - taken
           rates == ratesFor(r, liquidity, rf, now)
<1>1. r \in ReserveData /\ r.cash \in Nat BY ReserveParts DEF ReserveOK
<1>2. liquidity \in Nat BY <1>1 DEF updateInterestRatesAllowed
<1>3. q = [r EXCEPT !.currentLiquidityRate = rates.liquidity,
                    !.currentStableBorrowRate = rates.stable,
                    !.currentVariableBorrowRate = rates.variable]
  BY DEF updateInterestRates
<1>. HIDE DEF liquidity
<1>4. rates.liquidity = 0 /\ rates.stable = 0 /\ rates.variable = 0 BY <1>2, FlatRates
<1>. HIDE DEF rates
<1> QED BY <1>1, <1>3, <1>4 DEF Flat, ReserveData

\* and so is a reserve at the rates of what it holds, when its debts pay none.
LEMMA FlatMatched ==
    ASSUME InterestFree, NEW s, now \in Nat, ReserveOK(s, now), NEW rf \in Nat,
           RatesMatch(s, rf, now), StillRates(s.stableDebt),
           s.liquidityIndex = RAY, s.variableBorrowIndex = RAY
    PROVE  Flat(s)
<1> DEFINE q == [s EXCEPT !.currentLiquidityRate = 0,
                          !.currentStableBorrowRate = 0,
                          !.currentVariableBorrowRate = 0]
           rates == ratesFor(s, s.cash, rf, now)
<1>1. s \in ReserveData /\ s.cash \in Nat BY ReserveParts DEF ReserveOK
<1>2. /\ Flat(q) /\ q \in ReserveData /\ ReserveInOrder(q, now)
      /\ q.stableDebt = s.stableDebt /\ q.variableDebt = s.variableDebt
      /\ q.variableBorrowIndex = s.variableBorrowIndex
  BY <1>1 DEF Flat, ReserveData, ReserveOK, ReserveInOrder
<1>. HIDE DEF q
<1>3. ratesFor(q, s.cash, rf, now) = rates BY <1>2 DEF ratesFor
<1>4. rates.liquidity = 0 /\ rates.stable = 0 /\ rates.variable = 0
  BY <1>1, <1>2, <1>3, FlatRates DEF ReserveOK
<1> QED BY <1>4 DEF RatesMatch, Flat

\* In particular what an operation stores.
LEMMA FlatStored ==
    ASSUME InterestFree, PoolInv, NEW a \in Assets, Flat(reserves[a]),
           NEW s, Settled(a, s), StillRates(s.stableDebt)
    PROVE  Flat(s)
BY PoolParts, FlatViews, FlatMatched DEF Settled

-----------------------------------------------------------------------------
(* Debts without rates.                                                      *)

\* A stable debt opened or repaid at no rate leaves no rate.
LEMMA StillMint ==
    ASSUME NEW l \in StableLedger, StillRates(l), NEW t \in Nat, StableClocks(l, t),
           NEW user \in Users, NEW amount \in Nat \ {0}
    PROVE  StillRates(stableMint(l, user, amount, 0, t))
<1> DEFINE balance  == stableBalanceOf(l, user, t)
           previous == stableTotalSupply(l, t)
           mine == rayDiv(rayMul(0, wadToRay(balance)) + rayMul(wadToRay(amount), 0),
                          wadToRay(balance + amount))
           ours == rayDiv(rayMul(0, wadToRay(previous)) + rayMul(0, wadToRay(amount)),
                          wadToRay(previous + amount))
           m == stableMint(l, user, amount, 0, t)
<1>1. balance \in Nat /\ previous \in Nat BY StableBalance, StableSupplyNat
<1>2. m = [l EXCEPT !.balances[user] = balance + amount,
                    !.usersStableRate[user] = mine,
                    !.timestamps[user] = t,
                    !.totalSupply = previous + amount,
                    !.avgStableRate = ours,
                    !.totalSupplyTimestamp = t]
  BY DEF stableMint, StillRates
<1>. HIDE DEF balance, previous, m
<1>3. /\ wadToRay(balance) \in Int /\ wadToRay(previous) \in Int /\ wadToRay(amount) \in Int
      /\ wadToRay(balance + amount) \in Nat \ {0}
      /\ wadToRay(previous + amount) \in Nat \ {0}
  BY <1>1, WadToRayNat, WadToRayPositive
<1>4. /\ rayMul(0, wadToRay(balance)) = 0 /\ rayMul(0, wadToRay(previous)) = 0
      /\ rayMul(0, wadToRay(amount)) = 0 /\ rayMul(wadToRay(amount), 0) = 0
  BY <1>3, NothingEarned
<1>5. mine = 0 /\ ours = 0 BY <1>3, <1>4, NoUnits
<1>. HIDE DEF mine, ours
<1>6. m.avgStableRate = ours
      /\ \A u \in Users : m.usersStableRate[u] = IF u = user THEN mine ELSE l.usersStableRate[u]
  BY <1>2 DEF StableLedger
<1>7. StillRates(m) BY <1>5, <1>6 DEF StillRates
<1> QED BY <1>7 DEF m

\* A burn resets the average: at no rate what is repaid weighs as much as all.
LEMMA StillBurn ==
    ASSUME NEW l \in StableLedger, StillRates(l), NEW t \in Nat, StableClocks(l, t),
           NEW user \in Users, NEW amount \in Nat
    PROVE  StillRates(stableBurn(l, user, amount, t))
<1> DEFINE balance == stableBalanceOf(l, user, t)
           supply  == supplyAfterBurn(l, user, amount, t)
           whole   == amount = balance
           b == stableBurn(l, user, amount, t)
<1>1. supply.avgStableRate = 0
  <2> DEFINE first  == rayMul(l.avgStableRate, wadToRay(stableTotalSupply(l, t)))
             second == rayMul(l.usersStableRate[user], wadToRay(amount))
  <2>1. wadToRay(amount) \in Int /\ wadToRay(stableTotalSupply(l, t)) \in Int
    BY StableSupplyNat, WadToRayNat
  <2>2. first = 0 /\ second = 0 BY <2>1, NothingEarned DEF StillRates
  <2> QED BY <2>2 DEF supplyAfterBurn
<1>2. b = [l EXCEPT !.balances[user] = balance - amount,
                    !.usersStableRate[user] = IF whole THEN 0 ELSE @,
                    !.timestamps[user] = IF whole THEN 0 ELSE t,
                    !.totalSupply = supply.totalSupply,
                    !.avgStableRate = supply.avgStableRate,
                    !.totalSupplyTimestamp = t]
  BY DEF stableBurn
<1>. HIDE DEF balance, supply, whole, b
<1>3. b.avgStableRate = supply.avgStableRate
      /\ \A u \in Users : b.usersStableRate[u] \in {0, l.usersStableRate[u]}
  BY <1>2 DEF StableLedger
<1>4. StillRates(b) BY <1>1, <1>3 DEF StillRates
<1> QED BY <1>4 DEF b

\* Minting and burning debt on a flat reserve leaves no rate.
LEMMA StillDebts ==
    ASSUME NEW r, now \in Nat, ReserveOK(r, now), StillRates(r.stableDebt),
           NEW user \in Users, NEW amount \in Nat, NEW mode \in InterestRateMode
    PROVE  /\ amount # 0 /\ r.currentStableBorrowRate = 0
                => StillRates(mintDebt(r, user, amount, mode).stableDebt)
           /\ StillRates(repayDebt(r, user, amount, mode).stableDebt)
           /\ \A variable \in Nat :
                 StillRates(burnDebt(r, user, amount, variable).stableDebt)
<1>1. /\ r \in ReserveData /\ r.stableDebt \in StableLedger
      /\ StableClocks(r.stableDebt, now)
  BY ReserveParts DEF ReserveOK
<1>2. ASSUME amount # 0, r.currentStableBorrowRate = 0
      PROVE  StillRates(mintDebt(r, user, amount, mode).stableDebt)
  <2> DEFINE l == stableMint(r.stableDebt, user, amount, r.currentStableBorrowRate, now)
  <2>1. StillRates(l) BY <1>1, <1>2, StillMint
  <2>. HIDE DEF l
  <2>2. mintDebt(r, user, amount, mode).stableDebt \in {l, r.stableDebt}
    BY <1>1 DEF mintDebt, ReserveData, l
  <2> QED BY <2>1, <2>2
<1>3. StillRates(repayDebt(r, user, amount, mode).stableDebt)
  <2> DEFINE l == stableBurn(r.stableDebt, user, amount, now)
  <2>1. StillRates(l) BY <1>1, StillBurn
  <2>. HIDE DEF l
  <2>2. repayDebt(r, user, amount, mode).stableDebt \in {l, r.stableDebt}
    BY <1>1 DEF repayDebt, ReserveData, l
  <2> QED BY <2>1, <2>2
<1>4. ASSUME NEW variable \in Nat
      PROVE  StillRates(burnDebt(r, user, amount, variable).stableDebt)
  <2> DEFINE l == stableBurn(r.stableDebt, user, amount - variable, now)
  <2>1. amount > variable => StillRates(l)
    <3>1. amount > variable => amount - variable \in Nat OBVIOUS
    <3> QED BY <1>1, <3>1, StillBurn
  <2>. HIDE DEF l
  <2>2. burnDebt(r, user, amount, variable).stableDebt
          = IF amount > variable THEN l ELSE r.stableDebt
    BY <1>1 DEF burnDebt, ReserveData, l
  <2> QED BY <2>1, <2>2
<1> QED BY <1>2, <1>3, <1>4

-----------------------------------------------------------------------------
(* Claims against assets.                                                    *)

\* What everybody owes of a reserve, as it is stored.
owedBy(r) == [u \in Users |-> r.stableDebt.balances[u] + r.variableDebt.balances[u]]

\* What depositors can claim of a flat reserve beyond its cash and its debts.
Surplus(r) == r.aToken.totalSupply - (r.cash + SumFunction(owedBy(r)))

\* The parts of a surplus are numbers.
LEMMA SurplusParts ==
    ASSUME NEW r, now \in Nat, ReserveOK(r, now)
    PROVE  /\ r.aToken.totalSupply \in Nat /\ r.cash \in Nat
           /\ owedBy(r) \in [Users -> Nat] /\ owedBy(r) \in [Users -> Int]
           /\ SumFunction(owedBy(r)) \in Nat
<1>1. /\ r.aToken \in ScaledLedger /\ r.variableDebt \in ScaledLedger
      /\ r.stableDebt \in StableLedger /\ r.cash \in Nat
  BY ReserveParts
<1>2. /\ r.aToken.totalSupply \in Nat
      /\ owedBy(r) \in [Users -> Nat] /\ owedBy(r) \in [Users -> Int]
  BY <1>1 DEF ScaledLedger, StableLedger, owedBy
<1> QED BY <1>1, <1>2, UsersFinite, SumNat

\* In units, what somebody owes of a flat reserve is what is stored.
LEMMA FlatUnits ==
    ASSUME NEW r, now \in Nat, ReserveOK(r, now), Flat(r), NEW u \in Users
    PROVE  /\ owedBy(r)[u] = debtUnits(r, u, STABLE) + debtUnits(r, u, VARIABLE_MODE)
           /\ \A x \in Nat, m \in InterestRateMode : unitsOf(r, x, m) = x
<1>1. STABLE # VARIABLE_MODE BY DEF STABLE, VARIABLE_MODE
<1>2. stableDebtOf(r, u) = r.stableDebt.balances[u] BY FlatViews
<1>3. \A x \in Nat : rayDiv(x, RAY) = x
  <2>1. RAY \in Nat /\ RAY <= RAY BY RayPositive
  <2>2. \A x \in Nat : rayDiv(rayMul(x, RAY), RAY) = x BY <2>1, RoundTrip
  <2> QED BY <2>2, RayMulRay
<1> QED BY <1>1, <1>2, <1>3 DEF owedBy, debtUnits, unitsOf, Flat

\* When the debts of one borrower change by x, the surplus loses x.
LEMMA SurplusMoved ==
    ASSUME now \in Nat, NEW r, ReserveOK(r, now), Flat(r), NEW s, ReserveOK(s, now), Flat(s),
           NEW user \in Users, NEW x \in Int,
           debtUnits(s, user, STABLE) + debtUnits(s, user, VARIABLE_MODE)
             = debtUnits(r, user, STABLE) + debtUnits(r, user, VARIABLE_MODE) + x,
           \A u \in Users \ {user}, m \in InterestRateMode :
              debtUnits(s, u, m) = debtUnits(r, u, m)
    PROVE  Surplus(s) = Surplus(r) + (s.aToken.totalSupply - r.aToken.totalSupply)
                          - (s.cash - r.cash) - x
<1>1. STABLE \in InterestRateMode /\ VARIABLE_MODE \in InterestRateMode
  BY DEF InterestRateMode
<1>2. \A u \in Users \ {user} : owedBy(s)[u] = owedBy(r)[u] BY <1>1, FlatUnits
<1>3. owedBy(s)[user] = owedBy(r)[user] + x BY FlatUnits
<1>4. /\ owedBy(r) \in [Users -> Int] /\ owedBy(s) \in [Users -> Int]
      /\ owedBy(r)[user] \in Int
      /\ r.aToken.totalSupply \in Nat /\ r.cash \in Nat
      /\ s.aToken.totalSupply \in Nat /\ s.cash \in Nat
      /\ SumFunction(owedBy(r)) \in Nat
  BY SurplusParts
<1>5. SumFunction(owedBy(s)) = SumFunction(owedBy(r)) + (owedBy(s)[user] - owedBy(r)[user])
  BY <1>2, <1>4, UsersFinite, SumChanged
<1>6. SumFunction(owedBy(s)) = SumFunction(owedBy(r)) + x BY <1>3, <1>4, <1>5
<1> QED BY <1>4, <1>6 DEF Surplus

\* When no debt changes, only aTokens and cash count.
LEMMA SurplusSameDebts ==
    ASSUME now \in Nat, NEW r, ReserveOK(r, now), NEW s, ReserveOK(s, now), SameDebts(s, r)
    PROVE  Surplus(s) = Surplus(r) + (s.aToken.totalSupply - r.aToken.totalSupply)
                          - (s.cash - r.cash)
<1>1. owedBy(s) = owedBy(r) BY DEF SameDebts, owedBy
<1>2. /\ r.aToken.totalSupply \in Nat /\ r.cash \in Nat
      /\ s.aToken.totalSupply \in Nat /\ s.cash \in Nat
      /\ SumFunction(owedBy(r)) \in Nat
  BY SurplusParts
<1> QED BY <1>1, <1>2 DEF Surplus

\* Nothing ever accrued on any reserve, and the claims on each are covered.
Even ==
    \A a \in Assets : Flat(reserves[a]) /\ Surplus(reserves[a]) = 0

\* An operation on one reserve that stores it flat and covered.
LEMMA StoreEven ==
    ASSUME PoolInv, Even, NEW a \in Assets, NEW s, reserves' = [reserves EXCEPT ![a] = s],
           Flat(s), Surplus(s) = 0
    PROVE  Even'
<1>1. reserves'[a] = s /\ \A b \in Assets \ {a} : reserves'[b] = reserves[b]
  BY DEF PoolInv, PoolTypeOK
<1>2. \A b \in Assets : Flat(reserves'[b]) /\ Surplus(reserves'[b]) = 0 BY <1>1 DEF Even
<1> QED BY <1>2 DEF Even, Flat, StillRates, Surplus, owedBy

\* What is known of a flat reserve about to be operated on.
LEMMA EvenParts ==
    ASSUME PoolInv, Even, NEW a \in Assets
    PROVE  /\ now \in Nat /\ Factor(a) \in Nat
           /\ ReserveOK(reserves[a], now) /\ Flat(reserves[a]) /\ Surplus(reserves[a]) = 0
           /\ nextLiquidityIndex(reserves[a], now) = RAY
           /\ ReserveOK(Refreshed(a), now) /\ Flat(Refreshed(a))
           /\ SameDebts(Refreshed(a), reserves[a])
           /\ Refreshed(a).aToken = reserves[a].aToken
           /\ Refreshed(a).cash = reserves[a].cash
           /\ reserves[a].aToken.totalSupply \in Nat /\ reserves[a].cash \in Nat
           /\ reserves[a].aToken \in ScaledLedger
<1>1. now \in Nat /\ Factor(a) \in Nat /\ ReserveOK(reserves[a], now) BY PoolParts
<1>2. Flat(reserves[a]) /\ Surplus(reserves[a]) = 0 BY DEF Even
<1>3. Flat(Refreshed(a)) /\ Refreshed(a).aToken = reserves[a].aToken
  BY <1>1, <1>2, FlatRefresh DEF Refreshed
<1> QED BY <1>1, <1>2, <1>3, RefreshedOK, FlatViews, SurplusParts, ReserveParts DEF SameDebts

\* At an index of one ray an amount is as many units.
LEMMA FlatUnitsMoved ==
    ASSUME NEW l \in ScaledLedger, NEW user \in Users, NEW amount \in Nat
    PROVE  /\ scaledMint(l, user, amount, RAY).totalSupply = l.totalSupply + amount
           /\ scaledBurn(l, user, amount, RAY).totalSupply = l.totalSupply - amount
<1>1. RAY \in Nat /\ RAY <= RAY BY RayPositive
<1>2. rayDiv(rayMul(amount, RAY), RAY) = amount BY <1>1, RoundTrip
<1>3. rayDiv(amount, RAY) = amount BY <1>2, RayMulRay
<1> QED BY <1>3 DEF scaledMint, scaledBurn, ScaledLedger

\* Deposits and withdrawals move claims with cash.
LEMMA DepositEven ==
    ASSUME InterestFree, PoolInv, Even, NEW caller \in Users, NEW a \in Assets,
           NEW amount \in Amounts, NEW onBehalfOf \in Users,
           Deposit(caller, a, amount, onBehalfOf)
    PROVE  Even'
<1>1. PICK s : /\ Stores(a, s)
               /\ SameDebts(s, reserves[a])
               /\ s.cash = reserves[a].cash + amount
               /\ s.aToken = scaledMint(Refreshed(a).aToken, onBehalfOf, amount,
                                        nextLiquidityIndex(reserves[a], now))
  BY DepositEffect
<1>2. amount \in Nat BY PoolConstants
<1>3. ReserveOK(s, now) /\ Settled(a, s) /\ reserves' = [reserves EXCEPT ![a] = s]
  BY <1>1 DEF Stores, Settled
<1>4. StillRates(s.stableDebt) BY <1>1, EvenParts DEF Flat, SameDebts
<1>5. Flat(s) BY <1>3, <1>4, EvenParts, FlatStored
<1>6. s.aToken.totalSupply = reserves[a].aToken.totalSupply + amount
  BY <1>1, <1>2, EvenParts, FlatUnitsMoved
<1>7. Surplus(s) = 0 + (s.aToken.totalSupply - reserves[a].aToken.totalSupply)
                     - (s.cash - reserves[a].cash)
  BY <1>1, <1>3, EvenParts, SurplusSameDebts
<1>8. reserves[a].aToken.totalSupply \in Nat /\ reserves[a].cash \in Nat BY EvenParts
<1>9. Surplus(s) = 0 BY <1>1, <1>2, <1>6, <1>7, <1>8
<1> QED BY <1>3, <1>5, <1>9, StoreEven

\* A withdrawal burns what it pays out.
LEMMA WithdrawEven ==
    ASSUME InterestFree, PoolInv, Even, NEW caller \in Users, NEW a \in Assets,
           NEW request \in Requests, NEW to \in Users, Withdraw(caller, a, request, to)
    PROVE  Even'
<1>0. PICK s : \E amount \in Nat :
               /\ Stores(a, s)
               /\ SameDebts(s, reserves[a])
               /\ s.cash = reserves[a].cash - amount
               /\ s.aToken = scaledBurn(Refreshed(a).aToken, caller, amount,
                                        nextLiquidityIndex(reserves[a], now))
  BY WithdrawEffect
<1>1. PICK amount \in Nat :
               /\ Stores(a, s)
               /\ SameDebts(s, reserves[a])
               /\ s.cash = reserves[a].cash - amount
               /\ s.aToken = scaledBurn(Refreshed(a).aToken, caller, amount,
                                        nextLiquidityIndex(reserves[a], now))
  BY <1>0
<1>3. ReserveOK(s, now) /\ Settled(a, s) /\ reserves' = [reserves EXCEPT ![a] = s]
  BY <1>1 DEF Stores, Settled
<1>4. StillRates(s.stableDebt) BY <1>1, EvenParts DEF Flat, SameDebts
<1>5. Flat(s) BY <1>3, <1>4, EvenParts, FlatStored
<1>6. s.aToken.totalSupply = reserves[a].aToken.totalSupply - amount
  BY <1>1, EvenParts, FlatUnitsMoved
<1>7. Surplus(s) = 0 + (s.aToken.totalSupply - reserves[a].aToken.totalSupply)
                     - (s.cash - reserves[a].cash)
  BY <1>1, <1>3, EvenParts, SurplusSameDebts
<1>8. reserves[a].aToken.totalSupply \in Nat /\ reserves[a].cash \in Nat BY EvenParts
<1>9. Surplus(s) = 0 BY <1>1, <1>6, <1>7, <1>8
<1> QED BY <1>3, <1>5, <1>9, StoreEven

\* A debt of one kind that changes by x changes what its owner owes by x.
LEMMA OneDebtMoved ==
    ASSUME now \in Nat, NEW r, ReserveOK(r, now), NEW s, NEW user \in Users, NEW x \in Int,
           NEW mode \in InterestRateMode,
           debtUnits(s, user, mode) = debtUnits(r, user, mode) + x,
           \A u \in Users, m \in InterestRateMode : u # user \/ m # mode =>
              debtUnits(s, u, m) = debtUnits(r, u, m)
    PROVE  /\ debtUnits(s, user, STABLE) + debtUnits(s, user, VARIABLE_MODE)
                = debtUnits(r, user, STABLE) + debtUnits(r, user, VARIABLE_MODE) + x
           /\ \A u \in Users \ {user}, m \in InterestRateMode :
                debtUnits(s, u, m) = debtUnits(r, u, m)
<1>1. /\ STABLE \in InterestRateMode /\ VARIABLE_MODE \in InterestRateMode
      /\ STABLE # VARIABLE_MODE /\ mode \in {STABLE, VARIABLE_MODE}
  BY DEF InterestRateMode, STABLE, VARIABLE_MODE
<1>2. debtUnits(r, user, STABLE) \in Nat /\ debtUnits(r, user, VARIABLE_MODE) \in Nat
  BY <1>1, DebtUnitsNat
<1>3. CASE mode = STABLE
  <2>1. debtUnits(s, user, VARIABLE_MODE) = debtUnits(r, user, VARIABLE_MODE) BY <1>1, <1>3
  <2>2. debtUnits(s, user, STABLE) = debtUnits(r, user, STABLE) + x BY <1>3
  <2> QED BY <1>2, <2>1, <2>2
<1>4. CASE mode = VARIABLE_MODE
  <2>1. debtUnits(s, user, STABLE) = debtUnits(r, user, STABLE) BY <1>1, <1>4
  <2>2. debtUnits(s, user, VARIABLE_MODE) = debtUnits(r, user, VARIABLE_MODE) + x BY <1>4
  <2> QED BY <1>2, <2>1, <2>2
<1> QED BY <1>1, <1>3, <1>4

\* A borrowing adds to the debts what it pays out.
LEMMA BorrowEven ==
    ASSUME InterestFree, PoolInv, Even, NEW caller \in Users, NEW a \in Assets,
           NEW amount \in Amounts, NEW mode \in InterestRateMode, NEW onBehalfOf \in Users,
           Borrow(caller, a, amount, mode, onBehalfOf)
    PROVE  Even'
<1> DEFINE r == Refreshed(a)
           q == mintDebt(r, onBehalfOf, amount, mode)
<1>1. PICK s : /\ Stores(a, s)
               /\ amount \in Nat
               /\ amount # 0
               /\ SameDebts(s, q)
               /\ s.cash = reserves[a].cash - amount
               /\ s.aToken = r.aToken
  BY BorrowEffect
<1>2. /\ now \in Nat /\ ReserveOK(r, now) /\ Flat(r) /\ Surplus(reserves[a]) = 0
      /\ ReserveOK(reserves[a], now)
      /\ SameDebts(r, reserves[a]) /\ r.aToken = reserves[a].aToken
      /\ r.cash = reserves[a].cash
      /\ r.aToken.totalSupply \in Nat /\ r.cash \in Nat
  BY EvenParts
<1>3. ReserveOK(s, now) /\ Settled(a, s) /\ reserves' = [reserves EXCEPT ![a] = s]
  BY <1>1 DEF Stores, Settled
<1>4. r.currentStableBorrowRate = 0 /\ StillRates(r.stableDebt) BY <1>2 DEF Flat
<1>. HIDE DEF r
<1>5. StillRates(q.stableDebt) BY <1>1, <1>2, <1>4, StillDebts
<1>6. /\ debtUnits(q, onBehalfOf, mode) = debtUnits(r, onBehalfOf, mode) + unitsOf(r, amount, mode)
      /\ \A u \in Users, m \in InterestRateMode : u # onBehalfOf \/ m # mode =>
            debtUnits(q, u, m) = debtUnits(r, u, m)
  BY <1>1, <1>2, MintDebtMoves
<1>7. unitsOf(r, amount, mode) = amount BY <1>1, <1>2, FlatUnits
<1>. HIDE DEF q
<1>8. /\ StillRates(s.stableDebt)
      /\ \A u \in Users, m \in InterestRateMode : debtUnits(s, u, m) = debtUnits(q, u, m)
  BY <1>1, <1>5 DEF SameDebts, debtUnits, stableDebtOf
<1>9. Flat(s) BY <1>3, <1>8, EvenParts, FlatStored
<1>10. /\ debtUnits(s, onBehalfOf, mode) = debtUnits(r, onBehalfOf, mode) + amount
       /\ \A u \in Users, m \in InterestRateMode : u # onBehalfOf \/ m # mode =>
             debtUnits(s, u, m) = debtUnits(r, u, m)
  BY <1>6, <1>7, <1>8
<1>11. amount \in Int BY <1>1
<1>12. Surplus(s) = Surplus(r) + (s.aToken.totalSupply - r.aToken.totalSupply)
                      - (s.cash - r.cash) - amount
  BY <1>2, <1>3, <1>9, <1>10, <1>11, OneDebtMoved, SurplusMoved
<1>13. Surplus(r) = 0 + (r.aToken.totalSupply - r.aToken.totalSupply) - (r.cash - r.cash)
  BY <1>2, SurplusSameDebts
<1>14. Surplus(s) = 0 BY <1>1, <1>2, <1>12, <1>13
<1> QED BY <1>3, <1>9, <1>14, StoreEven

\* A repayment takes off the debts what it brings.
LEMMA RepayEven ==
    ASSUME InterestFree, PoolInv, Even, NEW caller \in Users, NEW a \in Assets,
           NEW request \in Requests, NEW mode \in InterestRateMode, NEW onBehalfOf \in Users,
           Repay(caller, a, request, mode, onBehalfOf)
    PROVE  Even'
<1> DEFINE r == Refreshed(a)
<1>0. PICK s : \E payback \in Nat :
               /\ Stores(a, s)
               /\ repayDebtAllowed(r, onBehalfOf, payback, mode)
               /\ SameDebts(s, repayDebt(r, onBehalfOf, payback, mode))
               /\ s.cash = reserves[a].cash + payback
               /\ s.aToken = r.aToken
  BY RepayEffect
<1>1. PICK payback \in Nat :
               /\ Stores(a, s)
               /\ repayDebtAllowed(r, onBehalfOf, payback, mode)
               /\ SameDebts(s, repayDebt(r, onBehalfOf, payback, mode))
               /\ s.cash = reserves[a].cash + payback
               /\ s.aToken = r.aToken
  BY <1>0
<1> DEFINE q == repayDebt(r, onBehalfOf, payback, mode)
<1>2. /\ now \in Nat /\ ReserveOK(r, now) /\ Flat(r) /\ Surplus(reserves[a]) = 0
      /\ ReserveOK(reserves[a], now)
      /\ SameDebts(r, reserves[a]) /\ r.aToken = reserves[a].aToken
      /\ r.cash = reserves[a].cash
      /\ r.aToken.totalSupply \in Nat /\ r.cash \in Nat
  BY EvenParts
<1>3. ReserveOK(s, now) /\ Settled(a, s) /\ reserves' = [reserves EXCEPT ![a] = s]
  BY <1>1 DEF Stores, Settled
<1>4. StillRates(r.stableDebt) BY <1>2 DEF Flat
<1>. HIDE DEF r
<1>5. StillRates(q.stableDebt) BY <1>2, <1>4, StillDebts
<1>6. /\ debtUnits(q, onBehalfOf, mode)
           = debtUnits(r, onBehalfOf, mode) - unitsOf(r, payback, mode)
      /\ \A u \in Users, m \in InterestRateMode : u # onBehalfOf \/ m # mode =>
            debtUnits(q, u, m) = debtUnits(r, u, m)
  BY <1>1, <1>2, RepayDebtMoves
<1>7. unitsOf(r, payback, mode) = payback BY <1>2, FlatUnits
<1>8. SameDebts(s, q) BY <1>1
<1>. HIDE DEF q
<1>9. /\ StillRates(s.stableDebt)
      /\ \A u \in Users, m \in InterestRateMode : debtUnits(s, u, m) = debtUnits(q, u, m)
  BY <1>5, <1>8 DEF SameDebts, debtUnits, stableDebtOf
<1>10. Flat(s) BY <1>3, <1>9, EvenParts, FlatStored
<1>11. debtUnits(r, onBehalfOf, mode) \in Nat BY <1>2, DebtUnitsNat
<1>12. /\ debtUnits(s, onBehalfOf, mode) = debtUnits(r, onBehalfOf, mode) + (0 - payback)
       /\ \A u \in Users, m \in InterestRateMode : u # onBehalfOf \/ m # mode =>
             debtUnits(s, u, m) = debtUnits(r, u, m)
  BY <1>6, <1>7, <1>9, <1>11
<1>13. 0 - payback \in Int OBVIOUS
<1>14. Surplus(s) = Surplus(r) + (s.aToken.totalSupply - r.aToken.totalSupply)
                      - (s.cash - r.cash) - (0 - payback)
  BY <1>2, <1>3, <1>10, <1>12, <1>13, OneDebtMoved, SurplusMoved
<1>15. Surplus(r) = 0 + (r.aToken.totalSupply - r.aToken.totalSupply) - (r.cash - r.cash)
  BY <1>2, SurplusSameDebts
<1>16. Surplus(s) = 0 BY <1>1, <1>2, <1>14, <1>15
<1> QED BY <1>3, <1>10, <1>16, StoreEven

\* Replacing a debt leaves what its owner owes.
LEMMA ReplacedEven ==
    ASSUME InterestFree, PoolInv, Even, NEW a \in Assets, NEW user \in Users,
           NEW s, Stores(a, s), s.cash = reserves[a].cash, s.aToken = Refreshed(a).aToken,
           StillRates(s.stableDebt),
           debtUnits(s, user, STABLE) + debtUnits(s, user, VARIABLE_MODE)
             = debtUnits(reserves[a], user, STABLE) + debtUnits(reserves[a], user, VARIABLE_MODE),
           \A u \in Users \ {user}, m \in InterestRateMode :
              debtUnits(s, u, m) = debtUnits(reserves[a], u, m)
    PROVE  Even'
<1> DEFINE r == reserves[a]
<1>1. ReserveOK(s, now) /\ Settled(a, s) /\ reserves' = [reserves EXCEPT ![a] = s]
  BY DEF Stores, Settled
<1>2. /\ now \in Nat /\ ReserveOK(r, now) /\ Flat(r) /\ Surplus(r) = 0
      /\ s.aToken = r.aToken
      /\ r.aToken.totalSupply \in Nat /\ r.cash \in Nat
  BY EvenParts
<1>3. Flat(s) BY <1>1, <1>2, FlatStored
<1>4. STABLE \in InterestRateMode /\ VARIABLE_MODE \in InterestRateMode
  BY DEF InterestRateMode
<1>5. debtUnits(r, user, STABLE) \in Nat /\ debtUnits(r, user, VARIABLE_MODE) \in Nat
  BY <1>2, <1>4, DebtUnitsNat
<1>6. /\ debtUnits(s, user, STABLE) + debtUnits(s, user, VARIABLE_MODE)
           = debtUnits(r, user, STABLE) + debtUnits(r, user, VARIABLE_MODE) + 0
      /\ 0 \in Int
  BY <1>5
<1>7. Surplus(s) = Surplus(r) + (s.aToken.totalSupply - r.aToken.totalSupply)
                     - (s.cash - r.cash) - 0
  BY <1>1, <1>2, <1>3, <1>6, SurplusMoved
<1>8. Surplus(s) = 0 BY <1>2, <1>7
<1> QED BY <1>1, <1>3, <1>8, StoreEven

\* Swapping the kind of a debt, or rebalancing its rate.
LEMMA RateOperationEven ==
    ASSUME InterestFree, PoolInv, Even, NEW caller \in Users, NEW a \in Assets,
           RebalanceStableBorrowRate(a, caller)
             \/ \E mode \in InterestRateMode : SwapBorrowRateMode(caller, a, mode)
    PROVE  Even'
<1> DEFINE r == Refreshed(a)
<1>1. /\ now \in Nat /\ ReserveOK(r, now) /\ r.lastUpdateTimestamp = now /\ Flat(r)
      /\ ReserveOK(reserves[a], now) /\ Flat(reserves[a])
  BY EvenParts, RefreshedOK
<1>2. r.currentStableBorrowRate = 0 /\ StillRates(r.stableDebt) BY <1>1 DEF Flat
<1>3. STABLE \in InterestRateMode /\ VARIABLE_MODE \in InterestRateMode
  BY DEF InterestRateMode
<1>. HIDE DEF r
<1>4. ASSUME NEW debt \in Nat \ {0}, NEW from \in InterestRateMode, NEW to \in InterestRateMode,
             repayDebtAllowed(r, caller, debt, from), NEW s,
             SameDebts(s, mintDebt(repayDebt(r, caller, debt, from), caller, debt, to))
      PROVE  StillRates(s.stableDebt)
  <2> DEFINE q == repayDebt(r, caller, debt, from)
  <2>1. ReserveOK(q, now) BY <1>1, <1>4, RepayDebtOK
  <2>2. StillRates(q.stableDebt) BY <1>1, <1>2, StillDebts
  <2>3. q.currentStableBorrowRate = 0
    <3>1. q.currentStableBorrowRate = r.currentStableBorrowRate
      <4>1. r \in ReserveData BY <1>1 DEF ReserveOK
      <4> QED BY <4>1 DEF repayDebt, ReserveData
    <3> QED BY <1>2, <3>1
  <2>. HIDE DEF q
  <2>4. debt \in Nat /\ debt # 0 OBVIOUS
  <2>5. StillRates(mintDebt(q, caller, debt, to).stableDebt)
    BY <1>1, <2>1, <2>2, <2>3, <2>4, StillDebts
  <2> QED BY <1>4, <2>5 DEF SameDebts, q
<1>5. CASE RebalanceStableBorrowRate(a, caller)
  <2>1. PICK s : /\ Stores(a, s)
                 /\ \E debt \in Nat \ {0} :
                       /\ repayDebtAllowed(r, caller, debt, STABLE)
                       /\ SameDebts(s, mintDebt(repayDebt(r, caller, debt, STABLE),
                                                caller, debt, STABLE))
                 /\ s.cash = reserves[a].cash
                 /\ s.aToken = r.aToken
                 /\ \A u \in Users, m \in InterestRateMode :
                       debtUnits(s, u, m) = debtUnits(reserves[a], u, m)
    BY <1>5, RebalanceEffect DEF r
  <2>2. StillRates(s.stableDebt) BY <1>3, <1>4, <2>1
  <2> QED BY <1>3, <2>1, <2>2, ReplacedEven DEF r
<1>6. ASSUME NEW mode \in InterestRateMode, SwapBorrowRateMode(caller, a, mode)
      PROVE  Even'
  <2> DEFINE debt  == reportedDebt(reserves[a], caller, mode)
             other == otherMode(mode)
  <2>1. PICK s : /\ Stores(a, s)
                 /\ other \in InterestRateMode \ {mode}
                 /\ repayDebtAllowed(r, caller, debt, mode)
                 /\ SameDebts(s, mintDebt(repayDebt(r, caller, debt, mode),
                                          caller, debt, other))
                 /\ s.cash = reserves[a].cash
                 /\ s.aToken = r.aToken
                 /\ debtUnits(s, caller, mode) = 0
                 /\ debtUnits(s, caller, other)
                      = debtUnits(reserves[a], caller, other) + unitsOf(s, debt, other)
                 /\ \A u \in Users \ {caller}, m \in InterestRateMode :
                       debtUnits(s, u, m) = debtUnits(reserves[a], u, m)
    BY <1>6, SwapEffect DEF r
  <2>2. debt = debtUnits(reserves[a], caller, mode)
    BY <1>1, FlatViews DEF reportedDebt, debtUnits
  <2>3. debt \in Nat /\ debtUnits(reserves[a], caller, other) \in Nat
    BY <1>1, <2>1, <2>2, DebtUnitsNat
  <2>4. debt # 0
    <3>1. debt > 0
      BY <1>6 DEF SwapBorrowRateMode, validateSwapRateMode, reportedDebt, InterestRateMode
    <3> QED BY <2>3, <3>1
  <2>. HIDE DEF debt
  <2>5. StillRates(s.stableDebt) BY <1>4, <2>1, <2>3, <2>4
  <2>6. Settled(a, s) /\ ReserveOK(s, now) BY <2>1 DEF Stores, Settled
  <2>7. Flat(s) BY <1>1, <2>5, <2>6, FlatStored
  <2>8. unitsOf(s, debt, other) = debt BY <1>1, <2>1, <2>3, <2>6, <2>7, FlatUnits
  <2>9. /\ debtUnits(s, caller, mode) = 0
        /\ debtUnits(s, caller, other) = debtUnits(reserves[a], caller, other) + debt
    BY <2>1, <2>8
  <2>10. debtUnits(s, caller, STABLE) + debtUnits(s, caller, VARIABLE_MODE)
           = debtUnits(reserves[a], caller, STABLE) + debtUnits(reserves[a], caller, VARIABLE_MODE)
    <3>1. \/ mode = STABLE /\ other = VARIABLE_MODE
          \/ mode = VARIABLE_MODE /\ other = STABLE
      BY <2>1 DEF InterestRateMode
    <3>. HIDE DEF other
    <3>2. CASE mode = STABLE /\ other = VARIABLE_MODE
      <4>1. /\ debtUnits(s, caller, STABLE) = 0
            /\ debtUnits(s, caller, VARIABLE_MODE)
                 = debtUnits(reserves[a], caller, VARIABLE_MODE)
                     + debtUnits(reserves[a], caller, STABLE)
            /\ debtUnits(reserves[a], caller, VARIABLE_MODE) \in Nat
            /\ debtUnits(reserves[a], caller, STABLE) \in Nat
        BY <2>2, <2>3, <2>9, <3>2
      <4> QED BY <4>1
    <3>3. CASE mode = VARIABLE_MODE /\ other = STABLE
      <4>1. /\ debtUnits(s, caller, VARIABLE_MODE) = 0
            /\ debtUnits(s, caller, STABLE)
                 = debtUnits(reserves[a], caller, STABLE)
                     + debtUnits(reserves[a], caller, VARIABLE_MODE)
            /\ debtUnits(reserves[a], caller, VARIABLE_MODE) \in Nat
            /\ debtUnits(reserves[a], caller, STABLE) \in Nat
        BY <2>2, <2>3, <2>9, <3>3
      <4> QED BY <4>1
    <3> QED BY <3>1, <3>2, <3>3
  <2> QED BY <2>1, <2>5, <2>10, ReplacedEven DEF r
<1> QED BY <1>5, <1>6

\* A transfer of aTokens moves claims among users.
LEMMA TransferEven ==
    ASSUME PoolInv, SuppliesAddUp, Even, NEW from \in Users, NEW a \in Assets,
           NEW amount \in Amounts, NEW to \in Users, TransferAToken(from, a, amount, to)
    PROVE  Even'
<1>1. PICK s : /\ reserves' = [reserves EXCEPT ![a] = s]
               /\ TokensOnly(s, reserves[a])
               /\ Balanced(reserves[a].aToken) =>
                     s.aToken.totalSupply = reserves[a].aToken.totalSupply
  BY TransferEffect
<1>2. Balanced(reserves[a].aToken) BY DEF SuppliesAddUp, Balanced
<1>3. /\ Flat(reserves[a]) /\ Surplus(reserves[a]) = 0
  BY EvenParts
<1>4. Flat(s) BY <1>1, <1>3 DEF TokensOnly, SameDebts, Flat
<1>5. owedBy(s) = owedBy(reserves[a]) BY <1>1 DEF TokensOnly, SameDebts, owedBy
<1>6. Surplus(s) = 0 BY <1>1, <1>2, <1>3, <1>5 DEF TokensOnly, Surplus
<1> QED BY <1>1, <1>4, <1>6, StoreEven

\* The debt a liquidation burns is short of its cash until the repayment arrives.
LEMMA BurnedSurplus ==
    ASSUME InterestFree, NEW r, now \in Nat, ReserveOK(r, now), Flat(r), NEW user \in Users,
           NEW debt \in Nat, NEW variable \in Nat, variable <= debt,
           burnDebtAllowed(r, user, debt, variable),
           NEW s, s = burnDebt(r, user, debt, variable), ReserveOK(s, now)
    PROVE  Flat(s) /\ Surplus(s) = Surplus(r) + debt
<1>1. r \in ReserveData BY DEF ReserveOK
<1>2. StillRates(s.stableDebt)
  <2>1. StillRates(r.stableDebt) /\ STABLE \in InterestRateMode BY DEF Flat, InterestRateMode
  <2> QED BY <2>1, StillDebts
<1>3. /\ s.currentLiquidityRate = r.currentLiquidityRate
      /\ s.currentStableBorrowRate = r.currentStableBorrowRate
      /\ s.currentVariableBorrowRate = r.currentVariableBorrowRate
  BY <1>1 DEF burnDebt, ReserveData
<1>4. /\ DebtsOnly(s, r)
      /\ debtUnits(s, user, VARIABLE_MODE)
           = debtUnits(r, user, VARIABLE_MODE) - unitsOf(r, variable, VARIABLE_MODE)
      /\ debtUnits(s, user, STABLE) = debtUnits(r, user, STABLE) - (debt - variable)
      /\ \A u \in Users \ {user}, m \in InterestRateMode :
            debtUnits(s, u, m) = debtUnits(r, u, m)
  BY BurnDebtMoves
<1>5. Flat(s) BY <1>2, <1>3, <1>4 DEF Flat, DebtsOnly
<1>6. /\ unitsOf(r, variable, VARIABLE_MODE) = variable
      /\ debtUnits(r, user, VARIABLE_MODE) \in Nat /\ debtUnits(r, user, STABLE) \in Nat
  <2>1. VARIABLE_MODE \in InterestRateMode /\ STABLE \in InterestRateMode
    BY DEF InterestRateMode
  <2> QED BY <2>1, FlatUnits, DebtUnitsNat
<1>7. debtUnits(s, user, STABLE) + debtUnits(s, user, VARIABLE_MODE)
        = debtUnits(r, user, STABLE) + debtUnits(r, user, VARIABLE_MODE) + (0 - debt)
  BY <1>4, <1>6
<1>8. 0 - debt \in Int OBVIOUS
<1>9. Surplus(s) = Surplus(r) + (s.aToken.totalSupply - r.aToken.totalSupply)
                     - (s.cash - r.cash) - (0 - debt)
  BY <1>4, <1>5, <1>7, <1>8, SurplusMoved
<1>10. /\ r.aToken.totalSupply \in Nat /\ r.cash \in Nat /\ SumFunction(owedBy(r)) \in Nat
  BY SurplusParts
<1>11. Surplus(r) \in Int BY <1>10 DEF Surplus
<1>12. Surplus(s) = Surplus(r) + debt BY <1>4, <1>9, <1>10, <1>11 DEF DebtsOnly
<1> QED BY <1>5, <1>12

\* Paying the liquidator and the reserve moves claims, or claims with cash.
LEMMA PaidSurplus ==
    ASSUME InterestFree, NEW r, now \in Nat, ReserveOK(r, now), Flat(r), Balanced(r.aToken),
           NEW rf \in Nat, NEW user \in Users, NEW liquidator \in Users,
           NEW amount \in Nat, NEW share \in Nat, NEW receiveAToken \in BOOLEAN,
           payLiquidatorAllowed(r, rf, user, amount, receiveAToken),
           NEW p, p = payLiquidator(r, rf, user, liquidator, amount, receiveAToken),
           ReserveOK(p, now), SameDebts(p, r),
           NEW s, s = payReserve(p, user, share), ReserveOK(s, now)
    PROVE  Flat(s) /\ Surplus(s) = Surplus(r)
<1>1. /\ Balanced(p.aToken)
      /\ receiveAToken => TokensOnly(p, r) /\ p.aToken.totalSupply = r.aToken.totalSupply
      /\ ~receiveAToken =>
            /\ RatesMatch(p, rf, now)
            /\ p.cash = r.cash - amount
            /\ p.liquidityIndex = nextLiquidityIndex(r, now)
            /\ p.variableBorrowIndex = nextVariableBorrowIndex(r, now)
            /\ p.aToken = scaledBurn(updateState(r, rf, now).aToken, user, amount,
                                     nextLiquidityIndex(r, now))
  BY PayLiquidatorMoves
<1>2. TokensOnly(s, p) /\ s.aToken.totalSupply = p.aToken.totalSupply
  BY <1>1, PayReserveMoves
<1>3. /\ r.aToken.totalSupply \in Nat /\ r.cash \in Nat /\ SumFunction(owedBy(r)) \in Nat
      /\ p.aToken.totalSupply \in Nat /\ p.cash \in Nat
  BY SurplusParts
<1>4. Surplus(r) \in Int BY <1>3 DEF Surplus
<1>5. Surplus(p) = Surplus(r) + (p.aToken.totalSupply - r.aToken.totalSupply)
                     - (p.cash - r.cash)
  BY SurplusSameDebts
<1>6. Flat(p) /\ Surplus(p) = Surplus(r)
  <2>1. CASE receiveAToken
    <3>1. Flat(p) BY <1>1, <2>1 DEF TokensOnly, SameDebts, Flat
    <3>2. p.cash = r.cash BY <1>1, <2>1 DEF TokensOnly
    <3>3. p.aToken.totalSupply = r.aToken.totalSupply BY <1>1, <2>1
    <3>4. Surplus(p) = Surplus(r) BY <1>3, <1>4, <1>5, <3>2, <3>3
    <3> QED BY <3>1, <3>4
  <2>2. CASE ~receiveAToken
    <3>1. /\ nextLiquidityIndex(r, now) = RAY /\ nextVariableBorrowIndex(r, now) = RAY
          /\ updateState(r, rf, now).aToken = r.aToken
      BY FlatViews, FlatRefresh
    <3>2. StillRates(p.stableDebt) BY DEF SameDebts, Flat
    <3>3. Flat(p) BY <1>1, <2>2, <3>1, <3>2, FlatMatched
    <3>4. r.aToken \in ScaledLedger BY ReserveParts
    <3>5. p.aToken.totalSupply = r.aToken.totalSupply - amount
      BY <1>1, <2>2, <3>1, <3>4, FlatUnitsMoved
    <3>6. p.cash = r.cash - amount BY <1>1, <2>2
    <3> QED BY <1>3, <1>4, <1>5, <3>3, <3>5, <3>6
  <2> QED BY <2>1, <2>2
<1>7. Flat(s) BY <1>2, <1>6 DEF TokensOnly, SameDebts, Flat
<1>8. owedBy(s) = owedBy(p) BY <1>2 DEF TokensOnly, SameDebts, owedBy
<1>9. Surplus(s) = Surplus(p) BY <1>2, <1>8 DEF TokensOnly, Surplus
<1> QED BY <1>6, <1>7, <1>9

\* Cash that arrives takes from the surplus.
LEMMA CashSurplus ==
    ASSUME NEW r, now \in Nat, ReserveOK(r, now), Flat(r), NEW x \in Nat,
           NEW s, s = [r EXCEPT !.cash = @ + x]
    PROVE  Flat(s) /\ Surplus(s) = Surplus(r) - x
<1>1. r \in ReserveData BY DEF ReserveOK
<1>2. /\ SameDebts(s, r) /\ s.aToken = r.aToken /\ s.cash = r.cash + x /\ Flat(s)
  BY <1>1 DEF ReserveData, SameDebts, Flat
<1>3. owedBy(s) = owedBy(r) BY <1>2 DEF SameDebts, owedBy
<1>4. r.aToken.totalSupply \in Nat /\ r.cash \in Nat /\ SumFunction(owedBy(r)) \in Nat
  BY SurplusParts
<1> QED BY <1>2, <1>3, <1>4 DEF Surplus

\* A liquidation: the repayment covers the debt burned, what is seized changes
\* hands or is paid out, also when it is all one reserve.
LEMMA LiquidationEven ==
    ASSUME InterestFree, PoolInv, SuppliesAddUp, Even,
           NEW liquidator \in Users, NEW c \in Assets, NEW d \in Assets,
           NEW user \in Users, NEW debtToCover \in Requests, NEW receiveAToken \in BOOLEAN,
           LiquidationCall(liquidator, c, d, user, debtToCover, receiveAToken)
    PROVE  Even'
<1>1. PICK D \in Nat, T \in Nat, K \in Nat, variable \in Nat :
              \E debt2, debt3, coll1, coll2, coll3 :
                 LiquidationStages(liquidator, c, d, user, receiveAToken,
                                   D, T, K, variable, debt2, debt3, coll1, coll2, coll3)
  BY LiquidationEffect
<1>2. PICK debt2, debt3, coll1, coll2, coll3 :
                 LiquidationStages(liquidator, c, d, user, receiveAToken,
                                   D, T, K, variable, debt2, debt3, coll1, coll2, coll3)
  BY <1>1
<1> DEFINE r == Refreshed(d)
<1>3. /\ variable <= D
      /\ burnDebtAllowed(r, user, D, variable)
      /\ debt2 = burnDebt(r, user, D, variable)
      /\ ReserveOK(debt2, now)
      /\ updateInterestRatesAllowed(debt2, D, 0, Factor(d))
      /\ debt3 = updateInterestRates(debt2, D, 0, Factor(d), now)
      /\ ReserveOK(debt3, now)
      /\ coll1 = (IF c = d THEN debt3 ELSE reserves[c])
      /\ ReserveOK(coll1, now)
      /\ payLiquidatorAllowed(coll1, Factor(c), user, T, receiveAToken)
      /\ coll2 = payLiquidator(coll1, Factor(c), user, liquidator, T, receiveAToken)
      /\ ReserveOK(coll2, now) /\ SameDebts(coll2, coll1)
      /\ coll3 = payReserve(coll2, user, K)
      /\ ReserveOK(coll3, now)
  BY <1>2 DEF LiquidationStages
<1>4. \A b \in Assets :
          reserves'[b] = IF b # d THEN IF b = c THEN coll3 ELSE reserves[b]
                         ELSE IF c = d THEN [coll3 EXCEPT !.cash = @ + D]
                         ELSE [debt3 EXCEPT !.cash = @ + D]
  BY <1>2 DEF LiquidationStages
<1>5. /\ now \in Nat /\ Factor(d) \in Nat /\ Factor(c) \in Nat /\ 0 \in Nat
      /\ ReserveOK(r, now) /\ Flat(r) /\ SameDebts(r, reserves[d])
      /\ r.aToken = reserves[d].aToken /\ r.cash = reserves[d].cash
      /\ Surplus(reserves[d]) = 0
      /\ Flat(reserves[c]) /\ Surplus(reserves[c]) = 0
  BY EvenParts
<1>6. Surplus(r) = 0 BY <1>5 DEF SameDebts, owedBy, Surplus
<1>. HIDE DEF r
<1>7. Flat(debt2) /\ Surplus(debt2) = Surplus(r) + D BY <1>3, <1>5, BurnedSurplus
<1>8. RatesOnly(debt3, debt2) BY <1>3, <1>5, UpdateInterestRatesOK, Zenon
<1>9. Flat(debt3) BY <1>3, <1>5, <1>7, FlatUpdate
<1>10. Surplus(debt3) = D BY <1>6, <1>7, <1>8 DEF RatesOnly, SameDebts, owedBy, Surplus
<1>11. Balanced(reserves[c].aToken) /\ Balanced(reserves[d].aToken)
  BY DEF SuppliesAddUp, Balanced
<1>12. debt3.aToken = reserves[d].aToken
  <2>1. debt2.aToken = r.aToken
    <3>1. r \in ReserveData BY <1>5 DEF ReserveOK
    <3> QED BY <1>3, <3>1 DEF burnDebt, ReserveData
  <2> QED BY <1>5, <1>8, <2>1 DEF RatesOnly
<1>13. Flat(coll1) /\ Balanced(coll1.aToken) BY <1>3, <1>5, <1>9, <1>11, <1>12
<1>14. Flat(coll3) /\ Surplus(coll3) = Surplus(coll1)
  BY <1>3, <1>5, <1>13, PaidSurplus
<1>15. ASSUME NEW b \in Assets PROVE Flat(reserves'[b]) /\ Surplus(reserves'[b]) = 0
  <2>1. CASE b # d /\ b # c BY <1>4, <2>1 DEF Even
  <2>2. CASE b # d /\ b = c
    <3>1. reserves'[b] = coll3 /\ coll1 = reserves[c] BY <1>3, <1>4, <2>2
    <3> QED BY <1>5, <1>14, <3>1
  <2>3. CASE b = d /\ c = d
    <3>1. reserves'[b] = [coll3 EXCEPT !.cash = @ + D] /\ coll1 = debt3
      BY <1>3, <1>4, <2>3
    <3>2. Flat(reserves'[b]) /\ Surplus(reserves'[b]) = Surplus(coll3) - D
      BY <1>3, <1>5, <1>14, <3>1, CashSurplus
    <3> QED BY <1>10, <1>14, <3>1, <3>2
  <2>4. CASE b = d /\ c # d
    <3>1. reserves'[b] = [debt3 EXCEPT !.cash = @ + D] BY <1>4, <2>4
    <3>2. Flat(reserves'[b]) /\ Surplus(reserves'[b]) = Surplus(debt3) - D
      BY <1>3, <1>5, <1>9, <3>1, CashSurplus
    <3> QED BY <1>10, <3>2
  <2> QED BY <2>1, <2>2, <2>3, <2>4
<1> QED BY <1>15 DEF Even, Flat, StillRates, Surplus, owedBy

\* What does not touch the reserves, the clock included, leaves them even.
LEMMA UntouchedEven == ASSUME Even, UNCHANGED reserves PROVE Even'
BY DEF Even, Flat, StillRates, Surplus, owedBy

\* Every step of the pool leaves the books even.
LEMMA StepEven ==
    ASSUME InterestFree, PoolInv, SuppliesAddUp, Even, [PoolNext]_poolVars PROVE Even'
<1>1. ASSUME UNCHANGED reserves PROVE Even' BY <1>1, UntouchedEven
<1>2. ASSUME NEW caller \in Users, NEW a \in Assets,
        \/ \E amount \in Amounts, to \in Users :
              Deposit(caller, a, amount, to) \/ TransferAToken(caller, a, amount, to)
        \/ \E request \in Requests, to \in Users : Withdraw(caller, a, request, to)
        \/ \E amount \in Amounts, mode \in InterestRateMode, onBehalfOf \in Users :
              Borrow(caller, a, amount, mode, onBehalfOf)
        \/ \E request \in Requests, mode \in InterestRateMode, onBehalfOf \in Users :
              Repay(caller, a, request, mode, onBehalfOf)
        \/ \E mode \in InterestRateMode : SwapBorrowRateMode(caller, a, mode)
        \/ RebalanceStableBorrowRate(a, caller)
        \/ \E use \in BOOLEAN : SetUserUseReserveAsCollateral(caller, a, use)
        \/ \E mode \in InterestRateMode, to \in Users, amount \in DelegationAmounts :
              ApproveDelegation(caller, a, mode, to, amount)
        \/ \E d \in Assets, user \in Users, amount \in Requests, receiveAToken \in BOOLEAN :
              LiquidationCall(caller, a, d, user, amount, receiveAToken)
      PROVE  Even'
  <2>1. CASE \E amount \in Amounts, to \in Users :
                Deposit(caller, a, amount, to) \/ TransferAToken(caller, a, amount, to)
    BY <2>1, DepositEven, TransferEven
  <2>2. CASE \E request \in Requests, to \in Users : Withdraw(caller, a, request, to)
    BY <2>2, WithdrawEven
  <2>3. CASE \E amount \in Amounts, mode \in InterestRateMode, onBehalfOf \in Users :
                Borrow(caller, a, amount, mode, onBehalfOf)
    BY <2>3, BorrowEven
  <2>4. CASE \E request \in Requests, mode \in InterestRateMode, onBehalfOf \in Users :
                Repay(caller, a, request, mode, onBehalfOf)
    BY <2>4, RepayEven
  <2>5. CASE \/ RebalanceStableBorrowRate(a, caller)
             \/ \E mode \in InterestRateMode : SwapBorrowRateMode(caller, a, mode)
    BY <2>5, RateOperationEven
  <2>6. CASE \E use \in BOOLEAN : SetUserUseReserveAsCollateral(caller, a, use)
    BY <1>1, <2>6 DEF SetUserUseReserveAsCollateral
  <2>7. CASE \E mode \in InterestRateMode, to \in Users, amount \in DelegationAmounts :
                ApproveDelegation(caller, a, mode, to, amount)
    BY <1>1, <2>7 DEF ApproveDelegation
  <2>8. CASE \E d \in Assets, user \in Users, amount \in Requests, receiveAToken \in BOOLEAN :
                LiquidationCall(caller, a, d, user, amount, receiveAToken)
    BY <2>8, LiquidationEven
  <2> QED BY <1>2, <2>1, <2>2, <2>3, <2>4, <2>5, <2>6, <2>7, <2>8, Zenon
<1>3. CASE UserOperation BY <1>2, <1>3, Zenon DEF UserOperation
<1>4. CASE Environment
  BY <1>1, <1>4 DEF Environment, SetPause, SetAssetPrice, AdvanceTime
<1>5. CASE UNCHANGED poolVars BY <1>1, <1>5 DEF poolVars
<1> QED BY <1>3, <1>4, <1>5 DEF PoolNext

\* A new reserve is flat, and nobody has a claim or a debt on it.
LEMMA InitEven == PoolInit => Even
<1> SUFFICES ASSUME PoolInit, NEW a \in Assets
             PROVE  Flat(reserves[a]) /\ Surplus(reserves[a]) = 0
  BY DEF Even
<1>1. reserves[a] = InitReserve BY DEF PoolInit
<1>2. Flat(InitReserve) BY DEF Flat, StillRates, InitReserve, EmptyStableLedger
<1>3. /\ InitReserve.aToken.totalSupply = 0 /\ InitReserve.cash = 0
      /\ owedBy(InitReserve) = [u \in Users |-> 0]
  BY DEF InitReserve, owedBy, EmptyScaledLedger, EmptyStableLedger
<1>4. SumFunction([u \in Users |-> 0]) = 0
  <2> DEFINE nothing == [u \in Users |-> 0]
  <2>1. nothing \in [Users -> Int] /\ \A u \in Users : nothing[u] = 0 OBVIOUS
  <2>. HIDE DEF nothing
  <2>2. SumFunction(nothing) = 0 BY <2>1, UsersFinite, SumZero
  <2> QED BY <2>2 DEF nothing
<1> QED BY <1>1, <1>2, <1>3, <1>4 DEF Surplus

\* The claims and debts the tokens report are then the ones they store.
LEMMA EvenBalances ==
    ASSUME PoolInv, SuppliesAddUp, Even PROVE BooksBalance
<1> SUFFICES ASSUME NEW a \in Assets
             PROVE  claimsOfAll(reserves[a]) = reserves[a].cash + debtOfAll(reserves[a])
  BY DEF BooksBalance
<1> DEFINE r == reserves[a]
<1>1. /\ now \in Nat /\ ReserveOK(r, now) /\ Flat(r) /\ Surplus(r) = 0
      /\ r.aToken.totalSupply \in Nat /\ r.cash \in Nat /\ SumFunction(owedBy(r)) \in Nat
  BY EvenParts, SurplusParts
<1>2. r.aToken.totalSupply = SumFunction(r.aToken.balances)
      /\ r.aToken.balances \in [Users -> Nat]
  BY <1>1, ReserveParts DEF SuppliesAddUp, ScaledLedger
<1>. HIDE DEF r
<1>3. claimsOfAll(r) = r.aToken.totalSupply
  <2>1. r.aToken.balances = [u \in Users |-> aTokenBalance(r, u)] BY <1>1, <1>2, FlatViews
  <2> QED BY <1>2, <2>1 DEF claimsOfAll
<1>4. debtOfAll(r) = SumFunction(owedBy(r))
  <2>1. owedBy(r) = [u \in Users |-> stableDebtOf(r, u) + variableDebtOf(r, u)]
    BY <1>1, FlatViews DEF owedBy
  <2> QED BY <2>1 DEF debtOfAll
<1>5. claimsOfAll(r) = r.cash + debtOfAll(r) BY <1>1, <1>3, <1>4 DEF Surplus
<1> QED BY <1>5 DEF r

\* With a strategy that charges nothing, what depositors can claim stays exactly
\* what the aToken contract holds plus what borrowers owe, however deposits,
\* loans, swaps, transfers and liquidations (of a reserve against itself, too)
\* alternate and time passes: only interest and its rounding unbalance the books.
THEOREM BooksAlwaysBalance == ASSUME InterestFree PROVE PoolSpec => []BooksBalance
<1>1. PoolInit => Even BY InitEven
<1>2. PoolInv /\ SuppliesAddUp /\ Even /\ [PoolNext]_poolVars => Even'
  BY StepEven
<1>3. PoolInv /\ SuppliesAddUp /\ Even => BooksBalance BY EvenBalances
<1> QED BY <1>1, <1>2, <1>3, PoolInvariant, SuppliesAlwaysAddUp, PTL DEF PoolSpec
=============================================================================
