---------------------------- MODULE ExpectedState ----------------------------
(* The second implementation of the protocol's arithmetic: the expected states *)
(* that test-suites/test-aave/helpers/utils/calculations.ts computes, in       *)
(* BigNumber arithmetic (utils/math.ts), from what a test read before it sent  *)
(* a transaction.  Accrual factors stay unrounded there until a balance is     *)
(* multiplied by them: a factor is kept here as its numerator over             *)
(* SECONDS_PER_YEAR.  before and user are the records read before the          *)
(* transaction, t the time of its block, later the time of the read after it.  *)
EXTENDS InterestRateStrategy

CONSTANTS
    STABLE,       \* RateMode.Stable; any other mode is the variable one
    MAX_UINT256   \* MAX_UINT_AMOUNT: "everything"

\* decimalPlaces(0, ROUND_DOWN): towards zero, whatever the signs.
towardsZero(n, d) ==
    LET size(x) == IF x < 0 THEN -x ELSE x
        q == size(n) \div size(d)
    IN  IF (n < 0) = (d < 0) THEN q ELSE -q

bnRayMul(a, b)     == towardsZero(RAY \div 2 + a * b, RAY)
bnRayDiv(a, b)     == towardsZero(towardsZero(b, 2) + a * RAY, b)
bnPercentMul(a, b) == towardsZero(PERCENTAGE_FACTOR \div 2 + a * b, PERCENTAGE_FACTOR)

-----------------------------------------------------------------------------
(* Accrual.                                                                  *)

calcLinearInterest(rate, later, since) == rate * (later - since) + RAY * SECONDS_PER_YEAR

calcCompoundedInterest(rate, later, since) ==
    LET exp == later - since
        expMinusTwo == IF exp > 2 THEN exp - 2 ELSE 0
        half == RAY \div 2
        basePowerTwo ==
            towardsZero(half * SECONDS_PER_YEAR * SECONDS_PER_YEAR + rate * rate,
                        RAY * SECONDS_PER_YEAR * SECONDS_PER_YEAR)
        basePowerThree ==
            towardsZero(half * SECONDS_PER_YEAR + basePowerTwo * rate, RAY * SECONDS_PER_YEAR)
        secondTerm == (exp * (exp - 1) * basePowerTwo) \div 2
        thirdTerm  == (exp * (exp - 1) * expMinusTwo * basePowerThree) \div 6
    IN  IF exp = 0
        THEN RAY * SECONDS_PER_YEAR
        ELSE (RAY + secondTerm + thirdTerm) * SECONDS_PER_YEAR + rate * exp

\* rayMul of an unrounded factor.
accrued(amount, factor) ==
    towardsZero((RAY \div 2) * SECONDS_PER_YEAR + factor * amount, RAY * SECONDS_PER_YEAR)

calcExpectedReserveNormalizedIncome(r, later) ==
    IF r.liquidityRate = 0
    THEN r.liquidityIndex
    ELSE accrued(r.liquidityIndex,
                 calcLinearInterest(r.liquidityRate, later, r.lastUpdateTimestamp))

calcExpectedReserveNormalizedDebt(rate, index, since, later) ==
    IF rate = 0 THEN index ELSE accrued(index, calcCompoundedInterest(rate, later, since))

calcExpectedLiquidityIndex(r, t) ==
    IF r.utilizationRate = 0
    THEN r.liquidityIndex
    ELSE accrued(r.liquidityIndex, calcLinearInterest(r.liquidityRate, t, r.lastUpdateTimestamp))

calcExpectedVariableBorrowIndex(r, t) ==
    IF r.totalVariableDebt = 0
    THEN r.variableBorrowIndex
    ELSE accrued(r.variableBorrowIndex,
                 calcCompoundedInterest(r.variableBorrowRate, t, r.lastUpdateTimestamp))

calcExpectedTotalStableDebt(principal, rate, since, t) ==
    accrued(principal, calcCompoundedInterest(rate, t, since))

calcExpectedTotalVariableDebt(r, index) == bnRayMul(r.scaledVariableDebt, index)

calcExpectedATokenBalance(r, user, later) ==
    bnRayMul(user.scaledATokenBalance, calcExpectedReserveNormalizedIncome(r, later))

calcExpectedVariableDebtTokenBalance(r, user, later) ==
    bnRayMul(user.scaledVariableDebt,
             calcExpectedReserveNormalizedDebt(r.variableBorrowRate, r.variableBorrowIndex,
                                               r.lastUpdateTimestamp, later))

calcExpectedStableDebtTokenBalance(principal, rate, since, later) ==
    IF rate = 0 \/ later = since \/ since = 0
    THEN principal
    ELSE accrued(principal, calcCompoundedInterest(rate, later, since))

variableDebtAt(before, user, t) == calcExpectedVariableDebtTokenBalance(before, user, t)

stableDebtAt(user, t) ==
    calcExpectedStableDebtTokenBalance(user.principalStableDebt, user.stableBorrowRate,
                                       user.stableRateLastUpdated, t)

totalStableDebtAt(before, t) ==
    calcExpectedTotalStableDebt(before.principalStableDebt, before.averageStableBorrowRate,
                                before.totalStableDebtLastUpdated, t)

calcExpectedScaledATokenBalance(user, index, added, taken) ==
    user.scaledATokenBalance + bnRayDiv(added, index) - bnRayDiv(taken, index)

-----------------------------------------------------------------------------
(* Rates.                                                                    *)

calcExpectedUtilizationRate(stableDebt, variableDebt, liquidity) ==
    IF stableDebt = 0 /\ variableDebt = 0 THEN 0 ELSE bnRayDiv(stableDebt + variableDebt, liquidity)

calcExpectedOverallBorrowRate(stableDebt, variableDebt, variableRate, averageStableRate) ==
    IF stableDebt + variableDebt = 0
    THEN 0
    ELSE bnRayDiv(bnRayMul(wadToRay(variableDebt), variableRate)
                    + bnRayMul(wadToRay(stableDebt), averageStableRate),
                  wadToRay(stableDebt + variableDebt))

\* The slope up to the optimal utilisation rounds otherwise than the contract.
calcExpectedInterestRates(utilization, stableDebt, variableDebt, averageStableRate, factor) ==
    LET excess == utilization > OPTIMAL_UTILIZATION_RATE
        ratio  == IF excess
                  THEN bnRayDiv(utilization - OPTIMAL_UTILIZATION_RATE, EXCESS_UTILIZATION_RATE)
                  ELSE bnRayDiv(utilization, OPTIMAL_UTILIZATION_RATE)
        sloped(base, slope1, slope2) ==
            IF excess THEN base + slope1 + bnRayMul(slope2, ratio)
                      ELSE base + bnRayMul(slope1, ratio)
        variable == sloped(baseVariableBorrowRate, variableRateSlope1, variableRateSlope2)
    IN  [stable    |-> sloped(marketBorrowRate, stableRateSlope1, stableRateSlope2),
         variable  |-> variable,
         liquidity |->
            bnPercentMul(bnRayMul(calcExpectedOverallBorrowRate(stableDebt, variableDebt,
                                                                variable, averageStableRate),
                                  utilization),
                         PERCENTAGE_FACTOR - factor)]

calcExpectedAverageStableBorrowRate(rateBefore, debtBefore, changed, rate) ==
    IF debtBefore + changed = 0
    THEN 0
    ELSE towardsZero(rateBefore * debtBefore + rate * changed, debtBefore + changed)

\* Only the changed amount is scaled to rays.
calcExpectedAverageStableBorrowRateRebalance(rateBefore, debtBefore, changed, rate) ==
    LET total == debtBefore + wadToRay(changed)
    IN  IF total = 0
        THEN 0
        ELSE bnRayDiv(bnRayMul(rateBefore, debtBefore) + bnRayMul(rate, wadToRay(changed)), total)

\* An unrounded quotient in the source; every reader of it rounds down.
calcExpectedUserStableRate(balance, rate, amount, newRate) ==
    towardsZero(balance * rate + amount * newRate, balance + amount)

-----------------------------------------------------------------------------
(* Reserves.                                                                 *)

\* Both indexes at the time of the block.
indexesAt(before, t) ==
    [before EXCEPT !.liquidityIndex = calcExpectedLiquidityIndex(before, t),
                   !.variableBorrowIndex = calcExpectedVariableBorrowIndex(before, t),
                   !.lastUpdateTimestamp = t]

\* Utilisation and rates of a reserve with the given debts and liquidity.
withRates(r) ==
    LET utilization == calcExpectedUtilizationRate(r.totalStableDebt, r.totalVariableDebt,
                                                   r.totalLiquidity)
        rates == calcExpectedInterestRates(utilization, r.totalStableDebt, r.totalVariableDebt,
                                           r.averageStableBorrowRate, r.reserveFactor)
    IN  [r EXCEPT !.utilizationRate = utilization,
                  !.liquidityRate = rates.liquidity,
                  !.stableBorrowRate = rates.stable,
                  !.variableBorrowRate = rates.variable]

liquidityOf(r) == r.availableLiquidity + r.totalVariableDebt + r.totalStableDebt

withLiquidity(r) == [r EXCEPT !.totalLiquidity = liquidityOf(r)]

calcExpectedReserveDataAfterDeposit(amount, before, t) ==
    LET r == indexesAt(before, t)
    IN  withRates([r EXCEPT
            !.totalLiquidity = @ + amount,
            !.availableLiquidity = @ + amount,
            !.totalStableDebt = totalStableDebtAt(before, t),
            !.totalVariableDebt = calcExpectedTotalVariableDebt(before, r.variableBorrowIndex)])

calcExpectedReserveDataAfterWithdraw(request, before, user, t) ==
    LET amount == IF request = MAX_UINT256 THEN calcExpectedATokenBalance(before, user, t)
                                           ELSE request
        r == indexesAt(before, t)
    IN  withRates(withLiquidity([r EXCEPT
            !.availableLiquidity = @ - amount,
            !.totalStableDebt = totalStableDebtAt(before, t),
            !.totalVariableDebt = calcExpectedTotalVariableDebt(before, r.variableBorrowIndex)]))

afterStableBorrow(r, amount, rate, debt) ==
    [r EXCEPT
        !.availableLiquidity = @ - amount,
        !.principalStableDebt = debt + amount,
        !.totalStableDebt = debt + amount,
        !.averageStableBorrowRate = calcExpectedAverageStableBorrowRate(@, debt, amount, rate),
        !.totalStableDebtLastUpdated = r.lastUpdateTimestamp,
        !.totalVariableDebt = calcExpectedTotalVariableDebt(r, r.variableBorrowIndex)]

afterVariableBorrow(r, amount, scaled) ==
    [r EXCEPT
        !.availableLiquidity = @ - amount,
        !.totalStableDebt =
            calcExpectedStableDebtTokenBalance(r.principalStableDebt, r.averageStableBorrowRate,
                                               r.totalStableDebtLastUpdated,
                                               r.lastUpdateTimestamp),
        !.scaledVariableDebt = scaled,
        !.totalVariableDebt = bnRayMul(scaled, r.variableBorrowIndex)]

withUtilization(r) ==
    [r EXCEPT !.utilizationRate =
        calcExpectedUtilizationRate(r.totalStableDebt, r.totalVariableDebt, r.totalLiquidity)]

\* The debts of a reserve some time after the transaction that left it.
readLater(r, later) ==
    withUtilization(withLiquidity([r EXCEPT
        !.totalStableDebt = totalStableDebtAt(r, later),
        !.totalVariableDebt =
            calcExpectedTotalVariableDebt(r,
                calcExpectedReserveNormalizedDebt(r.variableBorrowRate, r.variableBorrowIndex,
                                                  r.lastUpdateTimestamp, later))]))

borrowFrom(r, amount, mode, rate) ==
    IF mode = STABLE
    THEN afterStableBorrow(r, amount, rate, totalStableDebtAt(r, r.lastUpdateTimestamp))
    ELSE afterVariableBorrow(r, amount,
                             r.scaledVariableDebt + bnRayDiv(amount, r.variableBorrowIndex))

\* The rates are those of the transaction, the debts those of the later read.
calcExpectedReserveDataAfterBorrow(amount, mode, before, t, later) ==
    readLater(withRates(withLiquidity(
                  borrowFrom(indexesAt(before, t), amount, mode, before.stableBorrowRate))),
              later)

\* What a repayment at the stable rate leaves; rounding leftovers are erased.
afterStableRepayment(r, before, user, amount, t) ==
    LET debt == totalStableDebtAt(before, t)
        left == debt - amount
        rate == calcExpectedAverageStableBorrowRate(before.averageStableBorrowRate, debt,
                                                    -amount, user.stableBorrowRate)
        erased == left < 0 \/ rate < 0
    IN  [r EXCEPT !.principalStableDebt = IF erased THEN 0 ELSE left,
                  !.totalStableDebt = IF erased THEN 0 ELSE left,
                  !.averageStableBorrowRate = IF erased THEN 0 ELSE rate,
                  !.totalVariableDebt = calcExpectedTotalVariableDebt(r, r.variableBorrowIndex)]

amountRepaid(request, mode, before, user, t) ==
    IF request # MAX_UINT256 THEN request
    ELSE IF mode = STABLE THEN stableDebtAt(user, t) ELSE variableDebtAt(before, user, t)

calcExpectedReserveDataAfterRepay(request, mode, before, user, t) ==
    LET amount == amountRepaid(request, mode, before, user, t)
        r == indexesAt(before, t)
        scaled == r.scaledVariableDebt - bnRayDiv(amount, r.variableBorrowIndex)
        repaid == IF mode = STABLE
                  THEN afterStableRepayment(r, before, user, amount, t)
                  ELSE [r EXCEPT !.scaledVariableDebt = scaled,
                                 !.totalVariableDebt = bnRayMul(scaled, r.variableBorrowIndex)]
    IN  withRates(withLiquidity([repaid EXCEPT !.availableLiquidity = @ + amount]))

calcExpectedReserveDataAfterSwapRateMode(before, user, mode, t) ==
    LET r == indexesAt(before, t)
        debt == IF mode = STABLE THEN stableDebtAt(user, t) ELSE variableDebtAt(before, user, t)
        until == totalStableDebtAt(before, t)
        moved == IF mode = STABLE THEN -debt ELSE debt
        scaled == r.scaledVariableDebt
                    + (IF mode = STABLE THEN 1 ELSE -1) * bnRayDiv(debt, r.variableBorrowIndex)
    IN  withRates(withLiquidity([r EXCEPT
            !.scaledVariableDebt = scaled,
            !.totalVariableDebt = bnRayMul(scaled, r.variableBorrowIndex),
            !.principalStableDebt = until + moved,
            !.totalStableDebt = until + moved,
            !.averageStableBorrowRate =
                IF mode = STABLE
                THEN calcExpectedAverageStableBorrowRate(@, until, -debt, user.stableBorrowRate)
                ELSE calcExpectedAverageStableBorrowRate(@, before.totalStableDebt, debt,
                                                         before.stableBorrowRate)]))

calcExpectedReserveDataAfterStableRateRebalance(before, user, t) ==
    LET r == indexesAt(before, t)
        debt == stableDebtAt(user, t)
        total == totalStableDebtAt(before, t)
        removed == calcExpectedAverageStableBorrowRateRebalance(
                        before.averageStableBorrowRate, total, -debt, user.stableBorrowRate)
    IN  withRates(withLiquidity([r EXCEPT
            !.principalStableDebt = total,
            !.totalStableDebt = total,
            !.totalVariableDebt = calcExpectedTotalVariableDebt(r, r.variableBorrowIndex),
            !.averageStableBorrowRate =
                calcExpectedAverageStableBorrowRateRebalance(removed, total - debt, debt,
                                                             before.stableBorrowRate)]))

-----------------------------------------------------------------------------
(* Users.                                                                    *)

\* The principal is overwritten with the variable debt.
calcExpectedUserDataAfterDeposit(amount, before, after, user, t) ==
    [user EXCEPT
        !.currentStableDebt = stableDebtAt(user, t),
        !.currentVariableDebt = variableDebtAt(before, user, t),
        !.principalStableDebt = variableDebtAt(before, user, t),
        !.liquidityRate = after.liquidityRate,
        !.scaledATokenBalance = calcExpectedScaledATokenBalance(user, after.liquidityIndex,
                                                                amount, 0),
        !.currentATokenBalance = calcExpectedATokenBalance(before, user, t) + amount,
        !.usageAsCollateralEnabled = @ \/ user.currentATokenBalance = 0,
        !.walletBalance = @ - amount]

calcExpectedUserDataAfterWithdraw(request, before, after, user, t) ==
    LET balance == calcExpectedATokenBalance(before, user, t)
        amount  == IF request = MAX_UINT256 THEN balance ELSE request
    IN  [user EXCEPT
            !.scaledATokenBalance = calcExpectedScaledATokenBalance(user, after.liquidityIndex,
                                                                    0, amount),
            !.currentATokenBalance = balance - amount,
            !.currentStableDebt = stableDebtAt(user, t),
            !.currentVariableDebt = variableDebtAt(before, user, t),
            !.liquidityRate = after.liquidityRate,
            !.usageAsCollateralEnabled =
                user.currentATokenBalance = 0 \/ (@ /\ balance # amount),
            !.walletBalance = @ + amount]

\* A variable borrowing starts from the scaled debt of the whole reserve.
calcExpectedUserDataAfterBorrow(amount, mode, before, after, user, t, later) ==
    LET stableDebt == stableDebtAt(user, t)
        borrower ==
            IF mode = STABLE
            THEN [user EXCEPT
                    !.principalStableDebt = stableDebt + amount,
                    !.stableRateLastUpdated = t,
                    !.stableBorrowRate = calcExpectedUserStableRate(stableDebt, @, amount,
                                                                    before.stableBorrowRate)]
            ELSE [user EXCEPT
                    !.scaledVariableDebt =
                        before.scaledVariableDebt + bnRayDiv(amount, after.variableBorrowIndex)]
    IN  [borrower EXCEPT
            !.currentStableDebt = stableDebtAt(borrower, later),
            !.currentVariableDebt = variableDebtAt(after, borrower, later),
            !.liquidityRate = after.liquidityRate,
            !.currentATokenBalance = calcExpectedATokenBalance(after, user, later),
            !.walletBalance = @ + amount]

\* After a variable repayment the two stable debts are exchanged.
calcExpectedUserDataAfterRepay(request, mode, before, after, user, own, t, later) ==
    LET stableDebt   == stableDebtAt(user, later)
        variableDebt == variableDebtAt(before, user, later)
        amount == amountRepaid(request, mode, before, user, later)
        left   == stableDebt - amount
        scaled == user.scaledVariableDebt - bnRayDiv(amount, after.variableBorrowIndex)
        debtor ==
            IF mode = STABLE
            THEN [user EXCEPT !.currentVariableDebt = variableDebt,
                              !.principalStableDebt = left,
                              !.currentStableDebt = left,
                              !.stableBorrowRate = IF left = 0 THEN 0 ELSE @,
                              !.stableRateLastUpdated = IF left = 0 THEN 0 ELSE t]
            ELSE [user EXCEPT !.currentStableDebt = user.principalStableDebt,
                              !.principalStableDebt = stableDebt,
                              !.scaledVariableDebt = scaled,
                              !.currentVariableDebt = bnRayMul(scaled, after.variableBorrowIndex)]
    IN  [debtor EXCEPT
            !.liquidityRate = after.liquidityRate,
            !.currentATokenBalance = calcExpectedATokenBalance(before, user, t),
            !.walletBalance = IF own THEN @ - amount ELSE @]

calcExpectedUserDataAfterSetUseAsCollateral(use, user) ==
    [user EXCEPT !.usageAsCollateralEnabled = use]

calcExpectedUserDataAfterSwapRateMode(before, after, user, mode, t) ==
    LET stableDebt   == stableDebtAt(user, t)
        variableDebt == variableDebtAt(before, user, t)
        scaled == user.scaledVariableDebt + bnRayDiv(stableDebt, after.variableBorrowIndex)
        swapped ==
            IF mode = STABLE
            THEN [user EXCEPT
                    !.currentStableDebt = 0,
                    !.principalStableDebt = 0,
                    !.stableBorrowRate = 0,
                    !.stableRateLastUpdated = 0,
                    !.scaledVariableDebt = scaled,
                    !.currentVariableDebt = bnRayMul(scaled, after.variableBorrowIndex)]
            ELSE [user EXCEPT
                    !.principalStableDebt = user.currentStableDebt + variableDebt,
                    !.currentStableDebt = user.currentStableDebt + variableDebt,
                    !.stableBorrowRate = calcExpectedUserStableRate(stableDebt, @, variableDebt,
                                                                    before.stableBorrowRate),
                    !.stableRateLastUpdated = t,
                    !.scaledVariableDebt = 0,
                    !.currentVariableDebt = 0]
    IN  [swapped EXCEPT
            !.currentATokenBalance = calcExpectedATokenBalance(before, user, t),
            !.liquidityRate = after.liquidityRate]

\* The user's rate is taken to be the new average of the reserve.
calcExpectedUserDataAfterStableRateRebalance(before, after, user, t) ==
    [user EXCEPT
        !.principalStableDebt = stableDebtAt(user, t),
        !.currentStableDebt = stableDebtAt(user, t),
        !.currentVariableDebt = variableDebtAt(before, user, t),
        !.stableRateLastUpdated = t,
        !.stableBorrowRate = after.averageStableBorrowRate,
        !.liquidityRate = after.liquidityRate,
        !.currentATokenBalance = calcExpectedATokenBalance(before, user, t)]
=============================================================================
