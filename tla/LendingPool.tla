---------------------------- MODULE LendingPool -----------------------------
(* lendingpool/LendingPool.sol with the validations of ValidationLogic.sol and *)
(* the token calls of every operation: the state machine of the protocol.  An  *)
(* action is one transaction; its guard is the conjunction of everything that  *)
(* would revert it.  The oracle moves prices and the clock advances between    *)
(* transactions.                                                               *)
EXTENDS LendingPoolCollateralManager

CONSTANTS
    InitialConfiguration, \* each reserve's configuration at the start
    InitialWallets,       \* underlying owned by each user at the start
    InitialPrices,
    Amounts,              \* amounts users put in their calls
    DelegationAmounts,    \* allowances credit delegators grant
    Prices,               \* values the oracle may report for each asset
    PauseValues,          \* what the emergency admin may set the pause to
    MaxTime,              \* bound on the clock
    Rounding,             \* units a balance is off by once the indexes exceed one ray
    MaxStableLoanPercent,                 \* _maxStableRateBorrowSizePercent, 2500
    REBALANCE_UP_LIQUIDITY_RATE_THRESHOLD, \* 4000
    REBALANCE_UP_USAGE_RATIO_THRESHOLD     \* 0.95 ray

ASSUME PoolConstants ==
    /\ InitialConfiguration \in [Assets -> Configurations]
    /\ Configurations \subseteq ReserveConfigurationMap
    \* configureReserveAsCollateral: collateral is sold at a discount.
    /\ \A c \in Configurations :
          c.liquidationThreshold > 0 => c.liquidationBonus > PERCENTAGE_FACTOR
    /\ InitialWallets \in [Assets -> [Users -> Nat]]
    /\ Prices \in [Assets -> SUBSET (Nat \ {0})]
    /\ InitialPrices \in [Assets -> Nat \ {0}]
    /\ Amounts \subseteq Nat
    /\ DelegationAmounts \subseteq Nat
    /\ PauseValues \subseteq BOOLEAN
    /\ MaxTime \in Nat
    /\ Rounding \in Nat
    /\ MaxStableLoanPercent \in Nat
    /\ REBALANCE_UP_LIQUIDITY_RATE_THRESHOLD \in Nat
    /\ REBALANCE_UP_USAGE_RATIO_THRESHOLD \in Nat

\* What a caller may ask for, with the value that stands for "everything".
Requests == Amounts \cup {MAX_UINT256}

PoolTypeOK ==
    /\ reserves \in [Assets -> ReserveData]
    /\ configuration \in [Assets -> ReserveConfigurationMap]
    /\ usersConfig \in [Users -> UserConfigurationMap]
    /\ allowances \in [Assets -> [InterestRateMode -> [Users -> [Users -> Nat]]]]
    /\ wallets \in [Assets -> [Users -> Nat]]
    /\ prices \in [Assets -> Nat \ {0}]
    /\ paused \in BOOLEAN
    /\ now \in Nat

PoolInit ==
    /\ reserves = [a \in Assets |-> InitReserve]
    /\ configuration = InitialConfiguration
    /\ usersConfig = [u \in Users |-> [borrowing |-> {}, collateral |-> {}]]
    /\ allowances = [a \in Assets |-> [m \in InterestRateMode |->
                        [u \in Users |-> [v \in Users |-> 0]]]]
    /\ wallets = InitialWallets
    /\ prices = InitialPrices
    /\ paused = FALSE
    /\ now = 0

Factor(a) == configuration[a].reserveFactor

\* Stores reserve r, unless one of its 128-bit fields would overflow.
Store(a, r) ==
    /\ FitsUint128(r)
    /\ reserves' = [reserves EXCEPT ![a] = r]

Refreshed(a) == updateState(reserves[a], Factor(a), now)

-----------------------------------------------------------------------------
(* deposit and withdraw.                                                     *)

\* ValidationLogic.validateDeposit and validateWithdraw.
validateDeposit(a, amount) ==
    /\ amount # 0
    /\ configuration[a].active
    /\ ~configuration[a].frozen

validateWithdraw(a, user, amount, userBalance) ==
    /\ amount # 0
    /\ amount <= userBalance
    /\ configuration[a].active
    /\ balanceDecreaseAllowed(a, user, amount)

Deposit(caller, a, amount, onBehalfOf) ==
    LET r1 == Refreshed(a)
        r2 == updateInterestRates(r1, amount, 0, Factor(a), now)
    IN  /\ ~paused
        /\ validateDeposit(a, amount)
        /\ wallets[a][caller] >= amount
        /\ updateStateAllowed(reserves[a], Factor(a), now)
        /\ updateInterestRatesAllowed(r1, amount, 0, Factor(a))
        /\ scaledMintAllowed(amount, r2.liquidityIndex)
        /\ Store(a, [r2 EXCEPT !.aToken = scaledMint(@, onBehalfOf, amount, r2.liquidityIndex),
                               !.cash = @ + amount])
        /\ wallets' = [wallets EXCEPT ![a][caller] = @ - amount]
        /\ usersConfig' = IF r2.aToken.balances[onBehalfOf] = 0
                          THEN setUsingAsCollateral(usersConfig, onBehalfOf, a, TRUE)
                          ELSE usersConfig
        /\ UNCHANGED <<configuration, allowances, prices, paused, now>>

Withdraw(caller, a, request, to) ==
    LET userBalance == aTokenBalance(reserves[a], caller)
        amount == IF request = MAX_UINT256 THEN userBalance ELSE request
        r1 == Refreshed(a)
        r2 == updateInterestRates(r1, 0, amount, Factor(a), now)
    IN  /\ ~paused
        /\ validateWithdraw(a, caller, amount, userBalance)
        /\ amount <= reserves[a].cash
        /\ updateStateAllowed(reserves[a], Factor(a), now)
        /\ updateInterestRatesAllowed(r1, 0, amount, Factor(a))
        /\ scaledBurnAllowed(r2.aToken, caller, amount, r2.liquidityIndex)
        /\ Store(a, [r2 EXCEPT !.aToken = scaledBurn(@, caller, amount, r2.liquidityIndex),
                               !.cash = @ - amount])
        /\ wallets' = [wallets EXCEPT ![a][to] = @ + amount]
        /\ usersConfig' = IF amount = userBalance
                          THEN setUsingAsCollateral(usersConfig, caller, a, FALSE)
                          ELSE usersConfig
        /\ UNCHANGED <<configuration, allowances, prices, paused, now>>

-----------------------------------------------------------------------------
(* borrow, repay and the two rate operations.                                *)

\* Fault: what the user is about to borrow is not counted.
collateralNeededBefore(a, user, amount, ltv) ==
    percentDiv(totalDebtETH(reserves, user, usersConfig[user]), ltv)

\* amountOfCollateralNeededETH.
collateralNeeded(a, user, amount, ltv) ==
    percentDiv(totalDebtETH(reserves, user, usersConfig[user]) + inETH(a, amount), ltv)

\* ValidationLogic.validateBorrow; a zero loan-to-value reverts in percentDiv.
validateBorrow(a, user, amount, mode) ==
    LET uc         == usersConfig[user]
        collateral == totalCollateralETH(reserves, user, uc)
        ltv        == averageLtv(reserves, user, uc, collateral)
    IN  /\ configuration[a].active
        /\ ~configuration[a].frozen
        /\ amount # 0
        /\ configuration[a].borrowingEnabled
        /\ collateral > 0
        /\ healthFactor(reserves, user, uc) > HEALTH_FACTOR_LIQUIDATION_THRESHOLD
        /\ ltv > 0
        /\ collateralNeeded(a, user, amount, ltv) <= collateral
        /\ mode = STABLE =>
             /\ configuration[a].stableRateBorrowingEnabled
             /\ \/ a \notin uc.collateral
                \/ configuration[a].ltv = 0
                \/ amount > aTokenBalance(reserves[a], user)
             /\ amount <= percentMul(reserves[a].cash, MaxStableLoanPercent)

\* The debt token's mint, on behalf of user.
mintDebtAllowed(r, amount, mode) ==
    IF mode = STABLE
    THEN stableMintAllowed
    ELSE scaledMintAllowed(amount, r.variableBorrowIndex)

\* Fault: a stable debt is opened at the variable rate.
mintDebtAtVariableRate(r, user, amount, mode) ==
    IF mode = STABLE
    THEN [r EXCEPT !.stableDebt = stableMint(@, user, amount, r.currentVariableBorrowRate, now)]
    ELSE [r EXCEPT !.variableDebt = scaledMint(@, user, amount, r.variableBorrowIndex)]

mintDebt(r, user, amount, mode) ==
    IF mode = STABLE
    THEN [r EXCEPT !.stableDebt = stableMint(@, user, amount, r.currentStableBorrowRate, now)]
    ELSE [r EXCEPT !.variableDebt = scaledMint(@, user, amount, r.variableBorrowIndex)]

\* Fault: the reserve's supply is tested instead of the user's balance.
isFirstBorrowingOfReserve(r, user, mode) ==
    IF mode = STABLE
    THEN r.stableDebt.totalSupply = 0
    ELSE r.variableDebt.totalSupply = 0

\* mint returns whether the user had no debt of that kind.
isFirstBorrowing(r, user, mode) ==
    IF mode = STABLE
    THEN stableDebtOf(r, user) = 0
    ELSE r.variableDebt.balances[user] = 0

\* Fault: the allowance is checked and not spent.
allowanceUnspent(a, mode, delegator, delegatee, amount) == allowances

\* DebtTokenBase._decreaseBorrowAllowance.
decreaseBorrowAllowance(a, mode, delegator, delegatee, amount) ==
    [allowances EXCEPT ![a][mode][delegator][delegatee] = @ - amount]

\* _executeBorrow with releaseUnderlying; a delegatee spends his allowance.
Borrow(caller, a, amount, mode, onBehalfOf) ==
    LET r1 == Refreshed(a)
        r2 == mintDebt(r1, onBehalfOf, amount, mode)
        r3 == updateInterestRates(r2, 0, amount, Factor(a), now)
        delegated == caller # onBehalfOf
    IN  /\ ~paused
        /\ amount <= reserves[a].cash
        /\ delegated => amount <= allowances[a][mode][onBehalfOf][caller]
        /\ validateBorrow(a, onBehalfOf, amount, mode)
        /\ updateStateAllowed(reserves[a], Factor(a), now)
        /\ mintDebtAllowed(r1, amount, mode)
        /\ updateInterestRatesAllowed(r2, 0, amount, Factor(a))
        /\ Store(a, [r3 EXCEPT !.cash = @ - amount])
        /\ usersConfig' = IF isFirstBorrowing(r1, onBehalfOf, mode)
                          THEN setBorrowing(usersConfig, onBehalfOf, a, TRUE)
                          ELSE usersConfig
        /\ allowances' = IF delegated
                         THEN decreaseBorrowAllowance(a, mode, onBehalfOf, caller, amount)
                         ELSE allowances
        /\ wallets' = [wallets EXCEPT ![a][caller] = @ + amount]
        /\ UNCHANGED <<configuration, prices, paused, now>>

\* The debt token's burn.
repayDebtAllowed(r, user, amount, mode) ==
    IF mode = STABLE
    THEN stableBurnAllowed(r.stableDebt, user, amount, now)
    ELSE scaledBurnAllowed(r.variableDebt, user, amount, r.variableBorrowIndex)

repayDebt(r, user, amount, mode) ==
    IF mode = STABLE
    THEN [r EXCEPT !.stableDebt = stableBurn(@, user, amount, now)]
    ELSE [r EXCEPT !.variableDebt = scaledBurn(@, user, amount, r.variableBorrowIndex)]

\* ValidationLogic.validateRepay: only the debtor may ask to repay everything.
validateRepay(a, caller, onBehalfOf, request, debt) ==
    /\ configuration[a].active
    /\ request > 0
    /\ debt > 0
    /\ request = MAX_UINT256 => caller = onBehalfOf

\* Fault: one of the two debts is repaid, and the flag goes.
eitherRepaid(stableDebt, variableDebt, payback) == payback \in {stableDebt, variableDebt}

nothingLeft(stableDebt, variableDebt, payback) == stableDebt + variableDebt - payback = 0

\* The debts are read before the indexes are updated.
Repay(caller, a, request, mode, onBehalfOf) ==
    LET stableDebt   == stableDebtOf(reserves[a], onBehalfOf)
        variableDebt == variableDebtOf(reserves[a], onBehalfOf)
        debt         == IF mode = STABLE THEN stableDebt ELSE variableDebt
        payback      == lesser(request, debt)
        r1 == Refreshed(a)
        r2 == repayDebt(r1, onBehalfOf, payback, mode)
        r3 == updateInterestRates(r2, payback, 0, Factor(a), now)
    IN  /\ ~paused
        /\ validateRepay(a, caller, onBehalfOf, request, debt)
        /\ wallets[a][caller] >= payback
        /\ updateStateAllowed(reserves[a], Factor(a), now)
        /\ repayDebtAllowed(r1, onBehalfOf, payback, mode)
        /\ updateInterestRatesAllowed(r2, payback, 0, Factor(a))
        /\ Store(a, [r3 EXCEPT !.cash = @ + payback])
        /\ usersConfig' = IF nothingLeft(stableDebt, variableDebt, payback)
                          THEN setBorrowing(usersConfig, onBehalfOf, a, FALSE)
                          ELSE usersConfig
        /\ wallets' = [wallets EXCEPT ![a][caller] = @ - payback]
        /\ UNCHANGED <<configuration, allowances, prices, paused, now>>

\* ValidationLogic.validateSwapRateMode; mode is the one the user leaves.
validateSwapRateMode(a, user, mode) ==
    LET stableDebt   == stableDebtOf(reserves[a], user)
        variableDebt == variableDebtOf(reserves[a], user)
    IN  /\ configuration[a].active
        /\ ~configuration[a].frozen
        /\ mode = STABLE => stableDebt > 0
        /\ mode = VARIABLE_MODE =>
             /\ variableDebt > 0
             /\ configuration[a].stableRateBorrowingEnabled
             /\ \/ a \notin usersConfig[user].collateral
                \/ configuration[a].ltv = 0
                \/ stableDebt + variableDebt > aTokenBalance(reserves[a], user)

otherMode(mode) == IF mode = STABLE THEN VARIABLE_MODE ELSE STABLE

SwapBorrowRateMode(caller, a, mode) ==
    LET debt == IF mode = STABLE
                THEN stableDebtOf(reserves[a], caller)
                ELSE variableDebtOf(reserves[a], caller)
        r1 == Refreshed(a)
        r2 == repayDebt(r1, caller, debt, mode)
        r3 == mintDebt(r2, caller, debt, otherMode(mode))
    IN  /\ ~paused
        /\ validateSwapRateMode(a, caller, mode)
        /\ updateStateAllowed(reserves[a], Factor(a), now)
        /\ repayDebtAllowed(r1, caller, debt, mode)
        /\ mintDebtAllowed(r2, debt, otherMode(mode))
        /\ updateInterestRatesAllowed(r3, 0, 0, Factor(a))
        /\ Store(a, updateInterestRates(r3, 0, 0, Factor(a), now))
        /\ UNCHANGED <<configuration, usersConfig, allowances, wallets, prices, paused, now>>

\* ValidationLogic.validateRebalanceStableBorrowRate.
validateRebalance(a) ==
    LET r == reserves[a]
        totalDebt == wadToRay(stableTotalSupply(r.stableDebt, now)
                                + scaledTotalSupplyOf(r.variableDebt, getNormalizedDebt(r, now)))
    IN  /\ configuration[a].active
        /\ utilizationRate(wadToRay(r.cash), totalDebt) >= REBALANCE_UP_USAGE_RATIO_THRESHOLD
        /\ r.currentLiquidityRate
             <= percentMul(getMaxVariableBorrowRate, REBALANCE_UP_LIQUIDITY_RATE_THRESHOLD)

\* Anybody may rebalance anybody; without stable debt the mint divides by zero.
RebalanceStableBorrowRate(a, user) ==
    LET debt == stableDebtOf(reserves[a], user)
        r1 == Refreshed(a)
        r2 == repayDebt(r1, user, debt, STABLE)
        r3 == mintDebt(r2, user, debt, STABLE)
    IN  /\ ~paused
        /\ validateRebalance(a)
        /\ debt > 0
        /\ updateStateAllowed(reserves[a], Factor(a), now)
        /\ mintDebtAllowed(r2, debt, STABLE)
        /\ updateInterestRatesAllowed(r3, 0, 0, Factor(a))
        /\ Store(a, updateInterestRates(r3, 0, 0, Factor(a), now))
        /\ UNCHANGED <<configuration, usersConfig, allowances, wallets, prices, paused, now>>

-----------------------------------------------------------------------------
(* Collateral flags, aToken transfers and delegation.                        *)

\* ValidationLogic.validateSetUseReserveAsCollateral and validateTransfer.
validateSetUseReserveAsCollateral(a, user, useAsCollateral) ==
    LET balance == aTokenBalance(reserves[a], user)
    IN  /\ balance > 0
        /\ useAsCollateral \/ balanceDecreaseAllowed(a, user, balance)

validateTransfer(rs, from) ==
    healthFactor(rs, from, usersConfig[from]) >= HEALTH_FACTOR_LIQUIDATION_THRESHOLD

SetUserUseReserveAsCollateral(caller, a, useAsCollateral) ==
    /\ ~paused
    /\ validateSetUseReserveAsCollateral(a, caller, useAsCollateral)
    /\ usersConfig' = setUsingAsCollateral(usersConfig, caller, a, useAsCollateral)
    /\ UNCHANGED <<reserves, configuration, allowances, wallets, prices, paused, now>>

\* AToken.transfer: the balances move first, then the pool checks the sender's
\* health with them (finalizeTransfer) and adjusts the two collateral flags.
TransferAToken(from, a, amount, to) ==
    LET r == reserves[a]
        index == getNormalizedIncome(r, now)
        moved == [reserves EXCEPT ![a].aToken = scaledTransfer(@, from, to, amount, index)]
        emptied == from # to /\ aTokenBalance(r, from) = amount
        first == from # to /\ aTokenBalance(r, to) = 0 /\ amount # 0
        flags1 == IF emptied
                  THEN setUsingAsCollateral(usersConfig, from, a, FALSE)
                  ELSE usersConfig
    IN  /\ ~paused
        /\ scaledTransferAllowed(r.aToken, from, amount, index)
        /\ validateTransfer(moved, from)
        /\ from # to => amount <= aTokenBalance(r, from)
        /\ reserves' = moved
        /\ usersConfig' = IF first THEN setUsingAsCollateral(flags1, to, a, TRUE) ELSE flags1
        /\ UNCHANGED <<configuration, allowances, wallets, prices, paused, now>>

\* DebtTokenBase.approveDelegation.
ApproveDelegation(caller, a, mode, delegatee, amount) ==
    /\ allowances' = [allowances EXCEPT ![a][mode][caller][delegatee] = amount]
    /\ UNCHANGED <<reserves, configuration, usersConfig, wallets, prices, paused, now>>

\* setPause, by the configurator for the emergency admin.
SetPause(value) ==
    /\ paused' = value
    /\ UNCHANGED <<reserves, configuration, usersConfig, allowances, wallets, prices, now>>

-----------------------------------------------------------------------------
(* The environment.                                                          *)

SetAssetPrice(a, price) ==
    /\ prices' = [prices EXCEPT ![a] = price]
    /\ UNCHANGED <<reserves, configuration, usersConfig, allowances, wallets, paused, now>>

AdvanceTime ==
    /\ now < MaxTime
    /\ now' = now + 1
    /\ UNCHANGED <<reserves, configuration, usersConfig, allowances, wallets, prices, paused>>

-----------------------------------------------------------------------------

UserOperation ==
    \E caller \in Users, a \in Assets :
        \/ \E amount \in Amounts, to \in Users :
              Deposit(caller, a, amount, to) \/ TransferAToken(caller, a, amount, to)
        \/ \E request \in Requests, to \in Users : Withdraw(caller, a, request, to)
        \/ \E amount \in Amounts, mode \in InterestRateMode, onBehalfOf \in Users :
              Borrow(caller, a, amount, mode, onBehalfOf)
        \/ \E request \in Requests, mode \in InterestRateMode, onBehalfOf \in Users :
              Repay(caller, a, request, mode, onBehalfOf)
        \/ \E mode \in InterestRateMode : SwapBorrowRateMode(caller, a, mode)
        \/ RebalanceStableBorrowRate(a, caller)
        \/ \E use \in BOOLEAN : SetUserUseReserveAsCollateral(caller, a, use)
        \/ \E mode \in InterestRateMode, to \in Users, amount \in DelegationAmounts :
              ApproveDelegation(caller, a, mode, to, amount)
        \/ \E d \in Assets, user \in Users, amount \in Requests, receiveAToken \in BOOLEAN :
              LiquidationCall(caller, a, d, user, amount, receiveAToken)

Environment ==
    \/ \E value \in PauseValues : SetPause(value)
    \/ \E a \in Assets : \E price \in Prices[a] : SetAssetPrice(a, price)
    \/ AdvanceTime

PoolNext == UserOperation \/ Environment

PoolSpec == PoolInit /\ [][PoolNext]_poolVars

-----------------------------------------------------------------------------
(* Safety.                                                                   *)

hasDebt(r, user) == r.stableDebt.balances[user] > 0 \/ r.variableDebt.balances[user] > 0

\* In every reserve the indexes stay above one ray and the clocks in order: an
\* index below one ray would turn balances into dust, a debt stamped ahead of
\* its reserve would make the next accrual underflow.
ReservesInOrder == \A a \in Assets : ReserveInOrder(reserves[a], now)

\* A debt always carries its borrowing flag.  The flag is set only by the first
\* borrowing of a kind and cleared by a repayment computed from balances read
\* before the indexes move; a debt without flag is skipped by
\* calculateUserAccountData: its owner could withdraw all collateral.
NoHiddenDebt ==
    \A u \in Users, a \in Assets :
        hasDebt(reserves[a], u) => a \in usersConfig[u].borrowing

\* The accrual of no reserve ever underflows: _mintToTreasury subtracts the
\* debt of the last update from the debt of now, through two clocks and two
\* rates, and a revert there would block every operation on the reserve.
AccrualNeverReverts ==
    \A a \in Assets : accrualDefined(reserves[a], now)

\* A holder who leaves gets out whole: burning the balance the aToken reports
\* burns exactly his scaled balance, neither dust nor more than he has.
ExitIsExact ==
    \A u \in Users, a \in Assets :
        LET r == reserves[a]
        IN  rayDiv(aTokenBalance(r, u), nextLiquidityIndex(r, now)) = r.aToken.balances[u]

\* "Send the value type(uint256).max in order to repay the whole debt": the
\* balance the variable debt token reports can be burned in one call.
WholeDebtRepayable ==
    \A u \in Users, a \in Assets :
        LET debt == variableDebtOf(reserves[a], u)
        IN  debt > 0 => repayDebtAllowed(Refreshed(a), u, debt, VARIABLE_MODE)

\* The stored supplies of the two scaled tokens are the sums of the balances,
\* through transfers, liquidations and treasury mints alike.
SuppliesAddUp ==
    \A a \in Assets :
        /\ reserves[a].aToken.totalSupply = SumFunction(reserves[a].aToken.balances)
        /\ reserves[a].variableDebt.totalSupply = SumFunction(reserves[a].variableDebt.balances)

debtOfAll(r) == SumFunction([u \in Users |-> stableDebtOf(r, u) + variableDebtOf(r, u)])

claimsOfAll(r) == SumFunction([u \in Users |-> aTokenBalance(r, u)])

\* While no interest accrues, what depositors can claim is exactly what the
\* aToken contract holds plus what borrowers owe.
BooksBalance ==
    \A a \in Assets : claimsOfAll(reserves[a]) = reserves[a].cash + debtOfAll(reserves[a])

\* No operation leaves a healthy account liquidatable: the checks made before
\* an operation (loan-to-value, balance decrease, the transfer hook) bound the
\* account it leaves, whoever calls and whichever account is debited.
HealthPreserved ==
    [][ prices' = prices /\ now' = now =>
            \A u \in Users : isHealthy(u) => isHealthy(u)' ]_poolVars

ratesCurrent(a) ==
    LET r     == reserves[a]
        rates == ratesFor(r, r.cash, Factor(a), now)
    IN  /\ r.currentLiquidityRate = rates.liquidity
        /\ r.currentStableBorrowRate = rates.stable
        /\ r.currentVariableBorrowRate = rates.variable

\* Whenever an operation moves the liquidity or the debt of a reserve, the
\* rates it leaves are those of the new state, although they are computed
\* before the tokens move.  The one exception in the code is a liquidation
\* whose collateral and debt are the same reserve, paid out in the underlying:
\* the second refresh runs before the repaid amount arrives.
RatesFollowed(a) ==
    \/ /\ reserves'[a].cash = reserves[a].cash
       /\ reserves'[a].variableDebt = reserves[a].variableDebt
       /\ reserves'[a].stableDebt = reserves[a].stableDebt
    \/ ratesCurrent(a)'
    \/ \E l, u \in Users, amount \in Requests : LiquidationCall(l, a, a, u, amount, FALSE)

RatesFollowLiquidity == [][\A a \in Assets : RatesFollowed(a)]_poolVars

\* What a user owes in one kind of debt, in units that only operations change:
\* the stable balance within a block, the scaled variable balance; and how many
\* of those units an amount is.
debtUnits(r, user, mode) ==
    IF mode = STABLE THEN stableDebtOf(r, user) ELSE r.variableDebt.balances[user]

unitsOf(r, amount, mode) ==
    IF mode = STABLE THEN amount ELSE rayDiv(amount, r.variableBorrowIndex)

reportedDebt(r, user, mode) ==
    IF mode = STABLE THEN stableDebtOf(r, user) ELSE variableDebtOf(r, user)

\* A debt grows only by its owner's will: he received the amount himself, or an
\* allowance he had granted for that kind of debt shrank by as much, or it took
\* the place of what he owed in the other kind, which is gone.
Consented(a, user, mode) ==
    LET more == debtUnits(reserves[a], user, mode)' - debtUnits(reserves[a], user, mode)
        other == otherMode(mode)
    IN  more > 0 =>
          \/ \E amount \in Amounts :
                /\ more = unitsOf(reserves'[a], amount, mode)
                /\ \/ wallets'[a][user] = wallets[a][user] + amount
                   \/ \E v \in Users \ {user} :
                         /\ allowances[a][mode][user][v] - allowances'[a][mode][user][v] = amount
                         /\ wallets'[a][v] = wallets[a][v] + amount
          \/ /\ more = unitsOf(reserves'[a], reportedDebt(reserves[a], user, other), mode)
             /\ debtUnits(reserves[a], user, other)' = 0

DebtNeedsConsent ==
    [][ now' = now =>
            \A a \in Assets, user \in Users, mode \in InterestRateMode :
                Consented(a, user, mode) ]_poolVars

\* Collateral leaves an unhealthy account only against a repaid debt: what is
\* taken from it is worth no more than the repayment, and one unit of the debt
\* asset that the quotients round away, at the liquidation bonus.
SeizureIsPaidFor ==
    [][ prices' = prices /\ now' = now =>
        \A user \in Users : ~isHealthy(user) =>
            \A c \in usersConfig[user].collateral :
                LET seized == aTokenBalance(reserves[c], user) - aTokenBalance(reserves[c], user)'
                    bonus  == configuration[c].liquidationBonus + LIQUIDATION_RESERVE_PERCENT
                IN  seized > 0 /\ configuration[c].liquidationThreshold > 0 =>
                      \E d \in usersConfig[user].borrowing :
                        LET owed   == stableDebtOf(reserves[d], user)
                                        + variableDebtOf(reserves[d], user)
                            repaid == owed - owed'
                        IN  /\ repaid > 0
                            /\ prices[c] * (seized - Rounding) * TokenUnit[d] * PERCENTAGE_FACTOR
                                 <= prices[d] * (repaid + 1) * TokenUnit[c] * bonus ]_poolVars
=============================================================================
