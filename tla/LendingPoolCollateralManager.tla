-------------------- MODULE LendingPoolCollateralManager --------------------
(* Liquidation: lendingpool/LendingPoolCollateralManager.sol and Moola's       *)
(* LendingPoolCollateralManagerWithReserve.sol, which takes an extra share of  *)
(* the collateral for the treasury.  The pool delegates to whichever of the    *)
(* two the addresses provider names.                                           *)
EXTENDS LendingPoolStorage

CONSTANTS
    CollateralManager,                \* which implementation is installed
    LIQUIDATION_CLOSE_FACTOR_PERCENT, \* 5000: share of the debt one call may repay
    ReservePercent                    \* LIQUIDATION_RESERVE_PERCENT, 200

STANDARD     == "LendingPoolCollateralManager"
WITH_RESERVE == "LendingPoolCollateralManagerWithReserve"

ASSUME CollateralManagerConstants ==
    /\ CollateralManager \in {STANDARD, WITH_RESERVE}
    /\ LIQUIDATION_CLOSE_FACTOR_PERCENT \in Nat
    /\ ReservePercent \in Nat

LIQUIDATION_RESERVE_PERCENT == IF CollateralManager = WITH_RESERVE THEN ReservePercent ELSE 0

lesser(x, y) == IF x < y THEN x ELSE y

\* ValidationLogic.validateLiquidationCall.
validateLiquidationCall(c, d, user) ==
    /\ configuration[c].active
    /\ configuration[d].active
    /\ configuration[c].liquidationThreshold > 0
    /\ c \in usersConfig[user].collateral
    /\ stableDebtOf(reserves[d], user) + variableDebtOf(reserves[d], user) > 0
    /\ ~isHealthy(user)

\* The collateral a repayment of debtToCover buys at the bonus; when the user
\* holds less, all of it and the debt that amount pays for.
availableCollateralToLiquidate(c, d, debtToCover, userCollateralBalance) ==
    LET bonus == configuration[c].liquidationBonus + LIQUIDATION_RESERVE_PERCENT
        max   == percentMul(prices[d] * debtToCover * TokenUnit[c], bonus)
                   \div (prices[c] * TokenUnit[d])
        short == max > userCollateralBalance
        taken == IF short THEN userCollateralBalance ELSE max
    IN  [collateral |-> taken,
         debtNeeded |->
            IF short
            THEN percentDiv((prices[c] * taken * TokenUnit[d]) \div (prices[d] * TokenUnit[c]), bonus)
            ELSE debtToCover,
         forReserve |-> (taken * LIQUIDATION_RESERVE_PERCENT) \div bonus]

\* Fault: the debt repaid is not limited to what the collateral taken pays for.
termsOfWholeOffer(c, d, user, debtToCover) ==
    LET owed  == stableDebtOf(reserves[d], user) + variableDebtOf(reserves[d], user)
        offer == availableCollateralToLiquidate(c, d, debtToCover,
                                                aTokenBalance(reserves[c], user))
        actual == lesser(debtToCover, percentMul(owed, LIQUIDATION_CLOSE_FACTOR_PERCENT))
    IN  [collateral   |-> offer.collateral,
         forReserve   |-> offer.forReserve,
         toLiquidator |-> offer.collateral - offer.forReserve,
         debt         |-> lesser(offer.debtNeeded, actual)]

\* What a call seizes and repays.
liquidationTerms(c, d, user, debtToCover) ==
    LET maxLiquidatable == percentMul(stableDebtOf(reserves[d], user)
                                        + variableDebtOf(reserves[d], user),
                                      LIQUIDATION_CLOSE_FACTOR_PERCENT)
        actual == lesser(debtToCover, maxLiquidatable)
        offer  == availableCollateralToLiquidate(c, d, actual, aTokenBalance(reserves[c], user))
    IN  [collateral   |-> offer.collateral,
         forReserve   |-> offer.forReserve,
         toLiquidator |-> offer.collateral - offer.forReserve,
         debt         |-> lesser(offer.debtNeeded, actual)]

\* Variable debt is repaid first, stable debt with what is left.
variablePart(r, user, debt) == lesser(variableDebtOf(r, user), debt)

burnDebtAllowed(r, user, debt, variable) ==
    /\ variable > 0 \/ variable = debt =>
         scaledBurnAllowed(r.variableDebt, user, variable, r.variableBorrowIndex)
    /\ stableBurnAllowed(r.stableDebt, user, debt - variable, now)

\* Fault: the user's whole variable debt is burned.
burnWholeVariableDebt(r, user, debt, variable) ==
    [r EXCEPT
        !.variableDebt = scaledBurn(@, user, variableDebtOf(r, user), r.variableBorrowIndex),
        !.stableDebt = IF debt > variable
                       THEN stableBurn(@, user, debt - variable, now)
                       ELSE @]

burnDebt(r, user, debt, variable) ==
    [r EXCEPT
        !.variableDebt = IF variable > 0
                         THEN scaledBurn(@, user, variable, r.variableBorrowIndex)
                         ELSE @,
        !.stableDebt = IF debt > variable
                       THEN stableBurn(@, user, debt - variable, now)
                       ELSE @]

\* The liquidator takes aTokens, or the underlying they stand for.
payLiquidatorAllowed(r, rf, user, amount, receiveAToken) ==
    IF receiveAToken
    THEN scaledTransferAllowed(r.aToken, user, amount, getNormalizedIncome(r, now))
    ELSE /\ updateStateAllowed(r, rf, now)
         /\ updateInterestRatesAllowed(r, 0, amount, rf)
         /\ scaledBurnAllowed(updateState(r, rf, now).aToken, user, amount,
                              nextLiquidityIndex(r, now))

payLiquidator(r, rf, user, liquidator, amount, receiveAToken) ==
    IF receiveAToken
    THEN [r EXCEPT !.aToken = scaledTransfer(@, user, liquidator, amount,
                                             getNormalizedIncome(r, now))]
    ELSE LET r1 == updateInterestRates(updateState(r, rf, now), 0, amount, rf, now)
         IN  [r1 EXCEPT !.aToken = scaledBurn(@, user, amount, r1.liquidityIndex),
                        !.cash = @ - amount]

payReserveAllowed(r, user, amount) ==
    amount > 0 => scaledTransferAllowed(r.aToken, user, amount, getNormalizedIncome(r, now))

payReserve(r, user, amount) ==
    IF amount > 0
    THEN [r EXCEPT !.aToken = scaledTransfer(@, user, Treasury, amount,
                                             getNormalizedIncome(r, now))]
    ELSE r

\* A whole seizure clears the user's collateral flag, a first receipt of
\* aTokens sets the liquidator's; the two managers do it in opposite orders.
liquidationFlags(c, user, liquidator, whole, firstReceipt) ==
    LET clear(uc) == IF whole THEN setUsingAsCollateral(uc, user, c, FALSE) ELSE uc
        grant(uc) == IF firstReceipt THEN setUsingAsCollateral(uc, liquidator, c, TRUE) ELSE uc
    IN  IF CollateralManager = STANDARD
        THEN clear(grant(usersConfig))
        ELSE grant(clear(usersConfig))

LiquidationCall(liquidator, c, d, user, debtToCover, receiveAToken) ==
    LET userBalance == aTokenBalance(reserves[c], user)
        terms    == liquidationTerms(c, d, user, debtToCover)
        variable == variablePart(reserves[d], user, terms.debt)
        rfD      == configuration[d].reserveFactor
        rfC      == configuration[c].reserveFactor
        debt1    == updateState(reserves[d], rfD, now)
        debt2    == burnDebt(debt1, user, terms.debt, variable)
        debt3    == updateInterestRates(debt2, terms.debt, 0, rfD, now)
        reserves1 == [reserves EXCEPT ![d] = debt3]
        coll1    == reserves1[c]
        coll2    == payLiquidator(coll1, rfC, user, liquidator, terms.toLiquidator, receiveAToken)
        coll3    == payReserve(coll2, user, terms.forReserve)
        reserves2 == [[reserves1 EXCEPT ![c] = coll3] EXCEPT ![d].cash = @ + terms.debt]
        payout   == IF receiveAToken THEN 0 ELSE terms.toLiquidator
        wallets1 == [wallets EXCEPT ![c][liquidator] = @ + payout]
    IN  /\ ~paused
        /\ validateLiquidationCall(c, d, user)
        /\ ~receiveAToken => terms.toLiquidator <= reserves[c].cash
        /\ updateStateAllowed(reserves[d], rfD, now)
        /\ burnDebtAllowed(debt1, user, terms.debt, variable)
        /\ updateInterestRatesAllowed(debt2, terms.debt, 0, rfD)
        /\ payLiquidatorAllowed(coll1, rfC, user, terms.toLiquidator, receiveAToken)
        /\ payReserveAllowed(coll2, user, terms.forReserve)
        /\ wallets1[d][liquidator] >= terms.debt
        /\ FitsUint128(reserves2[c])
        /\ FitsUint128(reserves2[d])
        /\ reserves' = reserves2
        /\ usersConfig' = liquidationFlags(c, user, liquidator,
                                           terms.collateral = userBalance,
                                           receiveAToken /\ aTokenBalance(coll1, liquidator) = 0)
        /\ wallets' = [wallets1 EXCEPT ![d][liquidator] = @ - terms.debt]
        /\ UNCHANGED <<configuration, allowances, prices, paused, now>>
=============================================================================
