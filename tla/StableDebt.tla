----------------------------- MODULE StableDebt -----------------------------
(* The ledger of tokenization/StableDebtToken.sol: every borrower has a       *)
(* principal that accrues at his own rate since his own last operation, while *)
(* the total supply accrues separately, at the average rate, since the last   *)
(* operation of anybody.  An operator returns the ledger after a call; the    *)
(* conditions under which the call reverts are operators of their own.        *)
EXTENDS ScaledToken

CONSTANT STABLE_BORROWING_DEPRECATED  \* TRUE once DisabledStableDebtToken is installed

ASSUME StableDebtConstants == STABLE_BORROWING_DEPRECATED \in BOOLEAN

StableLedger ==
    [balances: [Users -> Nat],          \* _balances: principals
     usersStableRate: [Users -> Nat],   \* _usersStableRate
     timestamps: [Users -> Nat],        \* _timestamps
     totalSupply: Nat,                  \* _totalSupply
     avgStableRate: Nat,                \* _avgStableRate
     totalSupplyTimestamp: Nat]         \* _totalSupplyTimestamp

EmptyStableLedger ==
    [balances |-> [u \in Users |-> 0],
     usersStableRate |-> [u \in Users |-> 0],
     timestamps |-> [u \in Users |-> 0],
     totalSupply |-> 0, avgStableRate |-> 0, totalSupplyTimestamp |-> 0]

\* The clocks of a stable ledger at time t: no borrower is ahead of the supply,
\* the supply is not ahead of t.
StableClocks(l, t) ==
    /\ l.totalSupplyTimestamp <= t
    /\ \A u \in Users : l.timestamps[u] <= l.totalSupplyTimestamp

\* Fault: a borrower's interest accrues at the average rate.
balanceAtAverageRate(l, u, t) ==
    IF l.balances[u] = 0
    THEN 0
    ELSE rayMul(l.balances[u],
                calculateCompoundedInterest(l.avgStableRate, l.timestamps[u], t))

\* balanceOf: principal and the interest accrued on it up to time t.
stableBalanceOf(l, u, t) ==
    IF l.balances[u] = 0
    THEN 0
    ELSE rayMul(l.balances[u],
                calculateCompoundedInterest(l.usersStableRate[u], l.timestamps[u], t))

\* totalSupply / _calcTotalSupply at the average rate.
stableTotalSupply(l, t) ==
    IF l.totalSupply = 0
    THEN 0
    ELSE rayMul(l.totalSupply,
                calculateCompoundedInterest(l.avgStableRate, l.totalSupplyTimestamp, t))

stableMintAllowed == ~STABLE_BORROWING_DEPRECATED

\* Fault: the old rate is weighted by the whole new balance.
mintWithHeavyRate(l, user, amount, rate, t) ==
    LET balance     == stableBalanceOf(l, user, t) + amount
        supply      == stableTotalSupply(l, t) + amount
        amountInRay == wadToRay(amount)
        weighted(old, total) ==
            rayDiv(rayMul(old, wadToRay(total)) + rayMul(amountInRay, rate), wadToRay(total))
    IN  [l EXCEPT
            !.balances[user] = balance,
            !.usersStableRate[user] = weighted(@, balance),
            !.timestamps[user] = t,
            !.totalSupply = supply,
            !.avgStableRate = weighted(@, supply),
            !.totalSupplyTimestamp = t]

\* mint: the interest accrued so far is added to the principal together with
\* the new amount, and both the user's and the average rate are re-weighted.
stableMint(l, user, amount, rate, t) ==
    LET balance        == stableBalanceOf(l, user, t)
        previousSupply == stableTotalSupply(l, t)
        nextSupply     == previousSupply + amount
        amountInRay    == wadToRay(amount)
    IN  [l EXCEPT
            !.balances[user] = balance + amount,
            !.usersStableRate[user] =
                rayDiv(rayMul(@, wadToRay(balance)) + rayMul(amountInRay, rate),
                       wadToRay(balance + amount)),
            !.timestamps[user] = t,
            !.totalSupply = nextSupply,
            !.avgStableRate =
                rayDiv(rayMul(@, wadToRay(previousSupply)) + rayMul(rate, amountInRay),
                       wadToRay(nextSupply)),
            !.totalSupplyTimestamp = t]

\* Fault: no check that the amount is covered.
burnUnchecked(l, user, amount, t) == TRUE

\* _burn reverts with SDT_BURN_EXCEEDS_BALANCE above the accrued balance.
stableBurnAllowed(l, user, amount, t) == amount <= stableBalanceOf(l, user, t)

\* Fault: the average rate survives a supply that is reset.
supplyResetWithoutRate(l, user, amount, t) ==
    LET previousSupply == stableTotalSupply(l, t)
        nextSupply     == previousSupply - amount
        firstTerm      == rayMul(l.avgStableRate, wadToRay(previousSupply))
        secondTerm     == rayMul(l.usersStableRate[user], wadToRay(amount))
    IN  IF previousSupply <= amount \/ secondTerm >= firstTerm
        THEN [totalSupply |-> 0, avgStableRate |-> l.avgStableRate]
        ELSE [totalSupply |-> nextSupply,
              avgStableRate |-> rayDiv(firstTerm - secondTerm, wadToRay(nextSupply))]

\* The supply and the average rate a burn leaves.  Both are reset when the
\* separately accrued total cannot cover what the borrower repays.
supplyAfterBurn(l, user, amount, t) ==
    LET previousSupply == stableTotalSupply(l, t)
        nextSupply     == previousSupply - amount
        firstTerm      == rayMul(l.avgStableRate, wadToRay(previousSupply))
        secondTerm     == rayMul(l.usersStableRate[user], wadToRay(amount))
    IN  IF previousSupply <= amount \/ secondTerm >= firstTerm
        THEN [totalSupply |-> 0, avgStableRate |-> 0]
        ELSE [totalSupply |-> nextSupply,
              avgStableRate |-> rayDiv(firstTerm - secondTerm, wadToRay(nextSupply))]

\* Fault: the burn leaves the clock of the supply where it was.
burnWithoutClock(l, user, amount, t) ==
    LET balance == stableBalanceOf(l, user, t)
        supply  == supplyAfterBurn(l, user, amount, t)
        whole   == amount = balance
    IN  [l EXCEPT
            !.balances[user] = balance - amount,
            !.usersStableRate[user] = IF whole THEN 0 ELSE @,
            !.timestamps[user] = IF whole THEN 0 ELSE t,
            !.totalSupply = supply.totalSupply,
            !.avgStableRate = supply.avgStableRate]

\* burn: interest is capitalised (the branch that mints the excess of the
\* increase over the amount and the branch that burns the rest come to the same
\* principal); a full repayment clears the user's rate and timestamp.
stableBurn(l, user, amount, t) ==
    LET balance == stableBalanceOf(l, user, t)
        supply  == supplyAfterBurn(l, user, amount, t)
        whole   == amount = balance
    IN  [l EXCEPT
            !.balances[user] = balance - amount,
            !.usersStableRate[user] = IF whole THEN 0 ELSE @,
            !.timestamps[user] = IF whole THEN 0 ELSE t,
            !.totalSupply = supply.totalSupply,
            !.avgStableRate = supply.avgStableRate,
            !.totalSupplyTimestamp = t]
=============================================================================
