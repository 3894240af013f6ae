-------------------------- MODULE StableDebtToken ---------------------------
(* tokenization/StableDebtToken.sol on its own: the pool mints and burns the   *)
(* debt of several borrowers, at the rates of the moment, while time passes.   *)
(* The pool never mints or burns nothing and never burns more than the balance. *)
EXTENDS StableDebt, FiniteSetsExt

CONSTANTS
    Amounts,     \* amounts borrowed and repaid
    Rates,       \* stable rates the reserve offers
    MaxSupply,   \* bound on the total debt at which the pool still lends
    MaxTime,     \* bound on the clock
    RateRounding \* how far the fixed-point average of two rates may be off

ASSUME StableDebtTokenConstants ==
    /\ Amounts \subseteq Nat \ {0}
    /\ Rates \subseteq Nat
    /\ MaxSupply \in Nat
    /\ MaxTime \in Nat
    /\ RateRounding \in Nat

VARIABLES ledger, now

tokenVars == <<ledger, now>>

TokenTypeOK == ledger \in StableLedger /\ now \in Nat

TokenInit == ledger = EmptyStableLedger /\ now = 0

owed(user) == stableBalanceOf(ledger, user, now)

Mint(user, amount, rate) ==
    /\ stableMintAllowed
    /\ stableTotalSupply(ledger, now) + amount <= MaxSupply
    /\ owed(user) + amount <= MaxSupply
    /\ ledger' = stableMint(ledger, user, amount, rate, now)
    /\ now' = now

Burn(user, amount) ==
    /\ stableBurnAllowed(ledger, user, amount, now)
    /\ ledger' = stableBurn(ledger, user, amount, now)
    /\ now' = now

\* swapBorrowRateMode and rebalanceStableBorrowRate burn the whole balance.
BurnWhole(user) ==
    /\ owed(user) > 0
    /\ Burn(user, owed(user))

Wait ==
    /\ now < MaxTime
    /\ now' = now + 1
    /\ ledger' = ledger

TokenNext ==
    \/ \E user \in Users, amount \in Amounts, rate \in Rates : Mint(user, amount, rate)
    \/ \E user \in Users, amount \in Amounts : Burn(user, amount)
    \/ \E user \in Users : BurnWhole(user)
    \/ Wait

TokenSpec == TokenInit /\ [][TokenNext]_tokenVars

-----------------------------------------------------------------------------

Borrowers == {u \in Users : ledger.balances[u] > 0}

\* The two clocks of the token stay in step: nobody's debt was touched after
\* the supply was, and neither lies in the future.  The interest factors of
\* balanceOf, of the supply and of _mintToTreasury subtract these timestamps.
ClocksAgree == StableClocks(ledger, now)

\* However often a borrower tops up, repays and tops up again, the rate he ends
\* up with is an average of rates he was offered, up to fixed-point rounding.
RatesStayInBand ==
    \A u \in Borrowers :
        /\ ledger.usersStableRate[u] <= Max(Rates) + RateRounding
        /\ ledger.usersStableRate[u] >= Min(Rates) - RateRounding

\* A supply that shows no debt shows no rate either: the next borrower does not
\* inherit an average of debts that are gone.
NoSupplyNoRate == ledger.totalSupply = 0 => ledger.avgStableRate = 0

\* Operations only move the debt of one borrower, by what the pool asked for:
\* accrued interest is neither forgiven nor charged twice when it is added to
\* the principal, and it is never lost while time passes.
InterestIsNeverLost ==
    [][ /\ \A u \in Users : now' = now + 1 => owed(u)' >= owed(u)
        /\ now' = now => \A u, v \in Users : u = v \/ owed(u)' = owed(u) \/ owed(v)' = owed(v)
        /\ now' = now => \A u \in Users : owed(u)' # owed(u) =>
                \/ owed(u)' = 0
                \/ \E amount \in Amounts : owed(u)' \in {owed(u) + amount, owed(u) - amount}
      ]_tokenVars
=============================================================================
