----------------------------- MODULE MCInterest -----------------------------
(* Interest over time: alice borrows cusd at both rates against celo, which    *)
(* has other decimals; bob provides the cusd; the treasury takes its share.    *)
EXTENDS BoundedPool

CONSTANTS celo, cusd, alice, bob

MCCollateral ==
    [active |-> TRUE, frozen |-> FALSE, borrowingEnabled |-> FALSE,
     stableRateBorrowingEnabled |-> FALSE,
     ltv |-> 5000, liquidationThreshold |-> 6000, liquidationBonus |-> 11000,
     reserveFactor |-> 0]

MCBorrowable ==
    [MCCollateral EXCEPT !.borrowingEnabled = TRUE, !.stableRateBorrowingEnabled = TRUE,
                         !.ltv = 0, !.liquidationThreshold = 0, !.reserveFactor = 2000]

\* A reserve whose whole interest goes to the treasury: the highest factor the
\* rate strategy accepts.
MCAllToTreasury == [MCBorrowable EXCEPT !.reserveFactor = PERCENTAGE_FACTOR]

MCFullFactorConfiguration == celo :> MCCollateral @@ cusd :> MCAllToTreasury
MCInitialConfiguration == celo :> MCCollateral @@ cusd :> MCBorrowable
MCConfigurations       == {MCCollateral, MCBorrowable, MCAllToTreasury}
MCTokenUnit            == celo :> 10 @@ cusd :> 1
MCInitialWallets       ==
    celo :> (alice :> 10 @@ bob :> 0) @@ cusd :> (alice :> 0 @@ bob :> 16)
MCInitialPrices        == celo :> 20 @@ cusd :> 1
MCPrices               == [a \in Assets |-> {}]
=============================================================================
