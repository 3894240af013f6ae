------------------------------ MODULE MCModes ------------------------------
(* Both kinds of debt at once, without interest: alice borrows cusd at either  *)
(* rate against celo, whose price moves, swaps and is rebalanced, and bob, who *)
(* owns the cusd, may liquidate her mixed debt.                                *)
EXTENDS LendingPool, TLC

CONSTANTS celo, cusd, alice, bob

MCCollateral ==
    [active |-> TRUE, frozen |-> FALSE, borrowingEnabled |-> FALSE,
     stableRateBorrowingEnabled |-> FALSE,
     ltv |-> 5000, liquidationThreshold |-> 6000, liquidationBonus |-> 11000,
     reserveFactor |-> 0]

MCBorrowable ==
    [MCCollateral EXCEPT !.borrowingEnabled = TRUE, !.stableRateBorrowingEnabled = TRUE,
                         !.ltv = 0, !.liquidationThreshold = 0, !.reserveFactor = 1000]

MCInitialConfiguration == celo :> MCCollateral @@ cusd :> MCBorrowable
MCConfigurations       == {MCCollateral, MCBorrowable}
MCTokenUnit            == [a \in Assets |-> 1]
MCInitialWallets       ==
    celo :> (alice :> 1 @@ bob :> 0) @@ cusd :> (alice :> 0 @@ bob :> 2)
MCInitialPrices        == celo :> 8 @@ cusd :> 2
MCPrices               == celo :> {2} @@ cusd :> {}
=============================================================================
