---------------------------- MODULE MCDelegation ----------------------------
(* Credit delegation and the pause, without interest: alice's celo backs debt  *)
(* in both kinds that bob may draw in her name, up to what she allows him.     *)
EXTENDS BoundedPool

CONSTANTS celo, cusd, alice, bob

MCCollateral ==
    [active |-> TRUE, frozen |-> FALSE, borrowingEnabled |-> FALSE,
     stableRateBorrowingEnabled |-> FALSE,
     ltv |-> 5000, liquidationThreshold |-> 6000, liquidationBonus |-> 11000,
     reserveFactor |-> 0]

MCBorrowable ==
    [MCCollateral EXCEPT !.borrowingEnabled = TRUE, !.stableRateBorrowingEnabled = TRUE,
                         !.ltv = 0, !.liquidationThreshold = 0, !.reserveFactor = 1000]

MCInitialConfiguration == celo :> MCCollateral @@ cusd :> MCBorrowable
MCConfigurations       == {MCCollateral, MCBorrowable}
MCTokenUnit            == [a \in Assets |-> 1]
MCInitialWallets       ==
    celo :> (alice :> 1 @@ bob :> 0) @@ cusd :> (alice :> 0 @@ bob :> 2)
MCInitialPrices        == celo :> 4 @@ cusd :> 1
MCPrices               == [a \in Assets |-> {}]
=============================================================================
