---------------------------- MODULE MCPositions -----------------------------
(* Positions across reserves, without interest: alice owns two collaterals of  *)
(* different thresholds (celo, whose price moves, and ceur), bob owns the asset *)
(* that is borrowed (cusd).                                                    *)
EXTENDS LendingPool, TLC

CONSTANTS celo, ceur, cusd, alice, bob

Collateral(threshold) ==
    [active |-> TRUE, frozen |-> FALSE, borrowingEnabled |-> FALSE,
     stableRateBorrowingEnabled |-> FALSE,
     ltv |-> threshold - 500, liquidationThreshold |-> threshold,
     liquidationBonus |-> 11000, reserveFactor |-> 1000]

Borrowable == [Collateral(500) EXCEPT !.borrowingEnabled = TRUE,
                                      !.liquidationThreshold = 0]

MCInitialConfiguration ==
    celo :> Collateral(4500) @@ ceur :> Collateral(8000) @@ cusd :> Borrowable
MCConfigurations == {Collateral(4500), Collateral(8000), Borrowable}
MCTokenUnit      == [a \in Assets |-> 1]
MCInitialWallets ==
    celo :> (alice :> 2 @@ bob :> 0) @@ ceur :> (alice :> 1 @@ bob :> 0)
      @@ cusd :> (alice :> 0 @@ bob :> 2)
MCInitialPrices == celo :> 40 @@ ceur :> 10 @@ cusd :> 20
MCPrices        == celo :> {20, 40} @@ ceur :> {} @@ cusd :> {}
=============================================================================
