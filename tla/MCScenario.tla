----------------------------- MODULE MCScenario -----------------------------
(* Stories over two reserves: bob owns celo to borrow against, alice owns the  *)
(* cusd he borrows.  A unit of time is a tenth of a year.                      *)
EXTENDS ScenarioEngine, TLC

CONSTANTS celo, cusd, alice, bob, treasury

MCCollateral ==
    [active |-> TRUE, frozen |-> FALSE, borrowingEnabled |-> FALSE,
     stableRateBorrowingEnabled |-> FALSE,
     ltv |-> 50, liquidationThreshold |-> 60, liquidationBonus |-> 110,
     reserveFactor |-> 0]

MCBorrowable ==
    [MCCollateral EXCEPT !.borrowingEnabled = TRUE, !.stableRateBorrowingEnabled = TRUE,
                         !.reserveFactor = 10]

MCInitialConfiguration == celo :> MCCollateral @@ cusd :> MCBorrowable
MCConfigurations       == {MCCollateral, MCBorrowable,
                           [MCBorrowable EXCEPT !.ltv = 0, !.liquidationThreshold = 0]}
MCTokenUnit            == [a \in Assets |-> 1]
MCInitialWallets       ==
    celo :> (alice :> 0 @@ bob :> 600 @@ treasury :> 0) @@ cusd :> (alice :> 900 @@ bob :> 0 @@ treasury :> 0)
MCInitialPrices        == celo :> 4 @@ cusd :> 1
MCPrices               == [a \in Assets |-> {}]
=============================================================================
