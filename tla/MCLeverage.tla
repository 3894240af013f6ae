----------------------------- MODULE MCLeverage -----------------------------
(* One reserve that is collateral and debt at once: alice lends and borrows    *)
(* it until interest makes her liquidatable, and Moola's collateral manager    *)
(* shares the seized aTokens with the treasury.                                *)
EXTENDS BoundedPool

CONSTANTS cusd, alice, bob, treasury

MCConfiguration ==
    [active |-> TRUE, frozen |-> FALSE, borrowingEnabled |-> TRUE,
     stableRateBorrowingEnabled |-> FALSE,
     ltv |-> 7500, liquidationThreshold |-> 8000, liquidationBonus |-> 10500,
     reserveFactor |-> 1000]

MCInitialConfiguration == cusd :> MCConfiguration
MCConfigurations       == {MCConfiguration}
MCTokenUnit            == cusd :> 1
MCInitialWallets       == cusd :> (alice :> 40 @@ bob :> 40 @@ treasury :> 0)
MCInitialPrices        == cusd :> 1
MCPrices               == cusd :> {}
=============================================================================
