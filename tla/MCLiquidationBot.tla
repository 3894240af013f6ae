-------------------------- MODULE MCLiquidationBot --------------------------
(* Two risky users of two assets, one celo worth three cusd, and an exchange   *)
(* with little celo.                                                           *)
EXTENDS LiquidationBot

CONSTANTS ann, ben

MCTokens    == <<"celo", "cusd">>
MCPrices    == [celo |-> 3, cusd |-> 1]
MCMoves     == [celo |-> {2, 4}, cusd |-> {}]
MCLiquidity == [celo |-> 1, cusd |-> 100]

Position(debt, coll, enabled) == [debt |-> debt, coll |-> coll, enabled |-> enabled]

\* ann is the riskiest; ben owes celo against cusd.
TwoRisky ==
    ann :> Position([celo |-> 0, cusd |-> 12], [celo |-> 3, cusd |-> 0], {"celo"}) @@
    ben :> Position([celo |-> 3, cusd |-> 0], [celo |-> 0, cusd |-> 11], {"cusd"})

\* ann's collateral is gone: only debt is left.
OneBadDebt ==
    [TwoRisky EXCEPT ![ann] = Position([celo |-> 0, cusd |-> 4], [celo |-> 0, cusd |-> 0], {})]

MCPositions == {TwoRisky, OneBadDebt}

\* A bot with nothing to pay ann's debt, whose sales of what it seizes of ben
\* are too large for the exchange; and one that owns some of both assets, whose
\* sales go through until the exchange is out of celo.
MCWallets == {[celo |-> 4, cusd |-> 0], [celo |-> 1, cusd |-> 6]}
=============================================================================
