---------------------------- MODULE MCAutoRepay -----------------------------
(* A user the bot can help and one whose turn may end the round: ann owes cusd *)
(* against celo; ben has debt and no collateral enabled, or more debt than the *)
(* exchange can give.                                                          *)
EXTENDS AutoRepayBot

CONSTANTS ann, ben, cat, robot

None == [a \in Assets |-> 0]

MCAccounts ==
    ann :> [balance |-> [None EXCEPT !["celo"] = 6000, !["cusd"] = 600],
            enabled |-> {"celo"}, stable |-> [None EXCEPT !["cusd"] = 1400],
            variable |-> [None EXCEPT !["cusd"] = 1800],
            allowance |-> [None EXCEPT !["celo"] = 5000, !["cusd"] = 500]] @@
    ben :> [balance |-> [None EXCEPT !["ceur"] = 2000], enabled |-> {},
            stable |-> [None EXCEPT !["ceur"] = 800], variable |-> None,
            allowance |-> [None EXCEPT !["ceur"] = 2000]]
\* Two users the bot can help: ann even without a flash loan, ben whose two
\* collaterals are worth the same.
MCAccountsPair ==
    ann :> [balance |-> [None EXCEPT !["celo"] = 6000], enabled |-> {"celo"}, stable |-> None,
            variable |-> [None EXCEPT !["cusd"] = 1600],
            allowance |-> [None EXCEPT !["celo"] = 5000]] @@
    ben :> [balance |-> [None EXCEPT !["celo"] = 3000, !["ceur"] = 2000],
            enabled |-> {"celo", "ceur"}, stable |-> [None EXCEPT !["cusd"] = 1600],
            variable |-> None,
            allowance |-> [None EXCEPT !["celo"] = 5000, !["ceur"] = 5000]]
\* ben owes more than the exchange holds; three quarters of it would do.
MCAccountsShallow ==
    ann :> [balance |-> [None EXCEPT !["celo"] = 6000], enabled |-> {"celo"}, stable |-> None,
            variable |-> [None EXCEPT !["cusd"] = 2900],
            allowance |-> [None EXCEPT !["celo"] = 5000]] @@
    ben :> [balance |-> [None EXCEPT !["celo"] = 12000], enabled |-> {"celo"}, stable |-> None,
            variable |-> [None EXCEPT !["cusd"] = 6000],
            allowance |-> [None EXCEPT !["celo"] = 10000]]
MCInitialPrices == [celo |-> 2, cusd |-> 3, ceur |-> 3, creal |-> 1, moo |-> 1]
\* The second and third world have one move less: two users the bot queues double
\* the first's work.
MCWorlds ==
    {[accounts |-> MCAccounts,     limits |-> [min |-> 120, max |-> 190], moves |-> 0],
     [accounts |-> MCAccountsPair, limits |-> [min |-> 220, max |-> 500], moves |-> 1],
     [accounts |-> MCAccountsShallow, limits |-> [min |-> 120, max |-> 190], moves |-> 1]}
MCLimits        == {[min |-> 0, max |-> 0]}
MCPrices        == [a \in Assets |-> IF a = "celo" THEN {3} ELSE {}]
MCInitialDepth  == [a \in Assets |-> 5000]
MCDepths        == [a \in Assets |-> IF a = "cusd" THEN {1500, 7000} ELSE {}]
MCLiquidity     == [a \in Assets |-> 5000]
=============================================================================
