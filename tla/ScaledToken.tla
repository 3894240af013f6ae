----------------------------- MODULE ScaledToken ----------------------------
(* The scaled ledgers of tokenization/AToken.sol and VariableDebtToken.sol     *)
(* over IncentivizedERC20.sol.  Balances are stored divided by the index of    *)
(* the moment of the operation; a balance is worth its scaled amount times the *)
(* current index.  mint and burn are the same code in both tokens.             *)
EXTENDS WadRayMath, FiniteSets

CONSTANT Users   \* every account that can hold tokens or debt

ASSUME UsersFinite == IsFiniteSet(Users)

ScaledLedger == [balances: [Users -> Nat], totalSupply: Nat]

EmptyScaledLedger == [balances |-> [u \in Users |-> 0], totalSupply |-> 0]

scaledBalanceOf(l, u, index) == rayMul(l.balances[u], index)

scaledTotalSupplyOf(l, index) == rayMul(l.totalSupply, index)

\* mint and burn revert when the amount rounds to no scaled unit.
scaledMintAllowed(amount, index) == rayDiv(amount, index) # 0

scaledBurnAllowed(l, user, amount, index) ==
    /\ rayDiv(amount, index) # 0
    /\ rayDiv(amount, index) <= l.balances[user]
    /\ rayDiv(amount, index) <= l.totalSupply

scaledMint(l, user, amount, index) ==
    [l EXCEPT !.balances[user] = @ + rayDiv(amount, index),
              !.totalSupply = @ + rayDiv(amount, index)]

\* Fault: the burn forgets the total supply.
scaledBurnOfBalance(l, user, amount, index) ==
    [l EXCEPT !.balances[user] = @ - rayDiv(amount, index)]

\* Fault: the burn takes the amount instead of the scaled amount off the supply.
scaledBurnOfAmount(l, user, amount, index) ==
    [l EXCEPT !.balances[user] = @ - rayDiv(amount, index),
              !.totalSupply = @ - amount]

scaledBurn(l, user, amount, index) ==
    [l EXCEPT !.balances[user] = @ - rayDiv(amount, index),
              !.totalSupply = @ - rayDiv(amount, index)]

scaledTransferAllowed(l, from, amount, index) ==
    rayDiv(amount, index) <= l.balances[from]

\* The recipient is credited after the sender is debited, so a transfer to
\* oneself leaves the balance as it was.
scaledTransfer(l, from, to, amount, index) ==
    [[l EXCEPT !.balances[from] = @ - rayDiv(amount, index)]
        EXCEPT !.balances[to] = @ + rayDiv(amount, index)]
=============================================================================
