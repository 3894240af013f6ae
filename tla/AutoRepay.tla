----------------------------- MODULE AutoRepay ------------------------------
(* adapters/AutoRepay.sol: a whitelisted keeper repays a user's debt out of    *)
(* the user's collateral, for a fee, while the health factor is below the      *)
(* minimum the user set and never past the maximum.  The pool appears as the   *)
(* accounts it keeps; the router trades at the oracle's price plus a spread,   *)
(* as long as the exchange's pairs hold more than is asked of them.            *)
(* Health factors are in percent: 100 is the liquidation threshold.            *)
EXTENDS Integers, FiniteSets, FiniteSetsExt, SwapPaths

CONSTANTS Users, Keepers,
          LiquidationThreshold,    \* percent, the same for every asset
          FLASHLOAN_PREMIUM_TOTAL, FEE, MAX_SLIPPAGE, HUNDRED_PERCENT,
          InitialWorlds,           \* accounts, limits and moves made to start from
          InitialPrices, InitialDepth,
          Liquidity,               \* what the pool has on hand of each asset
          Prices, Spreads, Depths, Limits, Allowances, KeeperAmounts,
          MaxMoves                 \* bound on the moves of users, market and owner

VARIABLES accounts,     \* [Users -> Account]: the users' rows of the pool
          userInfos,    \* [Users -> [min, max]]: AutoRepay.userInfos
          whitelisted,  \* AutoRepay._whitelistedAddresses
          prices,       \* the oracle's price of each asset
          spread,       \* the router's price over the oracle's, in percent
          depth,        \* what the exchange's pairs hold of each asset
          log,          \* the HealthFactorSet events, one block each
          moves         \* moves made so far

chain == <<accounts, userInfos, whitelisted, prices, spread, depth, log, moves>>

Account == [balance: [Assets -> Nat], enabled: SUBSET Assets,
            stable: [Assets -> Nat], variable: [Assets -> Nat],
            allowance: [Assets -> Nat]]

ASSUME AutoRepayConstants ==
    /\ FLASHLOAN_PREMIUM_TOTAL \in Nat /\ FEE \in Nat /\ HUNDRED_PERCENT \in Nat \ {0}
    /\ \A w \in InitialWorlds : w.accounts \in [Users -> Account] /\ w.moves \in Nat
    /\ InitialPrices \in [Assets -> Nat \ {0}]
    /\ \A a \in Assets : Prices[a] \subseteq Nat \ {0}
    /\ Spreads \subseteq Nat /\ Allowances \subseteq Nat /\ KeeperAmounts \subseteq Nat

NO_DEBT == 1000000   \* the health factor of an account without debt

debtAt(acc, rates) ==
    FoldSet(LAMBDA a, s : s + (acc.stable[a] + acc.variable[a]) * rates[a], 0, Assets)

healthAt(acc, rates) ==
    IF debtAt(acc, rates) = 0 THEN NO_DEBT
    ELSE (FoldSet(LAMBDA a, s : s + acc.balance[a] * rates[a], 0, acc.enabled)
            * LiquidationThreshold) \div debtAt(acc, rates)

totalDebt(acc)    == debtAt(acc, prices)
healthFactor(acc) == healthAt(acc, prices)

CeilDiv(x, y) == (x + y - 1) \div y

\* UNISWAP_ROUTER.getAmountsIn(out, path)[0], when it answers: every pair of the
\* path must hold more than the amount it is to give.
canQuote(out, path) ==
    LET worth == out * prices[UnderlyingOf(Last(path))]
    IN  /\ out > 0
        /\ \A i \in 2..Len(path) :
              worth < depth[UnderlyingOf(path[i])] * prices[UnderlyingOf(path[i])]

getAmountsIn(out, path) ==
    CeilDiv(out * prices[UnderlyingOf(Last(path))] * spread,
            prices[UnderlyingOf(Head(path))] * 100)

debtOf(acc, p) == IF p.rateMode = 1 THEN acc.stable[p.debtAsset]
                  ELSE acc.variable[p.debtAsset]

afterRepay(acc, p, amount) ==
    IF p.rateMode = 1 THEN [acc EXCEPT !.stable[p.debtAsset] = @ - amount]
    ELSE [acc EXCEPT !.variable[p.debtAsset] = @ - amount]

afterPull(acc, asset, amount) ==
    [acc EXCEPT !.balance[asset] = @ - amount,
                !.allowance[asset] = @ - amount,
                !.enabled = IF acc.balance[asset] = amount THEN @ \ {asset} ELSE @]

\* _doSwapAndPullWithFee: what the swap takes, and the keeper's share of it.
swapAmounts(p, repaid, premium) ==
    LET in == IF p.collateralAsset = p.debtAsset THEN repaid + premium
              ELSE getAmountsIn(repaid + premium, p.path)
        base == IF p.collateralAsset = p.debtAsset THEN repaid ELSE in
    IN  [in |-> in, fee |-> (base * FEE) \div HUNDRED_PERCENT]

\* Fault: the offer is not reduced with the debt found.
collateralLimitUnscaled(p, repaid) == p.collateralAmount

\* The collateral offered, less in proportion when there is less debt to repay.
collateralLimit(p, repaid) ==
    IF repaid < p.debtRepayAmount
    THEN (p.collateralAmount * repaid) \div p.debtRepayAmount
    ELSE p.collateralAmount

\* Fault: the quoted amount of collateral is not enforced.
swapAllowedAtAnyPrice(p, in, limit, out) ==
    p.collateralAsset # p.debtAsset =>
        canQuote(out, p.path) /\ PathFits(p.collateralAsset, p.debtAsset, p)

\* The router's quote, 'slippage too high', 'maxAmountToSwap exceed max slippage',
\* and the swap: on a path that does not fit, the swap, the withdrawal after it or
\* the repayment reverts.
swapAllowed(p, in, limit, out) ==
    p.collateralAsset # p.debtAsset =>
        /\ canQuote(out, p.path)
        /\ in <= limit
        /\ in < (((out * prices[p.debtAsset]) \div prices[p.collateralAsset])
                   * (HUNDRED_PERCENT + MAX_SLIPPAGE) + HUNDRED_PERCENT \div 2) \div HUNDRED_PERCENT
        /\ PathFits(p.collateralAsset, p.debtAsset, p)

checkMinHealthFactor(u, health) == health < userInfos[u].min

\* What the pool has on hand while the flash loan is out and the debt repaid.
onHand(p, repaid, asset) ==
    Liquidity[asset]
        - (IF p.useFlashloan /\ asset = p.debtAsset THEN p.debtRepayAmount - repaid ELSE 0)

\* The withdrawals around the swap: of the collateral unless its aTokens are
\* swapped, of the debt asset if its aTokens come out.
withdrawalsAllowed(p, repaid, in, out) ==
    LET swapped == p.collateralAsset # p.debtAsset
    IN  /\ swapped /\ ~p.useATokenAsFrom => in <= onHand(p, repaid, p.collateralAsset)
        /\ swapped /\ p.useATokenAsTo => out <= onHand(p, repaid, p.debtAsset)
        /\ ~swapped => in <= onHand(p, repaid, p.debtAsset)

checkHealthFactorIncreased(u, before, after) ==
    after > before /\ after <= userInfos[u].max

\* increaseHealthFactor with executeOperation: [ok, account] after the call.
\* With the flash loan the debt is repaid first and the collateral pulled after;
\* without it the collateral leaves while the whole debt still stands.
increaseHealthFactor(caller, p) ==
    LET acc     == accounts[p.user]
        repaid  == Min({p.debtRepayAmount, debtOf(acc, p)})
        premium == IF p.useFlashloan
                   THEN (p.debtRepayAmount * FLASHLOAN_PREMIUM_TOTAL) \div 10000 ELSE 0
        s       == swapAmounts(p, repaid, premium)
        pulled  == s.in + s.fee
        midway  == IF p.useFlashloan THEN afterRepay(acc, p, repaid) ELSE acc
        taken   == afterPull(midway, p.collateralAsset, pulled)
        final   == IF p.useFlashloan THEN taken ELSE afterRepay(taken, p, repaid)
    IN  [ok |-> /\ caller \in whitelisted
                /\ checkMinHealthFactor(p.user, healthFactor(acc))
                /\ repaid > 0
                /\ p.useFlashloan => p.debtRepayAmount <= Liquidity[p.debtAsset]
                /\ swapAllowed(p, s.in, collateralLimit(p, repaid), repaid + premium)
                /\ pulled <= Min({acc.balance[p.collateralAsset], acc.allowance[p.collateralAsset]})
                /\ healthFactor(taken) >= 100
                /\ withdrawalsAllowed(p, repaid, s.in, repaid + premium)
                /\ checkHealthFactorIncreased(p.user, healthFactor(acc), healthFactor(final)),
         account |-> final]

CallIncreaseHealthFactor(caller, p) ==
    /\ increaseHealthFactor(caller, p).ok
    /\ accounts' = [accounts EXCEPT ![p.user] = increaseHealthFactor(caller, p).account]
    /\ UNCHANGED <<userInfos, whitelisted, prices, spread, depth, log>>

Move == moves < MaxMoves /\ moves' = moves + 1

SetMinMaxHealthFactor(u) ==
    /\ Move
    /\ \E l \in Limits :
        /\ l.max >= l.min
        /\ userInfos' = [userInfos EXCEPT ![u] = l]
        /\ log' = Append(log, [user |-> u, min |-> l.min, max |-> l.max])
    /\ UNCHANGED <<accounts, whitelisted, prices, spread, depth>>

WhitelistAddress(k) ==
    /\ Move /\ k \notin whitelisted
    /\ whitelisted' = whitelisted \cup {k}
    /\ UNCHANGED <<accounts, userInfos, prices, spread, depth, log>>

RemoveFromWhitelist(k) ==
    /\ Move /\ k \in whitelisted
    /\ whitelisted' = whitelisted \ {k}
    /\ UNCHANGED <<accounts, userInfos, prices, spread, depth, log>>

\* A user approves the contract for the aTokens of an asset.
Approve(u, a) ==
    /\ Move
    /\ \E n \in Allowances : accounts' = [accounts EXCEPT ![u].allowance[a] = n]
    /\ UNCHANGED <<userInfos, whitelisted, prices, spread, depth, log>>

\* The oracle's price of an asset, the spread of the router, or what the exchange
\* holds of an asset moves.
MarketMoves ==
    /\ Move
    /\ \/ \E a \in Assets : \E q \in Prices[a] :
            prices' = [prices EXCEPT ![a] = q] /\ UNCHANGED <<spread, depth>>
       \/ \E q \in Spreads : spread' = q /\ UNCHANGED <<prices, depth>>
       \/ \E a \in Assets : \E q \in Depths[a] :
            depth' = [depth EXCEPT ![a] = q] /\ UNCHANGED <<prices, spread>>
    /\ UNCHANGED <<accounts, userInfos, whitelisted, log>>

\* Another keeper repays with the user's own collateral of the same asset.
OtherKeeperRepays(k, u, a) ==
    /\ Move
    /\ \E n \in KeeperAmounts, mode \in {1, 2}, flash \in BOOLEAN :
        CallIncreaseHealthFactor(k,
            [user |-> u, collateralAsset |-> a, debtAsset |-> a, path |-> << >>,
             collateralAmount |-> n, debtRepayAmount |-> n, rateMode |-> mode,
             useATokenAsFrom |-> FALSE, useATokenAsTo |-> FALSE, useFlashloan |-> flash])

ChainInit ==
    /\ \E w \in InitialWorlds :
        /\ accounts = w.accounts
        /\ userInfos = [u \in Users |-> w.limits]
        /\ log \in { [i \in DOMAIN order |->
                        [user |-> order[i], min |-> w.limits.min, max |-> w.limits.max]] :
                     order \in SetToSeqs(Users) }
        /\ moves = w.moves
    /\ whitelisted = Keepers
    /\ prices = InitialPrices
    /\ spread = 100
    /\ depth = InitialDepth

ChainNext ==
    \/ \E u \in Users : SetMinMaxHealthFactor(u)
    \/ \E k \in Keepers : WhitelistAddress(k) \/ RemoveFromWhitelist(k)
    \/ \E u \in Users, a \in Assets : Approve(u, a)
    \/ MarketMoves
    \/ \E k \in Keepers, u \in Users, a \in Assets : OtherKeeperRepays(k, u, a)
=============================================================================
