--------------------------- MODULE LiquidationBot ---------------------------
(* cli.js: the command liquidation-bot against the pool, whose users it        *)
(* liquidates, and the exchange, where it sells what it seized.  Every await   *)
(* is a step: users, prices and other liquidators move in between, a call to   *)
(* the node may fail, an answer may be lost, and the process may be restarted. *)
EXTENDS Integers, Sequences, SequencesExt, FiniteSetsExt, Functions, TLC

CONSTANTS Users, Tokens,      \* Tokens is the sequence Object.keys(tokens)
          InitialPositions,   \* the positions the pool may start from: a set
          InitialPrices,
          InitialWallets,     \* what the bot may own at first: a set
          PriceMoves,         \* prices an asset may move to
          Liquidity,          \* what the exchange has of each token
          RETRIES, MaxMoves, MaxFaults

\* What the pool, the market and the bot's wallet may be at first.
ASSUME LiquidationBotConstants ==
    /\ IsFiniteSet(Users)
    /\ InitialPositions \subseteq
          [Users -> [debt: [ToSet(Tokens) -> Nat], coll: [ToSet(Tokens) -> Nat],
                     enabled: SUBSET ToSet(Tokens)]]
    /\ InitialPrices \in [ToSet(Tokens) -> Nat \ {0}]
    /\ InitialWallets \subseteq [ToSet(Tokens) -> Nat]
    /\ PriceMoves \in [ToSet(Tokens) -> SUBSET (Nat \ {0})]
    /\ Liquidity \in [ToSet(Tokens) -> Nat]
    /\ RETRIES \in Nat /\ MaxMoves \in Nat /\ MaxFaults \in Nat

VARIABLES positions,  \* per user: debt and collateral per token, collaterals enabled
          price, log, \* log: the borrowers of the Borrow events
          wallet,     \* the bot's tokens
          approved,   \* the tokens the pool and the exchange may pull from the bot
          bot, moves, faults

vars == <<positions, price, log, wallet, approved, bot, moves, faults>>

ETHER     == 12   \* one unit of celo, in the exchange's quotes
THRESHOLD == 80   \* of every collateral
BONUS     == 110

TokenSet == ToSet(Tokens)
Total(f) == FoldFunction(LAMBDA x, y : x + y, 0, f)

-----------------------------------------------------------------------------
(* The pool and the exchange. *)

totalDebtETH(u)       == Total([t \in TokenSet |-> positions[u].debt[t] * price[t]])
totalCollateralETH(u) == Total([t \in positions[u].enabled |-> positions[u].coll[t] * price[t]])

getUserAccountData(u) == [coll |-> totalCollateralETH(u) * THRESHOLD,
                          debt |-> totalDebtETH(u) * 100]

\* healthFactor < 1, and the order by health factor (of users in debt).
belowOne(d)     == d.coll < d.debt
riskier(d1, d2) == d1.coll * d2.debt < d2.coll * d1.debt

\* getAmountsOut between two assets at the market's price.
amountOut(n, from, to) == (n * price[from]) \div price[to]

\* What liquidationCall takes and gives: half of the debt at most, and no more
\* than the collateral pays for.
liquidation(u, c, b, offer) ==
    LET wanted == Min({offer, (positions[u].debt[b] + 1) \div 2})
        worth  == (wanted * price[b] * BONUS) \div (price[c] * 100)
        have   == positions[u].coll[c]
    IN  IF worth <= have THEN [cover |-> wanted, seize |-> worth]
        ELSE [cover |-> (have * price[c] * 100) \div (price[b] * BONUS), seize |-> have]

CanLiquidate(u, c, b, offer) ==
    /\ belowOne(getUserAccountData(u)) /\ c \in positions[u].enabled /\ positions[u].debt[b] > 0
    /\ liquidation(u, c, b, offer).cover > 0 /\ b \in approved

Liquidated(u, c, b, offer) ==
    LET l == liquidation(u, c, b, offer)
    IN  /\ positions' = [positions EXCEPT ![u].debt[b] = @ - l.cover, ![u].coll[c] = @ - l.seize]
        /\ wallet' = [wallet EXCEPT ![b] = @ - l.cover + (IF c = b THEN l.seize ELSE 0),
                                    ![c] = IF c = b THEN @ - l.cover + l.seize ELSE @ + l.seize]

-----------------------------------------------------------------------------
(* What the bot computes from what it read. *)

\* rates: how much of a token one celo buys.
quotedRates == [t \in TokenSet |-> IF t = "celo" THEN ETHER ELSE amountOut(ETHER, "celo", t)]

\* positions.sort puts the largest debt times rate first, in place; the enabled
\* collaterals are met in that order by their own sort.
byDebt(pos, rates) ==
    SortSeq(Tokens, LAMBDA a, b : \/ pos.debt[a] * rates[a] > pos.debt[b] * rates[b]
                                  \/ /\ pos.debt[a] * rates[a] = pos.debt[b] * rates[b]
                                     /\ SelectInSeq(Tokens, LAMBDA t : t = a)
                                        < SelectInSeq(Tokens, LAMBDA t : t = b))

biggestBorrow(pos, rates) == Head(byDebt(pos, rates))

biggestCollateral(pos, rates) ==
    LET cands == SelectSeq(byDebt(pos, rates), LAMBDA t : t \in pos.enabled)
    IN  CHOOSE t \in ToSet(cands) : \A o \in ToSet(cands) \ {t} :
          \/ pos.coll[o] * rates[o] < pos.coll[t] * rates[t]
          \/ /\ pos.coll[o] * rates[o] = pos.coll[t] * rates[t]
             /\ SelectInSeq(cands, LAMBDA x : x = t) < SelectInSeq(cands, LAMBDA x : x = o)

\* The users in debt, of whom the risky are run.
usersData(users) == { u \in Users : u \in ToSet(users) /\ getUserAccountData(u).debt # 0 }

risky(users) == { u \in usersData(users) : belowOne(getUserAccountData(u)) }

\* sort: the riskiest first, equals in the order in which they were met.
riskiest(users, todo) ==
    \A i, j \in DOMAIN todo : i < j =>
        LET u == getUserAccountData(todo[i])
            v == getUserAccountData(todo[j])
        IN  \/ riskier(u, v)
            \/ /\ ~riskier(v, u)
               /\ SelectInSeq(users, LAMBDA x : x = todo[i])
                  < SelectInSeq(users, LAMBDA x : x = todo[j])

-----------------------------------------------------------------------------
(* The steps of the command. *)

Start == [pc |-> "approve", fromBlock |-> 0, users |-> << >>, todo |-> << >>,
          rates |-> << >>, collateral |-> "", borrow |-> "", before |-> 0, profit |-> 0,
          minOut |-> 0, tries |-> 0]

At(pc)  == bot.pc = pc
user    == Head(bot.todo)
Goes(b) == bot' = b
To(pc)  == [bot EXCEPT !.pc = pc]

chain == <<positions, price, log, wallet, approved, moves>>

Leave(b) == [b EXCEPT !.rates = << >>, !.collateral = "", !.borrow = "", !.before = 0,
                      !.profit = 0, !.minOut = 0, !.tries = 0]

\* The catch around the round: whoever was still to be run waits.
roundFails(b) == [Leave(b) EXCEPT !.pc = "delay", !.todo = << >>]

\* Fault: one user's error ends the round.
userFailsRound(b) == roundFails(b)

\* The catch around a user, and the end of the loop's body.
nextUser(b) == [Leave(b) EXCEPT !.pc = "user", !.todo = Tail(@)]

userFails(b) == nextUser(b)

\* Fault: the swap is retried for ever.
retriedForever(b) == IF b.tries = 0 THEN [b EXCEPT !.pc = "swapRate"]
                     ELSE [b EXCEPT !.pc = "swapRate", !.tries = @ - 1]

\* retry around the swap.
retried(b) == IF b.tries = 0 THEN userFails(b) ELSE [b EXCEPT !.pc = "swapRate", !.tries = @ - 1]

\* Where an error leads, by the step it happens in: before the loop, in the
\* round, with a user, in the retried swap.
afterError(b) ==
    CASE b.pc = "approve" -> To("exited")
      [] b.pc \in {"scan", "accounts", "rates", "positions"} -> roundFails(b)
      [] b.pc \in {"estimate", "before", "send", "profit", "show"} -> userFails(b)
      [] b.pc \in {"swapRate", "swapEstimate", "swapSend"} -> retried(b)

\* Promise.map approves what is missing; both spenders get everything.
Approve ==
    /\ At("approve")
    /\ IF approved = TokenSet THEN Goes(To("scan")) /\ UNCHANGED approved
       ELSE /\ \E t \in TokenSet \ approved : approved' = approved \union {t}
            /\ UNCHANGED bot
    /\ UNCHANGED <<positions, price, log, wallet, moves, faults>>

Scan ==
    /\ At("scan")
    /\ Goes([bot EXCEPT !.pc = "accounts", !.fromBlock = Len(log),
                        !.users = FoldLeft(LAMBDA us, u : IF u \in ToSet(us) THEN us ELSE Append(us, u),
                                           @, SubSeq(log, bot.fromBlock + 1, Len(log)))])
    /\ UNCHANGED <<chain, faults>>

ReadAccounts ==
    /\ At("accounts")
    /\ \E todo \in [1..Cardinality(risky(bot.users)) -> risky(bot.users)] :
          riskiest(bot.users, todo) /\ Goes([To("user") EXCEPT !.todo = todo])
    /\ UNCHANGED <<chain, faults>>

PickUser ==
    /\ At("user") /\ Goes(To(IF bot.todo = << >> THEN "delay" ELSE "rates"))
    /\ UNCHANGED <<chain, faults>>

ReadRates ==
    /\ At("rates") /\ Goes([To("positions") EXCEPT !.rates = quotedRates])
    /\ UNCHANGED <<chain, faults>>

\* A user without an enabled collateral is a TypeError in the round.
ReadPositions ==
    LET pos == positions[user]
    IN  /\ At("positions")
        /\ Goes(IF pos.enabled = {} THEN roundFails(bot)
                ELSE [To("estimate") EXCEPT !.collateral = biggestCollateral(pos, bot.rates),
                                            !.borrow = biggestBorrow(pos, bot.rates)])
        /\ UNCHANGED <<chain, faults>>

Estimate ==
    /\ At("estimate")
    /\ Goes(IF CanLiquidate(user, bot.collateral, bot.borrow, wallet[bot.borrow])
            THEN To("before") ELSE userFails(bot))
    /\ UNCHANGED <<chain, faults>>

BalanceBefore ==
    /\ At("before") /\ Goes([To("send") EXCEPT !.before = wallet[bot.collateral]])
    /\ UNCHANGED <<chain, faults>>

SendLiquidation ==
    /\ At("send")
    /\ IF CanLiquidate(user, bot.collateral, bot.borrow, wallet[bot.borrow])
       THEN /\ Liquidated(user, bot.collateral, bot.borrow, wallet[bot.borrow])
            /\ Goes(To("profit"))
       ELSE Goes(userFails(bot)) /\ UNCHANGED <<positions, wallet>>
    /\ UNCHANGED <<price, log, approved, moves, faults>>

\* Fault: everything the bot holds is taken for the profit.
profitOfAll(balance) == balance

profit(balance) == balance - bot.before

\* isPositive() holds of zero.
Profit ==
    LET made == profit(wallet[bot.collateral])
    IN  /\ At("profit")
        /\ Goes(IF made < 0 THEN userFails(bot)
                ELSE IF bot.collateral = bot.borrow THEN To("show")
                ELSE [To("swapRate") EXCEPT !.profit = made, !.tries = RETRIES])
        /\ UNCHANGED <<chain, faults>>

SwapRate ==
    /\ At("swapRate")
    /\ Goes([To("swapEstimate") EXCEPT
               !.minOut = (amountOut(bot.profit, bot.collateral, bot.borrow) * 999) \div 1000])
    /\ UNCHANGED <<chain, faults>>

CanSwap == /\ bot.profit \in 1..wallet[bot.collateral] /\ bot.collateral \in approved
           /\ amountOut(bot.profit, bot.collateral, bot.borrow)
                \in bot.minOut..Liquidity[bot.borrow]

SwapEstimate ==
    /\ At("swapEstimate") /\ Goes(IF CanSwap THEN To("swapSend") ELSE retried(bot))
    /\ UNCHANGED <<chain, faults>>

Swapped == wallet' = [wallet EXCEPT ![bot.collateral] = @ - bot.profit,
                        ![bot.borrow] = @ + amountOut(bot.profit, bot.collateral, bot.borrow)]

SwapSend ==
    /\ At("swapSend")
    /\ IF CanSwap THEN Swapped /\ Goes(To("show")) ELSE Goes(retried(bot)) /\ UNCHANGED wallet
    /\ UNCHANGED <<positions, price, log, approved, moves, faults>>

ShowBalance ==
    /\ At("show") /\ Goes(nextUser(bot)) /\ UNCHANGED <<chain, faults>>

Delay == At("delay") /\ Goes(To("scan")) /\ UNCHANGED <<chain, faults>>

Fault == faults < MaxFaults /\ faults' = faults + 1

\* A call to the node fails; a transaction is not mined.
CallFails ==
    /\ bot.pc \notin {"user", "delay", "exited"} /\ Fault /\ Goes(afterError(bot))
    /\ UNCHANGED chain

\* A transaction is mined and its answer lost.
AnswerLost ==
    /\ \/ /\ At("send")
          /\ CanLiquidate(user, bot.collateral, bot.borrow, wallet[bot.borrow])
          /\ Liquidated(user, bot.collateral, bot.borrow, wallet[bot.borrow])
       \/ /\ At("swapSend") /\ CanSwap /\ Swapped
          /\ UNCHANGED positions
    /\ Fault /\ Goes(afterError(bot))
    /\ UNCHANGED <<price, log, approved, moves>>

\* The process is killed, or has exited, and is started again: it starts from
\* the first block with nobody known.
Restart ==
    /\ ~At("approve") /\ Fault /\ Goes(Start) /\ UNCHANGED chain

Move == moves < MaxMoves /\ moves' = moves + 1 /\ UNCHANGED <<wallet, approved, bot, faults>>

\* A user borrows; another liquidator, or the user, pays a debt; a price moves.
Borrow(u, t) ==
    /\ Move /\ positions' = [positions EXCEPT ![u].debt[t] = @ + 1] /\ log' = Append(log, u)
    /\ UNCHANGED price /\ ~belowOne(getUserAccountData(u))'

Repaid(u, t) ==
    /\ Move /\ positions[u].debt[t] > 0 /\ positions' = [positions EXCEPT ![u].debt[t] = 0]
    /\ UNCHANGED <<price, log>>

PriceMove(t) ==
    /\ Move /\ \E p \in PriceMoves[t] \ {price[t]} : price' = [price EXCEPT ![t] = p]
    /\ UNCHANGED <<positions, log>>

BotNext ==
    \/ Approve \/ Scan \/ ReadAccounts \/ PickUser \/ ReadRates \/ ReadPositions \/ Estimate
    \/ BalanceBefore \/ SendLiquidation \/ Profit \/ SwapRate \/ SwapEstimate \/ SwapSend
    \/ ShowBalance \/ Delay

Init ==
    /\ positions \in InitialPositions /\ price = InitialPrices /\ wallet \in InitialWallets
    /\ log = SetToSeq({ u \in Users : totalDebtETH(u) > 0 })
    /\ approved = {} /\ bot = Start /\ moves = 0 /\ faults = 0

Next ==
    \/ BotNext \/ CallFails \/ AnswerLost \/ Restart
    \/ \E t \in TokenSet : PriceMove(t) \/ \E u \in Users : Borrow(u, t) \/ Repaid(u, t)

\* The process runs on; nobody has to start it again.
Spec == Init /\ [][Next]_vars /\ WF_vars(BotNext)

-----------------------------------------------------------------------------
\* What the bot held before a liquidation is still there afterwards: it sells
\* what it seized and no more, however often the exchange refuses and the prices
\* move (cli.js:1056-1127).  The sale is sent inside retry: when its answer is
\* lost it is sold once more, out of the bot's own, so each fault may cost one
\* profit.
SellsOnlyWhatItSeized ==
    bot.pc \in {"swapRate", "swapEstimate", "swapSend", "show"} /\ bot.collateral # bot.borrow
        => wallet[bot.collateral] >= bot.before - faults * bot.profit

\* The rounds go on whatever fails (the catch and the delay of the loop), once
\* the approvals are made: an error before the loop ends the process.
RoundsGoOn == []<>(At("scan") \/ At("exited"))

BadDebt(u) == totalDebtETH(u) > 0 /\ positions[u].enabled = {}

Liquidatable(u) == /\ belowOne(getUserAccountData(u))
                   /\ \A v \in Users : ~BadDebt(v)
Runs(u)         == At("estimate") /\ user = u

\* A user who stays below one is run again and again, whoever else fails: an
\* error with one user must not keep the bot from the next (cli.js:1137).  The
\* exception is a user with debt and no enabled collateral: the choice of his
\* collateral fails outside his own try (cli.js:1016), which ends the round.
RiskyUsersAreRun ==
    \A u \in Users : <>[]Liquidatable(u) => []<>(Runs(u) \/ At("exited"))
=============================================================================
