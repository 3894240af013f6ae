---------------------------- MODULE AutoRepayBot ----------------------------
(* bots/auto-repay-bot.js against the AutoRepay contract.  The bot collects    *)
(* the HealthFactorSet events, picks the users below their minimum and repays  *)
(* for them one after the other.  Every await is a step: users, market, owner  *)
(* and other keepers move in between, and a call to the node may fail.         *)
EXTENDS AutoRepay

CONSTANTS Bot,         \* the bot's account
          RETRIES,     \* tries of retry() after the first
          MaxFaults    \* bound on the failing calls

\* The contract's fee is at most the tenth of a percent the bot allows for.
ASSUME FeeIsAllowedFor == FEE * 1000 <= HUNDRED_PERCENT

VARIABLES bot, faults

vars == <<chain, bot, faults>>

Tokens == <<"celo", "cusd", "ceur", "creal", "moo">>

-----------------------------------------------------------------------------
(* What the bot computes from what it read. *)

debtValue(acc, rates, a)       == (acc.stable[a] + acc.variable[a]) * rates[a]
collateralValue(acc, rates, a) == acc.balance[a] * rates[a]

\* The first of a stable descending sort.
FirstByValue(seq, value(_)) ==
    LET best == { i \in DOMAIN seq : \A j \in DOMAIN seq : value(seq[j]) <= value(seq[i]) }
    IN  seq[Min(best)]

biggestBorrow(acc, rates) == FirstByValue(Tokens, LAMBDA a : debtValue(acc, rates, a))

\* positions.sort works in place: the collaterals are met in the order of the
\* debts, which decides between collaterals of equal value.
biggestCollateral(acc, rates) ==
    LET cands == { a \in acc.enabled : \A b \in acc.enabled :
                     collateralValue(acc, rates, b) <= collateralValue(acc, rates, a) }
        byDebt == { a \in cands : \A b \in cands :
                     debtValue(acc, rates, b) <= debtValue(acc, rates, a) }
    IN  FirstByValue(Tokens, LAMBDA a : IF a \in byDebt THEN 1 ELSE 0)

rateModeFor(acc, a) == IF acc.variable[a] < acc.stable[a] THEN 1 ELSE 2

\* repaySimulation's next amount after a failed attempt.
nextAmount(amount, attempt) == (amount * (100 - attempt * 25)) \div 100

RoundDiv(x, y) == (2 * x + y) \div (2 * y)

\* increaseHealthFactorMethod: the parameters of the call at the router's quote.
amountOut(p)   == RoundDiv(p.debtRepayAmount * 10009, 10000)
quoteExists(p) == canQuote(amountOut(p), p.path)
increaseHealthFactorMethod(p, useFlashloan) ==
    [p EXCEPT !.collateralAmount = RoundDiv(getAmountsIn(amountOut(p), p.path) * 1001, 1000),
              !.useFlashloan = useFlashloan]

\* total: what the user must have approved, rounded up to whole units.
requiredAllowance(p) == p.collateralAmount + CeilDiv(p.collateralAmount * 10, 10000)

repayParams(u, acc, rates) ==
    LET c == biggestCollateral(acc, rates)
        b == biggestBorrow(acc, rates)
        mode == rateModeFor(acc, b)
        s == botPaths[c][b]
    IN  [user |-> u, collateralAsset |-> c, debtAsset |-> b, collateralAmount |-> 0,
         debtRepayAmount |-> IF mode = 1 THEN acc.stable[b] ELSE acc.variable[b],
         rateMode |-> mode, useFlashloan |-> TRUE, path |-> s.path,
         useATokenAsFrom |-> s.useATokenAsFrom, useATokenAsTo |-> s.useATokenAsTo]

\* No collateral is enabled, or the table has no path: a TypeError.
hasSwapPath(acc, rates) ==
    /\ acc.enabled # {}
    /\ biggestCollateral(acc, rates) \in DOMAIN botPaths
    /\ biggestBorrow(acc, rates) \in DOMAIN botPaths[biggestCollateral(acc, rates)]

-----------------------------------------------------------------------------
(* The steps of execute(). *)

Nothing == [user |-> "none"]
Idle == [pc |-> "scan", fromBlock |-> 0, known |-> << >>, limits |-> << >>,
         queue |-> << >>, acc |-> Nothing, p |-> Nothing, method |-> Nothing,
         attempt |-> 0, tries |-> 0]

At(pc) == bot.pc = pc

\* The catch of the round: whoever was still queued waits for the next round.
afterError(b) == [b EXCEPT !.pc = "delay", !.queue = << >>, !.acc = Nothing, !.p = Nothing,
                           !.method = Nothing, !.attempt = 0, !.tries = 0]

nextUser(b) == [afterError(b) EXCEPT !.pc = IF Len(b.queue) = 1 THEN "delay" ELSE "positions",
                                     !.queue = Tail(b.queue)]

newEvents == SubSeq(log, Max({bot.fromBlock, 1}), Len(log))

newLimits == [u \in { e.user : e \in ToSet(newEvents) } |->
                LET e == Last(SelectSeq(newEvents, LAMBDA x : x.user = u))
                IN  [min |-> e.min, max |-> e.max]]

mergedLimits(old, new) == new @@ old

\* users keeps the order in which its keys were first met.
Scan ==
    /\ At("scan")
    /\ bot' = [bot EXCEPT
         !.pc = "accounts", !.fromBlock = Len(log),
         !.known = FoldLeft(LAMBDA s, e : IF e.user \in ToSet(s) THEN s ELSE Append(s, e.user),
                            @, newEvents),
         !.limits = mergedLimits(@, newLimits)]
    /\ UNCHANGED <<chain, faults>>

needsRepay(u, min) == totalDebt(accounts[u]) # 0 /\ healthFactor(accounts[u]) < min

ReadAccounts ==
    /\ At("accounts")
    /\ LET usersData == SelectSeq(bot.known, LAMBDA u : needsRepay(u, bot.limits[u].min))
       IN  bot' = [bot EXCEPT !.pc = IF usersData = << >> THEN "delay" ELSE "positions",
                              !.queue = usersData]
    /\ UNCHANGED <<chain, faults>>

ReadPositions ==
    /\ At("positions")
    /\ bot' = [bot EXCEPT !.pc = "prices", !.acc = accounts[Head(bot.queue)]]
    /\ UNCHANGED <<chain, faults>>

\* The prices are read once for a user, after the positions, and the repayment
\* is chosen from the two.
ReadPrices ==
    /\ At("prices")
    /\ bot' = IF hasSwapPath(bot.acc, prices)
              THEN [bot EXCEPT !.pc = "quote", !.attempt = 1, !.acc = Nothing,
                               !.p = repayParams(Head(bot.queue), bot.acc, prices)]
              ELSE afterError(bot)
    /\ UNCHANGED <<chain, faults>>

\* The quote is awaited outside the try around the simulation: one the exchange
\* refuses ends the round.
Quote ==
    /\ At("quote")
    /\ bot' = IF quoteExists(bot.p)
              THEN [bot EXCEPT !.pc = "allowance", !.p = increaseHealthFactorMethod(@, TRUE)]
              ELSE afterError(bot)
    /\ UNCHANGED <<chain, faults>>

\* A user who approved too little is left alone, whatever a smaller share needs.
CheckAllowance ==
    /\ At("allowance")
    /\ bot' = IF accounts[bot.p.user].allowance[bot.p.collateralAsset] < requiredAllowance(bot.p)
              THEN nextUser(bot)
              ELSE [bot EXCEPT !.pc = "simulate", !.tries = RETRIES]
    /\ UNCHANGED <<chain, faults>>

\* retry(): another try, or the error is thrown.
afterFailure(b, givenUp) ==
    IF b.tries = 0 THEN givenUp ELSE [b EXCEPT !.tries = @ - 1]

\* Fault: the first share that fails is the last one tried.
smallerShareNever(b) == nextUser(b)

\* The catch of the simulation: a smaller share, four attempts in all.
smallerShare(b) ==
    IF b.attempt = 4 THEN nextUser(b)
    ELSE [b EXCEPT !.pc = "quote", !.attempt = @ + 1, !.tries = 0,
                   !.p.debtRepayAmount = nextAmount(@, b.attempt)]

sendFlash(b) == [b EXCEPT !.pc = "send", !.tries = 0, !.method = b.p]

SimulateSucceeds ==
    /\ At("simulate") /\ increaseHealthFactor(Bot, bot.p).ok
    /\ bot' = [bot EXCEPT !.pc = "directQuote", !.tries = 0]
    /\ UNCHANGED <<chain, faults>>

SimulateReverts ==
    /\ At("simulate") /\ ~increaseHealthFactor(Bot, bot.p).ok
    /\ bot' = afterFailure(bot, smallerShare(bot))
    /\ UNCHANGED <<chain, faults>>

\* This one is awaited inside the inner try.
DirectQuote ==
    /\ At("directQuote")
    /\ bot' = IF quoteExists(bot.p)
              THEN [bot EXCEPT !.pc = "directSimulate", !.tries = RETRIES,
                               !.method = increaseHealthFactorMethod(bot.p, FALSE)]
              ELSE sendFlash(bot)
    /\ UNCHANGED <<chain, faults>>

DirectSucceeds ==
    /\ At("directSimulate") /\ increaseHealthFactor(Bot, bot.method).ok
    /\ bot' = [bot EXCEPT !.pc = "send", !.tries = 0]
    /\ UNCHANGED <<chain, faults>>

DirectReverts ==
    /\ At("directSimulate") /\ ~increaseHealthFactor(Bot, bot.method).ok
    /\ bot' = afterFailure(bot, sendFlash(bot))
    /\ UNCHANGED <<chain, faults>>

SendSucceeds ==
    /\ At("send")
    /\ CallIncreaseHealthFactor(Bot, bot.method)
    /\ bot' = nextUser(bot)
    /\ UNCHANGED <<moves, faults>>

SendReverts ==
    /\ At("send") /\ ~increaseHealthFactor(Bot, bot.method).ok
    /\ bot' = afterError(bot)
    /\ UNCHANGED <<chain, faults>>

Delay ==
    /\ At("delay")
    /\ bot' = [bot EXCEPT !.pc = "scan"]
    /\ UNCHANGED <<chain, faults>>

\* A call to the node fails.
CallFails ==
    /\ ~At("delay")
    /\ faults < MaxFaults /\ faults' = faults + 1
    /\ bot' = CASE At("simulate") -> afterFailure(bot, smallerShare(bot))
                [] At("directSimulate") -> afterFailure(bot, sendFlash(bot))
                [] At("directQuote") -> sendFlash(bot)
                [] OTHER -> afterError(bot)
    /\ UNCHANGED chain

\* The transaction is mined but the bot loses the answer.
AnswerLost ==
    /\ At("send")
    /\ faults < MaxFaults /\ faults' = faults + 1
    /\ CallIncreaseHealthFactor(Bot, bot.method)
    /\ bot' = afterError(bot)
    /\ UNCHANGED moves

BotNext ==
    \/ Scan \/ ReadAccounts \/ ReadPositions \/ ReadPrices \/ Quote \/ CheckAllowance
    \/ SimulateSucceeds \/ SimulateReverts \/ DirectQuote \/ DirectSucceeds \/ DirectReverts
    \/ SendSucceeds \/ SendReverts \/ Delay

Init == ChainInit /\ bot = Idle /\ faults = 0

Next == \/ BotNext
        \/ CallFails
        \/ AnswerLost
        \/ ChainNext /\ UNCHANGED <<bot, faults>>

\* The loop of the bot goes on; users, market and owner may do nothing.
Spec == Init /\ [][Next]_vars /\ WF_vars(BotNext)

-----------------------------------------------------------------------------
(* Properties. *)

\* When another keeper has repaid part of the debt since the quote, the bot's
\* repayment takes collateral for what it still repays, at the quoted price at
\* most: of the amount found approved no more than that part.
PullsInProportion ==
    [][At("send") /\ accounts' # accounts /\ moves' = moves =>
          LET p == bot.method
              c == p.collateralAsset
              pulled == accounts[p.user].balance[c] - accounts'[p.user].balance[c]
              repaid == debtOf(accounts[p.user], p) - debtOf(accounts'[p.user], p)
          IN  /\ repaid > 0
              /\ pulled * p.debtRepayAmount <= requiredAllowance(p) * repaid]_vars

\* Whatever moves between the quote and the transaction, the bot's repayment
\* takes no more collateral than the bot found approved when it decided, and
\* leaves no other collateral touched.
PullsAtMostTheQuote ==
    [][At("send") /\ accounts' # accounts /\ moves' = moves =>
          LET u == bot.method.user
              c == bot.method.collateralAsset
          IN  /\ accounts[u].balance[c] - accounts'[u].balance[c]
                    <= requiredAllowance(bot.method)
              /\ \A v \in Users, a \in Assets : <<v, a>> # <<u, c>> =>
                    accounts'[v].balance[a] = accounts[v].balance[a]]_vars

\* The k-th attempt for a user, quoted and sent at the present state.
attemptAmount(p, k) ==
    FoldLeft(LAMBDA n, i : nextAmount(n, i), p.debtRepayAmount, [i \in 1..(k - 1) |-> i])
attemptCall(u, k) ==
    LET p == repayParams(u, accounts[u], prices)
    IN  increaseHealthFactorMethod([p EXCEPT !.debtRepayAmount = attemptAmount(p, k)], TRUE)

AllowanceCovers(u, k) ==
    requiredAllowance(attemptCall(u, k))
        <= accounts[u].allowance[repayParams(u, accounts[u], prices).collateralAsset]

\* The contract would accept one of the bot's attempts; the exchange quotes and
\* the allowance covers the attempts up to that one.
Helpable(u) ==
    /\ needsRepay(u, userInfos[u].min)
    /\ hasSwapPath(accounts[u], prices)
    /\ \E k \in 1..4 :
        /\ increaseHealthFactor(Bot, attemptCall(u, k)).ok
        /\ \A j \in 1..k : quoteExists(attemptCall(u, j)) /\ AllowanceCovers(u, j)

\* A user whose turn ends the round with an error: no path, or no quote for his
\* whole debt (a smaller share would ask less, but none is tried).
Blocks(v) ==
    /\ needsRepay(v, userInfos[v].min)
    /\ hasSwapPath(accounts[v], prices) => ~quoteExists(attemptCall(v, 1))

Before(v, u) == \E i, j \in DOMAIN bot.known : i < j /\ bot.known[i] = v /\ bot.known[j] = u

\* A user the contract would let the bot help is helped, or stops needing it,
\* whatever calls fail and wherever he stands in the queue, unless someone the
\* bot met earlier ends every round before his turn (the only handler is outside
\* the loop over the users, auto-repay-bot.js:318).
HelpedUnlessBlocked ==
    \A u \in Users : (<>[]Helpable(u)) => <>[](\E v \in Users : Before(v, u) /\ Blocks(v))
=============================================================================
