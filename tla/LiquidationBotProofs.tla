------------------------ MODULE LiquidationBotProofs ------------------------
(* Proofs about the liquidation bot: whatever calls fail, whatever answers are *)
(* lost, however often the process is started again and whatever moves between *)
(* its calls, it sells what it seized.                                         *)
EXTENDS LiquidationBot, SequenceTheorems, FiniteSetTheorems, TLAPS

Position == [debt: [TokenSet -> Int], coll: [TokenSet -> Int], enabled: SUBSET TokenSet]

\* The bot is a process with these variables; it is at a user while it has one.
BotOK(b) ==
    /\ DOMAIN b = {"pc", "fromBlock", "users", "todo", "rates", "collateral", "borrow",
                   "before", "profit", "minOut", "tries"}
    /\ b.todo \in Seq(Users)
    /\ b.pc \in {"approve", "scan", "accounts", "user", "rates", "positions", "estimate",
                 "before", "send", "profit", "swapRate", "swapEstimate", "swapSend", "show",
                 "delay", "exited"}
    /\ b.pc \in {"rates", "positions", "estimate", "before", "send", "profit", "swapRate",
                 "swapEstimate", "swapSend", "show"} => b.todo # << >>

TypeOK ==
    /\ positions \in [Users -> Position]
    /\ price \in [TokenSet -> Nat \ {0}]
    /\ wallet \in [TokenSet -> Int]
    /\ approved \subseteq TokenSet
    /\ faults \in Nat
    /\ BotOK(bot)

\* What is known at a step of a sale.  The exchange is asked to take the profit
\* only when the two assets differ; every lost answer may have cost one profit.
Knows(b, w, f) ==
    /\ b.pc \in {"before", "send", "profit", "swapRate", "swapEstimate", "swapSend", "show"} =>
          b.collateral \in TokenSet /\ b.borrow \in TokenSet
    /\ b.pc \in {"send", "profit", "swapRate", "swapEstimate", "swapSend", "show"} =>
          b.before \in Int
    /\ b.pc \in {"swapRate", "swapEstimate", "swapSend"} =>
          /\ b.profit \in Nat /\ b.collateral # b.borrow
          /\ w[b.collateral] >= b.before + b.profit - f * b.profit
    /\ b.pc = "show" /\ b.collateral # b.borrow =>
          b.profit \in Nat /\ w[b.collateral] >= b.before - f * b.profit

Sound == TypeOK /\ Knows(bot, wallet, faults)

-----------------------------------------------------------------------------
(* The numbers stay numbers.                                                 *)

LEMMA MinOfTwo == ASSUME NEW x \in Int, NEW y \in Int PROVE Min({x, y}) \in Int
<1>1. \E m \in {x, y} : \A z \in {x, y} : m <= z
  <2>1. CASE x <= y BY <2>1
  <2>2. CASE y <= x BY <2>2
  <2> QED BY <2>1, <2>2
<1> QED BY <1>1 DEF Min

\* A quote between two assets is a number.
LEMMA QuoteInt ==
    ASSUME TypeOK, NEW n \in Int, NEW a \in TokenSet, NEW b \in TokenSet
    PROVE  amountOut(n, a, b) \in Int
<1>1. price[a] \in Nat \ {0} /\ price[b] \in Nat \ {0} BY DEF TypeOK
<1>2. n * price[a] \in Int BY <1>1
<1> QED BY <1>1, <1>2 DEF amountOut

\* The pool takes and gives numbers.
LEMMA LiquidationInt ==
    ASSUME TypeOK, NEW u \in Users, NEW c \in TokenSet, NEW b \in TokenSet, NEW offer \in Int
    PROVE  /\ liquidation(u, c, b, offer).cover \in Int
           /\ liquidation(u, c, b, offer).seize \in Int
<1> DEFINE wanted == Min({offer, (positions[u].debt[b] + 1) \div 2})
           worth  == (wanted * price[b] * BONUS) \div (price[c] * 100)
           have   == positions[u].coll[c]
           cover  == (have * price[c] * 100) \div (price[b] * BONUS)
<1>1. price[c] \in Nat \ {0} /\ price[b] \in Nat \ {0} BY DEF TypeOK
<1>2. positions[u].debt[b] \in Int /\ have \in Int BY DEF TypeOK, Position
<1>3. wanted \in Int
  <2>1. (positions[u].debt[b] + 1) \div 2 \in Int BY <1>2
  <2> QED BY <2>1, MinOfTwo
<1>. HIDE DEF wanted, have
<1>4. worth \in Int
  <2>1. price[c] * 100 \in Nat \ {0} BY <1>1
  <2>2. wanted * price[b] \in Int BY <1>1, <1>3
  <2>3. wanted * price[b] * BONUS \in Int BY <2>2 DEF BONUS
  <2> QED BY <2>1, <2>3
<1>5. cover \in Int
  <2>1. price[b] * BONUS \in Nat \ {0} BY <1>1 DEF BONUS
  <2>2. have * price[c] \in Int BY <1>1, <1>2
  <2>3. have * price[c] * 100 \in Int BY <2>2
  <2> QED BY <2>1, <2>3
<1>6. \/ /\ liquidation(u, c, b, offer).cover = wanted
         /\ liquidation(u, c, b, offer).seize = worth
      \/ /\ liquidation(u, c, b, offer).cover = cover
         /\ liquidation(u, c, b, offer).seize = have
  BY DEF liquidation, wanted, have
<1> QED BY <1>2, <1>3, <1>4, <1>5, <1>6

\* A liquidation leaves numbers.
LEMMA LiquidatedOK ==
    ASSUME TypeOK, NEW u \in Users, NEW c, NEW b, CanLiquidate(u, c, b, wallet[b]),
           Liquidated(u, c, b, wallet[b])
    PROVE  /\ positions' \in [Users -> Position] /\ wallet' \in [TokenSet -> Int]
           /\ c \in TokenSet /\ b \in TokenSet
<1> DEFINE l == liquidation(u, c, b, wallet[b])
<1>1. c \in TokenSet /\ b \in TokenSet BY DEF CanLiquidate, TypeOK, Position
<1>2. l.cover \in Int /\ l.seize \in Int
  <2>1. wallet[b] \in Int BY <1>1 DEF TypeOK
  <2> QED BY <1>1, <2>1, LiquidationInt
<1>3. /\ positions' = [positions EXCEPT ![u].debt[b] = @ - l.cover, ![u].coll[c] = @ - l.seize]
      /\ wallet' = [wallet EXCEPT ![b] = @ - l.cover + (IF c = b THEN l.seize ELSE 0),
                                  ![c] = IF c = b THEN @ - l.cover + l.seize ELSE @ + l.seize]
  BY DEF Liquidated
<1>. HIDE DEF l
<1>4. wallet' \in [TokenSet -> Int] BY <1>1, <1>2, <1>3 DEF TypeOK
<1>5. positions' \in [Users -> Position]
  <2> DEFINE before == positions[u]
             debt  == [before.debt EXCEPT ![b] = @ - l.cover]
             coll  == [before.coll EXCEPT ![c] = @ - l.seize]
             after == [before EXCEPT !.debt = debt, !.coll = coll]
  <2>1. before \in Position BY DEF TypeOK
  <2>2. debt \in [TokenSet -> Int] /\ coll \in [TokenSet -> Int] BY <1>1, <1>2, <2>1 DEF Position
  <2>3. positions' = [positions EXCEPT ![u] = after] BY <1>3, <2>1 DEF Position
  <2>. HIDE DEF debt, coll
  <2>4. after \in Position BY <2>1, <2>2 DEF Position
  <2>. HIDE DEF after
  <2> QED BY <2>3, <2>4 DEF TypeOK
<1> QED BY <1>1, <1>4, <1>5

\* Whom the bot is at is a user of the pool.
LEMMA AtUser ==
    ASSUME BotOK(bot), bot.todo # << >>
    PROVE  user \in Users /\ Tail(bot.todo) \in Seq(Users)
BY DEF BotOK, user

-----------------------------------------------------------------------------
(* The handlers.                                                             *)

Handled == {"user", "delay", "exited"}

\* The handlers of the user and of the round forget the sale.
LEMMA Handlers ==
    ASSUME BotOK(bot)
    PROVE  /\ BotOK(roundFails(bot)) /\ roundFails(bot).pc = "delay"
           /\ bot.todo # << >> => BotOK(nextUser(bot)) /\ nextUser(bot).pc = "user"
<1>1. BotOK(roundFails(bot)) /\ roundFails(bot).pc = "delay"
  <2>1. DOMAIN Leave(bot) = DOMAIN bot BY DEF Leave
  <2>2. roundFails(bot).pc = "delay" /\ roundFails(bot).todo = << >>
    BY <2>1 DEF BotOK, roundFails
  <2>3. DOMAIN roundFails(bot) = DOMAIN bot BY <2>1 DEF roundFails
  <2> QED BY <2>2, <2>3 DEF BotOK
<1>2. ASSUME bot.todo # << >> PROVE BotOK(nextUser(bot)) /\ nextUser(bot).pc = "user"
  BY <1>2, AtUser DEF BotOK, nextUser, Leave
<1> QED BY <1>1, <1>2

\* What comes of an error in the sale: the bot forgets it, or tries it again.
LEMMA Retries ==
    ASSUME BotOK(bot), bot.pc \in {"swapRate", "swapEstimate", "swapSend"}
    PROVE  /\ BotOK(retried(bot))
           /\ \/ retried(bot).pc = "user"
              \/ /\ retried(bot).pc = "swapRate" /\ retried(bot).collateral = bot.collateral
                 /\ retried(bot).borrow = bot.borrow /\ retried(bot).before = bot.before
                 /\ retried(bot).profit = bot.profit
<1>1. bot.todo # << >> BY DEF BotOK
<1>2. CASE bot.tries = 0 BY <1>1, <1>2, Handlers DEF retried, userFails
<1>3. CASE bot.tries # 0 BY <1>1, <1>3 DEF retried, BotOK
<1> QED BY <1>2, <1>3

\* What comes of an error at any step.
LEMMA Errors ==
    ASSUME BotOK(bot),
           bot.pc \in {"approve", "scan", "accounts", "rates", "positions", "estimate", "before",
                       "send", "profit", "show", "swapRate", "swapEstimate", "swapSend"}
    PROVE  /\ BotOK(afterError(bot))
           /\ \/ afterError(bot).pc \in Handled
              \/ /\ bot.pc \in {"swapRate", "swapEstimate", "swapSend"}
                 /\ afterError(bot) = retried(bot)
<1>1. CASE bot.pc = "approve" BY <1>1 DEF afterError, To, BotOK, Handled
<1>2. CASE bot.pc \in {"scan", "accounts", "rates", "positions"}
  BY <1>2, Handlers DEF afterError, Handled
<1>3. CASE bot.pc \in {"estimate", "before", "send", "profit", "show"}
  <2>1. bot.todo # << >> BY <1>3 DEF BotOK
  <2> QED BY <1>3, <2>1, Handlers DEF afterError, userFails, Handled
<1>4. CASE bot.pc \in {"swapRate", "swapEstimate", "swapSend"}
  BY <1>4, Retries DEF afterError
<1> QED BY <1>1, <1>2, <1>3, <1>4

\* One more fault costs one more profit.
LEMMA OneMore ==
    ASSUME NEW f \in Nat, NEW n \in Nat
    PROVE  (f + 1) * n = f * n + n /\ f * n \in Nat
OBVIOUS

\* A bot that an error took back to the user or out of the round knows nothing of
\* a sale.
LEMMA Forgets == ASSUME NEW b, NEW w, NEW f, b.pc \in Handled PROVE Knows(b, w, f)
BY DEF Knows, Handled

\* What an error leaves is known of a sale that is tried again, with one more
\* fault or without.
LEMMA ErrorKnows ==
    ASSUME Sound, NEW b, NEW f \in {faults, faults + 1},
           \/ b.pc \in Handled
           \/ /\ bot.pc \in {"swapRate", "swapEstimate", "swapSend"} /\ b = retried(bot)
    PROVE  Knows(b, wallet, f)
<1>1. CASE b.pc \in Handled BY <1>1, Forgets
<1>2. CASE /\ bot.pc \in {"swapRate", "swapEstimate", "swapSend"} /\ b = retried(bot)
           /\ b.pc \notin Handled
  <2>1. /\ b.pc = "swapRate" /\ b.collateral = bot.collateral /\ b.borrow = bot.borrow
        /\ b.before = bot.before /\ b.profit = bot.profit
    BY <1>2, Retries DEF Sound, TypeOK, Handled
  <2>2. /\ bot.collateral \in TokenSet /\ bot.borrow \in TokenSet /\ bot.before \in Int
        /\ bot.profit \in Nat /\ bot.collateral # bot.borrow
        /\ wallet[bot.collateral] >= bot.before + bot.profit - faults * bot.profit
    BY <1>2 DEF Sound, Knows
  <2>3. wallet[bot.collateral] >= bot.before + bot.profit - f * bot.profit
    <3>1. faults \in Nat /\ wallet[bot.collateral] \in Int BY <2>2 DEF Sound, TypeOK
    <3>2. f * bot.profit = faults * bot.profit \/ f * bot.profit = faults * bot.profit + bot.profit
      BY <2>2, <3>1, OneMore
    <3>3. faults * bot.profit \in Nat BY <2>2, <3>1, OneMore
    <3> QED BY <2>2, <3>1, <3>2, <3>3
  <2> QED BY <2>1, <2>2, <2>3 DEF Knows
<1> QED BY <1>1, <1>2

-----------------------------------------------------------------------------
(* The steps.                                                                *)

\* A step of the bot that writes to no contract.
LEMMA Reads ==
    ASSUME Sound, UNCHANGED <<chain, faults>>, BotOK(bot'), Knows(bot', wallet, faults)
    PROVE  Sound'
BY DEF Sound, TypeOK, chain, BotOK, Knows

LEMMA BeforeUser ==
    ASSUME Sound, Approve \/ Scan \/ ReadAccounts \/ PickUser \/ ReadRates \/ ReadPositions
    PROVE  Sound'
<1>1. BotOK(bot) BY DEF Sound, TypeOK
<1>2. ASSUME NEW p \in {"scan", "user", "delay", "rates", "positions", "estimate"}, bot'.pc = p
      PROVE  Knows(bot', wallet, faults)
  BY <1>2 DEF Knows
<1>3. CASE Approve
  <2>1. CASE bot' = To("scan") /\ UNCHANGED approved
    <3>1. BotOK(bot') /\ bot'.pc = "scan" BY <1>1, <2>1 DEF BotOK, To
    <3> QED BY <1>2, <1>3, <2>1, <3>1, Reads DEF Approve, chain
  <2>2. CASE UNCHANGED bot
    <3>1. approved' \subseteq TokenSet BY <1>3, <2>2 DEF Approve, Sound, TypeOK
    <3>2. TypeOK' BY <1>3, <2>2, <3>1 DEF Approve, Sound, TypeOK, BotOK
    <3> QED BY <1>3, <2>2, <3>2 DEF Approve, Sound, Knows
  <2> QED BY <1>3, <2>1, <2>2 DEF Approve, Goes
<1>4. CASE Scan
  <2>1. DOMAIN bot' = DOMAIN bot /\ bot'.pc = "accounts" /\ bot'.todo = bot.todo
    BY <1>1, <1>4 DEF Scan, Goes, BotOK
  <2>2. BotOK(bot') BY <1>1, <2>1 DEF BotOK
  <2>3. Knows(bot', wallet, faults) BY <2>1 DEF Knows
  <2> QED BY <1>4, <2>2, <2>3, Reads DEF Scan
<1>5. CASE ReadAccounts
  <2>1. PICK todo \in [1..Cardinality(risky(bot.users)) -> risky(bot.users)] :
           bot' = [To("user") EXCEPT !.todo = todo]
    BY <1>5 DEF ReadAccounts, Goes
  <2>2. risky(bot.users) \subseteq Users BY DEF risky, usersData
  <2>3. Cardinality(risky(bot.users)) \in Nat
    <3>1. IsFiniteSet(risky(bot.users)) BY <2>2, LiquidationBotConstants, FS_Subset
    <3> QED BY <3>1, FS_CardinalityType
  <2>4. todo \in Seq(Users) BY <2>2, <2>3
  <2>5. BotOK(bot') /\ bot'.pc = "user" BY <1>1, <2>1, <2>4 DEF BotOK, To
  <2> QED BY <1>2, <1>5, <2>5, Reads DEF ReadAccounts
<1>6. CASE PickUser
  <2>1. BotOK(bot') /\ bot'.pc \in {"delay", "rates"}
    BY <1>1, <1>6 DEF PickUser, Goes, To, BotOK
  <2> QED BY <1>2, <1>6, <2>1, Reads DEF PickUser
<1>7. CASE ReadRates
  <2>1. BotOK(bot') /\ bot'.pc = "positions"
    BY <1>1, <1>7 DEF ReadRates, Goes, To, BotOK, At
  <2> QED BY <1>2, <1>7, <2>1, Reads DEF ReadRates
<1>8. CASE ReadPositions
  <2>1. CASE bot' = roundFails(bot)
    BY <1>1, <1>2, <1>8, <2>1, Handlers, Reads DEF ReadPositions
  <2>2. CASE bot' # roundFails(bot)
    <3>1. BotOK(bot') /\ bot'.pc = "estimate"
      BY <1>1, <1>8, <2>2 DEF ReadPositions, Goes, To, BotOK, At
    <3> QED BY <1>2, <1>8, <3>1, Reads DEF ReadPositions
  <2> QED BY <2>1, <2>2
<1> QED BY <1>3, <1>4, <1>5, <1>6, <1>7, <1>8

\* Up to the liquidation, and the liquidation.
LEMMA UpToTheLiquidation ==
    ASSUME Sound, Estimate \/ BalanceBefore \/ SendLiquidation
    PROVE  Sound'
<1>1. BotOK(bot) BY DEF Sound, TypeOK
<1>2. bot.todo # << >> /\ user \in Users
  <2>1. bot.todo # << >> BY <1>1 DEF BotOK, Estimate, BalanceBefore, SendLiquidation, At
  <2> QED BY <1>1, <2>1, AtUser
<1>3. BotOK(userFails(bot)) /\ userFails(bot).pc \in Handled
  BY <1>1, <1>2, Handlers DEF userFails, Handled
<1>4. CASE Estimate
  <2>1. CASE bot' = userFails(bot) BY <1>3, <1>4, <2>1, Forgets, Reads DEF Estimate
  <2>2. CASE bot' = To("before") /\ CanLiquidate(user, bot.collateral, bot.borrow, wallet[bot.borrow])
    <3>1. BotOK(bot') /\ bot'.pc = "before" /\ bot'.collateral = bot.collateral
          /\ bot'.borrow = bot.borrow
      BY <1>1, <1>2, <2>2 DEF To, BotOK
    <3>2. bot.collateral \in TokenSet /\ bot.borrow \in TokenSet
      BY <1>2, <2>2 DEF CanLiquidate, Sound, TypeOK, Position
    <3> QED BY <1>4, <3>1, <3>2, Reads DEF Estimate, Knows
  <2> QED BY <1>4, <2>1, <2>2 DEF Estimate, Goes
<1>5. CASE BalanceBefore
  <2>1. BotOK(bot') /\ bot'.pc = "send" /\ bot'.collateral = bot.collateral
        /\ bot'.borrow = bot.borrow /\ bot'.before = wallet[bot.collateral]
    BY <1>1, <1>2, <1>5 DEF BalanceBefore, Goes, To, BotOK
  <2>2. bot.collateral \in TokenSet /\ bot.borrow \in TokenSet
    BY <1>5 DEF BalanceBefore, At, Sound, Knows
  <2>3. wallet[bot.collateral] \in Int BY <2>2 DEF Sound, TypeOK
  <2> QED BY <1>5, <2>1, <2>2, <2>3, Reads DEF BalanceBefore, Knows
<1>6. CASE SendLiquidation
  <2>1. CASE bot' = userFails(bot) /\ UNCHANGED <<positions, wallet>>
    BY <1>3, <1>6, <2>1, Forgets, Reads DEF SendLiquidation, chain
  <2>2. CASE /\ CanLiquidate(user, bot.collateral, bot.borrow, wallet[bot.borrow])
             /\ Liquidated(user, bot.collateral, bot.borrow, wallet[bot.borrow])
             /\ bot' = To("profit")
    <3>1. BotOK(bot') /\ bot'.pc = "profit" /\ bot'.collateral = bot.collateral
          /\ bot'.borrow = bot.borrow /\ bot'.before = bot.before
      BY <1>1, <1>2, <2>2 DEF To, BotOK
    <3>2. /\ positions' \in [Users -> Position] /\ wallet' \in [TokenSet -> Int]
          /\ bot.collateral \in TokenSet /\ bot.borrow \in TokenSet
      BY <1>2, <2>2, LiquidatedOK DEF Sound
    <3>3. bot.before \in Int BY <1>6 DEF SendLiquidation, At, Sound, Knows
    <3>4. TypeOK' BY <1>6, <3>1, <3>2 DEF SendLiquidation, Sound, TypeOK, BotOK
    <3> QED BY <3>1, <3>2, <3>3, <3>4 DEF Sound, Knows
  <2> QED BY <1>6, <2>1, <2>2 DEF SendLiquidation, Goes
<1> QED BY <1>4, <1>5, <1>6

\* What a sale takes.
LEMMA SoldOK ==
    ASSUME Sound, At("swapSend"), CanSwap, Swapped
    PROVE  /\ wallet' \in [TokenSet -> Int]
           /\ wallet'[bot.collateral] = wallet[bot.collateral] - bot.profit
<1>1. /\ bot.collateral \in TokenSet /\ bot.borrow \in TokenSet
      /\ bot.profit \in Nat /\ bot.collateral # bot.borrow
  BY DEF At, Sound, Knows
<1>2. amountOut(bot.profit, bot.collateral, bot.borrow) \in Int BY <1>1, QuoteInt DEF Sound
<1> QED BY <1>1, <1>2 DEF Swapped, Sound, TypeOK

\* The profit and the sale.
LEMMA TheSale ==
    ASSUME Sound, Profit \/ SwapRate \/ SwapEstimate \/ SwapSend
    PROVE  Sound'
<1>1. BotOK(bot) BY DEF Sound, TypeOK
<1>2. /\ bot.todo # << >> /\ bot.collateral \in TokenSet /\ bot.borrow \in TokenSet
      /\ bot.before \in Int /\ wallet[bot.collateral] \in Int /\ faults \in Nat
  BY DEF Sound, TypeOK, BotOK, Knows, Profit, SwapRate, SwapEstimate, SwapSend, At
<1>3. CASE Profit
  <2> DEFINE made == profit(wallet[bot.collateral])
  <2>1. made = wallet[bot.collateral] - bot.before BY DEF profit
  <2>2. CASE bot' = userFails(bot)
    BY <1>1, <1>2, <1>3, <2>2, Handlers, Forgets, Reads DEF Profit, userFails, Handled
  <2>3. CASE bot' = To("show") /\ bot.collateral = bot.borrow
    <3>1. BotOK(bot') /\ bot'.pc = "show" /\ bot'.collateral = bot.collateral
          /\ bot'.borrow = bot.borrow /\ bot'.before = bot.before
      BY <1>1, <1>2, <2>3 DEF To, BotOK
    <3> QED BY <1>2, <1>3, <2>3, <3>1, Reads DEF Profit, Knows
  <2>4. CASE /\ bot' = [To("swapRate") EXCEPT !.profit = made, !.tries = RETRIES]
             /\ bot.collateral # bot.borrow /\ ~(made < 0)
    <3>1. BotOK(bot') /\ bot'.pc = "swapRate" /\ bot'.collateral = bot.collateral
          /\ bot'.borrow = bot.borrow /\ bot'.before = bot.before /\ bot'.profit = made
      BY <1>1, <1>2, <2>4 DEF To, BotOK
    <3>2. made \in Nat BY <1>2, <2>1, <2>4
    <3>3. wallet[bot.collateral] >= bot.before + made - faults * made
      <4>1. faults * made \in Nat BY <1>2, <3>2, OneMore
      <4> QED BY <1>2, <2>1, <4>1
    <3>. HIDE DEF made
    <3> QED BY <1>2, <1>3, <2>4, <3>1, <3>2, <3>3, Reads DEF Profit, Knows
  <2> QED BY <1>3, <2>2, <2>3, <2>4 DEF Profit, Goes
<1>4. CASE SwapRate \/ SwapEstimate \/ SwapSend
  <2>1. /\ bot.pc \in {"swapRate", "swapEstimate", "swapSend"}
        /\ bot.profit \in Nat /\ bot.collateral # bot.borrow
        /\ wallet[bot.collateral] >= bot.before + bot.profit - faults * bot.profit
    BY <1>4 DEF SwapRate, SwapEstimate, SwapSend, At, Sound, Knows
  <2>2. CASE bot' = retried(bot) /\ UNCHANGED <<chain, faults>>
    <3>1. BotOK(bot') BY <1>1, <2>1, <2>2, Retries
    <3>2. Knows(bot', wallet, faults) BY <2>1, <2>2, ErrorKnows
    <3> QED BY <2>2, <3>1, <3>2, Reads
  <2>3. ASSUME NEW p \in {"swapEstimate", "swapSend"}, NEW out,
               bot' = [bot EXCEPT !.pc = p, !.minOut = out], UNCHANGED <<chain, faults>>
        PROVE  Sound'
    <3>1. BotOK(bot') /\ bot'.pc = p /\ bot'.collateral = bot.collateral
          /\ bot'.borrow = bot.borrow /\ bot'.before = bot.before /\ bot'.profit = bot.profit
      BY <1>1, <1>2, <2>3 DEF BotOK
    <3> QED BY <1>2, <2>1, <2>3, <3>1, Reads DEF Knows
  <2>4. CASE SwapRate
    <3> DEFINE out == (amountOut(bot.profit, bot.collateral, bot.borrow) * 999) \div 1000
    <3>1. bot' = [To("swapEstimate") EXCEPT !.minOut = out] BY <2>4 DEF SwapRate, Goes
    <3>. HIDE DEF out
    <3>2. bot' = [bot EXCEPT !.pc = "swapEstimate", !.minOut = out] BY <1>1, <3>1 DEF To, BotOK
    <3>3. UNCHANGED <<chain, faults>> BY <2>4 DEF SwapRate
    <3> QED BY <2>3, <3>2, <3>3
  <2>5. CASE SwapEstimate
    <3>1. CASE bot' = To("swapSend")
      <4>1. bot' = [bot EXCEPT !.pc = "swapSend", !.minOut = bot.minOut]
        BY <1>1, <3>1 DEF To, BotOK
      <4> QED BY <2>3, <2>5, <4>1 DEF SwapEstimate
    <3> QED BY <2>2, <2>5, <3>1 DEF SwapEstimate, Goes
  <2>6. CASE SwapSend
    <3>1. CASE CanSwap /\ Swapped /\ bot' = To("show")
      <4>1. /\ wallet' \in [TokenSet -> Int]
            /\ wallet'[bot.collateral] = wallet[bot.collateral] - bot.profit
        BY <2>6, <3>1, SoldOK DEF SwapSend
      <4>2. BotOK(bot') /\ bot'.pc = "show" /\ bot'.collateral = bot.collateral
            /\ bot'.borrow = bot.borrow /\ bot'.before = bot.before /\ bot'.profit = bot.profit
        BY <1>1, <1>2, <3>1 DEF To, BotOK
      <4>3. wallet'[bot.collateral] >= bot.before - faults * bot.profit
        <5> DEFINE held == wallet[bot.collateral]
                   held2 == wallet'[bot.collateral]
                   lost == faults * bot.profit
        <5>1. lost \in Nat BY <1>2, <2>1, OneMore
        <5>2. held \in Int /\ bot.before \in Int /\ bot.profit \in Nat BY <1>2, <2>1
        <5>3. held >= bot.before + bot.profit - lost /\ held2 = held - bot.profit
          BY <2>1, <4>1
        <5>. HIDE DEF held, held2, lost
        <5>4. held2 >= bot.before - lost BY <5>1, <5>2, <5>3
        <5> QED BY <5>4 DEF held2, lost
      <4>4. TypeOK' BY <2>6, <4>1, <4>2 DEF SwapSend, Sound, TypeOK, BotOK
      <4>5. Knows(bot, wallet, faults)'
        BY <1>2, <2>1, <2>6, <4>2, <4>3 DEF SwapSend, Knows
      <4> QED BY <4>4, <4>5 DEF Sound
    <3>2. CASE bot' = retried(bot) /\ UNCHANGED wallet
      BY <2>2, <2>6, <3>2 DEF SwapSend, chain
    <3> QED BY <2>6, <3>1, <3>2 DEF SwapSend, Goes
  <2> QED BY <1>4, <2>4, <2>5, <2>6
<1> QED BY <1>3, <1>4

\* The end of a user and of a round.
LEMMA TheEnds == ASSUME Sound, ShowBalance \/ Delay PROVE Sound'
<1>1. BotOK(bot) BY DEF Sound, TypeOK
<1>2. CASE ShowBalance
  <2>1. bot.todo # << >> BY <1>1, <1>2 DEF ShowBalance, At, BotOK
  <2> QED BY <1>1, <1>2, <2>1, Handlers, Forgets, Reads DEF ShowBalance, Goes, Handled
<1>3. CASE Delay
  <2>1. BotOK(bot') /\ bot'.pc = "scan" BY <1>1, <1>3 DEF Delay, Goes, To, BotOK
  <2> QED BY <1>3, <2>1, Reads DEF Delay, Knows
<1> QED BY <1>2, <1>3

\* The bot starts, or starts again, with nothing under way.
LEMMA Starts == BotOK(Start) /\ \A w, f : Knows(Start, w, f)
BY DEF Start, BotOK, Knows

\* The failures.
LEMMA TheFailures == ASSUME Sound, CallFails \/ AnswerLost \/ Restart PROVE Sound'
<1>1. BotOK(bot) /\ faults \in Nat BY DEF Sound, TypeOK
<1>2. faults' = faults + 1 BY DEF CallFails, AnswerLost, Restart, Fault
<1>3. CASE Restart
  <2>1. bot' = Start /\ UNCHANGED chain BY <1>3 DEF Restart, Goes
  <2>2. BotOK(bot') /\ Knows(bot', wallet', faults') BY <2>1, Starts
  <2>3. faults' \in Nat BY <1>1, <1>2
  <2> QED BY <2>1, <2>2, <2>3 DEF chain, Sound, TypeOK, BotOK, Knows
<1>4. CASE CallFails /\ bot.pc \in {"approve", "scan", "accounts", "rates", "positions", "estimate",
                                    "before", "send", "profit", "show", "swapRate",
                                    "swapEstimate", "swapSend"}
  <2>1. BotOK(bot') /\ bot' = afterError(bot) BY <1>1, <1>4, Errors DEF CallFails, Goes
  <2>2. Knows(bot', wallet, faults + 1) BY <1>1, <1>4, <2>1, Errors, ErrorKnows
  <2> QED BY <1>1, <1>2, <1>4, <2>1, <2>2 DEF CallFails, chain, Sound, TypeOK, BotOK, Knows
<1>5. CASE AnswerLost
  <2>1. CASE At("send")
    <3>1. bot.todo # << >> /\ user \in Users
      <4>1. bot.todo # << >> BY <1>1, <2>1 DEF At, BotOK
      <4> QED BY <1>1, <4>1, AtUser
    <3>2. positions' \in [Users -> Position] /\ wallet' \in [TokenSet -> Int]
      BY <1>5, <2>1, <3>1, LiquidatedOK DEF AnswerLost, At, Sound
    <3>3. BotOK(bot') /\ bot'.pc \in Handled
      BY <1>1, <1>5, <2>1, Errors DEF AnswerLost, Goes, At
    <3>4. TypeOK' BY <1>1, <1>2, <1>5, <3>2, <3>3 DEF AnswerLost, Sound, TypeOK, BotOK
    <3> QED BY <3>3, <3>4 DEF Sound, Knows, Handled
  <2>2. CASE At("swapSend")
    <3>1. CanSwap /\ Swapped /\ UNCHANGED positions BY <1>5, <2>2 DEF AnswerLost, At
    <3>2. /\ wallet' \in [TokenSet -> Int]
          /\ wallet'[bot.collateral] = wallet[bot.collateral] - bot.profit
      BY <2>2, <3>1, SoldOK
    <3>3. BotOK(bot') /\ bot' = afterError(bot)
      BY <1>1, <1>5, <2>2, Errors DEF AnswerLost, Goes, At
    <3>4. TypeOK' BY <1>1, <1>2, <1>5, <3>1, <3>2, <3>3 DEF AnswerLost, Sound, TypeOK, BotOK
    <3>5. CASE bot'.pc \in Handled BY <3>4, <3>5 DEF Sound, Knows, Handled
    <3>6. CASE bot'.pc \notin Handled
      <4>1. /\ bot'.pc = "swapRate" /\ bot'.collateral = bot.collateral
            /\ bot'.borrow = bot.borrow /\ bot'.before = bot.before
            /\ bot'.profit = bot.profit
        BY <1>1, <2>2, <3>3, <3>6, Errors, Retries DEF At, Handled
      <4>2. /\ bot.collateral \in TokenSet /\ bot.borrow \in TokenSet /\ bot.before \in Int
            /\ bot.profit \in Nat /\ bot.collateral # bot.borrow
            /\ wallet[bot.collateral] >= bot.before + bot.profit - faults * bot.profit
            /\ wallet[bot.collateral] \in Int
        BY <2>2 DEF At, Sound, Knows, TypeOK
      <4>3. wallet'[bot.collateral] >= bot.before + bot.profit - (faults + 1) * bot.profit
        <5>1. (faults + 1) * bot.profit = faults * bot.profit + bot.profit
              /\ faults * bot.profit \in Nat
          BY <1>1, <4>2, OneMore
        <5> QED BY <3>2, <4>2, <5>1
      <4> QED BY <1>2, <3>4, <4>1, <4>2, <4>3 DEF Sound, Knows
    <3> QED BY <3>5, <3>6
  <2> QED BY <1>5, <2>1, <2>2 DEF AnswerLost
<1>6. CallFails => bot.pc \in {"approve", "scan", "accounts", "rates", "positions", "estimate",
                               "before", "send", "profit", "show", "swapRate",
                               "swapEstimate", "swapSend"}
  BY <1>1 DEF CallFails, BotOK
<1> QED BY <1>3, <1>4, <1>5, <1>6

\* Users, other liquidators and the market.
LEMMA TheOthers ==
    ASSUME Sound, NEW t \in TokenSet,
           PriceMove(t) \/ \E u \in Users : Borrow(u, t) \/ Repaid(u, t)
    PROVE  Sound'
<1>1. UNCHANGED <<wallet, approved, bot, faults>> BY DEF PriceMove, Borrow, Repaid, Move
<1>2. CASE PriceMove(t)
  <2>1. price' \in [TokenSet -> Nat \ {0}] /\ positions' = positions
    BY <1>2, LiquidationBotConstants DEF PriceMove, Sound, TypeOK, TokenSet
  <2> QED BY <1>1, <2>1 DEF Sound, TypeOK, BotOK, Knows
<1>3. ASSUME NEW u \in Users, Borrow(u, t) \/ Repaid(u, t) PROVE Sound'
  <2>1. PICK n \in Int : positions' = [positions EXCEPT ![u].debt[t] = n]
    <3>1. positions[u].debt[t] + 1 \in Int BY DEF Sound, TypeOK, Position
    <3>2. CASE Borrow(u, t)
      <4>1. positions' = [positions EXCEPT ![u].debt[t] = positions[u].debt[t] + 1]
        BY <3>2 DEF Borrow
      <4> QED BY <3>1, <4>1
    <3> QED BY <1>3, <3>2 DEF Repaid
  <2>2. positions' \in [Users -> Position] BY <2>1 DEF Sound, TypeOK, Position
  <2>3. price' = price BY <1>3 DEF Borrow, Repaid
  <2> QED BY <1>1, <2>2, <2>3 DEF Sound, TypeOK, BotOK, Knows
<1> QED BY <1>2, <1>3

\* The bot sells what it seized and no more than one profit for each fault, however
\* often the exchange refuses, the prices move or the process is started again.
THEOREM SoldWhatItSeized == Spec => []SellsOnlyWhatItSeized
<1>1. Init => Sound
  <2> SUFFICES ASSUME Init PROVE Sound OBVIOUS
  <2>1. /\ positions \in [Users -> Position] /\ price \in [TokenSet -> Nat \ {0}]
        /\ wallet \in [TokenSet -> Int]
    BY LiquidationBotConstants DEF Init, Position, TokenSet
  <2> QED BY <2>1, Starts DEF Init, Sound, TypeOK
<1>2. Sound /\ [Next]_vars => Sound'
  <2>1. Sound /\ UNCHANGED vars => Sound'
    BY DEF vars, Sound, TypeOK, BotOK, Knows
  <2>2. Sound /\ Next => Sound'
    BY BeforeUser, UpToTheLiquidation, TheSale, TheEnds, TheFailures, TheOthers
    DEF Next, BotNext
  <2> QED BY <2>1, <2>2
<1>3. Sound => SellsOnlyWhatItSeized
  <2> SUFFICES ASSUME Sound, bot.collateral # bot.borrow,
                      bot.pc \in {"swapRate", "swapEstimate", "swapSend", "show"}
               PROVE  wallet[bot.collateral] >= bot.before - faults * bot.profit
    BY DEF SellsOnlyWhatItSeized
  <2>1. /\ wallet[bot.collateral] \in Int /\ bot.before \in Int /\ bot.profit \in Nat
        /\ faults \in Nat
    BY DEF Sound, TypeOK, Knows
  <2>2. faults * bot.profit \in Nat BY <2>1, OneMore
  <2> QED BY <2>1, <2>2 DEF Sound, Knows
<1> QED BY <1>1, <1>2, <1>3, PTL DEF Spec
=============================================================================
