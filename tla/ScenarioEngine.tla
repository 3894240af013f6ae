--------------------------- MODULE ScenarioEngine ---------------------------
(* The scenario tests of test-suites/test-aave: scenario-engine.ts runs the    *)
(* actions of a story one after the other; actions.ts reads the reserve and    *)
(* the user, sends a transaction, reads them again and compares what it finds  *)
(* with the state that calculations.ts predicts (ExpectedState), a second,     *)
(* independent implementation of the pool.  Every story of at most MaxActions  *)
(* actions over the instance's users, reserves and amounts is explored.        *)
EXTENDS LendingPool

CONSTANTS
    MaxActions,   \* bound on the length of a story
    BlockDelays,  \* time between the read before a transaction and its block
    TimeTravels   \* what a borrow action lets pass before the read after it

ASSUME ScenarioConstants ==
    /\ MaxActions \in Nat
    /\ BlockDelays \subseteq Nat
    /\ TimeTravels \subseteq Nat

VARIABLES
    pc,          \* "idle", "read", "mined", "travelled" or "compared"
    action,      \* the action being executed
    before,      \* reserve and user data read before the transaction
    txTimestamp, \* the time of its block
    gaps,        \* the fields in which the comparison found a difference
    executed     \* how many actions were started

scenarioVars == <<poolVars, pc, action, before, txTimestamp, gaps, executed>>

Expected == INSTANCE ExpectedState

-----------------------------------------------------------------------------
(* What the tests read (utils/helpers.ts, through AaveProtocolDataProvider).  *)

getReserveData(a) ==
    LET r == reserves[a]
        stableDebt   == stableTotalSupply(r.stableDebt, now)
        variableDebt == scaledTotalSupplyOf(r.variableDebt, getNormalizedDebt(r, now))
        liquidity    == r.cash + stableDebt + variableDebt
    IN  [totalLiquidity |-> liquidity,
         utilizationRate |->
            IF liquidity = 0 THEN 0 ELSE Expected!bnRayDiv(stableDebt + variableDebt, liquidity),
         availableLiquidity |-> r.cash,
         totalStableDebt |-> stableDebt,
         totalVariableDebt |-> variableDebt,
         liquidityRate |-> r.currentLiquidityRate,
         variableBorrowRate |-> r.currentVariableBorrowRate,
         stableBorrowRate |-> r.currentStableBorrowRate,
         averageStableBorrowRate |-> r.stableDebt.avgStableRate,
         liquidityIndex |-> r.liquidityIndex,
         variableBorrowIndex |-> r.variableBorrowIndex,
         lastUpdateTimestamp |-> r.lastUpdateTimestamp,
         totalStableDebtLastUpdated |-> r.stableDebt.totalSupplyTimestamp,
         principalStableDebt |-> r.stableDebt.totalSupply,
         scaledVariableDebt |-> r.variableDebt.totalSupply,
         reserveFactor |-> Factor(a)]

getUserData(a, user, sender) ==
    LET r == reserves[a]
    IN  [scaledATokenBalance |-> r.aToken.balances[user],
         currentATokenBalance |-> aTokenBalance(r, user),
         currentStableDebt |-> stableDebtOf(r, user),
         currentVariableDebt |-> variableDebtOf(r, user),
         principalStableDebt |-> r.stableDebt.balances[user],
         scaledVariableDebt |-> r.variableDebt.balances[user],
         stableBorrowRate |-> r.stableDebt.usersStableRate[user],
         liquidityRate |-> r.currentLiquidityRate,
         usageAsCollateralEnabled |-> a \in usersConfig[user].collateral,
         stableRateLastUpdated |-> r.stableDebt.timestamps[user],
         walletBalance |-> wallets[a][sender]]

\* The account a comparison is about, and the one whose wallet it reads.
subject(x) == x.onBehalfOf

payer(x) == IF x.name \in {"deposit", "borrow"} THEN x.user ELSE x.onBehalfOf

getContractsData(x) ==
    [reserve |-> getReserveData(x.reserve),
     user |-> getUserData(x.reserve, subject(x), payer(x)),
     timestamp |-> now]

-----------------------------------------------------------------------------
(* The actions of a story.                                                   *)

act(name, user, reserve, amount, mode, onBehalfOf) ==
    [name |-> name, user |-> user, reserve |-> reserve, amount |-> amount, mode |-> mode,
     onBehalfOf |-> onBehalfOf]

NoAction == [name |-> "none"]

NoGaps == [reserve |-> {}, user |-> {}]

NoData == [reserve |-> NoAction, user |-> NoAction, timestamp |-> 0]

\* The test's signers; the treasury is not one of them.
accounts == Users \ {Treasury}

withAmounts ==
    UNION {{act("deposit", u, a, x, VARIABLE_MODE, v), act("borrow", u, a, x, mode, v)} :
              u \in accounts, a \in Assets, x \in Amounts, mode \in InterestRateMode, v \in accounts}

withRequests ==
    UNION {{act("withdraw", u, a, x, VARIABLE_MODE, u), act("repay", u, a, x, mode, v)} :
              u \in accounts, a \in Assets, x \in Requests, mode \in InterestRateMode, v \in accounts}

others ==
    UNION {{act("swapBorrowRateMode", u, a, 0, mode, u),
            act("rebalanceStableBorrowRate", u, a, 0, STABLE, v),
            act("setUseAsCollateral", u, a, x, VARIABLE_MODE, u)} :
              u \in accounts, a \in Assets, x \in {0, 1}, mode \in InterestRateMode, v \in accounts}

Actions == withAmounts \cup withRequests \cup others

\* The transaction of an action.
transaction(x) ==
    \/ x.name = "deposit" /\ Deposit(x.user, x.reserve, x.amount, x.onBehalfOf)
    \/ x.name = "withdraw" /\ Withdraw(x.user, x.reserve, x.amount, x.user)
    \/ x.name = "borrow" /\ Borrow(x.user, x.reserve, x.amount, x.mode, x.onBehalfOf)
    \/ x.name = "repay" /\ Repay(x.user, x.reserve, x.amount, x.mode, x.onBehalfOf)
    \/ x.name = "swapBorrowRateMode" /\ SwapBorrowRateMode(x.user, x.reserve, x.mode)
    \/ x.name = "rebalanceStableBorrowRate" /\ RebalanceStableBorrowRate(x.reserve, x.onBehalfOf)
    \/ x.name = "setUseAsCollateral"
         /\ SetUserUseReserveAsCollateral(x.user, x.reserve, x.amount = 1)

-----------------------------------------------------------------------------
(* The comparison of expectEqual: every number within three units.           *)

reserveKeys ==
    {"totalLiquidity", "utilizationRate", "availableLiquidity", "totalStableDebt",
     "totalVariableDebt", "liquidityRate", "variableBorrowRate", "stableBorrowRate",
     "averageStableBorrowRate", "liquidityIndex", "variableBorrowIndex",
     "principalStableDebt", "scaledVariableDebt"}

userKeys ==
    {"scaledATokenBalance", "currentATokenBalance", "currentStableDebt",
     "currentVariableDebt", "principalStableDebt", "scaledVariableDebt", "stableBorrowRate",
     "liquidityRate", "stableRateLastUpdated", "walletBalance"}

almostEqualOrEqual(actual, expected) == actual - expected \in -3 .. 3

differing(keys, actual, expected) == {k \in keys : ~almostEqualOrEqual(actual[k], expected[k])}

flagDiffers(actual, expected) ==
    IF actual.usageAsCollateralEnabled = expected.usageAsCollateralEnabled
    THEN {}
    ELSE {"usageAsCollateralEnabled"}

differences(actual, reserve, user) ==
    [reserve |-> differing(reserveKeys, actual.reserve, reserve),
     user |-> differing(userKeys, actual.user, user) \cup flagDiffers(actual.user, user)]

\* One operator per function of actions.ts: what the test then reads, against what
\* it computes from the reserve r and the user u it read before a block at t.
deposit(actual, x, r, u, t) ==
    LET after == Expected!calcExpectedReserveDataAfterDeposit(x.amount, r, t)
    IN  differences(actual, after,
                    Expected!calcExpectedUserDataAfterDeposit(x.amount, r, after, u, t))

withdraw(actual, x, r, u, t) ==
    LET after == Expected!calcExpectedReserveDataAfterWithdraw(x.amount, r, u, t)
    IN  differences(actual, after,
                    Expected!calcExpectedUserDataAfterWithdraw(x.amount, r, after, u, t))

borrow(actual, x, r, u, t) ==
    LET after == Expected!calcExpectedReserveDataAfterBorrow(x.amount, x.mode, r, t, now)
    IN  differences(actual, after,
                    Expected!calcExpectedUserDataAfterBorrow(x.amount, x.mode, r, after, u, t, now))

repay(actual, x, r, u, t) ==
    LET after == Expected!calcExpectedReserveDataAfterRepay(x.amount, x.mode, r, u, t)
    IN  differences(actual, after,
                    Expected!calcExpectedUserDataAfterRepay(x.amount, x.mode, r, after, u,
                                                            x.user = x.onBehalfOf, t, now))

\* The reserve is not compared.
setUseAsCollateral(actual, x, r, u, t) ==
    differences(actual, actual.reserve,
                Expected!calcExpectedUserDataAfterSetUseAsCollateral(x.amount = 1, u))

swapBorrowRateMode(actual, x, r, u, t) ==
    LET after == Expected!calcExpectedReserveDataAfterSwapRateMode(r, u, x.mode, t)
    IN  differences(actual, after,
                    Expected!calcExpectedUserDataAfterSwapRateMode(r, after, u, x.mode, t))

rebalanceStableBorrowRate(actual, x, r, u, t) ==
    LET after == Expected!calcExpectedReserveDataAfterStableRateRebalance(r, u, t)
    IN  differences(actual, after,
                    Expected!calcExpectedUserDataAfterStableRateRebalance(r, after, u, t))

compare(actual, x, r, u, t) ==
    CASE x.name = "deposit"                   -> deposit(actual, x, r, u, t)
      [] x.name = "withdraw"                  -> withdraw(actual, x, r, u, t)
      [] x.name = "borrow"                    -> borrow(actual, x, r, u, t)
      [] x.name = "repay"                     -> repay(actual, x, r, u, t)
      [] x.name = "setUseAsCollateral"        -> setUseAsCollateral(actual, x, r, u, t)
      [] x.name = "swapBorrowRateMode"        -> swapBorrowRateMode(actual, x, r, u, t)
      [] x.name = "rebalanceStableBorrowRate" -> rebalanceStableBorrowRate(actual, x, r, u, t)

-----------------------------------------------------------------------------
(* Running a story.                                                          *)

\* delegateBorrowAllowance reads and compares nothing but the allowance.
DelegateBorrowAllowance ==
    /\ pc = "idle"
    /\ executed < MaxActions
    /\ \E u, v \in accounts, a \in Assets, amount \in DelegationAmounts, mode \in InterestRateMode :
          /\ u # v
          /\ ApproveDelegation(u, a, mode, v, amount)
    /\ executed' = executed + 1
    /\ UNCHANGED <<pc, action, before, txTimestamp, gaps>>

ReadBefore ==
    /\ pc = "idle"
    /\ executed < MaxActions
    /\ \E x \in Actions, delay \in BlockDelays :
          /\ action' = x
          /\ before' = getContractsData(x)
          /\ delay = 0 \/ now + delay <= MaxTime
          /\ now' = now + delay
    /\ pc' = "read"
    /\ executed' = executed + 1
    /\ UNCHANGED <<reserves, configuration, usersConfig, allowances, wallets, prices, paused,
                   txTimestamp, gaps>>

Mine ==
    /\ pc = "read"
    /\ transaction(action)
    /\ txTimestamp' = now
    /\ pc' = "mined"
    /\ UNCHANGED <<action, before, gaps, executed>>

TimeTravel ==
    /\ pc = "mined"
    /\ action.name = "borrow"
    /\ \E days \in TimeTravels : now' = now + days
    /\ pc' = "travelled"
    /\ UNCHANGED <<reserves, configuration, usersConfig, allowances, wallets, prices, paused,
                   action, before, txTimestamp, gaps, executed>>

ReadAndCompare ==
    /\ pc \in {"mined", "travelled"}
    /\ gaps' = compare(getContractsData(action), action, before.reserve, before.user, txTimestamp)
    /\ pc' = "compared"
    /\ UNCHANGED <<poolVars, action, before, txTimestamp, executed>>

\* The next action, as if the comparison had been satisfied.
NextAction ==
    /\ pc = "compared"
    /\ pc' = "idle"
    /\ gaps' = NoGaps
    /\ action' = NoAction
    /\ before' = NoData
    /\ txTimestamp' = 0
    /\ UNCHANGED <<poolVars, executed>>

ScenarioInit ==
    /\ reserves = [a \in Assets |-> InitReserve]
    /\ configuration = InitialConfiguration
    /\ usersConfig = [u \in Users |-> [borrowing |-> {}, collateral |-> {}]]
    /\ allowances = [a \in Assets |-> [m \in InterestRateMode |->
                        [u \in Users |-> [v \in Users |-> 0]]]]
    /\ wallets = InitialWallets
    /\ prices = InitialPrices
    /\ paused = FALSE
    /\ now = 1
    /\ pc = "idle"
    /\ action = NoAction
    /\ before = NoData
    /\ txTimestamp = 0
    /\ gaps = NoGaps
    /\ executed = 0

ScenarioNext == DelegateBorrowAllowance \/ ReadBefore \/ Mine \/ TimeTravel \/ ReadAndCompare \/ NextAction

ScenarioSpec == ScenarioInit /\ [][ScenarioNext]_scenarioVars

-----------------------------------------------------------------------------
(* What the two implementations agree on: nothing differs but the fields named. *)

compared(name) == pc = "compared" /\ action.name = name

\* The block comes in the second in which the state was read.
atOnce == txTimestamp = before.timestamp

othersWithout(ledger) ==
    \A u \in Users \ {action.onBehalfOf} : reserves[action.reserve][ledger].balances[u] = 0

repaysAtMostTheDebt ==
    LET owed == IF action.mode = STABLE
                THEN Expected!stableDebtAt(before.user, txTimestamp)
                ELSE Expected!variableDebtAt(before.reserve, before.user, txTimestamp)
    IN  action.amount = MAX_UINT256 \/ action.amount <= owed

\* calculations.ts overwrites a depositor's principal with his variable debt
\* (line 81), and does not accrue the liquidity it adds to.
DepositAsExpected ==
    compared("deposit") /\ atOnce =>
        gaps.reserve = {} /\ gaps.user \subseteq {"principalStableDebt"}

WithdrawAsExpected == compared("withdraw") => gaps = NoGaps

\* The scaled debt predicted for a variable borrower is that of the whole reserve
\* (line 639).
BorrowAsExpected ==
    compared("borrow") /\ atOnce =>
        /\ gaps.reserve = {}
        /\ gaps.user \subseteq (IF action.mode = STABLE \/ othersWithout("variableDebt")
                             THEN {}
                             ELSE {"scaledVariableDebt", "currentVariableDebt"})

\* The two views of the stable debt are exchanged when the variable debt is
\* repaid (line 729).
RepayAsExpected ==
    compared("repay") /\ repaysAtMostTheDebt /\ atOnce =>
        /\ gaps.reserve = {}
        /\ gaps.user \subseteq (IF action.mode = STABLE
                             THEN {}
                             ELSE {"principalStableDebt", "currentStableDebt"})

SwapAsExpected == compared("swapBorrowRateMode") /\ atOnce => gaps = NoGaps

\* With a second stable borrower the rate predicted is the reserve's average
\* (line 1067).
RebalanceAsExpected ==
    compared("rebalanceStableBorrowRate") /\ othersWithout("stableDebt") => gaps = NoGaps

\* After every action of every story, the reserve and the user the test reads back
\* are the ones calculations.ts predicts from the reads before it: indexes, rates,
\* averages, both ledgers of debt, scaled balances, wallets and collateral flags
\* of two implementations that round at different places.  Withdrawals and
\* rebalancing are predicted even if time passes between the reads and the block,
\* borrowings even if it passes before the reads after it.
PredictedAsMined ==
    /\ DepositAsExpected /\ WithdrawAsExpected /\ BorrowAsExpected
    /\ RepayAsExpected /\ SwapAsExpected /\ RebalanceAsExpected
=============================================================================
