# Moola v2 in TLA+

Moola v2 is a fork of Aave v2 for the Celo chain: a lending pool in which users
deposit assets, borrow other assets against them at a variable or a stable rate,
and are liquidated when their collateral no longer covers their debt. Around the
contracts the repository keeps the programs that use them: a command line, two
bots, the tasks that deploy a market, and a test harness with an arithmetic of its
own. This directory models the contracts' core and these programs in TLA+, checks the
models with TLC on small instances and proves the most important facts for all
values of the constants with TLAPS.

Solidity files without a directory below `contracts/` are relative to
`contracts/protocol/`; all others to the repository's root.

## 1. Inventory of the system

| Component | State it keeps | Operations | Modelled |
|---|---|---|---|
| Fixed-point libraries `libraries/math` | none | ray, wad and percentage arithmetic rounding half up; linear and compounded interest | `WadRayMath` |
| Scaled tokens `tokenization/AToken.sol`, `VariableDebtToken.sol`, `IncentivizedERC20.sol` | scaled balances and scaled supply | mint, burn, transfer, mintToTreasury, transferOnLiquidation | `ScaledToken` |
| Stable debt token `tokenization/StableDebtToken.sol`, `DisabledStableDebtToken.sol` | principal, rate and timestamp per user; supply, average rate and timestamp of the total | mint, burn, balanceOf, totalSupply | `StableDebt`, `StableDebtToken` |
| Debt delegation `tokenization/base/DebtTokenBase.sol` | allowances per debt token | approveDelegation, spending by borrow | `LendingPool` |
| Rate strategy `lendingpool/DefaultReserveInterestRateStrategy.sol` | parameters | utilisation to three rates | `InterestRateStrategy` |
| Reserve logic `libraries/logic/ReserveLogic.sol` | two indexes, three rates, timestamp of every reserve | updateState, updateInterestRates, treasury mint, views | `ReserveLogic` |
| Account data, validations `libraries/logic/GenericLogic.sol`, `ValidationLogic.sol`, `libraries/configuration` | flags of every user (bitmap), configuration of every reserve (bitmap) | health factor, balance-decrease check, one validation per operation | `LendingPoolStorage`, `LendingPool` |
| Lending pool `lendingpool/LendingPool.sol`, `LendingPoolStorage.sol` | all of the above, pause flag | deposit, withdraw, borrow, repay, swap and rebalance of rates, collateral switch, transfer hook, pause | `LendingPool` |
| ... flash loans, listing, configuration setters | | flashLoan, initReserve, setConfiguration | planned |
| Collateral managers `lendingpool/LendingPoolCollateralManager*.sol` | run by delegatecall on the pool's state | liquidationCall, with or without a share for the treasury | `LendingPoolCollateralManager` |
| Configurator `lendingpool/LendingPoolConfigurator.sol` | none: writes the pool's configuration | list, set terms (modelled as the deployment uses them); freeze, deactivate, change parameters, pause | `Deployment`, partly |
| Addresses provider, registry, proxies `configuration/`, `libraries/aave-upgradeability` | addresses, implementations, revisions | register, set, initialise (modelled); upgrade | `Deployment`, partly |
| Auto repay `contracts/adapters/AutoRepay.sol` | health-factor window per user, whitelist | setMinMaxHealthFactor, whitelist, increaseHealthFactor with or without flash loan | `AutoRepay` |
| Auto-repay bot `bots/auto-repay-bot.js` | users and their limits, the next block to read (in memory) | an endless round: events, accounts, prices, quote, simulation with retries and smaller shares, sending | `AutoRepayBot` |
| Command line `cli.js` | none; allowances on chain | twenty-one commands: reads, approvals, simulation, transaction, revocation | `Cli` |
| Liquidation bot `cli.js:835-1148` | users, next block (in memory) | an endless round: events, riskiest users, choice of the pair, liquidation, sale of the proceeds | `LiquidationBot` |
| Test harness `test-suites/test-aave/helpers` | what was read before a transaction | run a story, predict reserve and user, compare | `ExpectedState`, `ScenarioEngine` |
| Deployment tasks `tasks/migrations`, `tasks/full`, `tasks/misc`, `helpers`, `contracts/deployments` | the address book (a JSON file) | seven tasks in order; repeat a task; list missing reserves | `Deployment`, `MarketListing` |
| Market configurations `markets` | constants | reserves, strategies, rates, contracts per network | `MarketConfigs` |
| Flash loans | | flashLoan, executeOperation | planned |
| Repay delegation helper `lendingpool/RepayDelegationHelper.sol` | none | one payment over both kinds of debt, rest deposited, calls in try/catch | planned |
| Exchange and leverage adapters `contracts/adapters` | none | swaps inside flash loans | not planned: an external exchange decides |
| Oracles `contracts/misc/*Oracle.sol` | price sources | getAssetPrice | environment |
| WETH gateway, v1 migrator, UI and wallet views, listing contracts, development tasks | none that survives a call | forwarding, views, straight-line administration | not modelled |

**How the parts interact.** A transaction enters `LendingPool`. The operation
reads balances from the tokens, lets `ValidationLogic` revert it (which values
the account through `GenericLogic` and the price oracle), then calls
`reserve.updateState()` (indexes, treasury mint through the aToken),
mints or burns tokens, calls `reserve.updateInterestRates()` with the liquidity
that is about to arrive or leave, changes the user's flags and moves the
underlying. The exact order differs per operation, and much of what can go wrong
is in that order: balances read before an index moves, rates computed before the
tokens move, flags set from either. An aToken transfer runs the other way round:
the token moves the balances and calls the pool's `finalizeTransfer`, which
checks the account afterwards. A liquidation is executed by `delegatecall` in a
collateral manager which works on the pool's storage.

Outside the chain, the programs are sequences of awaits. Between any two of them
other accounts send transactions, prices move, a call to the node may fail, and a
transaction may be mined although its answer never arrives. `auto-repay-bot.js` calls
`AutoRepay`, which takes a user's aTokens, swaps them and repays his debt in the
pool; the commands of `cli.js` call the pool, the adapters and `AutoRepay` and share one
account's allowances; the liquidation bot calls `liquidationCall` and the exchange. A
migration runs tasks that hand contracts to each other through the address book, and
lends two rights to helper contracts on the way: the ownership of the rate oracle and the
role of the pool admin. The test harness reads the contracts through
`AaveProtocolDataProvider`, as the bots do.

**What is hard here.**

- *Two roundings.* Balances are stored divided by an index and reported
  multiplied by it, half up both ways. Every full exit depends on the two
  conversions being inverse, although the amount may be computed with one index
  and burned with another.
- *Clocks.* A reserve, the total supply of its stable debt and each of its stable
  borrowers have timestamps of their own; interest is computed from differences
  between them with unsigned arithmetic.
- *Flags.* An account is valued only over the assets its two flags name. A flag
  that is missing makes debt or collateral invisible.
- *Interleavings.* Transactions of any users, price moves and the clock interleave
  freely. Inside a transaction nothing runs concurrently except the callback of a
  flash loan.
- *Awaits.* A decision of a program rests on what it read some calls ago; an error handler
  is around one call, one user or a whole round, and the code must have it right which.
- *Lost answers and restarts.* A retried transaction may have been mined; the process may
  end while a helper contract holds the market; the address book outlives the process.
- *Two arithmetics.* The tests expect what a second implementation computes, with
  other roundings, from other moments.
- *Reverts.* An arithmetic revert in `updateState` would stop every operation of
  the reserve, including repayments and liquidations.

**What makes each component correct.** Libraries: the two conversions are inverse
above one ray; interest factors grow with time. Tokens: supplies are sums, no
underflow. Stable debt token: one operation changes one debt by the amount asked;
clocks ordered; rates stay averages of offered rates. Reserve: indexes never fall,
the accrual is always defined, rates are those of the current liquidity. Pool:
no debt without flag, no unhealthy account by an operation, no debt without
consent, claims equal assets. Liquidation: collateral leaves only against a
repayment of its worth. Auto repay: nobody pays more collateral than quoted for what is
repaid; the bot helps whom it can. Command line: it takes what it was
asked to, says so, and leaves no approval. Liquidation bot: it sells what it seized and
goes on. Harness: it predicts what the contracts do. Deployment: success means a complete
market in the deployer's hands. Configurator (later changes): a changed parameter never acts
on the past. Flash loans: the reserve ends with at least what it lent and the premium.

## 2. The modules

```
WadRayMath                    fixed-point arithmetic
  |- ScaledToken              ledger of aTokens and variable debt
  |    `- StableDebt          ledger of stable debt
  |         |- StableDebtToken                 state machine of that token alone
  `- InterestRateStrategy     rate curve
        `- ReserveLogic       one reserve: indexes, rates, three ledgers, cash
             `- LendingPoolStorage             state of the pool, account data
                  `- LendingPoolCollateralManager   liquidation
                       `- LendingPool          every operation, specification
                            `- BoundedPool     with a budget of steps
```

Each arrow is an `EXTENDS`. The ledgers, the strategy and the reserve are pure
operators from the state before a call to the state after it, the way Solidity
libraries work on a storage struct; an operator ending in `Allowed` is the
condition under which the call does not revert. `LendingPool` and
`StableDebtToken` are the state machines. Names follow the source.

```
SwapPaths                     the hand-written swap paths of both scripts
  |- AutoRepay                the contract, users, market and other keepers
  |    `- AutoRepayBot        the bot composed with them
  `- Cli                      the commands of one account
LiquidationBot                the bot, the pool it liquidates in, the exchange
LendingPool
  `- ScenarioEngine           stories on the pool; INSTANCE ExpectedState
MarketConfigs                 the configurations of four markets
  `- Deployment               the tasks; INSTANCE MarketListing
MarketListing                 what a deployment promises (abstract specification)
```

| Variable of `LendingPool` | Code |
|---|---|
| `reserves[a]` | `_reserves[a]` without configuration, with the ledgers of its three tokens and the underlying in the aToken contract (`cash`) |
| `configuration[a]` | `_reserves[a].configuration`, the bitmap as a record |
| `usersConfig[u]` | `_usersConfig[u]`, the two bits per reserve as two sets |
| `allowances[a][mode][u][v]` | `_borrowAllowances[u][v]` of the asset's debt tokens |
| `wallets[a][u]` | underlying outside the aToken contracts |
| `prices`, `now`, `paused` | oracle, `block.timestamp`, `_paused` |

One action is one transaction: its guard is the conjunction of everything that
reverts in it (validation, arithmetic, token errors, missing underlying, 128-bit
overflow), its assignments compose the calls in the order of the code. `Deposit`,
`Withdraw`, `Borrow`, `Repay`, `SwapBorrowRateMode`,
`RebalanceStableBorrowRate`, `SetUserUseReserveAsCollateral`, `TransferAToken`
(`AToken._transfer` and `finalizeTransfer`), `LiquidationCall`,
`ApproveDelegation` and `SetPause` are the operations; `SetAssetPrice` and
`AdvanceTime` are the environment. In `LendingPool` amounts come from `Amounts` or
are `MAX_UINT256`, which the code reads as "everything".

Abstractions, and why they do not hide anything the properties speak of:

- Scales (`WAD`, `WAD_RAY_RATIO`, `PERCENTAGE_FACTOR`, `SECONDS_PER_YEAR`, decimals)
  are constants. TLC works with a ray of 10000 and a year of one tick, so that
  interest and rounding are visible on amounts of one or two digits; the proofs
  leave the scales open, which includes the deployed ones.
- The underlying is a standard ERC20 that fails when the balance is missing, and its
  allowances are always sufficient.
- All reserves of an instance share the parameters of the rate strategy and a
  constant market borrow rate.
- 256-bit overflow is not modelled, the 128-bit bounds of the reserve are
  (`FitsUint128`).
- Underlying sent to an aToken contract outside the pool, ERC20 `approve`/`transferFrom`,
  permits and incentives are left out.
- The events, and the referral code, have no state.

**The programs around the pool.** Each is a record with a program counter and the local
variables that live across an await; one action is one await with the computation that
follows it, and the environment's actions come between any two.

- `AutoRepay` has the contract's `userInfos` and whitelist, and of the pool and the
  exchange what it sees of them: `accounts` (balances, debts of both kinds, enabled
  collaterals, allowances), `prices`, `spread` and `depth`. `increaseHealthFactor` is the whole call
  with its callback: amounts, fee, both slippage checks, the swap, the repayment, the withdrawals
  from what the pool has on hand, the checks of the health factor. A flash loan is its premium and
  the order of repayment and pull. The exchange quotes the oracle's price and the spread, and
  refuses (`canQuote`) when the debt wanted is not below what its pairs hold of each token of the
  path: one depth per asset stands for all pairs of it, and a swap does not move it.
- `AutoRepayBot` is `execute`: `Scan`, `ReadAccounts`, `ReadPositions`, `ReadPrices`, `Quote`,
  `CheckAllowance`, the simulation with its two variants and four shares, `Send...`, `Delay`.
  `CallFails`, `AnswerLost` and a quote the exchange refuses lead to the one handler of the round;
  only the second quote, for the call without a flash loan, is inside a handler of its own.
- `Cli` has one interpreter and twenty-one programs, each a sequence of steps (check an
  argument, read, approve, estimate, send, revoke) with a mark on those inside the
  command's `try`. What the contracts accept is a free choice; allowances, funds and what
  each command spent are kept. A command ends `done`, `refused` (a message), `thrown` (an
  error it raises or lets out) or `crashed` (a TypeError of its own).
- `LiquidationBot` has the pool's positions, prices and Borrow events, the bot's wallet and
  approvals. Three handlers (of the sale, of the user, of the round) decide in `afterError` where an
  error leads. `liquidation` is the pool's cap with one threshold and one bonus.
- `ScenarioEngine` runs actions on `LendingPool` itself: read, mine, travel in time, read and
  compare. `ExpectedState` is `calculations.ts` function by function, on unbounded integers with its
  roundings towards zero.
- `Deployment` has the address book `db`, the registries, the deployed markets, the rate
  oracles and `run`, the operator's process. Tasks are programs of `find`, `check`, `read`, `deploy`,
  `reuse`, `insert` and transactions. `Mined` and `MinedChunk` either go on or lose the answer, which ends
  the process; `Repeat` and `InitializeTokens` are the operator's ways to continue. A market
  is named by its provider, a helper by the market it was deployed for. The strategies are deployed
  and entered in one step, where `helpers/init-helpers.ts:146-172` writes one at a time: a process that ends
  in between leaves the first of them in the address book, and a repetition deploys all again over them.
- `MarketListing` knows of each market only the admin, the listed and the configured reserves.
  `Deployment` implements it under the mapping at the end of that module
  (`Listing!Spec`, checked as the property `ListsAsAWhole`).

`StableDebtToken` drives the ledger of stable debt without the pool. The pool only
ever mints and burns positive amounts and never burns more than the balance, which
is its environment assumption; with two borrowers and re-weighted rates it reaches
combinations that the pool instances have no room for.

## 3. What the runs check

| Run | Instance | What it shows |
|---|---|---|
| `positions` | two users; collaterals celo (threshold 45%, price 20 or 40) and ceur (80%), borrowed asset cusd; no interest; unbounded length | The complete state space of two interacting accounts with two collaterals |
| `modes` | two users; celo as collateral, whose price may drop, cusd borrowed in both kinds; no interest, one tick; unbounded length | Swaps, rebalancing and liquidation of a mixed debt |
| `interest` | celo with other decimals as collateral, cusd borrowed in both kinds; three ticks of time; at most 9 steps | Interest at two rates, treasury mint, rebalancing at 100% utilisation, full exits |
| `leverage` | one reserve that is collateral and debt; three users, one the treasury; two ticks; at most 6 steps; `LendingPoolCollateralManagerWithReserve` | Liquidation by interest, seizure and debt in the same ledger record, share of the treasury |
| `delegation` | alice's collateral, debt in both kinds drawn by bob; the pause; interest, one tick; at most 6 steps | Allowances granted, changed, spent; what grows by the clock alone |
| `stable_debt` | stable debt token, two borrowers, rates 1000 and 3000 (10%, 30% of a ray), three ticks, at most 8 steps | Clocks, re-weighted rates and reset supplies |
| `full_factor` | `interest` with a reserve factor of 100% | Violation: see findings |
| `auto_repay` | three worlds of two users (one helpable and one without collateral; two helpable, one with equal collaterals; one helpable and one who owes more than the exchange holds), five assets; price, spread, depth, limits, allowances and another keeper move twice in the first, once in the others; one failing call or lost answer; `retry` tries twice | The bot, the contract and everybody else, interleaved at every await |
| `cli` | every command with every network, amount and bad argument, alone; all pairs of five commands that pull or approve, interleaved; one failing call or lost answer | Allowances, reports and ends of commands |
| `liquidation_bot` | two risky users or one with bad debt; a bot without cusd or with both assets; an exchange with one celo; two moves, two faults (failing calls, lost answers, restarts) | Handlers, retries and the sale |
| `scenario` | two accounts, two reserves, stories of at most five actions, at most three units of time, a delay of one before a block, a time travel of one after a borrowing | The two arithmetics |
| `deployment` | Moola on Celo (two migrations, two faults, repetition, late listing), AMM on mainnet (two migrations, two faults, repetition), Matic (two migrations, one fault), Aave on Tenderly (three migrations that share one configured oracle) | Interrupted and repeated deployments; the refinement of `MarketListing` |

Properties of the pool (`LendingPool`):

- `PoolTypeOK`: every number stays natural. Subtractions in the model are not
  truncated, so an underflow the code's guards miss shows up here.
- `ReservesInOrder`: indexes of at least one ray; borrower's clock <= supply's clock <= reserve's
  clock <= time.
- `NoHiddenDebt`: whoever owes anything in a reserve carries its borrowing flag.
- `AccrualNeverReverts`: the checked subtraction of `_mintToTreasury` is defined in
  every state, whatever time has passed.
- `ExitIsExact`: the balance the aToken reports, divided by the index of the same
  moment, is the scaled balance.
- `WholeDebtRepayable`: the variable debt that is reported can be burned in one call.
- `SuppliesAddUp`: scaled supplies are the sums of the balances.
- `BooksBalance`: without interest, depositors' claims are the cash plus the debts.
- `HealthPreserved` (action property): at constant time and prices no operation turns a
  healthy account into a liquidatable one.
- `RatesFollowLiquidity` (action property): an operation that moves liquidity or debt
  leaves the rates of the state it leaves. One exception is written into it: a
  liquidation whose collateral and debt are the same reserve, paid in underlying,
  refreshes the rates a second time before the repaid amount arrives
  (`LendingPoolCollateralManager.sol:202-232`).
- `DebtNeedsConsent` (action property): within a block, a debt of either kind grows by no more
  than what its owner received, what his allowance to another shrank by, or what his debt of the
  other kind shrank by in a swap, but for `Rounding`.
- `SeizureIsPaidFor` (action property): what leaves an unhealthy account's collateral is
  worth, at the bonus, at most the debt repaid by the same call plus one unit
  of rounding. It is checked in `leverage` only, where debts and prices are such that a seizure
  of more than the worth of the repayment would show.

Properties of the stable debt token: `TokenTypeOK`, `ClocksAgree`, `RatesStayInBand`,
`NoSupplyNoRate` and `InterestIsNeverLost` (an operation moves one borrower's debt by
exactly the amount asked; time never shrinks a debt).

Properties of the programs:

- `PullsInProportion` (`auto_repay`): the bot's transaction repays something, and takes of the
  allowance it found at most the share of the quoted debt it still repays, also when another keeper
  has repaid part of that debt since the quote.
- `PullsAtMostTheQuote`: whatever moves between the quote and the transaction, the bot's repayment
  takes at most the allowance it found sufficient for the quote, of that user and asset only.
- `HelpedUnlessBlocked` (liveness): a user the contract would let the bot help for ever is
  helped or stops needing it, unless somebody the bot met earlier ends every round before him: one
  without a path, or one whose whole debt the exchange cannot quote. The latter is not helped
  either: a refused quote leads to no smaller share, although one might be quoted and accepted.
- `HandledEndsLeaveNoApproval` (`cli`): when all commands of the account ended in a way they
  handle, no contract may spend for it, however their calls interleaved.
- `ReportsWhatItTook`: no command takes more than it was asked to, and a command that
  simulates first and reports a refusal took nothing.
- `CommandsEnd` (liveness): every started command ends.
- `SellsOnlyWhatItSeized` (`liquidation_bot`): what the bot held before a liquidation is still
  there, but for one profit per fault.
- `RoundsGoOn` (liveness): rounds follow each other, or the process ended before its first.
- `RiskyUsersAreRun` (liveness): a user who stays below one is run again and again, whatever
  happens to the others, as long as nobody has debt and no collateral.
- `PredictedAsMined` (`scenario`): after each action of each story all fields compared by
  `expectEqual` are within its tolerance, but for the fields named in the property.
- `CleanMigrationsComplete` (`deployment`): a migration without a failing call reaches its end,
  whatever earlier ones left in the book and on the chain.
- `FinishedMarketIsOpen`: a migration, or the repetition of a task and its successors, that
  reports success leaves a registered market with all reserves listed, each with its own strategy,
  terms as passed on, the oracle's rates set, and everything owned by the deployer.
- `ListsAsAWhole` (refinement): every step of every task is one of `MarketListing`'s, or none.

Every property of every passing run has a mutant: a plausible fault in one mapped
definition, written beside the right one with a comment that starts with
"Fault:", under which TLC finds the property violated in the same instance.

**Bounds.** `Amounts`, `Prices`, `DelegationAmounts`, `PauseValues`, wallets, `MaxTime`,
`MaxSteps` and `MaxSupply` are constants, named where they are declared.
`positions` and `modes` need no bound on the length: without interest the money supply is
finite. The three assets of `positions` are the fewest in which withdrawing one collateral changes
the average threshold of the other, and its prices make a position of each kind
healthy and unhealthy; amounts of one unit, "everything" and repetition reach every split of the wallets. With interest amounts grow without end; `BoundedPool` then
gives TLC every behaviour of at most `MaxSteps` steps. Nine steps hold two deposits,
borrowings in both kinds, three ticks and two exits; six hold a deposit by each
of two users, a leveraged borrowing, two ticks and a liquidation. `MAX_UINT128` is never
reached in the runs: the guard `FitsUint128` is there for the theorems.
`Rounding` is the unit by which a reported balance can be off once indexes exceed
one ray; it is zero where there is no interest. `RateRounding` is the distance fixed-point
averaging may push a rate out of the band of offered rates in eight steps.

`RETRIES` and the bot's pauses are shorter than the code's: a retry differs from the next only in
the counter. `MaxFaults` and `MaxMoves` bound what the environment does; one fault meets each
await of each program once, two meet a failure while recovering from the first. `Together` names
the commands that are interleaved: the five that share an allowance or revoke one. The exchange of `auto_repay` may
become too shallow for each debt the bot repays (`Depths`), and deep enough for the one it could not quote at first. Five actions of a story are a
deposit by each account, a borrowing in each kind and the action that is compared; 300 units at a ray of
1000 make every rounding visible. The configurations of `deployment` are the repository's, not small ones; its
chunks have the sizes of the code.

**Deadlock** is checked in `positions`, `modes` and `auto_repay`. The other pool instances stop when their
budget of steps is used up; commands, stories, migrations and a bot that failed before its loop simply end.

**Fairness.** The pool's specifications claim none: every
action is a transaction somebody may or may not send, and nothing in the code makes
anybody repay, liquidate or rebalance. What the code owes is that an operation which
should be possible is not blocked, which is safety: `AccrualNeverReverts`,
`WholeDebtRepayable` and `ExitIsExact` state it. The programs are weakly fair in their own
next step (`WF_vars(BotNext)` of the bots, `WF_vars(Progress(c))` of a started command): a process that
runs does not stand still, which is what `while (true)` and `await` justify. Nobody has to start a command,
to restart a bot, or to move a price; failures are never fair.

**Finding** (a run that TLC must find violated): `full_factor`. `LendingPool.sol:229`: "Send the value type(uint256).max in order to
repay the whole debt for `asset` on the specific `debtMode`". The stored variable index
moves only while the liquidity rate is positive (`ReserveLogic.sol:347`); the view
`getNormalizedDebt` has no such condition. With a reserve factor of 100%, which the setter
accepts, the liquidity rate is always zero: the debt the token reports grows, the
index that divides it does not, and the full repayment asks for more scaled units than
the borrower has. It also means that such a reserve never books the interest it shows.

**Divergences the models carry.** Translating the source met these disagreements with a
comment, a usage line or a test. The models do as the code does; a property that
would fail on one of them names it as its exception.

| Where | The code | The text |
|---|---|---|
| `tokenization/StableDebtToken.sol:209-211` | the total accrues at the average rate, and a burn it cannot cover resets it while another borrower still owes | `specs/StableDebtToken.spec:15`: the total is the sum of the balances |
| `bots/auto-repay-bot.js:305` | each share multiplies the reduced amount: 100, 75, 37.5, 9.375 % | `:299` reports 100, 75, 50, 25 % |
| `bots/auto-repay-bot.js:76` | the path of celo and moo is `[MOO, mcelo]` | its comment "mcelo-moo", and `cli.js:1668` |
| `bots/auto-repay-bot.js:318` | one user's missing path ends the round for those after him | |
| `bots/auto-repay-bot.js:270` | a quote the exchange refuses is not caught there: it ends the round as well, and no smaller share is tried | `:82` "only 3k usd in pools"; `:299` "Cannot auto repay ... %" follows a refused simulation only |
| `cli.js:639` | `delegate` throws for "all" | usage line `cli.js:117` |
| `cli.js:1365` | `auto-repay` asks a table keyed in lower case with checksummed addresses | usage line `cli.js:126` |
| `cli.js:1555` | `repaydelegation` has no helper on a custom URL | `cli.js:261` offers custom URLs |
| `cli.js:1113` | a sale whose answer is lost is sent again | `cli.js:1085` "swap the liquidated asset" |
| `cli.js:1016` | a risky user without enabled collateral ends every round | `cli.js:948` "found ... users to run" |
| `cli.js:993` | amounts are multiplied by tokens per celo, which orders by something else than value | `cli.js:992` "finding the largest ones" |
| `calculations.ts:81` | a depositor's expected principal of stable debt is his variable debt | `expectEqual` of `actions.ts` compares it |
| `calculations.ts:639` | a variable borrower's expected scaled debt is the reserve's | same |
| `calculations.ts:729-730` | the two views of a repayer's stable debt are exchanged | same |
| `calculations.ts:1067` | a rebalanced borrower's expected rate is the reserve's average | same |
| `markets/aave/index.ts:57`, `helpers/contracts-getters.ts:198` | xSUSHI has no address on Kovan and no aggregator anywhere: the Aave migrations on Kovan and on a fork of mainnet fail | `README.md:135, 140` |
| `contracts/deployments/ATokensAndRatesHelper.sol:76` | borrowing is enabled for every reserve | `borrowingEnabled: false` of AAVE and UNI |
| `helpers/init-helpers.ts:226` | a repeated initialisation reverts on the reserves already listed | `:312` "already enabled ..., skipping" |
| `helpers/init-helpers.ts:512` | a strategy deployed for a late reserve gets the token as its addresses provider | `:92` "addresses provider" |

## 4. What is proved

The proofs are in modules of their own that extend the module they are about.
Assumptions are those on the constants: positive scales, an optimal utilisation
below one ray, positive prices and units, a liquidation bonus above 100% for whatever can be
collateral (the configurator enforces it), finitely many users (`UsersFinite`: a sum over
the balances has to exist), a fee of `AutoRepay` no higher than the tenth of a percent the bot asks its users to approve for it (`FeeIsAllowedFor`; both are
10 in 10000 in the code), and for the programs the types of what they are started with.
TLC evaluates them in every run.

| Theorem | States |
|---|---|
| `LendingPoolProofs!PoolInvariant` | `PoolSpec => []PoolInv` |
| `PoolTypeCorrect` | `[]PoolTypeOK` |
| `ReservesStayInOrder` | `[]ReservesInOrder` |
| `DebtsAreFlagged` | `[]NoHiddenDebt` |
| `AccrualAlwaysDefined` | `[]AccrualNeverReverts` |
| `ExitsAreExact` | `[]ExitIsExact` |
| `SuppliesAlwaysAddUp` | `[]SuppliesAddUp` |
| `RatesAlwaysFollow` | `RatesFollowLiquidity` |
| `NoDebtWithoutConsent` | `DebtNeedsConsent` |
| `WholeDebtsRepayable` | `CatchesUp` of all assets `=> WholeDebtRepayable`, in every reachable state |
| `BooksAlwaysBalance` | `[]BooksBalance`, for strategies that charge nothing (`InterestFree`) |
| `StableDebtTokenProofs!TokenInvariant` | `TokenSpec => []TokenInv` |
| `TokenTypeCorrect`, `ClocksAlwaysAgree`, `EmptySupplyHasNoRate` | `[]TokenTypeOK`, `[]ClocksAgree`, `[]NoSupplyNoRate` |
| `InterestSafe` | `InterestIsNeverLost` |
| `MarketListingProofs!TypeCorrect`, `MarketsOpenAsAWhole` | `[]TypeOK`, `[]OpenedAsAWhole` of the abstract listing |
| `DeploymentProofs!DeploymentInvariant` | `Spec => []IInv` |
| `FinishedMarketsAreOpen` | `[]FinishedMarketIsOpen` |
| `CleanMigrationsAreComplete` | `[](Suited(target) => CleanMigrationsComplete)` |
| `MarketsListAsAWhole` | `ListsAsAWhole`: `Deployment` implements `MarketListing` |
| `CliProofs!NoApprovalLeft` | `[]HandledEndsLeaveNoApproval` |
| `ReportsAreTrue` | `[]ReportsWhatItTook` |
| `LiquidationBotProofs!SoldWhatItSeized` | `[]SellsOnlyWhatItSeized` |
| `AutoRepayBotProofs!RepaymentsStayInProportion` | `PullsInProportion` |
| `PullsStayWithinQuotes` | `PullsAtMostTheQuote` |

The argument, bottom up:

- `LedgerProofs`, first part, the fixed-point libraries: `\div` is monotone and unique; half-up division is monotone and
  exact on multiples; **`RoundTrip`**: for an index of at least one ray, `rayDiv(rayMul(x, i), i) = x`.
  The half unit lost by the multiplication is at most half a ray, which the division, by an
  index not below one ray, rounds back. **`RoundTripAbove`** covers a reported amount taken with a larger index than the
  one that divides it. `CompoundedMono`: the three-term binomial factor never shrinks with time, and is at
  least one ray.
- `LedgerProofs`, the ledgers: what a sum over finitely many users is (`SumFunction`), and what it becomes when one or two
  terms change; the operations on the two ledgers keep their types under their guards and the
  supply of a scaled ledger the sum of its balances;
  burning what is reported empties a scaled balance; a stable balance is zero exactly when
  its principal is.
- `LendingPoolProofs`, first part, one reserve: `updateState` keeps a reserve in order and the accrual it performs
  is defined, because each part of `currentDebt` is at least the same part of `previousDebt`:
  the index grows, and the compounded factor of the stable supply is monotone in its end
  point. It leaves the supplies sums (`UpdateStateBalanced`), and `updateInterestRates` the rates of what it
  was given (`RatesMatched`).
- `LendingPoolProofs`, the pool: `PoolInv`, the conjunction of `PoolTypeOK`, the range of
  `configuration`, `ReservesInOrder` and `NoHiddenDebt`, is preserved by every action, one
  lemma each. The parts need each other. Types need the order (a clock difference or a debt
  difference that is negative is no natural; an index of zero divides nothing) and the order
  needs the types. `NoHiddenDebt` needs both, for the one place where a flag is cleared: `repay`
  concludes from debts read before `updateState` that nothing is left, and that is right only
  because a full burn leaves no scaled dust (`RoundTripAbove`: the view's index is at
  least the stored one) and because a stable balance of zero is a principal of zero.
- `LendingPoolProofs`, the books: most operations store one reserve and touch two wallets. An `...Effect` lemma per operation says
  what the stored reserve is: balanced, with the rates of its liquidity, its cash moved by what was
  paid, and each user's debt in scaled units and principals changed by at most what he was
  given. A liquidation stores two reserves, or one reserve twice; `LiquidationMoves` follows the
  three writes. From the effects, one lemma per operation carries each statement over:
  - `SuppliesAlwaysAddUp` and `RatesAlwaysFollow` need `PoolInv` besides.
  - `NoDebtWithoutConsent` compares debts before and after at the index of one moment, which is why it speaks of
    a block: `updateState` of an index that is already up to date changes nothing that is owed.
  - `WholeDebtsRepayable` shows that the amount reported, divided by the index the repayment burns at, is at most the
    supply. The two indexes agree when the reserve pays its depositors or has been refreshed in the same block
    (`CatchesUp`); what happens otherwise is the run `full_factor`, so the condition cannot be dropped.
  - `BooksAlwaysBalance` is not inductive as it stands: it speaks of reported balances. `Even` says instead that
    every reserve is `Flat` (both indexes one ray, all rates zero, also the stable rates each user has locked in)
    and that its `Surplus`, the claims less cash and debts in stored units, is zero. A strategy that charges nothing keeps a
    reserve flat; in a flat reserve what is stored is what is reported. With interest the equation is false by
    rounding, and by the treasury's share.
- `CliProofs`: `Shapes` reads off each of the twenty-one programs where it sends, where its handler is, and that after a
  simulated sending nothing is caught. `Effects` reduces every step of the interpreter to three outcomes (nothing mined, an
  approval mined, a transaction mined, each with its way on or its error). `Reports`: what a command
  has spent it spent in its one transaction, which is behind it, and if it simulates, the handler is ahead and cannot be
  reached. `ApprovalsHeld`: an allowance that is not zero has a command behind it which is still between its approval and its
  revocation (`Between`, from the programs by `Coverage`), or was taken out of the program by an error, or is none of those
  that tidy up. For the two commands that end without a revocation after their transaction, the allowance is at most
  what the transaction will take (`WholePull`): somebody else's approval in between is somebody else's to take back.
- `LiquidationBotProofs`: `Knows` says at each step of a sale what the property says at its end: once the profit is computed, the
  wallet holds what it held before and the profit, less one profit for each fault so far; the sale takes one profit, and
  a lost answer, which takes one without the bot's knowledge, is a fault more. `Errors` shows that whatever handler an error reaches
  either forgets the sale or tries the same one again.
- `AutoRepayBotProofs`: `CallEffect` is about one call of the contract, with or without the flash loan: what it pulls is at most what
  the account has and has allowed, its last account is a well-formed one, and the debt falls by what it repaid.
  If the call trades, the swap takes at most `collateralAmount`, and in proportion to what was repaid (`LimitInProportion`); the
  fee on that is covered by the tenth of a percent the bot adds, for the whole (`FeeCovered`) and for each share (`ShareCovered`). `Inv` carries to the sending
  what that needs of a call: amounts that are numbers, two different assets (the table has no path from an asset to
  itself), and a path whose ends have a price (`BotPaths`, entry by entry). Whom the bot knows comes from a fold over events; instead of
  an induction over it, the invariant speaks of calls for somebody who has an account, and `CallElsewhere` shows that others change nothing.
- `StableDebtTokenProofs`: `TokenInv` adds to the types and clocks that a supply of zero has no
  rate. `InterestSafe` follows from the invariant and three lemmas on what a mint, a burn and a tick
  do to what is owed.

- `MarketListingProofs`: `Inv` adds to the type that a market without an admin has nothing configured,
  and that the helper's rights cover a complete list (`Handling`). Each action is about one market, and
  `OthersStay` carries the others over. The theorem holds for any set of markets and configurations, and what it says
  carries over to `Deployment` by `MarketsListAsAWhole`: a market has terms only when its list is complete, and is back in
  the genesis admin's hands only when all reserves with terms have them.
- `DeploymentProofs`: the steps of a migration are numbered task by task (`place`: 303 is the third step of the lending
  pool's task, 1000 the end), and `IInv` says for each place what holds from there on: what the address book names
  (`BookAt`), what the provider (`ProviderAt`) and the rate oracle (`OracleAt`) have, who has the admin's rights and what is listed and has terms
  (`ListingAt`, which also counts the chunks sent). A step that succeeds leads to the next place, a failure to the first place of the
  same task (`Crosses`), and no task needs on entry what only its own later steps bring about. Three further parts make it inductive:
  the market of the address book is the last one deployed (`BookOK`), so that a new migration cannot touch the one a
  repetition goes on with; only reserves of the configuration are listed, and terms are given to a complete list only
  (`MarketsOK`), for `full:initialize-tokens` lists in a market it finds in the address book; and there are at most as many markets as
  migrations and failed calls (`Budget`), which bounds the markets of `MarketListing`. The configurations enter by `WellFormed` alone, an
  assumption TLC evaluates for the repository's: the order has every reserve once, and a strategy's name stands for
  its rates and for no contract. `keep` and `chunk` are handled for arrays of any length (`KeepIs`, `SymbolsAre`).
  The refinement reads `MarketListing`'s guards off the invariant: `setGenesisAdmin` meets a market without admin, the handover comes when
  all is listed, the hand-back when all terms are set.
  `CleanMigrationsAreComplete` needs a second invariant, `CleanInv`: what a finished task has left in the address book for a later
  one (`Deposited`); that a migration which is no repetition meets only a market of its own making, and a rate oracle in the hands it
  expects (`Unspoilt`); and that an oracle named in the configuration is never left half way (`OracleShared`). With it each of the reasons a call
  reverts or a task gives up is refuted in turn (`NothingThrows`). The theorem is about configurations that are `Suited`: every contract,
  address and aggregator the tasks look up is there, terms are ones the configurator accepts, and a migration that uses an existing oracle
  meets no failing call, because one between `transferOwnership` and `setOracleOwnership` leaves the oracle to the helper. The repository's
  configurations for the markets of the run are `Suited` (`TargetsAreSuited`, evaluated by TLC).

**Only model-checked:**

- `HealthPreserved`, `SeizureIsPaidFor` and `RatesStayInBand` are not true of all constants. Each allows a rounding that the
  scales of its run bound (`Rounding`, `RateRounding`, one unit of the debt asset); the error depends on indexes, prices,
  decimals and the number of operations, so a theorem would have to say by how much.
- `PredictedAsMined` compares two arithmetics up to a tolerance that is wide enough for stories of the
  lengths the harness runs, and for no more.
- Liveness (`HelpedUnlessBlocked`, `CommandsEnd`, `RoundsGoOn`, `RiskyUsersAreRun`) is out of the prover's reach, as is `ENABLED`.

The induction theorems of the library take an operator as their parameter, which no installed prover can
instantiate. `LedgerProofs` inducts over sets instead: `EveryNat`, and a family of subsets closed under adding a member. That is
enough for sums, and in `DeploymentProofs` for `keep`; what `calculations.ts` computes is left to TLC.

## 5. What is not modelled, and the plan

Not modelled, with the reason:

- **Flash loans with a receiver's callback**: `AutoRepay` sees `flashLoan` as one atomic call. A faithful
  module has to interleave every pool operation inside the call, on the pool's full state.
- **`RepayDelegationHelper`** inside: the command line sees one call that takes its allowance or reverts.
- **The configurator's later changes** (freezing, deactivation, new risk parameters under open positions) and proxy **upgrades**: the
  pool's proofs allow any configuration in `Configurations`, but it is fixed along a behaviour.
- **Adapters, oracles' sources**: an external market decides. **WETH gateway, v1 migrator, UI views, listing contracts**: no state of
  their own.
- **xDai** has no migration; the market files of other networks are empty. The migration of Matic on Mumbai ends in an
  error by construction (`authorizeWETHGateway` of a gateway that is not in the book), and the development tasks
  (`tasks/dev`) deploy mocks for tests.
- **`test-suites/test-amm`** holds a copy of the harness that differs in one type name and a comment. Stories that
  expect a revert compare nothing.

Order of further work: (1) flash loans, with `cumulateToLiquidityIndex`; (2) `RepayDelegationHelper`; (3) the configurator
interleaved with users; (4) `UserConfiguration` as bit arithmetic refined to the two sets; (5) an abstract specification of one
account (no debt, covered, liquidatable) that the pool implements.

## 6. Running

```
tlc -workers 2 -config MCPositions.cfg MCPositions.tla
tlapm LendingPoolProofs.tla
```

`MCFullFactor.cfg` belongs to `MCInterest.tla`; each
other configuration has the name of its module. The longest run takes about three minutes on two
workers, the longest proofs about six (`LendingPoolProofs`) and nine (`DeploymentProofs`).
