-------------------------------- MODULE Cli ---------------------------------
(* cli.js: every command is a short program of node calls, approvals and       *)
(* transactions, run by the same interpreter.  Several commands of one account *)
(* run at once; a call may fail, and a transaction may be mined although the   *)
(* answer is lost.  What the contracts decide is a free choice here (their     *)
(* rules are LendingPool's and AutoRepay's); allowances and funds are kept.    *)
EXTENDS Integers, FiniteSets, SwapPaths

CONSTANTS Commands,      \* the commands the account starts, each a process
          Calls,         \* what may be started: actions with their arguments
          Together,      \* bound: the calls that are interleaved with each other
          InitialFunds,  \* the account's tokens
          RETRIES,       \* tries of retry() after the first
          MaxFaults      \* bound on the failing calls

VARIABLES cli,         \* the running commands
          allowance,   \* what the account lets each contract spend or borrow
          funds,       \* tokens (or aTokens) of the account
          faults

vars == <<cli, allowance, funds, faults>>

ALL == 50               \* "all", and maxUint256 in an approval
ALLOWANCE_THRESHOLD == 40

\* Contracts the account gives allowances to: the three debt tokens' delegations
\* to the migrator, and one to a borrower, are kept like allowances.
Spenders == {"pool", "helper", "swapAdapter", "repayAdapter",
             "migratorCUSD", "migratorCEUR", "migratorCELO", "borrower"}

-----------------------------------------------------------------------------
(* The programs.  "caught" says that the step is inside the command's try, whose *)
(* handler starts at the step "catch"; an error elsewhere leaves the program.    *)

Step(do, of)  == [do |-> do, of |-> of, caught |-> FALSE]
Try(s)        == [s EXCEPT !.caught = TRUE]

Amount        == Step("amount", "number")      \* web3.utils.toWei(params[i])
AmountOrAll   == Step("amount", "all")
Asset         == Step("asset", "")             \* tokens[...].options
Rate          == Step("rate", "")              \* getRateModeNumber
Key           == Step("key", "")               \* 'Missing private key'
MainOnly      == Step("mainOnly", "")
Check(what)   == Step("check", what)           \* isValidAsset, isNumeric, ...
Lookup(keyed) == Step("lookup", keyed)
Helper        == Step("helper", "")            \* repayDelegationHelper.options
Read          == Step("read", "")
Done          == Step("done", "")
Refused       == Step("refused", "")
Catch         == Step("catch", "")
Approve(s)    == Step("approve", s)
ApproveMax(s) == Step("approveMax", s)
Revoke(s)     == Step("revoke", s)
\* Skip the approval that follows when the allowance is large enough: the check
\* and the approval are two calls.
Unless(enough, s) == Step(enough, s)
Estimate(tx)  == Try(Step("estimate", tx))     \* retry(() => tx.estimateGas())
Send(tx)      == Step("send", tx)

\* execute: the addresses of the pool and of the oracle are read first, whatever
\* the command; its own steps count from one.
setup == 2

balanceOf                   == <<Read, Done>>
getUserReserveData          == <<Read, Read, Done>>
getUserAccountData          == <<Read, Done>>
getReserveData              == <<Read, Read, Done>>
getReserveConfigurationData == <<Read, Done>>
autoRepayUserInfo           == <<Read, Read, Done>>

\* Fault: a refused deposit keeps its approval.
depositWithoutRevoke ==
    <<Amount, Key, Approve("pool"), Estimate("deposit"), Send("deposit"), Done,
      Catch, Refused>>

\* Fault: the transaction is sent inside the try.
depositSentInTry ==
    <<Amount, Key, Approve("pool"), Estimate("deposit"), Try(Send("deposit")), Done,
      Catch, Revoke("pool"), Refused>>

deposit ==
    <<Amount, Key, Approve("pool"), Estimate("deposit"), Send("deposit"), Done,
      Catch, Revoke("pool"), Refused>>

borrow ==
    <<Amount, Rate, Key, Estimate("borrow"), Send("borrow"), Done, Catch, Refused>>

repay ==
    <<AmountOrAll, Rate, Key, Approve("pool"), Estimate("repay"), Send("repay"),
      Revoke("pool"), Done, Catch, Revoke("pool"), Refused>>

redeem ==
    <<AmountOrAll, Key, Estimate("redeem"), Send("redeem"), Done, Catch, Refused>>

delegate == <<Amount, Rate, Key, Read, Approve("borrower"), Done>>

borrowFrom ==
    <<Amount, Rate, Key, Estimate("borrow"), Send("borrow"), Done, Catch, Refused>>

repayFor ==
    <<Amount, Rate, Key, Approve("pool"), Estimate("repay"), Send("repay"),
      Revoke("pool"), Done, Catch, Revoke("pool"), Refused>>

\* The delegations are taken back whether the migration goes through or not.
migrateStep2 ==
    <<Key, Read, Read, Read,
      ApproveMax("migratorCUSD"), ApproveMax("migratorCEUR"), ApproveMax("migratorCELO"),
      Estimate("migrate"), Try(Send("migrate")), Catch,
      Revoke("migratorCUSD"), Revoke("migratorCEUR"), Revoke("migratorCELO"), Done>>

liquiditySwap ==
    <<MainOnly, Key, Amount, Asset, Lookup("lowerCase"), Read, Read,
      Unless("threshold", "swapAdapter"), ApproveMax("swapAdapter"),
      Estimate("liquiditySwap"), Send("liquiditySwap"), Done, Catch, Refused>>

repayFromCollateral ==
    <<MainOnly, Key, Check("asset"), Check("rate"), Check("number"), Check("boolean"),
      Amount, Lookup("lowerCase"), Read, Read,
      Unless("needed", "repayAdapter"), Approve("repayAdapter"),
      Estimate("repayFromCollateral"), Send("repayFromCollateral"), Done, Catch, Refused>>

\* The table is keyed in lower case and asked in mixed case.
autoRepay ==
    <<MainOnly, Key, Check("asset"), Check("rate"), Check("number"), Check("boolean"),
      Amount, Lookup("mixedCase"), Read, Read, Read,
      Estimate("increaseHealthFactor"), Send("increaseHealthFactor"), Done, Catch, Refused>>

setAutoRepayParams ==
    <<MainOnly, Key, Check("number"),
      Estimate("setMinMaxHealthFactor"), Send("setMinMaxHealthFactor"), Done, Catch, Refused>>

\* Sent without a simulation; the approval stands.
liquidationCall ==
    <<Asset, Amount, Key, Unless("threshold", "pool"), ApproveMax("pool"),
      Try(Send("liquidationCall")), Done, Catch, Refused>>

\* Any error takes the approval back.
repayDelegation ==
    <<Asset, Amount, Check("rate"), Key, Helper,
      Try(Unless("needed", "helper")), Try(Approve("helper")),
      Try(Send("repayDelegation")), Done, Catch, Revoke("helper"), Refused>>

leverageBorrow ==
    <<MainOnly, Key, Check("asset"), Check("rate"), Check("number"), Check("different"),
      Amount, Read, Read, Estimate("flashLoan"), Send("flashLoan"), Done, Catch, Refused>>

Actions ==
    {"balanceof", "getuserreservedata", "getuseraccountdata", "getreservedata",
     "getreserveconfigurationdata", "deposit", "borrow", "repay", "redeem", "delegate",
     "borrowfrom", "repayfor", "migrate-step-2", "liquidity-swap", "repay-from-collateral",
     "auto-repay", "auto-repay-user-info", "set-auto-repay-params", "liquidationcall",
     "repaydelegation", "leverage-borrow"}

Program == [action \in Actions |->
    CASE action = "balanceof"                   -> balanceOf
      [] action = "getuserreservedata"          -> getUserReserveData
      [] action = "getuseraccountdata"          -> getUserAccountData
      [] action = "getreservedata"              -> getReserveData
      [] action = "getreserveconfigurationdata" -> getReserveConfigurationData
      [] action = "deposit"                     -> deposit
      [] action = "borrow"                      -> borrow
      [] action = "repay"                       -> repay
      [] action = "redeem"                      -> redeem
      [] action = "delegate"                    -> delegate
      [] action = "borrowfrom"                  -> borrowFrom
      [] action = "repayfor"                    -> repayFor
      [] action = "migrate-step-2"              -> migrateStep2
      [] action = "liquidity-swap"              -> liquiditySwap
      [] action = "repay-from-collateral"       -> repayFromCollateral
      [] action = "auto-repay"                  -> autoRepay
      [] action = "auto-repay-user-info"        -> autoRepayUserInfo
      [] action = "set-auto-repay-params"       -> setAutoRepayParams
      [] action = "liquidationcall"             -> liquidationCall
      [] action = "repaydelegation"             -> repayDelegation
      [] action = "leverage-borrow"             -> leverageBorrow]

\* What a call is: the words after the program's name on the command line.
ASSUME CliConstants ==
    /\ Calls \subseteq [action: Actions, network: {"test", "main", "url"}, amount: Nat,
                        bad: STRING, pair: Assets \X Assets]
    /\ Together \subseteq Calls
    /\ InitialFunds \in Nat /\ RETRIES \in Nat /\ MaxFaults \in Nat

\* What a transaction takes out of the account, and through whose allowance.
Pulls ==
    [deposit |-> "pool", repay |-> "pool", liquidationCall |-> "pool",
     repayDelegation |-> "helper", liquiditySwap |-> "swapAdapter",
     repayFromCollateral |-> "repayAdapter"]

Delegations == [migrate |-> {"migratorCUSD", "migratorCEUR", "migratorCELO"}]

-----------------------------------------------------------------------------
(* The interpreter. *)

Idle == [status |-> "idle", spent |-> 0]

Running(c) == cli[c].status = "running"
step(c)    == IF cli[c].at <= 0 THEN Read ELSE Program[cli[c].action][cli[c].at]
At(c, dos) == Running(c) /\ step(c).do \in dos

next(c)      == [cli[c] EXCEPT !.at = @ + 1, !.tries = RETRIES]
skipNext(c)  == [cli[c] EXCEPT !.at = @ + 2]
ends(c, how) == [cli[c] EXCEPT !.status = how]

handler(c) == CHOOSE i \in DOMAIN Program[cli[c].action] :
                 Program[cli[c].action][i].do = "catch"

\* An error: the handler of the step's try, or out of the program.
fails(c) == IF step(c).caught THEN [cli[c] EXCEPT !.at = handler(c), !.tries = RETRIES]
            ELSE ends(c, "thrown")

Becomes(c, r) == cli' = [cli EXCEPT ![c] = r]

started == { c \in Commands : cli[c].status # "idle" }

\* params: "bad" names the argument that is wrong, and "all" is ALL.
Start(c) ==
    /\ c \notin started
    /\ \E call \in IF started = {} THEN Calls
                   ELSE IF \A d \in started : cli[d].together THEN Together ELSE {} :
          Becomes(c, [action |-> call.action, network |-> call.network, bad |-> call.bad,
                      amount |-> call.amount, pair |-> call.pair,
                      together |-> call \in Together, status |-> "running",
                      at |-> 1 - setup, tries |-> RETRIES, spent |-> 0])
    /\ UNCHANGED <<allowance, funds, faults>>

\* What the arguments and the network make of a step that calls nobody: a
\* message and a return, an exception the program raises, or one it runs into.
refuses(c) ==
    LET s == step(c)
        x == cli[c]
    IN  \/ s.do = "key" /\ x.network # "url" /\ x.bad = "key"
        \/ s.do = "check" /\ \/ x.bad = s.of
                             \/ s.of = "number" /\ x.amount = ALL
                             \/ s.of = "different" /\ x.pair[1] = x.pair[2]

\* The addresses are checksummed, so a key in mixed case is in no row.
crashes(c) ==
    LET s == step(c)
        x == cli[c]
    IN  \/ s.do = "amount" /\ (x.bad = "number" \/ (s.of = "number" /\ x.amount = ALL))
        \/ s.do \in {"asset", "rate"} /\ x.bad = s.do
        \/ s.do = "lookup" /\ (s.of = "mixedCase" \/ x.pair[2] \notin DOMAIN getSwapPath[x.pair[1]])
        \/ s.do = "helper" /\ x.network = "url"

LocalStep(c) ==
    /\ At(c, {"amount", "asset", "rate", "key", "mainOnly", "check", "lookup", "helper",
              "catch", "done", "refused"})
    /\ Becomes(c, CASE step(c).do \in {"done", "refused"} -> ends(c, step(c).do)
                    [] step(c).do = "mainOnly" /\ cli[c].network = "test" -> ends(c, "thrown")
                    [] refuses(c) -> ends(c, "refused")
                    [] crashes(c) -> ends(c, "crashed")
                    [] OTHER      -> next(c))
    /\ UNCHANGED <<allowance, funds, faults>>

\* Arguments the ABI cannot encode, or an asset the tables do not know.
encodable(c) == cli[c].bad \notin {"asset", "rate"}

ReadSucceeds(c) ==
    /\ At(c, {"read"}) /\ Becomes(c, next(c))
    /\ UNCHANGED <<allowance, funds, faults>>

ReadAllowance(c) ==
    /\ At(c, {"threshold", "needed"})
    /\ Becomes(c, IF allowance[step(c).of] < (IF step(c).do = "threshold"
                                              THEN ALLOWANCE_THRESHOLD ELSE cli[c].amount)
                  THEN next(c) ELSE skipNext(c))
    /\ UNCHANGED <<allowance, funds, faults>>

approved(c) == CASE step(c).do = "approve"    -> cli[c].amount
                 [] step(c).do = "approveMax" -> ALL
                 [] step(c).do = "revoke"     -> 0

ApproveMined(c) ==
    /\ At(c, {"approve", "approveMax", "revoke"}) /\ encodable(c)
    /\ allowance' = [allowance EXCEPT ![step(c).of] = approved(c)]
    /\ UNCHANGED funds

ApproveSucceeds(c) == ApproveMined(c) /\ Becomes(c, next(c)) /\ UNCHANGED faults

\* What the contract takes if it accepts: the amount, or less of a debt that is
\* smaller; all three delegations are needed to migrate.
CanPull(c, n) ==
    LET tx == step(c).of
    IN  /\ encodable(c)
        /\ IF tx \in DOMAIN Pulls
           THEN /\ n \in 1..cli[c].amount
                /\ tx \in {"repay", "liquidationCall"} \/ n = cli[c].amount
                /\ n <= funds /\ n <= allowance[Pulls[tx]]
           ELSE n = 0
        /\ tx \in DOMAIN Delegations => \A d \in Delegations[tx] : allowance[d] = ALL

EstimateSucceeds(c) ==
    /\ At(c, {"estimate"}) /\ \E n \in 0..funds : CanPull(c, n)
    /\ Becomes(c, next(c))
    /\ UNCHANGED <<allowance, funds, faults>>

\* Fault: the call is tried for ever.
retriedForever(c) == cli[c]

\* retry(): another try, or the error is thrown.
retried(c) == IF cli[c].tries = 0 THEN fails(c) ELSE [cli[c] EXCEPT !.tries = @ - 1]

\* The contract may refuse for reasons of its own at any time.
EstimateReverts(c) ==
    /\ At(c, {"estimate"}) /\ Becomes(c, retried(c))
    /\ UNCHANGED <<allowance, funds, faults>>

SendMined(c, n) ==
    /\ At(c, {"send"}) /\ CanPull(c, n)
    /\ funds' = funds - n
    /\ allowance' = IF step(c).of \in DOMAIN Pulls
                    THEN [allowance EXCEPT ![Pulls[step(c).of]] = @ - n] ELSE allowance

SendSucceeds(c) ==
    \E n \in 0..funds : /\ SendMined(c, n) /\ UNCHANGED faults
                        /\ Becomes(c, [next(c) EXCEPT !.spent = @ + n])

SendReverts(c) ==
    /\ At(c, {"send"}) /\ Becomes(c, fails(c))
    /\ UNCHANGED <<allowance, funds, faults>>

Fault == faults < MaxFaults /\ faults' = faults + 1

\* A call to the node fails, and a transaction is not mined.
CallFails(c) ==
    /\ At(c, {"read", "threshold", "needed", "approve", "approveMax", "revoke"}) /\ Fault
    /\ Becomes(c, fails(c))
    /\ UNCHANGED <<allowance, funds>>

\* A transaction is mined, and its answer lost.
AnswerLost(c) ==
    /\ Fault
    /\ \/ ApproveMined(c) /\ Becomes(c, fails(c))
       \/ \E n \in 0..funds : SendMined(c, n) /\ Becomes(c, [fails(c) EXCEPT !.spent = @ + n])

\* approve() cannot be encoded for an asset the tables do not know.
ApproveThrows(c) ==
    /\ At(c, {"approve", "approveMax", "revoke"}) /\ ~encodable(c) /\ Becomes(c, fails(c))
    /\ UNCHANGED <<allowance, funds, faults>>

Progress(c) ==
    \/ LocalStep(c) \/ ReadSucceeds(c) \/ ReadAllowance(c) \/ ApproveSucceeds(c)
    \/ ApproveThrows(c) \/ EstimateSucceeds(c) \/ EstimateReverts(c)
    \/ SendSucceeds(c) \/ SendReverts(c)

Init ==
    /\ cli = [c \in Commands |-> Idle]
    /\ allowance = [s \in Spenders |-> 0]
    /\ funds = InitialFunds /\ faults = 0

Next == \E c \in Commands : Start(c) \/ Progress(c) \/ CallFails(c) \/ AnswerLost(c)

\* A started command runs on; nobody has to start one.
Spec == Init /\ [][Next]_vars /\ \A c \in Commands : WF_vars(Progress(c))

-----------------------------------------------------------------------------
\* The commands that take back what they approve.
Tidy == {"deposit", "repay", "repayfor", "migrate-step-2", "repaydelegation"}

\* When every command of the account has ended in a way it handles, no contract
\* may spend or borrow for the account: what one command approves, another's
\* revocation or approval may replace between any two of its calls.  An
\* approval survives only an error that leaves the program (cli.js 461-833,
\* 1535-1590).
HandledEndsLeaveNoApproval ==
    (\A c \in Commands : \/ cli[c].status = "idle"
                         \/ cli[c].status \in {"done", "refused"} /\ cli[c].action \in Tidy)
        => \A s \in Spenders : allowance[s] = 0

Simulated(action) == \E i \in DOMAIN Program[action] : Program[action][i].do = "estimate"

\* A command never takes more of the account than it was asked to, and where it
\* reports a refusal ("Cannot deposit", ...) it took nothing: a transaction may
\* be mined and its answer lost, and another command may raise the allowance
\* meanwhile (cli.js: only the simulation is inside retry, and the sending is
\* outside the try of the commands that simulate first).
ReportsWhatItTook ==
    \A c \in Commands : cli[c].status # "idle" =>
        /\ cli[c].spent <= cli[c].amount
        /\ cli[c].status = "refused" /\ Simulated(cli[c].action) => cli[c].spent = 0

\* Every started command comes to an end: the retries are counted (retry).
CommandsEnd == \A c \in Commands : Running(c) ~> ~Running(c)
=============================================================================
