------------------------------ MODULE CliProofs ------------------------------
(* Proofs about the command line, for any number of commands of one account    *)
(* interleaved call by call, any amounts, retries and failing calls: no         *)
(* handled end leaves an approval, and no command takes more than it was asked  *)
(* to or reports a refusal of what it took.                                     *)
EXTENDS Cli, TLAPS

-----------------------------------------------------------------------------
(* What a step does.                                                         *)

\* A command that was started.
Process ==
    [action: Actions, network: {"test", "main", "url"}, amount: Nat, bad: STRING,
     pair: Assets \X Assets, together: BOOLEAN,
     status: {"running", "done", "refused", "thrown", "crashed"},
     at: Int, tries: Nat, spent: Nat]

TypeOK ==
    /\ cli \in [Commands -> {Idle} \cup Process]
    /\ allowance \in [Spenders -> Nat]
    /\ funds \in Nat /\ faults \in Nat

\* An error leads to the handler or out of the program.
Failed(c, r) ==
    IF step(c).caught THEN r.status = "running" /\ r.at = handler(c) ELSE r.status = "thrown"

Onward(c, r) == r.status = "running" /\ r.at = cli[c].at + 1

Approvals == {"approve", "approveMax", "revoke"}

\* Nothing is mined.
Passed(c, r) ==
    /\ r.spent = cli[c].spent
    /\ UNCHANGED <<allowance, funds>>
    /\ \/ Onward(c, r) /\ step(c).do \notin Approvals \cup {"send", "done", "refused"}
       \/ r.status = "running" /\ r.at = cli[c].at + 2 /\ step(c).do \in {"threshold", "needed"}
       \/ r.status = "running" /\ r.at = cli[c].at /\ step(c).do = "estimate"
       \/ r.status = "refused" /\ step(c).do \in {"refused", "key", "check"}
       \/ r.status = "done" /\ step(c).do = "done"
       \/ r.status \in {"thrown", "crashed"}
       \/ Failed(c, r)

\* An approval is mined.
Approves(c, r) ==
    /\ r.spent = cli[c].spent
    /\ step(c).do \in Approvals
    /\ allowance' = [allowance EXCEPT ![step(c).of] = approved(c)]
    /\ funds' = funds
    /\ Onward(c, r) \/ Failed(c, r)

\* A transaction is mined and takes n.
Sends(c, r, n) ==
    /\ r.spent = cli[c].spent + n
    /\ step(c).do = "send" /\ CanPull(c, n)
    /\ funds' = funds - n
    /\ allowance' = IF step(c).of \in DOMAIN Pulls
                    THEN [allowance EXCEPT ![Pulls[step(c).of]] = @ - n] ELSE allowance
    /\ Onward(c, r) \/ Failed(c, r)

Outcome(c, r) == Passed(c, r) \/ Approves(c, r) \/ \E n \in 0..funds : Sends(c, r, n)

Turn(c) == Progress(c) \/ CallFails(c) \/ AnswerLost(c)

\* A running command's record, and the ones a step can make of it.
LEMMA Moves ==
    ASSUME TypeOK, NEW c \in Commands, Running(c)
    PROVE  /\ cli[c] \in Process
           /\ \A x \in Int, n \in Nat, s \in {"running", "done", "refused", "thrown", "crashed"},
                 m \in Nat :
                 [cli[c] EXCEPT !.at = x, !.tries = n, !.status = s, !.spent = m] \in Process
<1>1. cli[c] # Idle BY DEF Running, Idle
<1>2. cli[c] \in Process BY <1>1 DEF TypeOK
<1> QED BY <1>2 DEF Process

\* An approval is of a number.
LEMMA ApprovedIsNumber ==
    ASSUME NEW c \in Commands, cli[c] \in Process, step(c).do \in Approvals
    PROVE  approved(c) \in Nat
<1>1. cli[c].amount \in Nat BY DEF Process
<1> QED BY <1>1 DEF approved, Approvals, ALL

-----------------------------------------------------------------------------
(* The programs.                                                             *)

\* What the words of the programs mean.
LEMMA Kinds ==
    /\ Amount.do = "amount" /\ ~Amount.caught
    /\ AmountOrAll.do = "amount" /\ ~AmountOrAll.caught
    /\ Asset.do = "asset" /\ ~Asset.caught
    /\ Rate.do = "rate" /\ ~Rate.caught
    /\ Key.do = "key" /\ ~Key.caught
    /\ MainOnly.do = "mainOnly" /\ ~MainOnly.caught
    /\ Helper.do = "helper" /\ ~Helper.caught
    /\ Read.do = "read" /\ ~Read.caught
    /\ Done.do = "done" /\ ~Done.caught
    /\ Refused.do = "refused" /\ ~Refused.caught
    /\ Catch.do = "catch" /\ ~Catch.caught
    /\ \A x : /\ Check(x).do = "check" /\ ~Check(x).caught
              /\ Lookup(x).do = "lookup" /\ ~Lookup(x).caught
              /\ Approve(x).do = "approve" /\ Approve(x).of = x /\ ~Approve(x).caught
              /\ ApproveMax(x).do = "approveMax" /\ ApproveMax(x).of = x /\ ~ApproveMax(x).caught
              /\ Revoke(x).do = "revoke" /\ Revoke(x).of = x /\ ~Revoke(x).caught
              /\ Send(x).do = "send" /\ Send(x).of = x /\ ~Send(x).caught
              /\ Estimate(x).do = "estimate" /\ Estimate(x).of = x /\ Estimate(x).caught
    /\ \A x, y : Unless(x, y).do = x /\ Unless(x, y).of = y /\ ~Unless(x, y).caught
BY DEF Amount, AmountOrAll, Asset, Rate, Key, MainOnly, Helper, Read, Done, Refused, Catch,
       Check, Lookup, Approve, ApproveMax, Revoke, Send, Estimate, Unless, Step, Try

\* A step inside the try is the same step, caught.
LEMMA Caught ==
    /\ \A x : Try(Send(x)).do = "send" /\ Try(Send(x)).of = x /\ Try(Send(x)).caught
    /\ \A x : Try(Approve(x)).do = "approve" /\ Try(Approve(x)).of = x /\ Try(Approve(x)).caught
    /\ \A x, y : /\ Try(Unless(x, y)).do = x /\ Try(Unless(x, y)).of = y
                 /\ Try(Unless(x, y)).caught
BY DEF Send, Approve, Unless, Step, Try

\* Program p sends at k only, and handles errors at h only.  Every step but the
\* last has a successor; what is caught has a handler, after the sending.  If p
\* simulates what it sends and that takes tokens, the sending is outside the try,
\* and so is what follows, revocations and an end, up to the handler.
Shape(p, k, h) ==
    /\ 1 \in DOMAIN p /\ DOMAIN p \subseteq Nat /\ 0 \notin DOMAIN p
    /\ \A i \in DOMAIN p :
          /\ p[i].do \notin {"done", "refused"} => i + 1 \in DOMAIN p
          /\ p[i].do \in {"threshold", "needed"} => i + 2 \in DOMAIN p
          /\ p[i].do = "send" => i = k
          /\ p[i].do = "catch" => i = h
          /\ p[i].caught => h \in DOMAIN p /\ p[h].do = "catch"
    /\ k < h
    /\ k \in DOMAIN p /\ p[k].of \in DOMAIN Pulls /\ (\E i \in DOMAIN p : p[i].do = "estimate")
          => /\ ~p[k].caught /\ k + 1 < h
             /\ \A i \in DOMAIN p : k < i /\ i < h =>
                   ~p[i].caught /\ (p[i].do = "done" \/ (p[i].do = "revoke" /\ i + 1 < h))

LEMMA PullsOf ==
    DOMAIN Pulls = {"deposit", "repay", "liquidationCall", "repayDelegation",
                    "liquiditySwap", "repayFromCollateral"}
BY DEF Pulls

LEMMA Shapes ==
    ASSUME NEW action \in Actions
    PROVE  \E k, h \in Nat : Shape(Program[action], k, h)
<1>1. Shape(balanceOf, 0, 3)
  <2> DEFINE p == balanceOf
  <2>1. /\ p[1] = Read /\ p[2] = Done
        /\ DOMAIN p = 1..2
    BY DEF balanceOf
  <2>2. \A i \in DOMAIN p : i \in {1, 2}
    BY <2>1
  <2>. HIDE DEF p
  <2>3. Shape(p, 0, 3) BY <2>1, <2>2, Kinds, PullsOf DEF Shape
  <2> QED BY <2>3 DEF p
<1>2. Shape(getUserReserveData, 0, 4)
  <2> DEFINE p == getUserReserveData
  <2>1. /\ p[1] = Read /\ p[2] = Read /\ p[3] = Done
        /\ DOMAIN p = 1..3
    BY DEF getUserReserveData
  <2>2. \A i \in DOMAIN p : i \in {1, 2, 3}
    BY <2>1
  <2>. HIDE DEF p
  <2>3. Shape(p, 0, 4) BY <2>1, <2>2, Kinds, PullsOf DEF Shape
  <2> QED BY <2>3 DEF p
<1>3. Shape(getUserAccountData, 0, 3)
  <2> DEFINE p == getUserAccountData
  <2>1. /\ p[1] = Read /\ p[2] = Done
        /\ DOMAIN p = 1..2
    BY DEF getUserAccountData
  <2>2. \A i \in DOMAIN p : i \in {1, 2}
    BY <2>1
  <2>. HIDE DEF p
  <2>3. Shape(p, 0, 3) BY <2>1, <2>2, Kinds, PullsOf DEF Shape
  <2> QED BY <2>3 DEF p
<1>4. Shape(getReserveData, 0, 4)
  <2> DEFINE p == getReserveData
  <2>1. /\ p[1] = Read /\ p[2] = Read /\ p[3] = Done
        /\ DOMAIN p = 1..3
    BY DEF getReserveData
  <2>2. \A i \in DOMAIN p : i \in {1, 2, 3}
    BY <2>1
  <2>. HIDE DEF p
  <2>3. Shape(p, 0, 4) BY <2>1, <2>2, Kinds, PullsOf DEF Shape
  <2> QED BY <2>3 DEF p
<1>5. Shape(getReserveConfigurationData, 0, 3)
  <2> DEFINE p == getReserveConfigurationData
  <2>1. /\ p[1] = Read /\ p[2] = Done
        /\ DOMAIN p = 1..2
    BY DEF getReserveConfigurationData
  <2>2. \A i \in DOMAIN p : i \in {1, 2}
    BY <2>1
  <2>. HIDE DEF p
  <2>3. Shape(p, 0, 3) BY <2>1, <2>2, Kinds, PullsOf DEF Shape
  <2> QED BY <2>3 DEF p
<1>6. Shape(deposit, 5, 7)
  <2> DEFINE p == deposit
  <2>1. /\ p[1] = Amount /\ p[2] = Key /\ p[3] = Approve("pool")
        /\ p[4] = Estimate("deposit") /\ p[5] = Send("deposit") /\ p[6] = Done
        /\ p[7] = Catch /\ p[8] = Revoke("pool") /\ p[9] = Refused
        /\ DOMAIN p = 1..9
    BY DEF deposit
  <2>2. \A i \in DOMAIN p : i \in {1, 2, 3, 4, 5, 6, 7, 8, 9}
    BY <2>1
  <2>. HIDE DEF p
  <2>3. Shape(p, 5, 7) BY <2>1, <2>2, Kinds, PullsOf DEF Shape
  <2> QED BY <2>3 DEF p
<1>7. Shape(borrow, 5, 7)
  <2> DEFINE p == borrow
  <2>1. /\ p[1] = Amount /\ p[2] = Rate /\ p[3] = Key
        /\ p[4] = Estimate("borrow") /\ p[5] = Send("borrow") /\ p[6] = Done
        /\ p[7] = Catch /\ p[8] = Refused
        /\ DOMAIN p = 1..8
    BY DEF borrow
  <2>2. \A i \in DOMAIN p : i \in {1, 2, 3, 4, 5, 6, 7, 8}
    BY <2>1
  <2>. HIDE DEF p
  <2>3. Shape(p, 5, 7) BY <2>1, <2>2, Kinds, PullsOf DEF Shape
  <2> QED BY <2>3 DEF p
<1>8. Shape(repay, 6, 9)
  <2> DEFINE p == repay
  <2>1. /\ p[1] = AmountOrAll /\ p[2] = Rate /\ p[3] = Key
        /\ p[4] = Approve("pool") /\ p[5] = Estimate("repay")
        /\ p[6] = Send("repay") /\ p[7] = Revoke("pool") /\ p[8] = Done
        /\ p[9] = Catch /\ p[10] = Revoke("pool") /\ p[11] = Refused
        /\ DOMAIN p = 1..11
    BY DEF repay
  <2>2. \A i \in DOMAIN p : i \in {1, 2, 3, 4, 5, 6, 7, 8, 9, 10, 11}
    BY <2>1
  <2>. HIDE DEF p
  <2>3. Shape(p, 6, 9) BY <2>1, <2>2, Kinds, PullsOf DEF Shape
  <2> QED BY <2>3 DEF p
<1>9. Shape(redeem, 4, 6)
  <2> DEFINE p == redeem
  <2>1. /\ p[1] = AmountOrAll /\ p[2] = Key /\ p[3] = Estimate("redeem")
        /\ p[4] = Send("redeem") /\ p[5] = Done /\ p[6] = Catch
        /\ p[7] = Refused
        /\ DOMAIN p = 1..7
    BY DEF redeem
  <2>2. \A i \in DOMAIN p : i \in {1, 2, 3, 4, 5, 6, 7}
    BY <2>1
  <2>. HIDE DEF p
  <2>3. Shape(p, 4, 6) BY <2>1, <2>2, Kinds, PullsOf DEF Shape
  <2> QED BY <2>3 DEF p
<1>10. Shape(delegate, 0, 7)
  <2> DEFINE p == delegate
  <2>1. /\ p[1] = Amount /\ p[2] = Rate /\ p[3] = Key /\ p[4] = Read
        /\ p[5] = Approve("borrower") /\ p[6] = Done
        /\ DOMAIN p = 1..6
    BY DEF delegate
  <2>2. \A i \in DOMAIN p : i \in {1, 2, 3, 4, 5, 6}
    BY <2>1
  <2>. HIDE DEF p
  <2>3. Shape(p, 0, 7) BY <2>1, <2>2, Kinds, PullsOf DEF Shape
  <2> QED BY <2>3 DEF p
<1>11. Shape(borrowFrom, 5, 7)
  <2> DEFINE p == borrowFrom
  <2>1. /\ p[1] = Amount /\ p[2] = Rate /\ p[3] = Key
        /\ p[4] = Estimate("borrow") /\ p[5] = Send("borrow") /\ p[6] = Done
        /\ p[7] = Catch /\ p[8] = Refused
        /\ DOMAIN p = 1..8
    BY DEF borrowFrom
  <2>2. \A i \in DOMAIN p : i \in {1, 2, 3, 4, 5, 6, 7, 8}
    BY <2>1
  <2>. HIDE DEF p
  <2>3. Shape(p, 5, 7) BY <2>1, <2>2, Kinds, PullsOf DEF Shape
  <2> QED BY <2>3 DEF p
<1>12. Shape(repayFor, 6, 9)
  <2> DEFINE p == repayFor
  <2>1. /\ p[1] = Amount /\ p[2] = Rate /\ p[3] = Key
        /\ p[4] = Approve("pool") /\ p[5] = Estimate("repay")
        /\ p[6] = Send("repay") /\ p[7] = Revoke("pool") /\ p[8] = Done
        /\ p[9] = Catch /\ p[10] = Revoke("pool") /\ p[11] = Refused
        /\ DOMAIN p = 1..11
    BY DEF repayFor
  <2>2. \A i \in DOMAIN p : i \in {1, 2, 3, 4, 5, 6, 7, 8, 9, 10, 11}
    BY <2>1
  <2>. HIDE DEF p
  <2>3. Shape(p, 6, 9) BY <2>1, <2>2, Kinds, PullsOf DEF Shape
  <2> QED BY <2>3 DEF p
<1>13. Shape(migrateStep2, 9, 10)
  <2> DEFINE p == migrateStep2
  <2>1. /\ p[1] = Key /\ p[2] = Read /\ p[3] = Read /\ p[4] = Read
        /\ p[5] = ApproveMax("migratorCUSD")
        /\ p[6] = ApproveMax("migratorCEUR")
        /\ p[7] = ApproveMax("migratorCELO") /\ p[8] = Estimate("migrate")
        /\ p[9] = Try(Send("migrate")) /\ p[10] = Catch
        /\ p[11] = Revoke("migratorCUSD") /\ p[12] = Revoke("migratorCEUR")
        /\ p[13] = Revoke("migratorCELO") /\ p[14] = Done
        /\ DOMAIN p = 1..14
    BY DEF migrateStep2
  <2>2. \A i \in DOMAIN p : i \in {1, 2, 3, 4, 5, 6, 7, 8, 9, 10, 11, 12, 13, 14}
    BY <2>1
  <2>. HIDE DEF p
  <2>3. Shape(p, 9, 10) BY <2>1, <2>2, Kinds, Caught, PullsOf DEF Shape
  <2> QED BY <2>3 DEF p
<1>14. Shape(liquiditySwap, 11, 13)
  <2> DEFINE p == liquiditySwap
  <2>1. /\ p[1] = MainOnly /\ p[2] = Key /\ p[3] = Amount /\ p[4] = Asset
        /\ p[5] = Lookup("lowerCase") /\ p[6] = Read /\ p[7] = Read
        /\ p[8] = Unless("threshold", "swapAdapter")
        /\ p[9] = ApproveMax("swapAdapter")
        /\ p[10] = Estimate("liquiditySwap") /\ p[11] = Send("liquiditySwap")
        /\ p[12] = Done /\ p[13] = Catch /\ p[14] = Refused
        /\ DOMAIN p = 1..14
    BY DEF liquiditySwap
  <2>2. \A i \in DOMAIN p : i \in {1, 2, 3, 4, 5, 6, 7, 8, 9, 10, 11, 12, 13, 14}
    BY <2>1
  <2>. HIDE DEF p
  <2>3. Shape(p, 11, 13) BY <2>1, <2>2, Kinds, PullsOf DEF Shape
  <2> QED BY <2>3 DEF p
<1>15. Shape(repayFromCollateral, 14, 16)
  <2> DEFINE p == repayFromCollateral
  <2>1. /\ p[1] = MainOnly /\ p[2] = Key /\ p[3] = Check("asset")
        /\ p[4] = Check("rate") /\ p[5] = Check("number")
        /\ p[6] = Check("boolean") /\ p[7] = Amount
        /\ p[8] = Lookup("lowerCase") /\ p[9] = Read /\ p[10] = Read
        /\ p[11] = Unless("needed", "repayAdapter")
        /\ p[12] = Approve("repayAdapter")
        /\ p[13] = Estimate("repayFromCollateral")
        /\ p[14] = Send("repayFromCollateral") /\ p[15] = Done
        /\ p[16] = Catch /\ p[17] = Refused
        /\ DOMAIN p = 1..17
    BY DEF repayFromCollateral
  <2>2. \A i \in DOMAIN p : i \in {1, 2, 3, 4, 5, 6, 7, 8, 9, 10, 11, 12, 13, 14, 15, 16, 17}
    BY <2>1
  <2>. HIDE DEF p
  <2>3. Shape(p, 14, 16) BY <2>1, <2>2, Kinds, PullsOf DEF Shape
  <2> QED BY <2>3 DEF p
<1>16. Shape(autoRepay, 13, 15)
  <2> DEFINE p == autoRepay
  <2>1. /\ p[1] = MainOnly /\ p[2] = Key /\ p[3] = Check("asset")
        /\ p[4] = Check("rate") /\ p[5] = Check("number")
        /\ p[6] = Check("boolean") /\ p[7] = Amount
        /\ p[8] = Lookup("mixedCase") /\ p[9] = Read /\ p[10] = Read
        /\ p[11] = Read /\ p[12] = Estimate("increaseHealthFactor")
        /\ p[13] = Send("increaseHealthFactor") /\ p[14] = Done
        /\ p[15] = Catch /\ p[16] = Refused
        /\ DOMAIN p = 1..16
    BY DEF autoRepay
  <2>2. \A i \in DOMAIN p : i \in {1, 2, 3, 4, 5, 6, 7, 8, 9, 10, 11, 12, 13, 14, 15, 16}
    BY <2>1
  <2>. HIDE DEF p
  <2>3. Shape(p, 13, 15) BY <2>1, <2>2, Kinds, PullsOf DEF Shape
  <2> QED BY <2>3 DEF p
<1>17. Shape(autoRepayUserInfo, 0, 4)
  <2> DEFINE p == autoRepayUserInfo
  <2>1. /\ p[1] = Read /\ p[2] = Read /\ p[3] = Done
        /\ DOMAIN p = 1..3
    BY DEF autoRepayUserInfo
  <2>2. \A i \in DOMAIN p : i \in {1, 2, 3}
    BY <2>1
  <2>. HIDE DEF p
  <2>3. Shape(p, 0, 4) BY <2>1, <2>2, Kinds, PullsOf DEF Shape
  <2> QED BY <2>3 DEF p
<1>18. Shape(setAutoRepayParams, 5, 7)
  <2> DEFINE p == setAutoRepayParams
  <2>1. /\ p[1] = MainOnly /\ p[2] = Key /\ p[3] = Check("number")
        /\ p[4] = Estimate("setMinMaxHealthFactor")
        /\ p[5] = Send("setMinMaxHealthFactor") /\ p[6] = Done /\ p[7] = Catch
        /\ p[8] = Refused
        /\ DOMAIN p = 1..8
    BY DEF setAutoRepayParams
  <2>2. \A i \in DOMAIN p : i \in {1, 2, 3, 4, 5, 6, 7, 8}
    BY <2>1
  <2>. HIDE DEF p
  <2>3. Shape(p, 5, 7) BY <2>1, <2>2, Kinds, PullsOf DEF Shape
  <2> QED BY <2>3 DEF p
<1>19. Shape(liquidationCall, 6, 8)
  <2> DEFINE p == liquidationCall
  <2>1. /\ p[1] = Asset /\ p[2] = Amount /\ p[3] = Key
        /\ p[4] = Unless("threshold", "pool") /\ p[5] = ApproveMax("pool")
        /\ p[6] = Try(Send("liquidationCall")) /\ p[7] = Done /\ p[8] = Catch
        /\ p[9] = Refused
        /\ DOMAIN p = 1..9
    BY DEF liquidationCall
  <2>2. \A i \in DOMAIN p : i \in {1, 2, 3, 4, 5, 6, 7, 8, 9}
    BY <2>1
  <2>. HIDE DEF p
  <2>3. Shape(p, 6, 8) BY <2>1, <2>2, Kinds, Caught, PullsOf DEF Shape
  <2> QED BY <2>3 DEF p
<1>20. Shape(repayDelegation, 8, 10)
  <2> DEFINE p == repayDelegation
  <2>1. /\ p[1] = Asset /\ p[2] = Amount /\ p[3] = Check("rate") /\ p[4] = Key
        /\ p[5] = Helper /\ p[6] = Try(Unless("needed", "helper"))
        /\ p[7] = Try(Approve("helper"))
        /\ p[8] = Try(Send("repayDelegation")) /\ p[9] = Done /\ p[10] = Catch
        /\ p[11] = Revoke("helper") /\ p[12] = Refused
        /\ DOMAIN p = 1..12
    BY DEF repayDelegation
  <2>2. \A i \in DOMAIN p : i \in {1, 2, 3, 4, 5, 6, 7, 8, 9, 10, 11, 12}
    BY <2>1
  <2>. HIDE DEF p
  <2>3. Shape(p, 8, 10) BY <2>1, <2>2, Kinds, Caught, PullsOf DEF Shape
  <2> QED BY <2>3 DEF p
<1>21. Shape(leverageBorrow, 11, 13)
  <2> DEFINE p == leverageBorrow
  <2>1. /\ p[1] = MainOnly /\ p[2] = Key /\ p[3] = Check("asset")
        /\ p[4] = Check("rate") /\ p[5] = Check("number")
        /\ p[6] = Check("different") /\ p[7] = Amount /\ p[8] = Read
        /\ p[9] = Read /\ p[10] = Estimate("flashLoan")
        /\ p[11] = Send("flashLoan") /\ p[12] = Done /\ p[13] = Catch
        /\ p[14] = Refused
        /\ DOMAIN p = 1..14
    BY DEF leverageBorrow
  <2>2. \A i \in DOMAIN p : i \in {1, 2, 3, 4, 5, 6, 7, 8, 9, 10, 11, 12, 13, 14}
    BY <2>1
  <2>. HIDE DEF p
  <2>3. Shape(p, 11, 13) BY <2>1, <2>2, Kinds, PullsOf DEF Shape
  <2> QED BY <2>3 DEF p
<1> QED
  BY <1>1, <1>2, <1>3, <1>4, <1>5, <1>6, <1>7, <1>8, <1>9, <1>10, <1>11, <1>12, <1>13, <1>14, <1>15, <1>16, <1>17, <1>18, <1>19, <1>20, <1>21 DEF Program, Actions

-----------------------------------------------------------------------------
(* Every step, and the invariants of the program counters.                   *)

\* A running command is at one of its steps, or still reading the addresses.
InBounds(c) == Running(c) => cli[c].at <= 0 \/ cli[c].at \in DOMAIN Program[cli[c].action]

\* The handler of a caught step is the one its program has.
LEMMA HandlerOf ==
    ASSUME TypeOK, NEW c \in Commands, Running(c), InBounds(c), step(c).caught,
           NEW k \in Nat, NEW h \in Nat, Shape(Program[cli[c].action], k, h)
    PROVE  /\ handler(c) = h /\ h \in DOMAIN Program[cli[c].action]
           /\ cli[c].at \in DOMAIN Program[cli[c].action]
<1>1. cli[c].at \in DOMAIN Program[cli[c].action]
  <2>1. cli[c].at \in Int BY Moves DEF Process
  <2> QED BY <2>1, Kinds DEF InBounds, step
<1>2. step(c) = Program[cli[c].action][cli[c].at]
  <2>1. cli[c].at \in Nat /\ cli[c].at # 0 BY <1>1 DEF Shape
  <2>2. ~(cli[c].at <= 0) BY <2>1
  <2> QED BY <2>2 DEF step
<1> QED BY <1>1, <1>2 DEF Shape, handler

\* What a step of a command does to it, to the allowances and to the funds.
LEMMA Effects ==
    ASSUME TypeOK, NEW c \in Commands, InBounds(c), Turn(c)
    PROVE  /\ Running(c)
           /\ \E r \in Process :
                 /\ r.action = cli[c].action /\ r.amount = cli[c].amount
                 /\ cli' = [cli EXCEPT ![c] = r]
                 /\ Outcome(c, r)
<1> DEFINE x == cli[c]
<1>1. Running(c)
  BY DEF Turn, Progress, CallFails, AnswerLost, LocalStep, ReadSucceeds, ReadAllowance,
         ApproveSucceeds, ApproveThrows, EstimateSucceeds, EstimateReverts, SendSucceeds,
         SendReverts, ApproveMined, SendMined, At
<1>2. x \in Process BY <1>1, Moves
<1>3. PICK k \in Nat, h \in Nat : Shape(Program[x.action], k, h) BY <1>2, Shapes DEF Process
<1>4. step(c).caught => handler(c) \in Int
  BY <1>1, <1>3, HandlerOf
<1>5. /\ next(c) \in Process /\ Onward(c, next(c))
      /\ next(c).action = x.action /\ next(c).amount = x.amount /\ next(c).spent = x.spent
  <2>1. next(c) = [x EXCEPT !.at = @ + 1, !.tries = RETRIES] BY DEF next
  <2>2. RETRIES \in Nat BY CliConstants
  <2>3. next(c) \in Process
    <3> DEFINE i == x.at + 1
    <3>1. i \in Int BY <1>2 DEF Process
    <3>2. next(c) = [x EXCEPT !.at = i, !.tries = RETRIES] BY <1>2, <2>1 DEF Process
    <3>. HIDE DEF i
    <3> QED BY <1>2, <2>2, <3>1, <3>2 DEF Process
  <2>4. next(c).at = x.at + 1 /\ next(c).status = x.status BY <1>2, <2>1 DEF Process
  <2>5. next(c).action = x.action /\ next(c).amount = x.amount /\ next(c).spent = x.spent
    BY <1>2, <2>1 DEF Process
  <2> QED BY <1>1, <2>3, <2>4, <2>5 DEF Onward, Running
<1>6. /\ skipNext(c) \in Process /\ skipNext(c).status = "running" /\ skipNext(c).at = x.at + 2
      /\ skipNext(c).action = x.action /\ skipNext(c).amount = x.amount
      /\ skipNext(c).spent = x.spent
  BY <1>1, <1>2 DEF skipNext, Running, Process
<1>7. ASSUME NEW how \in {"done", "refused", "thrown", "crashed"}
      PROVE  /\ ends(c, how) \in Process /\ ends(c, how).status = how
             /\ ends(c, how).action = x.action /\ ends(c, how).amount = x.amount
             /\ ends(c, how).spent = x.spent
  BY <1>2 DEF ends, Process
<1>8. /\ fails(c) \in Process /\ Failed(c, fails(c))
      /\ fails(c).action = x.action /\ fails(c).amount = x.amount /\ fails(c).spent = x.spent
  <2>1. CASE step(c).caught
    <3>1. fails(c) = [x EXCEPT !.at = handler(c), !.tries = RETRIES] BY <2>1 DEF fails
    <3> QED BY <1>1, <1>2, <1>4, <2>1, <3>1, CliConstants DEF Failed, Running, Process
  <2>2. CASE ~step(c).caught
    <3>1. fails(c) = ends(c, "thrown") BY <2>2 DEF fails
    <3> QED BY <1>7, <2>2, <3>1 DEF Failed
  <2> QED BY <2>1, <2>2
<1>9. ASSUME NEW n \in 0..funds
      PROVE  /\ [next(c) EXCEPT !.spent = @ + n] \in Process
             /\ Onward(c, [next(c) EXCEPT !.spent = @ + n])
             /\ [next(c) EXCEPT !.spent = @ + n].spent = x.spent + n
             /\ [next(c) EXCEPT !.spent = @ + n].action = x.action
             /\ [next(c) EXCEPT !.spent = @ + n].amount = x.amount
             /\ [fails(c) EXCEPT !.spent = @ + n] \in Process
             /\ Failed(c, [fails(c) EXCEPT !.spent = @ + n])
             /\ [fails(c) EXCEPT !.spent = @ + n].spent = x.spent + n
             /\ [fails(c) EXCEPT !.spent = @ + n].action = x.action
             /\ [fails(c) EXCEPT !.spent = @ + n].amount = x.amount
  <2>1. n \in Nat BY DEF TypeOK
  <2>2. ASSUME NEW r \in Process
        PROVE  /\ [r EXCEPT !.spent = @ + n] \in Process
               /\ [r EXCEPT !.spent = @ + n].spent = r.spent + n
               /\ [r EXCEPT !.spent = @ + n].action = r.action
               /\ [r EXCEPT !.spent = @ + n].amount = r.amount
               /\ [r EXCEPT !.spent = @ + n].status = r.status
               /\ [r EXCEPT !.spent = @ + n].at = r.at
    BY <2>1 DEF Process
  <2> QED BY <1>5, <1>8, <2>2 DEF Onward, Failed
<1>10. CASE LocalStep(c)
  <2>1. UNCHANGED <<allowance, funds>> BY <1>10 DEF LocalStep
  <2>2. /\ step(c).do \in {"amount", "asset", "rate", "key", "mainOnly", "check", "lookup",
                           "helper", "catch", "done", "refused"}
        /\ \/ cli' = [cli EXCEPT ![c] = ends(c, step(c).do)] /\ step(c).do \in {"done", "refused"}
           \/ cli' = [cli EXCEPT ![c] = ends(c, "thrown")]
           \/ cli' = [cli EXCEPT ![c] = ends(c, "refused")] /\ step(c).do \in {"key", "check"}
           \/ cli' = [cli EXCEPT ![c] = ends(c, "crashed")]
           \/ cli' = [cli EXCEPT ![c] = next(c)] /\ step(c).do \notin {"done", "refused"}
    <3>1. step(c).do \in {"amount", "asset", "rate", "key", "mainOnly", "check", "lookup",
                          "helper", "catch", "done", "refused"}
      BY <1>10 DEF LocalStep, At
    <3> DEFINE e == CASE step(c).do \in {"done", "refused"} -> ends(c, step(c).do)
                      [] step(c).do = "mainOnly" /\ cli[c].network = "test" -> ends(c, "thrown")
                      [] refuses(c) -> ends(c, "refused")
                      [] crashes(c) -> ends(c, "crashed")
                      [] OTHER      -> next(c)
    <3>2. cli' = [cli EXCEPT ![c] = e] BY <1>10 DEF LocalStep, Becomes
    <3>3. /\ refuses(c) => step(c).do \in {"key", "check"}
          /\ crashes(c) => step(c).do \in {"amount", "asset", "rate", "lookup", "helper"}
      BY DEF refuses, crashes
    <3>4. CASE step(c).do \in {"done", "refused"}
      <4>1. e = ends(c, step(c).do) BY <3>3, <3>4
      <4>. HIDE DEF e
      <4> QED BY <3>1, <3>2, <3>4, <4>1
    <3>5. CASE step(c).do \notin {"done", "refused"}
      <4>1. \/ e = ends(c, "thrown") \/ e = ends(c, "crashed") \/ e = next(c)
            \/ e = ends(c, "refused") /\ refuses(c)
        BY <3>5
      <4>. HIDE DEF e
      <4> QED BY <3>1, <3>2, <3>3, <3>5, <4>1
    <3> QED BY <3>4, <3>5
  <2>3. CASE cli' = [cli EXCEPT ![c] = ends(c, step(c).do)] /\ step(c).do \in {"done", "refused"}
    BY <1>1, <1>7, <2>1, <2>3 DEF Outcome, Passed
  <2>4. CASE cli' = [cli EXCEPT ![c] = ends(c, "thrown")]
    BY <1>1, <1>7, <2>1, <2>4 DEF Outcome, Passed
  <2>5. CASE cli' = [cli EXCEPT ![c] = ends(c, "refused")] /\ step(c).do \in {"key", "check"}
    BY <1>1, <1>7, <2>1, <2>5 DEF Outcome, Passed
  <2>6. CASE cli' = [cli EXCEPT ![c] = ends(c, "crashed")]
    BY <1>1, <1>7, <2>1, <2>6 DEF Outcome, Passed
  <2>7. CASE cli' = [cli EXCEPT ![c] = next(c)] /\ step(c).do \notin {"done", "refused"}
    BY <1>1, <1>5, <2>1, <2>2, <2>7 DEF Outcome, Passed, Approvals
  <2> QED BY <2>2, <2>3, <2>4, <2>5, <2>6, <2>7
<1>11. CASE ReadSucceeds(c) \/ EstimateSucceeds(c)
  <2>1. /\ step(c).do \in {"read", "estimate"} /\ UNCHANGED <<allowance, funds>>
        /\ cli' = [cli EXCEPT ![c] = next(c)]
    BY <1>11 DEF ReadSucceeds, EstimateSucceeds, At, Becomes
  <2> QED BY <1>1, <1>5, <2>1 DEF Outcome, Passed, Approvals
<1>12. CASE ReadAllowance(c)
  <2>1. /\ step(c).do \in {"threshold", "needed"} /\ UNCHANGED <<allowance, funds>>
        /\ cli' = [cli EXCEPT ![c] = next(c)] \/ cli' = [cli EXCEPT ![c] = skipNext(c)]
    BY <1>12 DEF ReadAllowance, At, Becomes
  <2> QED BY <1>1, <1>5, <1>6, <2>1 DEF Outcome, Passed, Approvals
<1>13. CASE ApproveSucceeds(c)
  <2>1. /\ step(c).do \in Approvals /\ funds' = funds
        /\ allowance' = [allowance EXCEPT ![step(c).of] = approved(c)]
        /\ cli' = [cli EXCEPT ![c] = next(c)]
    BY <1>13 DEF ApproveSucceeds, ApproveMined, At, Becomes, Approvals
  <2>2. Approves(c, next(c)) BY <1>5, <2>1 DEF Approves
  <2> QED BY <1>1, <1>5, <2>1, <2>2 DEF Outcome
<1>14. CASE ApproveThrows(c) \/ SendReverts(c) \/ CallFails(c)
  <2>1. UNCHANGED <<allowance, funds>> /\ cli' = [cli EXCEPT ![c] = fails(c)]
    BY <1>14 DEF ApproveThrows, SendReverts, CallFails, Becomes
  <2> QED BY <1>1, <1>8, <2>1 DEF Outcome, Passed
<1>15. CASE EstimateReverts(c)
  <2>1. /\ step(c).do = "estimate" /\ UNCHANGED <<allowance, funds>>
        /\ cli' = [cli EXCEPT ![c] = retried(c)]
    BY <1>15 DEF EstimateReverts, At, Becomes
  <2>2. CASE x.tries = 0
    BY <1>1, <1>8, <2>1, <2>2 DEF retried, Outcome, Passed
  <2>3. CASE x.tries # 0
    <3>1. retried(c) = [x EXCEPT !.tries = @ - 1] BY <2>3 DEF retried
    <3>2. /\ retried(c) \in Process /\ retried(c).status = "running" /\ retried(c).at = x.at
          /\ retried(c).action = x.action /\ retried(c).amount = x.amount
          /\ retried(c).spent = x.spent
      BY <1>1, <1>2, <2>3, <3>1 DEF Running, Process
    <3> QED BY <1>1, <2>1, <3>2 DEF Outcome, Passed
  <2> QED BY <2>2, <2>3
<1>16. CASE SendSucceeds(c)
  <2>1. PICK n \in 0..funds : /\ SendMined(c, n)
                              /\ cli' = [cli EXCEPT ![c] = [next(c) EXCEPT !.spent = @ + n]]
    BY <1>16 DEF SendSucceeds, Becomes
  <2>2. Sends(c, [next(c) EXCEPT !.spent = @ + n], n)
    BY <1>9, <2>1 DEF Sends, SendMined, At
  <2> QED BY <1>1, <1>9, <2>1, <2>2 DEF Outcome
<1>17. CASE AnswerLost(c)
  <2>1. CASE ApproveMined(c) /\ Becomes(c, fails(c))
    <3>1. /\ step(c).do \in Approvals /\ funds' = funds
          /\ allowance' = [allowance EXCEPT ![step(c).of] = approved(c)]
          /\ cli' = [cli EXCEPT ![c] = fails(c)]
      BY <2>1 DEF ApproveMined, At, Becomes, Approvals
    <3>2. Approves(c, fails(c)) BY <1>8, <3>1 DEF Approves
    <3> QED BY <1>1, <1>8, <3>1, <3>2 DEF Outcome
  <2>2. CASE \E n \in 0..funds : SendMined(c, n)
                                   /\ Becomes(c, [fails(c) EXCEPT !.spent = @ + n])
    <3>1. PICK n \in 0..funds : /\ SendMined(c, n)
                                /\ cli' = [cli EXCEPT ![c] = [fails(c) EXCEPT !.spent = @ + n]]
      BY <2>2 DEF Becomes
    <3>2. Sends(c, [fails(c) EXCEPT !.spent = @ + n], n)
      BY <1>9, <3>1 DEF Sends, SendMined, At
    <3> QED BY <1>1, <1>9, <3>1, <3>2 DEF Outcome
  <2> QED BY <1>17, <2>1, <2>2 DEF AnswerLost
<1> QED
  BY <1>10, <1>11, <1>12, <1>13, <1>14, <1>15, <1>16, <1>17 DEF Turn, Progress


-----------------------------------------------------------------------------
(* What a command reports.                                                   *)

\* What a command has taken it took with its one transaction, which is behind
\* it; if the command simulates its transaction, the handler is out of reach.
Reported(c) ==
    cli[c].status # "idle" =>
        /\ cli[c].spent <= cli[c].amount
        /\ cli[c].spent > 0 =>
              \A k, h \in Nat : Shape(Program[cli[c].action], k, h) =>
                 /\ Running(c) => k < cli[c].at
                 /\ Simulated(cli[c].action) =>
                       /\ cli[c].status # "refused"
                       /\ Running(c) => /\ cli[c].at < h
                                        /\ k \in DOMAIN Program[cli[c].action]
                                        /\ Program[cli[c].action][k].of \in DOMAIN Pulls

Reports == TypeOK /\ \A c \in Commands : InBounds(c) /\ Reported(c)

\* A started command is none of the idle ones.
LEMMA Starts ==
    ASSUME TypeOK, NEW c \in Commands, Start(c)
    PROVE  /\ cli[c].status = "idle" /\ UNCHANGED <<allowance, funds, faults>>
           /\ \E r \in Process : /\ cli' = [cli EXCEPT ![c] = r] /\ r.spent = 0
                                 /\ r.status = "running" /\ r.at = -1
<1>1. cli[c].status = "idle" BY DEF Start, started
<1>2. PICK call \in Calls :
         cli' = [cli EXCEPT ![c] =
                    [action |-> call.action, network |-> call.network, bad |-> call.bad,
                     amount |-> call.amount, pair |-> call.pair,
                     together |-> call \in Together, status |-> "running",
                     at |-> 1 - setup, tries |-> RETRIES, spent |-> 0]]
  BY CliConstants DEF Start, Becomes
<1> DEFINE r == [action |-> call.action, network |-> call.network, bad |-> call.bad,
                 amount |-> call.amount, pair |-> call.pair,
                 together |-> call \in Together, status |-> "running",
                 at |-> 1 - setup, tries |-> RETRIES, spent |-> 0]
<1>3. r \in Process /\ r.spent = 0 /\ r.status = "running" /\ r.at = -1
  <2>1. call \in [action: Actions, network: {"test", "main", "url"}, amount: Nat,
                  bad: STRING, pair: Assets \X Assets]
    BY CliConstants
  <2>2. RETRIES \in Nat /\ 1 - setup = -1 /\ (call \in Together) \in BOOLEAN
    BY CliConstants DEF setup
  <2> QED BY <2>1, <2>2 DEF Process
<1>. HIDE DEF r
<1>4. cli' = [cli EXCEPT ![c] = r] BY <1>2 DEF r
<1> QED BY <1>1, <1>3, <1>4 DEF Start

\* The types are preserved.
LEMMA TypesStep ==
    ASSUME TypeOK, \A c \in Commands : InBounds(c), [Next]_vars
    PROVE  TypeOK'
<1>1. CASE UNCHANGED vars BY <1>1 DEF vars, TypeOK
<1>2. ASSUME NEW c \in Commands, Start(c) PROVE TypeOK'
  BY <1>2, Starts DEF TypeOK
<1>3. ASSUME NEW c \in Commands, Turn(c) PROVE TypeOK'
  <2>1. PICK r \in Process : cli' = [cli EXCEPT ![c] = r] /\ Outcome(c, r) BY <1>3, Effects
  <2>2. cli' \in [Commands -> {Idle} \cup Process] BY <2>1 DEF TypeOK
  <2>3. faults' \in Nat
    <3>1. faults' = faults \/ Fault
      <4>1. CASE Progress(c)
        BY <4>1 DEF Progress, LocalStep, ReadSucceeds, ReadAllowance, ApproveSucceeds,
           ApproveThrows, EstimateSucceeds, EstimateReverts, SendSucceeds, SendReverts
      <4>2. CASE CallFails(c) \/ AnswerLost(c) BY <4>2 DEF CallFails, AnswerLost
      <4> QED BY <1>3, <4>1, <4>2 DEF Turn
    <3> QED BY <3>1 DEF Fault, TypeOK
  <2>4. CASE Passed(c, r) BY <2>2, <2>3, <2>4 DEF Passed, TypeOK
  <2>5. CASE Approves(c, r)
    <3>1. approved(c) \in Nat
      <4>1. Running(c) BY <1>3, Effects
      <4>2. cli[c] \in Process BY <4>1, Moves
      <4>3. step(c).do \in Approvals BY <2>5 DEF Approves
      <4> QED BY <4>2, <4>3, ApprovedIsNumber
    <3>2. allowance' \in [Spenders -> Nat]
      <4> DEFINE n == approved(c)
      <4>1. n \in Nat /\ allowance \in [Spenders -> Nat] BY <3>1 DEF TypeOK
      <4>2. allowance' = [allowance EXCEPT ![step(c).of] = n] BY <2>5 DEF Approves
      <4>. HIDE DEF n
      <4> QED BY <4>1, <4>2
    <3>3. UNCHANGED funds BY <2>5 DEF Approves
    <3> QED BY <2>2, <2>3, <3>2, <3>3 DEF TypeOK
  <2>6. ASSUME NEW n \in 0..funds, Sends(c, r, n) PROVE TypeOK'
    <3>1. n \in Nat /\ n <= funds BY DEF TypeOK
    <3>2. funds' \in Nat BY <2>6, <3>1 DEF Sends, TypeOK
    <3>3. step(c).of \in DOMAIN Pulls => /\ n <= allowance[Pulls[step(c).of]]
                                         /\ Pulls[step(c).of] \in Spenders
      BY <2>6 DEF Sends, CanPull, Pulls, Spenders
    <3>4. allowance' \in [Spenders -> Nat]
      BY <2>6, <3>1, <3>3 DEF Sends, TypeOK
    <3> QED BY <2>2, <2>3, <3>2, <3>4 DEF TypeOK
  <2> QED BY <2>1, <2>4, <2>5, <2>6 DEF Outcome
<1> QED BY <1>1, <1>2, <1>3 DEF Next, Turn

\* A command stays at its steps: what is not its last step has a successor.
LEMMA CounterStep ==
    ASSUME TypeOK, NEW c \in Commands, InBounds(c), Turn(c)
    PROVE  InBounds(c)'
<1> DEFINE p == Program[cli[c].action]
<1>1. PICK r \in Process : /\ r.action = cli[c].action /\ cli' = [cli EXCEPT ![c] = r]
                           /\ Outcome(c, r)
  BY Effects
<1>2. Running(c) /\ cli[c] \in Process BY Effects, Moves
<1>3. PICK k \in Nat, h \in Nat : Shape(p, k, h) BY <1>2, Shapes DEF Process
<1>4. cli'[c] = r BY <1>1 DEF TypeOK
<1>5. cli[c].at \in Int BY <1>2 DEF Process
<1>. HIDE DEF p
<1>6. cli[c].at \in DOMAIN p => step(c) = p[cli[c].at]
  BY <1>3, <1>5 DEF Shape, step, p
<1>7. Onward(c, r) /\ step(c).do \notin {"done", "refused"} => r.at <= 0 \/ r.at \in DOMAIN p
  <2>1. cli[c].at <= 0 => cli[c].at + 1 <= 0 \/ cli[c].at + 1 = 1 BY <1>5
  <2> QED BY <1>2, <1>3, <1>6, <2>1 DEF Onward, InBounds, Shape, p
<1>8. r.at = cli[c].at + 2 /\ step(c).do \in {"threshold", "needed"} => r.at \in DOMAIN p
  <2>1. cli[c].at <= 0 => step(c).do = "read" BY Kinds DEF step
  <2> QED BY <1>2, <1>3, <1>6, <2>1 DEF InBounds, Shape, p
<1>9. Failed(c, r) /\ r.status = "running" => r.at \in DOMAIN p
  BY <1>2, <1>3, HandlerOf DEF Failed, p
<1>10. r.status = "running" => r.at <= 0 \/ r.at \in DOMAIN p
  <2>1. CASE Passed(c, r)
    BY <1>2, <1>7, <1>8, <1>9, <2>1 DEF Passed, InBounds, p
  <2>2. CASE Approves(c, r) BY <1>7, <1>9, <2>2 DEF Approves, Approvals
  <2>3. CASE \E n \in 0..funds : Sends(c, r, n) BY <1>7, <1>9, <2>3 DEF Sends
  <2> QED BY <1>1, <2>1, <2>2, <2>3 DEF Outcome
<1> QED BY <1>1, <1>4, <1>10 DEF InBounds, Running, p

\* What a command has taken is no more than it was asked to, and it is past the
\* point where it reports a refusal.
LEMMA ReportedStep ==
    ASSUME TypeOK, NEW c \in Commands, InBounds(c), Reported(c), Turn(c)
    PROVE  Reported(c)'
<1> DEFINE p == Program[cli[c].action]
           x == cli[c]
<1>1. PICK r \in Process : /\ r.action = x.action /\ r.amount = x.amount
                           /\ cli' = [cli EXCEPT ![c] = r] /\ Outcome(c, r)
  BY Effects
<1>2. Running(c) /\ x \in Process BY Effects, Moves
<1>3. cli'[c] = r BY <1>1 DEF TypeOK
<1>4. /\ x.at \in Int /\ x.spent \in Nat /\ x.amount \in Nat /\ r.spent \in Nat /\ r.at \in Int
      /\ x.status = "running"
  BY <1>1, <1>2 DEF Process, Running
<1>5. /\ x.spent <= x.amount
      /\ x.spent > 0 =>
            \A k, h \in Nat : Shape(p, k, h) =>
                /\ k < x.at
                /\ Simulated(x.action) => /\ x.at < h /\ k \in DOMAIN p
                                          /\ p[k].of \in DOMAIN Pulls
  BY <1>2 DEF Reported, Running
<1>6. SUFFICES /\ r.spent <= x.amount
               /\ r.spent > 0 =>
                     \A k, h \in Nat : Shape(p, k, h) =>
                        /\ r.status = "running" => k < r.at
                        /\ Simulated(x.action) =>
                              /\ r.status # "refused"
                              /\ r.status = "running" => /\ r.at < h /\ k \in DOMAIN p
                                                         /\ p[k].of \in DOMAIN Pulls
  BY <1>1, <1>3 DEF Reported, Running, Simulated
<1>7. PICK k0 \in Nat, h0 \in Nat : Shape(p, k0, h0) BY <1>2, Shapes DEF Process
<1>8. x.at > 0 => x.at \in DOMAIN p /\ step(c) = p[x.at]
  BY <1>2, <1>4 DEF InBounds, step
<1>9. x.at <= 0 => step(c).do = "read" /\ ~step(c).caught BY Kinds DEF step
<1>10. Simulated(x.action) <=> \E i \in DOMAIN p : p[i].do = "estimate" BY DEF Simulated
<1>11. ASSUME NEW k \in Nat, NEW h \in Nat, Shape(p, k, h), Failed(c, r), r.status = "running"
       PROVE  r.at = h /\ step(c).caught
  BY <1>2, <1>11, HandlerOf DEF Failed
<1>12. CASE r.spent = x.spent /\ (Passed(c, r) \/ Approves(c, r))
  <2> SUFFICES ASSUME x.spent > 0, NEW k \in Nat, NEW h \in Nat, Shape(p, k, h)
               PROVE  /\ r.status = "running" => k < r.at
                      /\ Simulated(x.action) =>
                            /\ r.status # "refused"
                            /\ r.status = "running" => /\ r.at < h /\ k \in DOMAIN p
                                                       /\ p[k].of \in DOMAIN Pulls
    BY <1>5, <1>12
  <2>1. k < x.at /\ x.at \in DOMAIN p /\ step(c) = p[x.at] BY <1>4, <1>5, <1>8
  <2>2. r.status = "running" => r.at >= x.at \/ (r.at = h /\ step(c).caught)
    BY <1>4, <1>11, <1>12 DEF Passed, Approves, Onward, Failed
  <2>3. r.status = "running" => k < r.at BY <1>4, <2>1, <2>2 DEF Shape
  <2>4. ASSUME Simulated(x.action)
        PROVE  /\ x.at < h /\ k \in DOMAIN p /\ p[k].of \in DOMAIN Pulls
               /\ ~step(c).caught
               /\ step(c).do = "done" \/ (step(c).do = "revoke" /\ x.at + 1 < h)
    BY <1>5, <1>10, <2>1, <2>4 DEF Shape
  <2>5. ASSUME Simulated(x.action)
        PROVE  r.status # "refused" /\ (r.status = "running" => r.at < h)
    BY <1>12, <2>4, <2>5 DEF Passed, Approves, Onward, Failed, Approvals
  <2> QED BY <2>3, <2>4, <2>5
<1>13. ASSUME NEW n \in 0..funds, Sends(c, r, n)
       PROVE  /\ r.spent <= x.amount
              /\ r.spent > 0 =>
                    \A k, h \in Nat : Shape(p, k, h) =>
                       /\ r.status = "running" => k < r.at
                       /\ Simulated(x.action) =>
                             /\ r.status # "refused"
                             /\ r.status = "running" => /\ r.at < h /\ k \in DOMAIN p
                                                        /\ p[k].of \in DOMAIN Pulls
  <2>1. x.at > 0 /\ x.at \in DOMAIN p /\ step(c) = p[x.at] /\ step(c).do = "send"
    BY <1>4, <1>8, <1>9, <1>13 DEF Sends
  <2>2. x.spent = 0
    <3>1. x.at = k0 BY <1>7, <2>1 DEF Shape
    <3> QED BY <1>4, <1>5, <1>7, <3>1
  <2>3. /\ n <= x.amount /\ n \in Nat /\ r.spent = n
        /\ n > 0 => step(c).of \in DOMAIN Pulls
    BY <1>4, <1>13, <2>2 DEF Sends, CanPull, TypeOK
  <2> SUFFICES ASSUME r.spent > 0, NEW k \in Nat, NEW h \in Nat, Shape(p, k, h)
               PROVE  /\ r.status = "running" => k < r.at
                      /\ Simulated(x.action) =>
                            /\ r.status # "refused"
                            /\ r.status = "running" => /\ r.at < h /\ k \in DOMAIN p
                                                       /\ p[k].of \in DOMAIN Pulls
    BY <2>3
  <2>4. x.at = k BY <2>1 DEF Shape
  <2>5. p[k].of \in DOMAIN Pulls BY <2>1, <2>3, <2>4
  <2>6. r.status = "running" => r.at = k + 1 \/ (r.at = h /\ step(c).caught)
    BY <1>11, <1>13, <2>4 DEF Sends, Onward
  <2>7. r.status # "refused" BY <1>13 DEF Sends, Onward, Failed
  <2>8. Simulated(x.action) => ~step(c).caught /\ k + 1 < h
    BY <1>10, <2>1, <2>4, <2>5 DEF Shape
  <2>9. k < h BY DEF Shape
  <2> QED BY <2>1, <2>4, <2>5, <2>6, <2>7, <2>8, <2>9
<1> QED BY <1>1, <1>12, <1>13 DEF Outcome, Passed, Approves

\* The types, the counters and the reports hold together.
LEMMA ReportsHold == Spec => []Reports
<1>1. Init => Reports
  <2> SUFFICES ASSUME Init PROVE Reports OBVIOUS
  <2>1. TypeOK BY CliConstants DEF Init, TypeOK
  <2>2. ASSUME NEW c \in Commands PROVE InBounds(c) /\ Reported(c)
    BY DEF Init, Idle, InBounds, Reported, Running
  <2> QED BY <2>1, <2>2 DEF Reports
<1>2. Reports /\ [Next]_vars => Reports'
  <2> SUFFICES ASSUME Reports, [Next]_vars PROVE Reports' OBVIOUS
  <2>1. TypeOK' BY TypesStep DEF Reports
  <2>2. ASSUME NEW d \in Commands PROVE InBounds(d)' /\ Reported(d)'
    <3>1. CASE cli'[d] = cli[d]
      BY <3>1 DEF Reports, InBounds, Reported, Running
    <3>2. CASE Start(d)
      <4>1. PICK r \in Process : /\ cli' = [cli EXCEPT ![d] = r] /\ r.spent = 0
                                 /\ r.status = "running" /\ r.at = -1
        BY <3>2, Starts DEF Reports
      <4>2. cli'[d] = r BY <4>1 DEF Reports, TypeOK
      <4>3. 0 <= r.amount BY DEF Process
      <4> QED BY <4>1, <4>2, <4>3 DEF InBounds, Reported, Running
    <3>3. CASE Turn(d) BY <3>3, CounterStep, ReportedStep DEF Reports
    <3>4. ASSUME NEW c \in Commands, Start(c) \/ Turn(c), c # d PROVE cli'[d] = cli[d]
      <4>1. \E r \in Process : cli' = [cli EXCEPT ![c] = r]
        BY <3>4, Starts, Effects DEF Reports
      <4> QED BY <3>4, <4>1 DEF Reports, TypeOK
    <3>5. CASE UNCHANGED vars BY <3>1, <3>5 DEF vars
    <3> QED BY <3>1, <3>2, <3>3, <3>4, <3>5 DEF Next, Turn
  <2> QED BY <2>1, <2>2 DEF Reports
<1> QED BY <1>1, <1>2, PTL DEF Spec

\* However many commands of the account interleave, whatever calls fail and
\* whatever answers are lost, a command never takes more than it was asked to,
\* and one that simulates its transaction and reports a refusal took nothing.
THEOREM ReportsAreTrue == Spec => []ReportsWhatItTook
<1>1. Reports => ReportsWhatItTook
  <2> SUFFICES ASSUME Reports, NEW c \in Commands, cli[c].status # "idle"
               PROVE  /\ cli[c].spent <= cli[c].amount
                      /\ cli[c].status = "refused" /\ Simulated(cli[c].action)
                            => cli[c].spent = 0
    BY DEF ReportsWhatItTook
  <2>1. cli[c] \in Process BY DEF Reports, TypeOK, Idle
  <2>2. PICK k \in Nat, h \in Nat : Shape(Program[cli[c].action], k, h)
    BY <2>1, Shapes DEF Process
  <2>3. cli[c].spent \in Nat BY <2>1 DEF Process
  <2> QED BY <2>2, <2>3 DEF Reports, Reported
<1> QED BY <1>1, ReportsHold, PTL

-----------------------------------------------------------------------------
(* What approvals stand.                                                     *)

\* The steps at which a command may stand behind its approval of s.
Between(action, s) ==
    CASE action = "deposit" /\ s = "pool"                   -> {4, 5, 7, 8}
      [] action \in {"repay", "repayfor"} /\ s = "pool"     -> {5, 6, 7, 9, 10}
      [] action = "repaydelegation" /\ s = "helper"         -> {8, 10, 11}
      [] action = "migrate-step-2" /\ s = "migratorCUSD"    -> {6, 7, 8, 9, 10, 11}
      [] action = "migrate-step-2" /\ s = "migratorCEUR"    -> {7, 8, 9, 10, 11, 12}
      [] action = "migrate-step-2" /\ s = "migratorCELO"    -> {8, 9, 10, 11, 12, 13}
      [] OTHER                                              -> {}

\* Of these, the ones from which a transaction that takes the whole amount ends
\* the command without a revocation.
WholePull(action) ==
    CASE action = "deposit"         -> {4, 5}
      [] action = "repaydelegation" -> {8}
      [] OTHER                      -> {}

\* A command stands behind every approval it makes from the step after it, and
\* from its handler; until it revokes it, or spends all of it, and it passes no
\* end in between.
Covers(p, B, W, s) ==
    /\ \A i \in DOMAIN p : p[i].do \in {"approve", "approveMax"} /\ p[i].of = s =>
          /\ i + 1 \in B /\ (i + 1 \in W => p[i].do = "approve")
          /\ p[i].caught => \A h \in DOMAIN p : p[h].do = "catch" => h \in B \ W
    /\ \A i \in B :
          /\ i \in DOMAIN p /\ i > 0
          /\ p[i].do \notin {"threshold", "needed", "done", "refused", "key", "check"}
          /\ \/ p[i].do = "revoke" /\ p[i].of = s
             \/ i + 1 \in B /\ (i + 1 \in W => i \in W)
             \/ /\ i \in W /\ p[i].do = "send" /\ p[i].of \in DOMAIN Pulls
                /\ p[i].of \notin {"repay", "liquidationCall"} /\ Pulls[p[i].of] = s
          /\ p[i].caught => \A h \in DOMAIN p : p[h].do = "catch" => h \in B \ W

LEMMA Coverage ==
    ASSUME NEW action \in Tidy, NEW s \in Spenders
    PROVE  Covers(Program[action], Between(action, s), WholePull(action), s)
<1>1. /\ Pulls["deposit"] = "pool" /\ Pulls["repay"] = "pool"
      /\ Pulls["repayDelegation"] = "helper"
  BY DEF Pulls
<1>2. Covers(deposit, Between("deposit", s), WholePull("deposit"), s)
  <2> DEFINE p == deposit
  <2>1. /\ p[1] = Amount /\ p[2] = Key /\ p[3] = Approve("pool")
        /\ p[4] = Estimate("deposit") /\ p[5] = Send("deposit") /\ p[6] = Done
        /\ p[7] = Catch /\ p[8] = Revoke("pool") /\ p[9] = Refused /\ DOMAIN p = 1..9
    BY DEF deposit
  <2>2. \A i \in DOMAIN p : i \in {1, 2, 3, 4, 5, 6, 7, 8, 9}
    BY <2>1
  <2>. HIDE DEF p
  <2>3. Covers(p, Between("deposit", s), WholePull("deposit"), s)
    BY <1>1, <2>1, <2>2, Kinds, Caught, PullsOf DEF Covers, Between, WholePull, Spenders
  <2> QED BY <2>3 DEF p
<1>3. Covers(repay, Between("repay", s), WholePull("repay"), s)
  <2> DEFINE p == repay
  <2>1. /\ p[1] = AmountOrAll /\ p[2] = Rate /\ p[3] = Key /\ p[4] = Approve("pool")
        /\ p[5] = Estimate("repay") /\ p[6] = Send("repay") /\ p[7] = Revoke("pool")
        /\ p[8] = Done /\ p[9] = Catch /\ p[10] = Revoke("pool") /\ p[11] = Refused
        /\ DOMAIN p = 1..11
    BY DEF repay
  <2>2. \A i \in DOMAIN p : i \in {1, 2, 3, 4, 5, 6, 7, 8, 9, 10, 11}
    BY <2>1
  <2>. HIDE DEF p
  <2>3. Covers(p, Between("repay", s), WholePull("repay"), s)
    BY <1>1, <2>1, <2>2, Kinds, Caught, PullsOf DEF Covers, Between, WholePull, Spenders
  <2> QED BY <2>3 DEF p
<1>4. Covers(repayFor, Between("repayfor", s), WholePull("repayfor"), s)
  <2> DEFINE p == repayFor
  <2>1. /\ p[1] = Amount /\ p[2] = Rate /\ p[3] = Key /\ p[4] = Approve("pool")
        /\ p[5] = Estimate("repay") /\ p[6] = Send("repay") /\ p[7] = Revoke("pool")
        /\ p[8] = Done /\ p[9] = Catch /\ p[10] = Revoke("pool") /\ p[11] = Refused
        /\ DOMAIN p = 1..11
    BY DEF repayFor
  <2>2. \A i \in DOMAIN p : i \in {1, 2, 3, 4, 5, 6, 7, 8, 9, 10, 11}
    BY <2>1
  <2>. HIDE DEF p
  <2>3. Covers(p, Between("repayfor", s), WholePull("repayfor"), s)
    BY <1>1, <2>1, <2>2, Kinds, Caught, PullsOf DEF Covers, Between, WholePull, Spenders
  <2> QED BY <2>3 DEF p
<1>5. Covers(migrateStep2, Between("migrate-step-2", s), WholePull("migrate-step-2"), s)
  <2> DEFINE p == migrateStep2
  <2>1. /\ p[1] = Key /\ p[2] = Read /\ p[3] = Read /\ p[4] = Read
        /\ p[5] = ApproveMax("migratorCUSD") /\ p[6] = ApproveMax("migratorCEUR")
        /\ p[7] = ApproveMax("migratorCELO") /\ p[8] = Estimate("migrate")
        /\ p[9] = Try(Send("migrate")) /\ p[10] = Catch /\ p[11] = Revoke("migratorCUSD")
        /\ p[12] = Revoke("migratorCEUR") /\ p[13] = Revoke("migratorCELO") /\ p[14] = Done
        /\ DOMAIN p = 1..14
    BY DEF migrateStep2
  <2>2. \A i \in DOMAIN p : i \in {1, 2, 3, 4, 5, 6, 7, 8, 9, 10, 11, 12, 13, 14}
    BY <2>1
  <2>. HIDE DEF p
  <2>3. Covers(p, Between("migrate-step-2", s), WholePull("migrate-step-2"), s)
    BY <1>1, <2>1, <2>2, Kinds, Caught, PullsOf DEF Covers, Between, WholePull, Spenders
  <2> QED BY <2>3 DEF p
<1>6. Covers(repayDelegation, Between("repaydelegation", s), WholePull("repaydelegation"), s)
  <2> DEFINE p == repayDelegation
  <2>1. /\ p[1] = Asset /\ p[2] = Amount /\ p[3] = Check("rate") /\ p[4] = Key
        /\ p[5] = Helper /\ p[6] = Try(Unless("needed", "helper"))
        /\ p[7] = Try(Approve("helper")) /\ p[8] = Try(Send("repayDelegation"))
        /\ p[9] = Done /\ p[10] = Catch /\ p[11] = Revoke("helper") /\ p[12] = Refused
        /\ DOMAIN p = 1..12
    BY DEF repayDelegation
  <2>2. \A i \in DOMAIN p : i \in {1, 2, 3, 4, 5, 6, 7, 8, 9, 10, 11, 12}
    BY <2>1
  <2>. HIDE DEF p
  <2>3. Covers(p, Between("repaydelegation", s), WholePull("repaydelegation"), s)
    BY <1>1, <2>1, <2>2, Kinds, Caught, PullsOf DEF Covers, Between, WholePull, Spenders
  <2> QED BY <2>3 DEF p
<1>7. /\ Program["deposit"] = deposit /\ Program["repay"] = repay
      /\ Program["repayfor"] = repayFor /\ Program["migrate-step-2"] = migrateStep2
      /\ Program["repaydelegation"] = repayDelegation
  BY DEF Program, Actions
<1> QED BY <1>2, <1>3, <1>4, <1>5, <1>6, <1>7 DEF Tidy

\* A command that was started and may leave an approval for good: it is not of
\* those that take theirs back, or an error has taken it out of the program.
Loose(c) == /\ cli[c].status # "idle"
            /\ cli[c].action \notin Tidy \/ cli[c].status \in {"thrown", "crashed"}

\* A command that stands behind the approval of s.
Holds(c, s) == /\ Running(c) /\ cli[c].action \in Tidy
               /\ cli[c].at \in Between(cli[c].action, s)
               /\ cli[c].at \in WholePull(cli[c].action) => allowance[s] <= cli[c].amount

\* Every approval is accounted for by a command.
ApprovalsHeld ==
    \A s \in Spenders : allowance[s] > 0 => \E c \in Commands : Loose(c) \/ Holds(c, s)

\* A turn of a command that stands behind an approval, or lets it stand.
LEMMA HolderStep ==
    ASSUME TypeOK, NEW c \in Commands, InBounds(c), Turn(c), NEW s \in Spenders,
           allowance[s] > 0, Loose(c) \/ Holds(c, s), allowance'[s] > 0,
           allowance'[s] <= allowance[s]
    PROVE  (Loose(c) \/ Holds(c, s))'
<1> DEFINE p == Program[cli[c].action]
           x == cli[c]
           B == Between(x.action, s)
           W == WholePull(x.action)
<1>1. PICK r \in Process : /\ r.action = x.action /\ r.amount = x.amount
                           /\ cli' = [cli EXCEPT ![c] = r] /\ Outcome(c, r)
  BY Effects
<1>2. Running(c) /\ x \in Process BY Effects, Moves
<1>3. cli'[c] = r BY <1>1 DEF TypeOK
<1>4. /\ x.at \in Int /\ x.amount \in Nat /\ r.at \in Int /\ r.status # "idle"
      /\ allowance[s] \in Nat /\ allowance'[s] \in Int
  <2>1. x.at \in Int /\ x.amount \in Nat /\ r.at \in Int /\ r.status # "idle"
    BY <1>1, <1>2 DEF Process
  <2>2. allowance' \in [Spenders -> Nat]
    <3>1. CASE Passed(c, r) BY <3>1 DEF Passed, TypeOK
    <3>2. CASE Approves(c, r)
      <4>1. approved(c) \in Nat BY <1>2, <3>2, ApprovedIsNumber DEF Approves
      <4> QED BY <3>2, <4>1 DEF Approves, TypeOK
    <3>3. ASSUME NEW n \in 0..funds, Sends(c, r, n) PROVE allowance' \in [Spenders -> Nat]
      BY <3>3 DEF Sends, CanPull, TypeOK, Pulls, Spenders
    <3> QED BY <1>1, <3>1, <3>2, <3>3 DEF Outcome
  <2> QED BY <2>1, <2>2 DEF TypeOK
<1>5. SUFFICES ASSUME x.action \in Tidy, r.status \notin {"thrown", "crashed"}
               PROVE  Holds(c, s)'
  BY <1>1, <1>3, <1>4 DEF Loose
<1>6. x.at \in B /\ (x.at \in W => allowance[s] <= x.amount)
  BY <1>2, <1>5 DEF Loose, Holds, Running
<1>7. SUFFICES r.status = "running" /\ r.at \in B /\ (r.at \in W => x.at \in W)
  BY <1>1, <1>3, <1>4, <1>5, <1>6 DEF Holds, Running
<1>8. PICK k \in Nat, h \in Nat : Shape(p, k, h) BY <1>2, Shapes DEF Process
<1>9. Covers(p, B, W, s) BY <1>5, Coverage
<1>. HIDE DEF B, W
<1>10. /\ x.at \in DOMAIN p /\ x.at > 0 /\ step(c) = p[x.at]
       /\ step(c).do \notin {"threshold", "needed", "done", "refused", "key", "check"}
  BY <1>4, <1>6, <1>9 DEF Covers, step
<1>11. CASE Failed(c, r)
  <2>1. step(c).caught /\ r.status = "running" /\ r.at = handler(c)
    BY <1>5, <1>11 DEF Failed
  <2>2. handler(c) = h /\ h \in DOMAIN p /\ p[h].do = "catch"
    BY <1>2, <1>8, <1>10, <2>1, HandlerOf DEF Shape
  <2>3. p[x.at].caught BY <1>10, <2>1
  <2>4. h \in B \ W BY <1>6, <1>9, <2>2, <2>3 DEF Covers
  <2> QED BY <2>1, <2>2, <2>4
<1>12. CASE Onward(c, r) /\ ~Failed(c, r)
  <2>1. r.status = "running" /\ r.at = x.at + 1 BY <1>12 DEF Onward
  <2>2. /\ r.at # x.at /\ r.at # x.at + 2 /\ ~Failed(c, r)
        /\ r.status \notin {"refused", "done", "thrown", "crashed"}
    BY <1>4, <1>12, <2>1
  <2>3. ~(step(c).do = "revoke" /\ step(c).of = s)
    <3> SUFFICES ASSUME step(c).do = "revoke", step(c).of = s PROVE FALSE OBVIOUS
    <3>1. CASE Passed(c, r) BY <2>1, <2>2, <3>1 DEF Passed, Approvals
    <3>2. CASE Approves(c, r)
      BY <1>4, <3>2 DEF Approves, approved, TypeOK
    <3>3. CASE \E n \in 0..funds : Sends(c, r, n) BY <3>3 DEF Sends
    <3> QED BY <1>1, <3>1, <3>2, <3>3 DEF Outcome
  <2>4. ~(/\ x.at \in W /\ step(c).do = "send" /\ step(c).of \in DOMAIN Pulls
          /\ step(c).of \notin {"repay", "liquidationCall"} /\ Pulls[step(c).of] = s)
    <3> SUFFICES ASSUME x.at \in W, step(c).do = "send", step(c).of \in DOMAIN Pulls,
                        step(c).of \notin {"repay", "liquidationCall"},
                        Pulls[step(c).of] = s
                 PROVE FALSE
      OBVIOUS
    <3>1. CASE Passed(c, r) BY <2>1, <2>2, <3>1 DEF Passed
    <3>2. CASE Approves(c, r) BY <3>2 DEF Approves, Approvals
    <3>3. ASSUME NEW n \in 0..funds, Sends(c, r, n) PROVE FALSE
      <4>1. n = x.amount BY <3>3 DEF Sends, CanPull
      <4>2. allowance'[s] = allowance[s] - n BY <3>3 DEF Sends, TypeOK
      <4> QED BY <1>4, <1>6, <4>1, <4>2
    <3> QED BY <1>1, <3>1, <3>2, <3>3 DEF Outcome
  <2>5. x.at + 1 \in B /\ (x.at + 1 \in W => x.at \in W)
    <3>1. \/ p[x.at].do = "revoke" /\ p[x.at].of = s
          \/ x.at + 1 \in B /\ (x.at + 1 \in W => x.at \in W)
          \/ /\ x.at \in W /\ p[x.at].do = "send" /\ p[x.at].of \in DOMAIN Pulls
             /\ p[x.at].of \notin {"repay", "liquidationCall"} /\ Pulls[p[x.at].of] = s
      BY <1>6, <1>9 DEF Covers
    <3>. HIDE DEF p, x
    <3> QED BY <1>10, <2>3, <2>4, <3>1
  <2> QED BY <2>1, <2>5
<1>13. CASE r.status = "running" /\ r.at = x.at BY <1>6, <1>13
<1>14. Failed(c, r) \/ Onward(c, r) \/ (r.status = "running" /\ r.at = x.at)
  <2>1. CASE Passed(c, r) BY <1>5, <1>10, <2>1 DEF Passed
  <2>2. CASE Approves(c, r) BY <2>2 DEF Approves
  <2>3. CASE \E n \in 0..funds : Sends(c, r, n) BY <2>3 DEF Sends
  <2> QED BY <1>1, <2>1, <2>2, <2>3 DEF Outcome
<1> QED BY <1>11, <1>12, <1>13, <1>14

\* Whoever takes a turn, an approval stays accounted for.
LEMMA ApprovalsStep ==
    ASSUME Reports, ApprovalsHeld, [Next]_vars
    PROVE  ApprovalsHeld'
<1>1. TypeOK /\ TypeOK' BY TypesStep DEF Reports
<1> SUFFICES ASSUME NEW s \in Spenders, allowance'[s] > 0
             PROVE  \E d \in Commands : (Loose(d) \/ Holds(d, s))'
  BY DEF ApprovalsHeld, Loose, Holds
<1>2. allowance[s] \in Nat /\ allowance'[s] \in Nat BY <1>1 DEF TypeOK
\* Another command's turn leaves a command that holds the approval where it is.
<1>3. ASSUME NEW d \in Commands, Loose(d) \/ Holds(d, s), cli'[d] = cli[d],
             allowance'[s] <= allowance[s]
      PROVE  (Loose(d) \/ Holds(d, s))'
  <2>1. Holds(d, s) => cli[d].amount \in Nat BY <1>1, Moves DEF Holds, Process
  <2> QED BY <1>2, <1>3, <2>1 DEF Loose, Holds, Running
<1>4. CASE UNCHANGED vars
  <2>1. PICK d \in Commands : Loose(d) \/ Holds(d, s) BY <1>4 DEF ApprovalsHeld, vars
  <2> QED BY <1>2, <1>3, <1>4, <2>1 DEF vars
<1>5. ASSUME NEW c \in Commands, Start(c)
      PROVE  \E d \in Commands : (Loose(d) \/ Holds(d, s))'
  <2>1. /\ cli[c].status = "idle" /\ allowance' = allowance
        /\ \E r \in Process : cli' = [cli EXCEPT ![c] = r]
    BY <1>1, <1>5, Starts
  <2>2. PICK d \in Commands : Loose(d) \/ Holds(d, s) BY <2>1 DEF ApprovalsHeld
  <2>3. d # c BY <2>1, <2>2 DEF Loose, Holds, Running
  <2>4. cli'[d] = cli[d] BY <1>1, <2>1, <2>3 DEF TypeOK
  <2> QED BY <1>2, <1>3, <2>1, <2>2, <2>4
<1>6. ASSUME NEW c \in Commands, Turn(c)
      PROVE  \E d \in Commands : (Loose(d) \/ Holds(d, s))'
  <2>1. PICK r \in Process : /\ r.action = cli[c].action /\ r.amount = cli[c].amount
                             /\ cli' = [cli EXCEPT ![c] = r] /\ Outcome(c, r)
    BY <1>1, <1>6, Effects DEF Reports
  <2>2. CASE allowance'[s] <= allowance[s]
    <3>1. PICK d \in Commands : Loose(d) \/ Holds(d, s) BY <1>2, <2>2 DEF ApprovalsHeld
    <3>2. CASE d = c
      <4>1. allowance[s] > 0 BY <1>2, <2>2
      <4> QED BY <1>1, <1>6, <2>2, <3>1, <3>2, <4>1, HolderStep DEF Reports
    <3>3. CASE d # c
      <4>1. cli'[d] = cli[d] BY <1>1, <2>1, <3>3 DEF TypeOK
      <4> QED BY <1>3, <2>2, <3>1, <4>1
    <3> QED BY <3>2, <3>3
  <2>3. CASE allowance'[s] > allowance[s]
    <3> DEFINE p == Program[cli[c].action]
    <3>1. Approves(c, r) /\ step(c).of = s
      <4>1. CASE Passed(c, r) BY <1>2, <2>3, <4>1 DEF Passed
      <4>2. ASSUME NEW n \in 0..funds, Sends(c, r, n) PROVE FALSE
        <5>1. n \in Nat BY <1>1 DEF TypeOK
        <5> QED BY <1>1, <1>2, <2>3, <4>2, <5>1 DEF Sends, TypeOK
      <4> QED BY <1>1, <2>1, <2>3, <4>1, <4>2 DEF Outcome, Approves, TypeOK
    <3>2. allowance'[s] = approved(c) /\ step(c).do \in {"approve", "approveMax"}
      <4>1. allowance'[s] = approved(c) BY <1>1, <3>1 DEF Approves, TypeOK
      <4>2. step(c).do = "revoke" => approved(c) = 0 BY DEF approved
      <4> QED BY <1>2, <2>3, <3>1, <4>1, <4>2 DEF Approves, Approvals
    <3>3. Running(c) /\ cli[c] \in Process BY <1>1, <1>6, Effects, Moves DEF Reports
    <3>4. cli'[c] = r /\ r.status # "idle" BY <1>1, <2>1 DEF TypeOK, Process
    <3>5. CASE cli[c].action \notin Tidy \/ r.status = "thrown"
      BY <2>1, <3>4, <3>5 DEF Loose
    <3>6. CASE cli[c].action \in Tidy /\ r.status # "thrown"
      <4>1. Covers(p, Between(cli[c].action, s), WholePull(cli[c].action), s)
        BY <3>6, Coverage
      <4>2. PICK k \in Nat, h \in Nat : Shape(p, k, h) BY <3>3, Shapes DEF Process
      <4>3. cli[c].at \in DOMAIN p /\ step(c) = p[cli[c].at]
        <5>1. cli[c].at \in Int BY <3>3 DEF Process
        <5>2. cli[c].at > 0 BY <3>2, <5>1, Kinds DEF step
        <5> QED BY <1>6, <3>3, <5>1, <5>2 DEF Reports, InBounds, step
      <4>4. CASE Onward(c, r)
        <5>1. /\ r.status = "running" /\ r.at = cli[c].at + 1
              /\ r.at \in Between(cli[c].action, s)
              /\ r.at \in WholePull(cli[c].action) => step(c).do = "approve"
          BY <3>1, <3>2, <4>1, <4>3, <4>4 DEF Covers, Onward
        <5>2. r.at \in WholePull(cli[c].action) => allowance'[s] <= r.amount
          <6>1. step(c).do = "approve" => approved(c) = cli[c].amount BY DEF approved
          <6> QED BY <1>2, <2>1, <3>2, <5>1, <6>1
        <5> QED BY <2>1, <3>4, <3>6, <5>1, <5>2 DEF Holds, Running
      <4>5. CASE Failed(c, r)
        <5>1. step(c).caught /\ r.status = "running" /\ r.at = handler(c)
          BY <3>6, <4>5 DEF Failed
        <5>2. handler(c) \in DOMAIN p /\ p[handler(c)].do = "catch"
          BY <1>1, <1>6, <3>3, <4>2, <4>3, <5>1, HandlerOf DEF Reports, Shape
        <5>3. r.at \in Between(cli[c].action, s) \ WholePull(cli[c].action)
          BY <3>1, <3>2, <4>1, <4>3, <5>1, <5>2 DEF Covers
        <5> QED BY <2>1, <3>4, <3>6, <5>1, <5>3 DEF Holds, Running
      <4> QED BY <3>1, <4>4, <4>5 DEF Approves
    <3> QED BY <3>5, <3>6
  <2> QED BY <1>2, <2>2, <2>3
<1> QED BY <1>4, <1>5, <1>6 DEF Next, Turn

\* However many commands of the account interleave, call by call, when all of
\* them have ended in a way they handle, no contract may spend or borrow for the
\* account: an approval is always some command's, which has not ended, or which
\* an error took out of the program, or which leaves its approval by design.
THEOREM NoApprovalLeft == Spec => []HandledEndsLeaveNoApproval
<1>1. Init => ApprovalsHeld BY DEF Init, ApprovalsHeld
<1>2. Reports /\ ApprovalsHeld /\ [Next]_vars => ApprovalsHeld' BY ApprovalsStep
<1>3. Reports /\ ApprovalsHeld => HandledEndsLeaveNoApproval
  BY DEF Reports, TypeOK, ApprovalsHeld, HandledEndsLeaveNoApproval, Loose, Holds, Running
<1> QED BY <1>1, <1>2, <1>3, ReportsHold, PTL DEF Spec
=============================================================================
