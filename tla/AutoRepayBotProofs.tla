-------------------------- MODULE AutoRepayBotProofs -------------------------
(* The repayments of the bot, for any users, amounts, prices and fee: it takes *)
(* what it quoted at most, and of that no more than the share of the debt it   *)
(* repays.  The users the bot knows come from a fold over events; the          *)
(* invariant does not need to say who they are, because a repayment for        *)
(* someone without an account changes nothing: what it says of a call holds    *)
(* when the call is for one of the users.                                      *)
EXTENDS AutoRepayBot, TLAPS

ChainOK ==
    /\ accounts \in [Users -> Account]
    /\ prices \in [Assets -> Nat \ {0}]
    /\ spread \in Nat
    /\ moves \in Nat

\* A path of the table: the router can be asked for its price.
Tradable(path) == UnderlyingOf(Head(path)) \in Assets /\ UnderlyingOf(Last(path)) \in Assets

\* A call one can make for user u.
CallOK(p) ==
    /\ p.collateralAsset \in Assets /\ p.debtAsset \in Assets
    /\ p.collateralAsset # p.debtAsset => Tradable(p.path)
    /\ p.debtRepayAmount \in Nat /\ p.collateralAmount \in Nat

\* A call the bot prepares.
Prepared(p) ==
    /\ DOMAIN p = {"user", "collateralAsset", "debtAsset", "collateralAmount",
                   "debtRepayAmount", "rateMode", "useFlashloan",
                   "path", "useATokenAsFrom", "useATokenAsTo"}
    /\ p.user \in Users => CallOK(p) /\ p.collateralAsset # p.debtAsset

Calling == {"quote", "allowance", "simulate", "directQuote", "directSimulate", "send"}

BotOK(b) ==
    /\ DOMAIN b = {"pc", "fromBlock", "known", "limits", "queue", "acc", "p", "method",
                   "attempt", "tries"}
    /\ b.pc = "prices" /\ Head(b.queue) \in Users => b.acc \in Account
    /\ b.pc \in Calling => Prepared(b.p)
    /\ b.pc \in {"quote", "allowance", "simulate"} => b.attempt \in 1..4
    /\ b.pc \in {"directSimulate", "send"} => Prepared(b.method)

Inv == ChainOK /\ BotOK(bot)

-----------------------------------------------------------------------------
(* Arithmetic.                                                               *)

LEMMA MinOfTwo ==
    ASSUME NEW x \in Int, NEW y \in Int
    PROVE  Min({x, y}) \in {x, y} /\ Min({x, y}) <= x /\ Min({x, y}) <= y
<1>1. \E m \in {x, y} : \A z \in {x, y} : m <= z
  <2>1. CASE x <= y BY <2>1
  <2>2. CASE y <= x BY <2>2
  <2> QED BY <2>1, <2>2
<1> QED BY <1>1 DEF Min

LEMMA MulNat == ASSUME NEW a \in Nat, NEW b \in Nat PROVE a * b \in Nat
OBVIOUS

LEMMA MulMono == ASSUME NEW a \in Nat, NEW b \in Nat, NEW c \in Nat, a <= b PROVE c * a <= c * b
<1>1. PICK d \in Nat : b = a + d
  <2>1. b - a \in Nat /\ b = a + (b - a) OBVIOUS
  <2> QED BY <2>1
<1>2. c * b = c * a + c * d BY <1>1
<1>3. c * a \in Nat /\ c * d \in Nat BY MulNat
<1> QED BY <1>2, <1>3

LEMMA DivBounds ==
    ASSUME NEW n \in Nat, NEW d \in Nat \ {0}
    PROVE  n \div d \in Nat /\ d * (n \div d) <= n /\ n < d * (n \div d) + d
OBVIOUS

LEMMA CeilDivNat ==
    ASSUME NEW n \in Nat, NEW d \in Nat \ {0}
    PROVE  CeilDiv(n, d) \in Nat /\ n <= d * CeilDiv(n, d)
<1>1. n + d - 1 \in Nat OBVIOUS
<1>2. CeilDiv(n, d) \in Nat /\ n + d - 1 < d * CeilDiv(n, d) + d
  BY <1>1, DivBounds DEF CeilDiv
<1>3. d * CeilDiv(n, d) \in Nat BY <1>2, MulNat
<1> QED BY <1>2, <1>3

LEMMA RoundDivNat == ASSUME NEW n \in Nat, NEW d \in Nat \ {0} PROVE RoundDiv(n, d) \in Nat
<1>1. 2 * n + d \in Nat /\ 2 * d \in Nat \ {0} OBVIOUS
<1> QED BY <1>1, DivBounds DEF RoundDiv

\* A part of an amount, in proportion to a part of another, is no more than all.
LEMMA PartAtMostAll ==
    ASSUME NEW c \in Nat, NEW r \in Nat, NEW d \in Nat, r < d
    PROVE  (c * r) \div d \in Nat /\ (c * r) \div d <= c
<1> DEFINE q == (c * r) \div d
<1>1. c * r \in Nat /\ d \in Nat \ {0} BY MulNat
<1>2. q \in Nat /\ d * q <= c * r BY <1>1, DivBounds
<1>. HIDE DEF q
<1>3. c * r <= c * d BY MulMono
<1>4. SUFFICES ASSUME c + 1 <= q PROVE FALSE BY <1>2 DEF q
<1>5. d * (c + 1) <= d * q BY <1>1, <1>2, <1>4, MulMono
<1>6. d * (c + 1) = c * d + d OBVIOUS
<1>7. d * q \in Nat /\ c * d \in Nat BY <1>2, MulNat
<1> QED BY <1>1, <1>2, <1>3, <1>5, <1>6, <1>7

\* The keeper's fee is at most a thousandth.
LEMMA FeeIsSmall ==
    ASSUME NEW x \in Nat
    PROVE  /\ (x * FEE) \div HUNDRED_PERCENT \in Nat
           /\ 1000 * ((x * FEE) \div HUNDRED_PERCENT) <= x
<1> DEFINE H == HUNDRED_PERCENT
           q == (x * FEE) \div H
<1>1. FEE \in Nat /\ H \in Nat \ {0} /\ FEE * 1000 <= H
  BY AutoRepayConstants, FeeIsAllowedFor
<1>2. x * FEE \in Nat BY <1>1, MulNat
<1>3. q \in Nat /\ H * q <= x * FEE BY <1>1, <1>2, DivBounds
<1>. HIDE DEF q, H
<1>4. x * (FEE * 1000) <= x * H BY <1>1, MulMono
<1>5. x * (FEE * 1000) = 1000 * (x * FEE) BY <1>1
<1>6. 1000 * q <= x
  <2>1. SUFFICES ASSUME x + 1 <= 1000 * q PROVE FALSE BY <1>3
  <2>2. H * (x + 1) <= H * (1000 * q) BY <1>1, <1>3, <2>1, MulMono
  <2>3. H * (x + 1) = x * H + H /\ H * (1000 * q) = 1000 * (H * q) BY <1>1, <1>3
  <2>4. H * q \in Nat /\ x * H \in Nat BY <1>1, <1>3, MulNat
  <2> QED BY <1>1, <1>2, <1>3, <1>4, <1>5, <2>2, <2>3, <2>4
<1> QED BY <1>3, <1>6 DEF q, H

\* What the bot adds to the quote for the fee is at least a thousandth.
LEMMA SpareIsEnough ==
    ASSUME NEW c \in Nat
    PROVE  CeilDiv(c * 10, 10000) \in Nat /\ c <= 1000 * CeilDiv(c * 10, 10000)
<1>1. c * 10 \in Nat OBVIOUS
<1>2. CeilDiv(c * 10, 10000) \in Nat /\ c * 10 <= 10000 * CeilDiv(c * 10, 10000)
  BY <1>1, CeilDivNat
<1> QED BY <1>2

\* What the bot asks the user to approve covers the quote and the fee on it.
LEMMA FeeCovered ==
    ASSUME NEW x \in Nat, NEW c \in Nat, x <= c
    PROVE  x + (x * FEE) \div HUNDRED_PERCENT <= c + CeilDiv(c * 10, 10000)
BY FeeIsSmall, SpareIsEnough

\* A share of the quote, with its fee, is within that share of what is approved.
LEMMA ShareCovered ==
    ASSUME NEW x \in Nat, NEW c \in Nat, NEW d \in Nat, NEW r \in Nat, x * d <= c * r
    PROVE  (x + (x * FEE) \div HUNDRED_PERCENT) * d <= (c + CeilDiv(c * 10, 10000)) * r
<1> DEFINE q == (x * FEE) \div HUNDRED_PERCENT
           k == CeilDiv(c * 10, 10000)
<1>1. q \in Nat /\ 1000 * q <= x BY FeeIsSmall
<1>2. k \in Nat /\ c <= 1000 * k BY SpareIsEnough
<1>. HIDE DEF q, k
<1>3. d * (1000 * q) <= d * x BY <1>1, MulMono
<1>4. r * c <= r * (1000 * k) BY <1>2, MulMono
<1>5. /\ d * (1000 * q) = 1000 * (q * d) /\ r * (1000 * k) = 1000 * (k * r)
      /\ d * x = x * d /\ r * c = c * r
  BY <1>1, <1>2
<1>6. q * d \in Nat /\ k * r \in Nat /\ x * d \in Nat /\ c * r \in Nat
  BY <1>1, <1>2, MulNat
<1>7. q * d <= k * r BY <1>3, <1>4, <1>5, <1>6
<1>8. (x + q) * d = x * d + q * d /\ (c + k) * r = c * r + k * r BY <1>1, <1>2
<1> QED BY <1>6, <1>7, <1>8 DEF q, k

-----------------------------------------------------------------------------
(* The table of paths.                                                       *)

Traded == Assets \cup {"mcelo", "mcusd", "mceur", "mcreal", "mmoo"}

LEMMA TokensTraded == \A t \in Traded : UnderlyingOf(t) \in Assets
<1>1. \A a \in Assets : \A t : t = MToken[a] => UnderlyingOf(t) \in Assets
  BY DEF UnderlyingOf
<1>2. /\ MToken["celo"] = "mcelo" /\ MToken["cusd"] = "mcusd" /\ MToken["ceur"] = "mceur"
      /\ MToken["creal"] = "mcreal" /\ MToken["moo"] = "mmoo"
  BY DEF MToken
<1>3. {"celo", "cusd", "ceur", "creal", "moo"} = Assets BY DEF Assets
<1> QED BY <1>1, <1>2, <1>3 DEF UnderlyingOf, Traded

\* A sequence of tokens has a price, and so has its reverse.
LEMMA EndsTradable ==
    ASSUME NEW path \in Seq(Traded), Len(path) # 0
    PROVE  Tradable(path) /\ Tradable(Reverse(path))
<1> DEFINE n == Len(path)
<1>1. n \in Nat \ {0} OBVIOUS
<1>2. path[1] \in Traded /\ path[n] \in Traded BY <1>1
<1>3. /\ Reverse(path) \in Seq(Traded) /\ Len(Reverse(path)) = n
      /\ Reverse(path)[1] = path[n] /\ Reverse(path)[n] = path[1]
  BY <1>1 DEF Reverse
<1>4. Head(path) = path[1] /\ Last(path) = path[n] BY DEF Last
<1>5. Head(Reverse(path)) = path[n] /\ Last(Reverse(path)) = path[1] BY <1>3 DEF Last
<1> QED BY <1>2, <1>4, <1>5, TokensTraded DEF Tradable

LEMMA PathsTradable ==
    \A path \in {celo_cusd, celo_ceur, celo_creal, cusd_ceur, cusd_creal, cusd_moo,
                 ceur_creal, ceur_moo, creal_moo, celo_moo} :
        Tradable(path) /\ Tradable(Reverse(path))
<1>1. ASSUME NEW x \in Traded, NEW y \in Traded
      PROVE  Tradable(<<x, y>>) /\ Tradable(Reverse(<<x, y>>))
  <2>1. <<x, y>> \in Seq(Traded) /\ Len(<<x, y>>) # 0 OBVIOUS
  <2> QED BY <2>1, EndsTradable
<1>2. ASSUME NEW x \in Traded, NEW y \in Traded, NEW z \in Traded
      PROVE  Tradable(<<x, y, z>>) /\ Tradable(Reverse(<<x, y, z>>))
  <2>1. <<x, y, z>> \in Seq(Traded) /\ Len(<<x, y, z>>) # 0 OBVIOUS
  <2> QED BY <2>1, EndsTradable
<1>3. ASSUME NEW x \in Traded, NEW y \in Traded, NEW z \in Traded, NEW w \in Traded
      PROVE  Tradable(<<x, y, z, w>>) /\ Tradable(Reverse(<<x, y, z, w>>))
  <2>1. <<x, y, z, w>> \in Seq(Traded) /\ Len(<<x, y, z, w>>) # 0 OBVIOUS
  <2> QED BY <2>1, EndsTradable
<1>4. \A t \in {"celo", "cusd", "ceur", "creal", "moo", "mcelo", "mcusd", "mceur"} : t \in Traded
  BY DEF Traded, Assets
<1>5. Tradable(celo_cusd) /\ Tradable(Reverse(celo_cusd)) BY <1>1, <1>4 DEF celo_cusd
<1>6. Tradable(celo_ceur) /\ Tradable(Reverse(celo_ceur)) BY <1>1, <1>4 DEF celo_ceur
<1>7. Tradable(celo_creal) /\ Tradable(Reverse(celo_creal)) BY <1>2, <1>4 DEF celo_creal
<1>8. Tradable(cusd_ceur) /\ Tradable(Reverse(cusd_ceur)) BY <1>1, <1>4 DEF cusd_ceur
<1>9. Tradable(cusd_creal) /\ Tradable(Reverse(cusd_creal)) BY <1>1, <1>4 DEF cusd_creal
<1>10. Tradable(cusd_moo) /\ Tradable(Reverse(cusd_moo)) BY <1>2, <1>4 DEF cusd_moo
<1>11. Tradable(ceur_creal) /\ Tradable(Reverse(ceur_creal)) BY <1>3, <1>4 DEF ceur_creal
<1>12. Tradable(ceur_moo) /\ Tradable(Reverse(ceur_moo)) BY <1>2, <1>4 DEF ceur_moo
<1>13. Tradable(creal_moo) /\ Tradable(Reverse(creal_moo)) BY <1>3, <1>4 DEF creal_moo
<1>14. Tradable(celo_moo) /\ Tradable(Reverse(celo_moo)) BY <1>1, <1>4 DEF celo_moo
<1> QED
  BY <1>5, <1>6, <1>7, <1>8, <1>9, <1>10, <1>11, <1>12, <1>13, <1>14

\* Every entry of the bot's table leads from one asset to another, along a path
\* that has a price.
LEMMA BotPaths ==
    ASSUME NEW c \in Assets, NEW b \in DOMAIN botPaths[c]
    PROVE  b \in Assets /\ c # b /\ Tradable(botPaths[c][b].path)
<1>1. CASE c = "celo"
  <2>1. /\ DOMAIN botPaths["celo"] = {"cusd", "ceur", "creal", "moo"}
        /\ botPaths["celo"]["cusd"].path = celo_cusd
        /\ botPaths["celo"]["ceur"].path = celo_ceur
        /\ botPaths["celo"]["creal"].path = celo_creal
        /\ botPaths["celo"]["moo"].path = celo_moo
    BY DEF botPaths, swap
  <2> QED BY <1>1, <2>1, PathsTradable DEF Assets
<1>2. CASE c = "cusd"
  <2>1. /\ DOMAIN botPaths["cusd"] = {"celo", "ceur", "creal", "moo"}
        /\ botPaths["cusd"]["celo"].path = Reverse(celo_cusd)
        /\ botPaths["cusd"]["ceur"].path = cusd_ceur
        /\ botPaths["cusd"]["creal"].path = cusd_creal
        /\ botPaths["cusd"]["moo"].path = cusd_moo
    BY DEF botPaths, swap
  <2> QED BY <1>2, <2>1, PathsTradable DEF Assets
<1>3. CASE c = "ceur"
  <2>1. /\ DOMAIN botPaths["ceur"] = {"celo", "cusd", "creal", "moo"}
        /\ botPaths["ceur"]["celo"].path = Reverse(celo_ceur)
        /\ botPaths["ceur"]["cusd"].path = Reverse(cusd_ceur)
        /\ botPaths["ceur"]["creal"].path = ceur_creal
        /\ botPaths["ceur"]["moo"].path = ceur_moo
    BY DEF botPaths, swap
  <2> QED BY <1>3, <2>1, PathsTradable DEF Assets
<1>4. CASE c = "creal"
  <2>1. /\ DOMAIN botPaths["creal"] = {"celo", "cusd", "ceur", "moo"}
        /\ botPaths["creal"]["celo"].path = Reverse(celo_creal)
        /\ botPaths["creal"]["cusd"].path = Reverse(cusd_creal)
        /\ botPaths["creal"]["ceur"].path = Reverse(celo_creal)
        /\ botPaths["creal"]["moo"].path = creal_moo
    BY DEF botPaths, swap
  <2> QED BY <1>4, <2>1, PathsTradable DEF Assets
<1>5. CASE c = "moo"
  <2>1. /\ DOMAIN botPaths["moo"] = {"celo", "cusd", "ceur", "creal"}
        /\ botPaths["moo"]["celo"].path = Reverse(celo_moo)
        /\ botPaths["moo"]["cusd"].path = Reverse(cusd_moo)
        /\ botPaths["moo"]["ceur"].path = Reverse(ceur_moo)
        /\ botPaths["moo"]["creal"].path = Reverse(creal_moo)
    BY DEF botPaths, swap
  <2> QED BY <1>5, <2>1, PathsTradable DEF Assets
<1> QED BY <1>1, <1>2, <1>3, <1>4, <1>5 DEF Assets

-----------------------------------------------------------------------------
(* One call of the contract.                                                 *)

\* The router's price of a number is a number.
LEMMA QuoteNat ==
    ASSUME ChainOK, NEW n \in Nat, NEW path, Tradable(path)
    PROVE  getAmountsIn(n, path) \in Nat
<1> DEFINE last == prices[UnderlyingOf(Last(path))]
           first == prices[UnderlyingOf(Head(path))]
<1>1. last \in Nat /\ first \in Nat \ {0} /\ spread \in Nat BY DEF ChainOK, Tradable
<1>2. getAmountsIn(n, path) = CeilDiv(n * last * spread, first * 100) BY DEF getAmountsIn
<1>. HIDE DEF last, first
<1>3. n * last \in Nat BY <1>1, MulNat
<1>4. n * last * spread \in Nat BY <1>1, <1>3, MulNat
<1>5. first * 100 \in Nat \ {0} BY <1>1
<1> QED BY <1>2, <1>4, <1>5, CeilDivNat

\* Repaying lowers a debt of the account and leaves the rest of it.
LEMMA Repaid ==
    ASSUME NEW acc \in Account, NEW p, p.debtAsset \in Assets,
           NEW n \in Nat, n <= debtOf(acc, p)
    PROVE  /\ afterRepay(acc, p, n) \in Account
           /\ afterRepay(acc, p, n).balance = acc.balance
           /\ afterRepay(acc, p, n).allowance = acc.allowance
           /\ debtOf(afterRepay(acc, p, n), p) = debtOf(acc, p) - n
<1> DEFINE d == p.debtAsset
           s == [acc.stable EXCEPT ![d] = @ - n]
           v == [acc.variable EXCEPT ![d] = @ - n]
<1>1. CASE p.rateMode = 1
  <2>1. n <= acc.stable[d] BY <1>1 DEF debtOf
  <2>2. s \in [Assets -> Nat] BY <2>1 DEF Account
  <2>3. afterRepay(acc, p, n) = [acc EXCEPT !.stable = s] BY <1>1 DEF afterRepay, Account
  <2>4. s[d] = acc.stable[d] - n BY DEF Account
  <2>. HIDE DEF s
  <2> QED BY <1>1, <2>2, <2>3, <2>4 DEF Account, debtOf
<1>2. CASE p.rateMode # 1
  <2>1. n <= acc.variable[d] BY <1>2 DEF debtOf
  <2>2. v \in [Assets -> Nat] BY <2>1 DEF Account
  <2>3. afterRepay(acc, p, n) = [acc EXCEPT !.variable = v] BY <1>2 DEF afterRepay, Account
  <2>4. v[d] = acc.variable[d] - n BY DEF Account
  <2>. HIDE DEF v
  <2> QED BY <1>2, <2>2, <2>3, <2>4 DEF Account, debtOf
<1> QED BY <1>1, <1>2

\* Pulling takes collateral of one asset and leaves the rest.
LEMMA Pulled ==
    ASSUME NEW acc \in Account, NEW a \in Assets, NEW n \in Nat,
           n <= acc.balance[a], n <= acc.allowance[a]
    PROVE  /\ afterPull(acc, a, n) \in Account
           /\ afterPull(acc, a, n).balance = [acc.balance EXCEPT ![a] = @ - n]
           /\ afterPull(acc, a, n).stable = acc.stable
           /\ afterPull(acc, a, n).variable = acc.variable
<1> DEFINE b == [acc.balance EXCEPT ![a] = @ - n]
           w == [acc.allowance EXCEPT ![a] = @ - n]
           e == IF acc.balance[a] = n THEN acc.enabled \ {a} ELSE acc.enabled
<1>1. b \in [Assets -> Nat] /\ w \in [Assets -> Nat] /\ e \in SUBSET Assets BY DEF Account
<1>2. afterPull(acc, a, n) = [acc EXCEPT !.balance = b, !.allowance = w, !.enabled = e]
  BY DEF afterPull, Account
<1>. HIDE DEF b, w, e
<1>3. /\ [acc EXCEPT !.balance = b, !.allowance = w, !.enabled = e] \in Account
      /\ [acc EXCEPT !.balance = b, !.allowance = w, !.enabled = e].balance = b
      /\ [acc EXCEPT !.balance = b, !.allowance = w, !.enabled = e].stable = acc.stable
      /\ [acc EXCEPT !.balance = b, !.allowance = w, !.enabled = e].variable = acc.variable
  BY <1>1 DEF Account
<1> QED BY <1>2, <1>3 DEF b

\* What is offered for a part of the debt is no more than that part of the offer.
LEMMA LimitInProportion ==
    ASSUME NEW p, p.collateralAmount \in Nat, p.debtRepayAmount \in Nat,
           NEW r \in Nat, r <= p.debtRepayAmount
    PROVE  /\ collateralLimit(p, r) \in Nat
           /\ collateralLimit(p, r) <= p.collateralAmount
           /\ collateralLimit(p, r) * p.debtRepayAmount <= p.collateralAmount * r
<1> DEFINE c == p.collateralAmount
           d == p.debtRepayAmount
<1>1. c \in Nat /\ d \in Nat OBVIOUS
<1>2. CASE r < d
  <2> DEFINE m == (c * r) \div d
  <2>1. collateralLimit(p, r) = m BY <1>2 DEF collateralLimit
  <2>2. m \in Nat /\ m <= c BY <1>1, <1>2, PartAtMostAll
  <2>3. c * r \in Nat /\ d \in Nat \ {0} BY <1>1, <1>2, MulNat
  <2>4. d * m <= c * r BY <2>3, DivBounds
  <2>. HIDE DEF m, c, d
  <2>5. m * d = d * m BY <1>1, <2>2
  <2> QED BY <2>1, <2>2, <2>4, <2>5 DEF c, d
<1>3. CASE ~(r < d)
  <2>1. r = d /\ collateralLimit(p, r) = c BY <1>1, <1>3 DEF collateralLimit
  <2> QED BY <1>1, <2>1, MulNat
<1> QED BY <1>2, <1>3

\* What a call for one of the users does: it repays r of the debt and takes n of
\* the collateral.
Takes(p, n, r) ==
    /\ accounts'[p.user].balance =
          [accounts[p.user].balance EXCEPT ![p.collateralAsset] = @ - n]
    /\ \A u \in Users : u # p.user => accounts'[u] = accounts[u]
    /\ r > 0 /\ debtOf(accounts'[p.user], p) = debtOf(accounts[p.user], p) - r
    /\ p.collateralAsset # p.debtAsset =>
          /\ n <= requiredAllowance(p)
          /\ n * p.debtRepayAmount <= requiredAllowance(p) * r

LEMMA CallEffect ==
    ASSUME ChainOK, NEW caller, NEW p, p.user \in Users, CallOK(p),
           CallIncreaseHealthFactor(caller, p)
    PROVE  /\ accounts' \in [Users -> Account]
           /\ \E n, r \in Nat : Takes(p, n, r)
<1> DEFINE acc     == accounts[p.user]
           repaid  == Min({p.debtRepayAmount, debtOf(acc, p)})
           premium == IF p.useFlashloan
                      THEN (p.debtRepayAmount * FLASHLOAN_PREMIUM_TOTAL) \div 10000 ELSE 0
           limit   == collateralLimit(p, repaid)
           s       == swapAmounts(p, repaid, premium)
           pulled  == s.in + s.fee
           midway  == IF p.useFlashloan THEN afterRepay(acc, p, repaid) ELSE acc
           taken   == afterPull(midway, p.collateralAsset, pulled)
           final   == IF p.useFlashloan THEN taken ELSE afterRepay(taken, p, repaid)
<1>1. /\ repaid > 0
      /\ swapAllowed(p, s.in, limit, repaid + premium)
      /\ pulled <= Min({acc.balance[p.collateralAsset], acc.allowance[p.collateralAsset]})
      /\ accounts' = [accounts EXCEPT ![p.user] = final]
  <2>1. /\ increaseHealthFactor(caller, p).ok
        /\ accounts' = [accounts EXCEPT ![p.user] = increaseHealthFactor(caller, p).account]
    BY DEF CallIncreaseHealthFactor
  <2>2. increaseHealthFactor(caller, p).account = final BY DEF increaseHealthFactor
  <2>3. /\ repaid > 0
        /\ swapAllowed(p, s.in, limit, repaid + premium)
        /\ pulled <= Min({acc.balance[p.collateralAsset], acc.allowance[p.collateralAsset]})
    BY <2>1, SMTT(30) DEF increaseHealthFactor
  <2>. HIDE DEF final, pulled, repaid, premium, limit, s
  <2> QED BY <2>1, <2>2, <2>3
<1>2. /\ acc \in Account /\ p.collateralAsset \in Assets /\ p.debtAsset \in Assets
      /\ p.debtRepayAmount \in Nat /\ p.collateralAmount \in Nat
  BY DEF ChainOK, CallOK
<1>3. debtOf(acc, p) \in Nat BY <1>2 DEF debtOf, Account
<1>4. repaid \in Nat /\ repaid <= debtOf(acc, p) /\ repaid <= p.debtRepayAmount
  <2> DEFINE asked == p.debtRepayAmount
             owed  == debtOf(acc, p)
  <2>1. asked \in Nat /\ owed \in Nat /\ repaid = Min({asked, owed}) BY <1>2, <1>3
  <2>. HIDE DEF asked, owed, repaid
  <2>2. /\ Min({asked, owed}) \in {asked, owed}
        /\ Min({asked, owed}) <= asked /\ Min({asked, owed}) <= owed
    BY <2>1, MinOfTwo
  <2> QED BY <2>1, <2>2 DEF asked, owed
<1>5. premium \in Nat
  <2>1. p.debtRepayAmount * FLASHLOAN_PREMIUM_TOTAL \in Nat
    BY <1>2, MulNat, AutoRepayConstants
  <2> QED BY <2>1, DivBounds
<1>6. /\ limit \in Nat /\ limit <= p.collateralAmount
      /\ limit * p.debtRepayAmount <= p.collateralAmount * repaid
  <2>. HIDE DEF repaid
  <2> QED BY <1>2, <1>4, LimitInProportion
<1>. HIDE DEF repaid, premium, limit
<1>7. /\ pulled \in Nat
      /\ p.collateralAsset # p.debtAsset =>
            /\ pulled <= requiredAllowance(p)
            /\ pulled * p.debtRepayAmount <= requiredAllowance(p) * repaid
  <2>1. repaid + premium \in Nat BY <1>4, <1>5
  <2>2. CASE p.collateralAsset = p.debtAsset
    <3>1. s.in = repaid + premium /\ s.fee = (repaid * FEE) \div HUNDRED_PERCENT
      BY <2>2 DEF swapAmounts
    <3>2. s.fee \in Nat BY <1>4, <3>1, FeeIsSmall
    <3> QED BY <2>1, <2>2, <3>1, <3>2
  <2>3. CASE p.collateralAsset # p.debtAsset
    <3>1. /\ s.in = getAmountsIn(repaid + premium, p.path)
          /\ s.fee = (s.in * FEE) \div HUNDRED_PERCENT
      BY <2>3 DEF swapAmounts
    <3>2. s.in \in Nat BY <2>1, <2>3, <3>1, QuoteNat DEF CallOK
    <3>3. s.in <= limit BY <1>1, <2>3 DEF swapAllowed
    <3> DEFINE in == s.in
               c  == p.collateralAmount
               d  == p.debtRepayAmount
    <3>4. in \in Nat /\ c \in Nat /\ d \in Nat /\ in <= limit BY <1>2, <3>2, <3>3
    <3>5. /\ pulled = in + (in * FEE) \div HUNDRED_PERCENT
          /\ requiredAllowance(p) = c + CeilDiv(c * 10, 10000)
      BY <3>1 DEF requiredAllowance
    <3>6. limit <= c /\ limit * d <= c * repaid BY <1>6
    <3>. HIDE DEF in, c, d, s, pulled
    <3>7. in <= c BY <1>6, <3>4, <3>6
    <3>8. in * d <= c * repaid
      <4>1. d * in <= d * limit BY <1>6, <3>4, MulMono
      <4>2. d * in = in * d /\ d * limit = limit * d BY <1>6, <3>4
      <4>3. in * d \in Nat /\ limit * d \in Nat /\ c * repaid \in Nat BY <1>4, <1>6, <3>4, MulNat
      <4> QED BY <3>6, <4>1, <4>2, <4>3
    <3>9. pulled \in Nat BY <3>4, <3>5, FeeIsSmall
    <3>10. pulled <= requiredAllowance(p) BY <3>4, <3>5, <3>7, FeeCovered
    <3>11. pulled * d <= requiredAllowance(p) * repaid BY <1>4, <3>4, <3>5, <3>8, ShareCovered
    <3> QED BY <3>9, <3>10, <3>11 DEF d
  <2> QED BY <2>2, <2>3
<1>. HIDE DEF s, pulled
<1>8. pulled <= acc.balance[p.collateralAsset] /\ pulled <= acc.allowance[p.collateralAsset]
  <2> DEFINE has  == acc.balance[p.collateralAsset]
             lent == acc.allowance[p.collateralAsset]
  <2>1. has \in Nat /\ lent \in Nat BY <1>2 DEF Account
  <2>2. pulled <= Min({has, lent}) BY <1>1
  <2>. HIDE DEF has, lent
  <2>3. /\ Min({has, lent}) \in {has, lent}
        /\ Min({has, lent}) <= has /\ Min({has, lent}) <= lent
    BY <2>1, MinOfTwo
  <2>4. pulled <= has /\ pulled <= lent BY <1>7, <2>1, <2>2, <2>3
  <2> QED BY <2>4 DEF has, lent
<1>9. /\ final \in Account
      /\ final.balance = [acc.balance EXCEPT ![p.collateralAsset] = @ - pulled]
      /\ debtOf(final, p) = debtOf(acc, p) - repaid
  <2>1. /\ midway \in Account /\ midway.balance = acc.balance
        /\ midway.allowance = acc.allowance
        /\ debtOf(midway, p) = IF p.useFlashloan THEN debtOf(acc, p) - repaid ELSE debtOf(acc, p)
    BY <1>2, <1>4, Repaid
  <2>2. ~p.useFlashloan => midway = acc OBVIOUS
  <2>. HIDE DEF midway
  <2>3. /\ taken \in Account
        /\ taken.balance = [acc.balance EXCEPT ![p.collateralAsset] = @ - pulled]
        /\ taken.stable = midway.stable /\ taken.variable = midway.variable
    BY <1>2, <1>7, <1>8, <2>1, Pulled
  <2>4. debtOf(taken, p) = debtOf(midway, p) BY <2>3 DEF debtOf
  <2>5. CASE p.useFlashloan BY <2>1, <2>3, <2>4, <2>5
  <2>6. CASE ~p.useFlashloan
    <3>1. debtOf(taken, p) = debtOf(acc, p) BY <2>1, <2>4, <2>6
    <3>2. repaid <= debtOf(taken, p) BY <1>4, <3>1
    <3> QED BY <1>2, <1>4, <2>3, <2>6, <3>1, <3>2, Repaid
  <2> QED BY <2>5, <2>6
<1>. HIDE DEF final
<1>10. /\ accounts' \in [Users -> Account] /\ accounts'[p.user] = final
       /\ \A u \in Users : u # p.user => accounts'[u] = accounts[u]
  BY <1>1, <1>9 DEF ChainOK
<1>11. Takes(p, pulled, repaid) BY <1>1, <1>7, <1>9, <1>10 DEF Takes
<1> QED BY <1>4, <1>7, <1>10, <1>11

\* A call for someone without an account changes no account.
LEMMA CallElsewhere ==
    ASSUME ChainOK, NEW caller, NEW p, p.user \notin Users, CallIncreaseHealthFactor(caller, p)
    PROVE  accounts' = accounts
BY DEF ChainOK, CallIncreaseHealthFactor

-----------------------------------------------------------------------------
(* The steps of users, market, owner and other keepers.                      *)

LEMMA KeeperCalls ==
    ASSUME ChainOK, NEW caller, NEW p, p.user \in Users => CallOK(p),
           CallIncreaseHealthFactor(caller, p), moves' \in Nat
    PROVE  ChainOK'
<1>1. UNCHANGED <<prices, spread>> BY DEF CallIncreaseHealthFactor
<1>2. accounts' \in [Users -> Account]
  <2>1. CASE p.user \in Users BY <2>1, CallEffect
  <2>2. CASE p.user \notin Users BY <2>2, CallElsewhere DEF ChainOK
  <2> QED BY <2>1, <2>2
<1> QED BY <1>1, <1>2 DEF ChainOK

LEMMA ChainSteps ==
    ASSUME ChainOK, ChainNext
    PROVE  ChainOK' /\ moves' # moves
<1>1. ASSUME Move PROVE moves' \in Nat /\ moves' # moves BY <1>1 DEF Move, ChainOK
<1>2. ASSUME NEW u \in Users, SetMinMaxHealthFactor(u)
      PROVE  ChainOK' /\ moves' # moves
  BY <1>1, <1>2 DEF SetMinMaxHealthFactor, ChainOK
<1>3. ASSUME NEW k \in Keepers, WhitelistAddress(k) \/ RemoveFromWhitelist(k)
      PROVE  ChainOK' /\ moves' # moves
  BY <1>1, <1>3 DEF WhitelistAddress, RemoveFromWhitelist, ChainOK
<1>4. ASSUME NEW u \in Users, NEW a \in Assets, Approve(u, a)
      PROVE  ChainOK' /\ moves' # moves
  <2>1. Move /\ UNCHANGED <<prices, spread>> BY <1>4 DEF Approve
  <2>2. PICK n \in Nat : accounts' = [accounts EXCEPT ![u].allowance[a] = n]
    BY <1>4, AutoRepayConstants DEF Approve
  <2> DEFINE w == [accounts[u].allowance EXCEPT ![a] = n]
             x == [accounts[u] EXCEPT !.allowance = w]
  <2>3. accounts' = [accounts EXCEPT ![u] = x] BY <2>2
  <2>4. w \in [Assets -> Nat] /\ accounts[u] \in Account BY DEF ChainOK, Account
  <2>. HIDE DEF w
  <2>5. x \in Account BY <2>4 DEF Account
  <2>. HIDE DEF x
  <2>6. accounts' \in [Users -> Account] BY <2>3, <2>5 DEF ChainOK
  <2> QED BY <1>1, <2>1, <2>6 DEF ChainOK
<1>5. ASSUME MarketMoves PROVE ChainOK' /\ moves' # moves
  <2>1. Move /\ accounts' = accounts BY <1>5 DEF MarketMoves
  <2>2. prices' \in [Assets -> Nat \ {0}] /\ spread' \in Nat
    BY <1>5, AutoRepayConstants DEF MarketMoves, ChainOK
  <2> QED BY <1>1, <2>1, <2>2 DEF ChainOK
<1>6. ASSUME NEW k \in Keepers, NEW u \in Users, NEW a \in Assets, OtherKeeperRepays(k, u, a)
      PROVE  ChainOK' /\ moves' # moves
  <2>1. Move BY <1>6 DEF OtherKeeperRepays
  <2>2. PICK n \in Nat, mode \in {1, 2}, flash \in BOOLEAN :
          CallIncreaseHealthFactor(k,
            [user |-> u, collateralAsset |-> a, debtAsset |-> a, path |-> << >>,
             collateralAmount |-> n, debtRepayAmount |-> n, rateMode |-> mode,
             useATokenAsFrom |-> FALSE, useATokenAsTo |-> FALSE, useFlashloan |-> flash])
    BY <1>6, AutoRepayConstants DEF OtherKeeperRepays
  <2> DEFINE p == [user |-> u, collateralAsset |-> a, debtAsset |-> a, path |-> << >>,
                   collateralAmount |-> n, debtRepayAmount |-> n, rateMode |-> mode,
                   useATokenAsFrom |-> FALSE, useATokenAsTo |-> FALSE, useFlashloan |-> flash]
  <2>3. p.user \in Users /\ CallOK(p) BY DEF CallOK
  <2>. HIDE DEF p
  <2>4. CallIncreaseHealthFactor(k, p) BY <2>2 DEF p
  <2> QED BY <1>1, <2>1, <2>3, <2>4, KeeperCalls
<1> QED BY <1>2, <1>3, <1>4, <1>5, <1>6 DEF ChainNext

-----------------------------------------------------------------------------
(* The steps of the bot.                                                     *)

\* A quote keeps a call a call.
LEMMA Quoted ==
    ASSUME ChainOK, NEW p, Prepared(p), NEW flash
    PROVE  Prepared(increaseHealthFactorMethod(p, flash))
<1> DEFINE out == amountOut(p)
           in  == RoundDiv(getAmountsIn(out, p.path) * 1001, 1000)
           q   == [p EXCEPT !.collateralAmount = in, !.useFlashloan = flash]
<1>1. increaseHealthFactorMethod(p, flash) = q BY DEF increaseHealthFactorMethod
<1>2. ASSUME p.user \in Users PROVE in \in Nat
  <2>1. p.debtRepayAmount \in Nat /\ Tradable(p.path) BY <1>2 DEF Prepared, CallOK
  <2>2. p.debtRepayAmount * 10009 \in Nat BY <2>1
  <2>3. out \in Nat BY <2>2, RoundDivNat DEF amountOut
  <2>. HIDE DEF out
  <2>4. getAmountsIn(out, p.path) \in Nat BY <2>1, <2>3, QuoteNat
  <2>5. getAmountsIn(out, p.path) * 1001 \in Nat BY <2>4
  <2> QED BY <2>5, RoundDivNat
<1>. HIDE DEF in
<1>3. /\ DOMAIN q = DOMAIN p /\ q.user = p.user /\ q.path = p.path
      /\ q.collateralAsset = p.collateralAsset /\ q.debtAsset = p.debtAsset
      /\ q.debtRepayAmount = p.debtRepayAmount /\ q.collateralAmount = in
  BY DEF Prepared
<1>. HIDE DEF q
<1> QED BY <1>1, <1>2, <1>3 DEF Prepared, CallOK

\* What the bot chooses from a user's account can be called.
LEMMA Chosen ==
    ASSUME NEW u, NEW acc, u \in Users => acc \in Account, NEW rates, hasSwapPath(acc, rates)
    PROVE  Prepared(repayParams(u, acc, rates))
<1> DEFINE c == biggestCollateral(acc, rates)
           b == biggestBorrow(acc, rates)
           mode == rateModeFor(acc, b)
           owed == IF mode = 1 THEN acc.stable[b] ELSE acc.variable[b]
           s == botPaths[c][b]
           p == [user |-> u, collateralAsset |-> c, debtAsset |-> b, collateralAmount |-> 0,
                 debtRepayAmount |-> owed,
                 rateMode |-> mode, useFlashloan |-> TRUE, path |-> s.path,
                 useATokenAsFrom |-> s.useATokenAsFrom, useATokenAsTo |-> s.useATokenAsTo]
<1>1. repayParams(u, acc, rates) = p BY DEF repayParams
<1>2. c \in DOMAIN botPaths /\ b \in DOMAIN botPaths[c] BY DEF hasSwapPath
<1>. HIDE DEF c, b, mode
<1>3. c \in Assets BY <1>2 DEF botPaths, Assets
<1>4. b \in Assets /\ c # b /\ Tradable(s.path) BY <1>2, <1>3, BotPaths
<1>5. u \in Users => owed \in Nat BY <1>4 DEF Account
<1>. HIDE DEF owed, s
<1>6. Prepared(p) BY <1>3, <1>4, <1>5 DEF Prepared, CallOK
<1> QED BY <1>1, <1>6

\* Giving up on a user is always possible.
LEMMA Dropped ==
    ASSUME NEW b, BotOK(b)
    PROVE  BotOK(afterError(b)) /\ BotOK(nextUser(b))
BY DEF BotOK, Calling, afterError, nextUser

LEMMA Smaller ==
    ASSUME NEW b, BotOK(b), b.pc = "simulate"
    PROVE  BotOK(smallerShare(b))
<1>1. CASE b.attempt = 4 BY <1>1, Dropped DEF smallerShare
<1>2. CASE b.attempt # 4
  <2> DEFINE n == nextAmount(b.p.debtRepayAmount, b.attempt)
             p == [b.p EXCEPT !.debtRepayAmount = n]
             x == [b EXCEPT !.pc = "quote", !.attempt = @ + 1, !.tries = 0, !.p = p]
  <2>1. b.attempt \in 1..3 /\ Prepared(b.p) BY <1>2 DEF BotOK, Calling
  <2>2. smallerShare(b) = x BY <1>2 DEF smallerShare, BotOK
  <2>3. ASSUME b.p.user \in Users PROVE n \in Nat
    <3>1. b.p.debtRepayAmount \in Nat BY <2>1, <2>3 DEF Prepared, CallOK
    <3>2. 100 - b.attempt * 25 \in Nat BY <2>1
    <3>3. b.p.debtRepayAmount * (100 - b.attempt * 25) \in Nat BY <3>1, <3>2, MulNat
    <3> QED BY <3>3, DivBounds DEF nextAmount
  <2>. HIDE DEF n
  <2>4. Prepared(p) BY <2>1, <2>3 DEF Prepared, CallOK
  <2>. HIDE DEF p
  <2>5. x.pc = "quote" /\ x.p = p /\ x.attempt \in 1..4 /\ DOMAIN x = DOMAIN b
    BY <2>1 DEF BotOK
  <2>. HIDE DEF x
  <2> QED BY <2>2, <2>4, <2>5 DEF BotOK, Calling
<1> QED BY <1>1, <1>2

LEMMA FlashSent ==
    ASSUME NEW b, BotOK(b), b.pc \in Calling
    PROVE  BotOK(sendFlash(b))
BY DEF BotOK, Calling, sendFlash

\* Another try is the same call again.
LEMMA TriedAgain ==
    ASSUME NEW b, BotOK(b), NEW givenUp, BotOK(givenUp)
    PROVE  BotOK(afterFailure(b, givenUp))
<1>1. CASE b.tries = 0 BY <1>1 DEF afterFailure
<1>2. CASE b.tries # 0 BY <1>2 DEF afterFailure, BotOK
<1> QED BY <1>1, <1>2

LEMMA BotSteps ==
    ASSUME Inv, BotNext \/ CallFails \/ AnswerLost
    PROVE  BotOK(bot')
<1>1. ChainOK /\ BotOK(bot) BY DEF Inv
<1>2. CASE Scan \/ ReadAccounts \/ ReadPositions \/ Delay
  BY <1>1, <1>2 DEF Scan, ReadAccounts, ReadPositions, Delay, At, BotOK, Calling, ChainOK
<1>3. CASE ReadPrices
  <2>1. CASE hasSwapPath(bot.acc, prices)
    <3> DEFINE p == repayParams(Head(bot.queue), bot.acc, prices)
    <3>1. bot' = [bot EXCEPT !.pc = "quote", !.attempt = 1, !.acc = Nothing, !.p = p]
      BY <1>3, <2>1 DEF ReadPrices
    <3>2. Head(bot.queue) \in Users => bot.acc \in Account BY <1>1, <1>3 DEF ReadPrices, At, BotOK
    <3>3. Prepared(p) BY <2>1, <3>2, Chosen
    <3>. HIDE DEF p
    <3> QED BY <1>1, <3>1, <3>3 DEF BotOK, Calling
  <2>2. CASE ~hasSwapPath(bot.acc, prices) BY <1>1, <1>3, <2>2, Dropped DEF ReadPrices
  <2> QED BY <2>1, <2>2
<1>4. CASE Quote
  <2>1. CASE quoteExists(bot.p)
    <3> DEFINE p == increaseHealthFactorMethod(bot.p, TRUE)
    <3>1. bot.pc = "quote" /\ Prepared(bot.p) /\ bot.attempt \in 1..4
      BY <1>1, <1>4 DEF Quote, At, BotOK, Calling
    <3>2. bot' = [bot EXCEPT !.pc = "allowance", !.p = p] BY <1>1, <1>4, <2>1 DEF Quote, BotOK
    <3>3. Prepared(p) BY <1>1, <3>1, Quoted
    <3>. HIDE DEF p
    <3> QED BY <1>1, <3>1, <3>2, <3>3 DEF BotOK, Calling
  <2>2. CASE ~quoteExists(bot.p) BY <1>1, <1>4, <2>2, Dropped DEF Quote
  <2> QED BY <2>1, <2>2
<1>5. CASE CheckAllowance
  <2>1. CASE bot' = nextUser(bot) BY <1>1, <2>1, Dropped
  <2>2. CASE bot' = [bot EXCEPT !.pc = "simulate", !.tries = RETRIES]
    BY <1>1, <1>5, <2>2 DEF CheckAllowance, At, BotOK, Calling
  <2> QED BY <1>5, <2>1, <2>2 DEF CheckAllowance
<1>6. CASE SimulateSucceeds
  BY <1>1, <1>6 DEF SimulateSucceeds, At, BotOK, Calling
<1>7. CASE DirectSucceeds
  BY <1>1, <1>7 DEF DirectSucceeds, At, BotOK, Calling
<1>8. CASE DirectQuote
  <2>1. Prepared(bot.p) BY <1>1, <1>8 DEF DirectQuote, At, BotOK, Calling
  <2>2. CASE quoteExists(bot.p)
    <3> DEFINE p == increaseHealthFactorMethod(bot.p, FALSE)
    <3>1. bot' = [bot EXCEPT !.pc = "directSimulate", !.tries = RETRIES, !.method = p]
      BY <1>8, <2>2 DEF DirectQuote
    <3>2. Prepared(p) BY <1>1, <2>1, Quoted
    <3>. HIDE DEF p
    <3> QED BY <1>1, <2>1, <3>1, <3>2 DEF BotOK, Calling
  <2>3. CASE ~quoteExists(bot.p)
    BY <1>1, <1>8, <2>3, FlashSent DEF DirectQuote, At, Calling
  <2> QED BY <2>2, <2>3
<1>9. ASSUME At("simulate") PROVE BotOK(afterFailure(bot, smallerShare(bot)))
  BY <1>1, <1>9, Smaller, TriedAgain DEF At
<1>10. ASSUME At("directSimulate") PROVE BotOK(afterFailure(bot, sendFlash(bot)))
  BY <1>1, <1>10, FlashSent, TriedAgain DEF At, Calling
<1>11. CASE SimulateReverts BY <1>9, <1>11 DEF SimulateReverts
<1>12. CASE DirectReverts BY <1>10, <1>12 DEF DirectReverts
<1>13. CASE SendSucceeds \/ SendReverts \/ AnswerLost
  <2>1. bot' = nextUser(bot) \/ bot' = afterError(bot)
    BY <1>13 DEF SendSucceeds, SendReverts, AnswerLost
  <2> QED BY <1>1, <2>1, Dropped
<1>14. CASE CallFails
  <2>1. CASE At("simulate")
    <3>1. bot' = afterFailure(bot, smallerShare(bot)) BY <1>14, <2>1 DEF CallFails, At
    <3> QED BY <1>9, <2>1, <3>1
  <2>2. CASE At("directSimulate") BY <1>10, <1>14, <2>2 DEF CallFails, At
  <2>3. CASE At("directQuote")
    <3>1. bot' = sendFlash(bot) BY <1>14, <2>3 DEF CallFails, At
    <3> QED BY <1>1, <2>3, <3>1, FlashSent DEF At, Calling
  <2>4. CASE ~At("simulate") /\ ~At("directSimulate") /\ ~At("directQuote")
    <3>1. bot' = afterError(bot) BY <1>14, <2>4 DEF CallFails
    <3> QED BY <1>1, <3>1, Dropped
  <2> QED BY <2>1, <2>2, <2>3, <2>4
<1> QED
  BY <1>2, <1>3, <1>4, <1>5, <1>6, <1>7, <1>8, <1>11, <1>12, <1>13, <1>14 DEF BotNext

\* A step of the bot moves the accounts in one place only: where it sends.
LEMMA BotTakes ==
    ASSUME Inv, BotNext \/ CallFails \/ AnswerLost
    PROVE  /\ ChainOK'
           /\ \/ UNCHANGED accounts
              \/ At("send") /\ CallIncreaseHealthFactor(Bot, bot.method)
<1>1. CASE SendSucceeds \/ AnswerLost
  <2>1. At("send") /\ CallIncreaseHealthFactor(Bot, bot.method) /\ moves' = moves
    BY <1>1 DEF SendSucceeds, AnswerLost
  <2>2. Prepared(bot.method) BY <2>1 DEF Inv, BotOK, At
  <2> QED BY <2>1, <2>2, KeeperCalls DEF Inv, ChainOK, Prepared
<1>2. CASE UNCHANGED chain
  BY <1>2 DEF chain, Inv, ChainOK
<1>3. CASE ~(SendSucceeds \/ AnswerLost)
  BY <1>2, <1>3 DEF BotNext, Scan, ReadAccounts, ReadPositions, ReadPrices, Quote,
     CheckAllowance, SimulateSucceeds, SimulateReverts, DirectQuote, DirectSucceeds,
     DirectReverts, SendReverts, Delay, CallFails
<1> QED BY <1>1, <1>3

-----------------------------------------------------------------------------
LEMMA InvHoldsAtFirst == Init => Inv
<1> SUFFICES ASSUME Init PROVE Inv
  OBVIOUS
<1>1. ChainOK BY AutoRepayConstants DEF Init, ChainInit, ChainOK
<1>2. BotOK(bot) BY DEF Init, Idle, BotOK, Calling
<1> QED BY <1>1, <1>2 DEF Inv

LEMMA InvIsKept == Inv /\ [Next]_vars => Inv'
<1> SUFFICES ASSUME Inv, [Next]_vars PROVE Inv'
  OBVIOUS
<1>1. CASE BotNext \/ CallFails \/ AnswerLost
  BY <1>1, BotSteps, BotTakes DEF Inv
<1>2. CASE ChainNext /\ UNCHANGED <<bot, faults>>
  <2>1. ChainOK' BY <1>2, ChainSteps DEF Inv
  <2>2. BotOK(bot') BY <1>2 DEF Inv
  <2> QED BY <2>1, <2>2 DEF Inv
<1>3. CASE UNCHANGED vars
  BY <1>3 DEF vars, chain, Inv, ChainOK
<1> QED BY <1>1, <1>2, <1>3 DEF Next

LEMMA AlwaysInv == Spec => []Inv
<1> QED BY InvHoldsAtFirst, InvIsKept, PTL DEF Spec

\* What a transaction of the bot does, to the user it was prepared for.
LEMMA BotSends ==
    ASSUME Inv, Next, At("send"), accounts' # accounts, moves' = moves
    PROVE  /\ bot.method.user \in Users /\ CallOK(bot.method)
           /\ bot.method.collateralAsset # bot.method.debtAsset
           /\ \E n, r \in Nat : Takes(bot.method, n, r)
<1> DEFINE p == bot.method
<1>1. ChainOK /\ Prepared(p) BY DEF Inv, BotOK, At
<1>2. CallIncreaseHealthFactor(Bot, p) BY <1>1, BotTakes, ChainSteps DEF Next
<1>3. p.user \in Users BY <1>1, <1>2, CallElsewhere
<1>4. CallOK(p) /\ p.collateralAsset # p.debtAsset BY <1>1, <1>3 DEF Prepared
<1> QED BY <1>1, <1>2, <1>3, <1>4, CallEffect

\* Another keeper may repay part of the debt between the bot's quote and its
\* transaction, and prices may move: the user pays for what the bot still repays,
\* at the quoted price at most.
THEOREM RepaymentsStayInProportion == Spec => PullsInProportion
<1>1. Inv /\ [Next]_vars =>
        [At("send") /\ accounts' # accounts /\ moves' = moves =>
            LET p == bot.method
                c == p.collateralAsset
                pulled == accounts[p.user].balance[c] - accounts'[p.user].balance[c]
                repaid == debtOf(accounts[p.user], p) - debtOf(accounts'[p.user], p)
            IN  /\ repaid > 0
                /\ pulled * p.debtRepayAmount <= requiredAllowance(p) * repaid]_vars
  <2> DEFINE p == bot.method
             c == p.collateralAsset
             pulled == accounts[p.user].balance[c] - accounts'[p.user].balance[c]
             repaid == debtOf(accounts[p.user], p) - debtOf(accounts'[p.user], p)
  <2> SUFFICES ASSUME Inv, Next, At("send"), accounts' # accounts, moves' = moves
               PROVE  /\ repaid > 0
                      /\ pulled * p.debtRepayAmount <= requiredAllowance(p) * repaid
    OBVIOUS
  <2>1. p.user \in Users /\ CallOK(p) /\ c # p.debtAsset BY BotSends
  <2>2. PICK n \in Nat, r \in Nat : Takes(p, n, r) BY BotSends
  <2>3. accounts[p.user] \in Account /\ c \in Assets BY <2>1 DEF Inv, ChainOK, CallOK
  <2>4. pulled = n
    <3>1. accounts[p.user].balance \in [Assets -> Nat] BY <2>3 DEF Account
    <3> QED BY <2>2, <2>3, <3>1 DEF Takes
  <2>5. repaid = r
    <3>1. debtOf(accounts[p.user], p) \in Nat BY <2>1, <2>3 DEF debtOf, Account, CallOK
    <3> QED BY <2>2, <3>1 DEF Takes
  <2>. HIDE DEF pulled, repaid
  <2> QED BY <2>1, <2>2, <2>4, <2>5 DEF Takes
<1> QED BY <1>1, AlwaysInv, PTL DEF Spec, PullsInProportion

\* The transaction may meet other prices than the quote, and the contract adds
\* its fee: the user still loses no more than the bot found approved, and nothing
\* of another collateral.
THEOREM PullsStayWithinQuotes == Spec => PullsAtMostTheQuote
<1>1. Inv /\ [Next]_vars =>
        [At("send") /\ accounts' # accounts /\ moves' = moves =>
            LET u == bot.method.user
                c == bot.method.collateralAsset
            IN  /\ accounts[u].balance[c] - accounts'[u].balance[c]
                      <= requiredAllowance(bot.method)
                /\ \A v \in Users, a \in Assets : <<v, a>> # <<u, c>> =>
                      accounts'[v].balance[a] = accounts[v].balance[a]]_vars
  <2> DEFINE p == bot.method
             u == p.user
             c == p.collateralAsset
  <2> SUFFICES ASSUME Inv, Next, At("send"), accounts' # accounts, moves' = moves
               PROVE  /\ accounts[u].balance[c] - accounts'[u].balance[c] <= requiredAllowance(p)
                      /\ \A v \in Users, a \in Assets : <<v, a>> # <<u, c>> =>
                            accounts'[v].balance[a] = accounts[v].balance[a]
    OBVIOUS
  <2>1. ChainOK BY DEF Inv
  <2>2. u \in Users BY BotSends
  <2>3. CallOK(p) /\ c # p.debtAsset BY BotSends
  <2>4. PICK n \in Nat, r \in Nat : Takes(p, n, r) BY BotSends
  <2>5. accounts[u].balance \in [Assets -> Nat] /\ c \in Assets
    BY <2>1, <2>2, <2>3 DEF ChainOK, Account, CallOK
  <2>6. /\ accounts'[u].balance = [accounts[u].balance EXCEPT ![c] = @ - n]
        /\ \A v \in Users : v # u => accounts'[v] = accounts[v]
        /\ n <= requiredAllowance(p)
    BY <2>3, <2>4 DEF Takes
  <2>. HIDE DEF p, u, c
  <2>7. accounts[u].balance[c] - accounts'[u].balance[c] = n BY <2>5, <2>6
  <2>8. ASSUME NEW v \in Users, NEW a \in Assets, <<v, a>> # <<u, c>>
        PROVE  accounts'[v].balance[a] = accounts[v].balance[a]
    <3>1. CASE v # u BY <2>6, <3>1
    <3>2. CASE v = u BY <2>5, <2>6, <2>8, <3>2
    <3> QED BY <3>1, <3>2
  <2> QED BY <2>6, <2>7, <2>8
<1> QED BY <1>1, AlwaysInv, PTL DEF Spec, PullsAtMostTheQuote
=============================================================================
