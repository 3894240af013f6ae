------------------------ MODULE StableDebtTokenProofs ------------------------
(* The stable debt token for any users, amounts, rates and scales: its ledger  *)
(* stays well formed, its clocks agree, an empty supply carries no rate, and   *)
(* interest is only ever added, to the debt of the borrower concerned.         *)
EXTENDS StableDebtToken, LedgerProofs

\* The token invariant: what the supply and the clocks need of each other.
TokenInv == TokenTypeOK /\ ClocksAgree /\ NoSupplyNoRate

\* An untouched token satisfies it.
LEMMA TokenInitInv == TokenInit => TokenInv
BY DEF TokenInit, TokenInv, TokenTypeOK, ClocksAgree, NoSupplyNoRate, EmptyStableLedger,
       StableLedger, StableClocks

\* Debt accrued so far is a natural.
LEMMA OwedNat == ASSUME TokenInv, NEW u \in Users PROVE owed(u) \in Nat
BY StableBalance DEF TokenInv, TokenTypeOK, ClocksAgree, owed

\* mint keeps the token invariant.
LEMMA MintInv ==
    ASSUME TokenInv, NEW user \in Users, NEW amount \in Amounts, NEW rate \in Rates,
           Mint(user, amount, rate)
    PROVE  TokenInv'
<1>1. amount \in Nat \ {0} /\ rate \in Nat BY StableDebtTokenConstants
<1>2. ledger \in StableLedger /\ now \in Nat /\ StableClocks(ledger, now)
  BY DEF TokenInv, TokenTypeOK, ClocksAgree
<1>3. ledger' = stableMint(ledger, user, amount, rate, now) /\ now' = now BY DEF Mint
<1>4. ledger' \in StableLedger /\ StableClocks(ledger', now) /\ ledger'.totalSupply # 0
  BY <1>1, <1>2, <1>3, StableMintOK
<1> QED BY <1>2, <1>3, <1>4
        DEF TokenInv, TokenTypeOK, ClocksAgree, NoSupplyNoRate, StableClocks

\* burn keeps it, of whatever natural amount the pool asks for.
LEMMA BurnInv ==
    ASSUME TokenInv, NEW user \in Users, NEW amount \in Nat, Burn(user, amount)
    PROVE  TokenInv'
<1>1. ledger \in StableLedger /\ now \in Nat /\ StableClocks(ledger, now)
  BY DEF TokenInv, TokenTypeOK, ClocksAgree
<1>2. /\ stableBurnAllowed(ledger, user, amount, now)
      /\ ledger' = stableBurn(ledger, user, amount, now) /\ now' = now
  BY DEF Burn
<1>3. /\ ledger' \in StableLedger /\ StableClocks(ledger', now)
      /\ ledger'.totalSupply = 0 => ledger'.avgStableRate = 0
  BY <1>1, <1>2, StableBurnOK
<1> QED BY <1>1, <1>2, <1>3
        DEF TokenInv, TokenTypeOK, ClocksAgree, NoSupplyNoRate, StableClocks

\* Every step keeps it.
LEMMA TokenNextInv == TokenInv /\ [TokenNext]_tokenVars => TokenInv'
<1> SUFFICES ASSUME TokenInv, [TokenNext]_tokenVars PROVE TokenInv'
  OBVIOUS
<1>1. CASE \E user \in Users, amount \in Amounts, rate \in Rates : Mint(user, amount, rate)
  BY <1>1, MintInv
<1>2. CASE \E user \in Users, amount \in Amounts : Burn(user, amount)
  BY <1>2, BurnInv, StableDebtTokenConstants
<1>3. CASE \E user \in Users : BurnWhole(user)
  <2>1. PICK user \in Users : BurnWhole(user) BY <1>3
  <2>2. owed(user) \in Nat BY OwedNat
  <2>3. Burn(user, owed(user)) BY <2>1 DEF BurnWhole
  <2> QED BY <2>2, <2>3, BurnInv
<1>4. CASE Wait
  BY <1>4 DEF Wait, TokenInv, TokenTypeOK, ClocksAgree, NoSupplyNoRate, StableClocks, StableLedger
<1>5. CASE UNCHANGED tokenVars
  BY <1>5 DEF tokenVars, TokenInv, TokenTypeOK, ClocksAgree, NoSupplyNoRate, StableClocks
<1> QED BY <1>1, <1>2, <1>3, <1>4, <1>5 DEF TokenNext

\* The token invariant holds in every reachable state.
THEOREM TokenInvariant == TokenSpec => []TokenInv
<1>1. TokenInit => TokenInv BY TokenInitInv
<1>2. TokenInv /\ [TokenNext]_tokenVars => TokenInv' BY TokenNextInv
<1> QED BY <1>1, <1>2, PTL DEF TokenSpec

\* The ledger of the stable debt token is well formed in every reachable state:
\* no subtraction of burn takes a principal, a supply or a rate below zero.
THEOREM TokenTypeCorrect == TokenSpec => []TokenTypeOK
<1>1. TokenInv => TokenTypeOK BY DEF TokenInv
<1> QED BY <1>1, TokenInvariant, PTL

\* No timestamp of the token ever lies ahead of the clock it is subtracted from.
THEOREM ClocksAlwaysAgree == TokenSpec => []ClocksAgree
<1>1. TokenInv => ClocksAgree BY DEF TokenInv
<1> QED BY <1>1, TokenInvariant, PTL

\* A supply reset by burn never leaves its average rate behind.
THEOREM EmptySupplyHasNoRate == TokenSpec => []NoSupplyNoRate
<1>1. TokenInv => NoSupplyNoRate BY DEF TokenInv
<1> QED BY <1>1, TokenInvariant, PTL

-----------------------------------------------------------------------------

\* A balance touched at time t is worth its principal at time t.
LEMMA FreshBalance ==
    ASSUME NEW l \in StableLedger, NEW u \in Users, NEW t \in Nat,
           l.timestamps[u] = t \/ l.balances[u] = 0
    PROVE  stableBalanceOf(l, u, t) = l.balances[u]
<1>1. l.balances[u] \in Nat BY DEF StableLedger
<1>2. CASE l.balances[u] = 0 BY <1>2 DEF stableBalanceOf
<1>3. CASE l.balances[u] # 0
  <2>1. calculateCompoundedInterest(l.usersStableRate[u], l.timestamps[u], t) = RAY
    BY <1>3 DEF calculateCompoundedInterest
  <2> QED BY <1>1, <1>3, <2>1, RayMulRay DEF stableBalanceOf
<1> QED BY <1>2, <1>3

\* mint moves the debt of one borrower, by the amount.
LEMMA MintMoves ==
    ASSUME TokenInv, NEW user \in Users, NEW amount \in Amounts, NEW rate \in Rates,
           Mint(user, amount, rate)
    PROVE  /\ owed(user)' = owed(user) + amount
           /\ \A v \in Users \ {user} : owed(v)' = owed(v)
<1>1. amount \in Nat \ {0} /\ rate \in Nat BY StableDebtTokenConstants
<1>2. ledger \in StableLedger /\ now \in Nat /\ StableClocks(ledger, now)
  BY DEF TokenInv, TokenTypeOK, ClocksAgree
<1>3. ledger' = stableMint(ledger, user, amount, rate, now) /\ now' = now BY DEF Mint
<1>4. ledger' \in StableLedger BY <1>1, <1>2, <1>3, StableMintOK
<1>5. /\ ledger'.timestamps[user] = now
      /\ ledger'.balances[user] = owed(user) + amount
      /\ \A v \in Users \ {user} :
            /\ ledger'.balances[v] = ledger.balances[v]
            /\ ledger'.usersStableRate[v] = ledger.usersStableRate[v]
            /\ ledger'.timestamps[v] = ledger.timestamps[v]
  BY <1>2, <1>3 DEF stableMint, StableLedger, owed
<1>6. owed(user)' = owed(user) + amount BY <1>2, <1>3, <1>4, <1>5, FreshBalance DEF owed
<1>7. \A v \in Users \ {user} : owed(v)' = owed(v)
  BY <1>3, <1>5 DEF owed, stableBalanceOf
<1> QED BY <1>6, <1>7

\* burn moves the debt of one borrower, by the amount.
LEMMA BurnMoves ==
    ASSUME TokenInv, NEW user \in Users, NEW amount \in Nat, Burn(user, amount)
    PROVE  /\ owed(user)' = owed(user) - amount
           /\ \A v \in Users \ {user} : owed(v)' = owed(v)
<1>1. ledger \in StableLedger /\ now \in Nat /\ StableClocks(ledger, now)
  BY DEF TokenInv, TokenTypeOK, ClocksAgree
<1>2. /\ stableBurnAllowed(ledger, user, amount, now)
      /\ ledger' = stableBurn(ledger, user, amount, now) /\ now' = now
  BY DEF Burn
<1>3. ledger' \in StableLedger BY <1>1, <1>2, StableBurnOK
<1>4. owed(user) \in Nat BY OwedNat
<1>5. /\ ledger'.balances[user] = owed(user) - amount
      /\ ledger'.timestamps[user] = IF amount = owed(user) THEN 0 ELSE now
      /\ \A v \in Users \ {user} :
            /\ ledger'.balances[v] = ledger.balances[v]
            /\ ledger'.usersStableRate[v] = ledger.usersStableRate[v]
            /\ ledger'.timestamps[v] = ledger.timestamps[v]
  BY <1>1, <1>2 DEF stableBurn, StableLedger, owed
<1>6. ledger'.timestamps[user] = now \/ ledger'.balances[user] = 0
  BY <1>4, <1>5
<1>7. owed(user)' = owed(user) - amount
  BY <1>1, <1>2, <1>3, <1>5, <1>6, FreshBalance DEF owed
<1>8. \A v \in Users \ {user} : owed(v)' = owed(v)
  BY <1>2, <1>5 DEF owed, stableBalanceOf
<1> QED BY <1>7, <1>8

\* While time passes no debt shrinks.
LEMMA WaitGrows ==
    ASSUME TokenInv, Wait, NEW u \in Users
    PROVE  owed(u)' >= owed(u)
<1>1. ledger \in StableLedger /\ now \in Nat /\ StableClocks(ledger, now)
  BY DEF TokenInv, TokenTypeOK, ClocksAgree
<1>2. ledger' = ledger /\ now' = now + 1 BY DEF Wait
<1>3. /\ ledger.balances[u] \in Nat /\ ledger.usersStableRate[u] \in Nat
      /\ ledger.timestamps[u] \in Nat /\ ledger.totalSupplyTimestamp \in Nat
  BY <1>1 DEF StableLedger
<1>4. ledger.timestamps[u] <= now BY <1>1, <1>3 DEF StableClocks
<1> DEFINE before == calculateCompoundedInterest(ledger.usersStableRate[u],
                                                 ledger.timestamps[u], now)
           after  == calculateCompoundedInterest(ledger.usersStableRate[u],
                                                 ledger.timestamps[u], now + 1)
<1>5. before \in Nat /\ after \in Nat /\ before <= after
  <2>1. now + 1 \in Nat /\ now <= now + 1 /\ ledger.timestamps[u] <= now + 1
    BY <1>1, <1>3, <1>4
  <2> QED BY <2>1, <1>1, <1>3, <1>4, CompoundedFactor, CompoundedMono
<1>6. /\ owed(u) = IF ledger.balances[u] = 0 THEN 0 ELSE rayMul(ledger.balances[u], before)
      /\ owed(u)' = IF ledger.balances[u] = 0 THEN 0 ELSE rayMul(ledger.balances[u], after)
  BY <1>2 DEF owed, stableBalanceOf
<1>. HIDE DEF before, after
<1>7. /\ rayMul(ledger.balances[u], before) \in Nat
      /\ rayMul(ledger.balances[u], after) \in Nat
      /\ rayMul(ledger.balances[u], before) <= rayMul(ledger.balances[u], after)
  <2>1. ledger.balances[u] <= ledger.balances[u] BY <1>3
  <2> QED BY <2>1, <1>3, <1>5, RayMulNat, RayMulMono
<1> QED BY <1>6, <1>7

\* The step that InterestIsNeverLost is about.
InterestStep ==
    /\ \A u \in Users : now' = now + 1 => owed(u)' >= owed(u)
    /\ now' = now => \A u, v \in Users : u = v \/ owed(u)' = owed(u) \/ owed(v)' = owed(v)
    /\ now' = now => \A u \in Users : owed(u)' # owed(u) =>
            \/ owed(u)' = 0
            \/ \E amount \in Amounts : owed(u)' \in {owed(u) + amount, owed(u) - amount}

\* Accrued interest is never forgiven nor charged twice: a call moves the debt of
\* one borrower by what the pool asked for, and time moves no debt down.
THEOREM InterestSafe == TokenSpec => InterestIsNeverLost
<1>1. TokenInv /\ [TokenNext]_tokenVars => [InterestStep]_tokenVars
  <2> SUFFICES ASSUME TokenInv, TokenNext PROVE InterestStep
    OBVIOUS
  <2>0. now \in Nat BY DEF TokenInv, TokenTypeOK
  <2>1. ASSUME NEW user \in Users, NEW amount \in Amounts, NEW rate \in Rates,
               Mint(user, amount, rate)
        PROVE  InterestStep
    <3>1. now' # now + 1 BY <2>0, <2>1 DEF Mint
    <3> QED BY <2>1, <3>1, MintMoves DEF InterestStep
  <2>2. ASSUME NEW user \in Users, NEW amount \in Amounts, Burn(user, amount)
        PROVE  InterestStep
    <3>1. now' # now + 1 BY <2>0, <2>2 DEF Burn
    <3>2. amount \in Nat BY StableDebtTokenConstants
    <3> QED BY <2>2, <3>1, <3>2, BurnMoves DEF InterestStep
  <2>3. ASSUME NEW user \in Users, BurnWhole(user)
        PROVE  InterestStep
    <3>1. owed(user) \in Nat BY OwedNat
    <3>2. Burn(user, owed(user)) BY <2>3 DEF BurnWhole
    <3>3. now' # now + 1 BY <2>0, <3>2 DEF Burn
    <3>4. owed(user)' = 0 BY <3>1, <3>2, BurnMoves
    <3> QED BY <3>1, <3>2, <3>3, <3>4, BurnMoves DEF InterestStep
  <2>4. CASE Wait
    <3>1. now' # now BY <2>0, <2>4 DEF Wait
    <3> QED BY <2>4, <3>1, WaitGrows DEF InterestStep
  <2> QED BY <2>1, <2>2, <2>3, <2>4 DEF TokenNext
<1>2. InterestIsNeverLost <=> [][InterestStep]_tokenVars
  BY DEF InterestIsNeverLost, InterestStep
<1> QED BY <1>1, <1>2, TokenInvariant, PTL DEF TokenSpec
=============================================================================
