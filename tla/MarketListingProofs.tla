-------------------------- MODULE MarketListingProofs -------------------------
(* MarketListing's promise holds for any number of markets and reserves.       *)
EXTENDS MarketListing, TLAPS

\* What the steps of one market rely on: without an admin nothing is open, and
\* the helper's rights cover a complete list.
Handling(m) ==
    /\ admin[m] = "none" => configured[m] = {}
    /\ admin[m] = "helper" => listed[m] = Reserves

Opened(m) ==
    configured[m] # {} =>
        /\ listed[m] = Reserves
        /\ admin[m] = "helper" \/ configured[m] = Configurable

Inv ==
    /\ TypeOK
    /\ \A m \in Markets : Handling(m) /\ Opened(m)

LEMMA InvHoldsAtFirst == Init => Inv
BY DEF Init, Inv, TypeOK, Admins, Handling, Opened

\* A step leaves the markets it is not about alone.
LEMMA OthersStay ==
    ASSUME Inv, NEW n \in Markets, NEW m \in Markets, m # n,
           plan' = plan, admin'[m] = admin[m], listed'[m] = listed[m], configured'[m] = configured[m]
    PROVE  Handling(m)' /\ Opened(m)'
BY DEF Inv, Handling, Opened, Reserves, Configurable

LEMMA InvIsKept == Inv /\ [Next]_vars => Inv'
<1> SUFFICES ASSUME Inv, [Next]_vars PROVE Inv'
    OBVIOUS
<1>1. CASE UNCHANGED vars
    BY <1>1 DEF Inv, TypeOK, Handling, Opened, Reserves, Configurable, vars
<1>2. CASE Next
    <2>1. PICK n \in Markets :
            \/ Create(n)
            \/ List(n)
            \/ HandOver(n)
            \/ Configure(n)
            \/ HandBack(n)
        BY <1>2 DEF Next
    <2> USE DEF Inv, TypeOK, Admins, Reserves, Configurable
    <2>2. CASE Create(n)
        <3>1. TypeOK'
            BY <2>2 DEF Create
        <3>2. Handling(n)' /\ Opened(n)'
            BY <2>2 DEF Create, Handling, Opened
        <3>3. \A m \in Markets : m # n => Handling(m)' /\ Opened(m)'
            BY <2>2, OthersStay DEF Create
        <3> QED BY <3>1, <3>2, <3>3
    <2>3. CASE List(n)
        <3>1. TypeOK'
            BY <2>3 DEF List, Grows
        <3>2. Handling(n)' /\ Opened(n)'
            BY <2>3 DEF List, Grows, Handling, Opened
        <3>3. \A m \in Markets : m # n => Handling(m)' /\ Opened(m)'
            BY <2>3, OthersStay DEF List, Grows
        <3> QED BY <3>1, <3>2, <3>3
    <2>4. CASE Configure(n)
        <3>1. TypeOK'
            BY <2>4 DEF Configure, Grows
        <3>2. Handling(n)' /\ Opened(n)'
            BY <2>4 DEF Configure, Grows, Handling, Opened
        <3>3. \A m \in Markets : m # n => Handling(m)' /\ Opened(m)'
            BY <2>4, OthersStay DEF Configure, Grows
        <3> QED BY <3>1, <3>2, <3>3
    <2>5. CASE HandOver(n)
        <3>1. TypeOK'
            BY <2>5 DEF HandOver
        <3>2. Handling(n)' /\ Opened(n)'
            BY <2>5 DEF HandOver, Handling, Opened
        <3>3. \A m \in Markets : m # n => Handling(m)' /\ Opened(m)'
            BY <2>5, OthersStay DEF HandOver
        <3> QED BY <3>1, <3>2, <3>3
    <2>6. CASE HandBack(n)
        <3>1. TypeOK'
            BY <2>6 DEF HandBack
        <3>2. Handling(n)' /\ Opened(n)'
            BY <2>6 DEF HandBack, Handling, Opened
        <3>3. \A m \in Markets : m # n => Handling(m)' /\ Opened(m)'
            BY <2>6, OthersStay DEF HandBack
        <3> QED BY <3>1, <3>2, <3>3
    <2> QED BY <2>1, <2>2, <2>3, <2>4, <2>5, <2>6
<1> QED BY <1>1, <1>2 DEF vars

LEMMA InvAlways == Spec => []Inv
BY InvHoldsAtFirst, InvIsKept, PTL DEF Spec

\* Type correctness: only reserves with terms are ever configured.
THEOREM TypeCorrect == Spec => []TypeOK
<1>1. Inv => TypeOK
    BY DEF Inv
<1> QED BY <1>1, InvAlways, PTL

\* Every market is opened as a whole, whatever the markets and the reserves are,
\* and however many transactions the lists are split into.
THEOREM MarketsOpenAsAWhole == Spec => []OpenedAsAWhole
<1>1. Inv => OpenedAsAWhole
    BY DEF Inv, Opened, OpenedAsAWhole
<1> QED BY <1>1, InvAlways, PTL
=============================================================================
