----------------------------- MODULE MarketListing ---------------------------
(* What the deployment of markets promises about each of them: the reserves    *)
(* are listed by the genesis admin, then the admin's rights go to a helper     *)
(* contract that sets the terms of the listed reserves, and come back only     *)
(* when it has set them all.                                                   *)
EXTENDS FiniteSets

CONSTANTS Markets,   \* the addresses providers that may be deployed
          Plans      \* the configurations: their reserves and those without terms

VARIABLES plan,        \* the configuration in use
          admin,       \* who has the admin's rights of each market
          listed,      \* its initialised reserves
          configured   \* those with collateral terms and borrowing enabled

vars == <<plan, admin, listed, configured>>

Reserves == plan.reserves
Configurable == plan.reserves \ plan.untermed

Init ==
    /\ plan \in Plans
    /\ admin = [m \in Markets |-> "none"]
    /\ listed = [m \in Markets |-> {}]
    /\ configured = [m \in Markets |-> {}]

\* full:deploy-address-provider names the genesis admin.
Create(m) ==
    /\ admin[m] = "none"
    /\ admin' = [admin EXCEPT ![m] = "genesis"]
    /\ UNCHANGED <<plan, listed, configured>>

\* The sets of market m grow within the given one; the others stay.
Grows(before, after, m, all) ==
    /\ after = [before EXCEPT ![m] = after[m]]
    /\ before[m] \subseteq after[m]
    /\ after[m] \subseteq all

\* batchInitReserve: for the genesis admin, some reserves at a time.
List(m) ==
    /\ admin[m] = "genesis"
    /\ Grows(listed, listed', m, Reserves)
    /\ UNCHANGED <<plan, admin, configured>>

\* configureReservesByHelper: the helper becomes admin once all is listed.
HandOver(m) ==
    /\ admin[m] = "genesis"
    /\ listed[m] = Reserves
    /\ admin' = [admin EXCEPT ![m] = "helper"]
    /\ UNCHANGED <<plan, listed, configured>>

\* configureReserves: by the helper, some reserves at a time.
Configure(m) ==
    /\ admin[m] = "helper"
    /\ Grows(configured, configured', m, Configurable)
    /\ UNCHANGED <<plan, admin, listed>>

HandBack(m) ==
    /\ admin[m] = "helper"
    /\ configured[m] = Configurable
    /\ admin' = [admin EXCEPT ![m] = "genesis"]
    /\ UNCHANGED <<plan, listed, configured>>

Next ==
    \E m \in Markets :
        \/ Create(m)
        \/ List(m)
        \/ HandOver(m)
        \/ Configure(m)
        \/ HandBack(m)

Spec == Init /\ [][Next]_vars

-----------------------------------------------------------------------------
Admins == {"none", "genesis", "helper"}

\* Every market has one admin, and only configured reserves are listed ones.
TypeOK ==
    /\ plan \in Plans
    /\ admin \in [Markets -> Admins]
    /\ listed \in [Markets -> SUBSET Reserves]
    /\ configured \in [Markets -> SUBSET Configurable]

\* No reserve can be borrowed before the whole list is initialised, and the
\* genesis admin has a market with borrowing enabled only when every reserve
\* has its terms: no market is left half opened in its hands.
OpenedAsAWhole ==
    \A m \in Markets :
        configured[m] # {} =>
            /\ listed[m] = Reserves
            /\ admin[m] = "helper" \/ configured[m] = Configurable
=============================================================================
