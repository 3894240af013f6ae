---------------------------- MODULE BoundedPool -----------------------------
(* The pool with a budget of transactions and environment steps, for the model *)
(* instances in which interest makes the reachable amounts unbounded: TLC then *)
(* explores every behaviour of at most MaxSteps steps.                         *)
EXTENDS LendingPool, TLC

CONSTANT MaxSteps

ASSUME BoundedPoolConstants == MaxSteps \in Nat

VARIABLE steps

boundedVars == <<poolVars, steps>>

BoundedInit == PoolInit /\ steps = 0

BoundedNext ==
    /\ steps < MaxSteps
    /\ steps' = steps + 1
    /\ PoolNext

BoundedSpec == BoundedInit /\ [][BoundedNext]_boundedVars
=============================================================================
