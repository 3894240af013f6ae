---------------------------- MODULE MCStableDebt ----------------------------
(* Two borrowers at two rates over a few units of time: every behaviour of at  *)
(* most MaxSteps calls and clock ticks, because re-weighted rates drift by      *)
(* their rounding for ever.                                                    *)
EXTENDS StableDebtToken, TLC

CONSTANTS alice, bob, MaxSteps

VARIABLE steps

MCInit == TokenInit /\ steps = 0

MCNext == steps < MaxSteps /\ steps' = steps + 1 /\ TokenNext

MCSpec == MCInit /\ [][MCNext]_<<tokenVars, steps>>
=============================================================================
