------------------------------ MODULE MCDeployment ----------------------------
(* Deployments of the markets of the repository, checked by TLC. *)
EXTENDS Deployment

\* Moola's operator repeats failed tasks and fills in reserves; the other markets
\* are deployed again by a new migration.
Target(pool, network, migrations, faultBound, choices) ==
    [pool |-> pool, network |-> network, migrations |-> migrations,
     faults |-> faultBound, choices |-> choices]

MCTargets ==
    {Target("Moola", "celo", 2, 2, {"migration", "repeat", "tokens"}),
     Target("Amm", "main", 2, 2, {"migration", "repeat"}),
     Target("Matic", "matic", 2, 1, {"migration"}),
     Target("Aave", "tenderlyMain", 3, 0, {"migration"})}

\* These configurations have all the tasks ask for.
ASSUME TargetsAreSuited == \A t \in Targets : Suited(t)
=============================================================================
