------------------------------- MODULE MCCli --------------------------------
(* Every command on every network with every kind of argument, one at a time,  *)
(* and two at once of those that approve or pull tokens.                       *)
EXTENDS Cli

CONSTANTS c1, c2

Networks == {"test", "main", "url"}
BadArgs  == {"none", "key", "asset", "rate", "number", "boolean"}
Pairs    == {<<"celo", "cusd">>, <<"cusd", "cusd">>}

MCCalls == [action: DOMAIN Program, network: Networks, amount: {1, 2, ALL}, bad: BadArgs, pair: Pairs]

Pulling == {"deposit", "repay", "repayfor", "repaydelegation", "liquidationcall"}

MCTogether ==
    [action: Pulling, network: {"main"}, amount: {1, 2}, bad: {"none"}, pair: {<<"celo", "cusd">>}]
=============================================================================
