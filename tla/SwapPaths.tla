----------------------------- MODULE SwapPaths ------------------------------
(* The swap paths of the scripts, keyed by the asset to sell and the asset to  *)
(* get: the bot's table "paths" and the command line's getSwapPath.  A path    *)
(* lists token addresses; mcelo, mcusd and mceur are aTokens.                  *)
EXTENDS Sequences, SequencesExt, TLC

Assets == {"celo", "cusd", "ceur", "creal", "moo"}

\* The aTokens of the assets: what a swap trades when it is told to use aTokens.
MToken == [celo |-> "mcelo", cusd |-> "mcusd", ceur |-> "mceur",
           creal |-> "mcreal", moo |-> "mmoo"]

UnderlyingOf(t) == IF t \in Assets THEN t ELSE CHOOSE a \in Assets : MToken[a] = t

\* The path trades what is sold for what is to be had, aTokens where the flags
\* say so.
PathFits(from, to, p) ==
    /\ Len(p.path) >= 2
    /\ Head(p.path) = IF p.useATokenAsFrom THEN MToken[from] ELSE from
    /\ Last(p.path) = IF p.useATokenAsTo THEN MToken[to] ELSE to

swap(path, from, to) == [path |-> path, useATokenAsFrom |-> from, useATokenAsTo |-> to]

celo_cusd  == <<"celo", "mcusd">>
celo_ceur  == <<"celo", "mceur">>
celo_creal == <<"celo", "cusd", "creal">>
cusd_ceur  == <<"mcusd", "mceur">>
cusd_creal == <<"cusd", "creal">>
cusd_moo   == <<"cusd", "celo", "moo">>
ceur_creal == <<"ceur", "celo", "cusd", "creal">>
ceur_moo   == <<"mceur", "celo", "moo">>
creal_moo  == <<"creal", "cusd", "celo", "moo">>
celo_moo   == <<"moo", "mcelo">>       \* in the bot
mcelo_moo  == <<"mcelo", "moo">>       \* on the command line

\* auto-repay-bot.js: paths.
botPaths ==
    [celo  |-> [cusd  |-> swap(celo_cusd, FALSE, TRUE),
                ceur  |-> swap(celo_ceur, FALSE, TRUE),
                creal |-> swap(celo_creal, FALSE, FALSE),
                moo   |-> swap(celo_moo, FALSE, TRUE)],
     cusd  |-> [celo  |-> swap(Reverse(celo_cusd), TRUE, FALSE),
                ceur  |-> swap(cusd_ceur, TRUE, TRUE),
                creal |-> swap(cusd_creal, FALSE, FALSE),
                moo   |-> swap(cusd_moo, FALSE, FALSE)],
     ceur  |-> [celo  |-> swap(Reverse(celo_ceur), TRUE, FALSE),
                cusd  |-> swap(Reverse(cusd_ceur), TRUE, TRUE),
                creal |-> swap(ceur_creal, FALSE, FALSE),
                moo   |-> swap(ceur_moo, TRUE, TRUE)],
     creal |-> [celo  |-> swap(Reverse(celo_creal), FALSE, FALSE),
                cusd  |-> swap(Reverse(cusd_creal), FALSE, FALSE),
                ceur  |-> swap(Reverse(celo_creal), FALSE, FALSE),
                moo   |-> swap(creal_moo, FALSE, TRUE)],
     moo   |-> [celo  |-> swap(Reverse(celo_moo), TRUE, FALSE),
                cusd  |-> swap(Reverse(cusd_moo), FALSE, FALSE),
                ceur  |-> swap(Reverse(ceur_moo), TRUE, TRUE),
                creal |-> swap(Reverse(creal_moo), TRUE, FALSE)]]

\* cli.js: getSwapPath.
getSwapPath ==
    [celo  |-> [cusd  |-> swap(celo_cusd, FALSE, TRUE),
                ceur  |-> swap(celo_ceur, FALSE, TRUE),
                creal |-> swap(celo_creal, FALSE, FALSE),
                moo   |-> swap(mcelo_moo, TRUE, FALSE)],
     cusd  |-> [celo  |-> swap(Reverse(celo_cusd), TRUE, FALSE),
                ceur  |-> swap(cusd_ceur, TRUE, TRUE),
                creal |-> swap(cusd_creal, FALSE, FALSE),
                moo   |-> swap(cusd_moo, FALSE, FALSE)],
     ceur  |-> [celo  |-> swap(Reverse(celo_ceur), TRUE, FALSE),
                cusd  |-> swap(Reverse(cusd_ceur), TRUE, TRUE),
                creal |-> swap(ceur_creal, FALSE, FALSE),
                moo   |-> swap(ceur_moo, TRUE, FALSE)],
     creal |-> [celo  |-> swap(Reverse(celo_creal), FALSE, FALSE),
                cusd  |-> swap(Reverse(cusd_creal), FALSE, FALSE),
                ceur  |-> swap(Reverse(ceur_creal), FALSE, FALSE),
                moo   |-> swap(creal_moo, FALSE, TRUE)],
     moo   |-> [celo  |-> swap(Reverse(mcelo_moo), TRUE, FALSE),
                cusd  |-> swap(Reverse(cusd_moo), FALSE, FALSE),
                ceur  |-> swap(Reverse(ceur_moo), FALSE, TRUE),
                creal |-> swap(Reverse(creal_moo), TRUE, FALSE)]]
=============================================================================
