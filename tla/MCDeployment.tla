---------------------------- MODULE MCDeployment ----------------------------
(***************************************************************************)
(* A small instance of Deployment: a runner of an old release of one file, *)
(* the one the API depends on with two files, and requests of two routes.  *)
(***************************************************************************)
EXTENDS Deployment

CONSTANTS old, new, q1, q2

MCCarries == [r \in Runners |-> IF r = old THEN 1 ELSE 2]

\* The routes of q1 and q2: writes meet writes and each other route.
MCMixes ==
    {[q \in Requests |-> IF q = q1 THEN r[1] ELSE r[2]] : r \in
        {<<"reading", "reading">>, <<"reading", "metrics">>, <<"reading", "ready">>,
         <<"create", "change">>, <<"deactivate", "fetch">>, <<"report", "live">>}}
=============================================================================
