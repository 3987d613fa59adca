-------------------------------- MODULE MCMarket --------------------------------
(***************************************************************************)
(* A small instance of Market for TLC: two offers, two jobs, one operator  *)
(* whose stake is just enough, one slash away from not being enough.       *)
(***************************************************************************)
EXTENDS Market

\* A claim of the best quality with one work unit.
BestMetric == {<<120, 1>>}
================================================================================
