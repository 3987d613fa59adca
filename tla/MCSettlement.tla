------------------------------ MODULE MCSettlement ------------------------------
(***************************************************************************)
(* Small instances of Settlement for TLC.  A price of 9 rounds the bond    *)
(* and the fee down to 0; a price of 40 gives a bond of 4 and a fee of 1.  *)
(***************************************************************************)
EXTENDS Quotes

\* A claim of average quality with one work unit, and one without.
OneMetric == {<<120, 1>>}
NoMetrics == {}
================================================================================
