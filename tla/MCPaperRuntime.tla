--------------------------- MODULE MCPaperRuntime ---------------------------
(***************************************************************************)
(* f1 and f2 are fills of symbol x, f3 is one of y.  f1 and f3 fit the    *)
(* risk limit together but, after slippage, not the cash of 28000 (they do *)
(* after a gain); f2 and f3 fit the cash but not the risk limit.  After    *)
(* one loss the day is over, and f2 is the only fill small enough for the  *)
(* next day.                                                               *)
(***************************************************************************)
EXTENDS PaperRuntime, TLC

CONSTANTS f1, f2, f3, x, y, p1, p2

SymbolMap == f1 :> x @@ f2 :> x @@ f3 :> y
QuotedMap == f1 :> 14000 @@ f2 :> 12000 @@ f3 :> 13995
PaidMap == f1 :> 14003 @@ f2 :> 12000 @@ f3 :> 13998
RiskMap == f1 :> 400 @@ f2 :> 450 @@ f3 :> 480
LossOrGain == {-600, 50}
=============================================================================
