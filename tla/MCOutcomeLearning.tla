------------------------- MODULE MCOutcomeLearning -------------------------
(***************************************************************************)
(* Three traces of two symbols; t3's bar never appears, so that it stays   *)
(* pending and asks for candles in every later cycle.  A session has three *)
(* slots of full cycles and two after them, a trace matures two later.     *)
(***************************************************************************)
EXTENDS OutcomeLearning, TLC

CONSTANTS t1, t2, t3, x, y

SymbolMap == t1 :> x @@ t2 :> y @@ t3 :> y
=============================================================================
