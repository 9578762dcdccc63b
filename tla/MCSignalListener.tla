-------------------------- MODULE MCSignalListener --------------------------
(***************************************************************************)
(* Two instruments of one sector.  a (LONG) and b (SHORT) compete for x:   *)
(* the price 120 of b is beyond a's target, the price 100 of a beyond b's. *)
(* e is a message for x that is never traded, at a price below a's stop.   *)
(* c is the other instrument's signal, n a message without price or trade. *)
(***************************************************************************)
EXTENDS SignalListener, TLC

CONSTANTS a, b, c, e, n, x, y, bank

InstrumentMap == [s \in Signals |-> IF s \in {c, n} THEN y ELSE x]
OneSector == [i \in Instruments |-> bank]
EntryPrice == a :> 100 @@ b :> 120 @@ c :> 50 @@ e :> 85 @@ n :> 0
StopPrice == a :> 90 @@ b :> 130 @@ c :> 40 @@ e :> 0 @@ n :> 0
TargetPrice == a :> 115 @@ b :> 105 @@ c :> 65 @@ e :> 0 @@ n :> 0
Side == [s \in Signals |-> IF s = b THEN "SHORT" ELSE "LONG"]
Thirty == [s \in Signals |-> 30]
Charges == [s \in Signals |-> 40]
RiskMap == [s \in Signals |-> 300]
NotionalMap == [s \in Signals |-> EntryPrice[s] * 30]
\* a expires with the first slot of the second day, the others later.
Validity == [s \in Signals |-> IF s = a THEN 4 ELSE 8]
Unrelated == {<<x, y>>, <<y, x>>}
NoPairs == {}
\* What the exits of the loop can realise: positions at any entry price.
Results == {NetResult(p, Entry[s]) : p \in Signals, s \in Signals}
=============================================================================
