----------------------------- MODULE MCPaperBook -----------------------------
(***************************************************************************)
(* Five signals on five instruments of two sectors.  Risks are in the      *)
(* range RiskDesk produces (250 < risk <= 500), the notionals large enough *)
(* for the notional limits to bind.                                        *)
(***************************************************************************)
EXTENDS PaperBook, TLC

CONSTANTS a, b, c, e, f, bank, oil

BothWays(pairs) == pairs \cup {<<p[2], p[1]>> : p \in pairs}

\* Instruments are named like the one signal they carry.
Own == [s \in Signals |-> s]
SectorMap == a :> bank @@ b :> bank @@ c :> oil @@ e :> bank @@ f :> oil
RiskMap == a :> 260 @@ b :> 300 @@ c :> 255 @@ e :> 480 @@ f :> 270
NotionalMap == a :> 40000 @@ b :> 55000 @@ c :> 80000 @@ e :> 30000 @@ f :> 60000

\* a, b, c pairwise correlated, f correlated with c only.
CorrelatedPairs == BothWays({<<a, b>>, <<b, c>>, <<a, c>>, <<c, f>>})
\* Nothing is known of e and f together.
UncorrelatedPairs == BothWays({<<a, e>>, <<b, e>>, <<c, e>>, <<a, f>>, <<b, f>>})

Results == {-1000, -400, 300}
=============================================================================
