----------------------------- MODULE MCOrderDesk -----------------------------
(***************************************************************************)
(* Small instances of OrderDesk.  The limits are PortfolioRiskLimits'      *)
(* defaults unless a configuration says otherwise; a PaperOrderDesk takes  *)
(* any limits, and the tests of the repository use others too.             *)
(***************************************************************************)
EXTENDS OrderDesk, TLC

CONSTANTS d1, d2, a, b, c, x, y, bank

DeskSymmetry == Permutations(Desks)

BothWays(pairs) == pairs \cup {<<p[2], p[1]>> : p \in pairs}

\* Two signals compete for one instrument, the third has another one.
SharedInstrument == [s \in Signals |-> IF s = c THEN y ELSE x]

OneSector == [i \in Instruments |-> bank]

MixedRisk == [s \in Signals |-> IF s = b THEN 300 ELSE 400]
MidNotional == [s \in Signals |-> 45000]
TenShares == [s \in Signals |-> 10]

NoPairs == {}
PairXY == BothWays({<<x, y>>})

LossAndGain == {-1000, 200}
OneResult == {100}
=============================================================================
