----------------------------- MODULE MCResearch -----------------------------
(***************************************************************************)
(* The offline programs, one at a time as in MCHosts: `live` says which.   *)
(*                                                                         *)
(* Data: two days, a future that expires on the second, one that does not; *)
(* the candles of the latter may fail.                                    *)
(* Simulation: days of up to four bars around the pivots 36 and 44, with   *)
(* bars that span stop and target; nine trades that compete for the book.  *)
(* Meta: five symbols, eight sessions; a complete archive and others that  *)
(* miss minutes, evenings, sessions or a symbol.                           *)
(* Files: three validations, two at a time, two of which may be killed.    *)
(* Replay: up to six of ten scored rows over two sessions, whose results   *)
(* range from a double to a loss of more than the day may lose.            *)
(***************************************************************************)
EXTENDS ReconciledData, CprOiSimulation, MetaValidation, ModelFiles,
        PortfolioReplay, TLC

VARIABLE live

ExpiryMap == 1 :> 1 @@ 2 :> 9
ListedMap == 1 :> 0 @@ 2 :> 0
Flaky == {<<"active", 2, 1>>}

Shape(l, c, h, o) == [low |-> l, close |-> c, high |-> h, opinion |-> o]
ShapeSet ==
  {Shape(48, 48, 48, "LONG"), Shape(32, 32, 32, "SHORT"), Shape(48, 48, 48, "NONE"),
   Shape(46, 48, 68, "LONG"), Shape(12, 32, 32, "NONE"), Shape(12, 48, 68, "NONE"),
   Shape(36, 40, 44, "LONG")}
Trade(d, o, c, sy, r, n, p) ==
  [day |-> d, opened |-> o, closed |-> c, symbol |-> sy, risk |-> r, notional |-> n,
   net |-> p]
Pool ==
  {Trade(1, 1, 3, 1, 400, 60, -600), Trade(1, 1, 2, 2, 400, 60, 100),
   Trade(1, 2, 4, 3, 300, 90, -500), Trade(1, 2, 3, 4, 300, 60, 50),
   Trade(1, 3, 5, 5, 500, 90, 10), Trade(1, 3, 4, 6, 100, 20, 10),
   Trade(1, 4, 6, 7, 100, 20, 10), Trade(1, 1, 6, 8, 100, 20, -500),
   Trade(2, 1, 2, 9, 400, 90, -400)}

FullArchive ==
  [stock |-> Universe \X Calendar \X Minutes, market |-> Calendar \X Minutes,
   bank |-> Calendar \X Minutes, vix |-> Calendar \X Minutes]
Without(cells, moments) ==
  [FullArchive EXCEPT !.stock = @ \ cells, !.vix = @ \ moments]
ArchiveSet ==
  {FullArchive,
   \* an evening is lost, a symbol and the volatility index miss minutes
   Without((1..5) \X {7} \X {3} \cup {<<2, 4, 1>>, <<4, 5, 2>>}, {<<3, 1>>}),
   \* six aligned sessions, then three: too few out-of-fold or ordered dates
   Without({}, {7} \X Minutes),
   Without({}, (3..7) \X Minutes),
   \* the held-out symbols have no bars in the last sessions
   Without({1, 4} \X (6..7) \X Minutes, {}),
   \* one developer in the out-of-fold sessions
   Without({3, 5} \X (3..7) \X Minutes, {}),
   \* too small a universe
   Without({4} \X Calendar \X Minutes, {})}
Broken == {<<2, 6, 2>>}

Row(t, sy, l, s, lr, sr, c, v) ==
  [time |-> t, symbol |-> sy, long |-> l, short |-> s, longResult |-> lr,
   shortResult |-> sr, confidence |-> c, volatility |-> v]
ScoredPool ==
  {Row(0, 1, 10, 5, -60, 0, 100, 10), Row(0, 2, 20, 5, 80, 0, 50, 10),
   Row(1, 1, 0, 0, 90, 0, 90, 5), Row(1, 2, 5, 8, 0, -40, 80, 4),
   Row(2, 1, 7, 7, -40, 0, 60, 20), Row(2, 3, 7, 3, 30, 0, 60, 0),
   Row(3, 2, -5, 6, 0, -60, 90, 6), Row(3, 3, 9, 2, 100, 0, 90, 6),
   Row(5, 1, 4, 2, -20, 0, 70, 4), Row(7, 2, 3, 4, 0, 20, 70, 4)}

Init ==
  /\ live \in {"data", "simulation", "meta", "files", "replay"}
  /\ DataInit /\ SimInit /\ MetaInit /\ FilesInit /\ ReplayInit
  /\ live # "meta" => archive = FullArchive

Next ==
  /\ UNCHANGED live
  /\ \/ live = "data" /\ DataNext /\ UNCHANGED <<simVars, metaVars, filesVars, replayVars>>
     \/ live = "simulation" /\ SimNext /\ UNCHANGED <<dataVars, metaVars, filesVars, replayVars>>
     \/ live = "meta" /\ MetaNext /\ UNCHANGED <<dataVars, simVars, filesVars, replayVars>>
     \/ live = "files" /\ FilesNext /\ UNCHANGED <<dataVars, simVars, metaVars, replayVars>>
     \/ live = "replay" /\ ReplayNext /\ UNCHANGED <<dataVars, simVars, metaVars, filesVars>>

Spec ==
  Init /\ [][Next]_<<live, dataVars, simVars, metaVars, filesVars, replayVars>>
=============================================================================
