------------------------------ MODULE MCHosts ------------------------------
(***************************************************************************)
(* Three programs that share nothing, in one run: `live` says which of     *)
(* them moves, the other two stay as they start.  Their product would only *)
(* multiply states that cannot meet.                                       *)
(*                                                                         *)
(* Daemon: units of five minutes, two days.  Guard: a cost in each of two  *)
(* hours, a credit as large as both, and a cost in another currency.       *)
(* Scan: four stocks of two sectors whose market rises and then falls, one *)
(* whose feed may lag, one without a trade in minute 1; an instrument file *)
(* with an unsound row.                                                    *)
(***************************************************************************)
EXTENDS TelemetryDaemon, BillingGuard, MarketScan, TLC

CONSTANTS early, late, credit, foreign, bot, telemetry, s1, s2, s3, s4, it, metal

VARIABLE live

HourMap == early :> 0 @@ late :> 1 @@ credit :> 1 @@ foreign :> 1
AmountMap == early :> 1 @@ late :> 1 @@ credit :> -2 @@ foreign :> 1
KindMap == early :> "expected" @@ late :> "expected" @@ credit :> "expected"
             @@ foreign :> "other"
File(ok, enf, sob, closed, soe) ==
  "valid" :> ok @@ "enforce" :> enf @@ "stopOnBreach" :> sob
    @@ "failClosed" :> closed @@ "stopOnError" :> soe
FilesOfOperator ==
  {File(TRUE, TRUE, TRUE, TRUE, FALSE), File(TRUE, TRUE, FALSE, TRUE, TRUE),
   File(TRUE, FALSE, TRUE, TRUE, FALSE), File(TRUE, TRUE, TRUE, FALSE, FALSE),
   File(FALSE, TRUE, TRUE, TRUE, FALSE)}

Path(p, q, r, s) == 0 :> p @@ 1 :> q @@ 2 :> r @@ 3 :> s
LevelMap ==
  "market" :> Path(100, 103, 99, 98) @@ "bank" :> Path(100, 100, 100, 100)
    @@ "vix" :> Path(10, 10, 10, 10)
    @@ s1 :> Path(100, 120, 122, 121) @@ s2 :> Path(100, 101, 80, 79)
    @@ s3 :> Path(100, 102, 101, 103) @@ s4 :> Path(100, 99, 97, 96)
SectorMap == s1 :> it @@ s2 :> metal @@ s3 :> metal @@ s4 :> it
LateFeeds == {s2}
QuietMinutes == {<<s3, 1>>}
Instruments3(b, m, u) == [bod |-> b, mis |-> m, unsound |-> u]
FilesOfVendor ==
  {Instruments3(Stocks, Stocks, {}),
   Instruments3({s1, s2, s3}, {s2, s3, s4}, {s1})}
KindsOfQuotes ==
  s1 :> {"good", "odd"} @@ s2 :> {"good"} @@ s3 :> {"good", "oneSided", "malformed"} @@ s4 :> {"good"}

Init ==
  /\ live \in {"daemon", "guard", "scan"}
  /\ DaemonInit /\ GuardInit /\ ScanInit
  /\ live # "guard" => config = File(TRUE, TRUE, TRUE, TRUE, FALSE)

Next ==
  /\ UNCHANGED live
  /\ \/ live = "daemon" /\ DaemonNext /\ UNCHANGED <<guardVars, scanVars>>
     \/ live = "guard" /\ GuardNext /\ UNCHANGED <<daemonVars, scanVars>>
     \/ live = "scan" /\ ScanNext /\ UNCHANGED <<daemonVars, guardVars>>

Spec ==
  /\ Init /\ [][Next]_<<live, daemonVars, guardVars, scanVars>>
  /\ live = "guard" => GuardFairness
=============================================================================
