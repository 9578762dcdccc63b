---------------------------- MODULE BillingGuard ----------------------------
(***************************************************************************)
(* operations/oci_billing_guard.py on VM2: a systemd timer starts a check  *)
(* that reads the configuration, asks OCI for the costs of the last hours, *)
(* and, when they reach the threshold, writes LOCKDOWN.json, stops the     *)
(* workload units and asks OCI to stop the VM.  OCI, systemd, the disk and *)
(* the operator are the environment: a usage line is published any time    *)
(* after the hour it belongs to, a request, a write or a systemctl call    *)
(* may fail, a check may be killed anywhere.                               *)
(*                                                                         *)
(* A check takes seconds: the hour, the published lines, the file and the  *)
(* marker do not change under it.                                          *)
(***************************************************************************)
EXTENDS Integers, FiniteSets, FiniteSetsExt

CONSTANTS
  Lines,                 \* usage lines: one per resource, service and sku
  HourOf,                \* [Lines -> Nat], the hour the usage belongs to
  Amount,                \* [Lines -> Int], computed_amount; credits are < 0
  Kind,                  \* "expected" or "other" currency, or "garbled"
  Units,                 \* WORKLOAD_UNITS
  Threshold, Lookback,   \* THRESHOLD_AMOUNT, LOOKBACK_HOURS
  ConfigFiles,           \* what the operator may have in billing-guard.env
  MaxHour                \* bound

ConfigFields == {"valid", "enforce", "stopOnBreach", "failClosed", "stopOnError"}

\* load_config accepts only a positive threshold, a window of 1 to 36 hours
\* and at least one unit; a file that fails its checks is one with ~valid.
ASSUME GuardAssumption ==
  /\ IsFiniteSet(Lines)
  /\ HourOf \in [Lines -> Nat] /\ Amount \in [Lines -> Int]
  /\ Kind \in [Lines -> {"expected", "other", "garbled"}]
  /\ Units # {}
  /\ Threshold \in Nat \ {0} /\ Lookback \in 1..36
  /\ ConfigFiles \subseteq [ConfigFields -> BOOLEAN]
  /\ MaxHour \in Nat

VARIABLES
  hour,                  \* the current hour (UTC)
  published,             \* lines the Usage API returns by now
  config,                \* the configuration file
  step,                  \* where the running check is
  preflight,             \* its --preflight flag
  items,                 \* the lines its query returned
  reason,                \* why it locks down
  tried,                 \* units it has called systemctl stop for
  marker,                \* LOCKDOWN.json exists
  running,               \* workload units that are active
  vm,                    \* the instance is up
  lastRc                 \* exit code of the last check that ended

guardVars == <<hour, published, config, step, preflight, items, reason, tried,
               marker, running, vm, lastRc>>
check == <<preflight, items, reason, tried>>
world == <<hour, published, config, running, vm>>

GuardInit ==
  /\ hour = 0
  /\ published = {}
  /\ config \in ConfigFiles
  /\ step = "idle"
  /\ preflight = FALSE
  /\ items = {}
  /\ reason = "none"
  /\ tried = {}
  /\ marker = FALSE
  /\ running = Units
  /\ vm = TRUE
  /\ lastRc = 0
-----------------------------------------------------------------------------
(***************************************************************************)
(* Evaluating the lines.                                                   *)
(***************************************************************************)

\* Mutant: credits are netted against the costs.
NettedCost(lines) == MapThenSumSet(LAMBDA l : Amount[l], lines)

\* evaluate_costs adds positive lines only: credits cannot conceal them.
PositiveCost(lines) ==
  MapThenSumSet(LAMBDA l : Amount[l], {l \in lines : Amount[l] > 0})

\* A cost in another currency and an amount that is no decimal both raise.
EvaluationRaises(lines) ==
  \E l \in lines : \/ Kind[l] = "garbled"
                   \/ Kind[l] = "other" /\ Amount[l] > 0

Breached(lines) == PositiveCost(lines) >= Threshold

\* The query covers the last Lookback full hours, all pages of them.
Window == {l \in published : /\ HourOf[l] >= hour - Lookback
                             /\ HourOf[l] < hour}
-----------------------------------------------------------------------------
(***************************************************************************)
(* One check: main and run.                                                *)
(***************************************************************************)
Exit(rc) ==
  /\ step' = "idle"
  /\ lastRc' = rc
  /\ preflight' = FALSE /\ items' = {} /\ reason' = "none" /\ tried' = {}

\* main: load_config refuses the file (CONFIG_ERROR) or the query begins.
StartCheck(pre) ==
  /\ vm /\ step = "idle"
  /\ IF config["valid"]
     THEN /\ step' = "query"
          /\ preflight' = pre
          /\ UNCHANGED <<items, reason, tried, lastRc>>
     ELSE Exit(4)
  /\ UNCHANGED <<marker, world>>

\* Mutant: an error of the API is only reported.
ApiErrorIgnored(seen) == Exit(3)

\* The except branch of run: whatever query_recent_costs raised.
ApiError(seen) ==
  IF config["enforce"] /\ config["failClosed"] /\ ~preflight
  THEN /\ step' = "mark"
       /\ items' = seen
       /\ reason' = "billing-api-error"
       /\ UNCHANGED <<preflight, tried, lastRc>>
  ELSE Exit(3)

\* Metadata, signer or any page of the request fails.
QueryFails ==
  /\ step = "query"
  /\ ApiError({})
  /\ UNCHANGED <<marker, world>>

QueryRecentCosts ==
  /\ step = "query"
  /\ IF EvaluationRaises(Window)
     THEN ApiError(Window)
     ELSE /\ step' = "save"
          /\ items' = Window
          /\ UNCHANGED <<preflight, reason, tried, lastRc>>
  /\ UNCHANGED <<marker, world>>

\* last-check.json is written before the verdict is acted on.
SaveCheck ==
  /\ step = "save"
  /\ IF preflight \/ ~Breached(items) THEN Exit(0)
     ELSE IF ~config["enforce"] THEN Exit(2)
     ELSE /\ step' = "mark"
          /\ reason' = "positive-cost"
          /\ UNCHANGED <<preflight, items, tried, lastRc>>
  /\ UNCHANGED <<marker, world>>

\* lock_down: first the marker, by an atomic rename.
WriteMarker ==
  /\ step = "mark"
  /\ marker' = TRUE
  /\ step' = "stop"
  /\ UNCHANGED <<check, lastRc, world>>

\* _atomic_json raises OSError in SaveCheck's or WriteMarker's place, or there
\* is no systemctl to run: main catches it and nothing further is done.
WriteFails ==
  /\ step \in {"save", "mark", "stop"}
  /\ Exit(4)
  /\ UNCHANGED <<marker, world>>

\* Then systemctl stop for every unit; its return code is recorded, not used.
StopUnit(u) ==
  /\ step = "stop"
  /\ u \notin tried
  /\ tried' = tried \cup {u}
  /\ \E stopped \in BOOLEAN :
       running' = IF stopped THEN running \ {u} ELSE running
  /\ UNCHANGED <<step, preflight, items, reason, marker, lastRc, hour, published,
                 config, vm>>

ReturnCode == IF reason = "positive-cost" THEN 2 ELSE 3

\* Mutant: the instance is stopped before its units.
StopInstanceFirst ==
  /\ step \in {"mark", "stop"}
  /\ config[IF reason = "positive-cost" THEN "stopOnBreach" ELSE "stopOnError"]
  /\ Exit(ReturnCode)
  /\ vm' = FALSE
  /\ running' = {}
  /\ UNCHANGED <<marker, hour, published, config>>

\* stop_this_instance after the last unit, if this kind of lockdown asks for it.
StopInstance ==
  /\ step = "stop" /\ tried = Units
  /\ config[IF reason = "positive-cost" THEN "stopOnBreach" ELSE "stopOnError"]
  /\ Exit(ReturnCode)
  /\ vm' = FALSE
  /\ running' = {}
  /\ UNCHANGED <<marker, hour, published, config>>

\* OCI refuses: fatal for the breach branch, recorded by the error branch.
StopInstanceFails ==
  /\ step = "stop" /\ tried = Units
  /\ config[IF reason = "positive-cost" THEN "stopOnBreach" ELSE "stopOnError"]
  /\ Exit(IF reason = "positive-cost" THEN 1 ELSE 3)
  /\ UNCHANGED <<marker, world>>

EndLockdown ==
  /\ step = "stop" /\ tried = Units
  /\ ~config[IF reason = "positive-cost" THEN "stopOnBreach" ELSE "stopOnError"]
  /\ Exit(ReturnCode)
  /\ UNCHANGED <<marker, world>>
-----------------------------------------------------------------------------
(***************************************************************************)
(* The environment.                                                        *)
(***************************************************************************)

\* The check is killed, with the marker written or not.
KillCheck ==
  /\ step # "idle"
  /\ Exit(1)
  /\ UNCHANGED <<marker, world>>

NextHour ==
  /\ step = "idle" /\ hour < MaxHour
  /\ hour' = hour + 1
  /\ UNCHANGED <<published, config, running, vm, step, check, marker, lastRc>>

\* OCI publishes a line some time after the hour it belongs to.
Publish(l) ==
  /\ step = "idle"
  /\ l \notin published /\ HourOf[l] < hour
  /\ published' = published \cup {l}
  /\ UNCHANGED <<hour, config, running, vm, step, check, marker, lastRc>>

\* The operator: edits the file, removes the marker, starts the VM or a unit.
\* Nothing in the repository keeps a unit from starting beside the marker.
EditConfig ==
  /\ step = "idle"
  /\ config' \in ConfigFiles
  /\ UNCHANGED <<hour, published, running, vm, step, check, marker, lastRc>>

Unlock ==
  /\ step = "idle" /\ marker
  /\ marker' = FALSE
  /\ UNCHANGED <<step, check, lastRc, world>>

StartUnit(u) ==
  /\ vm /\ u \notin running
  /\ running' = running \cup {u}
  /\ UNCHANGED <<hour, published, config, vm, step, check, marker, lastRc>>

StartInstance ==
  /\ ~vm
  /\ vm' = TRUE
  /\ UNCHANGED <<hour, published, config, running, step, check, marker, lastRc>>

CheckStep ==
  \/ QueryFails \/ QueryRecentCosts \/ SaveCheck \/ WriteMarker \/ WriteFails
  \/ \E u \in Units : StopUnit(u)
  \/ StopInstance \/ StopInstanceFails \/ EndLockdown

GuardNext ==
  \/ \E pre \in BOOLEAN : StartCheck(pre)
  \/ CheckStep
  \/ KillCheck
  \/ NextHour \/ \E l \in Lines : Publish(l)
  \/ EditConfig \/ Unlock \/ \E u \in Units : StartUnit(u) \/ StartInstance

GuardSpec == GuardInit /\ [][GuardNext]_guardVars

\* The timer starts a check every 15 minutes for ever, and a check ends (its
\* requests time out); requests, the disk and the process may fail and be killed
\* again and again, but not every time.  An operator's --preflight checks are no
\* substitute.
GuardFairness ==
  /\ WF_guardVars(CheckStep)
  /\ SF_guardVars(StartCheck(FALSE))
  /\ SF_guardVars(~preflight /\ (QueryRecentCosts \/ QueryFails))
  /\ SF_guardVars(~preflight /\ SaveCheck)
  /\ SF_guardVars(WriteMarker)
-----------------------------------------------------------------------------
(***************************************************************************)
(* Properties                                                              *)
(***************************************************************************)
CostsOfLastHours ==
  {l \in Lines : /\ l \in published /\ Amount[l] > 0
                 /\ HourOf[l] \in (hour - Lookback)..(hour - 1)}

\* A check that exits 0 outside preflight has seen everything there was to see:
\* no set of published costs of the window, in whatever currency and whatever
\* credits stand beside them, adds up to the threshold.
QuietMeansNoCost ==
  [][(/\ step # "idle" /\ step' = "idle" /\ lastRc' = 0 /\ ~preflight)
       => MapThenSumSet(LAMBDA l : Amount[l], CostsOfLastHours) < Threshold
     ]_guardVars

\* A check that reports a breach or an API error under an enforcing
\* configuration, or that stops the instance, has first written the marker and
\* tried to stop every workload unit (docs/oci-billing-guard.md:65); a check
\* that could not do so exits 1 or 4.
ReportedMeansLocked ==
  [][(\/ vm /\ ~vm'
      \/ /\ step # "idle" /\ step' = "idle" /\ ~preflight
         /\ config["enforce"] /\ config["failClosed"] /\ lastRc' \in {2, 3})
       => marker /\ tried = Units]_guardVars

Enforcing == config["valid"] /\ config["enforce"] /\ config["failClosed"]
CostVisible ==
  MapThenSumSet(LAMBDA l : Amount[l], CostsOfLastHours) >= Threshold

\* Fail closed: while an enforcing guard has a cost of the threshold in its
\* window, checks that die, requests that fail and lines it cannot read delay
\* the lockdown but do not prevent it.
CostIsLocked ==
  (vm /\ Enforcing /\ CostVisible) ~>
     (marker \/ ~vm \/ ~Enforcing \/ ~CostVisible)
=============================================================================
