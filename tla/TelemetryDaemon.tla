-------------------------- MODULE TelemetryDaemon --------------------------
(***************************************************************************)
(* engine/telemetry_daemon.py on VM1: a loop that looks at two services,   *)
(* sends an update every half hour of the market session and one summary   *)
(* after it.  What it has already sent is remembered in two globals of the *)
(* process, which systemd restarts whenever it ends.                       *)
(*                                                                         *)
(* Time moves in units of five minutes.  An iteration sleeps 30 seconds,   *)
(* or 180 after a fault, so a daemon that is up iterates in every unit.    *)
(* Whether the services are active, the ledger can be read and Telegram    *)
(* accepts a message is chosen by the environment.                         *)
(***************************************************************************)
EXTENDS Integers

CONSTANTS
  UnitsPerHour,          \* 12
  SessionStart,          \* 9:15, in units
  SessionEnd,            \* 15:30
  ReportStart,           \* 15:35
  ReportEnd,             \* 16:00
  HeartbeatGap,          \* 1800 seconds, in units
  Days, MaxRestarts      \* bounds

DayLength == 24 * UnitsPerHour

ASSUME DaemonAssumption ==
  /\ UnitsPerHour \in Nat \ {0} /\ HeartbeatGap \in Nat \ {0}
  /\ {SessionStart, SessionEnd, ReportStart, ReportEnd} \subseteq Nat
  /\ UnitsPerHour <= SessionStart /\ SessionStart <= SessionEnd
  /\ SessionEnd < ReportStart /\ ReportStart < ReportEnd
  /\ ReportEnd < DayLength
  /\ Days \in Nat \ {0} /\ MaxRestarts \in Nat

VARIABLES
  clock,                 \* units since the first midnight
  up,                    \* the process exists
  polled,                \* it has iterated in this unit
  sinceBeat,             \* units since LAST_HEARTBEAT_TIME, up to the gap
  eodReported,           \* EOD_REPORTED_TODAY
  report,                \* what today's last summary said, or "none"
  summaries,             \* history: summaries sent today
  restarts,              \* history: starts in today's report window
  healthy,               \* history: this process had a fault-free poll in the
                         \* window of today
  cleared                \* history: today the process was started, or had a
                         \* fault-free poll in the first hour

daemonVars == <<clock, up, polled, sinceBeat, eodReported, report, summaries,
                restarts, healthy, cleared>>

TimeOfDay == clock % DayLength
InReportWindow == TimeOfDay \in ReportStart..(ReportEnd - 1)
FirstHour == TimeOfDay < UnitsPerHour

DaemonInit ==
  /\ clock = 0
  /\ up = FALSE /\ polled = FALSE
  /\ sinceBeat = HeartbeatGap + 1
  /\ eodReported = FALSE
  /\ report = "none"
  /\ summaries = 0 /\ restarts = 0
  /\ healthy = FALSE /\ cleared = FALSE
-----------------------------------------------------------------------------
\* A new process knows nothing of what the last one has sent.
StartDaemon ==
  /\ ~up
  /\ InReportWindow => restarts < MaxRestarts
  /\ up' = TRUE
  /\ sinceBeat' = HeartbeatGap + 1
  /\ eodReported' = FALSE
  /\ healthy' = FALSE /\ cleared' = TRUE
  /\ restarts' = IF InReportWindow THEN restarts + 1 ELSE restarts
  /\ UNCHANGED <<clock, polled, report, summaries>>

StopDaemon ==
  /\ up
  /\ up' = FALSE /\ polled' = FALSE
  /\ UNCHANGED <<clock, sinceBeat, eodReported, report, summaries, restarts,
                 healthy, cleared>>

\* check_systemd_status says no for a service: alert, a long sleep, and
\* `continue`, past everything below it.
ServiceFault ==
  /\ up
  /\ polled' = TRUE
  /\ UNCHANGED <<clock, up, sinceBeat, eodReported, report, summaries, restarts,
                 healthy, cleared>>

\* The minute 15:30 is inside the session, the four after it are not.
MarketHours ==
  \/ TimeOfDay \in SessionStart..(SessionEnd - 1)
  \/ TimeOfDay = SessionEnd

\* The half hour may end anywhere in the unit it ends in, and so does the
\* session.
HeartbeatDue == MarketHours /\ sinceBeat >= HeartbeatGap
HeartbeatSurelyDue ==
  /\ HeartbeatDue
  /\ sinceBeat > HeartbeatGap /\ TimeOfDay # SessionEnd

Heartbeat(sent) ==
  IF sent THEN sinceBeat' = 0 ELSE UNCHANGED sinceBeat

\* get_ledger_stats: zeros for a missing or unreadable file, as for a day
\* without rows.
LedgerStats(readable) == IF readable THEN "figures" ELSE "zeros"

SummaryDue == InReportWindow /\ ~eodReported

\* send_telegram's result is not looked at.
Summary(readable, delivered) ==
  IF SummaryDue
  THEN /\ report' = IF delivered THEN LedgerStats(readable) ELSE "lost"
       /\ summaries' = summaries + 1
  ELSE UNCHANGED <<report, summaries>>

\* Mutant: the flag is never reset.
FlagKept == IF SummaryDue THEN TRUE ELSE eodReported

FlagAfter ==
  IF FirstHour THEN FALSE ELSE IF SummaryDue THEN TRUE ELSE eodReported

\* The rest of an iteration that found both services active.
HealthyPoll(readable, delivered) ==
  /\ up
  /\ polled' = TRUE
  /\ \E sent \in {HeartbeatDue, HeartbeatSurelyDue} : Heartbeat(sent)
  /\ Summary(readable, delivered)
  /\ eodReported' = FlagAfter
  /\ healthy' = (healthy \/ InReportWindow)
  /\ cleared' = (cleared \/ FirstHour)
  /\ UNCHANGED <<clock, up, restarts>>

\* The clock, never over a unit a running daemon has not iterated in.  At
\* midnight the histories of the day begin anew.
NextUnit ==
  /\ clock + 1 < Days * DayLength
  /\ up => polled
  /\ clock' = clock + 1
  /\ polled' = FALSE
  /\ sinceBeat' = IF sinceBeat > HeartbeatGap THEN sinceBeat ELSE sinceBeat + 1
  /\ IF clock' % DayLength = 0
     THEN /\ report' = "none"
          /\ summaries' = 0 /\ restarts' = 0
          /\ healthy' = FALSE /\ cleared' = FALSE
     ELSE UNCHANGED <<report, summaries, restarts, healthy, cleared>>
  /\ UNCHANGED <<up, eodReported>>

DaemonNext ==
  \/ StartDaemon \/ StopDaemon
  \/ ServiceFault
  \/ \E readable, delivered \in BOOLEAN : HealthyPoll(readable, delivered)
  \/ NextUnit

DaemonSpec == DaemonInit /\ [][DaemonNext]_daemonVars
-----------------------------------------------------------------------------
(***************************************************************************)
(* Properties                                                              *)
(***************************************************************************)

\* "Fires once" (telemetry_daemon.py:119), as far as it is true.  When the
\* report window closes without a summary, a fault is to blame: no process, or
\* none but one that saw a fault in every poll of the window, was there at its
\* end, or the process is yesterday's and saw one in every poll of the midnight
\* hour, which kept its flag (the `continue` of line 99 skips the reset as
\* well).  And a day has at most one summary more than the daemon had starts in
\* the report window.
SummariesAreExplained ==
  /\ (TimeOfDay = ReportEnd /\ report = "none") => ~healthy \/ ~cleared
  /\ summaries <= restarts + 1
=============================================================================
