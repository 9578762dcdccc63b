------------------------------ MODULE PaperBook ------------------------------
(***************************************************************************)
(* What the paper order desk promises, whatever the number of desks and    *)
(* however their transactions interleave, retry, fail or crash: the ledger *)
(* changes as if every admission and every exit were one atomic step,      *)
(* decided on the ledger as it is at that very moment.                     *)
(***************************************************************************)
EXTENDS LedgerRows

VARIABLES
  status,                \* [Signals -> RowStatus], "NONE" is no row
  net,                   \* [Signals -> Int], net_pnl of a CLOSED row
  closedOn,              \* [Signals -> Days], IST day of exit_timestamp
  today                  \* the current IST day

bookVars == <<status, net, closedOn, today>>

Init ==
  /\ status = FirstStatus
  /\ net = [s \in Signals |-> 0]
  /\ closedOn = [s \in Signals |-> 0]
  /\ today = 0

\* An approved signal is admitted if its instrument is free and the gate
\* accepts it against the book and the day's realised result.
Admit(s) ==
  /\ status[s] = "NONE"
  /\ s \in Approved
  /\ InstrumentFree(s, status)
  /\ Admissible(s, OpenIn(status), RealisedOn(today, status, net, closedOn))
  /\ status' = [status EXCEPT ![s] = "OPEN"]
  /\ UNCHANGED <<net, closedOn, today>>

\* A new signal is recorded as REJECTED: the desk did not approve it, or its
\* instrument is free and the gate refuses it.  (When the instrument is taken
\* the signal leaves no row at all.)
Reject(s) ==
  /\ status[s] = "NONE"
  /\ \/ s \notin Approved
     \/ /\ InstrumentFree(s, status)
        /\ ~Admissible(s, OpenIn(status), RealisedOn(today, status, net, closedOn))
  /\ status' = [status EXCEPT ![s] = "REJECTED"]
  /\ UNCHANGED <<net, closedOn, today>>

\* An OPEN row is closed once, with its result.
Close(s, pnl) ==
  /\ status[s] = "OPEN"
  /\ status' = [status EXCEPT ![s] = "CLOSED"]
  /\ net' = [net EXCEPT ![s] = pnl]
  /\ closedOn' = [closedOn EXCEPT ![s] = today]
  /\ UNCHANGED today

NextDay ==
  /\ today < MaxDay
  /\ today' = today + 1
  /\ UNCHANGED <<status, net, closedOn>>

Next ==
  \/ \E s \in Signals : Admit(s) \/ Reject(s) \/ \E pnl \in Pnl : Close(s, pnl)
  \/ NextDay

Spec == Init /\ [][Next]_bookVars
-----------------------------------------------------------------------------
\* The positions open together stay inside every portfolio and sector limit,
\* although the gate only ever looks at the newcomer (risk_gate.py:75-113).
BookWithinLimits == ExposureWithinLimits(OpenIn(status))

\* Whatever the order of admissions and exits, no group of open positions is
\* densely correlated: with the default limit of 2 no three positions are
\* pairwise correlated.
NoCorrelatedCycle == NoDenselyCorrelatedGroup(OpenIn(status))

\* The daily stop bounds a day's realised loss although it looks at closed rows
\* only: what is still open when it engages can add at most its own losses.
WorstLoss == -Min(Pnl \cup {0})
DailyLossIsBounded ==
  \A day \in Days :
    RealisedOn(day, status, net, closedOn)
      > -HardDailyLoss - MaxOpenPositions * WorstLoss
=============================================================================
