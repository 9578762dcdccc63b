----------------------------- MODULE LedgerRows -----------------------------
(***************************************************************************)
(* The rows of paper_ledger as values, and what the portfolio queries of   *)
(* engine/order_desk.py read from them.  Shared by the abstract book and   *)
(* by the transactional desks.                                             *)
(***************************************************************************)
EXTENDS RiskGate

CONSTANTS
  Approved,              \* signals RiskDesk approves and whose instrument has
                         \* a risk metadata profile
  Legacy,                \* rows already OPEN when the program first starts
  Pnl,                   \* the net results an exit can realise
  MaxDay                 \* bound on the number of IST midnights

\* A ledger written before the instrument locks existed holds at most one
\* OPEN row per instrument (_init_db refuses to start otherwise).
ASSUME BookAssumption ==
  /\ Approved \subseteq Signals
  /\ Legacy \subseteq Signals
  /\ \A s, t \in Legacy : InstrumentOf[s] = InstrumentOf[t] => s = t
  /\ Pnl \subseteq Int
  /\ MaxDay \in Nat

\* paper_ledger.status; "NONE" stands for the absent row.
RowStatus == {"NONE", "OPEN", "REJECTED", "CLOSED"}

\* IST calendar days since the program first started.
Days == 0..MaxDay

FirstStatus == [s \in Signals |-> IF s \in Legacy THEN "OPEN" ELSE "NONE"]

\* _portfolio_state: the OPEN rows, and SUM(net_pnl) of the CLOSED rows whose
\* exit_timestamp falls on a day.
OpenIn(st) == {s \in Signals : st[s] = "OPEN"}
RealisedOn(day, st, pnl, on) ==
  MapThenSumSet(LAMBDA s : pnl[s],
                {s \in Signals : st[s] = "CLOSED" /\ on[s] = day})

InstrumentFree(s, st) == \A t \in OpenIn(st) : InstrumentOf[t] # InstrumentOf[s]
=============================================================================
