---------------------------- MODULE PaperRuntime ----------------------------
(***************************************************************************)
(* runtime/paper_runtime.py, the script that runs it, and runtime/ledger.py.*)
(* Several processes may be launched (a service, cron, somebody's --once); *)
(* a lock file lets one of them run cycles.  A cycle exits what is due,    *)
(* scans the market, reads the capital once and walks its candidates,      *)
(* reserving cash and risk in memory.                                      *)
(*                                                                         *)
(* SQLite makes a transaction atomic, but the ledger SELECTs before the    *)
(* transaction begins: what was read and what is then written are two      *)
(* steps here.  The labelling of matured traces at the end of a cycle      *)
(* touches other databases only: OutcomeLearning.                          *)
(***************************************************************************)
EXTENDS PaperAccount

CONSTANTS
  Processes,
  Nobody,
  Slots,                 \* bound: observable moments of a day, 0..Slots - 1
  MarketOpen,            \* first slot from 09:15 on
  EntryCutoff,           \* first slot from 15:05 on
  MandatoryExit,         \* first slot from 15:10 on
  ExchangeClose,         \* first slot of a closed exchange status
  Horizon,               \* BASELINE_HORIZON_MINUTES in slots
  CycleSlots             \* bound: the slots a cycle can take

\* A cycle is shorter than the horizon of a position and than the night.
ASSUME RuntimeAssumption ==
  /\ Nobody \notin Processes
  /\ \A n \in {Slots, MarketOpen, EntryCutoff, MandatoryExit, ExchangeClose,
               Horizon, CycleSlots} : n \in Nat
  /\ MarketOpen < EntryCutoff /\ EntryCutoff < MandatoryExit
  /\ MandatoryExit < ExchangeClose
  /\ CycleSlots < Horizon
  /\ ExchangeClose + CycleSlots <= Slots

VARIABLES
  slot,
  openedAt,              \* [Fills -> Nat], opened_at, see Now
  lockHolder,            \* who holds logs/paper_runtime.lock
  pc,                    \* [Processes -> Phases]
  cycleNow,              \* [Processes -> Nat], the "now" a cycle works with
  todo,                  \* positions a cycle read and has not looked at yet
  failed,                \* history: due positions this cycle could not exit
  hand,                  \* the fill between a SELECT and what follows from it
  candidates,            \* symbols the cycle still has to decide on
  capital                \* the CapitalState of the cycle

Phases ==
  {"down", "idle", "exits", "closing", "scan", "rank", "entries", "opening", "reserving"}
cycle == <<cycleNow, todo, failed, hand, candidates, capital>>
vars == <<accountVars, slot, openedAt, lockHolder, pc, cycle>>

Now == today * Slots + slot
SlotOf(t) == t % Slots
NoCapital == [equity |-> 0, cash |-> 0, risk |-> 0, daily |-> 0]

RuntimeInit ==
  /\ Init
  /\ slot = 0
  /\ openedAt = [f \in Fills |-> 0]
  /\ lockHolder = Nobody
  /\ pc = [p \in Processes |-> "down"]
  /\ cycleNow = [p \in Processes |-> 0]
  /\ todo = [p \in Processes |-> {}]
  /\ failed = [p \in Processes |-> {}]
  /\ hand = [p \in Processes |-> Nobody]
  /\ candidates = [p \in Processes |-> {}]
  /\ capital = [p \in Processes |-> NoCapital]

Goto(p, phase) == pc' = [pc EXCEPT ![p] = phase]

\* Everything a cycle knows is local to it.
ForgetCycle(p) ==
  /\ cycleNow' = [cycleNow EXCEPT ![p] = 0]
  /\ todo' = [todo EXCEPT ![p] = {}]
  /\ failed' = [failed EXCEPT ![p] = {}]
  /\ hand' = [hand EXCEPT ![p] = Nobody]
  /\ candidates' = [candidates EXCEPT ![p] = {}]
  /\ capital' = [capital EXCEPT ![p] = NoCapital]
-----------------------------------------------------------------------------
\* Mutant: no lock file.
LockAlwaysFree == TRUE

LockFree == lockHolder = Nobody

\* main: take the lock or leave with ANOTHER_INSTANCE_RUNNING.
Launch(p) ==
  /\ pc[p] = "down"
  /\ LockFree
  /\ lockHolder' = p
  /\ Goto(p, "idle")
  /\ UNCHANGED <<accountVars, slot, openedAt, cycle>>

\* The kernel drops the lock of a process that dies; nothing else is kept.
Crash(p) ==
  /\ pc[p] # "down"
  /\ lockHolder' = IF lockHolder = p THEN Nobody ELSE lockHolder
  /\ Goto(p, "down")
  /\ ForgetCycle(p)
  /\ UNCHANGED <<accountVars, slot, openedAt>>

\* run_cycle, the official session and the open positions with their quotes.
\* Outside the session, or without quotes, the cycle raises and does nothing.
BeginCycle(p) ==
  /\ pc[p] = "idle"
  /\ slot < ExchangeClose
  /\ Goto(p, "exits")
  /\ cycleNow' = [cycleNow EXCEPT ![p] = Now]
  /\ todo' = [todo EXCEPT ![p] = OpenPositions]
  /\ failed' = [failed EXCEPT ![p] = {}]
  /\ UNCHANGED <<accountVars, slot, openedAt, lockHolder, hand, candidates, capital>>

\* An exception outside the try blocks ends the cycle; the loop goes on.
CycleRaises(p) ==
  /\ pc[p] \in {"exits", "scan", "rank", "entries"}
  /\ Goto(p, "idle")
  /\ ForgetCycle(p)
  /\ UNCHANGED <<accountVars, slot, openedAt, lockHolder>>
-----------------------------------------------------------------------------
\* Mutant: the mandatory exit is left to the horizon.
TimeExitWithoutMandatory(p, f) == cycleNow[p] >= openedAt[f] + Horizon

\* _exit_reason, the part of it that does not depend on a price.
TimeExit(p, f) ==
  \/ SlotOf(cycleNow[p]) >= MandatoryExit
  \/ cycleNow[p] >= openedAt[f] + Horizon

\* No reason to exit: not by time, and no range stop.
KeepPosition(p, f) ==
  /\ pc[p] = "exits" /\ f \in todo[p]
  /\ ~TimeExit(p, f)
  /\ todo' = [todo EXCEPT ![p] = @ \ {f}]
  /\ UNCHANGED <<accountVars, slot, openedAt, lockHolder, pc, cycleNow, failed,
                 hand, candidates, capital>>

\* By time or by its stop the position is due: close_fill reads its row.
StartClose(p, f) ==
  /\ pc[p] = "exits" /\ f \in todo[p]
  /\ position[f] = "OPEN"
  /\ Goto(p, "closing")
  /\ hand' = [hand EXCEPT ![p] = f]
  /\ UNCHANGED <<accountVars, slot, openedAt, lockHolder, cycleNow, todo, failed,
                 candidates, capital>>

\* The transaction of close_fill: the row and its trade.
CommitClose(p, result) ==
  LET f == hand[p]
      day == cycleNow[p] \div Slots
  IN  /\ pc[p] = "closing"
      /\ position' = [position EXCEPT ![f] = "CLOSED"]
      /\ trades' = [trades EXCEPT ![f] = @ + 1]
      /\ net' = [net EXCEPT ![f] = result]
      /\ closedOn' = [closedOn EXCEPT ![f] = day]
      /\ Goto(p, "exits")
      /\ todo' = [todo EXCEPT ![p] = @ \ {f}]
      /\ hand' = [hand EXCEPT ![p] = Nobody]
      /\ UNCHANGED <<today, slot, openedAt, lockHolder, cycleNow, failed,
                     candidates, capital>>

\* Mutant: a position that fails stays on the list.
ExitFailsAgain(p, f) ==
  /\ \/ pc[p] = "exits" /\ f \in todo[p]
     \/ pc[p] = "closing" /\ f = hand[p]
  /\ Goto(p, "exits")
  /\ hand' = [hand EXCEPT ![p] = Nobody]
  /\ failed' = [failed EXCEPT ![p] = @ \cup {f}]
  /\ UNCHANGED <<accountVars, slot, openedAt, lockHolder, cycleNow, todo,
                 candidates, capital>>

\* A stale quote, a row that is no longer open or a failing transaction: the
\* position is skipped and the others are still looked at.
ExitFails(p, f) ==
  /\ \/ pc[p] = "exits" /\ f \in todo[p]
     \/ pc[p] = "closing" /\ f = hand[p]
  /\ Goto(p, "exits")
  /\ hand' = [hand EXCEPT ![p] = Nobody]
  /\ failed' = [failed EXCEPT ![p] = @ \cup {f}]
  /\ todo' = [todo EXCEPT ![p] = @ \ {f}]
  /\ UNCHANGED <<accountVars, slot, openedAt, lockHolder, cycleNow,
                 candidates, capital>>
-----------------------------------------------------------------------------
\* Mutant: entries until the cut-off, whatever their horizon.
EntryWindowWithoutHorizon(t) ==
  SlotOf(t) >= MarketOpen /\ SlotOf(t) < EntryCutoff

\* SessionState.MARKET, and the horizon ends before the mandatory exit.
EntryWindow(t) ==
  /\ SlotOf(t) >= MarketOpen /\ SlotOf(t) < EntryCutoff
  /\ SlotOf(t) + Horizon <= MandatoryExit

EndExits(p) ==
  /\ pc[p] = "exits" /\ todo[p] = {}
  /\ IF EntryWindow(cycleNow[p])
     THEN /\ Goto(p, "scan")
          /\ failed' = [failed EXCEPT ![p] = {}]
          /\ UNCHANGED <<cycleNow, todo, hand, candidates, capital>>
     ELSE Goto(p, "idle") /\ ForgetCycle(p)
  /\ UNCHANGED <<accountVars, slot, openedAt, lockHolder>>

\* The deep scan leaves out symbols with an open position.
Scan(p) ==
  /\ pc[p] = "scan"
  /\ Goto(p, "rank")
  /\ candidates' = [candidates EXCEPT ![p] = {s \in Symbols : ~SymbolIsOpen(s)}]
  /\ UNCHANGED <<accountVars, slot, openedAt, lockHolder, cycleNow, todo, failed,
                 hand, capital>>

\* _capital_state and _allocator, which refuses to work without equity.
ReadCapital(p) ==
  /\ pc[p] = "rank"
  /\ Equity > 0
  /\ Goto(p, "entries")
  /\ capital' = [capital EXCEPT ![p] = CapitalOn(cycleNow[p] \div Slots)]
  /\ UNCHANGED <<accountVars, slot, openedAt, lockHolder, cycleNow, todo, failed,
                 hand, candidates>>

\* Not qualified, vetoed, not allocated, not sized, a stale quote, a failing
\* recheck or any other exception before the position is written.
RejectCandidate(p, s) ==
  /\ \/ pc[p] = "entries" /\ s \in candidates[p]
     \/ pc[p] = "opening" /\ s = SymbolOf[hand[p]]
  /\ Goto(p, "entries")
  /\ hand' = [hand EXCEPT ![p] = Nobody]
  /\ candidates' = [candidates EXCEPT ![p] = @ \ {s}]
  /\ UNCHANGED <<accountVars, slot, openedAt, lockHolder, cycleNow, todo, failed,
                 capital>>

\* Mutant: the broker's fill is not compared with the cash.
ApprovedAtQuote(f, view) == Allocates(f, view)

\* Sized at the fresh quote, and covered at the price of the fill.
Approved(f, view) == Allocates(f, view) /\ Affordable(f, view)

\* The candidate passes every check; open_fill counts the symbol's positions.
StartOpen(p, f) ==
  /\ pc[p] = "entries" /\ SymbolOf[f] \in candidates[p]
  /\ position[f] = "NONE"
  /\ Approved(f, capital[p])
  /\ ~SymbolIsOpen(SymbolOf[f])
  /\ Goto(p, "opening")
  /\ hand' = [hand EXCEPT ![p] = f]
  /\ UNCHANGED <<accountVars, slot, openedAt, lockHolder, cycleNow, todo, failed,
                 candidates, capital>>

\* Mutant: the cash is not reserved.
ReservesRiskOnly(view, f) == [view EXCEPT !.risk = @ + Risk[f]]

\* The CapitalState that CapitalState.reserve returns.
Reserve(view, f) == [view EXCEPT !.cash = @ - Paid[f], !.risk = @ + Risk[f]]

\* The INSERT of open_fill.
CommitOpen(p) ==
  LET f == hand[p]
  IN  /\ pc[p] = "opening"
      /\ position[f] = "NONE"
      /\ position' = [position EXCEPT ![f] = "OPEN"]
      /\ openedAt' = [openedAt EXCEPT ![f] = Now]
      /\ Goto(p, "reserving")
      /\ UNCHANGED <<trades, net, closedOn, today, slot, lockHolder, cycle>>

\* capital = capital.reserve(...), which raises for a fill that is not covered:
\* then the row is there, the handler goes on with the next candidate and the
\* capital is as it was.
ReserveFill(p) ==
  LET f == hand[p]
  IN  /\ pc[p] = "reserving"
      /\ capital' = IF Affordable(f, capital[p])
                    THEN [capital EXCEPT ![p] = Reserve(@, f)]
                    ELSE capital
      /\ Goto(p, "entries")
      /\ candidates' = [candidates EXCEPT ![p] = @ \ {SymbolOf[f]}]
      /\ hand' = [hand EXCEPT ![p] = Nobody]
      /\ UNCHANGED <<accountVars, slot, openedAt, lockHolder, cycleNow, todo, failed>>

EndCycle(p) ==
  /\ pc[p] = "entries" /\ candidates[p] = {}
  /\ Goto(p, "idle")
  /\ ForgetCycle(p)
  /\ UNCHANGED <<accountVars, slot, openedAt, lockHolder>>
-----------------------------------------------------------------------------
Busy(p) == pc[p] \notin {"down", "idle"}

Tick ==
  /\ \A p \in Processes : Busy(p) => Now < cycleNow[p] + CycleSlots
  /\ IF slot < Slots - 1
     THEN slot' = slot + 1 /\ UNCHANGED accountVars
     ELSE slot' = 0 /\ NextDay
  /\ UNCHANGED <<openedAt, lockHolder, pc, cycle>>

Step(p) ==
  \/ \E f \in Fills : KeepPosition(p, f) \/ StartClose(p, f) \/ ExitFails(p, f)
  \/ \E result \in Results : CommitClose(p, result)
  \/ EndExits(p) \/ Scan(p) \/ ReadCapital(p)
  \/ \E s \in Symbols : RejectCandidate(p, s)
  \/ \E f \in Fills : StartOpen(p, f)
  \/ CommitOpen(p) \/ ReserveFill(p)
  \/ EndCycle(p) \/ CycleRaises(p)

RuntimeNext ==
  \/ \E p \in Processes : Launch(p) \/ Crash(p) \/ BeginCycle(p) \/ Step(p)
  \/ Tick

RuntimeSpec == RuntimeInit /\ [][RuntimeNext]_vars

\* A cycle that runs goes on running; nobody has to launch or begin one.
Fairness == \A p \in Processes : WF_vars(Step(p))
FairSpec == RuntimeSpec /\ Fairness
-----------------------------------------------------------------------------
\* Every variable keeps its type; a fill in hand belongs to an open step.
TypeOK ==
  /\ position \in [Fills -> PositionStatus]
  /\ trades \in [Fills -> Nat]
  /\ net \in [Fills -> Int]
  /\ closedOn \in [Fills -> Days]
  /\ today \in Days
  /\ slot \in 0..(Slots - 1)
  /\ openedAt \in [Fills -> Nat]
  /\ lockHolder \in Processes \cup {Nobody}
  /\ pc \in [Processes -> Phases]
  /\ cycleNow \in [Processes -> Nat]
  /\ todo \in [Processes -> SUBSET Fills]
  /\ failed \in [Processes -> SUBSET Fills]
  /\ hand \in [Processes -> Fills \cup {Nobody}]
  /\ \A p \in Processes : pc[p] \in {"closing", "opening", "reserving"} <=> hand[p] # Nobody
  /\ candidates \in [Processes -> SUBSET Symbols]
  /\ capital \in [Processes -> [equity : Int, cash : Int, risk : Int, daily : Int]]

\* The CapitalState a cycle carries in memory from its first candidate to its
\* last is what the ledger would answer now, except between the INSERT of a fill
\* and its reservation (paper_runtime.py:298, 401, 415).
CapitalViewIsCurrent ==
  \A p \in Processes :
    pc[p] \in {"entries", "opening"} => capital[p] = CapitalOn(today)

\* No position is opened from 15:10 on, although a cycle decides on the time
\* it began at (paper_runtime.py:133, 145, 374).
NoLateEntry ==
  \A f \in Fills : SlotOf(openedAt[f]) < MandatoryExit

\* A sweep that gets through from 15:10 on leaves only those positions open
\* whose own exit it tried and could not do: a failure within the try block of
\* one exit does not shield the others (paper_runtime.py:630-661).  What raises
\* outside of it, as the conversion of a quote at line 632 may, aborts the sweep
\* with the cycle: CycleRaises.
SweepLeavesOnlyFailures ==
  \A p \in Processes :
    pc[p] = "exits" /\ todo[p] = {} /\ SlotOf(cycleNow[p]) >= MandatoryExit =>
      OpenPositions \subseteq failed[p]

\* Processes and their cycles implement the account, in which every opening
\* and closing is one step.
AccountSpec == Spec

\* A cycle comes to an end, whatever fails in it.
CycleEnds == \A p \in Processes : Busy(p) ~> ~Busy(p)
=============================================================================
