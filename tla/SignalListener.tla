--------------------------- MODULE SignalListener ---------------------------
(***************************************************************************)
(* engine/signal_listener.py: the production loop.  One message from the   *)
(* signal publisher drives one iteration: remember the price it carries,   *)
(* exit every position that is due, then record the signal if entries are  *)
(* still allowed.  Nothing happens between messages.                       *)
(*                                                                         *)
(* The order desk is the atomic book here: OrderDesk shows that its        *)
(* transactions implement that book.  The publisher is external: a message *)
(* may come late, again, or never.                                         *)
(***************************************************************************)
EXTENDS LedgerRows

CONSTANTS
  Direction,             \* [Signals -> {"LONG", "SHORT"}]
  Entry,                 \* [Signals -> Nat], entry_trigger; 0 is none
  StopLoss,              \* [Signals -> Nat]
  Target,                \* [Signals -> Nat]
  Quantity,              \* [Signals -> Nat]
  Friction,              \* [Signals -> Nat], round-trip charges of the signal
  ValidUntil,            \* [Signals -> Nat], see Now
  Slots,                 \* bound: observable moments of a day, 0..Slots - 1
  EntryEnd,              \* the first slot after 14:45 IST
  SquareOff,             \* the first slot from 15:15 IST on
  NoSignal

\* RiskDesk approves only a signal whose levels surround its entry.
ASSUME ListenerAssumption ==
  /\ NoSignal \notin Signals
  /\ Direction \in [Signals -> {"LONG", "SHORT"}]
  /\ Entry \in [Signals -> Nat]
  /\ StopLoss \in [Signals -> Nat]
  /\ Target \in [Signals -> Nat]
  /\ Quantity \in [Signals -> Nat]
  /\ Friction \in [Signals -> Nat]
  /\ ValidUntil \in [Signals -> Nat]
  /\ SquareOff \in Nat /\ Slots \in Nat
  /\ EntryEnd \in 1..SquareOff /\ SquareOff < Slots
  /\ \A s \in Approved \cup Legacy :
       IF Direction[s] = "LONG"
       THEN StopLoss[s] < Entry[s] /\ Entry[s] < Target[s]
       ELSE Target[s] < Entry[s] /\ Entry[s] < StopLoss[s]

VARIABLES
  status, net, closedOn, today,   \* the paper ledger, see PaperBook
  slot,                           \* the time of the day
  pc,                             \* "down", "idle" in recv, "scan" in an iteration
  msg,                            \* the signal being handled
  latestPrices,                   \* [Instruments -> Nat], 0 is no price
  active,                         \* keys of active_positions
  zeroed,                         \* those a replay has given quantity 0
  due,                            \* positions this iteration still has to exit
  openedOn,                       \* history: the day of each admission
  interrupted,                    \* history: the last scan did not finish
  swept                           \* history: a scan finished after square-off

book == <<status, net, closedOn>>
memory == <<latestPrices, active, zeroed>>
history == <<openedOn, interrupted, swept>>
vars == <<book, today, slot, pc, msg, memory, due, history>>

Book == INSTANCE PaperBook

Now == today * Slots + slot

Init ==
  /\ Book!Init
  /\ slot = 0
  /\ pc = "down"
  /\ msg = NoSignal
  /\ latestPrices = [i \in Instruments |-> 0]
  /\ active = {} /\ zeroed = {} /\ due = {}
  /\ openedOn = [s \in Signals |-> 0]
  /\ interrupted = FALSE /\ swept = FALSE
-----------------------------------------------------------------------------
\* evaluate_open_positions: why a position leaves the book at a price.
LevelHit(p, price) ==
  IF Direction[p] = "LONG"
  THEN price >= Target[p] \/ price <= StopLoss[p]
  ELSE price <= Target[p] \/ price >= StopLoss[p]

DueAt(p, prices) ==
  LET price == prices[InstrumentOf[p]]
  IN  price > 0 /\ (slot >= SquareOff \/ LevelHit(p, price))

\* net_pnl of an exit.
NetResult(p, price) ==
  (IF Direction[p] = "LONG" THEN price - Entry[p] ELSE Entry[p] - price) * Quantity[p]
    - Friction[p]

\* latest_prices after a message.
PricesAfter(s) ==
  IF Entry[s] > 0
  THEN [latestPrices EXCEPT ![InstrumentOf[s]] = Entry[s]]
  ELSE latestPrices
-----------------------------------------------------------------------------
\* systemd starts the process: PaperOrderDesk hydrates, no price is known.
Start ==
  /\ pc = "down"
  /\ pc' = "idle"
  /\ active' = OpenIn(status)
  /\ UNCHANGED <<book, today, slot, msg, latestPrices, zeroed, due, history>>

\* Mutant: exits are evaluated before the price of the message is known.
ReceiveEvaluateFirst(s) ==
  /\ pc = "idle"
  /\ pc' = "scan"
  /\ msg' = s
  /\ latestPrices' = PricesAfter(s)
  /\ due' = {p \in active : DueAt(p, latestPrices)}
  /\ UNCHANGED <<book, today, slot, active, zeroed, history>>

\* recv_multipart returns: the price is remembered and the positions that are
\* due are known (prices do not change during an iteration).
Receive(s) ==
  /\ pc = "idle"
  /\ pc' = "scan"
  /\ msg' = s
  /\ latestPrices' = PricesAfter(s)
  /\ due' = {p \in active : DueAt(p, latestPrices')}
  /\ UNCHANGED <<book, today, slot, active, zeroed, history>>

\* One exit of the evaluation loop.
Exit(p) ==
  /\ pc = "scan"
  /\ p \in due \ zeroed
  /\ Book!Close(p, NetResult(p, latestPrices[InstrumentOf[p]]))
  /\ active' = active \ {p}
  /\ due' = due \ {p}
  /\ UNCHANGED <<slot, pc, msg, latestPrices, zeroed, history>>

\* The exit raises (a quantity of zero, or the database): the except clause of
\* the loop drops the message with everything left to do for it.
ExitRaises(p) ==
  /\ pc = "scan"
  /\ p \in due
  /\ pc' = "idle"
  /\ msg' = NoSignal
  /\ due' = {}
  /\ interrupted' = TRUE
  /\ UNCHANGED <<book, today, slot, memory, openedOn, swept>>

\* The scan is complete and the iteration ends.
ScanComplete ==
  /\ pc = "scan" /\ due = {}
  /\ pc' = "idle"
  /\ msg' = NoSignal
  /\ interrupted' = FALSE
  /\ swept' = (slot >= SquareOff \/ swept)
  /\ UNCHANGED <<today, slot, latestPrices, due>>

\* Mutant: no last entry time.
EntryNeverEnds == Now <= ValidUntil[msg]

EntryAllowed == slot < EntryEnd /\ Now <= ValidUntil[msg]

\* After 14:45, or an expired setup: continue.
EntryBlocked ==
  /\ ScanComplete
  /\ ~EntryAllowed
  /\ UNCHANGED <<book, active, zeroed, openedOn>>

RecordOpens ==
  /\ ScanComplete
  /\ EntryAllowed
  /\ Book!Admit(msg)
  /\ active' = active \cup {msg}
  /\ openedOn' = [openedOn EXCEPT ![msg] = today]
  /\ UNCHANGED zeroed

RecordRejects ==
  /\ ScanComplete
  /\ EntryAllowed
  /\ Book!Reject(msg)
  /\ UNCHANGED <<active, zeroed, openedOn>>

\* A replayed signal; if it is OPEN its position loses its quantity.
RecordReplays ==
  /\ ScanComplete
  /\ EntryAllowed
  /\ status[msg] # "NONE"
  /\ IF status[msg] = "OPEN" /\ msg \in Approved
     THEN active' = active \cup {msg} /\ zeroed' = zeroed \cup {msg}
     ELSE UNCHANGED <<active, zeroed>>
  /\ UNCHANGED <<book, openedOn>>

\* DUPLICATE_DB_LOCKED, or record_signal raises: the signal leaves no row.
RecordLeavesNothing ==
  /\ ScanComplete
  /\ EntryAllowed
  /\ UNCHANGED <<book, active, zeroed, openedOn>>
-----------------------------------------------------------------------------
Crash ==
  /\ pc # "down"
  /\ pc' = "down"
  /\ msg' = NoSignal
  /\ latestPrices' = [i \in Instruments |-> 0]
  /\ active' = {} /\ zeroed' = {} /\ due' = {}
  /\ interrupted' = FALSE /\ swept' = FALSE
  /\ UNCHANGED <<book, today, slot, openedOn>>

\* Time passes between iterations; an iteration takes far less than a slot.
Tick ==
  /\ pc \in {"idle", "down"}
  /\ IF slot < Slots - 1
     THEN slot' = slot + 1 /\ UNCHANGED <<book, today, swept>>
     ELSE slot' = 0 /\ Book!NextDay /\ swept' = FALSE
  /\ UNCHANGED <<pc, msg, memory, due, openedOn, interrupted>>

Next ==
  \/ Start
  \/ \E s \in Signals : Receive(s)
  \/ \E p \in due : Exit(p) \/ ExitRaises(p)
  \/ EntryBlocked \/ RecordOpens \/ RecordRejects \/ RecordReplays
  \/ RecordLeavesNothing
  \/ Crash
  \/ Tick

Spec == Init /\ [][Next]_vars
-----------------------------------------------------------------------------
\* Every variable keeps its type, and the memory only knows ledger rows.
TypeOK ==
  /\ status \in [Signals -> RowStatus]
  /\ net \in [Signals -> Int]
  /\ closedOn \in [Signals -> Days]
  /\ today \in Days
  /\ slot \in 0..(Slots - 1)
  /\ pc \in {"down", "idle", "scan"}
  /\ msg \in Signals \cup {NoSignal}
  /\ latestPrices \in [Instruments -> Nat]
  /\ active \in SUBSET Signals /\ zeroed \in SUBSET active /\ due \in SUBSET active
  /\ openedOn \in [Signals -> Days]
  /\ interrupted \in BOOLEAN /\ swept \in BOOLEAN

\* Between messages no open position sits beyond its stop or target at the last
\* price the listener has seen, unless the last scan was cut short.
NoBreachedPosition ==
  pc = "idle" /\ ~interrupted =>
    \A p \in OpenIn(status) :
      LET price == latestPrices[InstrumentOf[p]]
      IN  price > 0 => ~LevelHit(p, price)

\* Once a scan has finished after 15:15 the book stays flat for the rest of the
\* day, but for positions whose price this process has never seen (or sees in a
\* scan that is cut short): no exit is forgotten and no entry follows.
SweptMeansFlat ==
  pc = "idle" /\ swept /\ ~interrupted =>
    \A p \in OpenIn(status) : latestPrices[InstrumentOf[p]] = 0

\* ARCHITECTURE.md:32 "mandatory exit at 15:15 IST": nothing is open on a day
\* after the one it was admitted on.
MandatoryExit ==
  \A p \in OpenIn(status) \ Legacy : openedOn[p] = today
=============================================================================
