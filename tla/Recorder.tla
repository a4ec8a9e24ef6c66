------------------------------- MODULE Recorder -------------------------------
(***************************************************************************)
(* One trading day of the order and trade tables that                      *)
(* src/lives/snapshot_recorder.py fills.                                   *)
(*                                                                         *)
(* Order events are written as the loop delivers them, from the cache's    *)
(* view of the order.  After the close the broker's lists are written over *)
(* the rows: by the timer on the clock's thread, where each fetch blocks   *)
(* and the loop goes on in between, or by the catch-up of a start on the   *)
(* loop, where the fetches come back as callbacks.  The same phase takes   *)
(* the ticks of the universe, and of the stocks held in the morning, first.*)
(* Its asset and position rows and its export of the whole market are the  *)
(* subject of Snapshots and TickExport.                                    *)
(***************************************************************************)
EXTENDS Naturals, Sequences

CONSTANTS
    Orders,    \* the day's orders
    Starts     \* how often the process may be started again (bound)

VARIABLES
    clock,     \* "session", "close" (15:00), "after" (15:03)
    starts,
    up,
    truth,     \* the broker's view of each order: 0 unsent, 1 working, 2 filled
    known,     \* the cache's view
    lineage,   \* orders whose signal date the strategy remembers
    row,       \* live_order: the order's state (0: no row), whether it has a signal date
    trade,     \* orders with a live_trade row
    due,       \* the after-trading timer will fire
    todo,      \* what is left of the phase on the clock's thread
    got,       \* the list it has fetched
    pending,   \* fetches a catch-up left to the loop
    told,      \* what each task of the last after-trading phase came to
    left,      \* rows the last write of a list skipped (history, for the property)
    missed     \* an event's write failed (history, for the property)

book  == <<truth, known, lineage>>
table == <<row, trade>>
clockThread == <<todo, got>>
vars == <<clock, starts, up, book, table, due, clockThread, pending, told, left, missed>>

Lists  == {"ticks", "orders", "trades"}
Writes == {"ok", "failed"}       \* the statement was committed, or rolled back
Untold == [t \in Lists |-> "none"]
NoneLeft == [orders |-> {}, trades |-> {}]

OrderRow(st, signal) == [st |-> st, signal |-> signal]   \* of the columns, these

Init ==
    /\ clock = "session" /\ starts = 0 /\ up = TRUE
    /\ truth = [o \in Orders |-> 0] /\ known = truth /\ lineage = {}
    /\ row = [o \in Orders |-> OrderRow(0, FALSE)] /\ trade = {}
    /\ due = FALSE /\ todo = <<>> /\ got = truth /\ pending = {}
    /\ told = Untold /\ left = NoneLeft /\ missed = FALSE

-----------------------------------------------------------------------------
(* The market and the events of the cache *)

Tick ==
    /\ \/ clock = "session" /\ clock' = "close" /\ UNCHANGED due
       \/ clock = "close" /\ clock' = "after" /\ due' = up
    /\ UNCHANGED <<starts, up, book, table, clockThread, pending, told, left, missed>>

Send(o) ==
    /\ up /\ clock = "session" /\ truth[o] = 0
    /\ truth' = [truth EXCEPT ![o] = 1]
    /\ lineage' = lineage \cup {o}
    /\ UNCHANGED <<clock, starts, up, known, table, due, clockThread, pending, told, left, missed>>

Trade(o) ==
    /\ clock = "session" /\ truth[o] = 1
    /\ truth' = [truth EXCEPT ![o] = 2]
    /\ UNCHANGED <<clock, starts, up, known, lineage, table, due, clockThread, pending, told, left,
                   missed>>

\* ON DUPLICATE KEY UPDATE, the signal date coalesced
Upsert(o, st, signal) == OrderRow(st, signal \/ row[o].signal)

\* _on_order_event: the order's row and the trade are written, and fail, separately.
OrderEvent(o, w, x) ==
    LET seen == known[o] + 1
    IN  /\ up /\ known[o] < truth[o]
        /\ seen < 2 => x = "ok"
        /\ known' = [known EXCEPT ![o] = seen]
        /\ row' = IF w = "ok" THEN [row EXCEPT ![o] = Upsert(o, seen, o \in lineage)] ELSE row
        /\ trade' = IF seen = 2 /\ x = "ok" THEN trade \cup {o} ELSE trade
        /\ missed' = (missed \/ "failed" \in {w, x})
        /\ UNCHANGED <<clock, starts, up, truth, lineage, due, clockThread, pending, told, left>>

-----------------------------------------------------------------------------
(* The backfill *)

\* skipped: rows that name no order (no client_order_id, no traded_id), or every row when
\* the answer is not a list.  They are not tried and do not count as failures; a row that
\* fails does not stop the rest.
Status(failed, skipped) == IF failed \subseteq skipped THEN "success" ELSE "partial_failure"

\* mutant of Backfilled: rows there are left alone
BackfilledMissing(view, stored, untouched) ==
    [o \in Orders |->
        IF view[o] = 0 \/ o \in untouched \/ row[o].st # 0 THEN row[o]
        ELSE Upsert(o, view[o], o \in lineage \/ stored)]

\* stored: the signal date of the stock can be read from the target table
Backfilled(view, stored, untouched) ==
    [o \in Orders |->
        IF view[o] = 0 \/ o \in untouched THEN row[o]
        ELSE Upsert(o, view[o], o \in lineage \/ stored)]

TicksWritten(failed) ==
    told' = [told EXCEPT !["ticks"] = IF failed = {} THEN "success" ELSE "failed"]

OrdersWritten(view, failed, skipped) ==
    /\ \E stored \in BOOLEAN : row' = Backfilled(view, stored, failed \cup skipped)
    /\ told' = [told EXCEPT !["orders"] = Status(failed, skipped)]
    /\ left' = [left EXCEPT !.orders = skipped]

TradesWritten(view, failed, skipped) ==
    /\ trade' = trade \cup ({o \in Orders : view[o] = 2} \ (failed \cup skipped))
    /\ told' = [told EXCEPT !["trades"] = Status(failed, skipped)]
    /\ left' = [left EXCEPT !.trades = skipped]

Written(list, view, failed, skipped) ==
    CASE list = "ticks"  -> TicksWritten(failed) /\ UNCHANGED <<table, left>>
      [] list = "orders" -> OrdersWritten(view, failed, skipped) /\ UNCHANGED trade
      [] list = "trades" -> TradesWritten(view, failed, skipped) /\ UNCHANGED row

\* _run_after_trading
AfterTradingTasks ==
    <<<<"fetch", "ticks">>, <<"write", "ticks">>, <<"fetch", "orders">>, <<"write", "orders">>,
      <<"fetch", "trades">>, <<"write", "trades">>>>

\* The timer, on the clock's thread
AfterTimer ==
    /\ up /\ due
    /\ due' = FALSE
    /\ todo' = AfterTradingTasks
    /\ told' = Untold /\ left' = NoneLeft
    /\ UNCHANGED <<clock, starts, up, book, table, got, pending, missed>>

\* The codes query before the tasks is outside every try.
AfterTimerFails ==
    /\ up /\ due
    /\ due' = FALSE
    /\ UNCHANGED <<clock, starts, up, book, table, clockThread, pending, told, left, missed>>

still == <<clock, starts, up, book, due, pending, missed>>

At(step) == todo # <<>> /\ Head(todo)[1] = step

\* asyncio.run: the thread waits, the loop does not.  The ticks take two fetches, one of
\* them of the stocks held in the morning; that of the orders' opens may fail unnoticed.
Fetch ==
    /\ At("fetch") /\ todo' = Tail(todo) /\ got' = truth
    /\ UNCHANGED <<still, table, told, left>>

FetchFails ==
    /\ At("fetch") /\ todo' = Tail(Tail(todo))
    /\ told' = [told EXCEPT ![Head(todo)[2]] = "failed"]
    /\ UNCHANGED <<still, table, got, left>>

Write(failed, skipped) ==
    /\ At("write") /\ todo' = Tail(todo)
    /\ Written(Head(todo)[2], got, failed, skipped)
    /\ UNCHANGED <<still, got>>

-----------------------------------------------------------------------------
(* Restarts; a start after the close catches up *)

Crash ==
    /\ up /\ starts < Starts
    /\ up' = FALSE /\ due' = FALSE /\ todo' = <<>> /\ pending' = {} /\ lineage' = {}
    /\ told' = Untold /\ left' = NoneLeft
    /\ UNCHANGED <<clock, starts, truth, known, table, got, missed>>

\* The cache has been reconciled before the recorder hears of events.
Start ==
    /\ ~up
    /\ up' = TRUE /\ starts' = starts + 1
    /\ known' = truth
    /\ pending' = IF clock = "after" THEN Lists ELSE {}
    /\ UNCHANGED <<clock, truth, lineage, table, due, clockThread, told, left, missed>>

\* On the loop; what has failed by the time of the write is a choice again.
Fetched(list, failed, skipped) ==
    /\ up /\ list \in pending
    /\ pending' = pending \ {list}
    /\ Written(list, truth, failed, skipped)
    /\ UNCHANGED <<clock, starts, up, book, due, clockThread, missed>>

FetchedNot(list) ==
    /\ up /\ list \in pending
    /\ pending' = pending \ {list}
    /\ told' = [told EXCEPT ![list] = "failed"]
    /\ UNCHANGED <<clock, starts, up, book, table, due, clockThread, left, missed>>

Next ==
    \/ Tick \/ Crash \/ Start
    \/ \E o \in Orders : Send(o) \/ Trade(o) \/ \E w, x \in Writes : OrderEvent(o, w, x)
    \/ AfterTimer \/ AfterTimerFails \/ Fetch \/ FetchFails
    \/ \E failed, skipped \in SUBSET Orders : Write(failed, skipped)
    \/ \E list \in pending :
        \/ FetchedNot(list)
        \/ \E failed, skipped \in SUBSET Orders : Fetched(list, failed, skipped)

Spec == Init /\ [][Next]_vars

-----------------------------------------------------------------------------
(* Properties *)

\* Types of the tables and of the views of an order; the cache is never ahead of the broker.
TypeOK ==
    /\ clock \in {"session", "close", "after"} /\ up \in BOOLEAN
    /\ truth \in [Orders -> 0..2]
    /\ \A o \in Orders : known[o] \in 0..truth[o]
    /\ row \in [Orders -> [st : 0..2, signal : BOOLEAN]]
    /\ trade \subseteq Orders /\ lineage \subseteq Orders /\ pending \subseteq Lists
    /\ told \in [Lists -> {"none", "success", "failed", "partial_failure"}]

\* "QMT is authoritative after close": when the backfill of a list says success, all events
\* have been delivered and none of their writes failed, the table is what the broker holds,
\* whatever the live path wrote, missed or still wrote meanwhile.  The rows the backfill
\* skipped are excepted: success does not speak for them.
SuccessMeansStored ==
    clock = "after" /\ up /\ known = truth /\ ~missed =>
        /\ told["orders"] = "success" => \A o \in Orders \ left.orders : row[o].st = truth[o]
        /\ told["trades"] = "success" =>
            /\ {o \in Orders : truth[o] = 2} \ left.trades \subseteq trade
            /\ \A o \in trade : truth[o] = 2

\* Without the exception it is false: rows without an id, or an answer that is no list, are
\* reported as a success.
SuccessMeansWhole ==
    clock = "after" /\ up /\ known = truth /\ ~missed =>
        /\ told["orders"] = "success" => \A o \in Orders : row[o].st = truth[o]
        /\ told["trades"] = "success" => trade = {o \in Orders : truth[o] = 2}
=============================================================================
