------------------------------- MODULE Trailing -------------------------------
(***************************************************************************)
(* The local exits of src/strategies/model_prediction_targets.py for one   *)
(* stock: the stop-loss and the trailing take-profit that are judged when  *)
(* the target of a day is planned, over the days the stock is bought, held *)
(* and sold, and over restarts of the process.                             *)
(*                                                                         *)
(* Prices are back-adjusted; Raw gives what is quoted.  All thresholds are *)
(* a quarter.  The start of the holding span is what Snapshots reads back. *)
(***************************************************************************)
EXTENDS Integers, FiniteSets, FiniteSetsExt

CONSTANTS
    Days,      \* trading days 1 .. Days
    Prices     \* adjusted prices, even; 0 stands for a missing one

VARIABLES
    day,
    stage,     \* "plan", "trade", "close"
    open,      \* today's opening price
    close,     \* the daily rows: adjusted close of each day so far, 0 without a row
    exDay,     \* the day of the one ex-event, 0 if there is none
    held,
    entry,     \* the day the stock was bought
    cost,      \* what was paid, raw (avg_px_open)
    pos,       \* _active_positions: entry_price and high_price, or NoPos
    seedOf,    \* history: the entry day of the holding whose cost pos was made of
    plan       \* what the plan of today came to

market  == <<open, close, exDay>>
account == <<held, entry, cost>>
vars == <<day, stage, market, account, pos, seedOf, plan>>

NoPos  == [entry_price |-> 0, high_price |-> 0]
NoPlan == [span |-> FALSE, events |-> FALSE, stop |-> FALSE, shadow |-> FALSE,
           trailing |-> FALSE]

Factor(d) == IF exDay # 0 /\ d >= exDay THEN 2 ELSE 1
Raw(price, d) == price \div Factor(d)

Init ==
    /\ day = 1 /\ stage = "plan" /\ open = 0
    /\ close = [d \in 1 .. Days |-> 0]
    /\ exDay \in 0 .. Days
    /\ held = FALSE /\ entry = 0 /\ cost = 0
    /\ pos = NoPos /\ seedOf = 0 /\ plan = NoPlan

-----------------------------------------------------------------------------
(* compute_daily_target_plan, as far as this holding is concerned *)

\* The last close as quoted, 0 without one (_last_close)
LastClose ==
    LET days == {d \in 1 .. day - 1 : close[d] > 0}
    IN  IF days # {} THEN Raw(close[Max(days)], Max(days)) ELSE 0

\* avg_px_open, or the last close where the position has none
SeedPrice(avg) == IF avg THEN cost ELSE LastClose

\* _seed_active_positions_from_portfolio skips a stock that has an entry.  Today's row is
\* not there yet, so that the floor is the raw price.  Without any price there is no entry.
Seeded(avg) ==
    IF held /\ pos = NoPos
      THEN [entry_price |-> SeedPrice(avg), high_price |-> SeedPrice(avg)] ELSE pos

SpanPeakRaw(start) ==      \* mutant of SpanPeak: closes as quoted
    Max({Raw(close[d], d) : d \in start .. day - 2} \cup {0})

\* _highest_close_over_span: [start, T-2]
SpanPeak(start) == Max({close[d] : d \in start .. day - 2} \cup {0})

\* _raise_high_price_to_span_peak never lowers the mark.
Raised(p, span) == [p EXCEPT !.high_price = IF span THEN Max({@, SpanPeak(entry)}) ELSE @]

CostUnadjusted(p, span) ==  \* mutant of AdjustedCost: the raw cost without a factor
    IF ~span \/ close[entry] = 0 THEN p.entry_price ELSE p.entry_price * Factor(entry)

\* _adjusted_entry_cost: 0 when the gate has no comparable cost
AdjustedCost(p, span) ==
    IF ~span \/ close[entry] = 0 THEN 0 ELSE p.entry_price * Factor(entry)

PrevClose == close[day - 1]

\* _update_trailing_state; T-1 does not move the mark
Triggered(p, span) ==
    LET paid == AdjustedCost(p, span)
    IN  /\ p.high_price > 0 /\ PrevClose > 0 /\ paid > 0
        /\ 4 * p.high_price >= 5 * paid
        /\ 4 * PrevClose <= 3 * p.high_price

\* _exit_price_with_source: the open, or else the last close
ExitPrice(price) == IF price > 0 THEN Raw(price, day) ELSE LastClose

\* cost_price of _holding_exclusion: without an entry the exit price itself
CostPrice(p, exit) == IF p.entry_price > 0 THEN p.entry_price ELSE exit

AtLoss(price, paid) == price > 0 /\ paid > 0 /\ 4 * price <= 3 * paid

RatioFromEntry(span, events) == \* mutant of ExEvents: an event on the day of entry counts
    IF span /\ events /\ entry <= exDay /\ exDay <= day THEN 2 ELSE 1

\* The inverse of _stop_cost_ratio: events in (entry, T]; none without the start of the span
\* or when the loader of the dividends raised or has nothing of the stock.
ExEvents(span, events) == IF span /\ events /\ entry < exDay /\ exDay <= day THEN 2 ELSE 1

\* Only logged: the stop-loss on the cost as it is after the ex-events.
Shadow(exit, paid, span, events) == AtLoss(exit * ExEvents(span, events), paid)

\* What this planning finds: the start of the span, the dividends, the average price.
Found == [span : BOOLEAN, events : BOOLEAN, avg : BOOLEAN]

Plan(price, found) ==
    LET span == found.span
        p    == Raised(Seeded(found.avg), span)
        exit == ExitPrice(price)
        paid == CostPrice(p, exit)
    IN  /\ stage = "plan" /\ stage' = "trade"
        /\ open' = price
        /\ pos' = IF held /\ p.entry_price > 0 THEN p ELSE pos
        /\ seedOf' = IF held /\ pos = NoPos THEN IF found.avg THEN entry ELSE 0 ELSE seedOf
        /\ plan' = IF ~held THEN NoPlan
                   ELSE [span |-> span, events |-> found.events,
                         stop |-> AtLoss(exit, paid),
                         shadow |-> Shadow(exit, paid, span, found.events),
                         trailing |-> p.entry_price > 0 /\ Triggered(p, span)]
        /\ UNCHANGED <<day, close, exDay, account>>

-----------------------------------------------------------------------------
(* The day *)

Exits == plan.stop \/ plan.trailing

Sell ==
    /\ stage = "trade" /\ held
    /\ stage' = "close" /\ held' = FALSE
    /\ UNCHANGED <<day, market, entry, cost, pos, seedOf, plan>>

Buy ==
    /\ stage = "trade" /\ ~held /\ open > 0
    /\ stage' = "close" /\ held' = TRUE
    /\ entry' = day /\ cost' = Raw(open, day)
    /\ UNCHANGED <<day, market, pos, seedOf, plan>>

Hold ==
    /\ stage = "trade" /\ ~(held /\ Exits)
    /\ stage' = "close"
    /\ UNCHANGED <<day, market, account, pos, seedOf, plan>>

Close(price) ==
    /\ stage = "close" /\ day < Days
    /\ close' = [close EXCEPT ![day] = price]
    /\ day' = day + 1 /\ stage' = "plan"
    /\ open' = 0 /\ plan' = NoPlan
    /\ UNCHANGED <<exDay, account, pos, seedOf>>

\* _active_positions lives in the process.
Restart ==
    /\ stage = "plan" /\ pos # NoPos
    /\ pos' = NoPos /\ seedOf' = 0
    /\ UNCHANGED <<day, stage, market, account, plan>>

Next ==
    \/ \E price \in Prices \cup {0} : Close(price) \/ \E found \in Found : Plan(price, found)
    \/ Sell \/ Buy \/ Hold \/ Restart

Spec == Init /\ [][Next]_vars

-----------------------------------------------------------------------------
(* Properties *)

\* Types of the account and of the tracked position.
TypeOK ==
    /\ day \in 1 .. Days /\ stage \in {"plan", "trade", "close"}
    /\ held \in BOOLEAN /\ entry \in 0 .. day /\ (held => entry > 0 /\ cost > 0)
    /\ close \in [1 .. Days -> Prices \cup {0}]
    /\ pos.high_price >= pos.entry_price

Judged == stage = "trade" /\ held
Paid == cost * Factor(entry)          \* what was paid, adjusted
SpanDays == entry .. day - 2

\* A take-profit has a real peak of this holding behind it, seen on days it was held and
\* on one basis, a quarter above what was paid; an ex-event alone does not fire it.
PeakIsReal ==
    /\ 4 * close[day - 1] <= 3 * Max({close[d] : d \in SpanDays} \cup {cost})
    /\ 4 * Max({close[d] : d \in SpanDays} \cup {cost}) >= 5 * Paid

LossIsReal == 4 * ExitPrice(open) <= 3 * cost

\* An exit is of the present holding, when the process has tracked no earlier one and knew
\* what it cost.
ExitIsReal ==
    Judged /\ seedOf = entry =>
        (plan.trailing => PeakIsReal) /\ (plan.stop => LossIsReal)

\* "the highest close over the current holding span": a take-profit of every holding, also
\* of one bought after an earlier one was sold, has a peak of that holding behind it.
TakeProfitOfThisSpan == Judged /\ plan.trailing => PeakIsReal

\* A fall of a quarter from a peak of the span is caught, also by a process that was not
\* there at the peak, if the daily rows and the span start are.
FallIsCaught ==
    Judged /\ seedOf = entry /\ plan.span /\ (\A d \in entry .. day - 1 : close[d] > 0)
        /\ SpanDays # {} /\ PeakIsReal => plan.trailing

\* The shadow decision compares the open with the cost on one basis, whatever ex-event lies
\* between the purchase and today, if the dividends could be loaded; and whether they were
\* or not, it departs from the decision that is applied for a real ex-event only.
ShadowIsAdjusted ==
    Judged /\ seedOf = entry =>
        /\ plan.span /\ plan.events /\ open > 0 => (plan.shadow <=> 4 * open <= 3 * Paid)
        /\ plan.shadow # plan.stop => entry < exDay /\ exDay <= day

\* The same without the condition: dividends that could not be loaded leave the raw cost.
ShadowAlwaysAdjusted ==
    Judged /\ seedOf = entry /\ plan.span /\ open > 0 => (plan.shadow <=> 4 * open <= 3 * Paid)
===============================================================================
