------------------------------- MODULE SignalDay -------------------------------
(***************************************************************************)
(* The predictions that a day's plan is made from.  The loader             *)
(* (src/lives/live_common.py, on top of                                    *)
(* src/backtests/data_providers/clickhouse_model_predictions.py) chooses   *)
(* the universe from the signals of one day and drops the signals of all   *)
(* days that are not of it; the node loads at its start and at a time of   *)
(* each morning, and keeps what it has when that fails; the strategy       *)
(* (src/strategies/model_prediction_targets.py) plans from the signals of  *)
(* the trading day before.                                                 *)
(***************************************************************************)
EXTENDS Naturals, Sequences, FiniteSets, FiniteSetsExt

CONSTANTS
    Days,       \* days of the calendar
    Rankings,   \* what the model may predict for a day: stocks, the best first
    Positions,  \* greatest number of signals a day (max_positions)
    Restarts    \* starts of the node (bound)

VARIABLES
    trading,    \* the trading days
    day, phase, \* "morning", "session", "night"
    predicted,  \* day -> the ranking in ClickHouse
    context,    \* what the node has: day -> its signals, after the universe's filter
    held,       \* the holdings
    loadedOn,   \* the day of the last load that succeeded, 0 before
    refreshed,  \* whether this morning's refresh is over
    plan,       \* today's plan: what it is made from, of which day, and the day of the load
    starts

calendar == <<trading, day, phase, predicted>>
vars == <<calendar, context, held, loadedOn, refreshed, plan, starts>>

Dates == 1 .. Days
NoPlan == [kind |-> "none", of |-> 0, from |-> {}, loaded |-> 0]

Init ==
    /\ trading \in {t \in SUBSET Dates : 1 \in t /\ Days \in t}
    /\ day = 2 /\ phase = "morning"
    /\ predicted \in [{1} -> Rankings]
    /\ context = [d \in {} |-> {}] /\ held = {}
    /\ loadedOn = 0 /\ refreshed = FALSE /\ plan = NoPlan /\ starts = 0

-----------------------------------------------------------------------------
(* Which day's signals *)

Latest(S) == IF S = {} THEN 0 ELSE Max(S)
Earliest(S) == Min(S)

\* previous_trading_date: the last trading day before this one
Previous(d) == Latest({t \in trading : t < d})

\* The trading day that is on or comes next.
LiveTradingDay(d) == Earliest({t \in trading : t >= d})

SubscriptionEarlier(published, d) ==      \* mutant of SubscriptionDay: bisected on the other side
    LET before == {s \in published : s < Previous(LiveTradingDay(d))} IN
    IF before # {} THEN Latest(before) ELSE Latest(published)

\* subscription_signal_date: the latest signals not after the trading day before
SubscriptionDay(published, d) ==
    LET before == {s \in published : s <= Previous(LiveTradingDay(d))} IN
    IF before # {} THEN Latest(before)
    ELSE LET past == {s \in published : s <= d} IN
         IF past # {} THEN Latest(past) ELSE Latest(published)

\* select_daily_signals: the best of a day's ranking
Signals(d) ==
    {predicted[d][i] : i \in {i \in DOMAIN predicted[d] : i <= Positions}}

-----------------------------------------------------------------------------
(* The world *)

\* The predictions of a trading day come in its evening, or later.
Publish ==
    \E d \in (trading \ DOMAIN predicted) \cap 1 .. day, ranking \in Rankings :
        /\ d = day => phase = "night"
        /\ predicted' = [x \in DOMAIN predicted \cup {d} |->
                            IF x = d THEN ranking ELSE predicted[x]]
        /\ UNCHANGED <<trading, day, phase, context, held, loadedOn, refreshed, plan, starts>>

Pass ==
    /\ \/ /\ phase = "morning" /\ phase' = "session" /\ UNCHANGED <<day, refreshed, plan>>
       \/ /\ phase = "session" /\ phase' = "night" /\ UNCHANGED <<day, refreshed, plan>>
       \/ /\ phase = "night" /\ day < Days /\ day' = day + 1 /\ phase' = "morning"
          /\ refreshed' = FALSE /\ plan' = NoPlan
    /\ UNCHANGED <<trading, predicted, context, held, loadedOn, starts>>

-----------------------------------------------------------------------------
(* The node *)

\* LivePredictionDataLoader.load: the codes of one day's signals and the extra ones
Codes(extra) == Signals(SubscriptionDay(DOMAIN predicted, day)) \cup extra

\* signal_config: the signals of other codes are dropped, and the days that are left with none
Filtered(codes) ==
    [d \in {d \in DOMAIN predicted : Signals(d) \cap codes # {}} |-> Signals(d) \cap codes]

\* refresh_reference_data: the signals are replaced
Load(extra) ==
    /\ context' = Filtered(Codes(extra))
    /\ loadedOn' = day

\* A new process loads first; MySQL may not know the holdings.
Start ==
    /\ starts < Restarts /\ starts' = starts + 1
    /\ \E seeded \in {held, {}} : Load(seeded)
    /\ refreshed' = (phase # "morning")
    /\ UNCHANGED <<calendar, held, plan>>

\* _on_refresh_timer, once each morning
Refresh ==
    /\ loadedOn # 0 /\ phase = "morning" /\ ~refreshed /\ refreshed' = TRUE
    /\ \/ Load(held)
       \/ UNCHANGED <<context, loadedOn>>
    /\ UNCHANGED <<calendar, held, plan, starts>>

\* compute_daily_target_plan: the signals of the trading day before, or a degraded plan
Plan ==
    /\ loadedOn # 0 /\ phase = "session" /\ day \in trading /\ plan.kind = "none"
    /\ plan' =
         LET of == Previous(day) IN
         IF of \in DOMAIN context
           THEN [kind |-> "full", of |-> of, from |-> context[of], loaded |-> loadedOn]
           ELSE [NoPlan EXCEPT !.kind = "degraded", !.of = of, !.loaded = loadedOn]
    /\ held' \in {h \in SUBSET (held \cup plan'.from) : Cardinality(h) <= 1}
    /\ UNCHANGED <<calendar, context, loadedOn, refreshed, starts>>

Next == Publish \/ Pass \/ Start \/ Refresh \/ Plan

Spec == Init /\ [][Next]_vars

-----------------------------------------------------------------------------
(* Properties *)

\* Types of the state.
TypeOK ==
    /\ trading \subseteq Dates /\ day \in Dates /\ phase \in {"morning", "session", "night"}
    /\ DOMAIN predicted \subseteq trading /\ DOMAIN context \subseteq DOMAIN predicted
    /\ \A d \in DOMAIN context : context[d] \subseteq Signals(d)
    /\ Cardinality(held) <= 1
    /\ loadedOn \in 0 .. day /\ starts \in 0 .. Restarts

\* A full plan chooses among all the signals of the trading day before, if the node has
\* loaded its data today: the universe does not leave any of them out.
PlanSeesAllSignals ==
    plan.kind = "full" /\ plan.loaded = day => plan.from = Signals(plan.of)
===============================================================================
