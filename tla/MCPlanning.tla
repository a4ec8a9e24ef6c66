------------------------------- MODULE MCPlanning -------------------------------
(* The components that decide what is to be held, side by side: the day of     *)
(* DailyTarget, the signals a plan is made from (SignalDay), its content       *)
(* (TargetPlan) and the trailing stops (Trailing).  A behaviour is one of the  *)
(* component chosen at the start; the others keep still, so the run has the    *)
(* sum of their states, not the product.                                       *)
EXTENDS MCDailyTarget

CONSTANTS
    Parts,          \* the components to run
    PlanStocks, Flags, MaxAttempts, Shares,         \* of TargetPlan
    StopDays, Prices,                               \* of Trailing
    SignalDays, Rankings, Positions, Restarts       \* of SignalDay

ASSUME PlanningAssumption ==
    /\ DOMAIN Flags = PlanStocks /\ MaxAttempts \in Nat \ {0} /\ Shares \in Nat
    /\ StopDays \in Nat \ {0}
    /\ Prices \subseteq Nat /\ \A p \in Prices : p > 0 /\ p % 2 = 0
    /\ Prices # {} => \E top \in Prices : \A p \in Prices : p <= top
    /\ SignalDays \in Nat /\ SignalDays >= 2 /\ Positions \in Nat /\ Restarts \in Nat

SomeFlags ==
    [s \in {"a", "b"} |->
        IF s = "a" THEN SUBSET {"signal", "suspended", "st", "exit", "open", "close", "skip"}
        ELSE {{"signal", "open", "close"}, {"close"}}]

SomeRankings == {<<"a", "b", "c">>, <<"b", "c">>, <<"c">>}

VARIABLES
    part,   \* the component that runs
    flags, authoritative, contents_held, stage, attempt, offered, contents_frozen,
    candidates, forced, degraded, targets,
    stops_day, stops_stage, open, close, exDay, stops_held, entry, cost, pos, seedOf,
    plan,
    trading, loading_day, phase, predicted, context, loading_held, loadedOn, refreshed,
    loading_plan, starts

TP == INSTANCE TargetPlan WITH
    Stocks <- PlanStocks, held <- contents_held, frozen <- contents_frozen
TR == INSTANCE Trailing WITH
    Days <- StopDays, day <- stops_day, stage <- stops_stage, held <- stops_held
SD == INSTANCE SignalDay WITH
    Days <- SignalDays, day <- loading_day, held <- loading_held, plan <- loading_plan

Idle == 0

contents == <<flags, authoritative, contents_held, stage, attempt, offered,
              contents_frozen, candidates, forced, degraded, targets>>
NoContents ==
    /\ flags = Idle /\ authoritative = Idle /\ contents_held = Idle /\ stage = Idle
    /\ attempt = Idle /\ offered = Idle /\ contents_frozen = Idle /\ candidates = Idle
    /\ forced = Idle /\ degraded = Idle /\ targets = Idle
stops == <<stops_day, stops_stage, open, close, exDay, stops_held, entry, cost, pos,
           seedOf, plan>>
NoStops ==
    /\ stops_day = Idle /\ stops_stage = Idle /\ open = Idle /\ close = Idle
    /\ exDay = Idle /\ stops_held = Idle /\ entry = Idle /\ cost = Idle
    /\ pos = Idle /\ seedOf = Idle /\ plan = Idle
loading == <<trading, loading_day, phase, predicted, context, loading_held, loadedOn,
             refreshed, loading_plan, starts>>
NoLoading ==
    /\ trading = Idle /\ loading_day = Idle /\ phase = Idle /\ predicted = Idle
    /\ context = Idle /\ loading_held = Idle /\ loadedOn = Idle /\ refreshed = Idle
    /\ loading_plan = Idle /\ starts = Idle

-----------------------------------------------------------------------------
PartsInit ==
    /\ part \in Parts
    /\ \/ /\ part = "day" /\ Init
          /\ NoContents /\ NoStops /\ NoLoading
       \/ /\ part = "contents" /\ TP!Init /\ Init /\ held = [s \in Stocks |-> 0]
          /\ NoStops /\ NoLoading
       \/ /\ part = "stops" /\ TR!Init /\ Init /\ held = [s \in Stocks |-> 0]
          /\ NoContents /\ NoLoading
       \/ /\ part = "loading" /\ SD!Init /\ Init /\ held = [s \in Stocks |-> 0]
          /\ NoContents /\ NoStops

PartsNext ==
    \/ /\ part = "day" /\ Next
       /\ UNCHANGED <<part, contents, stops, loading>>
    \/ /\ part = "contents" /\ TP!Next
       /\ UNCHANGED <<part, vars, stops, loading>>
    \/ /\ part = "stops" /\ TR!Next
       /\ UNCHANGED <<part, vars, contents, loading>>
    \/ /\ part = "loading" /\ SD!Next
       /\ UNCHANGED <<part, vars, contents, stops>>

partsVars == <<part, vars, contents, stops, loading>>

PartsSpec ==
    /\ PartsInit /\ [][PartsNext]_partsVars
    /\ WF_vars(part = "day" /\ BeforeTimer)
    /\ SF_vars(part = "day" /\ TimerProcesses /\ Process)

-----------------------------------------------------------------------------
(* Properties *)

\* The type invariants of the components.
TypesOK ==
    /\ part = "day" => TypeOK
    /\ part = "contents" => TP!TypeOK
    /\ part = "stops" => TR!TypeOK
    /\ part = "loading" => SD!TypeOK

\* Whatever the risk manager answers, and whatever is traded while it is asked up to six
\* times: a suspended holding is kept, and what a local exit leaves is not bought back
\* (_build_current_holdings, _build_candidates, _local_safety_plan,
\* _apply_forced_exit_overrides).
LocalRulesHold == part = "contents" => TP!SuspendedKept /\ TP!NoBuyBack

\* A stop sells on a fall that happened to the holding, in prices adjusted for ex-rights
\* days, and a fall while it was held is not missed (_holding_exclusion,
\* _update_trailing_state, _stop_cost_ratio).
StopsAreTrue == part = "stops" => TR!ExitIsReal /\ TR!FallIsCaught /\ TR!ShadowIsAdjusted

\* A plan made from data of the same day has all the signals of the trading day before
\* (subscription_signal_date, signal_config).
PlanSeesAllSignals == part = "loading" => SD!PlanSeesAllSignals
=============================================================================
