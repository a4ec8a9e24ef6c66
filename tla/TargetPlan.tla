------------------------------ MODULE TargetPlan ------------------------------
(***************************************************************************)
(* One call of compute_daily_target_plan                                   *)
(* (src/strategies/model_prediction_targets.py) with the risk-manager      *)
(* planner it calls (src/strategies/model_target_planners).                *)
(*                                                                         *)
(* The request is built from the holdings and the signals of the moment.   *)
(* The planner posts it up to six times and sleeps in between, more than a *)
(* minute in all, while the node loop goes on and holdings change.  Every  *)
(* failure ends in a plan of local exits made of what is held by then.     *)
(***************************************************************************)
EXTENDS Naturals, FiniteSets

CONSTANTS
    Stocks,
    Flags,        \* [Stocks -> sets of sets of flags]: the situations of each stock
    MaxAttempts,  \* max_retries + 1
    Shares        \* greatest number of shares of a stock (bound)

VARIABLES
    flags,          \* what holds of each stock today
    authoritative,  \* local_exit_authoritative
    held,           \* shares
    stage,          \* "build", "post", "done"
    attempt,
    offered,        \* current_holdings: the shares offered, 0 if it is not in the list
    frozen,         \* offered with can_buy = can_sell = False
    candidates,
    forced,         \* forced_exits
    degraded,       \* the plan is a local safety plan
    targets         \* the plan: shares, or Unnamed

request == <<offered, frozen, candidates, forced>>
inputs  == <<flags, authoritative>>
vars == <<inputs, held, stage, attempt, request, degraded, targets>>

Unnamed == Shares + 1
Is(s, flag) == flag \in flags[s]
Nothing == [s \in Stocks |-> Unnamed]

Init ==
    /\ flags \in {f \in [Stocks -> UNION {Flags[s] : s \in Stocks}] : \A s \in Stocks : f[s] \in Flags[s]}
    /\ authoritative \in BOOLEAN
    /\ held \in [Stocks -> 0 .. Shares]
    /\ stage = "build" /\ attempt = 0
    /\ offered = [s \in Stocks |-> 0] /\ frozen = {} /\ candidates = {} /\ forced = {}
    /\ degraded = FALSE /\ targets = Nothing

-----------------------------------------------------------------------------
(* _target_planning_request *)

FrozenUnlessExit(s) ==     \* mutant of Frozen: the exits are judged first
    held[s] > 0 /\ Is(s, "suspended") /\ Is(s, "close") /\ ~Is(s, "st") /\ ~Is(s, "exit")

\* Suspended by the calendar or by the live status, and there is a price to offer it at
Frozen(s) == held[s] > 0 /\ Is(s, "suspended") /\ Is(s, "close")

\* _holding_exclusion: ST, the stop-loss and the take-profit of Trailing
ForcedExit(s) ==
    held[s] > 0 /\ ~Is(s, "suspended") /\ (Is(s, "st") \/ Is(s, "exit"))

\* _open_price_with_source
Priced(s) == Is(s, "open") \/ Is(s, "close")

Offered(s) == Frozen(s) \/ (held[s] > 0 /\ ~Is(s, "suspended") /\ ~ForcedExit(s) /\ Priced(s))

\* _build_candidates, _entry_skip_reason: "skip" stands for the name, the listing age, the
\* opening gap and the run of limit-up days
EntrySkipped(s) == Is(s, "suspended") \/ Is(s, "st") \/ Is(s, "skip") \/ ~Is(s, "open")

Candidate(s, exits) == Is(s, "signal") /\ s \notin exits /\ ~EntrySkipped(s)

\* missing: there are no signals of the previous trading day
Build(missing) ==
    LET exits == {s \in Stocks : ForcedExit(s)}
    IN  /\ stage = "build"
        /\ forced' = exits
        /\ frozen' = {s \in Stocks : Frozen(s)}
        /\ offered' = [s \in Stocks |-> IF Offered(s) THEN held[s] ELSE 0]
        /\ candidates' =
             IF missing THEN {}
             ELSE {s \in Stocks : Candidate(s, IF authoritative THEN exits ELSE {})}
        /\ stage' = "post" /\ degraded' = missing
        /\ UNCHANGED <<inputs, held, attempt, targets>>

-----------------------------------------------------------------------------
(* The plans *)

SafetyKeepsAll ==           \* mutant of SafetyPlan: the exits are forgotten
    [s \in Stocks |-> IF held[s] = 0 THEN Unnamed ELSE held[s]]

\* _local_safety_plan: from what is held now
SafetyPlan ==
    [s \in Stocks |-> IF held[s] = 0 THEN Unnamed ELSE IF s \in forced THEN 0 ELSE held[s]]

\* _apply_forced_exit_overrides
Overridden(plan) ==
    [s \in Stocks |-> IF authoritative /\ s \in forced THEN 0 ELSE plan[s]]

InRequest == candidates \cup {s \in Stocks : offered[s] > 0}

\* _targets: rows of stocks the request did not name are skipped, and rows without a
\* quantity name no target
Answered(rows) == [s \in Stocks |-> IF s \in InRequest THEN rows[s] ELSE Unnamed]

Done(plan, safe) ==
    /\ stage' = "done"
    /\ targets' = plan /\ degraded' = safe
    /\ UNCHANGED <<inputs, held, attempt, request>>

MissingSignals == stage = "post" /\ degraded /\ Done(SafetyPlan, TRUE)

MayPost == stage = "post" /\ ~degraded /\ InRequest # {}

\* Nothing to optimise: an empty plan.
NothingAsked == stage = "post" /\ ~degraded /\ InRequest = {} /\ Done(Overridden(Nothing), FALSE)

\* External: the risk manager leaves what can neither be bought nor sold as it is.
Answers == {rows \in [Stocks -> 0 .. Unnamed] : \A s \in frozen : rows[s] = offered[s]}

Answer(rows) == MayPost /\ Done(Overridden(Answered(rows)), FALSE)

\* An HTTP error, no connection, no JSON or no object: after a sleep it is posted again.
PostFails ==
    /\ MayPost /\ attempt + 1 < MaxAttempts
    /\ attempt' = attempt + 1
    /\ UNCHANGED <<inputs, held, stage, request, degraded, targets>>

LastPostFails == MayPost /\ attempt + 1 = MaxAttempts /\ Done(SafetyPlan, TRUE)

\* success is false, the rows are no list, or an exception that is not retried
Refused == MayPost /\ Done(SafetyPlan, TRUE)

\* Fills and manual sells on the node loop; a suspended stock has none.
HoldingsChange(s, shares) ==
    /\ stage = "post" /\ held[s] # shares /\ ~Is(s, "suspended")
    /\ held' = [held EXCEPT ![s] = shares]
    /\ UNCHANGED <<inputs, stage, attempt, request, degraded, targets>>

Next ==
    \/ \E missing \in BOOLEAN : Build(missing)
    \/ MissingSignals \/ NothingAsked \/ PostFails \/ LastPostFails \/ Refused
    \/ \E rows \in Answers : Answer(rows)
    \/ \E s \in Stocks, shares \in 0 .. Shares : HoldingsChange(s, shares)

Spec == Init /\ [][Next]_vars

-----------------------------------------------------------------------------
(* Properties *)

\* Types of the request and of the plan; the offer is of stocks that are no exit.
TypeOK ==
    /\ stage \in {"build", "post", "done"} /\ attempt \in 0 .. MaxAttempts - 1
    /\ held \in [Stocks -> 0 .. Shares] /\ offered \in [Stocks -> 0 .. Shares]
    /\ targets \in [Stocks -> 0 .. Unnamed]
    /\ \A s \in forced : offered[s] = 0

Ready == stage = "done"

\* "Suspended holdings stay in current_weights so the risk manager can preserve them": with
\* a price to offer it at, such a holding is not sold by any plan, not even when it is ST or
\* its stop-loss has fired, whether the risk manager answers, refuses or fails.
SuspendedKept ==
    Ready =>
        \A s \in Stocks :
            Is(s, "suspended") /\ Is(s, "close") /\ held[s] > 0 => targets[s] = held[s]

\* What a local exit makes the book leave, it does not buy back by the plan of the same
\* call, whatever the risk manager answers and whatever was traded while it was asked; where
\* local exits are not authoritative only a safety plan promises that.
NoBuyBack ==
    Ready /\ (authoritative \/ degraded) => \A s \in forced : targets[s] \in {0, Unnamed}

\* A stock that was bought while the risk manager was asked is named by its plan: the code
\* does not ensure it, and what a plan does not name is sold.
BoughtMeanwhileNamed ==
    Ready /\ ~degraded => \A s \in Stocks : held[s] > 0 /\ ~Is(s, "suspended") /\ s \notin forced
        /\ Priced(s) /\ targets[s] = Unnamed => s \in InRequest

\* "Untradable holdings (ST / suspended) [...] are excluded [...] so the optimizer unwinds
\* them": no suspended holding is offered to the risk manager.
SuspendedExcluded == \A s \in Stocks : Is(s, "suspended") => offered[s] = 0
===============================================================================
