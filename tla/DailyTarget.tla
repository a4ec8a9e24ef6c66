------------------------------ MODULE DailyTarget ------------------------------
(***************************************************************************)
(* How the target of a trading day comes about: the snapshot recorder      *)
(* (src/lives/snapshot_recorder.py) makes and freezes it before the open,  *)
(* the strategy (src/strategies/model_prediction_targets.py) takes it over *)
(* from live_target_portfolio at the open, or makes it if there is none.   *)
(* Both run on the node loop, one after the other; the node may stop and   *)
(* be started again at any time of day.                                    *)
(*                                                                         *)
(* A target map is a function from the stocks it names to shares.  What    *)
(* the risk manager answers is any map of Plans; the execution of the map  *)
(* (TargetExecutor) is one step here, Trade.                               *)
(***************************************************************************)
EXTENDS Naturals

CONSTANTS
    Stocks,
    MaxShares,
    Plans,      \* the maps the risk manager may answer with
    Days,       \* number of days modelled
    RefreshAt,  \* times of day of the reference-data refresh
    Failures,   \* what may fail: "load", "write", "plan", "model"
    CacheLags   \* a restarted node may see less than the account holds

Times == {"early", "before", "open", "closed"}
\* "blind" is a safety plan too, made before the first mass status from a cache that did
\* not show what the account holds.
Kinds == {"none", "plan", "safety", "blind"}
\* Not yet, or what the strategy's last processing of the day came to
Outcomes == {"no", "applied", "frozen", "unstored"}
Maps == UNION {[D -> 0..MaxShares] : D \in SUBSET Stocks}

ASSUME DailyAssumption ==
    /\ MaxShares \in Nat /\ Days \in Nat \ {0}
    /\ Plans \subseteq Maps
    /\ RefreshAt \subseteq Times
    /\ Failures \subseteq {"load", "write", "plan", "model"}
    /\ CacheLags \in BOOLEAN

VARIABLES
    day, at,        \* the date and the time of day
    up,             \* the node runs
    applied,        \* today is in the recorder's _applied_target_dates
    processed,      \* "no", or today is in the strategy's _processed_dates, and how
    signals,        \* the strategy has yesterday's predictions
    frozen,         \* _target_updates_paused
    target,         \* the map in force: its day, map, kind and forced exits
    rows,           \* today's rows of live_target_portfolio, by snapshot type
    held, seen,     \* what the account holds, and what the cache says
    reconciled,     \* the first mass status has arrived
    made, followed, \* today's plans, and those of them in force while trading is open
    excused         \* today's mishaps

node == <<day, at, up>>
book == <<held, seen, reconciled>>
vars == <<day, at, up, applied, processed, signals, frozen, target, rows,
          held, seen, reconciled, made, followed, excused>>

Empty == [s \in {} |-> 0]
NoTarget == [day |-> 0, map |-> Empty, kind |-> "none", exits |-> {}]
NoRows == [before |-> Empty, continuous |-> Empty]

Init ==
    /\ day = 1 /\ at = "early" /\ up = TRUE
    /\ applied = FALSE /\ processed = "no" /\ signals = FALSE /\ frozen = FALSE
    /\ target = NoTarget /\ rows = NoRows
    /\ held \in [Stocks -> 0..MaxShares] /\ seen = held /\ reconciled = TRUE
    /\ made = {} /\ followed = {} /\ excused = {}

-----------------------------------------------------------------------------
(* The rows of live_target_portfolio *)

\* mutant of Stored: only the type the recorder writes before the open is read
StoredBefore == rows.before

\* Rows of before_trading are preferred, those of continuous_trading the fallback.
Stored == IF rows.before # Empty THEN rows.before ELSE rows.continuous

\* The key is (date, type, stock): what another plan wrote for other stocks stays.
Upserted(type, m) ==
    [rows EXCEPT ![type] =
        [s \in DOMAIN m \cup DOMAIN rows[type] |-> IF s \in DOMAIN m THEN m[s] ELSE rows[type][s]]]

-----------------------------------------------------------------------------
(* Plans *)

PlanOf(m) == [day |-> day, map |-> m, kind |-> "plan", exits |-> {}]

\* mutant of SafetyPlan: only the forced exits are named
SafetyPlanExitsOnly(cache, exits, sure) ==
    [day |-> day, map |-> [s \in exits |-> 0], exits |-> exits,
     kind |-> IF sure \/ cache = held THEN "safety" ELSE "blind"]

\* The degraded plan keeps what is held, and sells what a hard exit names.
SafetyPlan(cache, exits, sure) ==
    [day |-> day, exits |-> exits,
     kind |-> IF sure \/ cache = held THEN "safety" ELSE "blind",
     map |-> [s \in {t \in Stocks : cache[t] > 0} |-> IF s \in exits THEN 0 ELSE cache[s]]]

\* sure: the mass status has corrected the cache.
SafetyPlans(cache, sure) ==
    {SafetyPlan(cache, exits, sure) : exits \in SUBSET {s \in Stocks : cache[s] > 0}}

\* Without yesterday's predictions, or when the risk manager fails.
Degraded(haveSignals) == ~haveSignals \/ "model" \in Failures

\* update_target_quantities: a freeze skips the update, silently for its caller.
InForce(old, new) == IF frozen THEN old ELSE new

Mishap(names) == excused' = excused \cup names
Skip == IF frozen THEN {"frozen"} ELSE {}

\* What is in force while trading is open is what is traded; an empty map names nothing.
Follow(t) ==
    followed' = IF at = "open" /\ t.day = day /\ t.kind = "plan" /\ t.map # Empty
                  THEN followed \cup {t.map} ELSE followed

Put(new, old) ==
    /\ target' = InForce(old, new)
    /\ Follow(InForce(old, new))

-----------------------------------------------------------------------------
(* The recorder: _ensure_daily_target, from the target old and the cache given *)

LoadTarget(old) ==
    /\ Stored # Empty
    /\ Put(PlanOf(Stored), old)
    /\ Mishap(Skip)
    /\ UNCHANGED <<rows, made>>

\* An exception of the query counts as no rows.
NoRowsLoaded == Stored = Empty \/ "load" \in Failures
LoadMishap == IF Stored = Empty THEN {} ELSE {"load"}

GeneratePlan(type, old, haveSignals) ==
    /\ NoRowsLoaded /\ haveSignals
    /\ \E m \in Plans :
           /\ made' = made \cup {m}
           /\ Put(PlanOf(m), old)
           /\ \/ rows' = Upserted(type, m) /\ Mishap(LoadMishap \cup Skip)
              \/ /\ "write" \in Failures /\ m # Empty   \* applied all the same
                 /\ Mishap(LoadMishap \cup Skip \cup {"write"})
                 /\ UNCHANGED rows

GenerateSafety(old, cache, sure, haveSignals) ==
    /\ NoRowsLoaded /\ Degraded(haveSignals)
    /\ \E t \in SafetyPlans(cache, sure) : Put(t, old)
    /\ Mishap(LoadMishap \cup Skip)
    /\ UNCHANGED <<rows, made>>

\* compute_daily_target_plan raises: nothing is applied, and nothing will be.
GenerateRaises(old) ==
    /\ NoRowsLoaded /\ "plan" \in Failures
    /\ target' = old
    /\ Mishap(LoadMishap)
    /\ UNCHANGED <<rows, made, followed>>

Ensure(type, old, cache, sure, haveSignals) ==
    \/ LoadTarget(old)
    \/ GeneratePlan(type, old, haveSignals)
    \/ GenerateSafety(old, cache, sure, haveSignals)
    \/ GenerateRaises(old)

BeforeTimer ==
    /\ up /\ at = "before" /\ ~applied
    /\ applied' = TRUE
    /\ Ensure("before", target, seen, reconciled, signals)
    /\ UNCHANGED <<node, processed, signals, frozen, book>>

-----------------------------------------------------------------------------
(* The strategy: _process_trading_day *)

\* The date is marked whether or not the update took effect.
Marked == IF frozen THEN "frozen" ELSE "applied"

ProcessLoaded ==
    /\ Stored # Empty
    /\ Put(PlanOf(Stored), target)
    /\ Mishap(Skip) /\ processed' = Marked
    /\ UNCHANGED <<rows, made>>

\* mutant of ApplyUnstored: the persister's answer is not looked at
ApplyAnyway(m) == Put(PlanOf(m), target)

\* A plan that could not be persisted is not applied.
ApplyUnstored(m) == UNCHANGED <<target, followed>>

ProcessPlan ==
    /\ Stored = Empty /\ signals
    /\ \E m \in Plans :
           /\ made' = made \cup {m}
           /\ \/ /\ rows' = Upserted("continuous", m) /\ Put(PlanOf(m), target)
                 /\ Mishap(Skip) /\ processed' = Marked
              \/ /\ "write" \in Failures /\ m # Empty
                 /\ ApplyUnstored(m) /\ processed' = "unstored"
                 /\ UNCHANGED <<rows, excused>>

ProcessSafety ==
    /\ Stored = Empty /\ Degraded(signals)
    /\ \E t \in SafetyPlans(seen, reconciled) : Put(t, target)
    /\ Mishap(Skip) /\ processed' = Marked
    /\ UNCHANGED <<rows, made>>

Process == ProcessLoaded \/ ProcessPlan \/ ProcessSafety

\* The query or the plan raises, before anything has changed.
ProcessRaises ==
    /\ "load" \in Failures \/ ("plan" \in Failures /\ Stored = Empty)
    /\ UNCHANGED <<target, rows, made, followed, excused>>

\* mutant of AfterRaise: the date is added first
AfterRaiseDone(mark) == "applied"

AfterRaise(mark) == mark

TimerProcesses ==
    /\ up /\ at = "open" /\ processed = "no"
    /\ \/ Process
       \/ ProcessRaises /\ processed' = AfterRaise(processed)
    /\ UNCHANGED <<node, applied, signals, frozen, book>>

-----------------------------------------------------------------------------
(* The refresh of the reference data, which lets today be processed again *)

Refresh ==
    /\ up /\ at \in RefreshAt
    /\ signals' \in {signals, TRUE}
    /\ IF at = "open"
         THEN \/ Process
              \/ ProcessRaises /\ processed' = AfterRaise("no")
         ELSE processed' = "no" /\ UNCHANGED <<target, rows, made, followed, excused>>
    /\ UNCHANGED <<node, applied, frozen, book>>

-----------------------------------------------------------------------------
(* The node stops, and starts: the recorder catches up on the time of day *)

Stop ==
    /\ up /\ up' = FALSE
    /\ applied' = FALSE /\ processed' = "no" /\ target' = NoTarget
    /\ UNCHANGED <<day, at, signals, frozen, rows, book, made, followed, excused>>

\* mutant of CacheAtStart: the rebuilt cache counts a position twice
CacheDoubled == {[s \in Stocks |-> 2 * held[s]]}

CacheAtStart == IF CacheLags THEN {c \in [Stocks -> 0..MaxShares] : \A s \in Stocks : c[s] <= held[s]}
                             ELSE {held}

Start ==
    /\ ~up /\ up' = TRUE
    /\ signals' \in {signals, TRUE}
    /\ seen' \in CacheAtStart
    /\ reconciled' = FALSE
    /\ IF at = "early"
         THEN UNCHANGED <<applied, target, rows, made, followed, excused>>
         ELSE /\ applied' = TRUE
              /\ Ensure(IF at = "before" THEN "before" ELSE "continuous", target, seen', FALSE, signals')
    /\ UNCHANGED <<day, at, processed, frozen, held>>

Reconcile ==
    /\ up /\ ~reconciled
    /\ reconciled' = TRUE /\ seen' = held
    /\ UNCHANGED <<node, applied, processed, signals, frozen, target, rows, held,
                   made, followed, excused>>

-----------------------------------------------------------------------------
(* Convergence, the operator's freeze, and the clock *)

Desired(s) == IF s \in DOMAIN target.map THEN target.map[s] ELSE 0

Trade(s) ==
    /\ up /\ at = "open" /\ reconciled /\ target # NoTarget
    /\ held[s] # Desired(s)
    /\ held' = [held EXCEPT ![s] = Desired(s)]
    /\ seen' = held'
    /\ UNCHANGED <<node, applied, processed, signals, frozen, target, rows, reconciled,
                   made, followed, excused>>

Freeze ==
    /\ up /\ frozen' = ~frozen
    /\ UNCHANGED <<node, applied, processed, signals, target, rows, book, made, followed, excused>>

\* A node that is up at 09:27 runs its timer before the window opens.
Clock ==
    /\ at # "closed"
    /\ at = "before" /\ up => applied
    /\ at' = CASE at = "early" -> "before" [] at = "before" -> "open" [] at = "open" -> "closed"
    /\ followed' = IF at = "before" /\ target.day = day /\ target.kind = "plan" /\ target.map # Empty
                     THEN {target.map} ELSE followed
    /\ UNCHANGED <<day, up, applied, processed, signals, frozen, target, rows, book, made, excused>>

NextDay ==
    /\ at = "closed" /\ day < Days
    /\ day' = day + 1 /\ at' = "early"
    /\ applied' = FALSE /\ processed' = "no" /\ signals' = FALSE
    /\ rows' = NoRows /\ made' = {} /\ followed' = {} /\ excused' = {}
    /\ UNCHANGED <<up, frozen, target, book>>

Next ==
    \/ BeforeTimer \/ TimerProcesses \/ Refresh
    \/ Stop \/ Start \/ Reconcile
    \/ \E s \in Stocks : Trade(s)
    \/ Freeze \/ Clock \/ NextDay

Spec == Init /\ [][Next]_vars

\* The recorder's timer and the strategy's fire, and not every query fails for ever.
FairSpec ==
    /\ Spec
    /\ WF_vars(BeforeTimer)
    /\ SF_vars(TimerProcesses /\ Process)

-----------------------------------------------------------------------------
(* Properties *)

\* Types of the day's state; the map in force and the stored rows name known stocks.
TypeOK ==
    /\ day \in 1..Days /\ at \in Times
    /\ up \in BOOLEAN /\ applied \in BOOLEAN /\ processed \in Outcomes
    /\ signals \in BOOLEAN /\ frozen \in BOOLEAN /\ reconciled \in BOOLEAN
    /\ target \in [day : 0..Days, map : Maps, kind : Kinds, exits : SUBSET Stocks]
    /\ rows \in [{"before", "continuous"} -> Maps]
    /\ held \in [Stocks -> 0..MaxShares] /\ seen \in [Stocks -> 0..MaxShares]
    /\ made \subseteq Plans /\ followed \subseteq Maps
    /\ excused \subseteq {"load", "write", "frozen"}

\* "Persist the newly generated plan before it becomes executable": a plan of today that
\* is in force is what a restart would load, even after the strategy's own write failed;
\* only a read or a write that failed the recorder, or a freeze, excuses a difference.
InForceIsStored ==
    target.day = day /\ target.kind = "plan" /\ excused \cap {"load", "write", "frozen"} = {}
        => Stored = target.map

\* The shares of the day are frozen: whatever restarts and refreshes there are, trading
\* follows one plan a day, unless the recorder's read or write failed, or updates were
\* frozen.
OneFrozenPlan ==
    excused \cap {"load", "write", "frozen"} = {} => \A m, n \in followed : m = n

\* What is in force, and what a restart would load, is one plan as the risk manager
\* made it, never pieces of two.
PlanIsWhole ==
    /\ target.day = day /\ target.kind = "plan" /\ target.map # Empty => target.map \in made
    /\ Stored # Empty => Stored \in made

\* "Local safety plan preserves holdings and zeros only forced exits" (a test of
\* model_prediction_targets): under a safety plan trading sells nothing else, through
\* restarts, refreshes and trades, whether the cache of the start was right or the mass
\* status corrected it before the plan was made.
SafetyKeepsHoldings ==
    target.kind = "safety" /\ target.day = day =>
        \A s \in Stocks \ target.exits : Desired(s) = held[s]

\* The same of a plan made from a cache that lagged: the code does not ensure it.
BlindKeepsHoldings ==
    target.kind = "blind" /\ target.day = day =>
        \A s \in Stocks \ target.exits : Desired(s) = held[s]

\* The day gets its target: when a node stays up with the window open, on whatever day and
\* after whatever restarts, refreshes, raises and freezes, the process never stays for good
\* without a target of that day, unless its own last processing of the day could not store
\* the plan, or met a freeze.
DayGetsTarget ==
    <>[](up /\ at = "open") =>
        []<>(target.day = day \/ processed \in {"unstored", "frozen"})
===============================================================================
