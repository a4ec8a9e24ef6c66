---------------------------- MODULE TradingControl ----------------------------
(***************************************************************************)
(* Manual sells against the running strategy: src/strategies/              *)
(* trading_control.py with the parts of target_quantities.py it drives.    *)
(*                                                                         *)
(* The control server answers every HTTP request on a thread of its own    *)
(* (Requests); the strategy runs on the node loop (Loop).  Both run        *)
(* update_target_quantities and convergence cycles on the same fields, and *)
(* one lock, which cycles and the reading half of a sell take, is all that *)
(* keeps them apart.  An action is what a thread does between two points   *)
(* where another thread can make a difference.                             *)
(*                                                                         *)
(* The strategy has reconciled with the broker, cash is never short and no *)
(* latch is set: those are the concern of TargetExecutor.                  *)
(***************************************************************************)
EXTENDS Integers, FiniteSets, FiniteSetsExt

CONSTANTS
    Instruments,
    Requests,        \* threads of the control server
    Loop,            \* the thread of the node loop
    RefreshMaps,     \* target maps the daily and hourly refresh may deliver
    InitTargets,     \* target map in force at the start
    InitHeld,        \* holdings at the start of the day
    MaxShares,       \* bound on the shares of a holding or a target
    Buttons,         \* what operators use: "sell", "sell_all", "pause", "freeze"
    ExitNonTargets,  \* config.exit_non_targets
    LockTimesOut,    \* a wait for the lock may exceed its 5 seconds
    WindowShuts,     \* the trading window may be shut
    Drops            \* the broker may cancel or reject an order

Threads  == Requests \cup {Loop}
NoTarget == -1       \* the map has no entry for the instrument
NoReport == -1       \* the broker has not reported the instrument's sellable shares
Free     == "free"   \* nobody holds the lock

Maps == [Instruments -> 0 .. MaxShares \cup {NoTarget}]

ASSUME ThreadsAssumption ==
    /\ Loop \notin Requests
    /\ Free \notin Threads

ASSUME SharesAssumption ==
    /\ IsFiniteSet(Instruments)
    /\ MaxShares \in Nat
    /\ InitTargets \in Maps /\ RefreshMaps \subseteq Maps
    /\ InitHeld \in [Instruments -> 0 .. MaxShares]
    /\ Buttons \subseteq {"sell", "sell_all", "pause", "freeze"}
    /\ {ExitNonTargets, LockTimesOut, WindowShuts, Drops} \subseteq BOOLEAN

VARIABLES
    targets,         \* _target_quantities
    reason,          \* _target_reason
    version,         \* _target_version
    achieved,        \* _achieved_versions
    paused,          \* _trading_paused
    updatesPaused,   \* _target_updates_paused
    lock,            \* control_converge_lock: its holder, or Free
    pc,              \* what each thread is about to do
    job,             \* each thread's locals
    held,            \* the holdings, as the cache and the broker have them
    working,         \* shares each instrument's order still buys (> 0) or sells (< 0)
    today,           \* shares of each holding bought today, which may not be sold
    canUse,          \* broker sellable map of the last mass status
    lowered,         \* history: where an open sell had shares frozen in that map
    misread          \* history: entries of the map in force read from such a figure

mapVars   == <<targets, reason, version, achieved, misread>>
flagVars  == <<paused, updatesPaused>>
bookVars  == <<held, working, today, canUse, lowered>>
vars      == <<mapVars, flagVars, lock, pc, job, bookVars>>

Reasons == {"refresh", "manual_sell", "manual_sell_all"}

Version(m, r) ==   \* target_version: the count and the total, not the entries
    LET named == {i \in Instruments : m[i] # NoTarget}
    IN  <<r, Cardinality(named), MapThenSumSet(LAMBDA i : m[i], named)>>

NoPlan == [i \in Instruments |-> 0]

\* names: what a sell is to sell; map, why: the map to apply; plan: the orders a
\* cycle is about to send; forced: the cycle runs with force=True; misread: history,
\* as above for the map to apply.
Job == [names : SUBSET Instruments, map : Maps, misread : SUBSET Instruments, why : Reasons,
        plan : [Instruments -> Int], forced : BOOLEAN]

NoJob == [names |-> {}, map |-> InitTargets, misread |-> {}, why |-> "refresh",
          plan |-> NoPlan, forced |-> FALSE]

Init ==
    /\ targets = InitTargets /\ reason = "refresh"
    /\ version = Version(InitTargets, "refresh") /\ achieved = {}
    /\ paused = FALSE /\ updatesPaused = FALSE
    /\ lock = Free
    /\ pc = [t \in Threads |-> "idle"]
    /\ job = [t \in Threads |-> NoJob]
    /\ held = InitHeld
    /\ working = NoPlan
    /\ today = NoPlan
    /\ canUse = [i \in Instruments |-> IF InitHeld[i] > 0 THEN InitHeld[i] ELSE NoReport]
    /\ lowered = {} /\ misread = {}

Goto(t, here, there) == pc[t] = here /\ pc' = [pc EXCEPT ![t] = there]

Unlock(t) == lock' = IF lock = t THEN Free ELSE lock

\* Where a thread goes on after an ordinary convergence, or none, in an update; a
\* thread that ends its handler forgets its locals.
Return(t, here) ==
    IF t \in Requests /\ ~job[t].forced
    THEN Goto(t, here, "force") /\ UNCHANGED job
    ELSE Goto(t, here, "idle") /\ job' = [job EXCEPT ![t] = NoJob]

-----------------------------------------------------------------------------
(* update_target_quantities, on the loop and in a sell *)

\* The guard of every caller but a sell, then the depth subscriptions, which may
\* sleep ten seconds before the map is touched.
Refresh(m) ==
    /\ Goto(Loop, "idle", "update")
    /\ ~updatesPaused
    /\ ~(version = Version(m, "refresh") /\ targets = m)
    /\ job' = [job EXCEPT ![Loop].map = m, ![Loop].why = "refresh"]
    /\ UNCHANGED <<mapVars, flagVars, lock, bookVars>>

SetTargets(t) ==
    /\ Goto(t, "update", "version")
    /\ targets' = job[t].map
    /\ reason' = job[t].why
    /\ misread' = job[t].misread
    /\ UNCHANGED <<version, achieved, flagVars, lock, job, bookVars>>

SetVersion(t) ==
    /\ Goto(t, "version", "discard")
    /\ version' = Version(job[t].map, job[t].why)
    /\ UNCHANGED <<targets, reason, achieved, misread, flagVars, lock, job, bookVars>>

DiscardAchieved(t) ==
    /\ Goto(t, "discard", "converge")
    /\ achieved' = achieved \ {Version(job[t].map, job[t].why)}
    /\ job' = IF t = Loop THEN [job EXCEPT ![t] = NoJob] ELSE job
    /\ UNCHANGED <<targets, reason, version, misread, flagVars, lock, bookVars>>

-----------------------------------------------------------------------------
(* _converge_to_target *)

OpenGate == TRUE   \* mutant of Gate: the pause flag is not consulted

Gate == ~paused

\* Any trigger on the loop; the last step of an update on either thread.  The lock
\* is tried, not waited for.
EnterOrdinary(t) ==
    /\ Goto(t, IF t = Loop /\ pc[t] = "idle" THEN "idle" ELSE "converge", "look")
    /\ Gate
    /\ lock = Free
    /\ lock' = t
    /\ UNCHANGED <<mapVars, flagVars, job, bookVars>>

SkipOrdinary(t) ==
    /\ paused \/ lock # Free \/ WindowShuts
    /\ Return(t, "converge")
    /\ UNCHANGED <<mapVars, flagVars, lock, bookVars>>

EnterForcedAnyway(t) ==   \* mutant of EnterForced: the failed acquire goes unnoticed
    /\ Goto(t, "force", "look")
    /\ lock' = t
    /\ job' = [job EXCEPT ![t].forced = TRUE]
    /\ UNCHANGED <<mapVars, flagVars, bookVars>>

EnterForced(t) ==
    /\ Goto(t, "force", "look")
    /\ lock = Free
    /\ lock' = t
    /\ job' = [job EXCEPT ![t].forced = TRUE]
    /\ UNCHANGED <<mapVars, flagVars, bookVars>>

SkipForced(t) ==
    /\ WindowShuts \/ (LockTimesOut /\ lock # Free)
    /\ Goto(t, "force", "idle")
    /\ job' = [job EXCEPT ![t] = NoJob]
    /\ UNCHANGED <<mapVars, flagVars, lock, bookVars>>

(* _converge_to_target_locked *)

Desired(i) ==
    IF targets[i] = NoTarget /\ ExitNonTargets /\ held[i] > 0 THEN 0 ELSE targets[i]

\* venue_sellable_quantity where the broker reported one, else what was not bought today
Sellable(i) == IF canUse[i] # NoReport THEN canUse[i] ELSE held[i] - today[i]

Least(m, n) == IF m <= n THEN m ELSE n

\* The order a cycle sends for an instrument with none at work, 0 for none.
Wanted(i) ==
    IF Desired(i) = NoTarget \/ working[i] # 0 THEN 0
    ELSE IF Desired(i) >= held[i] THEN Desired(i) - held[i]
    ELSE 0 - Least(held[i] - Desired(i), Sellable(i))

\* An achieved version ends the cycle; otherwise the orders to send are decided.
SkipAchieved(t) ==
    /\ version \in achieved
    /\ Return(t, "look")
    /\ Unlock(t)
    /\ UNCHANGED <<mapVars, flagVars, bookVars>>

Look(t) ==
    /\ Goto(t, "look", "send")
    /\ version \notin achieved
    /\ job' = [job EXCEPT ![t].plan = [i \in Instruments |-> Wanted(i)]]
    /\ UNCHANGED <<mapVars, flagVars, lock, bookVars>>

Send(t) ==
    /\ Goto(t, "send", "judge")
    /\ working' = [i \in Instruments |-> working[i] + job[t].plan[i]]
    /\ job' = [job EXCEPT ![t].plan = NoPlan]
    /\ UNCHANGED <<mapVars, flagVars, lock, held, today, canUse, lowered>>

\* _target_achieved
OnTarget ==
    \A i \in Instruments :
        working[i] = 0 /\ (Desired(i) # NoTarget => held[i] = Desired(i))

JudgeAchieved(t) ==
    /\ OnTarget
    /\ Goto(t, "judge", "mark")
    /\ UNCHANGED <<mapVars, flagVars, lock, job, bookVars>>

JudgeNot(t) ==
    /\ ~OnTarget
    /\ Return(t, "judge")
    /\ Unlock(t)
    /\ UNCHANGED <<mapVars, flagVars, bookVars>>

\* The version that is added is the one in force now.
MarkAchieved(t) ==
    /\ achieved' = achieved \cup {version}
    /\ Return(t, "mark")
    /\ Unlock(t)
    /\ UNCHANGED <<targets, reason, version, misread, flagVars, bookVars>>

-----------------------------------------------------------------------------
(* TradingController.sell *)

RequestSell(c, names, why) ==
    /\ Goto(c, "idle", "acquire")
    /\ job' = [job EXCEPT ![c].names = names, ![c].why = why]
    /\ UNCHANGED <<mapVars, flagVars, lock, bookVars>>

AcquireToRead(c) ==
    /\ Goto(c, "acquire", "read")
    /\ lock = Free
    /\ lock' = c
    /\ UNCHANGED <<mapVars, flagVars, job, bookVars>>

\* TimeoutError, answered 503
GiveUp(c) ==
    /\ LockTimesOut /\ lock # Free
    /\ Goto(c, "acquire", "idle")
    /\ job' = [job EXCEPT ![c] = NoJob]
    /\ UNCHANGED <<mapVars, flagVars, lock, bookVars>>

\* Holdings that are asked for and whose sellable shares are known
Affected(names) == {i \in names : held[i] > 0 /\ canUse[i] # NoReport}

RemainderSwapped(i) == canUse[i]   \* mutant of Remainder: the shares to sell are kept

Remainder(i) == IF canUse[i] < held[i] THEN held[i] - canUse[i] ELSE 0

SellMapCopied(names, why) ==   \* mutant of SellMap: sell_all copies the targets too
    [i \in Instruments |-> IF i \in Affected(names) THEN Remainder(i) ELSE targets[i]]

SellMap(names, why) ==
    [i \in Instruments |->
        IF i \in Affected(names) THEN Remainder(i)
        ELSE IF why = "manual_sell" THEN targets[i]
        ELSE NoTarget]

Kept(c) == lock' = lock   \* mutant of Released: the lock is kept until the end

Released(c) == Unlock(c)

\* The lock is released here, before the new map is applied.
ReadBook(c) ==
    LET affected == Affected(job[c].names)
    IN  /\ Released(c)
        /\ IF affected = {}
           THEN Goto(c, "read", "idle") /\ job' = [job EXCEPT ![c] = NoJob]
           ELSE /\ Goto(c, "read", "apply")
                /\ job' = [job EXCEPT ![c].names = affected,
                                      ![c].map = SellMap(job[c].names, job[c].why),
                                      ![c].misread = affected \cap lowered]
        /\ UNCHANGED <<mapVars, flagVars, bookVars>>

\* control_apply_targets: an unchanged map is left alone, any other taken over
Apply(c) ==
    /\ Goto(c, "apply", IF version = Version(job[c].map, job[c].why) /\ targets = job[c].map
                        THEN "force" ELSE "update")
    /\ UNCHANGED <<mapVars, flagVars, lock, job, bookVars>>

-----------------------------------------------------------------------------
(* The operators' switches; PauseControl has what happens inside them *)

SetPaused ==
    /\ "pause" \in Buttons
    /\ paused' = ~paused
    /\ UNCHANGED <<mapVars, updatesPaused, lock, pc, job, bookVars>>

SetTargetUpdatesPaused ==
    /\ "freeze" \in Buttons
    /\ updatesPaused' = ~updatesPaused
    /\ UNCHANGED <<mapVars, paused, lock, pc, job, bookVars>>

(* The broker, whose reports the loop applies between two of its handlers *)

Reports == pc[Loop] = "idle"

\* A sale the broker would not let go is not filled.
Fill(i, q) ==
    /\ Reports
    /\ \/ /\ q \in 1 .. working[i]
          /\ held' = [held EXCEPT ![i] = @ + q]
          /\ today' = [today EXCEPT ![i] = @ + q]
          /\ working' = [working EXCEPT ![i] = @ - q]
       \/ /\ q \in 1 .. (0 - working[i])
          /\ q <= held[i] - today[i]
          /\ held' = [held EXCEPT ![i] = @ - q]
          /\ working' = [working EXCEPT ![i] = @ + q]
          /\ UNCHANGED today
    /\ UNCHANGED <<mapVars, flagVars, lock, pc, job, canUse, lowered>>

Drop(i) ==
    /\ Reports
    /\ Drops \/ held[i] - today[i] < 0 - working[i]
    /\ working[i] # 0
    /\ working' = [working EXCEPT ![i] = 0]
    /\ UNCHANGED <<mapVars, flagVars, lock, pc, job, held, today, canUse, lowered>>

\* Shares an open sell freezes at the broker, which lets no order freeze more than
\* the account may sell.
Frozen(i) ==
    IF working[i] < 0 /\ 0 - working[i] <= held[i] - today[i] THEN 0 - working[i] ELSE 0

MassStatus ==
    /\ Reports
    /\ canUse' = [i \in Instruments |->
                     IF held[i] = 0 THEN NoReport ELSE held[i] - today[i] - Frozen(i)]
    /\ lowered' = {i \in Instruments : Frozen(i) > 0}
    /\ UNCHANGED <<mapVars, flagVars, lock, pc, job, held, working, today>>

-----------------------------------------------------------------------------
Update(t) == SetTargets(t) \/ SetVersion(t) \/ DiscardAchieved(t)

Cycle(t) == SkipAchieved(t) \/ Look(t) \/ Send(t) \/ JudgeAchieved(t) \/ JudgeNot(t)
                \/ MarkAchieved(t)

\* What a thread does once it is under way
Step(t) == Update(t) \/ SkipOrdinary(t) \/ (pc[t] = "converge" /\ EnterOrdinary(t))
                \/ Cycle(t)

SellStep(c) == AcquireToRead(c) \/ GiveUp(c) \/ ReadBook(c) \/ Apply(c)
                   \/ EnterForced(c) \/ SkipForced(c)

Operators ==
    \/ \E c \in Requests :
          \/ \E i \in Instruments : "sell" \in Buttons /\ RequestSell(c, {i}, "manual_sell")
          \/ "sell_all" \in Buttons /\ RequestSell(c, Instruments, "manual_sell_all")
    \/ SetPaused
    \/ SetTargetUpdatesPaused

Broker ==
    \/ \E i \in Instruments : Drop(i) \/ \E q \in 1 .. MaxShares : Fill(i, q)
    \/ MassStatus

Next ==
    \/ \E m \in RefreshMaps : Refresh(m)
    \/ EnterOrdinary(Loop)
    \/ \E t \in Threads : Step(t)
    \/ \E c \in Requests : SellStep(c)
    \/ Operators
    \/ Broker

Spec == Init /\ [][Next]_vars

\* Threads that are not blocked run; a wait for the lock is not starved, since the
\* loop only tries it and holds it for one cycle between two events.
Fairness ==
    /\ \A t \in Threads : WF_vars(Step(t))
    /\ \A c \in Requests : SF_vars(AcquireToRead(c)) /\ SF_vars(EnterForced(c))
                               /\ WF_vars(SellStep(c))

FairSpec == Spec /\ Fairness

-----------------------------------------------------------------------------
(* Properties *)

\* Types of the fields the threads share, of their locals and of the books.
TypeOK ==
    /\ targets \in Maps /\ reason \in Reasons
    /\ paused \in BOOLEAN /\ updatesPaused \in BOOLEAN
    /\ lock \in Threads \cup {Free}
    /\ pc \in [Threads -> {"idle", "acquire", "read", "apply", "update", "version",
                          "discard", "converge", "force", "look", "send", "judge", "mark"}]
    /\ job \in [Threads -> Job]
    /\ held \in [Instruments -> 0 .. MaxShares]
    /\ today \in [Instruments -> 0 .. MaxShares]
    /\ working \in [Instruments -> (0 - MaxShares) .. MaxShares]
    /\ canUse \in [Instruments -> 0 .. MaxShares \cup {NoReport}]
    /\ lowered \in SUBSET Instruments /\ misread \in SUBSET Instruments

\* Cycles of two threads never add up: what is at work never sells more than is held,
\* nor buys past the largest target.  Each cycle decides before it sends, so without
\* the lock two of them would send the same difference twice.
WithinBooks == \A i \in Instruments : held[i] + working[i] \in 0 .. MaxShares

CycleLooks(t) == pc[t] = "look" /\ pc'[t] = "send"

\* "The sell-all must leave the book flat, never long anything" (TradingController.
\* sell): while the map in force is a sell-all's, no cycle of any thread decides to buy
\* anything, but for names whose sellable shares the sell read from a mass status that
\* lacked those an open sell had frozen: there it keeps shares the open sell still sells.
SellAllNeverBuys ==
    [][reason = "manual_sell_all" =>
          \A t \in Threads : CycleLooks(t) =>
              \A i \in Instruments \ misread : job'[t].plan[i] <= 0]_vars

\* The same without the exception, which TLC refutes: sell-all, mass status, sell-all,
\* fill of the first, and the cycle buys the frozen shares back.
SellAllNeverBuysAtAll ==
    [][reason = "manual_sell_all" =>
          \A t \in Threads : CycleLooks(t) => \A i \in Instruments : job'[t].plan[i] <= 0]_vars

OrdinarySend == \E t \in Threads : pc[t] = "send" /\ pc'[t] = "judge" /\ ~job[t].forced

\* A pause that stands stops ordinary trading: the cycle that had passed the gate may
\* still send, a refresh or a sell's own update may not start another.
PauseStopsTrading == <>[]paused => <>[][~OrdinarySend]_vars

\* Every request is answered: no thread waits for a lock it holds itself or that is
\* never released.
RequestsEnd == \A c \in Requests : pc[c] # "idle" ~> pc[c] = "idle"

\* "A forced (manual-sell) convergence must not be silently dropped" (_converge_to_
\* target): a forced cycle that ends leaves an order on each holding it was to lower.
ForcedSellRuns ==
    [][\A c \in Requests :
          job[c].forced /\ pc[c] # "idle" /\ pc'[c] = "idle" =>
              \A i \in job[c].names :
                  held[i] > job[c].map[i] /\ Sellable(i) > 0 => working[i] # 0]_vars

\* While target updates are paused "a fresh target cannot clobber the sell before its
\* forced convergence runs" (update_target_quantities).
SellNotClobbered ==
    [][updatesPaused /\ reason = "manual_sell" => reason' # "refresh"]_vars

\* A per-name sell must "preserve every other instrument's target" (TradingController.
\* sell): what it applies is the map in force but for the names it sells.
SellKeepsOthers ==
    [][\A c \in Requests :
          pc[c] = "update" /\ pc'[c] = "version" /\ job[c].why = "manual_sell" =>
              \A i \in Instruments \ job[c].names : targets'[i] = targets[i]]_vars

\* The sell is forced "so the sell runs even while paused" (trading_control.py): a
\* paused strategy does not come to rest with a sell it accepted, and did not count as
\* achieved, undone.
PausedSellRuns ==
    \A i \in Instruments :
        ~<>[](/\ paused /\ reason = "manual_sell" /\ version \notin achieved
              /\ \A t \in Threads : pc[t] = "idle"
              /\ working[i] = 0 /\ held[i] > targets[i] /\ targets[i] # NoTarget
              /\ Sellable(i) > 0 /\ held[i] > today[i])
=============================================================================
