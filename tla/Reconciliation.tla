---------------------------- MODULE Reconciliation ----------------------------
(***************************************************************************)
(* src/strategies/execution_reconciliation.py: the node asks the broker    *)
(* for a mass status when the strategy starts (on the node loop), after a  *)
(* refresh of reference data and at 09:15 (both on the clock's thread).    *)
(* Until one of the answers has been applied, convergence is held back.    *)
(*                                                                         *)
(* The coroutine runs on the loop.  run() reads self._task up to four      *)
(* times; the callback of an earlier request resets it in between.         *)
(***************************************************************************)
EXTENDS Naturals, FiniteSets

CONSTANTS
    Overlap,    \* whether the loop may be in run() together with the clock's thread
    Changes,    \* how often the account changes (bound)
    FlatAt      \* after which of these changes the account holds nothing

VARIABLES
    pc,         \* each request's place in run()
    task,       \* self._task: the request whose future it is, or Nobody
    future,     \* each request's coroutine: none, running, asked, set
    seen,       \* the account when the broker was asked
    outcome,    \* what the coroutine returned
    heard,      \* the futures to which each request's callback was added, not yet called
    calling,    \* the future whose callbacks the loop is in the middle of, or Nobody
    account,    \* number of changes of the account so far
    sellable,   \* _venue_sellable: the report it was taken from, or Never
    gate,       \* _reconciled_once
    reports     \* how often each request has ended with a status

vars == <<pc, task, future, seen, outcome, heard, calling, account, sellable, gate, reports>>
request == <<pc, heard, reports>>
broker  == <<account, seen, outcome>>

Callers == {"start", "refresh", "timer"}
RunsOn(r) == IF r = "start" THEN "loop" ELSE "clock"

Nobody == "none"
Never == Changes + 1

Flat(e) == e \in FlatAt

Init ==
    /\ pc = [r \in Callers |-> "idle"]
    /\ future = [r \in Callers |-> "none"]
    /\ seen = [r \in Callers |-> 0]
    /\ outcome = [r \in Callers |-> Nobody]
    /\ heard = [r \in Callers |-> {}]
    /\ reports = [r \in Callers |-> 0]
    /\ task = Nobody /\ calling = Nobody
    /\ account = 0 /\ sellable = Never /\ gate = FALSE

Ended(r) == pc[r] \in {"idle", "over", "died"}

\* A thread does one thing at a time; the loop may be in a callback.
MayStart(r) ==
    /\ \A s \in Callers : RunsOn(s) = RunsOn(r) \/ ~Overlap => Ended(s)
    /\ RunsOn(r) = "loop" => calling = Nobody

LoopFree == calling = Nobody /\ \A s \in Callers : RunsOn(s) = "loop" => Ended(s)

Goto(r, here, there) == pc[r] = here /\ pc' = [pc EXCEPT ![r] = there]
Reported(r) == reports' = [reports EXCEPT ![r] = @ + 1]

-----------------------------------------------------------------------------
(* run() *)

Enter(r) ==
    /\ MayStart(r)
    /\ Goto(r, "idle", IF task = Nobody THEN "start" ELSE "check")
    /\ UNCHANGED <<task, future, broker, heard, calling, sellable, gate, reports>>

StrategyStarts     == Enter("start")
ReferenceRefreshed == Enter("refresh")     \* whether the refresh itself succeeded or not
DailyAlert         == Enter("timer")       \* _on_timer sets the alert of the next day first

Done(t) == future[t] = "set"

\* The second read: the attribute may have become None.
Check(r) ==
    /\ IF task = Nobody
         THEN Goto(r, "check", "died") /\ UNCHANGED reports
         ELSE IF Done(task)
                THEN Goto(r, "check", "start") /\ UNCHANGED reports
                ELSE Goto(r, "check", "over") /\ Reported(r)     \* skipped
    /\ UNCHANGED <<task, future, broker, heard, calling, sellable, gate>>

StartFails(r) ==
    /\ Goto(r, "start", "over") /\ Reported(r)
    /\ UNCHANGED <<task, future, broker, heard, calling, sellable, gate>>

Submit(r) ==
    /\ Goto(r, "start", "assign")
    /\ future' = [future EXCEPT ![r] = "running"]
    /\ UNCHANGED <<task, broker, heard, calling, sellable, gate, reports>>

Assign(r) ==
    /\ Goto(r, "assign", "register")
    /\ task' = r
    /\ UNCHANGED <<future, broker, heard, calling, sellable, gate, reports>>

-----------------------------------------------------------------------------
(* _on_done: the callback of request r with the future of request t *)

OpenedByReportOnly(t) == gate              \* mutant of Opened: only a report opens the gate

Opened(t) == gate \/ outcome[t] = "ok"     \* _log_result

\* The callback was added to the future that self._task then was.
Register(r) ==
    IF task = Nobody
      THEN /\ Goto(r, "register", "died")
           /\ UNCHANGED <<task, future, broker, heard, calling, sellable, gate, reports>>
      ELSE IF Done(task)
      THEN \* called at once, on this thread
           /\ Goto(r, "register", "over") /\ Reported(r)
           /\ task' = Nobody
           /\ gate' = Opened(task)
           /\ UNCHANGED <<future, broker, heard, calling, sellable>>
      ELSE /\ Goto(r, "register", "over")
           /\ heard' = [heard EXCEPT ![r] = @ \cup {task}]
           /\ UNCHANGED <<task, future, broker, calling, sellable, gate, reports>>

Callback(r) ==
    /\ calling # Nobody /\ calling \in heard[r]
    /\ task' = Nobody
    /\ gate' = Opened(calling)
    /\ Reported(r)
    /\ heard' = [heard EXCEPT ![r] = @ \ {calling}]
    /\ UNCHANGED <<pc, future, broker, calling, sellable>>

CallbacksOver ==
    /\ calling # Nobody /\ \A r \in Callers : calling \notin heard[r]
    /\ calling' = Nobody
    /\ UNCHANGED <<request, task, future, broker, sellable, gate>>

-----------------------------------------------------------------------------
(* The coroutine, and the account *)

Ask(r) ==
    /\ LoopFree
    /\ future[r] = "running"
    /\ future' = [future EXCEPT ![r] = "asked"]
    /\ seen' = [seen EXCEPT ![r] = account]
    /\ UNCHANGED <<request, task, outcome, calling, account, sellable, gate>>

\* update_from_mass_status returns early on a report without positions
Replaced(e) == IF Flat(e) THEN sellable ELSE e

\* Answered in time or not; the mass status is published before the future is set.
Answer(r, o) ==
    /\ LoopFree
    /\ future[r] = "asked"
    /\ future' = [future EXCEPT ![r] = "set"]
    /\ outcome' = [outcome EXCEPT ![r] = o]
    /\ sellable' = IF o = "ok" THEN Replaced(seen[r]) ELSE sellable
    /\ gate' = (gate \/ (o = "ok" /\ ~Flat(seen[r])))
    /\ calling' = r
    /\ UNCHANGED <<request, task, seen, account>>

Change ==
    /\ account < Changes
    /\ account' = account + 1
    /\ UNCHANGED <<request, task, future, seen, outcome, calling, sellable, gate>>

Next ==
    \/ StrategyStarts \/ ReferenceRefreshed \/ DailyAlert
    \/ \E r \in Callers :
         \/ Check(r) \/ StartFails(r) \/ Submit(r) \/ Assign(r) \/ Register(r)
         \/ Callback(r) \/ Ask(r) \/ \E o \in {"ok", "late", "raised"} : Answer(r, o)
    \/ CallbacksOver
    \/ Change

Spec == Init /\ [][Next]_vars

-----------------------------------------------------------------------------
(* Properties *)

\* Types of the places, the futures and the reports.
TypeOK ==
    /\ pc \in [Callers -> {"idle", "check", "start", "assign", "register", "over", "died"}]
    /\ task \in Callers \cup {Nobody} /\ calling \in Callers \cup {Nobody}
    /\ future \in [Callers -> {"none", "running", "asked", "set"}]
    /\ heard \in [Callers -> SUBSET Callers]
    /\ account \in 0..Changes /\ sellable \in 0..Never
    /\ gate \in BOOLEAN /\ reports \in [Callers -> Nat]

Quiet ==
    /\ calling = Nobody
    /\ \A r \in Callers : Ended(r) /\ future[r] \in {"none", "set"}

\* No two coroutines ask the broker at the same time, so that the last report applied
\* is the newest: the shares taken for sellable are never older than those before.
NewestMapWins == [][sellable # Never => sellable' >= sellable]_vars

\* Whatever the callbacks do to self._task while the clock's thread is in run(): no request
\* ends twice, and once all is quiet each has ended once, unless it met a None where it
\* expected a future; and an answer has then opened the gate of convergence, "even for an
\* account with zero open positions".
AnswerHeard ==
    \A r \in Callers :
        /\ reports[r] <= 1
        /\ Quiet /\ pc[r] = "over" =>
             /\ reports[r] = 1
             /\ outcome[r] = "ok" => gate

\* "a later empty report replaces the map": once an empty account has been reported and
\* nothing since, no older report's shares are taken for sellable.
EmptyReportReplaces ==
    [][\A r \in Callers :
          outcome[r] # "ok" /\ outcome'[r] = "ok" /\ Flat(seen[r]) => sellable' \in {seen[r], Never}]_vars
=============================================================================
