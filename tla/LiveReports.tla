------------------------------ MODULE LiveReports ------------------------------
(***************************************************************************)
(* What a live node tells of itself without being asked: the summaries of  *)
(* its timed events (FixedTimeEventReporter in                             *)
(* src/monitoring/dingtalk_alert.py), which one worker thread posts to     *)
(* DingTalk, and the gauges that the exporter (src/lives/monitoring.py)    *)
(* sets on the node's loop while Prometheus reads them from a thread of    *)
(* its own.                                                                *)
(***************************************************************************)
EXTENDS Naturals, Sequences, FiniteSets

CONSTANTS
    Events,     \* summaries in one run of the node (bound)
    Rounds,     \* collections (bound)
    Gauges,     \* the exporter's gauges, a sequence in the order they are set
    Own         \* the first so many are of the account, the others of the strategy's health

VARIABLES
    process,    \* "runs", "ends" (the interpreter waits for the worker) or "gone"
    reported,   \* summaries reported so far; the n-th is the number n
    queue,      \* those submitted and not begun
    posting,    \* those that workers post
    delivered,  \* those that DingTalk took, in that order
    failed,     \* those it did not take: they are not tried again
    account,    \* whether an account has reached the cache
    round,      \* collections begun
    next,       \* the next gauge to set, 0 while no collection runs
    gauge,      \* gauge -> the round that set it last
    up,         \* qapp_exporter_up
    finished    \* the last collection that has ended, in whatever way

reports == <<reported, queue, posting, delivered, failed>>
exporter == <<account, round, next, gauge, up, finished>>
vars == <<process, reports, exporter>>

Names == {Gauges[i] : i \in DOMAIN Gauges}

Init ==
    /\ process = "runs"
    /\ reported = 0 /\ queue = <<>> /\ posting = {} /\ delivered = <<>> /\ failed = {}
    /\ account = FALSE /\ round = 0 /\ next = 0
    /\ gauge = [g \in Names |-> 0] /\ up = FALSE /\ finished = 0

-----------------------------------------------------------------------------
(* The reporter *)

\* report: the worker gets a copy, so what the caller does later does not matter
Report ==
    /\ process = "runs" /\ reported < Events
    /\ reported' = reported + 1 /\ queue' = Append(queue, reported + 1)
    /\ UNCHANGED <<process, posting, delivered, failed, exporter>>

TwoWorkers == 2     \* mutant of Workers: the executor has more than one

Workers == 1        \* max_workers

Take ==
    /\ process # "gone" /\ queue # <<>> /\ Cardinality(posting) < Workers
    /\ posting' = posting \cup {Head(queue)} /\ queue' = Tail(queue)
    /\ UNCHANGED <<process, reported, delivered, failed, exporter>>

\* _send: the webhook takes the message, or it is logged and gone
Post(n) ==
    /\ process # "gone" /\ n \in posting
    /\ posting' = posting \ {n}
    /\ \/ delivered' = Append(delivered, n) /\ UNCHANGED failed
       \/ failed' = failed \cup {n} /\ UNCHANGED delivered
    /\ UNCHANGED <<process, reported, queue, exporter>>

\* The end of the interpreter: nothing new is taken, what is queued is still posted.
End ==
    /\ \/ process = "runs" /\ process' = "ends"
       \/ process = "ends" /\ queue = <<>> /\ posting = {} /\ process' = "gone"
    /\ UNCHANGED <<reports, exporter>>

-----------------------------------------------------------------------------
(* The exporter *)

AccountLands ==
    /\ ~account /\ account' = TRUE
    /\ UNCHANGED <<process, reports, round, next, gauge, up, finished>>

\* collect without an account, or with a query that raises
CollectNothing ==
    /\ process = "runs" /\ next = 0 /\ round < Rounds
    /\ round' = round + 1 /\ finished' = round + 1 /\ up' = FALSE
    /\ UNCHANGED <<process, reports, account, next, gauge>>

Collect ==
    /\ process = "runs" /\ next = 0 /\ round < Rounds /\ account
    /\ round' = round + 1 /\ next' = 1
    /\ UNCHANGED <<process, reports, account, gauge, up, finished>>

\* _safe_set: a metric that cannot be had is set to 0, and that is a value too
SetGauge ==
    /\ next \in DOMAIN Gauges
    /\ gauge' = [gauge EXCEPT ![Gauges[next]] = round] /\ next' = next + 1
    /\ UNCHANGED <<process, reports, account, round, up, finished>>

\* _set_strategy_health raises, or there is no strategy to ask: the gauges that it has not
\* set yet stay as they are, and the collection goes on.
HealthFails ==
    /\ next \in Own + 1 .. Len(Gauges) /\ next' = Len(Gauges) + 1
    /\ UNCHANGED <<process, reports, account, round, gauge, up, finished>>

UpOnceUp(reached) == up \/ reached > Len(Gauges)     \* mutant of UpAfter: a failure changes nothing

\* qapp_exporter_up after a collection that got so far
UpAfter(reached) == reached > Len(Gauges)

\* The end of a collection, or an exception among the account's gauges.
CollectEnds ==
    /\ next \in 1 .. Own \cup {Len(Gauges) + 1} /\ next' = 0 /\ finished' = round
    /\ up' = UpAfter(next)
    /\ UNCHANGED <<process, reports, account, round, gauge>>

Next ==
    \/ Report \/ Take \/ End
    \/ \E n \in posting : Post(n)
    \/ AccountLands \/ CollectNothing \/ Collect \/ SetGauge \/ HealthFails \/ CollectEnds

Spec == Init /\ [][Next]_vars

-----------------------------------------------------------------------------
(* Properties *)

\* Types of the state.
TypeOK ==
    /\ process \in {"runs", "ends", "gone"} /\ reported \in 0 .. Events
    /\ queue \in Seq(1 .. Events) /\ delivered \in Seq(1 .. Events)
    /\ posting \cup failed \subseteq 1 .. Events
    /\ round \in 0 .. Rounds /\ next \in 0 .. Len(Gauges) + 1
    /\ gauge \in [Names -> 0 .. Rounds] /\ up \in BOOLEAN /\ finished \in 0 .. round

\* The operators read the events in the order in which they happened, each once, and a node
\* that ends by itself has tried to tell them all.
ToldInOrder ==
    /\ \A i, j \in DOMAIN delivered : i < j => delivered[i] < delivered[j]
    /\ process = "gone" => failed \cup {delivered[i] : i \in DOMAIN delivered} = 1 .. reported

\* "1 if the last metrics collection succeeded": whenever Prometheus reads it so, no gauge of
\* the account is older than the last collection that has ended.
UpMeansFresh == up => \A i \in 1 .. Own : gauge[Gauges[i]] >= finished

\* The gauges of the strategy's health may be: their failure is swallowed, so of all gauges
\* the same is false.
UpMeansAllFresh == up => \A g \in Names : gauge[g] >= finished
===============================================================================
