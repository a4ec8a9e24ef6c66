------------------------------- MODULE TickFetch -------------------------------
(***************************************************************************)
(* The full-tick fetches of src/strategies/target_quantities.py, and the   *)
(* export after the close that waits for one (lives/snapshot_recorder.py). *)
(* A fetch runs on the one worker of the fetch executor.  Requests come    *)
(* from clock callbacks, on whichever thread the clock uses.  A fetch's    *)
(* done callback runs on the worker, or on the requester's thread if the   *)
(* fetch has ended by then, and hands its result to the node loop.         *)
(*                                                                         *)
(* A step is one access to state that another thread uses.                 *)
(***************************************************************************)
EXTENDS Naturals, Sequences, FiniteSets

CONSTANTS
    Requests,   \* each is made once
    Role,       \* [Requests -> Roles]
    Thread,     \* [Requests -> threads]: the thread that makes it
    None

Roles == {"timer", "export", "prefetch"}
Kinds == {"market", "full"}

ASSUME FetchAssumption ==
    /\ Role \in [Requests -> Roles]
    /\ DOMAIN Thread = Requests
    /\ None \notin Requests

Kind(r) == IF Role[r] = "prefetch" THEN "full" ELSE "market"
Observing == {r \in Requests : Role[r] # "timer"}   \* those with an on_complete

VARIABLES
    task,       \* the future of each kind's fetch; a fetch is named by its request
    observers,  \* _whole_market_fetch_observers
    pc, saw,    \* each request's place, and the future it found running
    queue,      \* the executor's work queue
    worker,     \* the fetch the worker is at
    result,     \* what each future holds
    cb,         \* each done callback: its place, and the observers it copied
    loop,       \* callbacks handed to the node loop
    closed,     \* the final refresh time has passed
    postClose,  \* the source was called after it
    snapshot,   \* the fetch whose data _whole_market_status holds
    final,      \* today is in _whole_market_final_success_dates
    exported,   \* what each export wrote
    heard,      \* how often each on_complete was called
    late        \* requests that joined when the observers were taken, not yet cleared, or gone

asking == <<pc, saw>>
market == <<closed, postClose, snapshot, final, exported>>
vars == <<task, observers, pc, saw, queue, worker, result, cb, loop, closed, postClose,
          snapshot, final, exported, heard, late>>

Init ==
    /\ task = [k \in Kinds |-> None] /\ observers = {}
    /\ pc = [r \in Requests |-> "idle"] /\ saw = [r \in Requests |-> None]
    /\ queue = <<>> /\ worker = None
    /\ result = [r \in Requests |-> "pending"]
    /\ cb = [r \in Requests |-> [at |-> "none", taken |-> {}]]
    /\ loop = <<>>
    /\ closed = FALSE /\ postClose = [r \in Requests |-> FALSE]
    /\ snapshot = None /\ final = FALSE
    /\ exported = [r \in Requests |-> None]
    /\ heard = [r \in Requests |-> 0] /\ late = {}

Goto(r, here, there) == pc[r] = here /\ pc' = [pc EXCEPT ![r] = there]
Hear(who) == heard' = [r \in Requests |-> IF r \in who THEN heard[r] + 1 ELSE heard[r]]

-----------------------------------------------------------------------------
(* A request *)

ThreadFree(r) ==
    \A q \in Requests : Thread[q] = Thread[r] => pc[q] \in {"idle", "done", "raised"}

\* The first read of the guard: the attribute is None, or not.
Look(r) ==
    /\ ThreadFree(r)
    /\ Role[r] = "export" => closed /\ ~final
    /\ Goto(r, "idle", IF task[Kind(r)] = None THEN "start" ELSE "ask")
    /\ UNCHANGED <<task, observers, saw, queue, worker, result, cb, loop, market, heard, late>>

\* mutant of StillRuns: a fetch that waits for the worker is not seen
StillRunsOnWorker(f) == worker = f /\ result[f] = "pending"

StillRuns(f) == result[f] = "pending"

\* The second read asks the future, which may have been set to None since.
AskDone(r) ==
    /\ pc[r] = "ask" /\ task[Kind(r)] # None
    /\ saw' = [saw EXCEPT ![r] = task[Kind(r)]]
    /\ Goto(r, "ask", IF StillRuns(task[Kind(r)]) THEN "busy" ELSE "start")
    /\ UNCHANGED <<task, observers, queue, worker, result, cb, loop, market, heard, late>>

\* AttributeError: the export reports it as a failure, a timer only raises it.
AskNothing(r) ==
    /\ pc[r] = "ask" /\ task[Kind(r)] = None
    /\ Goto(r, "ask", IF Role[r] = "export" THEN "done" ELSE "raised")
    /\ Hear(IF Role[r] = "export" THEN {r} ELSE {})
    /\ UNCHANGED <<task, observers, saw, queue, worker, result, cb, loop, market, late>>

\* The observers of fetch f are taken, or another callback is about to clear the list.
TooLate(f) ==
    cb[f].at \in {"empty", "post", "over"} \/ \E g \in Requests : cb[g].at = "empty"

\* A running whole-market fetch is joined; a running full-tick fetch skips the request.
Busy(r) ==
    /\ Goto(r, "busy", "done")
    /\ observers' = IF Role[r] = "export" THEN observers \cup {r} ELSE observers
    /\ late' = IF Role[r] = "export" /\ TooLate(saw[r]) THEN late \cup {r} ELSE late
    /\ Hear(IF Role[r] = "prefetch" THEN {r} ELSE {})
    /\ UNCHANGED <<task, saw, queue, worker, result, cb, loop, market>>

Submit(r) ==
    /\ Goto(r, "start", "assign")
    /\ queue' = Append(queue, r)
    /\ UNCHANGED <<task, observers, saw, worker, result, cb, loop, market, heard, late>>

Assign(r) ==
    /\ Goto(r, "assign", "register")
    /\ task' = [task EXCEPT ![Kind(r)] = r]
    /\ UNCHANGED <<observers, saw, queue, worker, result, cb, loop, market, heard, late>>

\* add_done_callback: the requester runs the callback if the fetch is over.
Register(r) ==
    /\ Goto(r, "register", IF result[r] = "pending" THEN "done" ELSE "callback")
    /\ cb' = [cb EXCEPT ![r].at = IF result[r] = "pending" THEN "armed" ELSE "clear"]
    /\ UNCHANGED <<task, observers, saw, queue, worker, result, loop, market, heard, late>>

\* The final refresh has succeeded: the export needs no fetch.
ExportAtOnce(r) ==
    /\ Role[r] = "export" /\ closed /\ final /\ ThreadFree(r)
    /\ Goto(r, "idle", "done")
    /\ exported' = [exported EXCEPT ![r] = snapshot]
    /\ Hear({r})
    /\ UNCHANGED <<task, observers, saw, queue, worker, result, cb, loop, closed, postClose,
                   snapshot, final, late>>

-----------------------------------------------------------------------------
(* The worker *)

Take ==
    /\ worker = None /\ queue # <<>>
    /\ worker' = Head(queue) /\ queue' = Tail(queue)
    /\ postClose' = [postClose EXCEPT ![Head(queue)] = closed]
    /\ UNCHANGED <<task, observers, asking, result, cb, loop, closed, snapshot, final,
                   exported, heard, late>>

\* The worker goes on to the callback if one is registered.
Finish(outcome) ==
    /\ worker # None /\ result[worker] = "pending"
    /\ result' = [result EXCEPT ![worker] = outcome]
    /\ IF cb[worker].at = "armed"
         THEN cb' = [cb EXCEPT ![worker].at = "clear"] /\ UNCHANGED worker
         ELSE worker' = None /\ UNCHANGED cb
    /\ UNCHANGED <<task, observers, asking, queue, loop, market, heard, late>>

-----------------------------------------------------------------------------
(* The done callback of fetch f *)

CallbackAt(f, here, there) == cb[f].at = here /\ cb' = [cb EXCEPT ![f].at = there]

\* mutant of Cleared: the attribute keeps the finished future
KeptTask(f) == task

Cleared(f) == [task EXCEPT ![Kind(f)] = None]

ClearTask(f) ==
    /\ CallbackAt(f, "clear", IF Kind(f) = "market" THEN "copy" ELSE "post")
    /\ task' = Cleared(f)
    /\ UNCHANGED <<observers, asking, queue, worker, result, loop, market, heard, late>>

CopyObservers(f) ==
    /\ cb[f].at = "copy"
    /\ cb' = [cb EXCEPT ![f] = [at |-> "empty", taken |-> observers]]
    /\ UNCHANGED <<task, observers, asking, queue, worker, result, loop, market, heard, late>>

\* mutant of Emptied: the list is not cleared
EmptiedNot == observers

Emptied == {}

ClearObservers(f) ==
    /\ CallbackAt(f, "empty", "post")
    /\ observers' = Emptied
    /\ UNCHANGED <<task, asking, queue, worker, result, loop, market, heard, late>>

\* mutant of Told: a failure is reported to the request alone
ToldOfFailure(f) == IF result[f] = "failed" THEN {f} \cap Observing ELSE cb[f].taken \cup ({f} \cap Observing)

\* mutant of Told: a request without a callback is called back as well
ToldTimers(f) == cb[f].taken \cup {f}

Told(f) == cb[f].taken \cup ({f} \cap Observing)

\* A full-tick failure is reported from here; all else goes to the loop.
Post(f) ==
    /\ CallbackAt(f, "post", "over")
    /\ worker' = IF worker = f THEN None ELSE worker
    /\ pc' = IF pc[f] = "callback" THEN [pc EXCEPT ![f] = "done"] ELSE pc
    /\ IF Kind(f) = "full" /\ result[f] = "failed"
         THEN Hear(Told(f)) /\ UNCHANGED loop
         ELSE loop' = Append(loop, [fetch |-> f, who |-> Told(f)]) /\ UNCHANGED heard
    /\ UNCHANGED <<task, observers, saw, queue, result, market, late>>

-----------------------------------------------------------------------------
(* The node loop, and the clock *)

\* Data that arrive after the final time count as the final refresh.
Applied(f) ==
    IF result[f] = "success" /\ Kind(f) = "market"
      THEN snapshot' = f /\ final' = (final \/ closed)
      ELSE UNCHANGED <<snapshot, final>>

Deliver ==
    /\ loop # <<>>
    /\ loop' = Tail(loop)
    /\ LET f == Head(loop).fetch
           who == Head(loop).who
       IN  /\ Applied(f)
           /\ Hear(who)
           /\ exported' = [r \in Requests |->
                  IF r \in who /\ Role[r] = "export" /\ result[f] = "success" THEN f
                  ELSE exported[r]]
    /\ UNCHANGED <<task, observers, asking, queue, worker, result, cb, closed, postClose, late>>

Close ==
    /\ ~closed /\ closed' = TRUE
    /\ UNCHANGED <<task, observers, asking, queue, worker, result, cb, loop, postClose,
                   snapshot, final, exported, heard, late>>

Request(r) ==
    \/ Look(r) \/ AskDone(r) \/ AskNothing(r) \/ Busy(r)
    \/ Submit(r) \/ Assign(r) \/ Register(r) \/ ExportAtOnce(r)

Callback(f) == ClearTask(f) \/ CopyObservers(f) \/ ClearObservers(f) \/ Post(f)

Next ==
    \/ \E r \in Requests : Request(r) \/ Callback(r)
    \/ Take \/ (\E o \in {"success", "failed"} : Finish(o))
    \/ Deliver \/ Close

Spec == Init /\ [][Next]_vars

-----------------------------------------------------------------------------
(* Properties *)

\* Types of the futures, the places, the callbacks and what is handed to the loop.
TypeOK ==
    /\ task \in [Kinds -> Requests \cup {None}] /\ observers \subseteq Requests
    /\ pc \in [Requests -> {"idle", "ask", "busy", "start", "assign", "register", "callback",
                           "done", "raised"}]
    /\ saw \in [Requests -> Requests \cup {None}]
    /\ queue \in Seq(Requests) /\ worker \in Requests \cup {None}
    /\ result \in [Requests -> {"pending", "success", "failed"}]
    /\ \A r \in Requests :
           /\ cb[r].at \in {"none", "armed", "clear", "copy", "empty", "post", "over"}
           /\ cb[r].taken \subseteq Observing
    /\ \A i \in DOMAIN loop : loop[i].fetch \in Requests /\ loop[i].who \subseteq Observing
    /\ closed \in BOOLEAN /\ final \in BOOLEAN
    /\ snapshot \in Requests \cup {None} /\ exported \in [Requests -> Requests \cup {None}]
    /\ heard \in [Requests -> Nat] /\ late \subseteq Requests

Running(k) == {f \in Requests : Kind(f) = k /\ result[f] = "pending"
                                    /\ (worker = f \/ f \in {queue[i] : i \in DOMAIN queue})}

\* "Guards against overlapping runs (a slow whole-market call must not stack)": no two
\* fetches of a kind are at work.
NoOverlap == \A k \in Kinds : Cardinality(Running(k)) <= 1

\* A finished fetch's callback may forget the fetch started since, so a second one may
\* wait behind it; a third never does.
StackBounded == \A k \in Kinds : Cardinality(Running(k)) <= 2

\* An on_complete is called at most once, so an export is written once.
HeardOnce == \A r \in Requests : heard[r] <= 1

Quiet ==
    /\ queue = <<>> /\ worker = None /\ loop = <<>>
    /\ \A r \in Requests : pc[r] \in {"idle", "done", "raised"}

\* Once all is quiet the guard lets the next request fetch.
GuardReopens == Quiet => \A k \in Kinds : task[k] = None

\* A request with an on_complete hears of its fetch, of the one it joined or of its being
\* skipped, whatever fails, unless it joined after the running fetch's callback had taken
\* the observers, or between the two steps by which any callback takes and clears them.
HeardUnlessLate ==
    Quiet => \A r \in Observing : pc[r] = "done" /\ r \notin late => heard[r] > 0

\* "Request one fresh whole-market snapshot and report fetch completion": without that
\* exception.
CompletionReported == Quiet => \A r \in Observing : pc[r] = "done" => heard[r] > 0

\* "Whether the current date has a successful post-close whole-market fetch": its source
\* was called after the final time.
FinalIsPostClose == final => postClose[snapshot]
================================================================================
