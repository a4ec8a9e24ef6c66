---------------------------- MODULE TickFetch_proofs ----------------------------
(***************************************************************************)
(* Why a request for a full tick hears of its end once.  With one clock    *)
(* thread the fetch of the request that is being made is the last of the   *)
(* executor's queue, so no two done callbacks overlap, and the observers   *)
(* are copied and cleared by one of them at a time; a request then waits   *)
(* in one place at most: the list of observers, the copy that a callback   *)
(* has taken, its own fetch, or what has been handed to the loop.          *)
(***************************************************************************)
EXTENDS TickFetch, TLAPS

\* All clock callbacks come from one thread.
OneClock == \A r, q \in Requests : Thread[r] = Thread[q]

Between == {"ask", "busy", "start", "assign", "register", "callback"}
Active == {"clear", "copy", "empty", "post"}
Asked == {"idle", "ask", "busy", "start", "raised"}

\* A fetch has been submitted.
Started(f) == cb[f].at # "none" \/ pc[f] \in {"assign", "register"}

Marks == [at : {"none", "armed", "over"} \cup Active, taken : SUBSET Observing]

Posts == [fetch : Requests, who : SUBSET Observing]

Types ==
    /\ task \in [Kinds -> Requests \cup {None}] /\ observers \subseteq Observing
    /\ pc \in [Requests -> {"idle", "done", "raised"} \cup Between]
    /\ saw \in [Requests -> Requests \cup {None}]
    /\ queue \in Seq(Requests) /\ worker \in Requests \cup {None}
    /\ result \in [Requests -> {"pending", "success", "failed"}]
    /\ cb \in [Requests -> Marks]
    /\ loop \in Seq(Posts)
    /\ closed \in BOOLEAN /\ final \in BOOLEAN
    /\ snapshot \in Requests \cup {None} /\ exported \in [Requests -> Requests \cup {None}]
    /\ heard \in [Requests -> Nat] /\ late \subseteq Requests

\* What the place of a request says of its fetch and of its callback.
Places ==
    \A r \in Requests :
        /\ pc[r] \in Asked => cb[r].at = "none" /\ result[r] = "pending"
        /\ pc[r] \in {"assign", "register"} => cb[r].at = "none"
        /\ pc[r] = "callback" => cb[r].at \in Active
        /\ pc[r] = "done" /\ cb[r].at = "none" => result[r] = "pending"
        /\ cb[r].at = "armed" => pc[r] = "done" /\ result[r] = "pending"
        /\ cb[r].at \in Active =>
              result[r] # "pending" /\ (pc[r] = "callback" \/ (pc[r] = "done" /\ worker = r))
        /\ cb[r].at = "over" => pc[r] = "done" /\ result[r] # "pending"

\* What is queued is pending and queued once; what is pending is queued or at the worker.
Queued ==
    /\ \A i \in 1 .. Len(queue) :
           Started(queue[i]) /\ result[queue[i]] = "pending" /\ worker # queue[i]
    /\ \A i, j \in 1 .. Len(queue) : queue[i] = queue[j] => i = j
    /\ \A r \in Requests :
           /\ worker = r => Started(r) /\ (result[r] # "pending" => cb[r].at \in Active)
           /\ worker = r /\ cb[r].at \in Active => pc[r] = "done"
           /\ Started(r) /\ result[r] = "pending" =>
                 worker = r \/ \E i \in 1 .. Len(queue) : queue[i] = r

\* One request at a time is between its first step and its last, and its fetch is the last one.
OneAsks == \A r, q \in Requests : pc[r] \in Between /\ pc[q] \in Between => r = q

LastInQueue ==
    \A r \in Requests :
        pc[r] \in {"assign", "register", "callback"} =>
            IF result[r] = "pending"
              THEN \/ queue = <<>> /\ worker = r
                   \/ queue # <<>> /\ queue[Len(queue)] = r
              ELSE queue = <<>> /\ worker = None

OrderInv == Types /\ Places /\ Queued /\ OneAsks /\ LastInQueue

\* A callback that moves on keeps what it has taken.
LEMMA MarkMoves ==
    \A c \in Marks : \A a \in {"none", "armed", "over"} \cup Active :
        /\ [c EXCEPT !.at = a] \in Marks
        /\ [c EXCEPT !.at = a].at = a /\ [c EXCEPT !.at = a].taken = c.taken
    BY DEF Marks

LEMMA HearCounts ==
    ASSUME heard \in [Requests -> Nat], NEW who, Hear(who)
    PROVE  /\ heard' \in [Requests -> Nat]
           /\ \A r \in Requests : heard'[r] = IF r \in who THEN heard[r] + 1 ELSE heard[r]
<1>1. \A r \in Requests : (IF r \in who THEN heard[r] + 1 ELSE heard[r]) \in Nat
    OBVIOUS
<1> QED
    BY <1>1 DEF Hear

LEMMA CallbacksMove ==
    ASSUME NEW f \in Requests, NEW there \in {"none", "armed", "over"} \cup Active,
           cb \in [Requests -> Marks], cb' = [cb EXCEPT ![f].at = there]
    PROVE  /\ cb' \in [Requests -> Marks]
           /\ cb'[f].at = there /\ cb'[f].taken = cb[f].taken
           /\ \A g \in Requests : g # f => cb'[g] = cb[g]
<1>1. cb' = [cb EXCEPT ![f] = [cb[f] EXCEPT !.at = there]]
    OBVIOUS
<1>2. cb[f] \in Marks
    OBVIOUS
<1> QED
    BY <1>1, <1>2, MarkMoves

\* Two done callbacks do not overlap.
LEMMA OneCallback ==
    ASSUME OrderInv, NEW f \in Requests, NEW g \in Requests,
           cb[f].at \in Active, cb[g].at \in Active
    PROVE  f = g
<1>1. \A r \in Requests : cb[r].at \in Active =>
         result[r] # "pending" /\ (pc[r] = "callback" \/ worker = r)
    BY DEF OrderInv, Places
<1>2. \A r \in Requests : pc[r] = "callback" /\ result[r] # "pending" => worker = None
    BY DEF OrderInv, LastInQueue
<1>3. pc[f] = "callback" /\ pc[g] = "callback" => f = g
    BY DEF OrderInv, OneAsks, Between
<1> QED
    BY <1>1, <1>2, <1>3, FetchAssumption

\* A step of a request keeps it.
LEMMA RequestKeeps ==
    ASSUME OneClock, OrderInv, NEW r \in Requests, Request(r)
    PROVE  OrderInv'
<1>1. CASE Look(r)
    <2>1. Types'
        BY <1>1, FetchAssumption DEF OrderInv, Types, Look, Goto, Between, market
    <2>2. Places'
        BY <1>1, FetchAssumption DEF OrderInv, Places, Look, Goto, Asked
    <2>3. Queued'
        BY <1>1, FetchAssumption DEF OrderInv, Queued, Look, Goto, Started
    <2>6. \A q \in Requests : pc[q] \notin Between
        BY <1>1 DEF Look, ThreadFree, OneClock, Between
    <2>4. OneAsks'
        BY <1>1, <2>6 DEF OneAsks, Look, Goto
    <2>5. LastInQueue'
        BY <1>1, FetchAssumption DEF OrderInv, LastInQueue, Look, Goto
    <2> QED
        BY <2>1, <2>2, <2>3, <2>4, <2>5 DEF OrderInv
<1>2. CASE AskDone(r)
    <2>1. Types'
        BY <1>2, FetchAssumption DEF OrderInv, Types, Kind, Kinds, AskDone, Goto, Between, market
    <2>2. Places'
        BY <1>2, FetchAssumption DEF OrderInv, Places, AskDone, Goto, Asked
    <2>6. \A q \in Requests : Started(q)' = Started(q)
        BY <1>2 DEF AskDone, Goto, Started
    <2>3. Queued'
        BY <1>2, <2>6, FetchAssumption DEF OrderInv, Types, Queued, AskDone, Goto, Between, Active
    <2>4. OneAsks'
        BY <1>2, FetchAssumption DEF OrderInv, Types, OneAsks, AskDone, Goto
    <2>5. LastInQueue'
        BY <1>2, FetchAssumption DEF OrderInv, LastInQueue, AskDone, Goto
    <2> QED
        BY <2>1, <2>2, <2>3, <2>4, <2>5 DEF OrderInv
<1>3. CASE AskNothing(r)
    <2>1. Types'
        BY <1>3, FetchAssumption DEF OrderInv, Types, AskNothing, Goto, Hear, market
    <2>2. Places'
        BY <1>3, FetchAssumption DEF OrderInv, Places, AskNothing, Goto, Asked
    <2>3. Queued'
        BY <1>3, FetchAssumption DEF OrderInv, Queued, AskNothing, Goto, Started
    <2>4. OneAsks'
        BY <1>3, FetchAssumption DEF OrderInv, Types, OneAsks, AskNothing, Goto
    <2>5. LastInQueue'
        BY <1>3, FetchAssumption DEF OrderInv, LastInQueue, AskNothing, Goto
    <2> QED
        BY <2>1, <2>2, <2>3, <2>4, <2>5 DEF OrderInv
<1>4. CASE Busy(r)
    <2>1. Types'
        BY <1>4, FetchAssumption DEF OrderInv, Types, Busy, Goto, Hear, market, Observing
    <2>2. Places'
        BY <1>4, FetchAssumption DEF OrderInv, Places, Busy, Goto, Asked
    <2>3. Queued'
        BY <1>4, FetchAssumption DEF OrderInv, Queued, Busy, Goto, Started
    <2>4. OneAsks'
        BY <1>4, FetchAssumption DEF OrderInv, Types, OneAsks, Busy, Goto
    <2>5. LastInQueue'
        BY <1>4, FetchAssumption DEF OrderInv, LastInQueue, Busy, Goto
    <2> QED
        BY <2>1, <2>2, <2>3, <2>4, <2>5 DEF OrderInv
<1>5. CASE Submit(r)
    <2>1. Types'
        BY <1>5, FetchAssumption DEF OrderInv, Types, Submit, Goto, Between, market
    <2>2. Places'
        BY <1>5, FetchAssumption DEF OrderInv, Places, Submit, Goto, Asked
    <2>6. queue' \in Seq(Requests) /\ Len(queue') = Len(queue) + 1 /\ queue'[Len(queue) + 1] = r
          /\ \A i \in 1 .. Len(queue) : queue'[i] = queue[i]
        BY <1>5 DEF OrderInv, Types, Marks, Submit
    <2>7. ~Started(r) /\ result[r] = "pending" /\ worker # r
        BY <1>5 DEF OrderInv, Places, Queued, Submit, Goto, Asked, Started
    <2>8. \A q \in Requests : Started(q)' <=> Started(q) \/ q = r
        BY <1>5, <2>7 DEF OrderInv, Types, Submit, Goto, Started
    <2>9. UNCHANGED <<result, worker, cb>> /\ \A q \in Requests : q # r => pc'[q] = pc[q]
        BY <1>5 DEF Submit, Goto
    <2>10. \A i \in 1 .. Len(queue) : queue[i] \in Requests /\ queue[i] # r
        BY <2>7 DEF OrderInv, Types, Marks, Queued
    <2>3. Queued'
        <3>1. \A i \in 1 .. Len(queue') :
                 (Started(queue[i]) /\ result[queue[i]] = "pending" /\ worker # queue[i])'
            BY <2>6, <2>7, <2>8, <2>9, <2>10 DEF OrderInv, Queued
        <3>2. \A i, j \in 1 .. Len(queue') : queue'[i] = queue'[j] => i = j
            BY <2>6, <2>10 DEF OrderInv, Queued
        <3>3. \A q \in Requests :
                 /\ worker' = q => Started(q)' /\ (result'[q] # "pending" => cb'[q].at \in Active)
                 /\ worker' = q /\ cb'[q].at \in Active => pc'[q] = "done"
                 /\ Started(q)' /\ result'[q] = "pending" =>
                       worker' = q \/ \E i \in 1 .. Len(queue') : queue'[i] = q
            BY <2>6, <2>7, <2>8, <2>9 DEF OrderInv, Queued
        <3> QED
            BY <3>1, <3>2, <3>3 DEF Queued
    <2>4. OneAsks'
        BY <1>5, FetchAssumption DEF OrderInv, Types, OneAsks, Submit, Goto
    <2>5. LastInQueue'
        <3>1. \A q \in Requests : pc'[q] \in {"assign", "register", "callback"} => q = r
            BY <1>5 DEF OrderInv, Types, OneAsks, Submit, Goto
        <3>2. Len(queue) \in Nat /\ queue' # <<>> /\ Len(queue') = Len(queue) + 1
            BY <2>6 DEF OrderInv, Types
        <3> QED
            BY <2>6, <2>7, <2>9, <3>1, <3>2 DEF LastInQueue
    <2> QED
        BY <2>1, <2>2, <2>3, <2>4, <2>5 DEF OrderInv
<1>6. CASE Assign(r)
    <2>1. Types'
        BY <1>6, FetchAssumption DEF OrderInv, Types, Assign, Goto, Between, market
    <2>2. Places'
        BY <1>6, FetchAssumption DEF OrderInv, Places, Assign, Goto, Asked
    <2>3. Queued'
        BY <1>6, FetchAssumption DEF OrderInv, Queued, Assign, Goto, Started
    <2>4. OneAsks'
        BY <1>6, FetchAssumption DEF OrderInv, Types, OneAsks, Assign, Goto
    <2>5. LastInQueue'
        BY <1>6, FetchAssumption DEF OrderInv, LastInQueue, Assign, Goto
    <2> QED
        BY <2>1, <2>2, <2>3, <2>4, <2>5 DEF OrderInv
<1>7. CASE Register(r)
    <2>6. cb' \in [Requests -> Marks]
        <3> DEFINE there == IF result[r] = "pending" THEN "armed" ELSE "clear"
        <3>1. cb' = [cb EXCEPT ![r].at = there] /\ there \in {"armed", "clear"}
            BY <1>7 DEF Register
        <3> HIDE DEF there
        <3> QED
            BY <3>1, CallbacksMove DEF OrderInv, Types, Active
    <2>1. Types'
        BY <1>7, <2>6, FetchAssumption DEF OrderInv, Types, Register, Goto, Between, market
    <2>2. Places'
        BY <1>7, FetchAssumption DEF OrderInv, Types, Places, Register, Goto, Asked, Active
    <2>3. Queued'
        BY <1>7, FetchAssumption DEF OrderInv, Types, Queued, Register, Goto, Started
    <2>4. OneAsks'
        BY <1>7, FetchAssumption DEF OrderInv, Types, OneAsks, Register, Goto
    <2>5. LastInQueue'
        BY <1>7, FetchAssumption DEF OrderInv, LastInQueue, Register, Goto
    <2> QED
        BY <2>1, <2>2, <2>3, <2>4, <2>5 DEF OrderInv
<1>8. CASE ExportAtOnce(r)
    <2>1. Types'
        BY <1>8, FetchAssumption DEF OrderInv, Types, ExportAtOnce, Goto, Hear
    <2>2. Places'
        BY <1>8, FetchAssumption DEF OrderInv, Places, ExportAtOnce, Goto, Asked, Started
    <2>3. Queued'
        BY <1>8, FetchAssumption DEF OrderInv, Queued, ExportAtOnce, Goto, Started
    <2>4. OneAsks'
        BY <1>8, FetchAssumption DEF OrderInv, OneAsks, ExportAtOnce, Goto, Between
    <2>5. LastInQueue'
        BY <1>8, FetchAssumption DEF OrderInv, LastInQueue, ExportAtOnce, Goto
    <2> QED
        BY <2>1, <2>2, <2>3, <2>4, <2>5 DEF OrderInv
<1> QED
    BY <1>1, <1>2, <1>3, <1>4, <1>5, <1>6, <1>7, <1>8 DEF Request


\* So does one of the worker, of the node loop or of the clock.
LEMMA WorkerKeeps ==
    ASSUME OrderInv, Take \/ (\E o \in {"success", "failed"} : Finish(o)) \/ Deliver \/ Close
    PROVE  OrderInv'
<1>1. CASE Take
    <2>1. Types'
        BY <1>1, FetchAssumption DEF OrderInv, Types, Take, market, asking
    <2>2. Places'
        BY <1>1, FetchAssumption DEF OrderInv, Places, Take, market, asking
    <2>6. /\ Len(queue) > 0 /\ worker = None
          /\ worker' = queue[1] /\ worker' \in Requests /\ Len(queue') = Len(queue) - 1
          /\ Len(queue) \in Nat
          /\ \A i \in 1 .. Len(queue') : queue'[i] = queue[i + 1] /\ i + 1 \in 1 .. Len(queue)
          /\ queue' = <<>> <=> Len(queue') = 0
        <3>1. queue \in Seq(Requests) /\ queue # <<>> /\ queue' = Tail(queue)
            BY <1>1 DEF OrderInv, Types, Take
        <3>2. Len(queue) \in Nat /\ Len(queue) > 0 /\ queue' \in Seq(Requests)
            BY <3>1
        <3>3. Len(queue') = Len(queue) - 1
            BY <3>1, <3>2
        <3>4. worker = None /\ worker' = queue[1] /\ worker' \in Requests
            BY <1>1, <3>1, <3>2 DEF Take
        <3>5. \A i \in 1 .. Len(queue') : queue'[i] = queue[i + 1] /\ i + 1 \in 1 .. Len(queue)
            BY <3>1, <3>2, <3>3
        <3>6. queue' = <<>> <=> Len(queue') = 0
            BY <3>2
        <3> QED
            BY <3>2, <3>3, <3>4, <3>5, <3>6
    <2>7. UNCHANGED <<pc, cb, result>> /\ \A q \in Requests : Started(q)' = Started(q)
        BY <1>1 DEF Take, asking, Started
    <2>3. Queued'
        <3>1. \A i \in 1 .. Len(queue') :
                 (Started(queue[i]) /\ result[queue[i]] = "pending" /\ worker # queue[i])'
            <4> SUFFICES ASSUME NEW i \in 1 .. Len(queue')
                         PROVE  (Started(queue[i]) /\ result[queue[i]] = "pending"
                                    /\ worker # queue[i])'
                OBVIOUS
            <4>1. queue[i + 1] \in Requests /\ queue[i + 1] # queue[1]
                BY <2>6 DEF OrderInv, Types, Queued
            <4>2. Started(queue[i + 1]) /\ result[queue[i + 1]] = "pending"
                BY <2>6 DEF OrderInv, Queued
            <4> QED
                BY <2>6, <2>7, <4>1, <4>2 DEF Started
        <3>2. \A i, j \in 1 .. Len(queue') : queue'[i] = queue'[j] => i = j
            <4> SUFFICES ASSUME NEW i \in 1 .. Len(queue'), NEW j \in 1 .. Len(queue'),
                                queue'[i] = queue'[j]
                         PROVE  i + 1 = j + 1
                OBVIOUS
            <4> QED
                BY <2>6 DEF OrderInv, Queued
        <3>3. \A q \in Requests :
                 /\ worker' = q => Started(q)' /\ (result'[q] # "pending" => cb'[q].at \in Active)
                 /\ worker' = q /\ cb'[q].at \in Active => pc'[q] = "done"
            BY <2>6, <2>7 DEF OrderInv, Places, Queued
        <3>4. ASSUME NEW q \in Requests, Started(q)', result'[q] = "pending", worker' # q
              PROVE  \E i \in 1 .. Len(queue') : queue'[i] = q
            <4>1. PICK i \in 1 .. Len(queue) : queue[i] = q
                BY <2>6, <2>7, <3>4, FetchAssumption DEF OrderInv, Queued
            <4>2. i - 1 \in 1 .. Len(queue') /\ queue'[i - 1] = q
                BY <2>6, <3>4, <4>1 DEF OrderInv, Types
            <4> QED
                BY <4>2
        <3> QED
            BY <3>1, <3>2, <3>3, <3>4 DEF Queued
    <2>4. OneAsks'
        BY <1>1, FetchAssumption DEF OrderInv, OneAsks, Take, market, asking
    <2>5. LastInQueue'
        <3> SUFFICES ASSUME NEW q \in Requests, pc'[q] \in {"assign", "register", "callback"}
                     PROVE  IF result'[q] = "pending"
                              THEN \/ queue' = <<>> /\ worker' = q
                                   \/ queue' # <<>> /\ queue'[Len(queue')] = q
                              ELSE queue' = <<>> /\ worker' = None
            BY DEF LastInQueue
        <3>1. result'[q] = "pending" /\ queue[Len(queue)] = q
            BY <1>1, <2>7, FetchAssumption DEF OrderInv, LastInQueue, Take
        <3>2. Len(queue) = 1 => queue' = <<>> /\ worker' = q
            BY <2>6, <3>1
        <3>3. Len(queue) > 1 => queue' # <<>> /\ queue'[Len(queue')] = q
            <4>1. Len(queue) > 1 => Len(queue') \in 1 .. Len(queue') /\ Len(queue') + 1 = Len(queue)
                BY <2>6
            <4> QED
                BY <2>6, <3>1, <4>1
        <3> QED
            BY <2>6, <3>1, <3>2, <3>3 DEF OrderInv, Types
    <2> QED
        BY <2>1, <2>2, <2>3, <2>4, <2>5 DEF OrderInv
<1>2. CASE \E o \in {"success", "failed"} : Finish(o)
    <2>6. cb' \in [Requests -> Marks]
        BY <1>2, CallbacksMove DEF OrderInv, Types, Finish, Active
    <2>7. result' \in [Requests -> {"pending", "success", "failed"}]
          /\ worker' \in Requests \cup {None}
        BY <1>2 DEF OrderInv, Types, Finish
    <2>1. Types'
        BY <1>2, <2>6, <2>7 DEF OrderInv, Types, Finish, market, asking
    <2>2. Places'
        BY <1>2, FetchAssumption DEF OrderInv, Types, Marks, Places, Finish, Asked, Started,
            Queued, asking
    <2>3. Queued'
        BY <1>2, FetchAssumption DEF OrderInv, Types, Marks, Queued, Finish, Active, Started,
            Places, asking
    <2>4. OneAsks'
        BY <1>2, FetchAssumption DEF OrderInv, OneAsks, Finish, asking
    <2>5. LastInQueue'
        <3> SUFFICES ASSUME NEW q \in Requests, pc'[q] \in {"assign", "register", "callback"}
                     PROVE  IF result'[q] = "pending"
                              THEN \/ queue' = <<>> /\ worker' = q
                                   \/ queue' # <<>> /\ queue'[Len(queue')] = q
                              ELSE queue' = <<>> /\ worker' = None
            BY DEF LastInQueue
        <3>1. UNCHANGED <<pc, queue>> /\ worker \in Requests /\ result[worker] = "pending"
            BY <1>2 DEF OrderInv, Types, Finish, asking
        <3>2. result[q] = "pending"
            BY <3>1, FetchAssumption DEF OrderInv, LastInQueue
        <3>3. CASE worker = q
            <4>1. cb[q].at # "armed"
                BY <3>1 DEF OrderInv, Places
            <4>2. result'[q] # "pending" /\ worker' = None
                BY <1>2, <3>3, <4>1 DEF OrderInv, Types, Finish
            <4>3. queue # <<>> => Len(queue) \in 1 .. Len(queue)
                BY DEF OrderInv, Types
            <4>4. queue # <<>> => queue[Len(queue)] # q
                BY <3>3, <4>3 DEF OrderInv, Queued
            <4> QED
                BY <3>1, <3>2, <4>2, <4>4 DEF OrderInv, LastInQueue
        <3>4. CASE worker # q
            <4>1. result'[q] = "pending"
                BY <1>2, <3>2, <3>4 DEF OrderInv, Types, Finish
            <4> QED
                BY <3>1, <3>2, <3>4, <4>1 DEF OrderInv, LastInQueue
        <3> QED
            BY <3>3, <3>4
    <2> QED
        BY <2>1, <2>2, <2>3, <2>4, <2>5 DEF OrderInv
<1>3. CASE Deliver
    <2>6. loop' \in Seq(Posts) /\ Head(loop).fetch \in Requests
        <3>1. loop' \in Seq(Posts) /\ Head(loop) \in Posts
            BY <1>3 DEF OrderInv, Types, Deliver
        <3> QED
            BY <3>1 DEF Posts
    <2>1. Types'
        BY <1>3, <2>6, FetchAssumption DEF OrderInv, Types, Deliver, Applied, Hear, market, asking
    <2>2. Places'
        BY <1>3, FetchAssumption DEF OrderInv, Places, Deliver, market, asking
    <2>3. Queued'
        BY <1>3, FetchAssumption DEF OrderInv, Queued, Deliver, Started, market, asking
    <2>4. OneAsks'
        BY <1>3, FetchAssumption DEF OrderInv, OneAsks, Deliver, market, asking
    <2>5. LastInQueue'
        BY <1>3, FetchAssumption DEF OrderInv, LastInQueue, Deliver, market, asking
    <2> QED
        BY <2>1, <2>2, <2>3, <2>4, <2>5 DEF OrderInv
<1>4. CASE Close
    <2>1. Types'
        BY <1>4, FetchAssumption DEF OrderInv, Types, Close, market, asking
    <2>2. Places'
        BY <1>4, FetchAssumption DEF OrderInv, Places, Close, market, asking
    <2>3. Queued'
        BY <1>4, FetchAssumption DEF OrderInv, Queued, Close, Started, market, asking
    <2>4. OneAsks'
        BY <1>4, FetchAssumption DEF OrderInv, OneAsks, Close, market, asking
    <2>5. LastInQueue'
        BY <1>4, FetchAssumption DEF OrderInv, LastInQueue, Close, market, asking
    <2> QED
        BY <2>1, <2>2, <2>3, <2>4, <2>5 DEF OrderInv
<1> QED
    BY <1>1, <1>2, <1>3, <1>4

\* And one of a done callback.
LEMMA CallbackKeeps ==
    ASSUME OrderInv, NEW f \in Requests, Callback(f)
    PROVE  OrderInv'
<1>1. CASE ClearTask(f)
    <2>6. cb' \in [Requests -> Marks]
        BY <1>1, CallbacksMove DEF OrderInv, Types, ClearTask, CallbackAt, Active
    <2>1. Types'
        BY <1>1, <2>6, FetchAssumption DEF OrderInv, Types, ClearTask, Cleared, market, asking
    <2>2. Places'
        BY <1>1, FetchAssumption DEF OrderInv, Places, ClearTask, CallbackAt, Active, asking
    <2>3. Queued'
        BY <1>1, FetchAssumption DEF OrderInv, Queued, ClearTask, CallbackAt, Active, Started,
            asking
    <2>4. OneAsks'
        BY <1>1, FetchAssumption DEF OrderInv, OneAsks, ClearTask, asking
    <2>5. LastInQueue'
        BY <1>1, FetchAssumption DEF OrderInv, LastInQueue, ClearTask, asking
    <2> QED
        BY <2>1, <2>2, <2>3, <2>4, <2>5 DEF OrderInv
<1>2. CASE CopyObservers(f)
    <2>1. Types'
        BY <1>2, FetchAssumption DEF OrderInv, Types, Marks, CopyObservers, Active, market, asking
    <2>2. Places'
        BY <1>2, FetchAssumption DEF OrderInv, Places, CopyObservers, Active, asking
    <2>3. Queued'
        BY <1>2, FetchAssumption DEF OrderInv, Queued, CopyObservers, Active, Started, asking
    <2>4. OneAsks'
        BY <1>2, FetchAssumption DEF OrderInv, OneAsks, CopyObservers, asking
    <2>5. LastInQueue'
        BY <1>2, FetchAssumption DEF OrderInv, LastInQueue, CopyObservers, asking
    <2> QED
        BY <2>1, <2>2, <2>3, <2>4, <2>5 DEF OrderInv
<1>3. CASE ClearObservers(f)
    <2>6. cb' \in [Requests -> Marks]
        BY <1>3, CallbacksMove DEF OrderInv, Types, ClearObservers, CallbackAt, Active
    <2>1. Types'
        BY <1>3, <2>6, FetchAssumption DEF OrderInv, Types, ClearObservers, Emptied, market,
            asking
    <2>2. Places'
        BY <1>3, FetchAssumption DEF OrderInv, Places, ClearObservers, CallbackAt, Active, asking
    <2>3. Queued'
        BY <1>3, FetchAssumption DEF OrderInv, Queued, ClearObservers, CallbackAt, Active,
            Started, asking
    <2>4. OneAsks'
        BY <1>3, FetchAssumption DEF OrderInv, OneAsks, ClearObservers, asking
    <2>5. LastInQueue'
        BY <1>3, FetchAssumption DEF OrderInv, LastInQueue, ClearObservers, asking
    <2> QED
        BY <2>1, <2>2, <2>3, <2>4, <2>5 DEF OrderInv
<1>4. CASE Post(f)
    <2>6. cb' \in [Requests -> Marks]
        BY <1>4, CallbacksMove DEF OrderInv, Types, Post, CallbackAt
    <2>7. [fetch |-> f, who |-> Told(f)] \in Posts
        BY DEF OrderInv, Types, Marks, Told, Posts
    <2>8. loop' \in Seq(Posts)
        <3>1. loop \in Seq(Posts)
            BY DEF OrderInv, Types
        <3> QED
            BY <1>4, <2>7, <3>1 DEF Post
    <2>9. /\ worker' \in Requests \cup {None} /\ heard' \in [Requests -> Nat]
          /\ pc' \in [Requests -> {"idle", "done", "raised"} \cup Between]
        <3>1. heard' \in [Requests -> Nat]
            <4>1. Hear(Told(f)) \/ UNCHANGED heard
                BY <1>4 DEF Post
            <4> QED
                BY <4>1, HearCounts DEF OrderInv, Types
        <3>2. worker' \in Requests \cup {None}
            BY <1>4 DEF OrderInv, Types, Post
        <3>3. pc' \in [Requests -> {"idle", "done", "raised"} \cup Between]
            BY <1>4 DEF OrderInv, Types, Post
        <3> QED
            BY <3>1, <3>2, <3>3
    <2>1. Types'
        BY <1>4, <2>6, <2>8, <2>9 DEF OrderInv, Types, Post, market
    <2>2. Places'
        BY <1>4, FetchAssumption DEF OrderInv, Types, Places, Post, CallbackAt, Asked, Active,
            asking
    <2>3. Queued'
        BY <1>4, FetchAssumption DEF OrderInv, Types, Marks, Queued, Post, CallbackAt, Asked,
            Started, Places, asking
    <2>4. OneAsks'
        BY <1>4, FetchAssumption DEF OrderInv, Types, OneAsks, Post, asking
    <2>5. LastInQueue'
        BY <1>4, FetchAssumption DEF OrderInv, LastInQueue, Post, CallbackAt, Places, asking
    <2> QED
        BY <2>1, <2>2, <2>3, <2>4, <2>5 DEF OrderInv
<1> QED
    BY <1>1, <1>2, <1>3, <1>4 DEF Callback


-----------------------------------------------------------------------------
(* Where a request waits to be told *)

\* It waits for its own fetch's callback.
Awaits(r) == cb[r].at \in {"armed"} \cup Active

Unposted(r) == \A i \in 1 .. Len(loop) : r \notin loop[i].who

\* It joined a fetch, and waits in no other place.
Joined(r) == pc[r] = "done" /\ heard[r] = 0 /\ cb[r].at = "none" /\ Unposted(r)

\* The future of a kind is that of a fetch whose callback has not cleared it.
Tasks ==
    \A k \in Kinds : task[k] # None =>
        /\ Kind(task[k]) = k
        /\ pc[task[k]] = "register" \/ cb[task[k]].at \in {"armed", "clear"}

\* What a request found running had been submitted.
Finds ==
    \A r \in Requests : pc[r] = "busy" =>
        saw[r] \in Requests /\ saw[r] # r /\ Kind(saw[r]) = Kind(r) /\ Started(saw[r])

ObserversWait == \A r \in observers : Joined(r)

TakenWait ==
    \A f \in Requests :
        /\ cb[f].at \in {"none", "armed", "clear", "copy"} => cb[f].taken = {}
        /\ cb[f].at \in {"empty", "post"} => \A r \in cb[f].taken : Joined(r)
        /\ cb[f].at = "post" => cb[f].taken \cap observers = {}

PostedWait ==
    /\ \A i \in 1 .. Len(loop) : \A r \in loop[i].who :
           pc[r] = "done" /\ heard[r] = 0 /\ cb[r].at \in {"none", "over"}
    /\ \A i, j \in 1 .. Len(loop) : i # j => loop[i].who \cap loop[j].who = {}

ToldOnce ==
    \A r \in Requests :
        /\ heard[r] \in {0, 1}
        /\ pc[r] # "done" \/ Awaits(r) => heard[r] = 0

\* A fetch of the whole market whose callback has not copied the observers.
WillCopy(f) == Kind(f) = "market" /\ Started(f) /\ cb[f].at \in {"none", "armed", "clear", "copy"}

\* Where a request waits that has neither been told nor joined late.
Place(r) ==
    \/ Awaits(r)
    \/ ~Unposted(r)
    \/ \E f \in Requests : cb[f].at \in {"empty", "post"} /\ r \in cb[f].taken
    \/ /\ r \in observers /\ \A g \in Requests : cb[g].at # "empty"
       /\ \E f \in Requests : WillCopy(f)

Hope == \A r \in Observing : pc[r] = "done" /\ r \notin late /\ heard[r] = 0 => Place(r)

TellInv == Tasks /\ Finds /\ ObserversWait /\ TakenWait /\ PostedWait /\ ToldOnce /\ Hope

\* A request waits where it did, unless a callback takes, clears or hands on what it holds.
LEMMA PlaceKeeps ==
    ASSUME NEW q \in Requests, Place(q), UNCHANGED loop, observers \subseteq observers',
           \A f \in Requests :
               /\ Awaits(f) => Awaits(f)'
               /\ cb[f].at \in {"empty", "post"} =>
                     cb'[f].at \in {"empty", "post"} /\ cb'[f].taken = cb[f].taken
               /\ cb'[f].at = "empty" => cb[f].at = "empty"
               /\ WillCopy(f) => WillCopy(f)'
    PROVE  Place(q)'
    BY DEF Place, Unposted

\* A request that is being made waits nowhere yet.
LEMMA OthersWait ==
    ASSUME TellInv, NEW r \in Requests, pc[r] # "done", UNCHANGED <<loop, cb>>,
           \A q \in Requests : q # r => pc'[q] = pc[q] /\ heard'[q] = heard[q],
           loop \in Seq(Posts)
    PROVE  (\A q \in Requests : Joined(q) => Joined(q)') /\ PostedWait'
<1>1. \A q \in Requests : Joined(q) => Joined(q)'
    BY DEF Joined, Unposted
<1>2. \A i \in 1 .. Len(loop) : loop[i].who \subseteq Requests
    <2>1. \A i \in 1 .. Len(loop) : loop[i] \in Posts
        OBVIOUS
    <2> QED
        BY <2>1 DEF Posts, Observing
<1>3. \A i \in 1 .. Len(loop) : \A q \in loop[i].who : q \in Requests /\ q # r
    BY <1>2 DEF TellInv, PostedWait
<1> QED
    BY <1>1, <1>3 DEF TellInv, PostedWait

\* A step of a request keeps each request in one place of waiting.
LEMMA RequestTells ==
    ASSUME OneClock, OrderInv, TellInv, NEW r \in Requests, Request(r)
    PROVE  TellInv'
<1>1. CASE Look(r)
    <2>1. Tasks'
        BY <1>1, FetchAssumption DEF TellInv, Tasks, Look, Goto
    <2>2. Finds'
        BY <1>1, FetchAssumption DEF TellInv, Finds, Look, Goto, Started
    <2>3. ObserversWait'
        BY <1>1, FetchAssumption DEF TellInv, ObserversWait, Look, Goto, Joined, Unposted
    <2>4. TakenWait'
        BY <1>1, FetchAssumption DEF TellInv, TakenWait, Look, Goto, Joined, Unposted
    <2>5. PostedWait'
        BY <1>1, FetchAssumption DEF TellInv, PostedWait, Look, Goto
    <2>6. ToldOnce'
        BY <1>1, FetchAssumption DEF TellInv, ToldOnce, Look, Goto, Awaits
    <2>7. Hope'
        <3>1. /\ UNCHANGED loop /\ observers \subseteq observers'
              /\ \A g \in Requests :
                     /\ Awaits(g) => Awaits(g)'
                     /\ cb[g].at \in {"empty", "post"} =>
                           cb'[g].at \in {"empty", "post"} /\ cb'[g].taken = cb[g].taken
                     /\ cb'[g].at = "empty" => cb[g].at = "empty"
                     /\ WillCopy(g) => WillCopy(g)'
            BY <1>1 DEF Look, Goto, Awaits, WillCopy, Started
        <3>2. \A q \in Observing :
                 pc'[q] = "done" /\ q \notin late' /\ heard'[q] = 0 =>
                     Place(q)' \/ (pc[q] = "done" /\ q \notin late /\ heard[q] = 0)
            BY <1>1 DEF Look, Goto
        <3> QED
            BY <3>1, <3>2, PlaceKeeps DEF TellInv, Hope, Observing
    <2> QED
        BY <2>1, <2>2, <2>3, <2>4, <2>5, <2>6, <2>7 DEF TellInv
<1>2. CASE AskDone(r)
    <2>1. Tasks'
        BY <1>2, FetchAssumption DEF TellInv, Tasks, AskDone, Goto
    <2>2. Finds'
        BY <1>2, FetchAssumption DEF OrderInv, Types, TellInv, Finds, AskDone, Tasks, Goto,
            Places, Started, Asked, Kind, Kinds
    <2>3. ObserversWait'
        BY <1>2, FetchAssumption DEF TellInv, ObserversWait, AskDone, Goto, Joined, Unposted,
            ToldOnce
    <2>4. TakenWait'
        BY <1>2, FetchAssumption DEF TellInv, TakenWait, AskDone, Goto, Joined, Unposted
    <2>5. PostedWait'
        BY <1>2, FetchAssumption DEF TellInv, PostedWait, AskDone, Goto, market
    <2>6. ToldOnce'
        BY <1>2, FetchAssumption DEF TellInv, ToldOnce, AskDone, Goto, Awaits
    <2>7. Hope'
        <3>1. /\ UNCHANGED loop /\ observers \subseteq observers'
              /\ \A g \in Requests :
                     /\ Awaits(g) => Awaits(g)'
                     /\ cb[g].at \in {"empty", "post"} =>
                           cb'[g].at \in {"empty", "post"} /\ cb'[g].taken = cb[g].taken
                     /\ cb'[g].at = "empty" => cb[g].at = "empty"
                     /\ WillCopy(g) => WillCopy(g)'
            BY <1>2 DEF AskDone, Goto, Awaits, WillCopy, Started
        <3>2. \A q \in Observing :
                 pc'[q] = "done" /\ q \notin late' /\ heard'[q] = 0 =>
                     Place(q)' \/ (pc[q] = "done" /\ q \notin late /\ heard[q] = 0)
            BY <1>2 DEF AskDone, Goto
        <3> QED
            BY <3>1, <3>2, PlaceKeeps DEF TellInv, Hope, Observing
    <2> QED
        BY <2>1, <2>2, <2>3, <2>4, <2>5, <2>6, <2>7 DEF TellInv
<1>3. CASE AskNothing(r)
    <2>8. /\ UNCHANGED <<cb, loop>> /\ pc[r] # "done"
          /\ \A q \in Requests : q # r => pc'[q] = pc[q] /\ heard'[q] = heard[q]
        BY <1>3, HearCounts DEF OrderInv, Types, AskNothing, Goto
    <2>9. (\A q \in Requests : Joined(q) => Joined(q)') /\ PostedWait'
        BY <2>8, OthersWait DEF OrderInv, Types
    <2>1. Tasks'
        BY <1>3, FetchAssumption DEF TellInv, Tasks, AskNothing, Goto
    <2>2. Finds'
        BY <1>3, FetchAssumption DEF TellInv, Finds, AskNothing, Goto, Started
    <2>3. ObserversWait'
        BY <1>3, <2>9 DEF OrderInv, Types, Observing, TellInv, ObserversWait, AskNothing
    <2>4. TakenWait'
        BY <1>3, <2>8, <2>9 DEF OrderInv, Types, Marks, Observing, TellInv, TakenWait, AskNothing
    <2>5. PostedWait'
        BY <2>9
    <2>6. ToldOnce'
        BY <1>3, FetchAssumption DEF OrderInv, Types, TellInv, ToldOnce, AskNothing, Hear, Goto,
            Awaits, Places
    <2>7. Hope'
        <3>1. /\ UNCHANGED loop /\ observers \subseteq observers'
              /\ \A g \in Requests :
                     /\ Awaits(g) => Awaits(g)'
                     /\ cb[g].at \in {"empty", "post"} =>
                           cb'[g].at \in {"empty", "post"} /\ cb'[g].taken = cb[g].taken
                     /\ cb'[g].at = "empty" => cb[g].at = "empty"
                     /\ WillCopy(g) => WillCopy(g)'
            BY <1>3, HearCounts DEF AskNothing, Goto, Awaits, WillCopy, Started
        <3>2. \A q \in Observing :
                 pc'[q] = "done" /\ q \notin late' /\ heard'[q] = 0 =>
                     Place(q)' \/ (pc[q] = "done" /\ q \notin late /\ heard[q] = 0)
            BY <1>3, HearCounts DEF OrderInv, Types, AskNothing, Goto, Observing
        <3> QED
            BY <3>1, <3>2, PlaceKeeps DEF TellInv, Hope, Observing
    <2> QED
        BY <2>1, <2>2, <2>3, <2>4, <2>5, <2>6, <2>7 DEF TellInv
<1>4. CASE Busy(r)
    <2>8. /\ UNCHANGED <<cb, loop>> /\ pc[r] # "done"
          /\ \A q \in Requests : q # r => pc'[q] = pc[q] /\ heard'[q] = heard[q]
        BY <1>4, HearCounts DEF OrderInv, Types, Busy, Goto
    <2>9. (\A q \in Requests : Joined(q) => Joined(q)') /\ PostedWait'
        BY <2>8, OthersWait DEF OrderInv, Types
    <2>1. Tasks'
        BY <1>4, FetchAssumption DEF TellInv, Tasks, Busy, Goto
    <2>2. Finds'
        BY <1>4, FetchAssumption DEF TellInv, Finds, Busy, Goto, Started
    <2>3. ObserversWait'
        <3>1. Role[r] = "export" => Joined(r)'
            BY <1>4, <2>8, HearCounts DEF OrderInv, Types, Marks, Places, TellInv, ToldOnce,
                PostedWait, Busy, Goto, Joined, Unposted
        <3> QED
            BY <1>4, <2>9, <3>1 DEF OrderInv, Types, Observing, TellInv, ObserversWait, Busy
    <2>4. TakenWait'
        <3>1. \A f \in Requests : r \notin cb[f].taken \/ cb[f].at # "post"
            BY <2>8 DEF TellInv, TakenWait, Joined
        <3>2. observers' \subseteq observers \cup {r}
            BY <1>4 DEF Busy
        <3> QED
            BY <2>8, <2>9, <3>1, <3>2 DEF OrderInv, Types, Marks, Observing, TellInv, TakenWait
    <2>5. PostedWait'
        BY <2>9
    <2>6. ToldOnce'
        BY <1>4, FetchAssumption DEF OrderInv, Types, TellInv, ToldOnce, Busy, Hear, Goto, Awaits,
            Places
    <2>7. Hope'
        <3>1. /\ UNCHANGED loop /\ observers \subseteq observers'
              /\ \A g \in Requests :
                     /\ Awaits(g) => Awaits(g)'
                     /\ cb[g].at \in {"empty", "post"} =>
                           cb'[g].at \in {"empty", "post"} /\ cb'[g].taken = cb[g].taken
                     /\ cb'[g].at = "empty" => cb[g].at = "empty"
                     /\ WillCopy(g) => WillCopy(g)'
            BY <1>4, <2>8 DEF Busy, Goto, Awaits, WillCopy, Started
        <3>2. CASE Role[r] = "prefetch"
            <4>1. heard[r] \in Nat /\ heard \in [Requests -> Nat] /\ Hear({r})
                BY <1>4, <3>2 DEF OrderInv, Types, Busy
            <4>2. heard'[r] # 0
                BY <4>1, HearCounts
            <4>3. late' = late
                BY <1>4, <3>2 DEF Busy
            <4> QED
                BY <2>8, <3>1, <4>2, <4>3, PlaceKeeps DEF TellInv, Hope, Observing
        <3>3. CASE Role[r] = "timer"
            BY <1>4, <2>8, <3>1, <3>3, PlaceKeeps DEF Busy, TellInv, Hope, Observing
        <3>4. CASE Role[r] = "export"
            <4>1. r \notin late' => WillCopy(saw[r])' /\ \A g \in Requests : cb'[g].at # "empty"
                <5>1. saw[r] \in Requests /\ saw[r] # r /\ Kind(saw[r]) = "market"
                      /\ Started(saw[r])
                    BY <1>4, <3>4 DEF Busy, Goto, TellInv, Finds, Kind
                <5>2. r \notin late' => ~TooLate(saw[r])
                    BY <1>4, <3>4 DEF Busy
                <5>3. cb[saw[r]].at \in {"none", "armed", "over"} \cup Active
                    BY <5>1 DEF OrderInv, Types, Marks
                <5>4. pc'[saw[r]] = pc[saw[r]] /\ UNCHANGED <<cb, saw>>
                    BY <1>4, <2>8, <5>1 DEF Busy
                <5>5. r \notin late' => cb[saw[r]].at \in {"none", "armed", "clear", "copy"}
                    BY <5>2, <5>3 DEF TooLate, Active
                <5>6. Kind(saw[r])' = "market" /\ Started(saw[r])'
                    BY <5>1, <5>4 DEF Kind, Started
                <5>7. r \notin late' => \A g \in Requests : cb'[g].at # "empty"
                    BY <5>2, <5>4 DEF TooLate
                <5> QED
                    BY <5>4, <5>5, <5>6, <5>7 DEF WillCopy
            <4>2. r \notin late' => Place(r)'
                BY <1>4, <3>4, <4>1 DEF Busy, TellInv, Finds, Goto, Place
            <4>3. \A q \in Requests : q # r /\ q \notin late' => q \notin late
                BY <1>4 DEF Busy
            <4> QED
                BY <2>8, <3>1, <4>2, <4>3, PlaceKeeps DEF TellInv, Hope, Observing
        <3> QED
            BY <3>2, <3>3, <3>4, FetchAssumption DEF Roles
    <2> QED
        BY <2>1, <2>2, <2>3, <2>4, <2>5, <2>6, <2>7 DEF TellInv
<1>5. CASE Submit(r)
    <2>1. Tasks'
        BY <1>5, FetchAssumption DEF TellInv, Tasks, Submit, Goto
    <2>2. Finds'
        BY <1>5, FetchAssumption DEF TellInv, Finds, Submit, Goto, Started
    <2>3. ObserversWait'
        BY <1>5, FetchAssumption DEF TellInv, ObserversWait, Submit, Goto, Joined, Unposted
    <2>4. TakenWait'
        BY <1>5, FetchAssumption DEF TellInv, TakenWait, Submit, Goto, Joined, Unposted
    <2>5. PostedWait'
        BY <1>5, FetchAssumption DEF TellInv, PostedWait, Submit, Goto
    <2>6. ToldOnce'
        BY <1>5, FetchAssumption DEF TellInv, ToldOnce, Submit, Goto, Awaits
    <2>7. Hope'
        <3>1. /\ UNCHANGED loop /\ observers \subseteq observers'
              /\ \A g \in Requests :
                     /\ Awaits(g) => Awaits(g)'
                     /\ cb[g].at \in {"empty", "post"} =>
                           cb'[g].at \in {"empty", "post"} /\ cb'[g].taken = cb[g].taken
                     /\ cb'[g].at = "empty" => cb[g].at = "empty"
                     /\ WillCopy(g) => WillCopy(g)'
            BY <1>5 DEF Submit, Goto, Awaits, WillCopy, Started
        <3>2. \A q \in Observing :
                 pc'[q] = "done" /\ q \notin late' /\ heard'[q] = 0 =>
                     Place(q)' \/ (pc[q] = "done" /\ q \notin late /\ heard[q] = 0)
            BY <1>5 DEF Submit, Goto
        <3> QED
            BY <3>1, <3>2, PlaceKeeps DEF TellInv, Hope, Observing
    <2> QED
        BY <2>1, <2>2, <2>3, <2>4, <2>5, <2>6, <2>7 DEF TellInv
<1>6. CASE Assign(r)
    <2>1. Tasks'
        BY <1>6, FetchAssumption DEF OrderInv, Types, TellInv, Tasks, Assign, Goto
    <2>2. Finds'
        BY <1>6, FetchAssumption DEF TellInv, Finds, Assign, Goto, Started
    <2>3. ObserversWait'
        BY <1>6, FetchAssumption DEF TellInv, ObserversWait, Assign, Goto, Joined, Unposted
    <2>4. TakenWait'
        BY <1>6, FetchAssumption DEF TellInv, TakenWait, Assign, Goto, Joined, Unposted
    <2>5. PostedWait'
        BY <1>6, FetchAssumption DEF TellInv, PostedWait, Assign, Goto
    <2>6. ToldOnce'
        BY <1>6, FetchAssumption DEF TellInv, ToldOnce, Assign, Goto, Awaits
    <2>7. Hope'
        <3>1. /\ UNCHANGED loop /\ observers \subseteq observers'
              /\ \A g \in Requests :
                     /\ Awaits(g) => Awaits(g)'
                     /\ cb[g].at \in {"empty", "post"} =>
                           cb'[g].at \in {"empty", "post"} /\ cb'[g].taken = cb[g].taken
                     /\ cb'[g].at = "empty" => cb[g].at = "empty"
                     /\ WillCopy(g) => WillCopy(g)'
            BY <1>6 DEF Assign, Goto, Awaits, WillCopy, Started
        <3>2. \A q \in Observing :
                 pc'[q] = "done" /\ q \notin late' /\ heard'[q] = 0 =>
                     Place(q)' \/ (pc[q] = "done" /\ q \notin late /\ heard[q] = 0)
            BY <1>6 DEF Assign, Goto
        <3> QED
            BY <3>1, <3>2, PlaceKeeps DEF TellInv, Hope, Observing
    <2> QED
        BY <2>1, <2>2, <2>3, <2>4, <2>5, <2>6, <2>7 DEF TellInv
<1>7. CASE Register(r)
    <2>1. Tasks'
        BY <1>7, FetchAssumption DEF OrderInv, Types, TellInv, Tasks, Register, Goto
    <2>2. Finds'
        BY <1>7, FetchAssumption DEF OrderInv, Types, TellInv, Finds, Register, Goto, Started
    <2>3. ObserversWait'
        BY <1>7, FetchAssumption DEF TellInv, ObserversWait, Register, Goto, Joined, Unposted
    <2>4. TakenWait'
        BY <1>7, FetchAssumption DEF OrderInv, TellInv, TakenWait, Register, Goto, Joined,
            Unposted, Places
    <2>5. PostedWait'
        BY <1>7, FetchAssumption DEF TellInv, PostedWait, Register, Goto
    <2>6. ToldOnce'
        BY <1>7, FetchAssumption DEF TellInv, ToldOnce, Register, Goto, Awaits
    <2>7. Hope'
        <3>1. /\ UNCHANGED loop /\ observers \subseteq observers'
              /\ \A g \in Requests :
                     /\ Awaits(g) => Awaits(g)'
                     /\ cb[g].at \in {"empty", "post"} =>
                           cb'[g].at \in {"empty", "post"} /\ cb'[g].taken = cb[g].taken
                     /\ cb'[g].at = "empty" => cb[g].at = "empty"
                     /\ WillCopy(g) => WillCopy(g)'
            BY <1>7, CallbacksMove DEF OrderInv, Types, Register, Goto, Places, Awaits, WillCopy,
                Started
        <3>2. \A q \in Observing :
                 pc'[q] = "done" /\ q \notin late' /\ heard'[q] = 0 =>
                     Place(q)' \/ (pc[q] = "done" /\ q \notin late /\ heard[q] = 0)
            BY <1>7, CallbacksMove DEF OrderInv, Types, Register, Goto, Place, Awaits
        <3> QED
            BY <3>1, <3>2, PlaceKeeps DEF TellInv, Hope, Observing
    <2> QED
        BY <2>1, <2>2, <2>3, <2>4, <2>5, <2>6, <2>7 DEF TellInv
<1>8. CASE ExportAtOnce(r)
    <2>8. /\ UNCHANGED <<cb, loop>> /\ pc[r] # "done"
          /\ \A q \in Requests : q # r => pc'[q] = pc[q] /\ heard'[q] = heard[q]
        BY <1>8, HearCounts DEF OrderInv, Types, ExportAtOnce, Goto
    <2>9. (\A q \in Requests : Joined(q) => Joined(q)') /\ PostedWait'
        BY <2>8, OthersWait DEF OrderInv, Types
    <2>1. Tasks'
        BY <1>8, FetchAssumption DEF TellInv, Tasks, ExportAtOnce, Goto
    <2>2. Finds'
        BY <1>8, FetchAssumption DEF TellInv, Finds, ExportAtOnce, Goto, Started
    <2>3. ObserversWait'
        BY <1>8, <2>9 DEF OrderInv, Types, Observing, TellInv, ObserversWait, ExportAtOnce
    <2>4. TakenWait'
        BY <1>8, <2>8, <2>9 DEF OrderInv, Types, Marks, Observing, TellInv, TakenWait,
            ExportAtOnce
    <2>5. PostedWait'
        BY <2>9
    <2>6. ToldOnce'
        BY <1>8, FetchAssumption DEF OrderInv, Types, TellInv, ToldOnce, ExportAtOnce, Hear, Goto,
            Awaits, Places
    <2>7. Hope'
        <3>1. /\ UNCHANGED loop /\ observers \subseteq observers'
              /\ \A g \in Requests :
                     /\ Awaits(g) => Awaits(g)'
                     /\ cb[g].at \in {"empty", "post"} =>
                           cb'[g].at \in {"empty", "post"} /\ cb'[g].taken = cb[g].taken
                     /\ cb'[g].at = "empty" => cb[g].at = "empty"
                     /\ WillCopy(g) => WillCopy(g)'
            BY <1>8, HearCounts DEF ExportAtOnce, Goto, Awaits, WillCopy, Started
        <3>2. \A q \in Observing :
                 pc'[q] = "done" /\ q \notin late' /\ heard'[q] = 0 =>
                     Place(q)' \/ (pc[q] = "done" /\ q \notin late /\ heard[q] = 0)
            BY <1>8, HearCounts DEF OrderInv, Types, ExportAtOnce, Goto, Observing
        <3> QED
            BY <3>1, <3>2, PlaceKeeps DEF TellInv, Hope, Observing
    <2> QED
        BY <2>1, <2>2, <2>3, <2>4, <2>5, <2>6, <2>7 DEF TellInv
<1> QED
    BY <1>1, <1>2, <1>3, <1>4, <1>5, <1>6, <1>7, <1>8 DEF Request

\* So does one of the worker, of the node loop or of the clock.
LEMMA WorkerTells ==
    ASSUME OrderInv, TellInv,
           Take \/ (\E o \in {"success", "failed"} : Finish(o)) \/ Deliver \/ Close
    PROVE  TellInv'
<1>1. CASE Take
    <2>1. Tasks'
        BY <1>1, FetchAssumption DEF TellInv, Tasks, Take, asking
    <2>2. Finds'
        BY <1>1, FetchAssumption DEF TellInv, Finds, Take, asking, Started
    <2>3. ObserversWait'
        BY <1>1, FetchAssumption DEF TellInv, ObserversWait, Take, asking, Joined, Unposted
    <2>4. TakenWait'
        BY <1>1, FetchAssumption DEF TellInv, TakenWait, Take, asking, Joined, Unposted
    <2>5. PostedWait'
        BY <1>1, FetchAssumption DEF TellInv, PostedWait, Take, asking
    <2>6. ToldOnce'
        BY <1>1, FetchAssumption DEF TellInv, ToldOnce, Take, asking, Awaits
    <2>7. Hope'
        BY <1>1, FetchAssumption DEF TellInv, Hope, Take, asking, Unposted, Place, WillCopy,
            Awaits, Started, Kinds
    <2> QED
        BY <2>1, <2>2, <2>3, <2>4, <2>5, <2>6, <2>7 DEF TellInv
<1>2. CASE \E o \in {"success", "failed"} : Finish(o)
    <2>8. /\ UNCHANGED <<pc, saw, heard, loop, observers, task, late>>
          /\ \A g \in Requests :
                 /\ cb'[g].taken = cb[g].taken
                 /\ cb'[g].at = cb[g].at \/ (cb[g].at = "armed" /\ cb'[g].at = "clear")
        <3>1. UNCHANGED cb \/ (cb' = [cb EXCEPT ![worker].at = "clear"] /\ cb[worker].at = "armed")
            BY <1>2 DEF Finish
        <3>2. worker \in Requests /\ UNCHANGED <<pc, saw, heard, loop, observers, task, late>>
            BY <1>2 DEF OrderInv, Types, Finish, asking
        <3> QED
            BY <3>1, <3>2, CallbacksMove DEF OrderInv, Types, Active
    <2>1. Tasks'
        <3>1. \A k \in Kinds : task[k] # None => task[k] \in Requests
            BY DEF OrderInv, Types
        <3>2. \A g \in Requests : cb[g].at \in {"armed", "clear"}
              => cb'[g].at \in {"armed", "clear"}
            BY <2>8
        <3> QED
            BY <2>8, <3>1, <3>2 DEF TellInv, Tasks
    <2>2. Finds'
        BY <2>8 DEF TellInv, Finds, Started
    <2>9. \A q \in Requests : Joined(q) => Joined(q)'
        BY <2>8 DEF Joined, Unposted
    <2>3. ObserversWait'
        BY <2>8, <2>9 DEF OrderInv, Types, Observing, TellInv, ObserversWait
    <2>4. TakenWait'
        <3>1. \A g \in Requests : cb[g].taken \subseteq Requests
            BY DEF OrderInv, Types, Marks, Observing
        <3> QED
            BY <2>8, <2>9, <3>1 DEF TellInv, TakenWait
    <2>5. PostedWait'
        <3>1. \A i \in 1 .. Len(loop) : loop[i].who \subseteq Requests
            <4>1. \A i \in 1 .. Len(loop) : loop[i] \in Posts
                BY DEF OrderInv, Types
            <4> QED
                BY <4>1 DEF Posts, Observing
        <3> QED
            BY <2>8, <3>1 DEF TellInv, PostedWait
    <2>6. ToldOnce'
        BY <2>8 DEF TellInv, ToldOnce, Awaits, Active
    <2>7. Hope'
        <3>1. \A g \in Requests :
                 /\ Awaits(g) => Awaits(g)'
                 /\ cb[g].at \in {"empty", "post"} =>
                       cb'[g].at \in {"empty", "post"} /\ cb'[g].taken = cb[g].taken
                 /\ cb'[g].at = "empty" => cb[g].at = "empty"
                 /\ WillCopy(g) => WillCopy(g)'
            BY <2>8 DEF Awaits, WillCopy, Started, Active
        <3> QED
            BY <2>8, <3>1, PlaceKeeps DEF TellInv, Hope, Observing
    <2> QED
        BY <2>1, <2>2, <2>3, <2>4, <2>5, <2>6, <2>7 DEF TellInv
<1>3. CASE Deliver
    <2>8. /\ Len(loop) \in Nat /\ Len(loop) > 0 /\ Len(loop') = Len(loop) - 1
          /\ \A i \in 1 .. Len(loop') : loop'[i] = loop[i + 1] /\ i + 1 \in 1 .. Len(loop)
        <3>1. loop \in Seq(Posts) /\ loop # <<>> /\ loop' = Tail(loop)
            BY <1>3 DEF OrderInv, Types, Deliver
        <3>2. Len(loop) \in Nat /\ Len(loop) > 0 /\ loop' \in Seq(Posts)
            BY <3>1
        <3>3. Len(loop') = Len(loop) - 1
            BY <3>1, <3>2
        <3> QED
            BY <3>1, <3>2, <3>3
    <2>9. /\ UNCHANGED <<pc, saw, cb, observers, task, late>>
          /\ \A q \in Requests : heard'[q] = IF q \in loop[1].who THEN heard[q] + 1 ELSE heard[q]
        BY <1>3, <2>8, HearCounts DEF OrderInv, Types, Deliver, asking
    <2>10. \A i \in 1 .. Len(loop) : loop[i].who \subseteq Requests
        <3>1. \A i \in 1 .. Len(loop) : loop[i] \in Posts
            BY DEF OrderInv, Types
        <3> QED
            BY <3>1 DEF Posts, Observing
    <2>11. \A q \in Requests : Joined(q) => Joined(q)'
        <3> SUFFICES ASSUME NEW q \in Requests, Joined(q)
                     PROVE  Joined(q)'
            OBVIOUS
        <3>1. \A i \in 1 .. Len(loop) : q \notin loop[i].who
            BY DEF Joined, Unposted
        <3>2. 1 \in 1 .. Len(loop)
            BY <2>8
        <3> QED
            BY <2>8, <2>9, <3>1, <3>2 DEF Joined, Unposted
    <2>1. Tasks'
        BY <1>3, FetchAssumption DEF TellInv, Tasks, Deliver, asking
    <2>2. Finds'
        BY <1>3, FetchAssumption DEF TellInv, Finds, Deliver, asking, Started
    <2>3. ObserversWait'
        BY <2>9, <2>11 DEF OrderInv, Types, Observing, TellInv, ObserversWait
    <2>4. TakenWait'
        <3>1. \A g \in Requests : cb[g].taken \subseteq Requests
            BY DEF OrderInv, Types, Marks, Observing
        <3> QED
            BY <2>9, <2>11, <3>1 DEF TellInv, TakenWait
    <2>5. PostedWait'
        <3>1. \A i \in 1 .. Len(loop') : \A q \in loop'[i].who : q \in Requests
              /\ q \notin loop[1].who
            <4> SUFFICES ASSUME NEW i \in 1 .. Len(loop'), NEW q \in loop'[i].who
                         PROVE  q \in Requests /\ q \notin loop[1].who
                OBVIOUS
            <4>1. q \in loop[i + 1].who /\ i + 1 \in 1 .. Len(loop) /\ 1 \in 1 .. Len(loop)
                  /\ i + 1 # 1
                BY <2>8
            <4> QED
                BY <2>10, <4>1 DEF TellInv, PostedWait
        <3>2. \A i \in 1 .. Len(loop') : \A q \in loop'[i].who :
                 pc'[q] = "done" /\ heard'[q] = 0 /\ cb'[q].at \in {"none", "over"}
            BY <2>8, <2>9, <3>1, SMTT(30) DEF TellInv, PostedWait
        <3>3. \A i, j \in 1 .. Len(loop') : i # j => loop'[i].who \cap loop'[j].who = {}
            <4> SUFFICES ASSUME NEW i \in 1 .. Len(loop'), NEW j \in 1 .. Len(loop'), i # j
                         PROVE  loop'[i].who \cap loop'[j].who = {}
                OBVIOUS
            <4>1. i + 1 # j + 1
                BY <2>8
            <4> QED
                BY <2>8, <4>1 DEF TellInv, PostedWait
        <3> QED
            BY <3>2, <3>3 DEF PostedWait
    <2>6. ToldOnce'
        <3>1. 1 \in 1 .. Len(loop)
            BY <2>8
        <3>2. \A q \in loop[1].who : pc[q] = "done" /\ heard[q] = 0 /\ cb[q].at \in {"none", "over"}
            BY <3>1 DEF TellInv, PostedWait
        <3> QED
            BY <2>9, <3>2 DEF TellInv, ToldOnce, Awaits, Active
    <2>7. Hope'
        <3> SUFFICES ASSUME NEW q \in Observing, pc'[q] = "done", q \notin late', heard'[q] = 0
                     PROVE  Place(q)'
            BY DEF Hope
        <3>1. q \in Requests /\ q \notin loop[1].who /\ heard[q] = 0
            BY <2>9 DEF OrderInv, Types, Observing
        <3>2. Place(q)
            BY <2>9, <3>1 DEF TellInv, Hope
        <3>3. CASE ~Unposted(q)
            <4>1. PICK i \in 1 .. Len(loop) : q \in loop[i].who
                BY <3>3 DEF Unposted
            <4>2. i - 1 \in 1 .. Len(loop') /\ (i - 1) + 1 = i
                BY <2>8, <3>1, <4>1
            <4>3. loop'[i - 1] = loop[i]
                BY <2>8, <4>2
            <4> QED
                BY <4>1, <4>2, <4>3 DEF Place, Unposted
        <3>4. CASE Unposted(q)
            BY <2>9, <3>2, <3>4 DEF Place, Awaits, WillCopy, Started
        <3> QED
            BY <3>3, <3>4
    <2> QED
        BY <2>1, <2>2, <2>3, <2>4, <2>5, <2>6, <2>7 DEF TellInv
<1>4. CASE Close
    <2>1. Tasks'
        BY <1>4, FetchAssumption DEF TellInv, Tasks, Close, asking
    <2>2. Finds'
        BY <1>4, FetchAssumption DEF TellInv, Finds, Close, asking, Started
    <2>3. ObserversWait'
        BY <1>4, FetchAssumption DEF TellInv, ObserversWait, Close, asking, Joined, Unposted
    <2>4. TakenWait'
        BY <1>4, FetchAssumption DEF TellInv, TakenWait, Close, asking, Joined, Unposted
    <2>5. PostedWait'
        BY <1>4, FetchAssumption DEF TellInv, PostedWait, Close, asking
    <2>6. ToldOnce'
        BY <1>4, FetchAssumption DEF TellInv, ToldOnce, Close, asking, Awaits
    <2>7. Hope'
        BY <1>4, FetchAssumption DEF TellInv, Hope, Close, asking, Unposted, Place, WillCopy,
            Awaits, Started
    <2> QED
        BY <2>1, <2>2, <2>3, <2>4, <2>5, <2>6, <2>7 DEF TellInv
<1> QED
    BY <1>1, <1>2, <1>3, <1>4

\* And one of a done callback, which moves the requests it tells from place to place.
LEMMA CallbackTells ==
    ASSUME OrderInv, TellInv, NEW f \in Requests, Callback(f)
    PROVE  TellInv'
<1>1. CASE ClearTask(f)
    <2>1. Tasks'
        BY <1>1, FetchAssumption DEF OrderInv, Types, TellInv, Tasks, ClearTask, CallbackAt,
            Cleared, asking
    <2>2. Finds'
        BY <1>1, FetchAssumption DEF TellInv, Finds, ClearTask, CallbackAt, asking, Started
    <2>3. ObserversWait'
        BY <1>1, FetchAssumption DEF TellInv, ObserversWait, ClearTask, CallbackAt, asking,
            Joined, Unposted
    <2>4. TakenWait'
        BY <1>1, FetchAssumption DEF TellInv, TakenWait, ClearTask, CallbackAt, asking, Joined,
            Unposted
    <2>5. PostedWait'
        BY <1>1, FetchAssumption DEF TellInv, PostedWait, ClearTask, CallbackAt, asking
    <2>6. ToldOnce'
        BY <1>1, FetchAssumption DEF TellInv, ToldOnce, ClearTask, CallbackAt, asking, Awaits,
            Active
    <2>7. Hope'
        <3>1. /\ UNCHANGED loop /\ observers \subseteq observers'
              /\ \A g \in Requests :
                     /\ Awaits(g) => Awaits(g)'
                     /\ cb[g].at \in {"empty", "post"} =>
                           cb'[g].at \in {"empty", "post"} /\ cb'[g].taken = cb[g].taken
                     /\ cb'[g].at = "empty" => cb[g].at = "empty"
                     /\ WillCopy(g) => WillCopy(g)'
            BY <1>1, CallbacksMove DEF ClearTask, CallbackAt, asking, Awaits, WillCopy, Started,
                Active
        <3>2. \A q \in Observing :
                 pc'[q] = "done" /\ q \notin late' /\ heard'[q] = 0 =>
                     Place(q)' \/ (pc[q] = "done" /\ q \notin late /\ heard[q] = 0)
            BY <1>1, CallbacksMove DEF ClearTask, asking
        <3> QED
            BY <3>1, <3>2, PlaceKeeps DEF TellInv, Hope, Observing
    <2> QED
        BY <2>1, <2>2, <2>3, <2>4, <2>5, <2>6, <2>7 DEF TellInv
<1>2. CASE CopyObservers(f)
    <2>1. Tasks'
        BY <1>2, FetchAssumption DEF TellInv, Tasks, CopyObservers, asking
    <2>2. Finds'
        BY <1>2, FetchAssumption DEF TellInv, Finds, CopyObservers, asking, Started
    <2>3. ObserversWait'
        BY <1>2, FetchAssumption DEF TellInv, ObserversWait, CopyObservers, asking, Joined,
            Unposted
    <2>4. TakenWait'
        BY <1>2, FetchAssumption DEF TellInv, TakenWait, CopyObservers, ObserversWait, asking,
            Joined, Unposted
    <2>5. PostedWait'
        BY <1>2, FetchAssumption DEF TellInv, PostedWait, CopyObservers, asking
    <2>6. ToldOnce'
        BY <1>2, FetchAssumption DEF TellInv, ToldOnce, CopyObservers, asking, Awaits, Active
    <2>7. Hope'
        <3>1. /\ UNCHANGED <<pc, heard, loop, observers, late>>
              /\ cb[f].at = "copy" /\ cb'[f].at = "empty" /\ cb'[f].taken = observers
              /\ \A g \in Requests : g # f => cb'[g] = cb[g]
            BY <1>2 DEF OrderInv, Types, CopyObservers, asking
        <3> SUFFICES ASSUME NEW q \in Observing, Place(q)
                     PROVE  Place(q)'
            BY <3>1 DEF TellInv, Hope
        <3>2. CASE Awaits(q) \/ ~Unposted(q)
            BY <3>1, <3>2 DEF Place, Awaits, Unposted, Active, Observing
        <3>3. CASE \E g \in Requests : cb[g].at \in {"empty", "post"} /\ q \in cb[g].taken
            BY <3>1, <3>3 DEF Place
        <3>4. CASE q \in observers
            BY <3>1, <3>4 DEF Place
        <3> QED
            BY <3>2, <3>3, <3>4 DEF Place
    <2> QED
        BY <2>1, <2>2, <2>3, <2>4, <2>5, <2>6, <2>7 DEF TellInv
<1>3. CASE ClearObservers(f)
    <2>1. Tasks'
        BY <1>3, FetchAssumption DEF TellInv, Tasks, ClearObservers, CallbackAt, asking
    <2>2. Finds'
        BY <1>3, FetchAssumption DEF TellInv, Finds, ClearObservers, CallbackAt, asking, Started
    <2>3. ObserversWait'
        BY <1>3, FetchAssumption DEF ObserversWait, ClearObservers, Emptied
    <2>4. TakenWait'
        BY <1>3, FetchAssumption DEF TellInv, TakenWait, ClearObservers, CallbackAt, Emptied,
            asking, Joined, Unposted
    <2>5. PostedWait'
        BY <1>3, FetchAssumption DEF TellInv, PostedWait, ClearObservers, CallbackAt, asking
    <2>6. ToldOnce'
        BY <1>3, FetchAssumption DEF TellInv, ToldOnce, ClearObservers, CallbackAt, asking,
            Awaits, Active
    <2>7. Hope'
        <3>1. /\ UNCHANGED <<pc, heard, loop, late>> /\ cb[f].at = "empty"
              /\ cb'[f].at = "post" /\ cb'[f].taken = cb[f].taken
              /\ \A g \in Requests : g # f => cb'[g] = cb[g]
            BY <1>3, CallbacksMove DEF OrderInv, Types, ClearObservers, CallbackAt, asking
        <3> SUFFICES ASSUME NEW q \in Observing, Place(q)
                     PROVE  Place(q)'
            BY <3>1 DEF TellInv, Hope
        <3>2. CASE Awaits(q) \/ ~Unposted(q)
            BY <3>1, <3>2 DEF Place, Awaits, Unposted, Active, Observing
        <3>3. CASE \E g \in Requests : cb[g].at \in {"empty", "post"} /\ q \in cb[g].taken
            BY <3>1, <3>3 DEF Place
        <3> QED
            BY <3>1, <3>2, <3>3 DEF Place
    <2> QED
        BY <2>1, <2>2, <2>3, <2>4, <2>5, <2>6, <2>7 DEF TellInv
<1>4. CASE Post(f)
    <2>8. /\ cb[f].at = "post" /\ cb'[f].at = "over"
          /\ \A g \in Requests : cb'[g].taken = cb[g].taken /\ (g # f => cb'[g] = cb[g])
        BY <1>4, CallbacksMove DEF OrderInv, Types, Post, CallbackAt
    <2>9. /\ UNCHANGED <<saw, observers, task, late>>
          /\ pc'[f] = "done" /\ \A q \in Requests : pc'[q] = pc[q] \/ (q = f /\ pc[q] = "callback")
        BY <1>4, <2>8 DEF OrderInv, Types, Places, Active, Post
    <2>10. \A g \in Requests : g # f => cb[g].at \notin Active
        BY <2>8, OneCallback DEF Active
    <2>11. \A q \in Told(f) :
              /\ q \in Requests /\ pc'[q] = "done" /\ heard[q] = 0 /\ cb'[q].at \in {"none", "over"}
              /\ Unposted(q) /\ q \notin observers
        <3>1. \A q \in cb[f].taken : q \in Requests /\ Joined(q) /\ q \notin observers
            BY <2>8 DEF OrderInv, Types, Marks, Observing, TellInv, TakenWait
        <3>2. heard[f] = 0 /\ Unposted(f) /\ f \notin observers
            BY <2>8 DEF TellInv, ToldOnce, Awaits, Active, PostedWait, ObserversWait, Joined,
                Unposted
        <3> QED
            BY <2>8, <2>9, <3>1, <3>2 DEF Told, Joined
    <2>12. \/ /\ Hear(Told(f)) /\ UNCHANGED loop
           \/ /\ UNCHANGED heard /\ loop' = Append(loop, [fetch |-> f, who |-> Told(f)])
        BY <1>4 DEF Post
    <2>13. \/ /\ UNCHANGED loop
              /\ \A q \in Requests : heard'[q] = IF q \in Told(f) THEN heard[q] + 1 ELSE heard[q]
           \/ /\ UNCHANGED heard /\ Len(loop) \in Nat /\ Len(loop') = Len(loop) + 1
              /\ \A i \in 1 .. Len(loop) : loop'[i] = loop[i]
              /\ loop'[Len(loop) + 1].who = Told(f)
        <3>1. heard \in [Requests -> Nat] /\ loop \in Seq(Posts)
            BY DEF OrderInv, Types
        <3>2. CASE UNCHANGED heard
            <4>1. CASE loop' = Append(loop, [fetch |-> f, who |-> Told(f)])
                BY <3>1, <3>2, <4>1
            <4> QED
                BY <2>12, <3>1, <3>2, <4>1, HearCounts
        <3> QED
            BY <2>12, <3>1, <3>2, HearCounts
    <2>14. \A i \in 1 .. Len(loop) : loop[i].who \subseteq Requests
        <3>1. \A i \in 1 .. Len(loop) : loop[i] \in Posts
            BY DEF OrderInv, Types
        <3> QED
            BY <3>1 DEF Posts, Observing
    <2>1. Tasks'
        BY <1>4, FetchAssumption DEF TellInv, Tasks, Post, CallbackAt
    <2>2. Finds'
        BY <1>4, FetchAssumption DEF TellInv, Finds, Post, CallbackAt, Started
    <2>3. ObserversWait'
        <3> SUFFICES ASSUME NEW q \in observers
                     PROVE  Joined(q)'
            BY <2>9 DEF ObserversWait
        <3>1. q \in Requests /\ Joined(q) /\ q # f /\ q \notin Told(f)
            BY <2>8, <2>11 DEF OrderInv, Types, Observing, TellInv, ObserversWait, Joined
        <3>2. heard'[q] = 0 /\ pc'[q] = "done" /\ cb'[q].at = "none"
            BY <2>8, <2>9, <2>13, <3>1 DEF Joined
        <3>3. Unposted(q)'
            BY <2>13, <3>1 DEF Joined, Unposted
        <3> QED
            BY <3>2, <3>3 DEF Joined
    <2>4. TakenWait'
        BY <2>8, <2>10 DEF TellInv, TakenWait, Active
    <2>5. PostedWait'
        <3>1. \A i \in 1 .. Len(loop) : \A q \in loop[i].who :
                 /\ q \in Requests /\ q \notin Told(f)
                 /\ pc'[q] = "done" /\ heard'[q] = 0 /\ cb'[q].at \in {"none", "over"}
            BY <2>8, <2>9, <2>11, <2>13, <2>14 DEF TellInv, PostedWait, Unposted
        <3>2. CASE UNCHANGED loop
            BY <3>1, <3>2 DEF TellInv, PostedWait
        <3>3. CASE /\ UNCHANGED heard /\ Len(loop) \in Nat /\ Len(loop') = Len(loop) + 1
                   /\ \A i \in 1 .. Len(loop) : loop'[i] = loop[i]
                   /\ loop'[Len(loop) + 1].who = Told(f)
            <4>1. \A i \in 1 .. Len(loop') : i \in 1 .. Len(loop) \/ i = Len(loop) + 1
                BY <3>3
            <4>2. \A i \in 1 .. Len(loop') : \A q \in loop'[i].who :
                     pc'[q] = "done" /\ heard'[q] = 0 /\ cb'[q].at \in {"none", "over"}
                BY <2>11, <3>1, <3>3, <4>1
            <4>3. \A i \in 1 .. Len(loop) : loop[i].who \cap Told(f) = {}
                BY <3>1
            <4>4. \A i, j \in 1 .. Len(loop') : i # j => loop'[i].who \cap loop'[j].who = {}
                BY <3>3, <4>1, <4>3 DEF TellInv, PostedWait
            <4> QED
                BY <4>2, <4>4 DEF PostedWait
        <3> QED
            BY <2>13, <3>2, <3>3
    <2>6. ToldOnce'
        <3>1. \A q \in Requests : Awaits(q)' => Awaits(q) /\ q # f
            BY <2>8 DEF Awaits, Active
        <3>2. \A q \in Told(f) : q # f => ~Awaits(q)'
            BY <2>8, <2>11 DEF Awaits, Active
        <3> QED
            BY <2>9, <2>11, <2>13, <3>1, <3>2 DEF TellInv, ToldOnce
    <2>7. Hope'
        <3> SUFFICES ASSUME NEW q \in Observing, pc'[q] = "done", q \notin late', heard'[q] = 0
                     PROVE  Place(q)'
            BY DEF Hope
        <3>1. q \in Requests
            BY DEF Observing
        <3>2. CASE q \in Told(f)
            <4>1. /\ Len(loop) \in Nat /\ Len(loop') = Len(loop) + 1
                  /\ loop'[Len(loop) + 1].who = Told(f)
                BY <2>11, <2>13, <3>1, <3>2
            <4>2. Len(loop) + 1 \in 1 .. Len(loop')
                BY <4>1
            <4> QED
                BY <3>2, <4>1, <4>2 DEF Place, Unposted
        <3>3. CASE q \notin Told(f)
            <4>1. q # f /\ q \notin cb[f].taken /\ pc[q] = "done" /\ heard[q] = 0
                BY <2>9, <2>13, <3>1, <3>3 DEF Told
            <4>2. Place(q)
                BY <2>9, <4>1 DEF TellInv, Hope
            <4>3. CASE Awaits(q)
                BY <2>8, <3>1, <4>1, <4>3 DEF Place, Awaits
            <4>4. CASE ~Unposted(q)
                <5>1. ~Unposted(q)'
                    BY <2>13, <4>4 DEF Unposted
                <5> QED
                    BY <5>1 DEF Place
            <4>5. CASE \E g \in Requests : cb[g].at \in {"empty", "post"} /\ q \in cb[g].taken
                BY <2>8, <2>10, <4>1, <4>5 DEF Active
            <4>6. CASE /\ q \in observers /\ \A g \in Requests : cb[g].at # "empty"
                       /\ \E g \in Requests : WillCopy(g)
                <5>1. \A g \in Requests : cb'[g].at # "empty"
                    BY <2>8, <4>6
                <5>2. \A g \in Requests : WillCopy(g) => WillCopy(g)'
                    BY <2>8, <2>9 DEF WillCopy, Started
                <5> QED
                    BY <2>9, <4>6, <5>1, <5>2 DEF Place
            <4> QED
                BY <4>2, <4>3, <4>4, <4>5, <4>6 DEF Place
        <3> QED
            BY <3>2, <3>3
    <2> QED
        BY <2>1, <2>2, <2>3, <2>4, <2>5, <2>6, <2>7 DEF TellInv
<1> QED
    BY <1>1, <1>2, <1>3, <1>4 DEF Callback

-----------------------------------------------------------------------------
FetchInv == OrderInv /\ TellInv

\* Once all is quiet there is no place left to wait in.
LEMMA QuietTells == FetchInv => HeardOnce /\ HeardUnlessLate /\ GuardReopens
<1> SUFFICES ASSUME FetchInv
             PROVE  HeardOnce /\ HeardUnlessLate /\ GuardReopens
    OBVIOUS
<1>1. HeardOnce
    BY DEF FetchInv, TellInv, ToldOnce, HeardOnce
<1>2. ASSUME Quiet
      PROVE  \A r \in Requests :
                 ~Awaits(r) /\ pc[r] \notin {"assign", "register"}
                     /\ (Started(r) => cb[r].at = "over")
    <2>1. queue = <<>> /\ worker = None /\ \A r \in Requests : pc[r] \in {"idle", "done", "raised"}
        BY <1>2 DEF Quiet
    <2>2. \A r \in Requests : Started(r) => result[r] # "pending"
        BY <2>1, FetchAssumption DEF FetchInv, OrderInv, Queued
    <2>3. \A r \in Requests : cb[r].at \notin Active
        BY <2>1, FetchAssumption DEF FetchInv, OrderInv, Places
    <2>4. \A r \in Requests : cb[r].at # "armed"
        BY <2>2 DEF FetchInv, OrderInv, Places, Started
    <2> QED
        BY <2>1, <2>3, <2>4 DEF FetchInv, OrderInv, Types, Marks, Awaits, Started
<1>3. HeardUnlessLate
    <2> SUFFICES ASSUME Quiet, NEW r \in Observing, pc[r] = "done", r \notin late
                 PROVE  heard[r] > 0
        BY DEF HeardUnlessLate
    <2>1. r \in Requests /\ heard[r] \in {0, 1}
        BY DEF Observing, FetchInv, TellInv, ToldOnce
    <2>2. loop = <<>>
        BY DEF Quiet
    <2>3. ~Place(r)
        BY <1>2, <2>1, <2>2 DEF Place, Unposted, WillCopy, Awaits, Active
    <2> QED
        BY <2>1, <2>3 DEF FetchInv, TellInv, Hope
<1>4. GuardReopens
    <2> SUFFICES ASSUME Quiet, NEW k \in Kinds, task[k] # None
                 PROVE  FALSE
        BY DEF GuardReopens
    <2>1. task[k] \in Requests
        BY DEF FetchInv, OrderInv, Types
    <2> QED
        BY <1>2, <2>1 DEF FetchInv, TellInv, Tasks, Awaits, Active
<1> QED
    BY <1>1, <1>3, <1>4

LEMMA FetchStarts == Init => FetchInv
<1> SUFFICES ASSUME Init
             PROVE  FetchInv
    OBVIOUS
<1>1. Types
    <2>1. cb \in [Requests -> Marks]
        <3>1. [at |-> "none", taken |-> {}] \in Marks
            BY DEF Marks
        <3> QED
            BY <3>1 DEF Init
    <2>2. loop \in Seq(Posts) /\ queue \in Seq(Requests)
        BY DEF Init
    <2>3. heard \in [Requests -> Nat]
          /\ pc \in [Requests -> {"idle", "done", "raised"} \cup Between]
        BY DEF Init
    <2> QED
        BY <2>1, <2>2, <2>3 DEF Init, Types
<1>2. Places /\ OneAsks /\ LastInQueue
    BY DEF Init, Places, OneAsks, LastInQueue, Between, Active
<1>3. Queued
    BY FetchAssumption DEF Init, Queued, Started
<1>4. Tasks /\ Finds /\ ObserversWait
    BY DEF Init, Tasks, Finds, ObserversWait
<1>6. ToldOnce /\ Hope
    BY DEF Init, ToldOnce, Hope, Observing
<1>5. TakenWait /\ PostedWait
    BY DEF Init, TakenWait, PostedWait
<1> QED
    BY <1>1, <1>2, <1>3, <1>4, <1>5, <1>6 DEF FetchInv, OrderInv, TellInv

LEMMA FetchKeeps ==
    ASSUME OneClock, FetchInv, [Next]_vars
    PROVE  FetchInv'
<1>1. ASSUME NEW r \in Requests, Request(r)
      PROVE  FetchInv'
    BY <1>1, RequestKeeps, RequestTells DEF FetchInv
<1>2. ASSUME NEW f \in Requests, Callback(f)
      PROVE  FetchInv'
    BY <1>2, CallbackKeeps, CallbackTells DEF FetchInv
<1>3. CASE Take \/ (\E o \in {"success", "failed"} : Finish(o)) \/ Deliver \/ Close
    BY <1>3, WorkerKeeps, WorkerTells DEF FetchInv
<1>4. CASE UNCHANGED vars
    <2>1. OrderInv'
        BY <1>4 DEF FetchInv, OrderInv, Types, Places, Queued, OneAsks, LastInQueue, Started, vars
    <2>2. TellInv'
        BY <1>4 DEF FetchInv, TellInv, Tasks, Finds, ObserversWait, TakenWait, PostedWait,
            ToldOnce, Hope, Place, Joined, Unposted, WillCopy, Awaits, Started, vars
    <2> QED
        BY <2>1, <2>2 DEF FetchInv
<1> QED
    BY <1>1, <1>2, <1>3, <1>4 DEF Next

\* Whoever asks for a full tick hears of its end at most once, and does hear of it once all is
\* quiet unless it joined late, and the guard then lets the next request fetch, for every set
\* of requests, when all of them come from one clock thread.
THEOREM FetchHeard ==
    ASSUME OneClock
    PROVE  Spec => [](HeardOnce /\ HeardUnlessLate /\ GuardReopens)
<1>1. Init => FetchInv
    BY FetchStarts
<1>2. FetchInv /\ [Next]_vars => FetchInv'
    BY FetchKeeps
<1>3. FetchInv => HeardOnce /\ HeardUnlessLate /\ GuardReopens
    BY QuietTells
<1> QED
    BY <1>1, <1>2, <1>3, PTL DEF Spec
===============================================================================
