----------------------------- MODULE LiveData_proofs -----------------------------
(***************************************************************************)
(* Why what the live node takes in and writes down is right, component by  *)
(* component: an inductive invariant for each, the lemmas that its steps   *)
(* keep it, and at the end one theorem for each property that the run of   *)
(* MCLiveData checks.  The fetches of ticks are in TickFetch_proofs.       *)
(***************************************************************************)
EXTENDS MCLiveData, TickFetch_proofs, SumTheorems, SequenceTheorems

-----------------------------------------------------------------------------
(* Reconciliation *)

ReconAssumption == Changes \in Nat

\* One request at a time is in run(): the loop and the clock's thread do not overlap.
OneInRun == \A r, s \in RC!Callers : ~RC!Ended(r) /\ ~RC!Ended(s) => r = s

\* A request has no coroutine before it is submitted, and no answer before its future is set.
Stages ==
    \A r \in RC!Callers :
        /\ recon_pc[r] \in {"idle", "check", "start"} => future[r] = "none"
        /\ recon_pc[r] \in {"assign", "register"} => future[r] # "none"
        /\ future[r] # "set" => outcome[r] = RC!Nobody
        /\ recon_pc[r] = "register" => recon_task \in {r, RC!Nobody}

\* What a callback waits for has not been set, or the loop is calling it.
Awaited ==
    \A r, t \in RC!Callers :
        t \in recon_heard[r] =>
            /\ future[t] # "none"
            /\ future[t] = "set" => calling = t

\* A request that left run() has ended once, or has one callback that will end it.
EndsOnce ==
    \A r \in RC!Callers :
        IF recon_pc[r] # "over" THEN reports[r] = 0 /\ recon_heard[r] = {}
        ELSE \/ reports[r] = 1 /\ recon_heard[r] = {}
             \/ reports[r] = 0 /\ \E t \in RC!Callers : recon_heard[r] = {t}

\* Until its own callback has run, the answer may still find the gate shut.
GateFollows ==
    \A r \in RC!Callers :
        recon_pc[r] = "over" =>
            \/ future[r] = "none"
            \/ r \in recon_heard[r]
            \/ future[r] = "set" /\ (outcome[r] = "ok" => gate)

ReconTypes ==
    /\ RC!TypeOK
    /\ seen \in [RC!Callers -> 0 .. Changes]
    /\ outcome \in [RC!Callers -> {RC!Nobody, "ok", "late", "raised"}]
    /\ recon_task # RC!Nobody => future[recon_task] # "none"
    /\ calling # RC!Nobody => future[calling] = "set"

ReconInv == ReconTypes /\ OneInRun /\ Stages /\ Awaited /\ EndsOnce /\ GateFollows

LEMMA ReconStarts ==
    ASSUME ReconAssumption, RC!Init
    PROVE  ReconInv
<1> USE DEF RC!Init, RC!Nobody
<1>1. /\ seen \in [RC!Callers -> 0 .. Changes] /\ account \in 0 .. Changes
      /\ sellable \in 0 .. RC!Never
    BY DEF ReconAssumption, RC!Never
<1>2. RC!TypeOK
    BY <1>1 DEF RC!TypeOK
<1>3. ReconTypes
    BY <1>1, <1>2 DEF ReconTypes
<1>4. OneInRun /\ Stages /\ Awaited
    BY DEF OneInRun, RC!Ended, Stages, Awaited
<1>5. EndsOnce /\ GateFollows
    BY DEF EndsOnce, GateFollows
<1> QED
    BY <1>3, <1>4, <1>5 DEF ReconInv

LEMMA ReconAnswers == ReconInv => RC!AnswerHeard
<1> SUFFICES ASSUME ReconInv, NEW r \in RC!Callers
             PROVE  /\ reports[r] <= 1
                    /\ RC!Quiet /\ recon_pc[r] = "over" =>
                         /\ reports[r] = 1
                         /\ outcome[r] = "ok" => gate
    BY DEF RC!AnswerHeard
<1>1. reports[r] <= 1
    BY DEF ReconInv, EndsOnce
<1>2. ASSUME RC!Quiet, recon_pc[r] = "over" PROVE recon_heard[r] = {}
    <2>1. \A t \in RC!Callers : t \notin recon_heard[r]
        BY <1>2 DEF RC!Quiet, RC!Nobody, ReconInv, ReconTypes, RC!TypeOK, Awaited, RC!Callers
    <2> QED
        BY <2>1 DEF ReconInv, ReconTypes, RC!TypeOK
<1> QED
    BY <1>1, <1>2 DEF ReconInv, Stages, EndsOnce, GateFollows, RC!Quiet, RC!Nobody

\* The steps inside run().
LEMMA RunKeeps ==
    ASSUME ReconAssumption, ReconInv, NEW r \in RC!Callers,
           RC!Enter(r) \/ RC!Check(r) \/ RC!StartFails(r) \/ RC!Submit(r) \/ RC!Assign(r)
    PROVE  ReconInv'
<1> USE DEF ReconInv, ReconTypes, RC!TypeOK, RC!Nobody
<1>1. CASE RC!Enter(r)
    <2>1. \A s \in RC!Callers : RC!Ended(s)
        BY <1>1 DEF RC!Enter, RC!MayStart
    <2> QED
        BY <1>1, <2>1 DEF RC!Enter, RC!Goto, OneInRun, RC!Ended, Stages, Awaited, EndsOnce,
                          GateFollows, RC!broker
<1>2. CASE RC!Check(r)
    BY <1>2 DEF RC!Check, RC!Goto, RC!Reported, OneInRun, RC!Ended, Stages, Awaited, EndsOnce,
                GateFollows, RC!broker
<1>3. CASE RC!StartFails(r)
    BY <1>3 DEF RC!StartFails, RC!Goto, RC!Reported, OneInRun, RC!Ended, Stages, Awaited,
                EndsOnce, GateFollows, RC!broker
<1>4. CASE RC!Submit(r)
    BY <1>4 DEF RC!Submit, RC!Goto, OneInRun, RC!Ended, Stages, Awaited, EndsOnce, GateFollows,
                RC!broker
<1>5. CASE RC!Assign(r)
    BY <1>5 DEF RC!Assign, RC!Goto, OneInRun, RC!Ended, Stages, Awaited, EndsOnce, GateFollows,
                RC!broker
<1> QED
    BY <1>1, <1>2, <1>3, <1>4, <1>5

LEMMA RegisterKeeps ==
    ASSUME ReconAssumption, ReconInv, NEW r \in RC!Callers, RC!Register(r)
    PROVE  ReconInv'
<1> USE DEF ReconInv, ReconTypes, RC!TypeOK, RC!Nobody
<1>1. CASE recon_task = RC!Nobody
    BY <1>1 DEF RC!Register, RC!Goto, OneInRun, RC!Ended, Stages, Awaited, EndsOnce, GateFollows,
                RC!broker
<1>2. recon_task # RC!Nobody => recon_task = r
    BY DEF RC!Register, RC!Goto, Stages
<1>3. CASE recon_task = r /\ RC!Done(r)
    <2> USE DEF RC!Register, RC!Goto, RC!Reported, RC!broker
    <2>1. gate' = (gate \/ outcome[r] = "ok") /\ future[r] = "set"
        BY <1>3 DEF RC!Opened, RC!Done, RC!Callers
    <2>2. /\ recon_pc' = [recon_pc EXCEPT ![r] = "over"] /\ recon_pc[r] = "register"
          /\ reports' = [reports EXCEPT ![r] = reports[r] + 1]
          /\ recon_task' = RC!Nobody
          /\ UNCHANGED <<future, account, seen, outcome, recon_heard, calling, sellable>>
        BY <1>3 DEF RC!Callers
    <2> HIDE DEF RC!Register, RC!Goto, RC!Reported, RC!broker
    <2>3. gate' \in BOOLEAN
        BY <2>1
    <2>4. ReconTypes'
        BY <2>2, <2>3
    <2>5. OneInRun' /\ Stages' /\ Awaited'
        BY <2>2 DEF OneInRun, RC!Ended, Stages, Awaited
    <2>6. EndsOnce'
        BY <2>2 DEF EndsOnce
    <2>7. GateFollows'
        BY <2>1, <2>2 DEF GateFollows
    <2> QED
        BY <2>4, <2>5, <2>6, <2>7
<1>4. CASE recon_task = r /\ ~RC!Done(r)
    BY <1>4 DEF RC!Register, RC!Goto, RC!Done, RC!Callers, OneInRun, RC!Ended, Stages, Awaited,
                EndsOnce, GateFollows, RC!broker
<1> QED
    BY <1>1, <1>2, <1>3, <1>4

\* The callbacks, the coroutine and the account.
LEMMA LoopKeeps ==
    ASSUME ReconAssumption, ReconInv,
           \/ \E r \in RC!Callers : RC!Callback(r) \/ RC!Ask(r)
           \/ \E r \in RC!Callers, o \in {"ok", "late", "raised"} : RC!Answer(r, o)
           \/ RC!CallbacksOver \/ RC!Change
    PROVE  ReconInv'
<1> USE DEF ReconInv, ReconTypes, RC!TypeOK, RC!Nobody
<1>1. ASSUME NEW r \in RC!Callers, RC!Callback(r) PROVE ReconInv'
    <2>1. ReconTypes'
        BY <1>1 DEF RC!Callback, RC!Reported, RC!Opened, RC!broker
    <2>2. OneInRun'
        BY <1>1 DEF RC!Callback, RC!Reported, RC!Opened, RC!broker, OneInRun, RC!Ended
    <2>3. Stages'
        BY <1>1 DEF RC!Callback, RC!Reported, RC!Opened, RC!broker, Stages
    <2>4. Awaited'
        BY <1>1 DEF RC!Callback, RC!Reported, RC!Opened, RC!broker, Awaited
    <2>5. EndsOnce'
        BY <1>1 DEF RC!Callback, RC!Reported, RC!Opened, RC!broker, EndsOnce, Awaited
    <2>6. GateFollows'
        BY <1>1, ZenonT(60)
           DEF RC!Callback, RC!Reported, RC!Opened, RC!broker, GateFollows, Stages, Awaited,
               EndsOnce
    <2> QED
        BY <2>1, <2>2, <2>3, <2>4, <2>5, <2>6
<1>2. ASSUME NEW r \in RC!Callers, RC!Ask(r) PROVE ReconInv'
    BY <1>2 DEF RC!Ask, RC!request, RC!broker, OneInRun, RC!Ended, Stages, Awaited, EndsOnce,
                GateFollows
<1>3. ASSUME NEW r \in RC!Callers, NEW o \in {"ok", "late", "raised"}, RC!Answer(r, o)
      PROVE  ReconInv'
    <2>1. ReconTypes'
        BY <1>3 DEF RC!Answer, RC!LoopFree, RC!Replaced, RC!request, RC!broker, RC!Never,
            ReconAssumption
    <2>2. OneInRun'
        BY <1>3 DEF RC!Answer, RC!LoopFree, RC!Replaced, RC!request, RC!broker, RC!Never,
            ReconAssumption, OneInRun, RC!Ended
    <2>3. Stages'
        BY <1>3 DEF RC!Answer, RC!LoopFree, RC!Replaced, RC!request, RC!broker, RC!Never,
            ReconAssumption, Stages
    <2>4. Awaited'
        BY <1>3 DEF RC!Answer, RC!LoopFree, RC!Replaced, RC!request, RC!broker, RC!Never,
            ReconAssumption, Awaited, RC!Callers
    <2>5. EndsOnce'
        BY <1>3 DEF RC!Answer, RC!LoopFree, RC!Replaced, RC!request, RC!broker, RC!Never,
            ReconAssumption, EndsOnce, Awaited
    <2>6. GateFollows'
        BY <1>3 DEF RC!Answer, RC!LoopFree, RC!Replaced, RC!request, RC!broker, RC!Never,
            ReconAssumption, GateFollows, Stages, Awaited, EndsOnce
    <2> QED
        BY <2>1, <2>2, <2>3, <2>4, <2>5, <2>6
<1>4. CASE RC!CallbacksOver
    BY <1>4 DEF RC!CallbacksOver, RC!request, RC!broker, OneInRun, RC!Ended, Stages, Awaited,
                EndsOnce, GateFollows
<1>5. CASE RC!Change
    BY <1>5 DEF RC!Change, RC!request, RC!broker, OneInRun, RC!Ended, Stages, Awaited,
                EndsOnce, GateFollows, ReconAssumption
<1> QED
    BY <1>1, <1>2, <1>3, <1>4, <1>5

LEMMA ReconKeeps ==
    ASSUME ReconAssumption, ReconInv, [RC!Next]_(RC!vars)
    PROVE  ReconInv'
<1>1. CASE UNCHANGED RC!vars
    BY <1>1 DEF RC!vars, ReconInv, ReconTypes, RC!TypeOK, OneInRun, RC!Ended, Stages, Awaited,
                EndsOnce, GateFollows
<1>2. CASE RC!StrategyStarts \/ RC!ReferenceRefreshed \/ RC!DailyAlert
    BY <1>2, RunKeeps DEF RC!StrategyStarts, RC!ReferenceRefreshed, RC!DailyAlert, RC!Callers
<1> QED
    BY <1>1, <1>2, RunKeeps, RegisterKeeps, LoopKeeps DEF RC!Next

-----------------------------------------------------------------------------
(* The day's open *)

OpenAssumption == OpenDays \in Nat \ {0}

OpenClock ==
    day \in 1 .. OpenDays /\ time \in 0 .. 2 /\ trading_day \in 0 .. day /\ ticked \in 0 .. day

OpenKnown == authoritative \in BOOLEAN /\ (today_open # TD!NoOpen => today_open.of = trading_day)

\* The full tick that brought the open rolled the day and claimed the authority.
OpenIsTicked ==
    ticked = day =>
        trading_day = day /\ authoritative = TRUE /\ today_open = [of |-> day, true |-> TRUE]

OpenInv == OpenClock /\ OpenKnown /\ OpenIsTicked

LEMMA OpenHolds == OpenInv => TD!TypeOK /\ TD!FullTickOpenStays
<1>1. OpenInv => TD!TypeOK
    BY Zenon DEF OpenInv, OpenClock, OpenKnown, TD!TypeOK
<1>2. OpenInv => TD!FullTickOpenStays
    BY DEF OpenInv, OpenIsTicked, TD!FullTickOpenStays
<1> QED
    BY <1>1, <1>2

LEMMA OpenStarts ==
    ASSUME OpenAssumption, TD!Init
    PROVE  OpenInv
<1>1. OpenClock /\ OpenIsTicked
    BY DEF OpenAssumption, TD!Init, OpenClock, OpenIsTicked
<1>2. OpenKnown
    BY DEF TD!Init, OpenKnown
<1> QED
    BY <1>1, <1>2 DEF OpenInv

\* A roll to today keeps what is of today.
LEMMA RollKeeps ==
    ASSUME OpenInv, NEW d \in 1 .. day, TD!Roll(d), ticked' = TD!TickedAfter(d),
           UNCHANGED <<day, time>>
    PROVE  OpenInv'
<1> USE DEF OpenInv, TD!Roll, TD!TickedAfter
<1>1. OpenClock'
    BY DEF OpenClock
<1>4. OpenIsTicked'
    <2>1. ticked' = day' =>
            /\ d = day /\ day = trading_day /\ authoritative = TRUE
            /\ today_open = [of |-> day, true |-> TRUE]
        BY DEF OpenIsTicked
    <2>2. d = trading_day => today_open' = today_open /\ (authoritative => authoritative')
        BY DEF TD!Rolled, TD!RolledAuthority
    <2>3. authoritative' \in BOOLEAN
        BY DEF TD!RolledAuthority
    <2> QED
        BY <2>1, <2>2, <2>3 DEF OpenIsTicked
<1>2. authoritative' \in BOOLEAN
    BY DEF TD!RolledAuthority, OpenKnown
<1>3. (today_open # TD!NoOpen => today_open.of = trading_day)'
    BY DEF OpenKnown, TD!Rolled, TD!NoOpen
<1> QED
    BY <1>1, <1>2, <1>3, <1>4 DEF OpenKnown

\* An open is set by a full tick, or by a bar as long as no full tick has.
LEMMA SetOpenKeeps ==
    ASSUME OpenInv, UNCHANGED <<day, time>>, NEW d \in 1 .. day,
           trading_day' = d, authoritative' = TRUE, today_open'.of = d,
           \/ ticked' = day /\ d = day /\ today_open' = [of |-> day, true |-> TRUE]
           \/ ticked' \in 0 .. day /\ ticked' # day
    PROVE  OpenInv'
<1>1. OpenClock'
    BY DEF OpenInv, OpenClock
<1>2. OpenIsTicked'
    BY DEF OpenIsTicked
<1>3. OpenKnown'
    BY DEF OpenKnown
<1> QED
    BY <1>1, <1>2, <1>3 DEF OpenInv

LEMMA OpenKeeps ==
    ASSUME OpenAssumption, OpenInv, [TD!Next]_(TD!vars)
    PROVE  OpenInv'
<1>1. CASE UNCHANGED TD!vars
    BY <1>1 DEF TD!vars, OpenInv, OpenClock, OpenKnown, OpenIsTicked
<1> day \in 1 .. day
    BY DEF OpenInv, OpenClock, OpenAssumption
<1>2. ASSUME NEW opened \in BOOLEAN, TD!FullTick(opened) PROVE OpenInv'
    <2>1. CASE opened
        BY <1>2, <2>1, SetOpenKeeps DEF TD!FullTick, TD!SetOpen
    <2>2. CASE ~opened
        BY <1>2, <2>2, RollKeeps DEF TD!FullTick, TD!TickedAfter
    <2> QED
        BY <2>1, <2>2
<1>3. ASSUME NEW d \in 1 .. day, TD!Bar(d) PROVE OpenInv'
    <2>1. ticked' = TD!TickedAfter(d) /\ UNCHANGED <<day, time>>
        BY <1>3 DEF TD!Bar
    <2>2. CASE TD!BarSetsOpen(d)
        <3>1. ticked' \in 0 .. day /\ ticked' # day
            BY <2>1, <2>2 DEF TD!BarSetsOpen, TD!RolledAuthority, TD!TickedAfter, OpenInv,
                OpenIsTicked, OpenClock
        <3> QED
            BY <1>3, <2>1, <2>2, <3>1, SetOpenKeeps DEF TD!Bar, TD!SetOpen
    <2>3. CASE ~TD!BarSetsOpen(d)
        BY <1>3, <2>1, <2>3, RollKeeps DEF TD!Bar
    <2> QED
        BY <2>2, <2>3
<1>4. ASSUME NEW d \in 1 .. day, TD!Depth(d) PROVE OpenInv'
    BY <1>4, RollKeeps DEF TD!Depth
<1>5. CASE TD!BarMissed \/ TD!Plan
    BY <1>5 DEF TD!BarMissed, TD!Plan, OpenInv, OpenClock, OpenKnown, OpenIsTicked
<1>6. CASE TD!Pass
    <2>1. OpenClock' /\ OpenIsTicked'
        BY <1>6 DEF TD!Pass, OpenInv, OpenClock, OpenIsTicked, OpenAssumption
    <2>2. OpenKnown'
        BY <1>6 DEF TD!Pass, OpenInv, OpenKnown
    <2> QED
        BY <2>1, <2>2 DEF OpenInv
<1>7. CASE TD!Restart
    <2>1. OpenClock' /\ OpenIsTicked'
        BY <1>7 DEF TD!Restart, OpenInv, OpenClock, OpenIsTicked
    <2>2. OpenKnown'
        BY <1>7 DEF TD!Restart, OpenKnown
    <2> QED
        BY <2>1, <2>2 DEF OpenInv
<1> QED
    BY <1>1, <1>2, <1>3, <1>4, <1>5, <1>6, <1>7 DEF TD!Next

-----------------------------------------------------------------------------
(* The trading window *)

\* The venue's clock may lag, and is not ahead.
WindowAssumption == WindowDays \in Nat \ {0} /\ Lags \subseteq Nat

WindowClocks ==
    /\ window_day \in 1 .. WindowDays /\ local \in TW!Times /\ venue \in TW!Times
    /\ venue <= local
    /\ window_trading_day \in 0 .. window_day

\* The last quote is not from the future.
QuoteIsPast(q) ==
    /\ q.day \in 0 .. window_day /\ q.time \in TW!Times
    /\ q.day = window_day => q.time <= venue

WindowFlags == depth_converged \in BOOLEAN /\ suspended \in BOOLEAN /\ triggered \in BOOLEAN

WindowInv ==
    WindowClocks /\ QuoteIsPast(quote) /\ WindowFlags /\ cycle \in {TW!NoCycle, "open"}

LEMMA WindowHolds == WindowInv => TW!TypeOK /\ TW!CycleOnlyWhenOpen
<1>1. WindowInv => TW!TypeOK
    BY Zenon DEF WindowInv, WindowClocks, QuoteIsPast, WindowFlags, TW!TypeOK
<1>2. WindowInv => TW!CycleOnlyWhenOpen
    BY DEF WindowInv, TW!CycleOnlyWhenOpen, TW!NoCycle
<1> QED
    BY <1>1, <1>2

LEMMA WindowStarts ==
    ASSUME WindowAssumption, TW!Init
    PROVE  WindowInv
<1>1. WindowClocks /\ QuoteIsPast(quote)
    BY DEF WindowAssumption, TW!Init, WindowClocks, QuoteIsPast, TW!Times, TW!NoQuote
<1>2. WindowFlags
    BY DEF TW!Init, WindowFlags
<1> QED
    BY <1>1, <1>2 DEF TW!Init, WindowInv

\* A quote of today's session that is the session of the local clock was not long ago: the
\* exchange's clock, which is between the two, is in that session too.
LEMMA WindowMeansOpen ==
    ASSUME WindowClocks, NEW q, QuoteIsPast(q), TW!WithinTradingWindow(q)
    PROVE  TW!ExchangeSession(venue) # TW!NoSession
BY DEF WindowClocks, QuoteIsPast, TW!Times, TW!WithinTradingWindow, TW!WithinExchangeTime,
       TW!ExchangeSession, TW!LocalSession, TW!NoSession

LEMMA GateKeeps ==
    ASSUME WindowInv, NEW q, QuoteIsPast(q), TW!Gate(q)
    PROVE  cycle' \in {TW!NoCycle, "open"}
BY WindowMeansOpen DEF WindowInv, TW!Gate

LEMMA RolledIsPast ==
    ASSUME WindowInv
    PROVE  QuoteIsPast(TW!RolledQuote)
BY DEF WindowInv, WindowClocks, QuoteIsPast, TW!RolledQuote, TW!NoQuote, TW!Times

LEMMA WindowKeeps ==
    ASSUME WindowAssumption, WindowInv, [TW!Next]_(TW!vars)
    PROVE  WindowInv'
<1>1. CASE UNCHANGED TW!vars
    BY <1>1 DEF TW!vars, TW!clocks, WindowInv, WindowClocks, QuoteIsPast, WindowFlags
<1>2. CASE TW!QuoteTick
    BY <1>2 DEF TW!QuoteTick, TW!clocks, WindowInv, WindowClocks, QuoteIsPast, WindowFlags,
                TW!Times
<1>3. CASE TW!Timer
    <2>1. cycle' \in {TW!NoCycle, "open"}
        BY <1>3, GateKeeps DEF TW!Timer, WindowInv
    <2> QED
        BY <1>3, <2>1 DEF TW!Timer, TW!clocks, WindowInv, WindowClocks, QuoteIsPast, WindowFlags
<1>4. CASE TW!Depth \/ TW!Bar
    <2>1. cycle' \in {TW!NoCycle, "open"}
        BY <1>4, GateKeeps, RolledIsPast DEF TW!Depth, TW!Bar, WindowInv
    <2>2. UNCHANGED <<window_day, local, venue>> /\ TW!Roll
        BY <1>4 DEF TW!Depth, TW!Bar, TW!clocks
    <2>3. WindowClocks'
        BY <2>2 DEF TW!Roll, WindowInv, WindowClocks
    <2>4. QuoteIsPast(quote)'
        BY <2>2, RolledIsPast DEF TW!Roll, QuoteIsPast
    <2>5. WindowFlags'
        <3>1. CASE TW!Depth
            <4> DEFINE first == (window_trading_day # window_day \/ ~depth_converged)
                                  /\ TW!WithinTradingWindow([day |-> window_day, time |-> venue])
            <4>1. /\ depth_converged' =
                        (first \/ (window_trading_day = window_day /\ depth_converged))
                  /\ suspended' = suspended
                  /\ triggered' = triggered \/ triggered' = TW!WithinTradingWindow(TW!RolledQuote)
                BY <3>1 DEF TW!Depth
            <4>2. depth_converged' \in BOOLEAN /\ triggered' \in BOOLEAN
                BY <4>1 DEF WindowInv, WindowFlags, TW!WithinTradingWindow
            <4> QED
                BY <4>1, <4>2 DEF WindowInv, WindowFlags
        <3>2. CASE TW!Bar
            BY <3>2 DEF TW!Bar, WindowInv, WindowFlags
        <3> QED
            BY <1>4, <3>1, <3>2
    <2> QED
        BY <2>1, <2>3, <2>4, <2>5 DEF WindowInv
<1>5. CASE TW!Tick
    <2>1. WindowClocks'
        BY <1>5 DEF TW!Tick, TW!Times, WindowInv, WindowClocks, WindowAssumption
    <2>2. QuoteIsPast(quote)'
        BY <1>5 DEF TW!Tick, TW!Times, WindowInv, WindowClocks, QuoteIsPast
    <2> QED
        BY <1>5, <2>1, <2>2 DEF TW!Tick, WindowInv, WindowFlags
<1>6. CASE TW!Restart
    <2>1. WindowClocks' /\ QuoteIsPast(quote)'
        BY <1>6 DEF TW!Restart, TW!clocks, TW!Times, TW!NoQuote, WindowInv, WindowClocks,
            QuoteIsPast
    <2> QED
        BY <1>6, <2>1 DEF TW!Restart, WindowInv, WindowFlags
<1> QED
    BY <1>1, <1>2, <1>3, <1>4, <1>5, <1>6 DEF TW!Next

-----------------------------------------------------------------------------
(* The price trend *)

TrendAssumption ==
    Now \in Nat /\ Window \in Nat /\ Prices \subseteq Nat \ {0} /\ Volumes \subseteq Int

Samples == [ts : 1 .. Now, price : Prices, volume : Volumes]

TrendTypes ==
    /\ samples \in Seq(Samples) /\ last \in 0 .. Now
    /\ newest \in [1 .. Now -> Samples \cup {PT!NoSample}]

Ascending(s) == \A j, k \in 1 .. Len(s) : j < k => s[j].ts < s[k].ts

\* Only the first sample may be as old as the window.
WindowFrom(s, latest) == \A k \in 2 .. Len(s) : s[k].ts > latest - Window

\* The last sample is of the last tick, and each one is the newest of its second.
SamplesAreNewest ==
    /\ IF samples = <<>> THEN last = 0 ELSE samples[Len(samples)].ts = last
    /\ \A k \in 1 .. Len(samples) : newest[samples[k].ts] = samples[k]

\* A second with a tick is kept, or lies before a first sample that is as old as the window.
NoneIsLost ==
    \A t \in 1 .. Now : newest[t] # PT!NoSample =>
        /\ t <= last /\ samples # <<>>
        /\ \/ \E k \in 1 .. Len(samples) : samples[k].ts = t
           \/ t < samples[1].ts /\ samples[1].ts <= last - Window

TrendInv ==
    TrendTypes /\ Ascending(samples) /\ WindowFrom(samples, last) /\ SamplesAreNewest /\ NoneIsLost

\* A set of naturals with a bound has a greatest element.
LEMMA GreatestNat ==
    ASSUME NEW S, NEW n \in Nat, S \subseteq 0 .. n, S # {}
    PROVE  \E x \in S : \A y \in S : y <= x
<1> DEFINE T == {n - x : x \in S}
<1>0. T \subseteq Nat /\ T # {}
    <2>1. \A x \in S : n - x \in Nat
        OBVIOUS
    <2> QED
        BY <2>1
<1>1. PICK t \in T : \A y \in T : t <= y
    BY <1>0, LeastNat
<1>2. PICK x \in S : t = n - x
    OBVIOUS
<1>3. \A y \in S : n - y \in T
    OBVIOUS
<1> HIDE DEF T
<1> QED BY <1>1, <1>2, <1>3

\* The greatest element of indices up to a bound
LEMMA TrendMax ==
    ASSUME NEW n \in Nat, NEW S, S \subseteq 0 .. n, S # {}
    PROVE  PT!Max(S) \in S /\ \A k \in S : k <= PT!Max(S)
<1>1. PICK x \in S : \A y \in S : y <= x
    BY GreatestNat
<1>2. \A y \in S : x >= y
    BY <1>1
<1>3. PT!Max(S) \in S /\ \A y \in S : PT!Max(S) >= y
    BY <1>2 DEF PT!Max
<1> QED
    BY <1>3

\* What remains of a sequence of samples is its end, from the newest one that is old enough.
LEMMA TrimmedIsEnd ==
    ASSUME NEW s \in Seq(Samples), s # <<>>, NEW cutoff \in Int, Ascending(s)
    PROVE  \E m \in 1 .. Len(s) :
              /\ PT!Trimmed(s, cutoff) = SubSeq(s, m, Len(s))
              /\ \A k \in m + 1 .. Len(s) : s[k].ts > cutoff
              /\ m = 1 \/ s[m].ts <= cutoff
              /\ s[m].ts > cutoff => \A k \in 1 .. Len(s) : s[k].ts > cutoff
<1> DEFINE old == {k \in DOMAIN s : s[k].ts <= cutoff}
<1>1. DOMAIN s = 1 .. Len(s) /\ Len(s) \in Nat /\ Len(s) >= 1
    OBVIOUS
<1>2. \A k \in 1 .. Len(s) : s[k].ts \in Int
    <2>1. \A k \in 1 .. Len(s) : s[k] \in Samples
        OBVIOUS
    <2> QED
        BY <2>1 DEF Samples
<1>3. CASE old = {}
    <2>1. PT!Trimmed(s, cutoff) = s
        BY <1>3 DEF PT!Trimmed
    <2>2. s = SubSeq(s, 1, Len(s))
        OBVIOUS
    <2>3. \A k \in 1 .. Len(s) : s[k].ts > cutoff
        BY <1>1, <1>2, <1>3
    <2> QED
        BY <1>1, <2>1, <2>2, <2>3
<1>4. CASE old # {}
    <2> DEFINE m == PT!Max(old)
    <2>1. m \in old /\ \A k \in old : k <= m
        <3>1. old \subseteq 0 .. Len(s)
            BY <1>1
        <3> QED
            BY <1>1, <1>4, <3>1, TrendMax
    <2>2. PT!Trimmed(s, cutoff) = SubSeq(s, m, Len(s))
        BY <1>4 DEF PT!Trimmed
    <2> HIDE DEF m
    <2>3. m \in 1 .. Len(s) /\ s[m].ts <= cutoff
        BY <1>1, <2>1
    <2>4. ASSUME NEW k \in m + 1 .. Len(s)
          PROVE  s[k].ts > cutoff
        <3>1. k \in 1 .. Len(s) /\ k \notin old
            BY <1>1, <2>1, <2>3
        <3> QED
            BY <1>1, <1>2, <3>1
    <2>5. ~(s[m].ts > cutoff)
        BY <1>2, <2>3
    <2> QED
        BY <2>2, <2>3, <2>4, <2>5
<1> QED
    BY <1>3, <1>4

\* A sequence is the samples, with x after them or in place of the last.
AppendedTo(a, x) ==
    /\ a \in Seq(Samples) /\ Len(a) >= 1 /\ a[Len(a)] = x
    /\ \A k \in 1 .. Len(a) - 1 : k \in 1 .. Len(samples) /\ a[k] = samples[k] /\ a[k].ts < x.ts
    /\ \A k \in 1 .. Len(samples) : k \in 1 .. Len(a) /\ a[k].ts = samples[k].ts

\* A sample of the last one's second replaces it.
LEMMA AppendedIsLast ==
    ASSUME TrendInv, NEW x \in Samples, samples # <<>> => last <= x.ts
    PROVE  AppendedTo(PT!Appended(x), x)
<1> DEFINE a == PT!Appended(x)
<1>1. samples \in Seq(Samples) /\ Len(samples) \in Nat /\ x.ts \in Int
    BY DEF TrendInv, TrendTypes, Samples
<1>2. \A k \in 1 .. Len(samples) : samples[k].ts \in Int
    <2>1. \A k \in 1 .. Len(samples) : samples[k] \in Samples
        BY <1>1
    <2> QED
        BY <2>1 DEF Samples
<1>3. CASE samples # <<>> /\ samples[Len(samples)].ts = x.ts
    <2>1. Len(samples) \in 1 .. Len(samples)
        BY <1>1, <1>3
    <2>2. a = Append(SubSeq(samples, 1, Len(samples) - 1), x)
        BY <1>3 DEF PT!Appended, PT!Last, PT!Front
    <2> DEFINE front == SubSeq(samples, 1, Len(samples) - 1)
    <2>7. front \in Seq(Samples) /\ Len(front) = Len(samples) - 1
        <3>1. Len(samples) - 1 \in Int /\ 1 \in Int /\ Len(samples) - 1 < Len(samples)
            BY <1>1
        <3>2. \A i \in 1 .. Len(samples) - 1 : samples[i] \in Samples
            BY <1>1
        <3>3. /\ front \in Seq(Samples)
              /\ Len(front) = IF 1 <= Len(samples) - 1 THEN Len(samples) - 1 - 1 + 1 ELSE 0
            BY <3>1, <3>2, SubSeqProperties
        <3> HIDE DEF front
        <3>4. Len(samples) \in Nat /\ Len(samples) >= 1
            BY <1>1, <2>1
        <3>6. \A n \in Nat : n >= 1 => (IF 1 <= n - 1 THEN n - 1 - 1 + 1 ELSE 0) = n - 1
            OBVIOUS
        <3>5. (IF 1 <= Len(samples) - 1 THEN Len(samples) - 1 - 1 + 1 ELSE 0) = Len(samples) - 1
            BY <3>4, <3>6, Zenon
        <3> QED
            BY <3>3, <3>5
    <2> HIDE DEF front
    <2>3. a \in Seq(Samples) /\ Len(a) = Len(samples) /\ a[Len(a)] = x
        BY <1>1, <2>1, <2>2, <2>7
    <2>4. \A k \in 1 .. Len(a) - 1 : a[k] = samples[k]
        BY <1>1, <2>1, <2>2
    <2>5. \A k \in 1 .. Len(samples) - 1 : samples[k].ts < samples[Len(samples)].ts
        BY <1>1, <2>1 DEF TrendInv, Ascending
    <2>6. \A k \in 1 .. Len(samples) : k = Len(samples) \/ k \in 1 .. Len(a) - 1
        BY <1>1, <2>3
    <2>8. \A k \in 1 .. Len(a) - 1 : k \in 1 .. Len(samples) /\ a[k] = samples[k] /\ a[k].ts < x.ts
        BY <1>1, <1>3, <2>3, <2>4, <2>5
    <2>9. \A k \in 1 .. Len(samples) : k \in 1 .. Len(a) /\ a[k].ts = samples[k].ts
        BY <1>1, <1>3, <2>3, <2>4, <2>6
    <2>10. AppendedTo(a, x)
        <3> HIDE DEF a
        <3> QED
            BY <1>1, <2>1, <2>3, <2>8, <2>9 DEF AppendedTo
    <2> QED
        BY <2>10
<1>4. CASE ~(samples # <<>> /\ samples[Len(samples)].ts = x.ts)
    <2>1. a = Append(samples, x)
        BY <1>4 DEF PT!Appended, PT!Last
    <2>2. a \in Seq(Samples) /\ Len(a) = Len(samples) + 1 /\ a[Len(a)] = x
        BY <1>1, <2>1
    <2>3. \A k \in 1 .. Len(samples) : a[k] = samples[k]
        BY <1>1, <2>1
    <2>4. ASSUME NEW k \in 1 .. Len(samples)
          PROVE  samples[k].ts < x.ts
        <3>1. samples # <<>> /\ Len(samples) \in 1 .. Len(samples)
            BY <1>1
        <3>2. samples[Len(samples)].ts = last /\ last <= x.ts
            BY <3>1 DEF TrendInv, SamplesAreNewest
        <3>3. k = Len(samples) \/ samples[k].ts < samples[Len(samples)].ts
            BY <1>1, <3>1 DEF TrendInv, Ascending
        <3> QED
            BY <1>1, <1>2, <1>4, <3>1, <3>2, <3>3
    <2>5. AppendedTo(a, x)
        <3> HIDE DEF a
        <3> QED
            BY <1>1, <2>2, <2>3, <2>4 DEF AppendedTo
    <2> QED
        BY <2>5
<1> QED
    BY <1>3, <1>4

LEMMA TickKeeps ==
    ASSUME TrendAssumption, TrendInv,
           NEW t \in 1 .. Now, NEW price \in Prices, NEW volume \in Volumes,
           PT!Tick(t, price, volume)
    PROVE  TrendInv'
<1> DEFINE x == [ts |-> t, price |-> price, volume |-> volume]
           a == PT!Appended(x)
<1>1. CASE samples # <<>> /\ t < last
    <2>1. PT!Last(samples).ts = last
        BY <1>1 DEF TrendInv, SamplesAreNewest, PT!Last
    <2>2. UNCHANGED PT!vars
        BY <1>1, <2>1 DEF PT!Tick
    <2> QED
        BY <2>2 DEF PT!vars, TrendInv, TrendTypes, Ascending, WindowFrom, SamplesAreNewest,
            NoneIsLost
<1>2. CASE ~(samples # <<>> /\ t < last)
    <2>1. /\ samples' = PT!Trimmed(a, t - Window)
          /\ newest' = [newest EXCEPT ![t] = x] /\ last' = t
        <3>1. samples # <<>> => PT!Last(samples).ts = last
            BY DEF TrendInv, SamplesAreNewest, PT!Last
        <3> QED
            BY <1>2, <3>1 DEF PT!Tick
    <2>2. x \in Samples /\ x.ts = t /\ last \in Int /\ t \in Int /\ t - Window \in Int
        BY DEF Samples, TrendAssumption, TrendInv, TrendTypes
    <2>3. /\ a \in Seq(Samples) /\ Len(a) >= 1 /\ a[Len(a)] = x
          /\ \A k \in 1 .. Len(a) - 1 : k \in 1 .. Len(samples) /\ a[k] = samples[k] /\ a[k].ts < t
          /\ \A k \in 1 .. Len(samples) : k \in 1 .. Len(a) /\ a[k].ts = samples[k].ts
        <3>1. AppendedTo(a, x)
            BY <1>2, <2>2, AppendedIsLast
        <3> HIDE DEF a, x
        <3> QED
            BY <2>2, <3>1 DEF AppendedTo
    <2> HIDE DEF a, x
    <2>4. Len(a) \in Nat /\ a # <<>> /\ \A k \in 1 .. Len(a) : a[k] \in Samples
          /\ a[k].ts \in 1 .. Now
        <3>1. Len(a) \in Nat /\ a # <<>> /\ \A k \in 1 .. Len(a) : a[k] \in Samples
            BY <2>3
        <3> QED
            BY <3>1 DEF Samples
    <2>5. Ascending(a)
        <3>1. \A k \in 1 .. Len(a) : k = Len(a) \/ k \in 1 .. Len(a) - 1
            BY <2>4
        <3> SUFFICES ASSUME NEW j \in 1 .. Len(a), NEW k \in 1 .. Len(a), j < k
                     PROVE  a[j].ts < a[k].ts
            BY DEF Ascending
        <3>2. j \in 1 .. Len(a) - 1
            BY <2>4
        <3>3. k = Len(a) => a[k].ts = t
            BY <2>2, <2>3
        <3>4. k # Len(a) => k \in 1 .. Len(a) - 1 /\ samples[j].ts < samples[k].ts
            BY <2>3, <3>1, <3>2 DEF TrendInv, Ascending
        <3> QED
            BY <2>3, <3>2, <3>3, <3>4
    <2>6. PICK m \in 1 .. Len(a) :
              /\ samples' = SubSeq(a, m, Len(a))
              /\ \A k \in m + 1 .. Len(a) : a[k].ts > t - Window
              /\ m = 1 \/ a[m].ts <= t - Window
              /\ a[m].ts > t - Window => \A k \in 1 .. Len(a) : a[k].ts > t - Window
        BY <2>1, <2>2, <2>3, <2>4, <2>5, TrimmedIsEnd
    <2>7. /\ samples' \in Seq(Samples) /\ Len(samples') = Len(a) - m + 1 /\ samples' # <<>>
          /\ \A k \in 1 .. Len(samples') : samples'[k] = a[k + m - 1] /\ k + m - 1 \in 1 .. Len(a)
        <3>1. a \in Seq(Samples) /\ m \in 1 .. Len(a) /\ Len(a) \in Nat
              /\ samples' = SubSeq(a, m, Len(a))
            BY <2>3, <2>4, <2>6
        <3>2. samples' \in Seq(Samples) /\ Len(samples') = Len(a) - m + 1
            BY <3>1
        <3>3. \A k \in 1 .. Len(samples') : samples'[k] = a[k + m - 1]
            BY <3>1, <3>2
        <3>4. \A k \in 1 .. Len(samples') : k + m - 1 \in 1 .. Len(a)
            BY <3>1, <3>2
        <3>5. Len(samples') >= 1 /\ Len(<<>>) = 0
            BY <3>1, <3>2
        <3> QED
            BY <3>2, <3>3, <3>4, <3>5
    <2>8. TrendTypes'
        BY <2>1, <2>2, <2>7 DEF TrendInv, TrendTypes
    <2>9. Ascending(samples)' /\ WindowFrom(samples, last)'
        <3>1. Ascending(samples')
            <4> SUFFICES ASSUME NEW j \in 1 .. Len(samples'), NEW k \in 1 .. Len(samples'), j < k
                         PROVE  samples'[j].ts < samples'[k].ts
                BY DEF Ascending
            <4>1. j + m - 1 < k + m - 1
                BY <2>4, <2>6
            <4> QED
                BY <2>5, <2>7, <4>1 DEF Ascending
        <3>2. ASSUME NEW k \in 2 .. Len(samples')
              PROVE  samples'[k].ts > t - Window
            <4>1. k \in 1 .. Len(samples') /\ k + m - 1 \in m + 1 .. Len(a)
                BY <2>4, <2>6, <2>7
            <4> QED
                BY <2>6, <2>7, <4>1
        <3> QED
            BY <2>1, <3>1, <3>2 DEF Ascending, WindowFrom
    <2>10. SamplesAreNewest'
        <3>1. samples'[Len(samples')] = x
            <4>1. Len(samples') \in 1 .. Len(samples') /\ Len(samples') + m - 1 = Len(a)
                BY <2>4, <2>6, <2>7
            <4> QED
                BY <2>3, <2>7, <4>1
        <3>2. ASSUME NEW k \in 1 .. Len(a)
              PROVE  newest'[a[k].ts] = a[k]
            <4>1. CASE k = Len(a)
                BY <2>1, <2>2, <2>3, <4>1 DEF TrendInv, TrendTypes
            <4>2. CASE k \in 1 .. Len(a) - 1
                <5>1. newest[a[k].ts] = a[k]
                    <6>1. k \in 1 .. Len(samples) /\ a[k] = samples[k]
                        BY <2>3, <4>2
                    <6> QED
                        BY <6>1 DEF TrendInv, SamplesAreNewest
                <5>2. a[k].ts # t
                    <6>1. a[k].ts < t /\ a[k].ts \in Int /\ t \in Int
                        BY <2>3, <2>4, <4>2
                    <6> QED
                        BY <6>1
                <5> QED
                    BY <2>1, <2>4, <5>1, <5>2 DEF TrendInv, TrendTypes
            <4> QED
                BY <2>4, <4>1, <4>2
        <3>3. \A k \in 1 .. Len(samples') : newest'[samples'[k].ts] = samples'[k]
            BY <2>7, <3>2
        <3>4. samples'[Len(samples')].ts = last'
            BY <2>1, <2>2, <3>1
        <3> QED
            BY <2>7, <3>3, <3>4 DEF SamplesAreNewest
    <2>11. NoneIsLost'
        <3> SUFFICES ASSUME NEW u \in 1 .. Now, newest'[u] # PT!NoSample
                     PROVE  /\ u <= t
                            /\ \/ \E k \in 1 .. Len(samples') : samples'[k].ts = u
                               \/ u < samples'[1].ts /\ samples'[1].ts <= t - Window
            BY <2>1, <2>7 DEF NoneIsLost, PT!NoSample
        <3>1. 1 \in 1 .. Len(samples') /\ samples'[1] = a[m]
            BY <2>4, <2>6, <2>7
        <3>2. ASSUME NEW k \in 1 .. Len(a), a[k].ts = u
              PROVE  \/ \E j \in 1 .. Len(samples') : samples'[j].ts = u
                     \/ u < samples'[1].ts /\ samples'[1].ts <= t - Window
            <4>1. CASE k >= m
                <5>1. k - m + 1 \in 1 .. Len(samples') /\ (k - m + 1) + m - 1 = k
                    <6>1. Len(a) \in Nat /\ m \in 1 .. Len(a) /\ k \in 1 .. Len(a)
                          /\ Len(samples') = Len(a) - m + 1
                        BY <2>4, <2>6, <2>7
                    <6> QED
                        BY <4>1, <6>1
                <5>2. samples'[k - m + 1] = a[k]
                    BY <2>7, <5>1
                <5> QED
                    BY <3>2, <5>1, <5>2
            <4>2. CASE k < m
                <5>3. samples'[1].ts = a[m].ts /\ a[k].ts = u
                    BY <3>1, <3>2
                <5>1. a[k].ts < a[m].ts
                    BY <2>5, <2>6, <4>2 DEF Ascending
                <5>2. m # 1
                    BY <2>4, <4>2
                <5> QED
                    BY <2>6, <5>1, <5>2, <5>3
            <4>3. k >= m \/ k < m
                BY <2>4, <2>6
            <4> QED
                BY <4>1, <4>2, <4>3
        <3>3. CASE u = t
            <4>1. Len(a) \in 1 .. Len(a) /\ a[Len(a)].ts = u
                BY <2>2, <2>3, <2>4, <3>3
            <4> QED
                BY <2>2, <3>2, <3>3, <4>1
        <3>4. CASE u # t
            <4>1. newest[u] # PT!NoSample
                BY <2>1, <3>4 DEF TrendInv, TrendTypes
            <4>2. u <= last /\ last <= t /\ samples # <<>>
                BY <1>2, <2>2, <4>1 DEF TrendInv, NoneIsLost
            <4>3. CASE \E k \in 1 .. Len(samples) : samples[k].ts = u
                <5>1. PICK k \in 1 .. Len(samples) : samples[k].ts = u
                    BY <4>3
                <5>2. k \in 1 .. Len(a) /\ a[k].ts = samples[k].ts
                    BY <2>3, <5>1
                <5>3. a[k].ts = u
                    BY <5>1, <5>2
                <5>4. \/ \E j \in 1 .. Len(samples') : samples'[j].ts = u
                      \/ u < samples'[1].ts /\ samples'[1].ts <= t - Window
                    BY <3>2, <5>2, <5>3
                <5>5. u <= t
                    BY <2>2, <4>2
                <5> QED
                    BY <5>4, <5>5
            <4>4. CASE u < samples[1].ts /\ samples[1].ts <= last - Window
                <5>1. 1 \in 1 .. Len(samples)
                    BY <4>2 DEF TrendInv, TrendTypes
                <5>2. 1 \in 1 .. Len(a) /\ a[1].ts = samples[1].ts /\ a[1].ts \in Int
                      /\ a[m].ts \in Int
                    BY <2>3, <2>4, <5>1
                <5>3. a[1].ts <= t - Window
                    BY <2>2, <4>2, <4>4, <5>2 DEF TrendAssumption
                <5>4. a[m].ts <= t - Window
                    BY <2>2, <2>6, <5>2, <5>3
                <5>5. a[1].ts <= a[m].ts
                    BY <2>4, <2>5, <2>6, <5>2 DEF Ascending
                <5>6. u < a[m].ts
                    BY <4>4, <5>2, <5>5
                <5>7. u <= t
                    BY <2>2, <4>2
                <5> QED
                    BY <3>1, <5>4, <5>6, <5>7
            <4> QED
                BY <4>1, <4>3, <4>4 DEF TrendInv, NoneIsLost
        <3> QED
            BY <3>3, <3>4
    <2> QED
        BY <2>8, <2>9, <2>10, <2>11 DEF TrendInv
<1> QED
    BY <1>1, <1>2

LEMMA TrendStarts ==
    ASSUME TrendAssumption, samples = <<>>, last = 0, newest = [t \in 1 .. Now |-> PT!NoSample]
    PROVE  TrendInv
<1>1. TrendTypes
    BY DEF TrendAssumption, TrendTypes
<1>2. Ascending(samples) /\ WindowFrom(samples, last) /\ SamplesAreNewest
    BY DEF Ascending, WindowFrom, SamplesAreNewest
<1>3. NoneIsLost
    BY DEF NoneIsLost
<1> QED
    BY <1>1, <1>2, <1>3 DEF TrendInv

LEMMA TrendKeeps ==
    ASSUME TrendAssumption, TrendInv, [PT!Next]_(PT!vars)
    PROVE  TrendInv'
<1>1. CASE UNCHANGED PT!vars
    BY <1>1 DEF PT!vars, TrendInv, TrendTypes, Ascending, WindowFrom, SamplesAreNewest, NoneIsLost
<1>2. CASE \E t \in 1 .. Now, price \in Prices, volume \in Volumes : PT!Tick(t, price, volume)
    BY <1>2, TickKeeps
<1>3. CASE PT!NewDay
    <2>1. TrendTypes'
        BY <1>3 DEF PT!NewDay, TrendAssumption, TrendTypes
    <2>2. Ascending(samples)' /\ WindowFrom(samples, last)' /\ SamplesAreNewest'
        BY <1>3 DEF PT!NewDay, Ascending, WindowFrom, SamplesAreNewest
    <2>3. NoneIsLost'
        BY <1>3 DEF PT!NewDay, NoneIsLost
    <2> QED
        BY <2>1, <2>2, <2>3 DEF TrendInv
<1> QED
    BY <1>1, <1>2, <1>3 DEF PT!Next

\* Without a sample older than the window there is no move to tell; else the first one is
\* the window's far end.
OldEnough == {t \in 1 .. Now : t <= last - Window /\ newest[t].price > 0}

LEMMA SamplesTyped ==
    ASSUME TrendAssumption, TrendInv
    PROVE  /\ samples \in Seq(Samples) /\ Len(samples) \in Nat /\ last \in 0 .. Now
           /\ last - Window \in Int /\ Window \in Nat
           /\ \A k \in 1 .. Len(samples) :
                /\ samples[k] \in Samples /\ samples[k].ts \in 1 .. Now
                /\ samples[k].price \in Nat \ {0} /\ samples[k].volume \in Int
<1>1. samples \in Seq(Samples) /\ Len(samples) \in Nat /\ last \in 0 .. Now
      /\ last - Window \in Int /\ Window \in Nat
    BY DEF TrendInv, TrendTypes, TrendAssumption
<1>2. \A k \in 1 .. Len(samples) : samples[k] \in Samples
    BY <1>1
<1>3. \A k \in 1 .. Len(samples) :
        /\ samples[k] \in Samples /\ samples[k].ts \in 1 .. Now
        /\ samples[k].price \in Nat \ {0} /\ samples[k].volume \in Int
    BY <1>2 DEF Samples, TrendAssumption
<1> QED
    BY <1>1, <1>3

LEMMA PricedIsTicked ==
    ASSUME TrendAssumption, TrendInv
    PROVE  \A t \in 1 .. Now : newest[t].price > 0 <=> newest[t] # PT!NoSample
<1>1. \A t \in 1 .. Now : newest[t] \in Samples \cup {PT!NoSample}
    BY DEF TrendInv, TrendTypes
<1>2. \A y \in Samples : y.price > 0
    <2>1. \A y \in Samples : y.price \in Prices
        BY DEF Samples
    <2>2. \A p \in Prices : p \in Nat /\ p > 0
        BY DEF TrendAssumption
    <2> QED
        BY <2>1, <2>2
<1>3. ~(PT!NoSample.price > 0)
    BY DEF PT!NoSample
<1> QED
    BY <1>1, <1>2, <1>3

\* The first sample, if it is as old as the window, is the newest one that is.
LEMMA FarEnd ==
    ASSUME TrendAssumption, TrendInv, samples # <<>>, samples[1].ts <= last - Window
    PROVE  /\ PT!Max(OldEnough) = samples[1].ts
           /\ samples[1].ts \in OldEnough /\ newest[samples[1].ts] = samples[1]
<1>1. samples \in Seq(Samples) /\ Len(samples) \in Nat /\ last \in 0 .. Now /\ last - Window \in Int
    BY SamplesTyped
<1>2. \A k \in 1 .. Len(samples) : samples[k] \in Samples /\ samples[k].ts \in 1 .. Now
      /\ samples[k].price \in Nat \ {0}
    BY SamplesTyped
<1>3. 1 \in 1 .. Len(samples)
    BY <1>1
<1>4. samples[1].ts \in OldEnough /\ newest[samples[1].ts] = samples[1]
    BY <1>2, <1>3 DEF OldEnough, TrendInv, SamplesAreNewest
<1>5. ASSUME NEW t \in OldEnough
      PROVE  t <= samples[1].ts
    <2>1. newest[t] # PT!NoSample /\ t \in 1 .. Now /\ t <= last - Window
        BY PricedIsTicked DEF OldEnough
    <2>2. CASE \E k \in 1 .. Len(samples) : samples[k].ts = t
        <3>1. PICK k \in 1 .. Len(samples) : samples[k].ts = t
            BY <2>2
        <3>2. k = 1
            BY <1>1, <1>2, <2>1, <3>1 DEF TrendInv, WindowFrom
        <3> QED
            BY <1>2, <3>1, <3>2
    <2> QED
        BY <1>2, <1>3, <2>1, <2>2 DEF TrendInv, NoneIsLost
<1>6. PT!Max(OldEnough) = samples[1].ts
    <2>1. OldEnough \subseteq 0 .. Now /\ OldEnough # {} /\ Now \in Nat
        BY <1>4 DEF OldEnough, TrendAssumption
    <2>2. PT!Max(OldEnough) \in OldEnough /\ \A k \in OldEnough : k <= PT!Max(OldEnough)
        BY <2>1, TrendMax
    <2>5. samples[1].ts \in 1 .. Now /\ PT!Max(OldEnough) \in 0 .. Now
        BY <1>2, <1>3, <2>1, <2>2
    <2>3. samples[1].ts \in Int /\ PT!Max(OldEnough) \in Int
        BY <2>1, <2>5
    <2>4. PT!Max(OldEnough) <= samples[1].ts /\ samples[1].ts <= PT!Max(OldEnough)
        BY <1>4, <1>5, <2>2
    <2> QED
        BY <2>3, <2>4
<1> QED
    BY <1>4, <1>6

\* The move of the kept samples is that of all the day's ticks.
LEMMA TrendHolds ==
    ASSUME TrendAssumption, TrendInv
    PROVE  PT!TypeOK /\ PT!Return = PT!TrueReturn
<1>1. samples \in Seq(Samples) /\ Len(samples) \in Nat /\ last \in 0 .. Now /\ last - Window \in Int
    BY SamplesTyped
<1>2. \A k \in 1 .. Len(samples) : samples[k] \in Samples /\ samples[k].ts \in 1 .. Now
      /\ samples[k].price \in Nat \ {0}
    BY SamplesTyped
<1>3. PT!TypeOK
    BY <1>1 DEF PT!TypeOK, PT!Last, TrendInv, Ascending, SamplesAreNewest
<1>4. CASE samples = <<>> \/ samples[1].ts > last - Window
    <2>1. OldEnough = {}
        <3> SUFFICES ASSUME NEW t \in 1 .. Now, t <= last - Window, newest[t] # PT!NoSample
                     PROVE  FALSE
            BY PricedIsTicked DEF OldEnough
        <3>1. samples # <<>> /\ 1 \in 1 .. Len(samples)
            BY <1>1 DEF TrendInv, NoneIsLost
        <3>2. PICK k \in 1 .. Len(samples) : samples[k].ts = t
            BY <1>1, <1>2, <1>4, <3>1 DEF TrendInv, NoneIsLost
        <3>3. samples[1].ts <= t
            BY <1>1, <1>2, <3>1, <3>2 DEF TrendInv, Ascending
        <3> QED
            BY <1>1, <1>2, <1>4, <3>1, <3>3
    <2>2. ~PT!Claimed
        <3> SUFFICES ASSUME Len(samples) >= 2, samples[Len(samples)].ts - samples[1].ts >= Window
                     PROVE  FALSE
            BY DEF PT!Claimed, PT!Last
        <3>1. samples[Len(samples)].ts = last /\ 1 \in 1 .. Len(samples)
            BY <1>1 DEF TrendInv, SamplesAreNewest
        <3> QED
            BY <1>1, <1>2, <1>4, <3>1 DEF TrendAssumption
    <2> QED
        BY <1>3, <2>1, <2>2 DEF PT!Return, PT!TrueReturn, OldEnough
<1>5. CASE samples # <<>> /\ samples[1].ts <= last - Window
    <2>1. 1 \in 1 .. Len(samples) /\ Len(samples) \in 1 .. Len(samples)
        BY <1>1, <1>5
    <2>2. samples[Len(samples)].ts = last /\ newest[last] = samples[Len(samples)]
        BY <1>5, <2>1 DEF TrendInv, SamplesAreNewest
    <2>3. /\ PT!Max(OldEnough) = samples[1].ts
          /\ samples[1].ts \in OldEnough /\ newest[samples[1].ts] = samples[1]
        BY <1>5, FarEnd
    <2>4. PT!TrueReturn = samples[Len(samples)].price - samples[1].price
        BY <2>2, <2>3 DEF PT!TrueReturn, OldEnough
    <2>5. CASE Len(samples) >= 2
        <3>1. PT!Claimed
            BY <1>1, <1>2, <1>5, <2>1, <2>2, <2>5 DEF PT!Claimed, PT!Last, TrendAssumption
        <3> QED
            BY <1>3, <2>4, <3>1 DEF PT!Return, PT!Last
    <2>6. CASE Len(samples) = 1
        <3>1. ~PT!Claimed
            BY <2>6 DEF PT!Claimed
        <3>2. samples[1].price \in Nat /\ samples[Len(samples)] = samples[1]
            BY <1>2, <2>1, <2>6
        <3>3. PT!TrueReturn = 0
            BY <2>4, <3>2
        <3> QED
            BY <1>3, <3>1, <3>3 DEF PT!Return
    <2>7. Len(samples) >= 2 \/ Len(samples) = 1
        <3>1. \A n \in Nat : n >= 1 => n >= 2 \/ n = 1
            OBVIOUS
        <3>2. Len(samples) \in Nat /\ Len(samples) >= 1
            BY <1>1, <2>1
        <3> QED
            BY <3>1, <3>2, Zenon
    <2> QED
        BY <2>5, <2>6, <2>7
<1> QED
    BY <1>1, <1>2, <1>4, <1>5

Times == {t \in samples[1].ts .. last : newest[t].price > 0}

\* From the window's far end on, the seconds with a tick are those of the samples.
LEMMA TimesAreSampled ==
    ASSUME TrendAssumption, TrendInv, samples # <<>>, samples[1].ts <= last - Window
    PROVE  /\ Times = {samples[k].ts : k \in 1 .. Len(samples)}
           /\ Times \subseteq 1 .. Now
           /\ Times \ {samples[1].ts} = {samples[k].ts : k \in 2 .. Len(samples)}
<1>1. Len(samples) \in Nat /\ last \in 0 .. Now /\ 1 \in 1 .. Len(samples)
      /\ Len(samples) \in 1 .. Len(samples)
    BY SamplesTyped
<1>2. \A k \in 1 .. Len(samples) : samples[k].ts \in 1 .. Now
    BY SamplesTyped
<1>3. Times \subseteq 1 .. Now
    <2>1. samples[1].ts \in 1 .. Now /\ Now \in Nat
        BY <1>1, <1>2 DEF TrendAssumption
    <2> QED
        BY <1>1, <2>1 DEF Times
<1>4. \A k \in 1 .. Len(samples) : samples[1].ts <= samples[k].ts /\ samples[k].ts <= last
    <2> SUFFICES ASSUME NEW k \in 1 .. Len(samples)
                 PROVE  samples[1].ts <= samples[k].ts /\ samples[k].ts <= last
        OBVIOUS
    <2>1. samples[Len(samples)].ts = last
        BY DEF TrendInv, SamplesAreNewest
    <2>2. k = 1 \/ samples[1].ts < samples[k].ts
        BY <1>1 DEF TrendInv, Ascending
    <2>3. k = Len(samples) \/ samples[k].ts < samples[Len(samples)].ts
        BY <1>1 DEF TrendInv, Ascending
    <2>4. samples[1].ts \in Int /\ samples[k].ts \in Int
        BY <1>1, <1>2
    <2> QED
        BY <1>1, <2>1, <2>2, <2>3, <2>4
<1>5. ASSUME NEW k \in 1 .. Len(samples)
      PROVE  samples[k].ts \in Times
    <2>1. samples[k].ts \in samples[1].ts .. last
        BY <1>1, <1>2, <1>4
    <2>2. newest[samples[k].ts] = samples[k] /\ samples[k].price \in Nat \ {0}
        BY SamplesTyped DEF TrendInv, SamplesAreNewest
    <2>3. samples[k].price > 0
        BY <2>2
    <2> QED
        BY <2>1, <2>2, <2>3 DEF Times
<1>6. ASSUME NEW t \in Times
      PROVE  \E k \in 1 .. Len(samples) : samples[k].ts = t
    <2>1. t \in 1 .. Now /\ newest[t] # PT!NoSample /\ t \in samples[1].ts .. last
        BY <1>3, PricedIsTicked DEF Times
    <2>2. ~(t < samples[1].ts)
        BY <1>1, <1>2, <2>1
    <2> QED
        BY <2>1, <2>2 DEF TrendInv, NoneIsLost
<1>7. Times = {samples[k].ts : k \in 1 .. Len(samples)}
    BY <1>5, <1>6
<1>8. \A k \in 1 .. Len(samples) : samples[k].ts = samples[1].ts <=> k = 1
    BY <1>1, <1>2 DEF TrendInv, Ascending
<1>9. \A k : k \in 2 .. Len(samples) <=> k \in 1 .. Len(samples) /\ k # 1
    BY <1>1
<1>10. Times \ {samples[1].ts} = {samples[k].ts : k \in 2 .. Len(samples)}
    BY <1>7, <1>8, <1>9
<1> QED
    BY <1>3, <1>7, <1>10

\* The second with a tick before that of a sample is that of the sample before.
LEMMA SampleBefore ==
    ASSUME TrendAssumption, TrendInv, samples # <<>>, samples[1].ts <= last - Window,
           NEW k \in 2 .. Len(samples)
    PROVE  newest[PT!Max({u \in Times : u < samples[k].ts})] = samples[k - 1]
<1> DEFINE earlier == {u \in Times : u < samples[k].ts}
<1>1. Len(samples) \in Nat /\ k \in 1 .. Len(samples) /\ k - 1 \in 1 .. Len(samples)
    BY SamplesTyped
<1>2. \A j \in 1 .. Len(samples) : samples[j].ts \in 1 .. Now
    BY SamplesTyped
<1>3. samples[k - 1].ts \in earlier
    BY <1>1, TimesAreSampled DEF TrendInv, Ascending
<1>4. ASSUME NEW u \in earlier
      PROVE  u <= samples[k - 1].ts
    <2>1. PICK j \in 1 .. Len(samples) : samples[j].ts = u
        BY TimesAreSampled
    <2>2. ~(k <= j)
        <3> SUFFICES ASSUME k <= j PROVE FALSE
            OBVIOUS
        <3>1. k = j \/ samples[k].ts < samples[j].ts
            BY <1>1 DEF TrendInv, Ascending
        <3>2. samples[j].ts < samples[k].ts
            BY <2>1
        <3>3. samples[j].ts \in Int /\ samples[k].ts \in Int
            BY <1>1, <1>2
        <3> QED
            BY <3>1, <3>2, <3>3
    <2>3. j = k - 1 \/ j < k - 1
        BY <1>1, <2>2
    <2>4. j = k - 1 \/ samples[j].ts < samples[k - 1].ts
        BY <1>1, <2>3 DEF TrendInv, Ascending
    <2>5. samples[j].ts \in Int /\ samples[k - 1].ts \in Int
        BY <1>1, <1>2
    <2> QED
        BY <2>1, <2>4, <2>5
<1>5. PT!Max(earlier) = samples[k - 1].ts
    <2>1. earlier \subseteq 0 .. Now /\ earlier # {} /\ Now \in Nat
        BY <1>3, TimesAreSampled DEF TrendAssumption
    <2>2. PT!Max(earlier) \in earlier /\ \A u \in earlier : u <= PT!Max(earlier)
        BY <2>1, TrendMax
    <2>5. samples[k - 1].ts \in 1 .. Now /\ PT!Max(earlier) \in 0 .. Now
        BY <1>1, <1>2, <2>1, <2>2
    <2>3. samples[k - 1].ts \in Int /\ PT!Max(earlier) \in Int
        BY <2>1, <2>5
    <2> HIDE DEF earlier
    <2>4. PT!Max(earlier) <= samples[k - 1].ts /\ samples[k - 1].ts <= PT!Max(earlier)
        BY <1>3, <1>4, <2>2
    <2> QED
        BY <2>3, <2>4
<1> QED
    BY <1>1, <1>5 DEF TrendInv, SamplesAreNewest

\* What a second of the history adds to the confirmation.
Before(t) == newest[PT!Max({u \in Times : u < t})]
AddedAt(t) == PT!Between(Before(t), newest[t])
           * PT!Sign(newest[t].price - Before(t).price) * PT!Sign(PT!TrueReturn)

Added == [t \in Times \ {samples[1].ts} |-> AddedAt(t)]
Steps == [k \in 2 .. Len(samples) |-> PT!WithTrend(k)]

LEMMA ConfirmedIsSum ==
    ASSUME Len(samples) \in Nat
    PROVE  PT!Confirmed = PT!Sign(SumFunctionOnSet(Steps, 2 .. Len(samples)))
<1> DEFINE S == 2 .. Len(samples)
           Is(h) == h = [s \in SUBSET S |->
                            IF s = {} THEN 0
                            ELSE LET x == CHOOSE x \in s : TRUE
                                 IN  PT!WithTrend(x) + h[s \ {x}]]
<1>1. IsFiniteSet(S)
    BY FS_Interval
<1>2. \A h : Is(h) <=> IsSum(h, Steps, S)
  <2> SUFFICES ASSUME NEW h, NEW s \in SUBSET S
               PROVE  (IF s = {} THEN 0
                       ELSE LET x == CHOOSE x \in s : TRUE
                            IN  PT!WithTrend(x) + h[s \ {x}]) = Folded(Steps, h, s)
      BY DEF IsSum
  <2>1. s # {} => (CHOOSE x \in s : TRUE) \in S
      OBVIOUS
  <2> HIDE DEF S
  <2>2. \A x \in S : Steps[x] = PT!WithTrend(x)
      BY DEF Steps, S
  <2> QED
      BY <2>1, <2>2 DEF Folded
<1>3. (CHOOSE h : Is(h))[S] = SumFunctionOnSet(Steps, S)
  <2> HIDE DEF Is, S
  <2>1. \E h : IsSum(h, Steps, S)
      BY <1>1, SumExists
  <2> DEFINE g == CHOOSE h : Is(h)
  <2>2. IsSum(g, Steps, S)
      BY <1>2, <2>1
  <2> HIDE DEF g
  <2>3. g[S] = SumFunctionOnSet(Steps, S)
      BY <2>2, <1>1, SumOfWhole
  <2> QED
      BY <2>3 DEF g
<1> QED
    BY <1>3 DEF PT!Confirmed, PT!MapThenSumSet, PT!MapThenFoldSet

LEMMA TrueConfirmationIsSum ==
    ASSUME PT!Max(OldEnough) = samples[1].ts, Times \subseteq 1 .. Now, Now \in Nat
    PROVE  PT!TrueConfirmation = PT!Sign(SumFunctionOnSet(Added, Times \ {samples[1].ts}))
<1> DEFINE S == Times \ {samples[1].ts}
           from == PT!Max({t \in 1 .. Now : t <= last - Window /\ newest[t].price > 0})
           times == {t \in from .. last : newest[t].price > 0}
           before(t) == newest[PT!Max({u \in times : u < t})]
           adds(t) == PT!Between(before(t), newest[t])
                      * PT!Sign(newest[t].price - before(t).price) * PT!Sign(PT!TrueReturn)
           T == times \ {from}
           Is(h) == h = [s \in SUBSET T |->
                            IF s = {} THEN 0
                            ELSE LET x == CHOOSE x \in s : TRUE
                                 IN  adds(x) + h[s \ {x}]]
<1>0. from = samples[1].ts
    BY DEF OldEnough
<1>4. times = Times /\ T = S
  <2> HIDE DEF from
  <2> QED BY <1>0 DEF Times
<1>5. \A t : adds(t) = AddedAt(t)
  <2> HIDE DEF times
  <2> QED BY <1>4 DEF AddedAt, Before
<1>1. IsFiniteSet(S)
  <2>1. IsFiniteSet(1 .. Now)
      BY FS_Interval
  <2>2. S \subseteq 1 .. Now
      OBVIOUS
  <2> QED BY <2>1, <2>2, FS_Subset
<1>2. \A h : Is(h) <=> IsSum(h, Added, S)
  <2> SUFFICES ASSUME NEW h, NEW s \in SUBSET S
               PROVE  (IF s = {} THEN 0
                       ELSE LET x == CHOOSE x \in s : TRUE
                            IN  adds(x) + h[s \ {x}]) = Folded(Added, h, s)
    <3> HIDE DEF T, adds, S
    <3> QED BY <1>4 DEF IsSum
  <2>1. s # {} => (CHOOSE x \in s : TRUE) \in S
      OBVIOUS
  <2> HIDE DEF adds
  <2> QED
      BY <1>5, <2>1 DEF Folded, Added
<1>3. (CHOOSE h : Is(h))[T] = SumFunctionOnSet(Added, S)
  <2> HIDE DEF Is, T, S
  <2>1. \E h : IsSum(h, Added, S)
      BY <1>1, SumExists
  <2> DEFINE g == CHOOSE h : Is(h)
  <2>2. IsSum(g, Added, S)
      BY <1>2, <2>1
  <2> HIDE DEF g
  <2>3. g[S] = SumFunctionOnSet(Added, S)
      BY <2>2, <1>1, SumOfWhole
  <2> QED
      BY <2>3, <1>4 DEF g
<1>6. PT!TrueConfirmation = PT!Sign((CHOOSE h : Is(h))[T])
    BY DEF PT!TrueConfirmation, PT!MapThenSumSet, PT!MapThenFoldSet
<1> QED
  <2> HIDE DEF Is, T, S
  <2>1. PT!TrueConfirmation = PT!Sign(SumFunctionOnSet(Added, S))
      BY <1>3, <1>6
  <2> QED BY <2>1 DEF S

LEMMA SignIs ==
    ASSUME NEW x
    PROVE  PT!Sign(x) \in {-1, 0, 1}
BY DEF PT!Sign

\* A difference where it is positive
LEMMA PositivePart ==
    ASSUME NEW x \in Int
    PROVE  PT!Max({x, 0}) \in Int
<1>1. \E y \in {x, 0} : \A z \in {x, 0} : y >= z
    OBVIOUS
<1>2. PT!Max({x, 0}) \in {x, 0}
    BY <1>1 DEF PT!Max
<1> QED
    BY <1>2

LEMMA ProductIsInt ==
    ASSUME NEW x \in Int, NEW s \in {-1, 0, 1}, NEW u \in {-1, 0, 1}
    PROVE  x * s * u \in Int
OBVIOUS

\* The confirmation that is computed from the samples is that of the whole window.
LEMMA ConfirmedIsTrue ==
    ASSUME TrendAssumption, TrendInv, PT!Return # 0
    PROVE  PT!Confirmed = PT!TrueConfirmation
<1> DEFINE S == 2 .. Len(samples)
           times == [k \in S |-> samples[k].ts]
<1>1. Len(samples) \in Nat /\ last \in 0 .. Now /\ Window \in Nat /\ Now \in Nat
    BY SamplesTyped DEF TrendAssumption
<1>2. samples # <<>> /\ samples[1].ts <= last - Window
    <2>1. Len(samples) >= 2 /\ samples[Len(samples)].ts - samples[1].ts >= Window
        BY DEF PT!Return, PT!Claimed, PT!Last
    <2>2. samples # <<>>
        BY <2>1
    <2>3. samples[Len(samples)].ts = last
        BY <2>2 DEF TrendInv, SamplesAreNewest
    <2>4. 1 \in 1 .. Len(samples)
        BY <1>1, <2>1
    <2>5. samples[1].ts \in 1 .. Now
        BY <2>4, SamplesTyped
    <2> QED
        BY <1>1, <2>1, <2>2, <2>3, <2>5
<1>3. PT!Return = PT!TrueReturn
    BY TrendHolds
<1>4. \A k \in S : k \in 1 .. Len(samples) /\ k - 1 \in 1 .. Len(samples)
    BY <1>1
<1>5. \A k \in 1 .. Len(samples) : newest[samples[k].ts] = samples[k]
    BY DEF TrendInv, SamplesAreNewest
<1>6. Times \ {samples[1].ts} = {times[k] : k \in S} /\ Times \subseteq 1 .. Now
    BY <1>2, TimesAreSampled
<1>7. ASSUME NEW k \in S
      PROVE  Steps[k] \in Int /\ Added[times[k]] = Steps[k]
    <2>1. Before(samples[k].ts) = samples[k - 1]
        BY <1>2, SampleBefore DEF Before
    <2>2. newest[samples[k].ts] = samples[k]
        BY <1>4, <1>5
    <2>3. samples[k].ts \in Times \ {samples[1].ts}
        BY <1>6
    <2>4. Added[times[k]] = AddedAt(samples[k].ts)
        BY <2>3 DEF Added
    <2>5. AddedAt(samples[k].ts) = PT!WithTrend(k)
        BY <1>3, <2>1, <2>2 DEF AddedAt, PT!WithTrend, PT!Traded
    <2>6. Steps[k] = PT!WithTrend(k)
        BY DEF Steps
    <2>7. samples[k].volume - samples[k - 1].volume \in Int
        <3>1. samples[k].volume \in Int /\ samples[k - 1].volume \in Int
            BY <1>4, SamplesTyped
        <3> QED
            BY <3>1
    <2>8. PT!Traded(k) \in Int
        BY <2>7, PositivePart DEF PT!Traded, PT!Between
    <2>9. PT!WithTrend(k) \in Int
        BY <2>8, SignIs, ProductIsInt DEF PT!WithTrend
    <2> QED
        BY <2>4, <2>5, <2>6, <2>9
<1>8. ASSUME NEW j \in S, NEW k \in S, times[j] = times[k]
      PROVE  j = k
    <2>1. ~(j < k) /\ ~(k < j)
        <3>1. samples[j].ts = samples[k].ts /\ samples[j].ts \in Int
            BY <1>4, <1>8, SamplesTyped
        <3>2. j < k => samples[j].ts < samples[k].ts
            BY <1>4 DEF TrendInv, Ascending
        <3>3. k < j => samples[k].ts < samples[j].ts
            BY <1>4 DEF TrendInv, Ascending
        <3> QED
            BY <3>1, <3>2, <3>3
    <2> QED
        BY <1>1, <2>1
<1>9. IsFiniteSet(S)
    BY <1>1, FS_Interval
<1>10. SumFunctionOnSet(Steps, S) = SumFunctionOnSet(Added, {times[k] : k \in S})
    <2> HIDE DEF S, times
    <2> QED BY <1>7, <1>8, <1>9, SumImage
<1>11. PT!Confirmed = PT!Sign(SumFunctionOnSet(Steps, S))
    BY <1>1, ConfirmedIsSum
<1>12. PT!TrueConfirmation = PT!Sign(SumFunctionOnSet(Added, Times \ {samples[1].ts}))
    BY <1>1, <1>2, <1>6, FarEnd, TrueConfirmationIsSum
<1> QED
    BY <1>6, <1>10, <1>11, <1>12

-----------------------------------------------------------------------------
(* The recorder *)

\* What is left of a phase: each fetch is followed by its write.
TodoIsWhole ==
    /\ todo \in Seq({"fetch", "write"} \X RE!Lists)
    /\ todo # <<>> => todo[Len(todo)][1] = "write"
    /\ \A k \in 1 .. Len(todo) - 1 : todo[k][1] # todo[k + 1][1]

RecordTypes ==
    /\ clock \in {"session", "close", "after"} /\ up \in BOOLEAN /\ missed \in BOOLEAN
    /\ truth \in [Orders -> 0 .. 2] /\ known \in [Orders -> 0 .. 2] /\ got \in [Orders -> 0 .. 2]
    /\ row \in [Orders -> [st : 0 .. 2, signal : BOOLEAN]]
    /\ trade \subseteq Orders /\ lineage \subseteq Orders /\ pending \subseteq RE!Lists
    /\ told \in [RE!Lists -> {"none", "success", "failed", "partial_failure"}]
    /\ left \in [orders : SUBSET Orders, trades : SUBSET Orders]

\* Nothing that the recorder knows or has written is ahead of the broker.
NeverAhead ==
    /\ \A o \in Orders : known[o] <= truth[o] /\ row[o].st <= truth[o] /\ got[o] <= truth[o]
    /\ \A o \in trade : truth[o] = 2

\* The backfill belongs to a process that is up after the close, when no order changes.
AfterClose ==
    /\ due \/ todo # <<>> \/ pending # {} => clock = "after" /\ up
    /\ \A list \in RE!Lists : told[list] = "success" => clock = "after" /\ up

\* A list about to be written is what the broker holds.
ViewIsTruth == todo # <<>> /\ todo[1][1] = "write" => got = truth

\* Once the backfill has succeeded, only an event that is still to come, or a skip, leaves a
\* row behind.
Stored ==
    ~missed =>
        \A o \in Orders : known[o] = truth[o] =>
            /\ told["orders"] = "success" /\ o \notin left.orders => row[o].st = truth[o]
            /\ told["trades"] = "success" /\ o \notin left.trades /\ truth[o] = 2 =>
                o \in trade

RecordInv == TodoIsWhole /\ RecordTypes /\ NeverAhead /\ AfterClose /\ ViewIsTruth /\ Stored

LEMMA RecordHolds == RecordInv => RE!TypeOK /\ RE!SuccessMeansStored
<1> SUFFICES ASSUME RecordInv PROVE RE!TypeOK /\ RE!SuccessMeansStored
    OBVIOUS
<1>1. \A o \in Orders : known[o] \in 0 .. truth[o]
    BY DEF RecordInv, RecordTypes, NeverAhead
<1>2. RE!TypeOK
    BY <1>1, Zenon DEF RecordInv, RecordTypes, RE!TypeOK
<1>3. RE!SuccessMeansStored
    BY DEF RecordInv, RecordTypes, NeverAhead, Stored, RE!SuccessMeansStored
<1> QED
    BY <1>2, <1>3

LEMMA RecordStarts ==
    ASSUME RE!Init
    PROVE  RecordInv
<1> USE DEF RE!Init, RE!Untold, RE!NoneLeft, RE!Lists, RE!OrderRow
<1>1. TodoIsWhole
    BY DEF TodoIsWhole
<1>2. row \in [Orders -> [st : 0 .. 2, signal : BOOLEAN]]
    <2>1. [st |-> 0, signal |-> FALSE] \in [st : 0 .. 2, signal : BOOLEAN]
        OBVIOUS
    <2> QED
        BY <2>1, Zenon
<1>5. RecordTypes
    BY <1>2 DEF RecordTypes
<1>3. NeverAhead
    BY DEF NeverAhead
<1>4. AfterClose /\ ViewIsTruth /\ Stored
    BY DEF AfterClose, ViewIsTruth, Stored
<1> QED
    BY <1>1, <1>3, <1>4, <1>5 DEF RecordInv

\* What the market and the events do to the rows.
LEMMA EventKeeps ==
    ASSUME RecordInv, NEW o \in Orders, NEW w \in RE!Writes, NEW x \in RE!Writes,
           RE!OrderEvent(o, w, x)
    PROVE  RecordInv'
<1> DEFINE now == known[o] + 1
           new == RE!Upsert(o, now, o \in lineage)
<1>1. /\ now \in 1 .. truth[o] /\ truth[o] \in 0 .. 2
      /\ known' = [known EXCEPT ![o] = now]
      /\ row' = IF w = "ok" THEN [row EXCEPT ![o] = new] ELSE row
      /\ trade' = IF now = 2 /\ x = "ok" THEN trade \cup {o} ELSE trade
      /\ now < 2 => x = "ok"
      /\ UNCHANGED <<clock, up, truth, lineage, due, todo, got, pending, told, left>>
    BY DEF RE!OrderEvent, RE!clockThread, RecordInv, RecordTypes, NeverAhead
<1>2. missed' = (missed \/ w = "failed" \/ x = "failed")
    BY DEF RE!OrderEvent
<1>3. missed' \in BOOLEAN /\ (~missed' => ~missed /\ w = "ok" /\ x = "ok")
    BY <1>2 DEF RE!Writes, RecordInv, RecordTypes
<1>4. new.st = now /\ new \in [st : 0 .. 2, signal : BOOLEAN]
    <2>1. now \in 0 .. 2
        BY <1>1
    <2>2. ((o \in lineage) \/ row[o].signal) \in BOOLEAN
        OBVIOUS
    <2> QED
        BY <2>1, <2>2, Zenon DEF RE!Upsert, RE!OrderRow
<1> HIDE DEF now, new
<1>5. RecordTypes'
    BY <1>1, <1>3, <1>4 DEF RecordInv, RecordTypes
<1>6. NeverAhead'
    BY <1>1, <1>4 DEF RecordInv, RecordTypes, NeverAhead
<1>7. Stored'
    BY <1>1, <1>3, <1>4 DEF RecordInv, RecordTypes, NeverAhead, Stored
<1>8. TodoIsWhole' /\ AfterClose' /\ ViewIsTruth'
    BY <1>1 DEF RecordInv, TodoIsWhole, AfterClose, ViewIsTruth
<1> QED
    BY <1>5, <1>6, <1>7, <1>8 DEF RecordInv

\* A list written after the close leaves in the table what the broker holds.
LEMMA WrittenKeeps ==
    ASSUME RecordInv, NEW list \in RE!Lists, NEW failed \in SUBSET Orders,
           NEW skipped \in SUBSET Orders,
           RE!Written(list, truth, failed, skipped), clock = "after", up,
           UNCHANGED <<clock, up, truth, known, lineage, missed, got>>,
           pending' \subseteq RE!Lists
    PROVE  RecordTypes' /\ NeverAhead' /\ Stored' /\ AfterClose'
<1>0. AfterClose'
    BY DEF AfterClose
<1>5. /\ list = "ticks" => left' = left
      /\ list = "orders" => left' = [left EXCEPT !.orders = skipped]
      /\ list = "trades" => left' = [left EXCEPT !.trades = skipped]
    BY DEF RE!Written, RE!OrdersWritten, RE!TradesWritten
<1>6. \A A \in SUBSET Orders : \A B \in SUBSET Orders :
        RE!Status(A, B) \in {"success", "partial_failure"}
        /\ (RE!Status(A, B) = "success" => A \subseteq B)
    BY DEF RE!Status
<1>1. CASE list = "ticks"
    <2>1. /\ told' = [told EXCEPT !["ticks"] = IF failed = {} THEN "success" ELSE "failed"]
          /\ UNCHANGED <<row, trade>>
        BY <1>1 DEF RE!Written, RE!TicksWritten, RE!table
    <2>2. RecordTypes'
        BY <1>1, <1>5, <2>1 DEF RecordInv, RecordTypes, RE!Lists
    <2>3. NeverAhead' /\ Stored'
        BY <1>1, <1>5, <2>1 DEF RecordInv, RecordTypes, NeverAhead, Stored, RE!Lists
    <2> QED
        BY <1>0, <2>2, <2>3
<1>2. CASE list = "orders"
    <2>1. PICK stored \in BOOLEAN : row' = RE!Backfilled(truth, stored, failed \cup skipped)
        BY <1>2 DEF RE!Written, RE!OrdersWritten
    <2>2. told' = [told EXCEPT !["orders"] = RE!Status(failed, skipped)] /\ trade' = trade
        BY <1>2 DEF RE!Written, RE!OrdersWritten
    <2>3. row' \in [Orders -> [st : 0 .. 2, signal : BOOLEAN]]
        <3>1. ASSUME NEW o \in Orders
              PROVE  RE!Upsert(o, truth[o], o \in lineage \/ stored)
                     \in [st : 0 .. 2, signal : BOOLEAN]
            <4>1. truth[o] \in 0 .. 2
                BY DEF RecordInv, RecordTypes
            <4>2. ((o \in lineage \/ stored) \/ row[o].signal) \in BOOLEAN
                OBVIOUS
            <4> QED
                BY <4>1, <4>2, Zenon DEF RE!Upsert, RE!OrderRow
        <3>2. row \in [Orders -> [st : 0 .. 2, signal : BOOLEAN]]
            BY DEF RecordInv, RecordTypes
        <3> QED
            BY <2>1, <3>1, <3>2 DEF RE!Backfilled
    <2>4. \A o \in Orders :
             row'[o].st = IF truth[o] = 0 \/ o \in failed \cup skipped THEN row[o].st
                          ELSE truth[o]
        BY <2>1 DEF RE!Backfilled, RE!Upsert, RE!OrderRow
    <2>5. RecordTypes'
        BY <1>2, <1>5, <1>6, <2>2, <2>3 DEF RecordInv, RecordTypes, RE!Lists
    <2>6. NeverAhead'
        BY <2>2, <2>4 DEF RecordInv, RecordTypes, NeverAhead
    <2>7. told'["orders"] = "success" => failed \subseteq skipped
        BY <1>6, <2>2 DEF RecordInv, RecordTypes, RE!Lists
    <2>8. \A o \in Orders : truth[o] = 0 => row[o].st = 0
        BY DEF RecordInv, RecordTypes, NeverAhead
    <2>9. /\ told'["trades"] = told["trades"] /\ left'.trades = left.trades
          /\ left'.orders = skipped
        BY <1>2, <1>5, <2>2 DEF RecordInv, RecordTypes, RE!Lists
    <2>10. Stored'
        BY <2>2, <2>4, <2>7, <2>8, <2>9 DEF RecordInv, Stored
    <2> QED
        BY <1>0, <2>5, <2>6, <2>10
<1>3. CASE list = "trades"
    <2>1. /\ trade' = trade \cup ({o \in Orders : truth[o] = 2} \ (failed \cup skipped))
          /\ told' = [told EXCEPT !["trades"] = RE!Status(failed, skipped)] /\ row' = row
        BY <1>3 DEF RE!Written, RE!TradesWritten
    <2>2. RecordTypes'
        BY <1>3, <1>5, <1>6, <2>1 DEF RecordInv, RecordTypes, RE!Lists
    <2>3. NeverAhead'
        BY <2>1 DEF RecordInv, RecordTypes, NeverAhead
    <2>5. told'["trades"] = "success" => failed \subseteq skipped
        BY <1>6, <2>1 DEF RecordInv, RecordTypes, RE!Lists
    <2>6. /\ told'["orders"] = told["orders"] /\ left'.orders = left.orders
          /\ left'.trades = skipped
        BY <1>3, <1>5, <2>1 DEF RecordInv, RecordTypes, RE!Lists
    <2>4. Stored'
        BY <2>1, <2>5, <2>6 DEF RecordInv, Stored
    <2> QED
        BY <1>0, <2>2, <2>3, <2>4
<1> QED
    BY <1>1, <1>2, <1>3 DEF RE!Lists

\* One step further down the phase.
LEMMA TodoSteps ==
    ASSUME TodoIsWhole, todo # <<>>
    PROVE  /\ todo[1] \in {"fetch", "write"} \X RE!Lists /\ Head(todo) = todo[1]
           /\ Tail(todo) \in Seq({"fetch", "write"} \X RE!Lists)
           /\ Len(Tail(todo)) = Len(todo) - 1
           /\ \A k \in 1 .. Len(todo) - 1 : Tail(todo)[k] = todo[k + 1]
           /\ todo[1][1] = "fetch" => Tail(todo) # <<>> /\ Tail(todo)[1][1] = "write"
           /\ todo[1][1] = "write" /\ Tail(todo) # <<>> => Tail(todo)[1][1] = "fetch"
           /\ todo' = Tail(todo) => TodoIsWhole'
<1>1. /\ todo \in Seq({"fetch", "write"} \X RE!Lists) /\ Len(todo) \in Nat /\ Len(todo) > 0
      /\ todo[Len(todo)][1] = "write"
      /\ \A k \in 1 .. Len(todo) - 1 : todo[k][1] # todo[k + 1][1]
    BY DEF TodoIsWhole
<1>2. /\ todo[1] \in {"fetch", "write"} \X RE!Lists /\ Head(todo) = todo[1]
      /\ Tail(todo) \in Seq({"fetch", "write"} \X RE!Lists)
      /\ Len(Tail(todo)) = Len(todo) - 1
      /\ \A k \in 1 .. Len(todo) - 1 : Tail(todo)[k] = todo[k + 1]
    BY <1>1
<1>3. Len(todo) > 1 => todo[2] \in {"fetch", "write"} \X RE!Lists /\ todo[1][1] # todo[2][1]
    BY <1>1
<1>4. Len(todo) = 1 => todo[1][1] = "write"
    BY <1>1
<1>5. todo[1][1] = "fetch" => Tail(todo) # <<>> /\ Tail(todo)[1][1] = "write"
    <2> SUFFICES ASSUME todo[1][1] = "fetch" PROVE Tail(todo) # <<>> /\ Tail(todo)[1][1] = "write"
        OBVIOUS
    <2>1. Len(todo) > 1
        BY <1>1, <1>4
    <2>2. Tail(todo)[1] = todo[2] /\ Len(Tail(todo)) > 0
        BY <1>1, <1>2, <2>1
    <2>3. todo[2][1] = "write"
        BY <1>3, <2>1
    <2>4. Tail(todo) # <<>>
        <3>1. Len(<<>>) = 0
            OBVIOUS
        <3> QED
            BY <2>2, <3>1
    <2> QED
        BY <2>2, <2>3, <2>4
<1>6. todo[1][1] = "write" /\ Tail(todo) # <<>> => Tail(todo)[1][1] = "fetch"
    BY <1>1, <1>2, <1>3
<1>7. ASSUME todo' = Tail(todo) PROVE TodoIsWhole'
    <2>1. todo' # <<>> => todo'[Len(todo')][1] = "write"
        BY <1>1, <1>2, <1>7
    <2>2. \A k \in 1 .. Len(todo') - 1 : todo'[k][1] # todo'[k + 1][1]
        BY <1>1, <1>2, <1>7
    <2> QED
        BY <1>2, <1>7, <2>1, <2>2 DEF TodoIsWhole
<1> QED
    BY <1>2, <1>5, <1>6, <1>7

\* A fetch that fails takes its write with it.
LEMMA TwoSteps ==
    ASSUME TodoIsWhole, todo # <<>>, todo[1][1] = "fetch", todo' = Tail(Tail(todo))
    PROVE  TodoIsWhole' /\ (todo' # <<>> => todo'[1][1] = "fetch")
<1> DEFINE t == Tail(todo)
<1>1. /\ t \in Seq({"fetch", "write"} \X RE!Lists) /\ Len(t) = Len(todo) - 1
      /\ \A k \in 1 .. Len(todo) - 1 : t[k] = todo[k + 1]
      /\ t # <<>> /\ t[1][1] = "write"
    BY TodoSteps
<1>2. /\ todo \in Seq({"fetch", "write"} \X RE!Lists) /\ Len(todo) \in Nat
      /\ todo[Len(todo)][1] = "write"
      /\ \A k \in 1 .. Len(todo) - 1 : todo[k][1] # todo[k + 1][1]
    BY DEF TodoIsWhole
<1> HIDE DEF t
<1>3. Len(t) \in Nat /\ Len(t) > 0
    BY <1>1
<1>4. /\ Tail(t) \in Seq({"fetch", "write"} \X RE!Lists) /\ Len(Tail(t)) = Len(t) - 1
      /\ \A k \in 1 .. Len(t) - 1 : Tail(t)[k] = t[k + 1]
    BY <1>1, <1>3
<1>5. todo' = Tail(t)
    BY DEF t
<1>6. /\ todo' \in Seq({"fetch", "write"} \X RE!Lists) /\ Len(todo') = Len(todo) - 2
      /\ Len(todo) > 1
      /\ \A k \in 1 .. Len(todo) - 2 : todo'[k] = todo[k + 2]
    BY <1>1, <1>2, <1>3, <1>4, <1>5
<1>7. todo' # <<>> => todo'[Len(todo')][1] = "write"
    BY <1>2, <1>6, SMTT(30)
<1>8. \A k \in 1 .. Len(todo') - 1 : todo'[k][1] # todo'[k + 1][1]
    BY <1>2, <1>6
<1>9. ASSUME todo' # <<>> PROVE todo'[1][1] = "fetch"
    <2>1. Len(todo) > 2 /\ todo'[1] = todo[3] /\ todo[3] \in {"fetch", "write"} \X RE!Lists
        BY <1>2, <1>6, <1>9
    <2>2. todo[2][1] = "write" /\ todo[2][1] # todo[3][1]
        BY <1>1, <1>2, <2>1
    <2> QED
        BY <2>1, <2>2
<1> QED
    BY <1>6, <1>7, <1>8, <1>9 DEF TodoIsWhole

LEMMA RecordKeeps ==
    ASSUME RecordInv, [RE!Next]_(RE!vars)
    PROVE  RecordInv'
<1> USE DEF RecordInv
<1>1. CASE UNCHANGED RE!vars
    BY <1>1 DEF RE!vars, RE!book, RE!table, RE!clockThread, TodoIsWhole, RecordTypes, NeverAhead,
                AfterClose, ViewIsTruth, Stored
<1>2. CASE RE!Tick
    <2>1. /\ clock' \in {"close", "after"} /\ (due' => (clock' = "after" /\ up) \/ due)
          /\ (clock = "after" => FALSE)
          /\ UNCHANGED <<up, truth, known, lineage, row, trade, todo, got, pending, told, left,
                          missed>>
        BY <1>2 DEF RE!Tick, RE!book, RE!table, RE!clockThread
    <2>2. RecordTypes' /\ NeverAhead'
        BY <2>1 DEF RecordTypes, NeverAhead
    <2>3. TodoIsWhole' /\ ViewIsTruth' /\ Stored'
        BY <2>1 DEF TodoIsWhole, ViewIsTruth, Stored
    <2>4. AfterClose'
        BY <2>1 DEF AfterClose
    <2> QED
        BY <2>2, <2>3, <2>4
<1>3. ASSUME NEW o \in Orders, RE!Send(o) \/ RE!Trade(o) PROVE RecordInv'
    <2>1. /\ clock = "session" /\ truth' \in [Orders -> 0 .. 2]
             /\ \A p \in Orders : truth[p] <= truth'[p]
          /\ lineage' \subseteq Orders
          /\ UNCHANGED <<clock, up, known, row, trade, due, todo, got, pending, told, left,
                    missed>>
        <3>1. CASE RE!Send(o)
            BY <3>1 DEF RE!Send, RE!table, RE!clockThread, RecordTypes
        <3>2. CASE RE!Trade(o)
            BY <3>2 DEF RE!Trade, RE!table, RE!clockThread, RecordTypes
        <3> QED
            BY <1>3, <3>1, <3>2
    <2>2. /\ todo = <<>> /\ told["orders"] # "success" /\ told["trades"] # "success"
        BY <2>1 DEF AfterClose, RE!Lists
    <2>3. RecordTypes'
        BY <2>1 DEF RecordTypes
    <2>4. NeverAhead'
        <3>1. /\ known' = known /\ row' = row /\ got' = got /\ trade' = trade
              /\ \A p \in Orders : truth[p] <= truth'[p]
              /\ \A p \in Orders : truth[p] \in 0 .. 2 /\ truth'[p] \in 0 .. 2
              /\ \A p \in Orders : known[p] \in 0 .. 2 /\ row[p].st \in 0 .. 2 /\ got[p] \in 0 .. 2
              /\ trade \subseteq Orders
            BY <2>1 DEF RecordTypes
        <3> QED
            BY <3>1, SMTT(30) DEF NeverAhead
    <2>5. TodoIsWhole' /\ ViewIsTruth' /\ AfterClose'
        BY <2>1, <2>2 DEF TodoIsWhole, AfterClose, ViewIsTruth
    <2>6. Stored'
        BY <2>1, <2>2 DEF Stored
    <2> QED
        BY <2>3, <2>4, <2>5, <2>6
<1>4. ASSUME NEW o \in Orders, NEW w \in RE!Writes, NEW x \in RE!Writes, RE!OrderEvent(o, w, x)
      PROVE  RecordInv'
    BY <1>4, EventKeeps
<1>5. CASE RE!AfterTimer
    <2>1. /\ clock = "after" /\ up /\ todo' = RE!AfterTradingTasks /\ told' = RE!Untold
          /\ left' = RE!NoneLeft
          /\ UNCHANGED <<clock, up, truth, known, lineage, row, trade, got, pending, missed>>
        BY <1>5 DEF RE!AfterTimer, RE!book, RE!table, AfterClose
    <2>2. TodoIsWhole' /\ ViewIsTruth'
        BY <2>1 DEF TodoIsWhole, ViewIsTruth, RE!AfterTradingTasks, RE!Lists
    <2>3. RecordTypes' /\ NeverAhead'
        BY <2>1 DEF RecordTypes, NeverAhead, RE!Untold, RE!NoneLeft
    <2>4. AfterClose' /\ Stored'
        BY <2>1 DEF AfterClose, Stored, RE!Untold, RE!Lists
    <2> QED
        BY <2>2, <2>3, <2>4
<1>6. CASE RE!AfterTimerFails
    BY <1>6 DEF RE!AfterTimerFails, RE!book, RE!table, RE!clockThread, TodoIsWhole, RecordTypes,
                NeverAhead, AfterClose, ViewIsTruth, Stored
<1>7. CASE RE!Fetch
    <2>1. /\ todo # <<>> /\ todo' = Tail(todo) /\ got' = truth
          /\ UNCHANGED <<clock, up, truth, known, lineage, row, trade, due, pending, told, left,
                    missed>>
        BY <1>7 DEF RE!Fetch, RE!At, RE!still, RE!book, RE!table
    <2>2. TodoIsWhole' /\ ViewIsTruth'
        BY <2>1, TodoSteps DEF ViewIsTruth
    <2>3. RecordTypes' /\ NeverAhead'
        BY <2>1 DEF RecordTypes, NeverAhead
    <2>4. AfterClose' /\ Stored'
        BY <2>1, SMTT(30) DEF AfterClose, Stored
    <2> QED
        BY <2>2, <2>3, <2>4
<1>8. CASE RE!FetchFails
    <2>1. /\ todo # <<>> /\ todo[1][1] = "fetch" /\ todo' = Tail(Tail(todo))
          /\ told' = [told EXCEPT ![todo[1][2]] = "failed"]
          /\ UNCHANGED <<clock, up, truth, known, lineage, row, trade, due, got, pending, left,
                    missed>>
        BY <1>8, TodoSteps, ZenonT(60) DEF RE!FetchFails, RE!At, RE!still, RE!book, RE!table
    <2>2. todo[1][2] \in RE!Lists
        BY <2>1, TodoSteps
    <2>3. TodoIsWhole' /\ ViewIsTruth'
        BY <2>1, TwoSteps DEF ViewIsTruth
    <2>4. RecordTypes' /\ NeverAhead'
        BY <2>1, <2>2 DEF RecordTypes, NeverAhead
    <2>5. \A list \in RE!Lists : told'[list] = "success" => told[list] = "success"
        BY <2>1, <2>2 DEF RecordTypes
    <2>6. AfterClose' /\ Stored'
        BY <2>1, <2>5 DEF AfterClose, Stored, RE!Lists
    <2> QED
        BY <2>3, <2>4, <2>6
<1>9. ASSUME NEW failed \in SUBSET Orders, NEW skipped \in SUBSET Orders,
             RE!Write(failed, skipped)
      PROVE  RecordInv'
    <2>1. /\ todo # <<>> /\ todo[1][1] = "write" /\ todo' = Tail(todo)
          /\ RE!Written(todo[1][2], got, failed, skipped)
          /\ UNCHANGED <<clock, up, truth, known, lineage, due, got, pending, missed>>
        BY <1>9, TodoSteps DEF RE!Write, RE!At, RE!still, RE!book
    <2>2. todo[1][2] \in RE!Lists /\ clock = "after" /\ up /\ got = truth
        BY <2>1, TodoSteps DEF AfterClose, ViewIsTruth
    <2>3. RecordTypes' /\ NeverAhead' /\ Stored' /\ AfterClose'
        <3>1. pending' \subseteq RE!Lists
            BY <2>1 DEF RecordTypes
        <3> QED
            BY <2>1, <2>2, <3>1, WrittenKeeps
    <2>4. TodoIsWhole' /\ ViewIsTruth'
        BY <2>1, TodoSteps DEF ViewIsTruth
    <2> QED
        BY <2>3, <2>4
<1>10. CASE RE!Crash
    <2>1. /\ todo' = <<>> /\ pending' = {} /\ due' = FALSE /\ told' = RE!Untold /\ up' = FALSE
          /\ lineage' = {} /\ left' = RE!NoneLeft
          /\ UNCHANGED <<clock, truth, known, row, trade, got, missed>>
        BY <1>10 DEF RE!Crash, RE!table
    <2>2. RecordTypes' /\ NeverAhead'
        BY <2>1 DEF RecordTypes, NeverAhead, RE!Untold, RE!NoneLeft
    <2>3. TodoIsWhole' /\ ViewIsTruth'
        BY <2>1 DEF TodoIsWhole, ViewIsTruth
    <2>4. AfterClose' /\ Stored'
        BY <2>1 DEF AfterClose, Stored, RE!Untold, RE!Lists
    <2> QED
        BY <2>2, <2>3, <2>4
<1>11. CASE RE!Start
    <2>1. /\ ~up /\ up' = TRUE /\ known' = truth
          /\ pending' \subseteq RE!Lists /\ (pending' # {} => clock = "after")
          /\ UNCHANGED <<clock, truth, lineage, row, trade, due, todo, got, told, left,
                    missed>>
        BY <1>11 DEF RE!Start, RE!table, RE!clockThread
    <2>2. ~due /\ todo = <<>> /\ \A list \in RE!Lists : told[list] # "success"
        BY <2>1 DEF AfterClose
    <2>3. RecordTypes' /\ NeverAhead'
        BY <2>1 DEF RecordTypes, NeverAhead
    <2>4. TodoIsWhole' /\ ViewIsTruth'
        BY <2>1, <2>2 DEF TodoIsWhole, ViewIsTruth
    <2>5. AfterClose' /\ Stored'
        BY <2>1, <2>2 DEF AfterClose, Stored, RE!Lists
    <2> QED
        BY <2>3, <2>4, <2>5
<1>12. ASSUME NEW list \in pending, NEW failed \in SUBSET Orders, NEW skipped \in SUBSET Orders,
              RE!Fetched(list, failed, skipped)
       PROVE  RecordInv'
    <2>1. /\ list \in RE!Lists /\ clock = "after" /\ up
          /\ pending' \subseteq RE!Lists /\ RE!Written(list, truth, failed, skipped)
          /\ UNCHANGED <<clock, up, truth, known, lineage, due, todo, got, missed>>
        BY <1>12 DEF RE!Fetched, RE!book, RE!clockThread, AfterClose, RecordTypes
    <2>2. RecordTypes' /\ NeverAhead' /\ Stored' /\ AfterClose'
        BY <2>1, WrittenKeeps
    <2>3. TodoIsWhole' /\ ViewIsTruth'
        BY <2>1 DEF TodoIsWhole, ViewIsTruth
    <2> QED
        BY <2>2, <2>3
<1>13. ASSUME NEW list \in pending, RE!FetchedNot(list) PROVE RecordInv'
    <2>1. /\ list \in RE!Lists /\ clock = "after" /\ up
          /\ pending' \subseteq RE!Lists /\ told' = [told EXCEPT ![list] = "failed"]
          /\ UNCHANGED <<clock, up, truth, known, lineage, row, trade, due, todo, got, left,
                    missed>>
        BY <1>13 DEF RE!FetchedNot, RE!book, RE!table, RE!clockThread, AfterClose, RecordTypes
    <2>2. RecordTypes' /\ NeverAhead'
        BY <2>1 DEF RecordTypes, NeverAhead
    <2>3. \A other \in RE!Lists : told'[other] = "success" => told[other] = "success"
        BY <2>1 DEF RecordTypes
    <2>4. TodoIsWhole' /\ ViewIsTruth' /\ AfterClose' /\ Stored'
        BY <2>1, <2>3 DEF TodoIsWhole, ViewIsTruth, AfterClose, Stored, RE!Lists
    <2> QED
        BY <2>2, <2>4
<1> QED
    BY <1>1, <1>2, <1>3, <1>4, <1>5, <1>6, <1>7, <1>8, <1>9, <1>10, <1>11, <1>12, <1>13
        DEF RE!Next

-----------------------------------------------------------------------------
(* The export *)

ExportAssumption == IsFiniteSet(Ids)

ExportInv == TE!TypeOK /\ TE!ExportIsWhole

\* The library's operator, as the instance of the module names it
LEMMA SameCardinality == \A S : TE!Cardinality(S) = Cardinality(S)
    BY Zenon DEF TE!Cardinality, Cardinality

\* Counting is enough: the rows counted are of the snapshot's instruments.
LEMMA ExportCurrentIsWhole ==
    ASSUME ExportAssumption, NEW s \in TE!Ticks, TE!Current(s)
    PROVE  \A i \in TE!In(s) : rows[i].v = TE!CurrentVersion
<1>1. IsFiniteSet(TE!In(s)) /\ TE!Stored(TE!In(s)) \subseteq TE!In(s)
    BY FS_Subset DEF ExportAssumption, TE!In, TE!Stored
<1>2. Cardinality(TE!Stored(TE!In(s))) \in Nat /\ Cardinality(TE!In(s)) \in Nat
    BY <1>1, FS_Subset, FS_CardinalityType
<1>3. TE!Stored(TE!In(s)) = TE!In(s)
    BY <1>1, <1>2, SameCardinality, FS_Subset DEF TE!Current
<1> QED
    BY <1>3 DEF TE!Current

\* Rows that are in the current schema stay so, and other exports lose nothing by that.
LEMMA ExportRowsOnlyGain ==
    ASSUME TE!TypeOK, NEW p \in Procs, NEW w \in {"ok", "failed"}, TE!Replace(p, w)
    PROVE  \A i \in Ids : rows[i].v = TE!CurrentVersion => rows'[i].v = TE!CurrentVersion
BY DEF TE!TypeOK, TE!Replace, TE!Replaced, TE!RolledBack

LEMMA ExportReplaceKeeps ==
    ASSUME ExportInv, NEW p \in Procs, NEW w \in {"ok", "failed"}, TE!Replace(p, w)
    PROVE  ExportInv'
<1> USE DEF ExportInv
<1>1. TE!TypeOK'
    BY DEF TE!TypeOK, TE!Replace, TE!Replaced, TE!RolledBack, TE!CurrentVersion
<1>2. snap' = snap /\ \A q \in Procs \ {p} : export_told'[q] = export_told[q]
    BY DEF TE!TypeOK, TE!Replace
<1>3. \A q \in Procs \ {p} :
        export_told'[q] \in {"success", "current"} =>
            \A i \in TE!In(snap'[q]) : rows'[i].v = TE!CurrentVersion
    BY <1>2, ExportRowsOnlyGain DEF TE!ExportIsWhole, TE!In
<1>4. export_told'[p] \in {"success", "current"} =>
        \A i \in TE!In(snap'[p]) : rows'[i].v = TE!CurrentVersion
    <2>1. w = "failed" => export_told'[p] = "failed"
        BY DEF TE!TypeOK, TE!Replace
    <2>2. w = "ok" => \A i \in TE!In(snap'[p]) : rows'[i].v = TE!CurrentVersion
        BY <1>2 DEF TE!TypeOK, TE!Replace, TE!Replaced, TE!In
    <2> QED
        BY <2>1, <2>2
<1> QED
    BY <1>1, <1>3, <1>4 DEF TE!ExportIsWhole, TE!In

LEMMA ExportCheckKeeps ==
    ASSUME ExportAssumption, ExportInv, NEW p \in Procs, NEW readable \in BOOLEAN,
           TE!Check(p, readable)
    PROVE  ExportInv'
<1> USE DEF ExportInv
<1> DEFINE s == export_market[p]
<1>1. s \in TE!Ticks
    BY DEF TE!TypeOK
<1>2. TE!TypeOK'
    BY <1>1 DEF TE!TypeOK, TE!Check
<1>3. \A q \in Procs \ {p} : snap'[q] = snap[q] /\ export_told'[q] = export_told[q]
    BY DEF TE!TypeOK, TE!Check
<1>4. /\ snap'[p] = s /\ rows' = rows
      /\ export_told'[p] \in {"success", "current"} => TE!Current(s)
    BY DEF TE!TypeOK, TE!Check
<1>5. export_told'[p] \in {"success", "current"} =>
        \A i \in TE!In(snap'[p]) : rows'[i].v = TE!CurrentVersion
    BY <1>1, <1>4, ExportCurrentIsWhole
<1>6. TE!ExportIsWhole'
    BY <1>3, <1>4, <1>5 DEF TE!ExportIsWhole, TE!In
<1> QED
    BY <1>2, <1>6

\* What touches no row and reports neither keeps what the others reported.
LEMMA ExportOthersKeep ==
    ASSUME ExportInv, TE!TypeOK', NEW p \in Procs, rows' = rows,
           \A q \in Procs \ {p} : snap'[q] = snap[q] /\ export_told'[q] = export_told[q],
           \/ export_told'[p] \notin {"success", "current"}
           \/ export_told'[p] = export_told[p] /\ snap'[p] = snap[p]
    PROVE  ExportInv'
BY DEF ExportInv, TE!ExportIsWhole, TE!In

LEMMA ExportNextKeeps ==
    ASSUME ExportAssumption, ExportInv, [TE!Next]_(TE!vars)
    PROVE  ExportInv'
<1>1. CASE UNCHANGED TE!vars
    BY <1>1 DEF ExportInv, TE!vars, TE!TypeOK, TE!ExportIsWhole, TE!In
<1>2. ASSUME NEW p \in Procs, TE!Begin(p) PROVE ExportInv'
    <2>1. TE!TypeOK'
        BY <1>2 DEF ExportInv, TE!TypeOK, TE!Begin, TE!Ticks, TE!Empty
    <2> QED
        BY <1>2, <2>1, ExportOthersKeep DEF ExportInv, TE!TypeOK, TE!Begin
<1>3. ASSUME NEW p \in Procs, TE!RefreshFails(p) PROVE ExportInv'
    <2>1. TE!TypeOK'
        BY <1>3 DEF ExportInv, TE!TypeOK, TE!RefreshFails
    <2> QED
        BY <1>3, <2>1, ExportOthersKeep DEF ExportInv, TE!TypeOK, TE!RefreshFails
<1>4. ASSUME NEW p \in Procs, TE!Restart(p) PROVE ExportInv'
    <2>1. TE!TypeOK'
        BY <1>4 DEF ExportInv, TE!TypeOK, TE!Restart, TE!Ticks, TE!Empty
    <2> QED
        BY <1>4, <2>1, ExportOthersKeep DEF ExportInv, TE!TypeOK, TE!Restart
<1>5. ASSUME NEW p \in Procs, NEW s \in TE!Ticks, TE!Refreshed(p, s) \/ TE!TimerRefresh(p, s)
      PROVE  ExportInv'
    <2>1. export_market' \in [Procs -> TE!Ticks] /\ export_final' \in [Procs -> BOOLEAN]
        <3> DEFINE new == [i \in Ids |-> IF s[i] = "none" THEN export_market[p][i] ELSE s[i]]
        <3>1. export_market[p] \in TE!Ticks
            BY DEF ExportInv, TE!TypeOK
        <3>2. new \in TE!Ticks
            BY <3>1 DEF TE!Ticks
        <3>3. export_market' = [export_market EXCEPT ![p] = new]
              /\ export_final' = [export_final EXCEPT ![p] = TRUE]
            BY <1>5 DEF TE!Refreshed, TE!TimerRefresh, TE!Refresh
        <3> QED
            BY <3>2, <3>3 DEF ExportInv, TE!TypeOK
    <2>2. TE!TypeOK'
        BY <1>5, <2>1 DEF ExportInv, TE!TypeOK, TE!Refreshed, TE!TimerRefresh
    <2> QED
        BY <1>5, <2>2, ExportOthersKeep DEF ExportInv, TE!TypeOK, TE!Refreshed, TE!TimerRefresh
<1>6. ASSUME NEW p \in Procs, NEW readable \in BOOLEAN, TE!Check(p, readable) PROVE ExportInv'
    BY <1>6, ExportCheckKeeps
<1>7. ASSUME NEW p \in Procs, NEW w \in {"ok", "failed"}, TE!Replace(p, w) PROVE ExportInv'
    BY <1>7, ExportReplaceKeeps
<1> QED
    BY <1>1, <1>2, <1>3, <1>4, <1>5, <1>6, <1>7 DEF TE!Next

LEMMA ExportStarts == TE!Init => ExportInv
<1> SUFFICES ASSUME TE!Init PROVE ExportInv
    OBVIOUS
<1>1. rows \in [Ids -> [v : 0 .. TE!CurrentVersion, priced : BOOLEAN]]
    <2>1. PICK old \in SUBSET Ids :
            rows = [i \in Ids |-> [v |-> IF i \in old THEN 1 ELSE 0, priced |-> i \in old]]
        BY DEF TE!Init
    <2>2. \A i \in Ids : (IF i \in old THEN 1 ELSE 0) \in 0 .. 2 /\ (i \in old) \in BOOLEAN
        OBVIOUS
    <2>3. \A i \in Ids :
            [v |-> IF i \in old THEN 1 ELSE 0, priced |-> i \in old]
                \in [v : 0 .. 2, priced : BOOLEAN]
        BY <2>2
    <2> QED
        BY <2>1, <2>3, Zenon DEF TE!CurrentVersion
<1>2. TE!Empty \in TE!Ticks
    BY DEF TE!Empty, TE!Ticks
<1>3. TE!TypeOK
    BY <1>1, <1>2 DEF TE!Init, TE!TypeOK
<1> QED
    BY <1>3 DEF TE!Init, ExportInv, TE!ExportIsWhole

LEMMA ExportHolds == ExportInv => TE!TypeOK /\ TE!ExportIsWhole
    BY DEF ExportInv

-----------------------------------------------------------------------------
(* The snapshots *)

SnapshotAssumption == SnapshotDays \in Nat \ {0}

SnapshotTypes ==
    /\ snaps_day \in 1 .. SnapshotDays /\ phase \in {"before", "session", "after"}
    /\ held \in BOOLEAN /\ heldAtOpen \in BOOLEAN /\ entry \in 0 .. snaps_day
    /\ snaps_pending \subseteq SN!CatchUpPhases
    /\ asset \subseteq SN!Types /\ lastAsset \in BOOLEAN
    /\ position \subseteq snaps_rows /\ snaps_rows \subseteq (1 .. snaps_day) \X SN!Types

\* A stock that is or was held today has an entry day; before the session that is a past one.
EntryIsKnown ==
    /\ held \/ heldAtOpen => entry > 0
    /\ phase = "before" => (held <=> heldAtOpen) /\ entry < snaps_day

\* What today's rows can tell: a row of the morning, that the stock was held by then, and
\* none of the close before it.
TodaysRows ==
    /\ SN!HeldIn(snaps_day, "before_trading") => heldAtOpen
    /\ SN!HeldIn(snaps_day, "after_trading") => phase = "after"

\* No row of the morning of the day on which the stock was bought.
EntryHasNoMorning ==
    /\ held \/ heldAtOpen => ~SN!HeldIn(entry, "before_trading")
    /\ heldAtOpen => entry < snaps_day

SnapshotInv == SnapshotTypes /\ EntryIsKnown /\ TodaysRows /\ EntryHasNoMorning

\* The greatest element of a set that has one.
LEMMA GreatestIsMax ==
    ASSUME NEW S, S \subseteq Int, NEW m \in S, \A x \in S : x <= m
    PROVE  SN!Max(S) = m
<1>1. \A y \in S : m >= y
    OBVIOUS
<1>2. SN!Max(S) \in S /\ \A y \in S : SN!Max(S) >= y
    BY <1>1 DEF SN!Max
<1>3. SN!Max(S) \in Int /\ m \in Int /\ SN!Max(S) <= m /\ m <= SN!Max(S)
    BY <1>2
<1> QED
    BY <1>3

LEMMA SnapshotHolds ==
    ASSUME SnapshotAssumption, SnapshotInv
    PROVE  SN!TypeOK /\ SN!SpanStartIsEntry
<1>1. SN!TypeOK
    BY Zenon DEF SnapshotInv, SnapshotTypes, SN!TypeOK, SN!DayNo
<1>2. ASSUME phase = "before", held, \A d \in entry .. snaps_day - 1 : SN!Complete(d)
      PROVE  SN!SpanStart = entry
    <2>1. entry \in 1 .. snaps_day - 1 /\ snaps_day \in 1 .. SnapshotDays
        BY <1>2 DEF SnapshotInv, SnapshotTypes, EntryIsKnown
    <2>2. entry \in SN!EntryDays
        BY <1>2, <2>1 DEF SnapshotInv, EntryHasNoMorning, SN!EntryDays, SN!Complete, SN!DayNo,
                          SnapshotAssumption
    <2>3. ASSUME NEW d \in SN!EntryDays PROVE d <= entry
        <3> SUFFICES ASSUME d > entry PROVE FALSE
            BY <2>1, <2>3 DEF SN!EntryDays, SN!DayNo
        <3>1. d \in 1 .. SnapshotDays /\ SN!HeldIn(d, "after_trading")
              /\ ~SN!HeldIn(d, "before_trading")
            BY DEF SN!EntryDays, SN!DayNo
        <3>2. d \in 1 .. snaps_day
            BY <3>1 DEF SnapshotInv, SnapshotTypes, SN!HeldIn
        <3>3. CASE d = snaps_day
            BY <1>2, <3>1, <3>3 DEF SnapshotInv, TodaysRows
        <3>4. CASE d # snaps_day
            <4>1. d \in entry .. snaps_day - 1 /\ d # entry
                BY <2>1, <3>2, <3>4
            <4> QED
                BY <1>2, <3>1, <4>1 DEF SN!Complete
        <3> QED
            BY <3>3, <3>4
    <2>4. SN!EntryDays \cup {0} \subseteq Int
        BY DEF SN!EntryDays, SN!DayNo, SnapshotAssumption
    <2>5. \A x \in SN!EntryDays \cup {0} : x <= entry
        BY <2>1, <2>3
    <2> QED
        BY <2>2, <2>4, <2>5, GreatestIsMax DEF SN!SpanStart
<1> QED
    BY <1>1, <1>2 DEF SN!SpanStartIsEntry

LEMMA SnapshotStarts ==
    ASSUME SnapshotAssumption, SN!Init
    PROVE  SnapshotInv
<1>1. snaps_day \in 1 .. SnapshotDays /\ entry \in 0 .. snaps_day
    BY DEF SN!Init, SnapshotAssumption
<1>2. SnapshotTypes
    BY <1>1 DEF SN!Init, SnapshotTypes
<1>3. EntryIsKnown /\ TodaysRows /\ EntryHasNoMorning
    BY DEF SN!Init, EntryIsKnown, TodaysRows, EntryHasNoMorning, SN!HeldIn
<1> QED
    BY <1>2, <1>3 DEF SnapshotInv

\* Rows of a phase may be written as long as it lasts.
LEMMA RowsKeep ==
    ASSUME SnapshotAssumption, SnapshotInv, NEW types \in SUBSET SN!CatchUpPhases,
           SN!PositionRows(types), UNCHANGED <<snaps_day, phase, held, heldAtOpen, entry>>,
           snaps_pending' \subseteq SN!CatchUpPhases, asset' \subseteq SN!Types,
           lastAsset' = lastAsset
    PROVE  SnapshotInv'
<1> DEFINE these == {snaps_day} \X (types \ {"continuous_trading"})
<1>1. types \subseteq SN!Types
    BY DEF SnapshotInv, SnapshotTypes, SN!CatchUpPhases, SN!Types
<1>2. these \subseteq (1 .. snaps_day) \X SN!Types
    BY <1>1 DEF SnapshotInv, SnapshotTypes
<1>3. snaps_rows' = snaps_rows \cup these /\ position' = position \cup (IF held THEN these ELSE {})
    BY DEF SN!PositionRows
<1>4. SnapshotTypes'
    BY <1>2, <1>3 DEF SnapshotInv, SnapshotTypes, SN!CatchUpPhases
<1>5. \A d, t : <<d, t>> \in position' =>
         <<d, t>> \in position \/ (held /\ d = snaps_day /\ t \in types)
    BY <1>3
<1>6. "before_trading" \in types => phase = "before"
    BY DEF SN!CatchUpPhases, SnapshotInv, SnapshotTypes
<1>7. "after_trading" \in types => phase = "after"
    BY DEF SN!CatchUpPhases, SnapshotInv, SnapshotTypes
<1>8. EntryIsKnown'
    BY DEF SnapshotInv, EntryIsKnown
<1>9. TodaysRows'
    BY <1>5, <1>6, <1>7 DEF SnapshotInv, TodaysRows, EntryIsKnown, SN!HeldIn
<1>10. EntryHasNoMorning'
    <2>1. "before_trading" \in types => entry # snaps_day
        BY <1>6 DEF SnapshotInv, SnapshotTypes, EntryIsKnown
    <2> QED
        BY <1>5, <2>1 DEF SnapshotInv, EntryHasNoMorning, SN!HeldIn
<1> QED
    BY <1>4, <1>8, <1>9, <1>10 DEF SnapshotInv

LEMMA SnapshotKeeps ==
    ASSUME SnapshotAssumption, SnapshotInv, [SN!Next]_(SN!vars)
    PROVE  SnapshotInv'
<1>1. CASE UNCHANGED SN!vars
    BY <1>1 DEF SN!vars, SN!account, SN!assets, SN!CatchUpPhases, SN!HeldIn, SnapshotInv,
                SnapshotTypes, EntryIsKnown, TodaysRows, EntryHasNoMorning
<1>2. CASE SN!Trade
    <2>1. SnapshotTypes'
        BY <1>2 DEF SN!Trade, SN!assets, SN!CatchUpPhases, SnapshotInv, SnapshotTypes
    <2>2. EntryIsKnown' /\ TodaysRows' /\ EntryHasNoMorning'
        BY <1>2 DEF SN!Trade, SN!HeldIn, SnapshotInv, SnapshotTypes, EntryIsKnown, TodaysRows,
                    EntryHasNoMorning
    <2> QED
        BY <2>1, <2>2 DEF SnapshotInv
<1>3. CASE SN!Pass
    <2>1. SnapshotTypes'
        <3>1. snaps_pending' = {} /\ UNCHANGED <<held, snaps_rows, position>>
            BY <1>3 DEF SN!Pass
        <3>2. /\ snaps_day' \in 1 .. SnapshotDays /\ snaps_day' >= snaps_day
              /\ phase' \in {"before", "session", "after"} /\ entry' \in 0 .. snaps_day'
            BY <1>3 DEF SN!Pass, SnapshotInv, SnapshotTypes, SnapshotAssumption
        <3>3. heldAtOpen' \in BOOLEAN /\ asset' \subseteq SN!Types
            BY <1>3 DEF SN!Pass, SN!assets, SnapshotInv, SnapshotTypes
        <3>6. lastAsset' = lastAsset \/ lastAsset' = ("after_trading" \in asset)
            BY <1>3 DEF SN!Pass, SN!assets
        <3>7. lastAsset' \in BOOLEAN
            <4>1. lastAsset \in BOOLEAN
                BY DEF SnapshotInv, SnapshotTypes
            <4>2. ("after_trading" \in asset) \in BOOLEAN
                OBVIOUS
            <4> QED
                BY <3>6, <4>1, <4>2, Zenon
        <3>4. 1 .. snaps_day \subseteq 1 .. snaps_day'
            BY <3>2 DEF SnapshotInv, SnapshotTypes
        <3>5. snaps_rows' \subseteq (1 .. snaps_day') \X SN!Types
            BY <3>1, <3>4 DEF SnapshotInv, SnapshotTypes
        <3> QED
            BY <3>1, <3>2, <3>3, <3>5, <3>7 DEF SnapshotInv, SnapshotTypes
    <2>2. CASE phase = "after"
        <3>1. ~SN!HeldIn(snaps_day, "before_trading")' /\ ~SN!HeldIn(snaps_day, "after_trading")'
            BY <1>3, <2>2 DEF SN!Pass, SN!HeldIn, SnapshotInv, SnapshotTypes
        <3> QED
            BY <1>3, <2>1, <2>2, <3>1 DEF SN!Pass, SN!HeldIn, SnapshotInv, SnapshotTypes,
                EntryIsKnown, TodaysRows, EntryHasNoMorning
    <2>3. CASE phase # "after"
        BY <1>3, <2>1, <2>3 DEF SN!Pass, SN!assets, SN!HeldIn, SnapshotInv, SnapshotTypes,
            EntryIsKnown,
                    TodaysRows, EntryHasNoMorning
    <2> QED
        BY <2>2, <2>3
<1>4. ASSUME NEW stored \in SUBSET SN!TimerPhases, NEW fetched \in SUBSET SN!TimerPhases,
             SN!Timer(stored, fetched)
      PROVE  SnapshotInv'
    <2>1. SN!TimerPhases \subseteq SN!CatchUpPhases /\ SN!TimerPhases \subseteq SN!Types
        BY DEF SN!TimerPhases, SN!CatchUpPhases, SN!Types, SnapshotInv, SnapshotTypes
    <2> QED
        BY <1>4, <2>1, RowsKeep DEF SN!Timer, SN!AssetRows, SN!account, SnapshotInv, SnapshotTypes
<1>5. ASSUME NEW stored \in SUBSET SN!CatchUpPhases, SN!CatchUp(stored) PROVE SnapshotInv'
    <2>1. SN!CatchUpPhases \subseteq SN!Types
        BY DEF SN!CatchUpPhases, SN!Types, SnapshotInv, SnapshotTypes
    <2>2. SnapshotTypes'
        BY <1>5, <2>1 DEF SN!CatchUp, SN!AssetRows, SN!account, SN!CatchUpPhases, SnapshotInv,
                          SnapshotTypes
    <2> QED
        BY <1>5, <2>2 DEF SN!CatchUp, SN!account, SN!HeldIn, SnapshotInv, EntryIsKnown,
            TodaysRows,
                          EntryHasNoMorning
<1>6. ASSUME NEW t \in snaps_pending, NEW written \in BOOLEAN, SN!PositionsFetched(t, written)
      PROVE  SnapshotInv'
    <2>1. (IF written THEN {t} ELSE {}) \in SUBSET SN!CatchUpPhases
        BY DEF SnapshotInv, SnapshotTypes
    <2> QED
        BY <1>6, <2>1, RowsKeep DEF SN!PositionsFetched, SN!account, SN!assets, SnapshotInv,
                                    SnapshotTypes
<1> QED
    BY <1>1, <1>2, <1>3, <1>4, <1>5, <1>6 DEF SN!Next

-----------------------------------------------------------------------------
(* The components side by side *)

LEMMA Assumed ==
    /\ ReconAssumption /\ OpenAssumption /\ WindowAssumption /\ TrendAssumption
    /\ ExportAssumption /\ SnapshotAssumption
    BY LiveDataAssumption DEF ReconAssumption, OpenAssumption, WindowAssumption,
        TrendAssumption, ExportAssumption, SnapshotAssumption

\* A behaviour starts as one of the component that runs, and the fetches start in all of them.
LEMMA PartStarts ==
    ASSUME PartsInit
    PROVE  /\ Init
           /\ part = "recon" => RC!Init
           /\ part = "open" => TD!Init
           /\ part = "window" => TW!Init
           /\ part = "trend" => PT!Init
           /\ part = "records" => RE!Init
           /\ part = "export" => TE!Init
           /\ part = "snaps" => SN!Init
    BY DEF PartsInit

\* A step is one of the component that runs, and leaves the others as they are.
LEMMA PartSteps ==
    ASSUME [PartsNext]_partsVars
    PROVE  /\ part' = part
           /\ [Next]_vars
           /\ part = "recon" => [RC!Next]_(RC!vars)
           /\ part = "open" => [TD!Next]_(TD!vars)
           /\ part = "window" => [TW!Next]_(TW!vars)
           /\ part = "trend" => [PT!Next]_(PT!vars)
           /\ part = "records" => [RE!Next]_(RE!vars)
           /\ part = "export" => [TE!Next]_(TE!vars)
           /\ part = "snaps" => [SN!Next]_(SN!vars)
<1>1. CASE UNCHANGED partsVars
    BY <1>1 DEF partsVars, recon, open, window, trend, records, export, snaps,
        RC!vars, TD!vars, TW!vars, TW!clocks, PT!vars, RE!vars, RE!book, RE!table, RE!clockThread,
        TE!vars, SN!vars, SN!account, SN!assets
<1>2. CASE PartsNext
    BY <1>2 DEF PartsNext
<1> QED
    BY <1>1, <1>2

FetchPart == FetchInv

\* Whoever asks for a full tick hears of its end once, and does hear of it, but for those
\* that joined too late, for every set of requests, when all of them come from one clock
\* thread (_on_whole_market_full_tick_done and its observers).
THEOREM FetchIsHeard ==
    ASSUME OneClock
    PROVE  PartsSpec => []Heard
<1>1. PartsInit => FetchPart
    BY PartStarts, Assumed, FetchStarts DEF FetchPart
<1>2. FetchPart /\ [PartsNext]_partsVars => FetchPart'
    BY PartSteps, Assumed, FetchKeeps DEF FetchPart
<1>3. FetchPart => Heard
    BY Assumed, QuietTells DEF FetchPart, Heard
<1> QED
    BY <1>1, <1>2, <1>3, PTL DEF PartsSpec

ReconPart == part = "recon" => ReconInv

\* Each request to reconcile ends once, and an answer opens the gate of convergence, however
\* often the account changes meanwhile (ExecutionStateReconciler).
THEOREM ReconIsAnswered ==
    PartsSpec => []AnswerHeard
<1>1. PartsInit => ReconPart
    BY PartStarts, Assumed, ReconStarts DEF ReconPart
<1>2. ReconPart /\ [PartsNext]_partsVars => ReconPart'
    BY PartSteps, Assumed, ReconKeeps DEF ReconPart
<1>3. ReconPart => AnswerHeard
    BY Assumed, ReconAnswers DEF ReconPart, AnswerHeard
<1> QED
    BY <1>1, <1>2, <1>3, PTL DEF PartsSpec

OpenPart == part = "open" => OpenInv

\* Nothing of today clobbers the day's open once a full tick has brought it, and a full tick
\* restores it after a late event of an earlier day, on any number of days and restarts
\* (_set_authoritative_open).
THEOREM OpenIsKept ==
    PartsSpec => []FullTickOpenStays
<1>1. PartsInit => OpenPart
    BY PartStarts, Assumed, OpenStarts DEF OpenPart
<1>2. OpenPart /\ [PartsNext]_partsVars => OpenPart'
    BY PartSteps, Assumed, OpenKeeps DEF OpenPart
<1>3. OpenPart => FullTickOpenStays
    BY Assumed, OpenHolds DEF OpenPart, FullTickOpenStays
<1> QED
    BY <1>1, <1>2, <1>3, PTL DEF PartsSpec

WindowPart == part = "window" => WindowInv

\* No cycle runs while the exchange is closed, whatever the lags between the venue's clock
\* and the node's (_within_trading_window).
THEOREM CyclesWhileOpen ==
    PartsSpec => []CycleOnlyWhenOpen
<1>1. PartsInit => WindowPart
    BY PartStarts, Assumed, WindowStarts DEF WindowPart
<1>2. WindowPart /\ [PartsNext]_partsVars => WindowPart'
    BY PartSteps, Assumed, WindowKeeps DEF WindowPart
<1>3. WindowPart => CycleOnlyWhenOpen
    BY Assumed, WindowHolds DEF WindowPart, CycleOnlyWhenOpen
<1> QED
    BY <1>1, <1>2, <1>3, PTL DEF PartsSpec

RecordPart == part = "records" => RecordInv

\* A task of the recorder that reports success has stored what the broker had, but for the
\* rows it skipped, for every set of orders and number of restarts (_run_after_trading).
THEOREM SuccessIsStored ==
    PartsSpec => []SuccessMeansStored
<1>1. PartsInit => RecordPart
    BY PartStarts, Assumed, RecordStarts DEF RecordPart
<1>2. RecordPart /\ [PartsNext]_partsVars => RecordPart'
    BY PartSteps, Assumed, RecordKeeps DEF RecordPart
<1>3. RecordPart => SuccessMeansStored
    BY Assumed, RecordHolds DEF RecordPart, SuccessMeansStored
<1> QED
    BY <1>1, <1>2, <1>3, PTL DEF PartsSpec

ExportPart == part = "export" => ExportInv

\* However many processes export the same day at once, and however they fail or restart, what
\* is reported as written or as current is there whole (replace_whole_market_tick_snapshots,
\* _whole_market_snapshot_is_current).
THEOREM ExportsAreWhole ==
    PartsSpec => []ExportIsWhole
<1>1. PartsInit => ExportPart
    BY PartStarts, Assumed, ExportStarts DEF ExportPart
<1>2. ExportPart /\ [PartsNext]_partsVars => ExportPart'
    BY PartSteps, Assumed, ExportNextKeeps DEF ExportPart
<1>3. ExportPart => ExportIsWhole
    BY Assumed, ExportHolds DEF ExportPart, ExportIsWhole
<1> QED
    BY <1>1, <1>2, <1>3, PTL DEF PartsSpec

SnapshotPart == part = "snaps" => SnapshotInv

\* A holding's span starts on the day it was entered, on any number of days
\* (load_position_span_start_dates).
THEOREM SpansStartAtEntry ==
    PartsSpec => []SpanStartIsEntry
<1>1. PartsInit => SnapshotPart
    BY PartStarts, Assumed, SnapshotStarts DEF SnapshotPart
<1>2. SnapshotPart /\ [PartsNext]_partsVars => SnapshotPart'
    BY PartSteps, Assumed, SnapshotKeeps DEF SnapshotPart
<1>3. SnapshotPart => SpanStartIsEntry
    BY Assumed, SnapshotHolds DEF SnapshotPart, SpanStartIsEntry
<1> QED
    BY <1>1, <1>2, <1>3, PTL DEF PartsSpec

TrendPart == part = "trend" => TrendInv

\* The move that the trend tells, its volume confirmation and by how much it hastens orders are
\* those of the whole window, whatever gaps, repeats and late ticks there are, and ticks without
\* a volume, for every window and set of prices and volumes
\* (_record_price_trend_sample, _volume_direction_confirmation).
THEOREM TrendIsWhole ==
    PartsSpec => []TrendIsOfWindow
<1>1. PartsInit => TrendPart
    <2> SUFFICES ASSUME PartsInit, part = "trend"
                 PROVE  TrendInv
        BY DEF TrendPart
    <2>1. samples = <<>> /\ last = 0 /\ newest = [t \in 1 .. Now |-> PT!NoSample]
        BY PartStarts DEF PT!Init
    <2> QED
        BY <2>1, Assumed, TrendStarts
<1>2. TrendPart /\ [PartsNext]_partsVars => TrendPart'
    BY PartSteps, Assumed, TrendKeeps DEF TrendPart
<1>3. TrendPart => TrendIsOfWindow
    <2> SUFFICES ASSUME TrendInv
                 PROVE  PT!TrendIsOfWindow
        BY DEF TrendPart, TrendIsOfWindow
    <2>1. PT!Return = PT!TrueReturn
        BY Assumed, TrendHolds
    <2>2. PT!Return # 0 => PT!Confirmed = PT!TrueConfirmation
        BY Assumed, ConfirmedIsTrue
    <2> QED
        BY <2>1, <2>2 DEF PT!TrendIsOfWindow
<1> QED
    BY <1>1, <1>2, <1>3, PTL DEF PartsSpec

LEMMA FetchTypes == FetchInv => TypeOK
<1> SUFFICES ASSUME FetchInv
             PROVE  TypeOK
    OBVIOUS
<1>1. Types
    BY DEF FetchInv, OrderInv
<1>2. \A r \in Requests :
         /\ cb[r].at \in {"none", "armed", "clear", "copy", "empty", "post", "over"}
         /\ cb[r].taken \subseteq Observing
    BY <1>1 DEF Types, Marks, Active
<1>3. \A i \in DOMAIN loop : loop[i].fetch \in Requests /\ loop[i].who \subseteq Observing
    <2>1. \A i \in DOMAIN loop : loop[i] \in Posts
        BY <1>1 DEF Types
    <2> QED
        BY <2>1 DEF Posts
<1>4. pc \in [Requests -> {"idle", "ask", "busy", "start", "assign", "register", "callback",
                          "done", "raised"}]
    BY <1>1 DEF Types, Between
<1>5. observers \subseteq Requests
    BY <1>1 DEF Types, Observing
<1> QED
    BY <1>1, <1>2, <1>3, <1>4, <1>5, Zenon DEF Types, TypeOK

AllParts ==
    /\ FetchInv /\ ReconPart /\ OpenPart /\ WindowPart /\ TrendPart
    /\ RecordPart /\ ExportPart /\ SnapshotPart

\* The components' states keep their types: the samples of the trend ascend, nothing is waited
\* for by a request that does not wait, and no row is ahead of the broker.
THEOREM TypesKept ==
    ASSUME OneClock
    PROVE  PartsSpec => []TypesOK
<1>1. PartsInit => AllParts
    <2>1. PartsInit => TrendPart
        <3> SUFFICES ASSUME PartsInit, part = "trend"
                     PROVE  TrendInv
            BY DEF TrendPart
        <3>1. samples = <<>> /\ last = 0 /\ newest = [t \in 1 .. Now |-> PT!NoSample]
            BY PartStarts DEF PT!Init
        <3> QED
            BY <3>1, Assumed, TrendStarts
    <2> QED
        BY <2>1, PartStarts, Assumed, FetchStarts, ReconStarts, OpenStarts, WindowStarts,
            RecordStarts,
           ExportStarts, SnapshotStarts
           DEF AllParts, ReconPart, OpenPart, WindowPart, RecordPart, ExportPart, SnapshotPart
<1>2. AllParts /\ [PartsNext]_partsVars => AllParts'
    BY PartSteps, Assumed, FetchKeeps, ReconKeeps, OpenKeeps, WindowKeeps, TrendKeeps,
        RecordKeeps,
       ExportNextKeeps, SnapshotKeeps
       DEF AllParts, ReconPart, OpenPart, WindowPart, TrendPart, RecordPart, ExportPart,
           SnapshotPart
<1>3. AllParts => TypesOK
    BY Assumed, FetchTypes, OpenHolds, WindowHolds, TrendHolds, RecordHolds, ExportHolds,
        SnapshotHolds
       DEF AllParts, ReconPart, OpenPart, WindowPart, TrendPart, RecordPart, ExportPart,
           SnapshotPart,
           TypesOK, ReconInv, ReconTypes
<1> QED
    BY <1>1, <1>2, <1>3, PTL DEF PartsSpec
=================================================================================
