------------------------ MODULE TradingControl_proofs ------------------------
(***************************************************************************)
(* Why threads that converge at the same time never double an order.  The  *)
(* inductive invariant adds to the types that a thread inside a cycle, or  *)
(* reading the book for a sell, holds the lock; and that a decided plan    *)
(* still fits when it is sent: nothing is at work where it is to trade.    *)
(***************************************************************************)
EXTENDS TradingControl, TLAPS

Stages == {"idle", "acquire", "read", "apply", "update", "version", "discard",
           "converge", "force", "look", "send", "judge", "mark"}

Critical == {"read", "look", "send", "judge", "mark"}

LockDiscipline == \A t \in Threads : pc[t] \in Critical => lock = t

PlanFits(t) ==
    \A i \in Instruments :
        job[t].plan[i] # 0 =>
            working[i] = 0 /\ held[i] + job[t].plan[i] \in 0 .. MaxShares

PlansFit == \A t \in Threads : pc[t] = "send" => PlanFits(t)

\* What was bought today is still held: sales come out of what may be sold.
BoughtIsHeld == \A i \in Instruments : today[i] <= held[i]

IInv == TypeOK /\ WithinBooks /\ LockDiscipline /\ PlansFit /\ BoughtIsHeld

LEMMA NoJobIsJob == NoJob \in Job
    BY SharesAssumption DEF NoJob, Job, NoPlan, Reasons

\* An order a cycle decides on keeps the holding between none and the bound.
LEMMA WantedFits ==
    ASSUME TypeOK, WithinBooks, BoughtIsHeld, NEW i \in Instruments
    PROVE  /\ Wanted(i) \in Int
           /\ Wanted(i) # 0 => working[i] = 0 /\ held[i] + Wanted(i) \in 0 .. MaxShares
<1>1. MaxShares \in Nat /\ held[i] \in 0 .. MaxShares /\ working[i] \in Int
    BY SharesAssumption DEF TypeOK
<1>2. Desired(i) \in 0 .. MaxShares \cup {NoTarget}
    BY <1>1 DEF Desired, TypeOK, Maps
<1>3. Sellable(i) \in Nat
    <2>1. canUse[i] \in 0 .. MaxShares \cup {NoReport}
        BY DEF TypeOK
    <2>2. today[i] \in Nat /\ held[i] \in Nat /\ today[i] <= held[i]
        BY <1>1 DEF TypeOK, BoughtIsHeld
    <2> QED
        BY <1>1, <2>1, <2>2 DEF Sellable
<1>4. CASE Desired(i) = NoTarget \/ working[i] # 0
    BY <1>4 DEF Wanted
<1>5. CASE Desired(i) # NoTarget /\ working[i] = 0 /\ Desired(i) >= held[i]
    <2>1. Wanted(i) = Desired(i) - held[i]
        BY <1>5 DEF Wanted
    <2> QED
        BY <1>1, <1>2, <1>5, <2>1
<1>6. CASE Desired(i) # NoTarget /\ working[i] = 0 /\ ~(Desired(i) >= held[i])
    <2>1. Wanted(i) = 0 - Least(held[i] - Desired(i), Sellable(i))
        BY <1>6 DEF Wanted
    <2>2. Least(held[i] - Desired(i), Sellable(i)) \in 0 .. held[i]
        BY <1>1, <1>2, <1>3, <1>6 DEF Least
    <2> QED
        BY <1>1, <1>6, <2>1, <2>2
<1> QED
    BY <1>4, <1>5, <1>6

LEMMA InitIInv == Init => IInv
<1> SUFFICES ASSUME Init PROVE IInv
    OBVIOUS
<1>1. TypeOK
    <2>1. /\ targets \in Maps /\ reason \in Reasons /\ lock \in Threads \cup {Free}
          /\ paused \in BOOLEAN /\ updatesPaused \in BOOLEAN
        BY SharesAssumption DEF Init, Reasons
    <2>2. job \in [Threads -> Job]
        BY NoJobIsJob DEF Init
    <2>3. /\ held \in [Instruments -> 0 .. MaxShares]
          /\ today \in [Instruments -> 0 .. MaxShares]
          /\ working \in [Instruments -> (0 - MaxShares) .. MaxShares]
          /\ canUse \in [Instruments -> 0 .. MaxShares \cup {NoReport}]
        BY SharesAssumption DEF Init, NoPlan
    <2>4. pc \in [Threads -> {"idle"}] /\ lowered = {} /\ misread = {}
        BY DEF Init
    <2> QED
        BY <2>1, <2>2, <2>3, <2>4 DEF TypeOK
<1>2. WithinBooks /\ BoughtIsHeld
    BY SharesAssumption DEF Init, WithinBooks, BoughtIsHeld, NoPlan
<1>3. LockDiscipline /\ PlansFit
    BY DEF Init, LockDiscipline, PlansFit, Critical
<1> QED
    BY <1>1, <1>2, <1>3 DEF IInv

\* A step of one thread that leaves the books alone, keeps to the types, moves the
\* lock as the discipline asks, and decides nothing it does not send.
LEMMA ThreadStepKeeps ==
    ASSUME IInv, NEW t \in Threads, NEW here, NEW there,
           Goto(t, here, there), UNCHANGED bookVars, TypeOK',
           \A u \in Threads \ {t} : job'[u] = job[u],
           there = "send" => PlanFits(t)',
           \/ there \notin Critical /\ UNCHANGED lock
           \/ there \in Critical /\ here \in Critical /\ UNCHANGED lock
           \/ there \notin Critical /\ here \in Critical /\ Unlock(t)
           \/ lock = Free /\ lock' = t
    PROVE  IInv'
<1> USE DEF IInv
<1>1. \A u \in Threads : pc'[u] = IF u = t THEN there ELSE pc[u]
    BY DEF Goto, TypeOK
<1>2. WithinBooks' /\ BoughtIsHeld'
    BY DEF WithinBooks, BoughtIsHeld, bookVars
<1>3. LockDiscipline'
    <2> SUFFICES ASSUME NEW u \in Threads, pc'[u] \in Critical
                 PROVE  lock' = u
        BY DEF LockDiscipline
    <2>1. CASE u = t
        BY <1>1, <2>1 DEF LockDiscipline, Goto
    <2>2. CASE u # t
        <3>1. lock = u
            BY <1>1, <2>2 DEF LockDiscipline
        <3>2. pc[t] \notin Critical
            BY <2>2, <3>1 DEF LockDiscipline
        <3> QED
            BY <2>2, <3>1, <3>2, ThreadsAssumption DEF Goto, Unlock
    <2> QED
        BY <2>1, <2>2
<1>4. PlansFit'
    BY <1>1 DEF PlansFit, PlanFits, bookVars
<1> QED
    BY <1>2, <1>3, <1>4

LEMMA TypesKept ==
    ASSUME TypeOK, NEW t \in Threads, NEW here, NEW there \in Stages,
           Goto(t, here, there), UNCHANGED bookVars, UNCHANGED flagVars,
           targets' \in Maps, reason' \in Reasons, misread' \in SUBSET Instruments,
           lock' \in Threads \cup {Free},
           job' \in [Threads -> Job]
    PROVE  TypeOK'
BY DEF TypeOK, Goto, Stages, bookVars, flagVars

LEMMA ReturnKeeps ==
    ASSUME TypeOK, NEW t \in Threads, NEW here, Return(t, here)
    PROVE  /\ \E there \in {"idle", "force"} : Goto(t, here, there)
           /\ job' \in [Threads -> Job]
           /\ \A u \in Threads \ {t} : job'[u] = job[u]
BY NoJobIsJob DEF Return, TypeOK

\* A step that ends a handler or a convergence, and gives the lock back if it had it.
LEMMA ReturningKeeps ==
    ASSUME IInv, NEW t \in Threads, NEW here, Return(t, here),
           UNCHANGED <<targets, reason, misread>>, UNCHANGED flagVars, UNCHANGED bookVars,
           \/ UNCHANGED lock
           \/ here \in Critical /\ Unlock(t)
    PROVE  IInv'
<1> USE DEF IInv
<1>1. PICK there \in {"idle", "force"} : Goto(t, here, there)
    BY ReturnKeeps
<1>2. job' \in [Threads -> Job] /\ \A u \in Threads \ {t} : job'[u] = job[u]
    BY ReturnKeeps
<1>3. there \in Stages /\ there \notin Critical /\ there # "send"
    BY DEF Stages, Critical
<1>4. /\ targets' \in Maps /\ reason' \in Reasons /\ misread' \in SUBSET Instruments
      /\ lock' \in Threads \cup {Free}
    BY DEF TypeOK, Unlock
<1>5. TypeOK'
    BY <1>1, <1>2, <1>3, <1>4, TypesKept
<1> QED
    BY <1>1, <1>2, <1>3, <1>5, ThreadStepKeeps

LEMMA UpdateKeeps ==
    ASSUME IInv, NEW t \in Threads, Update(t)
    PROVE  IInv'
<1> USE DEF IInv
<1>1. job[t] \in Job /\ NoJob \in Job
    BY NoJobIsJob DEF TypeOK
<1>2. \E here : \E there \in {"version", "discard", "converge"} : Goto(t, here, there)
    BY DEF Update, SetTargets, SetVersion, DiscardAchieved
<1>3. PICK here, there : there \in {"version", "discard", "converge"} /\ Goto(t, here, there)
    BY <1>2
<1>4. /\ UNCHANGED bookVars /\ UNCHANGED flagVars /\ UNCHANGED lock
      /\ targets' \in Maps /\ reason' \in Reasons /\ misread' \in SUBSET Instruments
      /\ job' \in [Threads -> Job] /\ \A u \in Threads \ {t} : job'[u] = job[u]
    BY <1>1 DEF Update, SetTargets, SetVersion, DiscardAchieved, TypeOK, Job
<1>5. there \in Stages /\ there \notin Critical /\ there # "send"
    BY <1>3 DEF Stages, Critical
<1>6. TypeOK'
    BY <1>3, <1>4, <1>5, TypesKept DEF TypeOK
<1> QED
    BY <1>3, <1>4, <1>5, <1>6, ThreadStepKeeps

LEMMA EnterKeeps ==
    ASSUME IInv, NEW t \in Threads,
           EnterOrdinary(t) \/ EnterForced(t) \/ AcquireToRead(t)
    PROVE  IInv'
<1> USE DEF IInv
<1>1. PICK here, there : there \in {"look", "read"} /\ Goto(t, here, there)
    BY DEF EnterOrdinary, EnterForced, AcquireToRead
<1>2. /\ UNCHANGED bookVars /\ UNCHANGED flagVars /\ lock = Free /\ lock' = t
      /\ UNCHANGED <<targets, reason, misread>>
      /\ \A u \in Threads \ {t} : job'[u] = job[u]
    BY DEF EnterOrdinary, EnterForced, AcquireToRead, TypeOK, mapVars
<1>3. job' \in [Threads -> Job]
    <2>1. [job[t] EXCEPT !.forced = TRUE] \in Job
        BY DEF TypeOK, Job
    <2>2. job' = job \/ job' = [job EXCEPT ![t] = [job[t] EXCEPT !.forced = TRUE]]
        BY DEF EnterOrdinary, EnterForced, AcquireToRead
    <2> QED
        BY <2>1, <2>2 DEF TypeOK
<1>4. there \in Stages /\ there # "send"
    BY <1>1 DEF Stages
<1>5. TypeOK'
    BY <1>1, <1>2, <1>3, <1>4, TypesKept DEF TypeOK
<1> QED
    BY <1>1, <1>2, <1>4, <1>5, ThreadStepKeeps

LEMMA LookKeeps ==
    ASSUME IInv, NEW t \in Threads, Look(t)
    PROVE  IInv'
<1> USE DEF IInv
<1>1. Goto(t, "look", "send") /\ UNCHANGED bookVars /\ UNCHANGED flagVars
      /\ UNCHANGED <<targets, reason, misread>> /\ UNCHANGED lock
      /\ \A u \in Threads \ {t} : job'[u] = job[u]
    BY DEF Look, mapVars, TypeOK
<1>2. job'[t].plan = [i \in Instruments |-> Wanted(i)]
    BY DEF Look, TypeOK, Job
<1>3. [i \in Instruments |-> Wanted(i)] \in [Instruments -> Int]
    BY WantedFits
<1>4. job' \in [Threads -> Job]
    BY <1>3, ZenonT(60) DEF Look, TypeOK, Job
<1>5. PlanFits(t)'
    BY <1>1, <1>2, WantedFits DEF PlanFits, bookVars
<1>6. TypeOK'
    BY <1>1, <1>4, TypesKept DEF TypeOK, Stages
<1> QED
    BY <1>1, <1>5, <1>6, ThreadStepKeeps DEF Critical

\* The plan was decided under the lock, and only this thread could have traded since.
LEMMA SendKeeps ==
    ASSUME IInv, NEW t \in Threads, Send(t)
    PROVE  IInv'
<1> USE DEF IInv
<1>1. /\ Goto(t, "send", "judge") /\ UNCHANGED <<targets, reason, lock, held, today, canUse,
                                                lowered, misread>>
      /\ UNCHANGED flagVars
      /\ job' = [job EXCEPT ![t].plan = NoPlan]
      /\ working' = [i \in Instruments |-> working[i] + job[t].plan[i]]
    BY DEF Send, mapVars
<1>2. /\ job[t] \in Job /\ MaxShares \in Nat
      /\ \A i \in Instruments : /\ working[i] \in (0 - MaxShares) .. MaxShares
                               /\ held[i] \in 0 .. MaxShares
                               /\ job[t].plan[i] \in Int
    BY SharesAssumption DEF TypeOK, Job
<1>3. PlanFits(t)
    BY <1>1 DEF Goto, PlansFit
<1>4. \A i \in Instruments : /\ working'[i] \in (0 - MaxShares) .. MaxShares
                             /\ held[i] + working'[i] \in 0 .. MaxShares
    <2> SUFFICES ASSUME NEW i \in Instruments
                 PROVE  /\ working'[i] \in (0 - MaxShares) .. MaxShares
                        /\ held[i] + working'[i] \in 0 .. MaxShares
        OBVIOUS
    <2>1. working'[i] = working[i] + job[t].plan[i]
        BY <1>1
    <2>2. CASE job[t].plan[i] = 0
        BY <1>2, <2>1, <2>2 DEF WithinBooks
    <2>3. CASE job[t].plan[i] # 0
        BY <1>2, <1>3, <2>1, <2>3 DEF PlanFits
    <2> QED
        BY <2>2, <2>3
<1>5. job' \in [Threads -> Job]
    <2>1. [job[t] EXCEPT !.plan = NoPlan] \in Job
        BY <1>2 DEF Job, NoPlan
    <2>2. job' = [job EXCEPT ![t] = [job[t] EXCEPT !.plan = NoPlan]]
        BY <1>1
    <2> QED
        BY <2>1, <2>2 DEF TypeOK
<1>6. pc' \in [Threads -> Stages]
    BY <1>1 DEF Goto, TypeOK, Stages
<1>7. working' \in [Instruments -> (0 - MaxShares) .. MaxShares]
    BY <1>1, <1>4
<1>8. TypeOK'
    BY <1>1, <1>5, <1>6, <1>7 DEF TypeOK, Stages, flagVars
<1>9. WithinBooks' /\ BoughtIsHeld'
    BY <1>1, <1>4 DEF WithinBooks, BoughtIsHeld
<1>10. \A u \in Threads : pc'[u] = IF u = t THEN "judge" ELSE pc[u]
    BY <1>1 DEF Goto, TypeOK
<1>11. LockDiscipline'
    BY <1>1, <1>10 DEF LockDiscipline, Goto, Critical
<1>12. \A u \in Threads : pc'[u] # "send"
    BY <1>1, <1>10 DEF LockDiscipline, Goto, Critical
<1> QED
    BY <1>8, <1>9, <1>11, <1>12 DEF PlansFit

LEMMA CycleKeeps ==
    ASSUME IInv, NEW t \in Threads, Cycle(t)
    PROVE  IInv'
<1>1. CASE SkipAchieved(t) \/ JudgeNot(t) \/ MarkAchieved(t)
    <2>1. /\ UNCHANGED <<targets, reason, misread>> /\ UNCHANGED flagVars /\ UNCHANGED bookVars
          /\ Unlock(t)
          /\ \E here \in Critical : Return(t, here)
        BY <1>1 DEF SkipAchieved, JudgeNot, MarkAchieved, mapVars, Critical
    <2> QED
        BY <2>1, ReturningKeeps
<1>2. CASE Look(t)
    BY <1>2, LookKeeps
<1>3. CASE Send(t)
    BY <1>3, SendKeeps
<1>4. CASE JudgeAchieved(t)
    <2>1. /\ Goto(t, "judge", "mark") /\ UNCHANGED bookVars /\ UNCHANGED flagVars
          /\ UNCHANGED <<targets, reason, misread>> /\ UNCHANGED lock /\ UNCHANGED job
        BY <1>4 DEF JudgeAchieved, mapVars
    <2>2. TypeOK'
        BY <2>1, TypesKept DEF IInv, TypeOK, Stages
    <2> QED
        BY <2>1, <2>2, ThreadStepKeeps DEF Critical
<1> QED
    BY <1>1, <1>2, <1>3, <1>4 DEF Cycle

LEMMA StepKeeps ==
    ASSUME IInv, NEW t \in Threads, Step(t)
    PROVE  IInv'
<1>1. CASE SkipOrdinary(t)
    BY <1>1, ReturningKeeps DEF SkipOrdinary, mapVars
<1> QED
    BY <1>1, UpdateKeeps, EnterKeeps, CycleKeeps DEF Step

LEMMA RemainderFits ==
    ASSUME TypeOK, NEW i \in Instruments, canUse[i] # NoReport
    PROVE  Remainder(i) \in 0 .. MaxShares
<1>1. MaxShares \in Nat /\ held[i] \in 0 .. MaxShares /\ canUse[i] \in 0 .. MaxShares
    BY SharesAssumption DEF TypeOK
<1> QED
    BY <1>1 DEF Remainder

LEMMA SellStepKeeps ==
    ASSUME IInv, NEW c \in Requests, SellStep(c)
    PROVE  IInv'
<1> USE DEF IInv
<1>1. c \in Threads /\ job[c] \in Job /\ NoJob \in Job
    BY NoJobIsJob DEF Threads, TypeOK
<1>2. CASE AcquireToRead(c) \/ EnterForced(c)
    BY <1>1, <1>2, EnterKeeps
<1>3. CASE GiveUp(c) \/ SkipForced(c)
    <2>1. PICK here : Goto(c, here, "idle")
        BY <1>3 DEF GiveUp, SkipForced
    <2>2. /\ UNCHANGED bookVars /\ UNCHANGED flagVars /\ UNCHANGED lock
          /\ UNCHANGED <<targets, reason, misread>>
          /\ job' \in [Threads -> Job] /\ \A u \in Threads \ {c} : job'[u] = job[u]
        BY <1>1, <1>3 DEF GiveUp, SkipForced, mapVars, TypeOK
    <2>3. TypeOK'
        BY <1>1, <2>1, <2>2, TypesKept DEF TypeOK, Stages
    <2> QED
        BY <1>1, <2>1, <2>2, <2>3, ThreadStepKeeps DEF Critical
<1>4. CASE ReadBook(c)
    <2>1. PICK there \in {"idle", "apply"} : Goto(c, "read", there)
        BY <1>4 DEF ReadBook
    <2>2. /\ UNCHANGED bookVars /\ UNCHANGED flagVars /\ Unlock(c)
          /\ UNCHANGED <<targets, reason, misread>>
          /\ \A u \in Threads \ {c} : job'[u] = job[u]
        BY <1>1, <1>4 DEF ReadBook, Released, mapVars, TypeOK
    <2>3. job' \in [Threads -> Job]
        <3>1. SellMap(job[c].names, job[c].why) \in Maps
            BY RemainderFits, SharesAssumption DEF SellMap, Affected, Maps, TypeOK
        <3>2. Affected(job[c].names) \subseteq Instruments
            BY <1>1 DEF Affected, Job
        <3>3. [job[c] EXCEPT !.names = Affected(job[c].names),
                             !.map = SellMap(job[c].names, job[c].why),
                             !.misread = Affected(job[c].names) \cap lowered] \in Job
            BY <1>1, <3>1, <3>2 DEF Job
        <3>4. \/ job' = [job EXCEPT ![c] = NoJob]
              \/ job' = [job EXCEPT ![c] = [job[c] EXCEPT
                              !.names = Affected(job[c].names),
                              !.map = SellMap(job[c].names, job[c].why),
                              !.misread = Affected(job[c].names) \cap lowered]]
            BY <1>4 DEF ReadBook
        <3> QED
            BY <1>1, <3>3, <3>4 DEF TypeOK
    <2>4. there \in Stages /\ there \notin Critical /\ there # "send"
        BY DEF Stages, Critical
    <2>5. TypeOK'
        BY <1>1, <2>1, <2>2, <2>3, <2>4, TypesKept DEF TypeOK, Unlock
    <2> QED
        BY <1>1, <2>1, <2>2, <2>4, <2>5, ThreadStepKeeps DEF Critical
<1>5. CASE Apply(c)
    <2>1. PICK there \in {"force", "update"} : Goto(c, "apply", there)
        BY <1>5 DEF Apply
    <2>2. /\ UNCHANGED bookVars /\ UNCHANGED flagVars /\ UNCHANGED lock
          /\ UNCHANGED <<targets, reason, misread>> /\ UNCHANGED job
        BY <1>5 DEF Apply, mapVars
    <2>3. there \in Stages /\ there \notin Critical /\ there # "send"
        BY DEF Stages, Critical
    <2>4. TypeOK'
        BY <1>1, <2>1, <2>2, <2>3, TypesKept DEF TypeOK
    <2> QED
        BY <1>1, <2>1, <2>2, <2>3, <2>4, ThreadStepKeeps
<1> QED
    BY <1>2, <1>3, <1>4, <1>5 DEF SellStep

\* A request that begins: a refresh on the loop, a sell on a thread of the server.
LEMMA RequestKeeps ==
    ASSUME IInv, NEW t \in Threads, NEW there \in {"update", "acquire"},
           Goto(t, "idle", there), NEW j \in Job, job' = [job EXCEPT ![t] = j],
           UNCHANGED <<mapVars, flagVars, lock, bookVars>>
    PROVE  IInv'
<1>1. /\ UNCHANGED bookVars /\ UNCHANGED flagVars /\ UNCHANGED lock
      /\ UNCHANGED <<targets, reason, misread>>
      /\ job' \in [Threads -> Job] /\ \A u \in Threads \ {t} : job'[u] = job[u]
    BY DEF mapVars, IInv, TypeOK
<1>2. there \in Stages /\ there \notin Critical /\ there # "send"
    BY DEF Stages, Critical
<1>3. TypeOK'
    BY <1>1, <1>2, TypesKept DEF IInv, TypeOK
<1> QED
    BY <1>1, <1>2, <1>3, ThreadStepKeeps

LEMMA RefreshKeeps ==
    ASSUME IInv, NEW m \in RefreshMaps, Refresh(m)
    PROVE  IInv'
<1>1. Loop \in Threads /\ job[Loop] \in Job
    BY DEF Threads, IInv, TypeOK
<1>2. [job[Loop] EXCEPT !.map = m, !.why = "refresh"] \in Job
    BY <1>1, SharesAssumption DEF Job, Reasons
<1>3. job' = [job EXCEPT ![Loop] = [job[Loop] EXCEPT !.map = m, !.why = "refresh"]]
    BY DEF Refresh
<1>4. Goto(Loop, "idle", "update") /\ UNCHANGED <<mapVars, flagVars, lock, bookVars>>
    BY DEF Refresh
<1> QED
    BY <1>1, <1>2, <1>3, <1>4, RequestKeeps

LEMMA RequestSellKeeps ==
    ASSUME IInv, NEW c \in Requests, NEW names \in SUBSET Instruments,
           NEW why \in Reasons, RequestSell(c, names, why)
    PROVE  IInv'
<1>1. c \in Threads /\ job[c] \in Job
    BY DEF Threads, IInv, TypeOK
<1>2. [job[c] EXCEPT !.names = names, !.why = why] \in Job
    BY <1>1 DEF Job
<1>3. job' = [job EXCEPT ![c] = [job[c] EXCEPT !.names = names, !.why = why]]
    BY DEF RequestSell
<1>4. Goto(c, "idle", "acquire") /\ UNCHANGED <<mapVars, flagVars, lock, bookVars>>
    BY DEF RequestSell
<1> QED
    BY <1>1, <1>2, <1>3, <1>4, RequestKeeps

LEMMA SwitchKeeps ==
    ASSUME IInv, SetPaused \/ SetTargetUpdatesPaused
    PROVE  IInv'
<1>1. UNCHANGED <<mapVars, lock, pc, job, bookVars>>
    BY DEF SetPaused, SetTargetUpdatesPaused
<1>2. paused' \in BOOLEAN /\ updatesPaused' \in BOOLEAN
    BY DEF SetPaused, SetTargetUpdatesPaused, IInv, TypeOK
<1> QED
    BY <1>1, <1>2 DEF IInv, TypeOK, WithinBooks, LockDiscipline, PlansFit, PlanFits,
                      BoughtIsHeld, mapVars, bookVars

\* A broker event touches only what is at work, so no plan decided meanwhile is spoilt.
LEMMA BrokerStepKeeps ==
    ASSUME IInv, NEW i \in Instruments,
           UNCHANGED <<mapVars, flagVars, lock, pc, job, canUse, lowered>>,
           working[i] # 0,
           NEW h \in 0 .. MaxShares, NEW d \in 0 .. MaxShares, NEW w \in Int,
           held' = [held EXCEPT ![i] = h], today' = [today EXCEPT ![i] = d],
           working' = [working EXCEPT ![i] = w],
           h + w \in 0 .. MaxShares, d <= h
    PROVE  IInv'
<1> USE DEF IInv
<1>1. MaxShares \in Nat /\ w \in (0 - MaxShares) .. MaxShares
    BY SharesAssumption
<1>2. /\ held' \in [Instruments -> 0 .. MaxShares]
      /\ today' \in [Instruments -> 0 .. MaxShares]
      /\ working' \in [Instruments -> (0 - MaxShares) .. MaxShares]
    BY <1>1 DEF TypeOK
<1>3. TypeOK'
    BY <1>2 DEF TypeOK, mapVars, flagVars
<1>4. WithinBooks' /\ BoughtIsHeld'
    BY DEF WithinBooks, BoughtIsHeld, TypeOK
<1>5. LockDiscipline'
    BY DEF LockDiscipline
<1>6. PlansFit'
    BY DEF PlansFit, PlanFits, TypeOK
<1> QED
    BY <1>3, <1>4, <1>5, <1>6

LEMMA FillKeeps ==
    ASSUME IInv, NEW i \in Instruments, NEW q \in 1 .. MaxShares, Fill(i, q)
    PROVE  IInv'
<1>1. /\ MaxShares \in Nat /\ held[i] \in 0 .. MaxShares /\ today[i] \in 0 .. MaxShares
      /\ working[i] \in Int /\ held[i] + working[i] \in 0 .. MaxShares
      /\ today[i] <= held[i]
    BY SharesAssumption DEF IInv, TypeOK, WithinBooks, BoughtIsHeld
<1>2. UNCHANGED <<mapVars, flagVars, lock, pc, job, canUse, lowered>>
    BY DEF Fill
<1>3. CASE q \in 1 .. working[i] /\ held' = [held EXCEPT ![i] = held[i] + q]
           /\ today' = [today EXCEPT ![i] = today[i] + q]
           /\ working' = [working EXCEPT ![i] = working[i] - q]
    <2>1. /\ held[i] + q \in 0 .. MaxShares /\ today[i] + q \in 0 .. MaxShares
          /\ working[i] - q \in Int /\ working[i] # 0
          /\ held[i] + q + (working[i] - q) \in 0 .. MaxShares
          /\ today[i] + q <= held[i] + q
        BY <1>1, <1>3
    <2> QED
        BY <1>2, <1>3, <2>1, BrokerStepKeeps
<1>4. CASE q \in 1 .. (0 - working[i]) /\ q <= held[i] - today[i]
           /\ held' = [held EXCEPT ![i] = held[i] - q]
           /\ working' = [working EXCEPT ![i] = working[i] + q]
           /\ UNCHANGED today
    <2>1. /\ held[i] - q \in 0 .. MaxShares
          /\ working[i] + q \in Int /\ working[i] # 0
          /\ held[i] - q + (working[i] + q) \in 0 .. MaxShares
          /\ today[i] <= held[i] - q
        BY <1>1, <1>4
    <2>2. today' = [today EXCEPT ![i] = today[i]]
        BY <1>4 DEF IInv, TypeOK
    <2> QED
        BY <1>1, <1>2, <1>4, <2>1, <2>2, BrokerStepKeeps
<1> QED
    BY <1>3, <1>4 DEF Fill

LEMMA DropKeeps ==
    ASSUME IInv, NEW i \in Instruments, Drop(i)
    PROVE  IInv'
<1>1. /\ held[i] \in 0 .. MaxShares /\ today[i] \in 0 .. MaxShares
      /\ held[i] + 0 \in 0 .. MaxShares /\ today[i] <= held[i] /\ 0 \in Int
    BY SharesAssumption DEF IInv, TypeOK, BoughtIsHeld
<1>2. /\ UNCHANGED <<mapVars, flagVars, lock, pc, job, canUse, lowered>> /\ working[i] # 0
      /\ held' = [held EXCEPT ![i] = held[i]] /\ today' = [today EXCEPT ![i] = today[i]]
      /\ working' = [working EXCEPT ![i] = 0]
    BY DEF Drop, IInv, TypeOK
<1> DEFINE h == held[i]
           d == today[i]
<1>3. h \in 0 .. MaxShares /\ d \in 0 .. MaxShares /\ h + 0 \in 0 .. MaxShares /\ d <= h
    BY <1>1
<1>4. held' = [held EXCEPT ![i] = h] /\ today' = [today EXCEPT ![i] = d]
    BY <1>2
<1> HIDE DEF h, d
<1> QED
    BY <1>1, <1>2, <1>3, <1>4, BrokerStepKeeps, Zenon

LEMMA MassStatusKeeps ==
    ASSUME IInv, MassStatus
    PROVE  IInv'
<1>1. UNCHANGED <<mapVars, flagVars, lock, pc, job, held, working, today>>
    BY DEF MassStatus
<1>2. ASSUME NEW i \in Instruments
      PROVE  held[i] - today[i] - Frozen(i) \in 0 .. MaxShares
    <2>1. /\ MaxShares \in Nat /\ held[i] \in 0 .. MaxShares
          /\ today[i] \in 0 .. MaxShares /\ working[i] \in Int /\ today[i] <= held[i]
        BY SharesAssumption DEF IInv, TypeOK, BoughtIsHeld
    <2> QED
        BY <2>1 DEF Frozen
<1>3. /\ canUse' \in [Instruments -> 0 .. MaxShares \cup {NoReport}]
      /\ lowered' \in SUBSET Instruments
    BY <1>2 DEF MassStatus
<1> QED
    BY <1>1, <1>3 DEF IInv, TypeOK, WithinBooks, LockDiscipline, PlansFit, PlanFits,
                      BoughtIsHeld, mapVars, flagVars

LEMMA NextKeeps == IInv /\ [Next]_vars => IInv'
<1> SUFFICES ASSUME IInv, [Next]_vars PROVE IInv'
    OBVIOUS
<1>1. CASE \E m \in RefreshMaps : Refresh(m)
    BY <1>1, RefreshKeeps
<1>2. CASE EnterOrdinary(Loop)
    BY <1>2, EnterKeeps DEF Threads
<1>3. CASE \E t \in Threads : Step(t)
    BY <1>3, StepKeeps
<1>4. CASE \E c \in Requests : SellStep(c)
    BY <1>4, SellStepKeeps
<1>5. CASE Operators
    <2>1. /\ "manual_sell" \in Reasons /\ "manual_sell_all" \in Reasons
          /\ Instruments \in SUBSET Instruments
          /\ \A i \in Instruments : {i} \in SUBSET Instruments
        BY DEF Reasons
    <2>2. CASE SetPaused \/ SetTargetUpdatesPaused
        BY <2>2, SwitchKeeps
    <2>3. CASE \E c \in Requests : \E names \in SUBSET Instruments, why \in Reasons :
                   RequestSell(c, names, why)
        BY <2>3, RequestSellKeeps
    <2> QED
        BY <1>5, <2>1, <2>2, <2>3 DEF Operators
<1>6. CASE Broker
    BY <1>6, FillKeeps, DropKeeps, MassStatusKeeps DEF Broker
<1>7. CASE UNCHANGED vars
    BY <1>7 DEF vars, mapVars, flagVars, bookVars, IInv, TypeOK, WithinBooks,
                LockDiscipline, PlansFit, PlanFits, BoughtIsHeld
<1> QED
    BY <1>1, <1>2, <1>3, <1>4, <1>5, <1>6, <1>7 DEF Next

\* Whatever the threads of the server and the loop do together, what is at work never
\* sells more than is held nor buys past the largest target: one lock around cycles
\* is enough for that, though not for the target map itself.
THEOREM ControlSafe == Spec => [](TypeOK /\ WithinBooks)
<1>1. IInv => TypeOK /\ WithinBooks
    BY DEF IInv
<1> QED
    BY InitIInv, NextKeeps, <1>1, PTL DEF Spec

(***************************************************************************)
(* A sell-all buys nothing.  What it leaves of a holding is what the last  *)
(* mass status did not let it sell.  Where no open sell had shares frozen  *)
(* in that status, that is no more than what was bought today, and what    *)
(* was bought today is still held; lowered and misread carry the names     *)
(* where one had, from the status to the map.                              *)
(***************************************************************************)
SellAllMap(m, out) == \A i \in Instruments \ out : m[i] <= today[i]

SellAllInv ==
    /\ \A i \in Instruments \ lowered :
          canUse[i] # NoReport => held[i] - canUse[i] <= today[i]
    /\ reason = "manual_sell_all" => SellAllMap(targets, misread)
    /\ \A t \in Threads :
          pc[t] \in {"apply", "update"} /\ job[t].why = "manual_sell_all"
              => SellAllMap(job[t].map, job[t].misread)

\* The books' part is disturbed by fills and mass statuses only.
LEMMA BooksKeepSellAll ==
    ASSUME IInv, SellAllInv,
           \/ \E i \in Instruments : Drop(i) \/ \E q \in 1 .. MaxShares : Fill(i, q)
           \/ MassStatus
    PROVE  SellAllInv'
<1> USE DEF IInv
<1>1. UNCHANGED <<targets, reason, misread, pc, job>>
    BY DEF Drop, Fill, MassStatus, mapVars
<1>2. ASSUME NEW i \in Instruments
      PROVE  /\ today[i] \in Nat /\ today'[i] \in Nat /\ today[i] <= today'[i]
             /\ i \notin lowered' /\ canUse'[i] # NoReport
                    => held'[i] - canUse'[i] <= today'[i]
    <2>1. /\ held[i] \in 0 .. MaxShares /\ today[i] \in 0 .. MaxShares
          /\ working[i] \in (0 - MaxShares) .. MaxShares /\ MaxShares \in Nat
          /\ canUse[i] \in 0 .. MaxShares \cup {NoReport}
          /\ i \notin lowered /\ canUse[i] # NoReport => held[i] - canUse[i] <= today[i]
        BY SharesAssumption DEF TypeOK, SellAllInv
    <2>2. CASE \E j \in Instruments : Drop(j)
        BY <2>1, <2>2 DEF Drop
    <2>3. ASSUME NEW j \in Instruments, NEW q \in 1 .. MaxShares, Fill(j, q)
          PROVE  /\ today'[i] \in Nat /\ today[i] <= today'[i]
                 /\ i \notin lowered' /\ canUse'[i] # NoReport
                        => held'[i] - canUse'[i] <= today'[i]
        BY <2>1, <2>3 DEF Fill, TypeOK, NoReport
    <2>4. CASE MassStatus
        <3>1. i \notin lowered' => Frozen(i) = 0
            <4>1. Frozen(i) = 0 \/ Frozen(i) > 0
                BY <2>1 DEF Frozen
            <4> QED
                BY <2>4, <4>1 DEF MassStatus
        <3> QED
            BY <2>1, <2>4, <3>1 DEF MassStatus, NoReport
    <2> QED
        BY <2>1, <2>2, <2>3, <2>4
<1>3. ASSUME NEW m \in Maps, NEW out, SellAllMap(m, out)
      PROVE  \A i \in Instruments \ out : m[i] <= today'[i]
    <2> SUFFICES ASSUME NEW i \in Instruments \ out PROVE m[i] <= today'[i]
        BY DEF SellAllMap
    <2>1. m[i] \in Int /\ m[i] <= today[i]
        BY <1>3, SharesAssumption DEF SellAllMap, Maps, NoTarget
    <2> QED
        BY <2>1, <1>2
<1>4. targets \in Maps /\ \A t \in Threads : job[t].map \in Maps
    BY DEF TypeOK, Job
<1>5. reason' = "manual_sell_all" => SellAllMap(targets, misread)'
    BY <1>1, <1>3, <1>4 DEF SellAllInv, SellAllMap
<1>6. \A t \in Threads :
          pc'[t] \in {"apply", "update"} /\ job'[t].why = "manual_sell_all"
              => SellAllMap(job[t].map, job[t].misread)'
    BY <1>1, <1>3, <1>4 DEF SellAllInv, SellAllMap
<1>7. \A i \in Instruments \ lowered' :
          canUse'[i] # NoReport => held'[i] - canUse'[i] <= today'[i]
    BY <1>2
<1> QED
    BY <1>1, <1>5, <1>6, <1>7 DEF SellAllInv, SellAllMap

\* A step of a thread that leaves books and map alone and comes to no map of a sell-all
\* it has not computed.
LEMMA ThreadKeepsSellAll ==
    ASSUME IInv, SellAllInv, NEW t \in Threads, NEW here, NEW there,
           Goto(t, here, there), UNCHANGED bookVars,
           \A u \in Threads \ {t} : job'[u] = job[u],
           \/ UNCHANGED <<targets, reason, misread>>
           \/ /\ reason' = job[t].why /\ targets' = job[t].map /\ here = "update"
              /\ misread' = job[t].misread,
           \/ there \notin {"apply", "update"}
           \/ job'[t].why # "manual_sell_all"
           \/ SellAllMap(job'[t].map, job'[t].misread)
    PROVE  SellAllInv'
<1>1. \A u \in Threads : pc'[u] = IF u = t THEN there ELSE pc[u]
    BY DEF Goto, IInv, TypeOK
<1>2. here = pc[t] /\ t \in Threads
    BY DEF Goto
<1>3. UNCHANGED <<held, today, canUse, lowered>>
    BY DEF bookVars
<1>4. reason' = "manual_sell_all" => SellAllMap(targets, misread)'
    BY <1>2, <1>3 DEF SellAllInv, SellAllMap
<1>5. ASSUME NEW u \in Threads, pc'[u] \in {"apply", "update"},
             job'[u].why = "manual_sell_all"
      PROVE  SellAllMap(job[u].map, job[u].misread)'
    <2>1. CASE u = t
        BY <1>1, <1>3, <1>5, <2>1 DEF SellAllMap
    <2>2. CASE u # t
        BY <1>1, <1>3, <1>5, <2>2 DEF SellAllInv, SellAllMap
    <2> QED
        BY <2>1, <2>2
<1> QED
    BY <1>3, <1>4, <1>5 DEF SellAllInv, SellAllMap

LEMMA NextKeepsSellAll ==
    ASSUME IInv, SellAllInv, [Next]_vars
    PROVE  SellAllInv'
<1>1. job \in [Threads -> Job] /\ pc \in [Threads -> Stages] /\ Loop \in Threads
      /\ Requests \subseteq Threads
    BY DEF IInv, TypeOK, Stages, Threads
<1>2. CASE Broker
    BY <1>2, BooksKeepSellAll DEF Broker
<1>3. ASSUME NEW m \in RefreshMaps, Refresh(m)
      PROVE  SellAllInv'
    <2>1. /\ Goto(Loop, "idle", "update") /\ UNCHANGED bookVars
          /\ UNCHANGED <<targets, reason, misread>>
          /\ \A u \in Threads \ {Loop} : job'[u] = job[u]
          /\ job'[Loop].why # "manual_sell_all"
        BY <1>1, <1>3 DEF Refresh, mapVars, Job
    <2> QED
        BY <1>1, <2>1, ThreadKeepsSellAll
<1>4. ASSUME NEW t \in Threads, Update(t)
      PROVE  SellAllInv'
    <2>1. CASE SetTargets(t)
        BY <2>1, ThreadKeepsSellAll DEF SetTargets
    <2>2. CASE SetVersion(t)
        BY <2>2, ThreadKeepsSellAll DEF SetVersion
    <2>3. CASE DiscardAchieved(t)
        <3>1. \A u \in Threads \ {t} : job'[u] = job[u]
            BY <1>1, <2>3 DEF DiscardAchieved
        <3> QED
            BY <2>3, <3>1, ThreadKeepsSellAll DEF DiscardAchieved
    <2> QED
        BY <1>4, <2>1, <2>2, <2>3 DEF Update
<1>5. ASSUME NEW t \in Threads,
             \/ SkipOrdinary(t) \/ EnterOrdinary(t) \/ Cycle(t)
      PROVE  SellAllInv'
    <2>1. CASE \E here : Return(t, here) /\ UNCHANGED <<targets, reason, misread, bookVars>>
        <3>1. PICK here : Return(t, here) /\ UNCHANGED <<targets, reason, misread, bookVars>>
            BY <2>1
        <3>2. PICK there \in {"idle", "force"} : Goto(t, here, there)
            BY <3>1 DEF Return
        <3>3. \A u \in Threads \ {t} : job'[u] = job[u]
            BY <1>1, <3>1 DEF Return
        <3>4. there \notin {"apply", "update"}
            BY <3>2
        <3>5. UNCHANGED bookVars /\ UNCHANGED <<targets, reason, misread>>
            BY <3>1
        <3> QED
            BY <3>2, <3>3, <3>4, <3>5, ThreadKeepsSellAll
    <2>2. CASE EnterOrdinary(t) \/ Look(t) \/ JudgeAchieved(t)
        <3>1. /\ \E here, there : Goto(t, here, there) /\ there \notin {"apply", "update"}
              /\ UNCHANGED bookVars /\ UNCHANGED <<targets, reason, misread>>
              /\ \A u \in Threads \ {t} : job'[u] = job[u]
            BY <1>1, <2>2 DEF EnterOrdinary, Look, JudgeAchieved, mapVars
        <3> QED
            BY <3>1, ThreadKeepsSellAll
    <2>3. CASE Send(t)
        <3>1. pc' = [pc EXCEPT ![t] = "judge"] /\ job' = [job EXCEPT ![t].plan = NoPlan]
              /\ UNCHANGED <<targets, reason, misread, held, today, canUse, lowered>>
            BY <2>3 DEF Send, Goto, mapVars
        <3> QED
            BY <1>1, <3>1 DEF SellAllInv, SellAllMap
    <2> QED
        BY <1>5, <2>1, <2>2, <2>3 DEF SkipOrdinary, Cycle, SkipAchieved, JudgeNot,
                                      MarkAchieved, mapVars
<1>6. ASSUME NEW c \in Requests, SellStep(c)
      PROVE  SellAllInv'
    <2>1. CASE AcquireToRead(c) \/ GiveUp(c) \/ EnterForced(c) \/ SkipForced(c)
        <3>1. /\ \E here, there : Goto(c, here, there) /\ there \notin {"apply", "update"}
              /\ UNCHANGED bookVars /\ UNCHANGED <<targets, reason, misread>>
              /\ \A u \in Threads \ {c} : job'[u] = job[u]
            BY <1>1, <2>1 DEF AcquireToRead, GiveUp, EnterForced, SkipForced, mapVars
        <3> QED
            BY <1>1, <3>1, ThreadKeepsSellAll
    <2>2. CASE ReadBook(c)
        <3>1. UNCHANGED bookVars /\ UNCHANGED <<targets, reason, misread>>
            BY <2>2 DEF ReadBook, mapVars
        <3>3. CASE Goto(c, "read", "idle") /\ job' = [job EXCEPT ![c] = NoJob]
            <4>1. \A u \in Threads \ {c} : job'[u] = job[u]
                BY <1>1, <3>3
            <4> QED
                BY <1>1, <3>1, <3>3, <4>1, ThreadKeepsSellAll
        <3>2. SellAllMap(SellMap(job[c].names, "manual_sell_all"),
                         Affected(job[c].names) \cap lowered)
            <4> SUFFICES ASSUME NEW i \in Instruments \ (Affected(job[c].names) \cap lowered)
                         PROVE  SellMap(job[c].names, "manual_sell_all")[i] <= today[i]
                BY DEF SellAllMap
            <4>1. held[i] \in 0 .. MaxShares /\ today[i] \in 0 .. MaxShares
                  /\ canUse[i] \in 0 .. MaxShares \cup {NoReport} /\ MaxShares \in Nat
                BY SharesAssumption DEF IInv, TypeOK
            <4>2. i \notin lowered /\ canUse[i] # NoReport => Remainder(i) <= today[i]
                BY <4>1 DEF SellAllInv, Remainder, NoReport
            <4> QED
                BY <4>1, <4>2 DEF SellMap, Affected, NoTarget
        <3>4. ASSUME NEW affected, Goto(c, "read", "apply"),
                     affected = Affected(job[c].names),
                     job' = [job EXCEPT ![c].names = affected,
                                        ![c].map = SellMap(job[c].names, job[c].why),
                                        ![c].misread = affected \cap lowered]
              PROVE  SellAllInv'
            <4>1. /\ job'[c].map = SellMap(job[c].names, job[c].why)
                  /\ job'[c].why = job[c].why
                  /\ job'[c].misread = Affected(job[c].names) \cap lowered
                  /\ \A u \in Threads \ {c} : job'[u] = job[u]
                BY <1>1, <3>4 DEF Job
            <4>2. \/ job'[c].why # "manual_sell_all"
                  \/ SellAllMap(job'[c].map, job'[c].misread)
                BY <3>2, <4>1
            <4> QED
                BY <1>1, <3>1, <3>4, <4>1, <4>2, ThreadKeepsSellAll
        <3> QED
            BY <2>2, <3>3, <3>4 DEF ReadBook
    <2>3. CASE Apply(c)
        <3>1. \E there : Goto(c, "apply", there) /\ there \in {"force", "update"}
            BY <2>3 DEF Apply
        <3>2. UNCHANGED bookVars /\ UNCHANGED <<targets, reason, misread, job>>
            BY <2>3 DEF Apply, mapVars
        <3>3. job[c].why = "manual_sell_all" => SellAllMap(job[c].map, job[c].misread)
            BY <1>1, <3>1 DEF SellAllInv, Goto
        <3> QED
            BY <1>1, <3>1, <3>2, <3>3, ThreadKeepsSellAll
    <2> QED
        BY <1>6, <2>1, <2>2, <2>3 DEF SellStep
<1>7. CASE Operators
    <2>1. CASE SetPaused \/ SetTargetUpdatesPaused
        BY <2>1 DEF SetPaused, SetTargetUpdatesPaused, SellAllInv, SellAllMap, mapVars,
                    bookVars
    <2>2. ASSUME NEW c \in Requests, NEW names, NEW why, RequestSell(c, names, why)
          PROVE  SellAllInv'
        <3>1. /\ Goto(c, "idle", "acquire") /\ UNCHANGED bookVars
              /\ UNCHANGED <<targets, reason, misread>>
              /\ \A u \in Threads \ {c} : job'[u] = job[u]
            BY <1>1, <2>2 DEF RequestSell, mapVars
        <3> QED
            BY <1>1, <3>1, ThreadKeepsSellAll
    <2> QED
        BY <1>7, <2>1, <2>2 DEF Operators
<1>8. CASE UNCHANGED vars
    BY <1>8 DEF vars, mapVars, bookVars, SellAllInv, SellAllMap
<1> QED
    BY <1>1, <1>2, <1>3, <1>4, <1>5, <1>6, <1>7, <1>8 DEF Next, Step

\* A thread comes to send from its look at the book only.
LEMMA OnlyLooks ==
    ASSUME TypeOK, [Next]_vars, NEW t \in Threads, pc[t] = "look", pc'[t] = "send"
    PROVE  Look(t)
<1>1. pc \in [Threads -> Stages] /\ Loop \in Threads /\ Requests \subseteq Threads
    BY DEF TypeOK, Stages, Threads
<1>2. SUFFICES ASSUME ~Look(t) PROVE FALSE
    OBVIOUS
<1>3. CASE \E u \in Threads : \E here, there : Goto(u, here, there) /\ there # "send"
    BY <1>1, <1>3 DEF Goto
<1>4. CASE pc' = pc
    BY <1>4
<1>5. CASE \E u \in Threads : Look(u)
    BY <1>1, <1>2, <1>5 DEF Look, Goto
<1>6. ASSUME NEW u \in Threads, Step(u)
      PROVE  FALSE
    <2>1. ASSUME NEW here, Return(u, here) PROVE FALSE
        BY <1>3, <2>1 DEF Return
    <2>2. CASE Update(u) \/ EnterOrdinary(u) \/ Send(u) \/ JudgeAchieved(u)
        BY <1>3, <2>2 DEF Update, SetTargets, SetVersion, DiscardAchieved, EnterOrdinary,
                          Send, JudgeAchieved
    <2>3. CASE SkipOrdinary(u) \/ SkipAchieved(u) \/ JudgeNot(u) \/ MarkAchieved(u)
        BY <2>1, <2>3 DEF SkipOrdinary, SkipAchieved, JudgeNot, MarkAchieved
    <2> QED
        BY <1>5, <1>6, <2>2, <2>3 DEF Step, Cycle
<1>7. ASSUME NEW c \in Requests, SellStep(c)
      PROVE  FALSE
    <2>1. \E here, there : Goto(c, here, there) /\ there # "send"
        BY <1>7 DEF SellStep, AcquireToRead, GiveUp, ReadBook, Apply, EnterForced, SkipForced
    <2> QED
        BY <1>1, <1>3, <2>1
<1>8. CASE (\E m \in RefreshMaps : Refresh(m)) \/ EnterOrdinary(Loop)
    <2>1. \/ Goto(Loop, "idle", "update")
          \/ \E here : Goto(Loop, here, "look")
        BY <1>8 DEF Refresh, EnterOrdinary
    <2> QED
        BY <1>1, <1>3, <2>1
<1>9. CASE Operators
    <2>1. CASE SetPaused \/ SetTargetUpdatesPaused
        BY <1>4, <2>1 DEF SetPaused, SetTargetUpdatesPaused
    <2>2. ASSUME NEW c \in Requests, NEW names, NEW why, RequestSell(c, names, why)
          PROVE  FALSE
        BY <1>1, <1>3, <2>2 DEF RequestSell
    <2> QED
        BY <1>9, <2>1, <2>2 DEF Operators
<1>10. CASE Broker
    <2>1. ASSUME NEW i \in Instruments, NEW q, Fill(i, q) PROVE FALSE
        BY <1>4, <2>1 DEF Fill
    <2>2. CASE MassStatus \/ \E i \in Instruments : Drop(i)
        BY <1>4, <2>2 DEF MassStatus, Drop
    <2> QED
        BY <1>10, <2>1, <2>2 DEF Broker
<1>11. CASE UNCHANGED vars
    BY <1>4, <1>11 DEF vars
<1> QED
    BY <1>6, <1>7, <1>8, <1>9, <1>10, <1>11 DEF Next

LEMMA InitSellAll == Init => SellAllInv
BY SharesAssumption DEF Init, NoPlan, SellAllInv, SellAllMap, NoReport

\* While the map in force is a sell-all's, no cycle of any thread decides to buy, whatever
\* is filled, dropped, bought, reported or asked for in between: but for the names whose
\* sellable shares the sell read from a mass status taken while a sell had some frozen.
THEOREM SellAllSafe == Spec => SellAllNeverBuys
<1>1. Init => IInv /\ SellAllInv
    BY InitIInv, InitSellAll
<1>2. IInv /\ SellAllInv /\ [Next]_vars => (IInv /\ SellAllInv)'
    BY NextKeeps, NextKeepsSellAll
<1>3. ASSUME IInv, SellAllInv, reason = "manual_sell_all",
             NEW i \in Instruments \ misread
      PROVE  Wanted(i) <= 0
    <2>1. /\ held[i] \in 0 .. MaxShares /\ today[i] \in 0 .. MaxShares
          /\ canUse[i] \in 0 .. MaxShares \cup {NoReport} /\ MaxShares \in Nat
          /\ targets[i] \in 0 .. MaxShares \cup {NoTarget}
        BY <1>3, SharesAssumption DEF IInv, TypeOK, Maps
    <2>2. targets[i] <= today[i] /\ today[i] <= held[i]
        BY <1>3 DEF SellAllInv, SellAllMap, IInv, BoughtIsHeld
    <2>3. Sellable(i) \in Nat
        BY <2>1, <2>2 DEF Sellable, NoReport
    <2> QED
        BY <2>1, <2>2, <2>3 DEF Wanted, Desired, Least, NoTarget
<1>4. ASSUME IInv, SellAllInv, [Next]_vars, reason = "manual_sell_all",
             NEW t \in Threads, CycleLooks(t), NEW i \in Instruments \ misread
      PROVE  job'[t].plan[i] <= 0
    <2>1. Look(t)
        BY <1>4, OnlyLooks DEF CycleLooks, IInv
    <2>2. job'[t].plan[i] = Wanted(i)
        BY <1>4, <2>1 DEF Look, IInv, TypeOK, Job
    <2> QED
        BY <1>3, <1>4, <2>2
<1>5. IInv /\ SellAllInv /\ [Next]_vars
        => [reason = "manual_sell_all" =>
              \A t \in Threads : CycleLooks(t) =>
                  \A i \in Instruments \ misread : job'[t].plan[i] <= 0]_vars
    BY <1>4
<1> QED
    BY <1>1, <1>2, <1>5, PTL DEF Spec, SellAllNeverBuys
=============================================================================
