---------------------------- MODULE TargetExecutor ----------------------------
(***************************************************************************)
(* The convergence engine of src/strategies/target_quantities.py: it holds *)
(* the day's target share counts, compares them with the net position, and *)
(* works the difference off through limit orders at the broker.            *)
(*                                                                         *)
(* Two parties act.  The node loop runs the strategy: every handler and    *)
(* every convergence cycle is one action, since the loop is one thread.    *)
(* The broker accepts, fills, cancels and rejects, and reports its account *)
(* late; what it really holds (held, vcash, avail) is kept apart from what *)
(* the strategy believes (pos, cash, canUse).                              *)
(*                                                                         *)
(* A wave (what one cycle sends for one instrument) is one order: the      *)
(* splitter cuts a wave into slices only above a notional cap.  Prices are *)
(* constant: the pricers decide at what price, never whether or how much.  *)
(***************************************************************************)
EXTENDS Integers, FiniteSets, FiniteSetsExt

CONSTANTS
    Instruments,     \* instrument ids; numbers, so that the sorted order of the dicts is <
    Price,           \* [Instruments -> Nat]: limit price of a share
    TargetMaps,      \* the target maps the planner may deliver
    ExitNonTargets,  \* config.exit_non_targets
    BufferPercent,   \* config.cash_buffer_percent, in percent
    InitHeld,        \* [Instruments -> Nat]: holdings at the start of the run
    InitCash,        \* available cash at the broker at the start of the run
    Cancels,         \* the sides whose orders time out or are cancelled by the broker
    Restarts,        \* the node may restart
    Days,            \* a new trading day may begin
    RacingFillQueued,  \* a fill racing a cancel is enqueued right behind it
    StatusMidSell    \* a mass status may arrive while sells freeze shares

NoTarget  == -1      \* the map has no entry for the instrument
NoReport  == -1      \* the broker has not reported the instrument's sellable shares
NoCash    == -1      \* no account state yet
NoVersion == <<>>

ASSUME InstrumentsAssumption ==
    /\ Instruments \subseteq Nat
    /\ IsFiniteSet(Instruments)

\* A pricer gives no price that is not positive (_positive); an instrument without a price
\* is a choice of the cycle.
ASSUME ConfigAssumption ==
    /\ Price \in [Instruments -> Nat \ {0}]
    /\ TargetMaps \subseteq [Instruments -> Nat \cup {NoTarget}]
    /\ InitHeld \in [Instruments -> Nat]
    /\ InitCash \in Nat
    /\ BufferPercent \in 0 .. 100
    /\ Cancels \subseteq {"BUY", "SELL"}
    /\ {ExitNonTargets, Restarts, Days, RacingFillQueued, StatusMidSell}
         \subseteq BOOLEAN

VARIABLES
    mem,         \* the strategy's own fields, lost in a restart
    pos,         \* portfolio.net_position, per instrument
    ord,         \* the cache's active order of each instrument
    late,        \* signed fill that the broker gave a cancelled order, not yet applied
    cash,        \* the free cash the last account state reported
    canUse,      \* broker sellable map of the last mass status
    todayBuy,    \* shares the cached fills of today say were bought
    reconciled,  \* ExecutionStateReconciler.has_reconciled_once
    recentSellCancel,  \* own sell cancels younger than sellable_denial_retry_window_secs
    held,        \* shares in the broker's books
    vcash,       \* cash the broker has free
    avail,       \* shares the broker lets the account sell (can_use_volume)
    unreleased,  \* shares of cancelled sells the broker has not unfrozen yet
    denied       \* instruments with a sell that the broker refused today

strategyVars == <<mem, recentSellCancel>>
cacheVars    == <<pos, ord, late, cash, canUse, todayBuy, reconciled>>
venueVars    == <<held, vcash, avail, unreleased, denied>>
vars         == <<strategyVars, cacheVars, venueVars>>

Version(t) ==   \* target_version: the count and the total, not the entries
    LET named == {i \in Instruments : t[i] # NoTarget}
    IN  <<Cardinality(named), MapThenSumSet(LAMBDA i : t[i], named)>>

Versions == {Version(t) : t \in TargetMaps} \cup {NoVersion}

Memory ==
    [targets : [Instruments -> Nat \cup {NoTarget}], version : Versions,
     achieved : SUBSET Versions, frozen : SUBSET Instruments,
     deferred : SUBSET Instruments, insufficient : SUBSET Instruments,
     exhausted : SUBSET Instruments]

NoTargets == [i \in Instruments |-> NoTarget]

FreshMemory ==
    [targets |-> NoTargets, version |-> NoVersion, achieved |-> {}, frozen |-> {},
     deferred |-> {}, insufficient |-> {}, exhausted |-> {}]

NoOrder == [side |-> "NONE", leaves |-> 0, goal |-> 0, st |-> "none"]

Order == [side : {"BUY", "SELL"}, leaves : Nat, goal : Nat,
          st : {"new", "open", "pcancel"}]

Init ==
    /\ mem = FreshMemory
    /\ pos = InitHeld /\ held = InitHeld /\ avail = InitHeld
    /\ ord = [i \in Instruments |-> NoOrder]
    /\ late = [i \in Instruments |-> 0]
    /\ cash = NoCash /\ vcash = InitCash
    /\ canUse = [i \in Instruments |-> NoReport]
    /\ todayBuy = [i \in Instruments |-> 0]
    /\ unreleased = [i \in Instruments |-> 0]
    /\ reconciled = FALSE
    /\ recentSellCancel = {} /\ denied = {}

-----------------------------------------------------------------------------
(* One convergence cycle: _converge_to_target_locked *)

ActiveSansPendingCancel(o, i) == o[i].st \in {"new", "open"}   \* mutant of Active

Active(o, i) == o[i].st # "none"     \* _active_orders, pending cancels included

QueueIgnored == TRUE   \* mutant of QueueDrained: the cycle runs inside the cancel handler

QueueDrained == RacingFillQueued => \A i \in Instruments : late[i] = 0

CanConvergeUnreconciled(m) ==   \* mutant of CanConverge
    m.version # NoVersion /\ m.version \notin m.achieved /\ QueueDrained

CanConverge(m) ==
    /\ m.version # NoVersion
    /\ reconciled
    /\ m.version \notin m.achieved
    /\ QueueDrained

Desired(m) ==   \* NoTarget where the instrument is left alone
    [i \in Instruments |->
        IF m.targets[i] = NoTarget /\ ExitNonTargets /\ pos[i] > 0
        THEN 0 ELSE m.targets[i]]

\* _target_order_intent gives an order to send
HasIntent(m, i) ==
    /\ Desired(m)[i] # NoTarget
    /\ pos[i] # Desired(m)[i]
    /\ Desired(m)[i] = 0 => pos[i] > 0

SellableBase(i) ==
    IF canUse[i] # NoReport THEN canUse[i] ELSE pos[i] - todayBuy[i]

\* _clamp_sell_quantity.  No open sell is subtracted: an instrument with one is skipped.
SellQuantity(m, i) == Min({pos[i] - Desired(m)[i], Max({0, SellableBase(i)})})

\* The broker's own figure cut the sell short: nothing more is sold today.
ClampLatches(m, i) ==
    canUse[i] # NoReport /\ SellQuantity(m, i) < pos[i] - Desired(m)[i]

Cost(m, i) == (Desired(m)[i] - pos[i]) * Price[i]

ReservedBuyCash(o) ==   \* _open_buy_order_notional
    MapThenSumSet(LAMBDA i : o[i].leaves * Price[i],
                  {i \in Instruments : o[i].side = "BUY" /\ o[i].st \in {"new", "open"}})

BudgetSansReserve(o) == (cash * (100 - BufferPercent)) \div 100   \* mutant of Budget

Budget(o) == Max({0, (cash * (100 - BufferPercent)) \div 100 - ReservedBuyCash(o)})

\* Buys are offered the budget in descending target order; Python's sort is stable.
Before(m, j, i) ==
    LET d == Desired(m)
    IN  d[j] > d[i] \/ (d[j] = d[i] /\ j < i)

\* _submit_buys_within_cash sends exactly the buys of S, out of the candidates.
CashAdmits(m, o, buys, S) ==
    \A i \in buys :
        i \in S <=>
            /\ i \notin m.insufficient
            /\ cash # NoCash
            /\ Cost(m, i) + MapThenSumSet(LAMBDA j : Cost(m, j),
                                         {j \in S : Before(m, j, i)}) <= Budget(o)

\* Buys that the splitter may find no legal quantity for: skipped, and deferred no more.
NoLegalOrder(m, unpriced) ==
    {i \in unpriced \ m.insufficient : cash # NoCash /\ pos[i] < Desired(m)[i]}

Achieved(m, o) ==   \* _target_achieved
    /\ \A i \in Instruments : ~Active(o, i)
    /\ m.deferred = {} /\ m.insufficient = {}
    /\ \A i \in Instruments \ m.frozen :
          Desired(m)[i] # NoTarget => pos[i] = Desired(m)[i]

MarkAchieved(m, o) ==
    IF Achieved(m, o) THEN [m EXCEPT !.achieved = @ \cup {m.version}] ELSE m

NewOrder(side, quantity, goal) ==
    [side |-> side, leaves |-> quantity, goal |-> goal, st |-> "new"]

(* timedOut: open orders past the unfilled timeout, to be cancelled.  atLimit: *)
(* instruments at the price limit their side is blocked by.  unpriced: those   *)
(* without an instrument, a price, a stable fill snapshot or a legal order for *)
(* the quantity in this cycle; of those, unsplit are the buys that came as far *)
(* as the splitter.                                                            *)
Cycle(m, timedOut, atLimit, unpriced) ==
    LET o == [i \in Instruments |->
                 IF i \in timedOut THEN [ord[i] EXCEPT !.st = "pcancel"] ELSE ord[i]]
        intents == {i \in Instruments \ (m.frozen \cup unpriced) :
                       ~Active(o, i) /\ HasIntent(m, i)}
        frozenNow == intents \cap atLimit
        tradable  == intents \ atLimit
        offered == {i \in tradable : pos[i] > Desired(m)[i] /\ i \notin m.exhausted}
        sells == {i \in offered : SellQuantity(m, i) > 0}
        buys  == {i \in tradable : pos[i] < Desired(m)[i]}
    IN  \E S \in SUBSET buys, unsplit \in SUBSET NoLegalOrder(m, unpriced) :
          /\ CashAdmits(m, o, buys, S)
          /\ ord' = [i \in Instruments |->
                        IF i \in sells THEN NewOrder("SELL", SellQuantity(m, i), Desired(m)[i])
                        ELSE IF i \in S THEN NewOrder("BUY", Desired(m)[i] - pos[i], Desired(m)[i])
                        ELSE o[i]]
          /\ mem' = MarkAchieved(
                [m EXCEPT !.frozen = @ \cup frozenNow,
                          !.deferred = (@ \ (frozenNow \cup unsplit)) \cup (buys \ S),
                          !.insufficient = @ \ frozenNow,
                          !.exhausted = @ \cup {i \in offered : ClampLatches(m, i)}],
                ord')
          /\ UNCHANGED <<pos, late, cash, canUse, todayBuy, reconciled,
                         recentSellCancel, venueVars>>

OpenOrders == {i \in Instruments : ord[i].st = "open"}

\* An order at its price limit or price cap is left to rest, as is a part-filled buy
\* whose remainder is no legal order: timedOut need not hold every old order.
ConvergeSomehow(m) ==
    LET idle == {i \in Instruments : ~Active(ord, i) /\ HasIntent(m, i)}
    IN  \E timedOut \in SUBSET {i \in OpenOrders : ord[i].side \in Cancels},
           atLimit \in SUBSET idle :
        \E unpriced \in SUBSET (idle \ atLimit) :
            Cycle(m, timedOut, atLimit, unpriced)

\* Timer, bar, first depth of the day, sell fill or cancel: any trigger.
Converge == CanConverge(mem) /\ ConvergeSomehow(mem)

\* A cycle that finds every price, no limit and no order to time out.
ConvergeFreely == CanConverge(mem) /\ Cycle(mem, {}, {}, {})

-----------------------------------------------------------------------------
(* update_target_quantities *)

AcceptedStillAchieved(t) ==   \* mutant of Accepted: achieved_versions keeps the version
    [mem EXCEPT !.targets = t, !.version = Version(t), !.frozen = {}, !.deferred = {},
                !.insufficient = {}]

Accepted(t) ==
    [mem EXCEPT !.targets = t, !.version = Version(t), !.frozen = {}, !.deferred = {},
                !.insufficient = {}, !.achieved = @ \ {Version(t)}]

\* The map is taken over, then a cycle runs unless the gates are closed.
UpdateTarget(t) ==
    /\ ~(mem.version = Version(t) /\ mem.targets = t)
    /\ \/ CanConverge(Accepted(t)) /\ ConvergeSomehow(Accepted(t))
       \/ /\ mem' = Accepted(t)
          /\ UNCHANGED <<cacheVars, recentSellCancel, venueVars>>

-----------------------------------------------------------------------------
(* Order events: what the broker did, and the handler that hears of it *)

Sign(i) == IF ord[i].side = "BUY" THEN 1 ELSE -1

ReleasedOwnLatchOnly(i, side) ==   \* mutant of ReleasedBy: a sell frees only its own latch
    [mem EXCEPT !.deferred = @ \ {i}, !.insufficient = @ \ {i}]

\* on_order_filled: the latches a fill of instrument i on this side releases.
ReleasedBy(i, side) ==
    [mem EXCEPT !.deferred = @ \ {i},
                !.insufficient = IF side = "SELL" THEN {} ELSE @ \ {i}]

Accept(i) ==
    LET need == ord[i].leaves
    IN  /\ ord[i].st = "new"
        /\ \/ /\ ord[i].side = "BUY" /\ vcash >= need * Price[i]
              /\ vcash' = vcash - need * Price[i]
              /\ UNCHANGED avail
           \/ /\ ord[i].side = "SELL" /\ avail[i] >= need
              /\ avail' = [avail EXCEPT ![i] = @ - need]
              /\ UNCHANGED vcash
        /\ ord' = [ord EXCEPT ![i].st = "open"]
        /\ UNCHANGED <<strategyVars, pos, late, cash, canUse, todayBuy, reconciled,
                       held, unreleased, denied>>

Fill(i, q) ==
    /\ ord[i].st \in {"open", "pcancel"}
    /\ held' = [held EXCEPT ![i] = @ + Sign(i) * q]
    /\ pos' = [pos EXCEPT ![i] = @ + Sign(i) * q]
    /\ IF ord[i].side = "BUY"
       THEN todayBuy' = [todayBuy EXCEPT ![i] = @ + q] /\ UNCHANGED vcash
       ELSE vcash' = vcash + q * Price[i] /\ UNCHANGED todayBuy
    /\ ord' = [ord EXCEPT ![i] =
                  IF q = ord[i].leaves THEN NoOrder
                  ELSE [ord[i] EXCEPT !.leaves = ord[i].leaves - q]]
    /\ mem' = ReleasedBy(i, ord[i].side)
    /\ UNCHANGED <<late, cash, canUse, reconciled, recentSellCancel, avail, unreleased,
                   denied>>

\* The broker confirms a cancel, asked for or its own; it may have filled r
\* shares of the order all the same, whose fill event comes behind the cancel.
CancelConfirmed(i, r) ==
    LET freed == ord[i].leaves - r
    IN  /\ ord[i].side \in Cancels
        /\ ord[i].st \in {"open", "pcancel"}
        /\ ord' = [ord EXCEPT ![i] = NoOrder]
        /\ late' = [late EXCEPT ![i] = @ + Sign(i) * r]
        /\ held' = [held EXCEPT ![i] = @ + Sign(i) * r]
        /\ IF ord[i].side = "SELL"
           THEN /\ recentSellCancel' = recentSellCancel \cup {i}
                /\ unreleased' = [unreleased EXCEPT ![i] = @ + freed]
                /\ vcash' = vcash + r * Price[i]
           ELSE /\ vcash' = vcash + freed * Price[i]
                /\ UNCHANGED <<recentSellCancel, unreleased>>
        /\ UNCHANGED <<mem, pos, cash, canUse, todayBuy, reconciled, avail, denied>>

LateFillCountsSales(i) ==   \* mutant of LateFill: today's buys count sales too
    /\ late[i] # 0
    /\ pos' = [pos EXCEPT ![i] = @ + late[i]]
    /\ late' = [late EXCEPT ![i] = 0]
    /\ todayBuy' = [todayBuy EXCEPT ![i] = @ + late[i]]
    /\ mem' = ReleasedBy(i, IF late[i] > 0 THEN "BUY" ELSE "SELL")
    /\ UNCHANGED <<ord, cash, canUse, reconciled, recentSellCancel, venueVars>>

LateFill(i) ==
    /\ late[i] # 0
    /\ pos' = [pos EXCEPT ![i] = @ + late[i]]
    /\ late' = [late EXCEPT ![i] = 0]
    /\ todayBuy' = [todayBuy EXCEPT ![i] = @ + Max({0, late[i]})]
    /\ mem' = ReleasedBy(i, IF late[i] > 0 THEN "BUY" ELSE "SELL")
    /\ UNCHANGED <<ord, cash, canUse, reconciled, recentSellCancel, venueVars>>

(* _handle_order_not_accepted, one action per kind of reason *)

Dropped(i) == ord' = [ord EXCEPT ![i] = NoOrder]

RejectInsufficientFunds(i) ==
    /\ ord[i].st = "new" /\ ord[i].side = "BUY"
    /\ vcash < ord[i].leaves * Price[i]
    /\ Dropped(i)
    /\ mem' = [mem EXCEPT !.insufficient = @ \cup {i}, !.deferred = @ \cup {i}]
    /\ UNCHANGED <<pos, late, cash, canUse, todayBuy, reconciled, recentSellCancel,
                   venueVars>>

DenySellable(i) ==
    /\ ord[i].st = "new" /\ ord[i].side = "SELL"
    /\ avail[i] < ord[i].leaves
    /\ Dropped(i)
    /\ mem' = IF i \in recentSellCancel THEN mem
              ELSE [mem EXCEPT !.exhausted = @ \cup {i}]
    /\ denied' = denied \cup {i}
    /\ UNCHANGED <<pos, late, cash, canUse, todayBuy, reconciled, recentSellCancel,
                   held, vcash, avail, unreleased>>

\* Reconciliation tells a process that starts what the broker refused today; the age of
\* the event is looked at for lack of cash only.
DenialReplayed(i) ==
    /\ ~reconciled /\ i \in denied
    /\ mem' = [mem EXCEPT !.exhausted = @ \cup {i}]
    /\ UNCHANGED <<recentSellCancel, cacheVars, venueVars>>

RejectOther(i) ==
    /\ ord[i].st = "new"
    /\ Dropped(i)
    /\ mem' = [mem EXCEPT !.deferred = @ \ {i}]
    /\ UNCHANGED <<pos, late, cash, canUse, todayBuy, reconciled, recentSellCancel,
                   venueVars>>

-----------------------------------------------------------------------------
(* What the broker reports, and time *)

AccountReport ==
    /\ cash # vcash
    /\ cash' = vcash
    /\ UNCHANGED <<strategyVars, pos, ord, late, canUse, todayBuy, reconciled, venueVars>>

\* The engine aligns the positions; an empty account sends no sellable map.
MassStatus ==
    /\ \A i \in Instruments : late[i] = 0
    /\ StatusMidSell \/ \A i \in Instruments : ord[i].side # "SELL" /\ unreleased[i] = 0
    /\ pos' = held
    /\ canUse' = IF \A i \in Instruments : held[i] = 0 THEN canUse
                 ELSE [i \in Instruments |-> IF held[i] > 0 THEN avail[i] ELSE NoReport]
    /\ reconciled' = TRUE
    /\ UNCHANGED <<strategyVars, ord, late, cash, todayBuy, venueVars>>

ReleaseFreeze(i) ==
    /\ unreleased[i] > 0
    /\ avail' = [avail EXCEPT ![i] = @ + unreleased[i]]
    /\ unreleased' = [unreleased EXCEPT ![i] = 0]
    /\ UNCHANGED <<strategyVars, cacheVars, held, vcash, denied>>

\* sellable_denial_retry_window_secs passes; the broker unfreezes within it.
RetryWindowEnds(i) ==
    /\ i \in recentSellCancel /\ unreleased[i] = 0
    /\ recentSellCancel' = recentSellCancel \ {i}
    /\ UNCHANGED <<mem, cacheVars, venueVars>>

\* Overnight the broker expires orders and settles today's buys; the first event
\* of the day rolls the intraday state, and exhausted entries carry an old date.
NewDay ==
    /\ Days
    /\ \A i \in Instruments : ~Active(ord, i) /\ late[i] = 0
    /\ avail' = held
    /\ unreleased' = [i \in Instruments |-> 0]
    /\ todayBuy' = [i \in Instruments |-> 0]
    /\ mem' = [mem EXCEPT !.exhausted = {}]
    /\ recentSellCancel' = {} /\ denied' = {}
    /\ UNCHANGED <<pos, ord, late, cash, canUse, reconciled, held, vcash>>

\* The process is replaced.  Its memory is gone; the kernel rebuilds the cache from
\* the broker, where holdings may be missing until the strategy-side reconcile.
\* An order on the wire either reached the broker or did not.  Rebuilt holdings
\* look like today's buys.
Restart(rebuilt, reached) ==
    /\ Restarts
    /\ mem' = FreshMemory
    /\ recentSellCancel' = {}
    /\ reconciled' = FALSE
    /\ pos' = [i \in Instruments |-> IF i \in rebuilt THEN held[i] ELSE 0]
    /\ ord' = [i \in Instruments |->
                  IF ord[i].st = "new" /\ i \notin reached THEN NoOrder
                  ELSE IF ord[i].st = "pcancel" THEN [ord[i] EXCEPT !.st = "open"]
                  ELSE ord[i]]
    /\ late' = [i \in Instruments |-> 0]
    /\ cash' = NoCash
    /\ canUse' = [i \in Instruments |-> NoReport]
    /\ todayBuy' = [i \in Instruments |-> IF i \in rebuilt THEN held[i] ELSE 0]
    /\ UNCHANGED venueVars

-----------------------------------------------------------------------------
StrategyNext ==
    \/ Converge
    \/ \E t \in TargetMaps : UpdateTarget(t)
    \/ \E i \in Instruments : RetryWindowEnds(i)
    \/ NewDay
    \/ \E rebuilt \in SUBSET {i \in Instruments : held[i] > 0},
          reached \in SUBSET {i \in Instruments : ord[i].st = "new"} :
          Restart(rebuilt, reached)

VenueNext ==
    \/ \E i \in Instruments :
          \/ Accept(i) \/ RejectInsufficientFunds(i) \/ DenySellable(i) \/ RejectOther(i)
          \/ DenialReplayed(i) \/ LateFill(i) \/ ReleaseFreeze(i)
          \/ \E q \in 1 .. ord[i].leaves : Fill(i, q)
          \/ \E r \in 0 .. ord[i].leaves : CancelConfirmed(i, r)
    \/ AccountReport
    \/ MassStatus

Next == StrategyNext \/ VenueNext

Spec == Init /\ [][Next]_vars

\* The converge timer is periodic and prices come back; the broker answers what it
\* is sent, reports its account, unfreezes; the retry window is a length of time.
\* Nothing makes it fill or cancel, and nothing makes a plan, a day or a restart come.
Fairness ==
    /\ WF_vars(ConvergeFreely)
    /\ WF_vars(AccountReport)
    /\ WF_vars(~reconciled /\ MassStatus)
    /\ \A i \in Instruments :
          /\ WF_vars(Accept(i) \/ RejectInsufficientFunds(i) \/ DenySellable(i))
          /\ WF_vars(LateFill(i)) /\ WF_vars(ReleaseFreeze(i)) /\ WF_vars(RetryWindowEnds(i))

FairSpec == Spec /\ Fairness

-----------------------------------------------------------------------------
(* Properties *)

\* Types of the strategy's fields, of the cache and of the broker's books.
TypeOK ==
    /\ mem \in Memory
    /\ pos \in [Instruments -> Int] /\ late \in [Instruments -> Int]
    /\ ord \in [Instruments -> Order \cup {NoOrder}]
    /\ cash \in Nat \cup {NoCash} /\ vcash \in Nat
    /\ canUse \in [Instruments -> Nat \cup {NoReport}]
    /\ held \in [Instruments -> Nat] /\ todayBuy \in [Instruments -> Nat]
    /\ avail \in [Instruments -> Nat] /\ unreleased \in [Instruments -> Nat]
    /\ reconciled \in BOOLEAN
    /\ recentSellCancel \subseteq Instruments /\ denied \subseteq Instruments

\* Whatever fills still come, an order never carries the broker's holding past the
\* target it was sent for: no double buy, no short sale.  Cancels racing fills,
\* pending cancels, restarts and a stale cache all threaten it.
NeverOvershoots ==
    \A i \in Instruments :
        /\ ord[i].side = "BUY"  => held[i] + ord[i].leaves <= ord[i].goal
        /\ ord[i].side = "SELL" => held[i] - ord[i].leaves >= ord[i].goal

\* A version marked achieved ends all trading for it, so the broker's holdings must
\* be the ones it asks for, save instruments frozen at a price limit.
AchievedIsOnTarget ==
    mem.version \in mem.achieved =>
        \A i \in Instruments \ mem.frozen :
            Desired(mem)[i] # NoTarget => held[i] = Desired(mem)[i]

NewlySent == {i \in Instruments : ord[i].st = "none" /\ ord'[i].st = "new"}

\* A cycle computes an order only from the position the broker really holds: not
\* from a cache a restart left half rebuilt, nor before a racing fill is applied.
OrdersFromRealPosition ==
    [][\A i \in NewlySent : pos[i] = held[i]]_vars

\* When a cycle sends buys, all the buys then at work, those that older cycles sent and that
\* no cancel is asked for included, fit in the cash last reported less the buffer.
BuysWithinCash ==
    [][(\E i \in NewlySent : ord'[i].side = "BUY")
          => ReservedBuyCash(ord') * 100 <= cash * (100 - BufferPercent)]_vars

\* Buys with a pending cancel counted too, which may still fill: the code reserves no cash
\* for them.
BuysAtBroker(o) ==
    MapThenSumSet(LAMBDA i : o[i].leaves * Price[i], {i \in Instruments : o[i].side = "BUY"})

PendingBuysReserved ==
    [][(\E i \in NewlySent : ord'[i].side = "BUY")
          => BuysAtBroker(ord') * 100 <= cash * (100 - BufferPercent)]_vars

AtRest ==   \* a plan is in force and nothing is at work for it
    mem.version # NoVersion /\ \A i \in Instruments : ~Active(ord, i) /\ late[i] = 0

AffordableBuy(i) ==
    /\ AtRest /\ i \notin mem.frozen
    /\ pos[i] < Desired(mem)[i]
    /\ Cost(mem, i) * 100 <= vcash * (100 - BufferPercent)

SellableExcess(i) ==
    /\ AtRest /\ i \notin mem.frozen
    /\ Desired(mem)[i] # NoTarget /\ pos[i] > Desired(mem)[i]
    /\ avail[i] > 0

\* No buy the account could pay for is left lying while nothing is at work, however
\* often the broker turned it down for lack of cash before the cash came.
NoStarvedBuy == \A i \in Instruments : ~<>[]AffordableBuy(i)

\* Nor is a sale: shares above target that the broker would let go are offered, unless
\* the day's sellable-exhausted latch was set for the instrument.
NoForgottenSell ==
    \A i \in Instruments : ~<>[](SellableExcess(i) /\ i \notin mem.exhausted)

\* "Latching here would permanently skip a genuinely-sellable position for the day"
\* (_clamp_sell_quantity): the latch is meant for positions that really are exhausted.
SellableIsSold == \A i \in Instruments : ~<>[]SellableExcess(i)

-----------------------------------------------------------------------------
(* What all this implements: PositionWork *)

Signed(o) ==
    CASE o.side = "BUY"  -> o.leaves
      [] o.side = "SELL" -> 0 - o.leaves
      [] OTHER           -> 0

Goals == [i \in Instruments |-> ({t[i] : t \in TargetMaps} \ {NoTarget}) \cup {0}]

Work == INSTANCE PositionWork
            WITH aim <- [i \in Instruments |-> held[i] + Signed(ord[i])]

\* At most one wave of work per instrument, never past its target, through cancels,
\* racing fills, rejections and restarts.
ImplementsPositionWork == Work!Spec
=============================================================================
