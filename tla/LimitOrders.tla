------------------------------ MODULE LimitOrders ------------------------------
(***************************************************************************)
(* The price and the size of the orders of one instrument: what            *)
(* src/strategies/pricing/open_offset.py asks, how                         *)
(* src/strategies/order_splitter/notional_order_splitter.py cuts it, and   *)
(* how the executor cancels what is not filled and asks a better price.    *)
(*                                                                         *)
(* Prices are in ticks.  Cash, the races of a cancel and shares that may   *)
(* not be sold yet are the subject of TargetExecutor.                      *)
(***************************************************************************)
EXTENDS Integers, Sequences, FiniteSets, FiniteSetsExt, SequencesExt

CONSTANTS
    Rules,     \* the limit-order rules of the instrument: [min, max, inc, odd]
    Shares,    \* greatest position and target (bound)
    Open,      \* today's open
    Offset,    \* offset_bps of it
    CapOffset, \* max_price_bps of it
    Band,      \* the price limits are Open - Band and Open + Band
    Notional,  \* order_slice_notional, 0 for none
    Ladders,   \* books of the other side: sequences of <<distance from Open, size>>
    Threshold, \* cancel_threshold
    Cancels    \* how often orders time out (bound)

VARIABLES
    side, rules, ladder,
    limit,     \* the last price: "before", "at" or "after" the limit of this side
    frozen,    \* the instrument is in _frozen_instruments
    position, target,
    orders,    \* open orders: number, shares left and filled, price, timed out or not
    cancels    \* _cancel_count_buy or _cancel_count_sell

instrument == <<side, rules, ladder, target>>
vars == <<instrument, limit, frozen, position, orders, cancels>>

Sign == IF side = "BUY" THEN 1 ELSE -1

Init ==
    /\ side \in {"BUY", "SELL"} /\ rules \in Rules /\ ladder \in Ladders
    /\ limit \in {"before", "at"} /\ frozen = FALSE
    /\ position \in 0 .. Shares /\ target \in 0 .. Shares
    /\ IF side = "BUY" THEN target > position ELSE target < position
    /\ orders = {} /\ cancels = 0

-----------------------------------------------------------------------------
(* NotionalOrderSplitter *)

RoundDown(q) == (q \div rules.inc) * rules.inc

Valid(q, odd) ==
    /\ q > 0 /\ q <= rules.max
    /\ odd \/ (q >= rules.min /\ q % rules.inc = 0)

Maximum(price) ==
    IF Notional > 0 THEN Min({rules.max, Notional \div price}) ELSE rules.max

SumOf(s) ==
    LET upTo[k \in 0 .. Len(s)] == IF k = 0 THEN 0 ELSE upTo[k - 1] + s[k] IN upTo[Len(s)]

\* Shares moved from the last slices to a remainder below the minimum: from slice k as
\* many as the slices after it could not give.
Moved(n, top, needed) ==
    [k \in 1 .. n |->
        LET give == RoundDown(top - rules.min)
        IN  Max({0, Min({give, needed - (n - k) * give})})]

Topped(n, top, rest) ==      \* the slices and the remainder
    LET needed == ((rules.min - rest + rules.inc - 1) \div rules.inc) * rules.inc
        moved  == Moved(n, top, needed)
    IN  IF rest < rules.min /\ n * RoundDown(top - rules.min) >= needed
        THEN [k \in 1 .. n + 1 |-> IF k <= n THEN top - moved[k] ELSE rest + needed]
        ELSE [k \in 1 .. n + 1 |-> IF k <= n THEN top ELSE rest]

SplitUntopped(quantity, price, odd) ==      \* mutant of Split: the remainder stays pending
    LET max == Maximum(price)
        top == RoundDown(max)
        q   == IF odd THEN quantity ELSE RoundDown(quantity)
    IN  IF quantity <= max /\ Valid(quantity, odd) THEN <<quantity>>
        ELSE IF top < rules.min \/ q < rules.min THEN <<>>
        ELSE [k \in 1 .. q \div top |-> top]
             \o IF Valid(q % top, odd) THEN <<q % top>> ELSE <<>>

SplitRoundedUp(quantity, price, odd) ==     \* mutant of Split: the remainder is topped up
    LET max == Maximum(price)
        top == RoundDown(max)
    IN  IF quantity <= max /\ Valid(quantity, odd) THEN <<quantity>>
        ELSE IF top < rules.min THEN <<>>
        ELSE [k \in 1 .. quantity \div top |-> top]
             \o IF quantity % top > 0 THEN <<Max({rules.min, quantity % top})>> ELSE <<>>

Split(quantity, price, odd) ==
    LET max == Maximum(price)
        top == RoundDown(max)
        q   == IF odd THEN quantity ELSE RoundDown(quantity)
        cut == Topped(q \div top, top, q % top)
    IN  IF quantity <= max /\ Valid(quantity, odd) THEN <<quantity>>
        ELSE IF top < rules.min \/ q < rules.min THEN <<>>
        ELSE IF q % top = 0 THEN [k \in 1 .. q \div top |-> top]
        ELSE IF Valid(Last(cut), odd) THEN cut ELSE Front(cut)

-----------------------------------------------------------------------------
(* The price *)

\* walk_book: the first level that covers the quantity, or else the last one
Walked(quantity) ==
    LET covers(k) == SumOf([j \in 1 .. k |-> ladder[j][2]]) >= quantity
        level     == Min({k \in 1 .. Len(ladder) : covers(k)} \cup {Len(ladder)})
    IN  Open + ladder[level][1]

MoreAggressive(a, b) == IF side = "BUY" THEN Max({a, b}) ELSE Min({a, b})
LessAggressive(a, b) == IF side = "BUY" THEN Min({a, b}) ELSE Max({a, b})

BaseOffset(offset) == Max({offset, 1})      \* one tick at least

MaxBuyPrice == Open + BaseOffset(CapOffset)

\* mult: the trend's offset_multiplier, before the first cancel
Asked(quantity, mult) ==
    LET base  == Open + Sign * BaseOffset(Offset * (IF cancels < Threshold THEN mult ELSE 1))
        steps == cancels - Threshold + 1
        price == IF cancels < Threshold \/ ladder = <<>> THEN base
                 ELSE MoreAggressive(base, Walked(quantity) + Sign * steps)
    IN  IF side = "BUY" THEN Min({price, MaxBuyPrice}) ELSE price

\* _limit_price keeps it inside the day's limits.
LimitPrice(quantity, mult) ==
    LessAggressive(Asked(quantity, mult), Open + Sign * Band)

-----------------------------------------------------------------------------
(* The executor *)

Wanted == Sign * (target - position)

\* A cycle sends orders when none is open, or freezes an instrument at its price limit.
Send(mult) ==
    LET price  == LimitPrice(Wanted, mult)
        slices == Split(Wanted, price, side = "SELL" /\ rules.odd /\ Wanted = position)
    IN  /\ orders = {} /\ Wanted > 0 /\ limit # "at" /\ ~frozen
        /\ slices # <<>>
        /\ orders' = {[no |-> k, left |-> slices[k], filled |-> 0, price |-> price,
                       late |-> FALSE] : k \in DOMAIN slices}
        /\ UNCHANGED <<instrument, limit, frozen, position, cancels>>

Freeze ==
    /\ orders = {} /\ Wanted > 0 /\ limit = "at"
    /\ frozen' = TRUE
    /\ UNCHANGED <<instrument, limit, position, orders, cancels>>

\* Only another map of targets, here with the same quantity, unfreezes it.
NewMap ==
    /\ frozen' = FALSE
    /\ UNCHANGED <<instrument, limit, position, orders, cancels>>

\* unfilled_timeout_secs since it was accepted or last filled
Age(o) ==
    /\ ~o.late /\ cancels < Cancels
    /\ orders' = (orders \ {o}) \cup {[o EXCEPT !.late = TRUE]}
    /\ UNCHANGED <<instrument, limit, frozen, position, cancels>>

AtCap(o) == side = "BUY" /\ o.price >= MaxBuyPrice
UntradeableRest(o) == side = "BUY" /\ o.filled > 0 /\ ~Valid(o.left, FALSE)

CountedOnce == cancels      \* mutant of Counted: cancels are not counted

Counted == cancels + 1

\* _reconcile_unfilled_orders
Timeout(o) ==
    /\ o.late /\ limit # "at" /\ ~AtCap(o) /\ ~UntradeableRest(o)
    /\ orders' = orders \ {o}
    /\ cancels' = Counted
    /\ UNCHANGED <<instrument, limit, frozen, position>>

Fill(o, q) ==
    /\ q <= o.left
    /\ position' = position + Sign * q
    /\ orders' = (orders \ {o}) \cup
                 (IF q = o.left THEN {}
                  ELSE {[o EXCEPT !.left = @ - q, !.filled = @ + q, !.late = FALSE]})
    /\ UNCHANGED <<instrument, limit, frozen, cancels>>

MoveLimit ==
    /\ \/ limit = "before" /\ limit' = "at"
       \/ limit = "at" /\ limit' = "after"
    /\ UNCHANGED <<instrument, frozen, position, orders, cancels>>

SendAny    == \E mult \in 1 .. 2 : Send(mult)
AgeAny     == \E o \in orders : Age(o)
TimeoutAny == \E o \in orders : Timeout(o)

Next ==
    \/ SendAny \/ AgeAny \/ TimeoutAny
    \/ \E o \in orders, q \in 1 .. Shares : Fill(o, q)
    \/ Freeze \/ NewMap \/ MoveLimit

\* The convergence timer runs again and again and time passes; nobody has to trade.
Spec ==
    /\ Init /\ [][Next]_vars
    /\ WF_vars(SendAny) /\ WF_vars(AgeAny) /\ WF_vars(TimeoutAny)

-----------------------------------------------------------------------------
(* Properties *)

\* Types of the orders; what is on its way is never more than what is wanted.
TypeOK ==
    /\ position \in 0 .. Shares /\ cancels \in 0 .. Cancels + Shares
    /\ \A o \in orders : o.left > 0 /\ o.filled >= 0 /\ o.price > 0
    /\ MapThenSumSet(LAMBDA o : o.left, orders) <= Wanted

\* The most that orders of legal sizes can add up to, without the algorithm: n slices make
\* up any multiple of the increment between n minima and n maxima, and a liquidation may
\* have one slice of any size besides.
Reachable(t, top) ==
    /\ t % rules.inc = 0
    /\ \E n \in 0 .. Shares : n * rules.min <= t /\ t <= n * top

MostTradable(quantity, price, odd) ==
    LET top == RoundDown(Maximum(price))
    IN  Max({t \in 0 .. quantity :
               \/ Reachable(t, top)
               \/ odd /\ t = quantity
                    /\ \E r \in 1 .. Maximum(price) : r <= t /\ Reachable(t - r, top)})

\* The splitter leaves no share behind that legal orders could trade, and its slices are
\* legal, within the notional cap and no more than was asked.
SplitIsBest ==
    LET odd    == side = "SELL" /\ rules.odd /\ Wanted = position
        price  == LimitPrice(Wanted, 1)
        slices == Split(Wanted, price, odd)
    IN  orders = {} /\ Wanted > 0 =>
          /\ SumOf(slices) = MostTradable(Wanted, price, odd)
          /\ \A k \in DOMAIN slices :
               /\ slices[k] <= Maximum(price)
               /\ Valid(slices[k], odd /\ k = Len(slices))

Untradeable ==
    Split(Wanted, LimitPrice(Wanted, 1), side = "SELL" /\ rules.odd /\ Wanted = position) = <<>>

\* It crosses the book, or is as aggressive as the rules let it be.
Aggressive(o) ==
    \/ Sign * o.price >= Sign * Walked(1)
    \/ AtCap(o) \/ o.price = Open + Sign * Band
    \/ UntradeableRest(o)

Settled ==
    \/ Wanted <= 0 \/ Untradeable \/ ladder = <<>> \/ limit = "at" \/ frozen
    \/ orders # {} /\ \A o \in orders : Aggressive(o)

\* Cancelled and sent again, an order that nobody fills does not stay away from the book for
\* ever: it ends up crossing it or resting at the cap of a buy or at the limit of the day.
ReachesBook == []<>Settled
===============================================================================
