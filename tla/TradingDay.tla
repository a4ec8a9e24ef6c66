------------------------------ MODULE TradingDay ------------------------------
(***************************************************************************)
(* Today's open of one instrument in src/strategies/target_quantities.py:  *)
(* who sets it, when the day is rolled, and what a plan is sized on.       *)
(*                                                                         *)
(* The day is rolled by whatever event comes first: a full tick (by the    *)
(* clock's date), a bar or a depth event (by the event's own date).  One   *)
(* of an earlier day, replayed at a subscription or late, rolls it back,   *)
(* and the next of today rolls it again: both forget the day's open.       *)
(***************************************************************************)
EXTENDS Naturals

CONSTANTS
    Days,      \* 1 .. Days
    Restarts   \* (bound)

VARIABLES
    day, time,       \* the clock: 0 night, 1 auction (from 09:15), 2 session
    trading_day,     \* _trading_day, 0 at first
    today_open,      \* the open's day and whether it is that day's true open; NoOpen
    authoritative,   \* _authoritative_open
    bars,            \* bars of the day that have passed: 0 or more (1)
    ticked,          \* history: the day of the last full tick with an open, 0 once an
                     \* event of an earlier day has come after it
    sized,           \* what the day's plan was sized on
    restarts

vars == <<day, time, trading_day, today_open, authoritative, bars, ticked, sized, restarts>>

NoOpen == [of |-> 0, true |-> FALSE]
Unsized == "unsized"

Init ==
    /\ day = 1 /\ time = 0 /\ bars = 0 /\ restarts = 0
    /\ trading_day = 0 /\ today_open = NoOpen /\ authoritative = FALSE
    /\ ticked = 0 /\ sized = Unsized

-----------------------------------------------------------------------------
\* The open after the roll: none on another day
RolledKeptOpen(d) == today_open      \* mutant of Rolled: the opens survive the roll

Rolled(d) == IF d = trading_day THEN today_open ELSE NoOpen

RolledAuthority(d) == d = trading_day /\ authoritative

Roll(d) ==
    /\ trading_day' = d
    /\ today_open' = Rolled(d)
    /\ authoritative' = RolledAuthority(d)

\* _set_authoritative_open
SetOpen(d, true) ==
    /\ trading_day' = d
    /\ today_open' = [of |-> d, true |-> true]
    /\ authoritative' = TRUE

\* A full tick may lack an open: before the auction's end, or of a suspended stock.
FullTick(opened) ==
    /\ opened => time > 0
    /\ IF opened THEN SetOpen(day, TRUE) /\ ticked' = day ELSE Roll(day) /\ UNCHANGED ticked
    /\ UNCHANGED <<day, time, bars, sized, restarts>>

BarSetsAnyOpen(d) == TRUE     \* mutant of BarSetsOpen: later bars clobber the open

BarSetsOpen(d) == ~RolledAuthority(d)

\* After an event of day d
TickedAfter(d) == IF d = day THEN ticked ELSE 0

\* on_bar: the open of the first bar it sees is taken for the day's.
Bar(d) ==
    /\ d = day => time = 2
    /\ IF BarSetsOpen(d) THEN SetOpen(d, d = day /\ bars = 0) ELSE Roll(d)
    /\ bars' = IF d = day THEN 1 ELSE bars
    /\ ticked' = TickedAfter(d)
    /\ UNCHANGED <<day, time, sized, restarts>>

BarMissed ==
    /\ time = 2 /\ bars = 0 /\ bars' = 1
    /\ UNCHANGED <<day, time, trading_day, today_open, authoritative, ticked, sized, restarts>>

\* on_order_book_depth takes no price from the book.
Depth(d) ==
    /\ d = day => time > 0
    /\ Roll(d)
    /\ ticked' = TickedAfter(d)
    /\ UNCHANGED <<day, time, bars, sized, restarts>>

\* _open_price_with_source does not ask of which day the open is.
Plan ==
    /\ time > 0 /\ sized = Unsized
    /\ sized' = IF today_open = NoOpen THEN "prev_close"
                ELSE IF today_open.of = day THEN "open" ELSE "open of an earlier day"
    /\ UNCHANGED <<day, time, trading_day, today_open, authoritative, bars, ticked, restarts>>

Pass ==
    /\ IF time < 2 THEN time' = time + 1 /\ UNCHANGED <<day, bars, sized>>
       ELSE day < Days /\ day' = day + 1 /\ time' = 0 /\ bars' = 0 /\ sized' = Unsized
    /\ UNCHANGED <<trading_day, today_open, authoritative, ticked, restarts>>

Restart ==
    /\ restarts < Restarts /\ restarts' = restarts + 1
    /\ trading_day' = 0 /\ today_open' = NoOpen /\ authoritative' = FALSE /\ ticked' = 0
    /\ UNCHANGED <<day, time, bars, sized>>

Next ==
    \/ \E opened \in BOOLEAN : FullTick(opened)
    \/ \E d \in 1 .. day : Bar(d) \/ Depth(d)
    \/ BarMissed \/ Plan \/ Pass \/ Restart

Spec == Init /\ [][Next]_vars

-----------------------------------------------------------------------------
(* Properties *)

\* Types; the open is of the day that was rolled to.
TypeOK ==
    /\ day \in 1 .. Days /\ time \in 0 .. 2 /\ trading_day \in 0 .. day
    /\ authoritative \in BOOLEAN
    /\ today_open # NoOpen => today_open.of = trading_day

\* Once a full tick of today has brought the open, every price of the day is anchored to
\* it: today's bars and depth events, in any order, leave it; and after an event of an
\* earlier day, which drops it, the next full tick with an open brings it back to stay.
FullTickOpenStays == ticked = day => today_open = [of |-> day, true |-> TRUE]

\* The same whatever day the events are of, which TLC refutes: "later intraday bars must
\* not clobber it" (on_bar) fails after a late event of yesterday.
OpenNeverDropped ==
    [][today_open = [of |-> day, true |-> TRUE] /\ UNCHANGED <<day, restarts>>
           => UNCHANGED today_open]_vars

\* "The first real bar of the day carries the true daily open": what is held to be
\* authoritative is the day's open.
AuthoritativeIsTrue == authoritative => today_open.true

\* No plan is sized on an open of an earlier day.
SizedOnToday == sized # "open of an earlier day"
===============================================================================
