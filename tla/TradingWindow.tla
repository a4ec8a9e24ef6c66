----------------------------- MODULE TradingWindow -----------------------------
(***************************************************************************)
(* When convergence may run (src/strategies/target_quantities.py): the     *)
(* local clock and the venue's time of the last quote must be inside their *)
(* windows, and in the same session.  The venue's clock may lag the local  *)
(* one, a session opens later at the exchange than the local window does,  *)
(* and the last quote may be of the morning or of another day.             *)
(***************************************************************************)
EXTENDS Naturals

CONSTANTS
    Days,      \* (bound)
    Lags       \* by how many times of day the venue's clock may be behind

\* Times of day: before the local window, the minute before the exchange opens, the
\* morning, lunch, the afternoon and after 14:55.
Times == 0 .. 5
NoSession == 0

VARIABLES
    day, local, venue,
    quote,             \* _last_quote_tick_ts_event: [day, time]; day 0 for none
    trading_day,       \* _trading_day
    depth_converged,   \* _depth_converged_today
    suspended,         \* whether on_target_bar ran with updates suspended
    cycle,             \* history: what was true when a cycle last passed the gate
    triggered          \* history: the first depth of the day was followed by a cycle

clocks == <<day, local, venue>>
vars == <<clocks, quote, trading_day, depth_converged, suspended, cycle, triggered>>

NoQuote == [day |-> 0, time |-> 0]
NoCycle == "none"

Init ==
    /\ day = 1 /\ local = 0 /\ venue = 0
    /\ quote = NoQuote /\ trading_day = 0
    /\ depth_converged = FALSE /\ suspended = FALSE /\ cycle = NoCycle /\ triggered = TRUE

-----------------------------------------------------------------------------
(* The gate *)

\* The index of the session of a time of day
LocalSession(t)    == IF t \in {1, 2} THEN 1 ELSE IF t = 4 THEN 2 ELSE NoSession
ExchangeSession(t) == IF t = 2 THEN 1 ELSE IF t = 4 THEN 2 ELSE NoSession

\* mutant of WithinExchangeTime: any session of the exchange will do
WithinAnySession(event) == event.day = day /\ ExchangeSession(event.time) # NoSession

\* _within_exchange_trading_time
WithinExchangeTime(event) ==
    /\ event.day = day
    /\ ExchangeSession(event.time) # NoSession
    /\ ExchangeSession(event.time) = LocalSession(local)

WithinTradingWindow(event) == LocalSession(local) # NoSession /\ WithinExchangeTime(event)

\* _converge_to_target asks again, with the quote q.
Gate(q) ==
    cycle' = IF WithinTradingWindow(q)
               THEN IF ExchangeSession(venue) # NoSession THEN "open" ELSE "closed"
               ELSE cycle

\* _roll_trading_day
RolledQuote == IF trading_day # day /\ quote.day # day THEN NoQuote ELSE quote

Roll == trading_day' = day /\ quote' = RolledQuote

-----------------------------------------------------------------------------
(* The events *)

QuoteTick ==
    /\ quote' = [day |-> day, time |-> venue]
    /\ UNCHANGED <<clocks, trading_day, depth_converged, suspended, cycle, triggered>>

Timer ==
    /\ Gate(quote)
    /\ UNCHANGED <<clocks, quote, trading_day, depth_converged, suspended, triggered>>

\* on_order_book_depth: the first of the day inside the window, by its own time
Depth ==
    LET first == (trading_day # day \/ ~depth_converged)
                 /\ WithinTradingWindow([day |-> day, time |-> venue])
    IN  /\ Roll
        /\ depth_converged' = (first \/ (trading_day = day /\ depth_converged))
        /\ IF first
             THEN Gate(RolledQuote) /\ triggered' = WithinTradingWindow(RolledQuote)
             ELSE UNCHANGED <<cycle, triggered>>
        /\ UNCHANGED <<clocks, suspended>>

\* on_bar: outside the window on_target_bar sets targets without a cycle.
Bar ==
    /\ Roll
    /\ depth_converged' = (trading_day = day /\ depth_converged)
    /\ suspended' = ~WithinTradingWindow(RolledQuote)
    /\ Gate(RolledQuote)
    /\ UNCHANGED <<clocks, triggered>>

Tick ==
    /\ \/ local < 5 /\ local' = local + 1 /\ UNCHANGED <<day, venue>>
       \/ venue < local /\ venue' = venue + 1 /\ UNCHANGED <<day, local>>
       \/ local = 5 /\ venue = 5 /\ day < Days
            /\ day' = day + 1 /\ local' = 0 /\ venue' = 0
    /\ local' - venue' \in Lags
    /\ cycle' = NoCycle
    /\ UNCHANGED <<quote, trading_day, depth_converged, suspended, triggered>>

Restart ==
    /\ trading_day # 0
    /\ quote' = NoQuote /\ trading_day' = 0 /\ depth_converged' = FALSE
    /\ UNCHANGED <<clocks, suspended, cycle, triggered>>

Next == QuoteTick \/ Timer \/ Depth \/ Bar \/ Tick \/ Restart

Spec == Init /\ [][Next]_vars

-----------------------------------------------------------------------------
(* Properties *)

\* Types of the clocks and of the last quote, which is not from the future.
TypeOK ==
    /\ day \in 1 .. Days /\ local \in Times /\ venue \in Times
    /\ quote.day \in 0 .. day /\ quote.day = day => quote.time <= venue
    /\ trading_day \in 0 .. day
    /\ depth_converged \in BOOLEAN /\ suspended \in BOOLEAN /\ triggered \in BOOLEAN
    /\ cycle \in {NoCycle, "open", "closed"}

\* No cycle runs while the exchange is closed: not in the minute before it opens, not in the
\* afternoon on the strength of a quote of the morning, and not on one of another day, as
\* long as the venue's clock is not ahead.
CycleOnlyWhenOpen == cycle # "closed"

\* "On the first depth callback of each trading day, converge immediately": the depth that
\* uses up the day's flag is followed by a cycle.
DepthConverges == triggered
===============================================================================
