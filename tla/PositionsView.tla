----------------------------- MODULE PositionsView -----------------------------
(***************************************************************************)
(* The row of one stock on the positions page                              *)
(* (src/lives/control_server.py): what the page shows of the day's profit, *)
(* put together from the cache, the last prices and the sellable shares of *)
(* the last mass status, whenever it is asked for.                         *)
(*                                                                         *)
(* Shares bought today cannot be sold today.  Fills before a restart are   *)
(* gone: the cache is rebuilt with one purchase at cost per holding.  A    *)
(* sell that reconciliation had to book is in the cache at cost, whatever  *)
(* it was made at.                                                         *)
(***************************************************************************)
EXTENDS Integers

CONSTANTS
    Prices,   \* multiples of 12, so that the average of up to four is exact
    Shares,   \* greatest holding (bound)
    Days,     \* (bound)
    Restarts  \* (bound)

VARIABLES
    day, restarts,
    prev,     \* yesterday's close
    opening,  \* shares at the start of the day
    carried,  \* those of them still held
    bought,   \* shares bought today, and what for
    spent,
    selling,  \* shares in the open sell order
    fills,    \* sells of today in the cache: [qty, notional]
    avg,      \* avg_px_open of the cache's position
    peak,     \* its peak_qty
    closes,   \* its sells: [qty, notional]
    proceeds, \* history: the sells of fills, at the prices they were made at
    can_use,  \* the stock in the sellable map, Unknown before the first
    pure      \* history: no sell that the sellable map left out has been cancelled since

holding  == <<opening, carried, bought, spent, selling>>
position == <<avg, peak, closes>>
vars == <<day, restarts, prev, holding, fills, proceeds, position, can_use, pure>>

Unknown == -1
None    == [qty |-> 0, notional |-> 0]
Volume  == carried + bought
Plus(f, q, price) == [qty |-> f.qty + q, notional |-> f.notional + q * price]
Largest(a, b)  == IF a > b THEN a ELSE b
Smallest(a, b) == IF a < b THEN a ELSE b

\* The holding of yesterday, reconciled at the start
Init ==
    /\ day = 1 /\ restarts = 0 /\ prev \in Prices
    /\ opening \in 0 .. Shares /\ carried = opening
    /\ bought = 0 /\ spent = 0 /\ selling = 0
    /\ fills = None /\ proceeds = None
    /\ avg \in Prices /\ peak = opening /\ closes = None
    /\ can_use = Unknown /\ pure = TRUE

-----------------------------------------------------------------------------
(* The day *)

\* A position that was closed is opened anew.
Buy(price) ==
    /\ Volume < Shares
    /\ bought' = bought + 1 /\ spent' = spent + price
    /\ avg' = (avg * Volume + price) \div (Volume + 1)
    /\ peak' = IF Volume = 0 THEN 1 ELSE Largest(peak, Volume + 1)
    /\ closes' = IF Volume = 0 THEN None ELSE closes
    /\ UNCHANGED <<day, restarts, prev, opening, carried, selling, fills, proceeds, can_use, pure>>

SendSell(q) ==
    /\ selling = 0 /\ q <= carried
    /\ selling' = q
    /\ UNCHANGED <<day, restarts, prev, opening, carried, bought, spent, fills, proceeds,
                   position, can_use, pure>>

\* The fill comes as an event, or by reconciliation at cost (the comment in _closed_row).
FillSell(price) ==
    /\ selling > 0
    /\ selling' = selling - 1 /\ carried' = carried - 1
    /\ \E booked \in {price, avg} :
        fills' = Plus(fills, 1, booked) /\ closes' = Plus(closes, 1, booked)
    /\ proceeds' = Plus(proceeds, 1, price)
    /\ UNCHANGED <<day, restarts, prev, opening, bought, spent, avg, peak, can_use, pure>>

\* A cancelled sell may have been frozen in the last mass status.
CancelSell ==
    /\ selling > 0 /\ selling' = 0
    /\ pure' = (can_use # Unknown /\ can_use >= carried)
    /\ UNCHANGED <<day, restarts, prev, opening, carried, bought, spent, fills, proceeds,
                   position, can_use>>

\* update_from_mass_status replaces the map: the account holds other stocks as well.
MassStatus ==
    /\ can_use' = carried - selling
    /\ pure' = TRUE
    /\ UNCHANGED <<day, restarts, prev, holding, fills, proceeds, position>>

NextDay(close) ==
    /\ day < Days /\ selling = 0
    /\ day' = day + 1 /\ prev' = close
    /\ opening' = Volume /\ carried' = Volume
    /\ bought' = 0 /\ spent' = 0 /\ fills' = None /\ proceeds' = None
    /\ can_use' = Volume    \* the mass status of 09:15
    /\ UNCHANGED <<restarts, selling, position, pure>>

Restart ==
    /\ restarts < Restarts /\ restarts' = restarts + 1
    /\ can_use' = Unknown /\ fills' = None /\ proceeds' = None
    /\ peak' = Volume /\ closes' = None
    /\ UNCHANGED <<day, prev, holding, avg, pure>>

Next ==
    \/ \E price \in Prices : Buy(price) \/ FillSell(price) \/ NextDay(price)
    \/ \E q \in 1 .. Shares : SendSell(q)
    \/ CancelSell \/ MassStatus \/ Restart

Spec == Init /\ [][Next]_vars

-----------------------------------------------------------------------------
(* The page, at the price last *)

OpeningWithoutFrozen ==    \* mutant of OpeningQty: shares in a pending sell count as bought
    Largest(0, Smallest(Largest(can_use, 0), Volume))

\* What is sellable or in a pending sell was there yesterday.
OpeningQty == Largest(0, Smallest(Largest(can_use, 0) + selling, Volume))

\* _open_row
OpenPnl(last) ==
    (last - prev) * OpeningQty
    + (last - avg) * (Volume - OpeningQty)
    + fills.notional - prev * fills.qty

\* _closed_row, times the shares sold: (avg_px_close - prev) * peak_qty
ClosedPnlTimes == (closes.notional - prev * closes.qty) * peak

\* _closed_today_long_positions
ClosedToday == Volume = 0 /\ peak > 0 /\ fills.qty > 0

-----------------------------------------------------------------------------
(* Properties *)

\* Types; what is being sold is held since yesterday.
TypeOK ==
    /\ day \in 1 .. Days /\ restarts \in 0 .. Restarts
    /\ carried \in 0 .. opening /\ Volume \in 0 .. Shares /\ selling \in 0 .. carried
    /\ can_use \in Unknown .. Shares
    /\ avg > 0 /\ peak >= Volume /\ pure \in BOOLEAN

\* What the day has brought, from cash and prices alone: the value held now and the sells
\* the process has seen, less what was paid and what those shares were worth yesterday.
TrueDayPnl(last) ==
    Volume * last + proceeds.notional - spent - prev * (carried + proceeds.qty)

\* The page's profit of the day is what cash and prices say, if what is held is all carried
\* or all of today and there has been a mass status, and the position was not sold over
\* several days; whatever price its sells are booked at.
CarriedPnlIsReal ==
    pure /\ can_use # Unknown /\ (opening = 0 \/ bought = 0) =>
        /\ \A last \in Prices : Volume > 0 => OpenPnl(last) = TrueDayPnl(last)
        /\ ClosedToday /\ closes = fills => ClosedPnlTimes = TrueDayPnl(prev) * closes.qty

\* "A purely carried holding reduces to (last - prev_close) * volume; a name bought entirely
\* today to (last - average) * volume", and sells add their result: for such a holding the
\* page's profit of the day is what cash and prices say, partial sells, pending sells and
\* restarts included, if its sells came as fills at their own prices; one that
\* reconciliation booked at cost puts the profit of the row wrong, open or closed.
DayPnlIsReal == proceeds = fills => CarriedPnlIsReal

\* The same for every holding.
DayPnlAlways ==
    can_use # Unknown =>
        /\ \A last \in Prices : Volume > 0 => OpenPnl(last) = TrueDayPnl(last)
        /\ ClosedToday => ClosedPnlTimes = TrueDayPnl(prev) * closes.qty
===============================================================================
