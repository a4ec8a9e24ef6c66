----------------------------- MODULE DailyReturns -----------------------------
(***************************************************************************)
(* The report of a day's returns                                           *)
(* (src/scripts/calculate_daily_returns.py), from what the recorder has    *)
(* stored of one stock of one account: the positions before and after the  *)
(* day, the trades, the ticks, the account's value.  Any of these may be   *)
(* missing, and come later; the report may be run again.  Fees and taxes,  *)
(* which come off the rows one by one, are left out, and so are transfers  *)
(* of cash.                                                                *)
(***************************************************************************)
EXTENDS Integers

CONSTANTS
    Days,       \* trading days (bound)
    Prices,     \* prices of a share
    Shares,     \* greatest holding (bound)
    Trades      \* greatest number of trades of a day, of a share each (bound)

VARIABLES
    day, phase,         \* "session" or "closed"
    preClose, close,    \* close is 0 before it is known
    opened, held,       \* the holding, at the open and now
    bought, sold,       \* today's trades: shares and amount
    before,             \* the row before trading: shares, or None
    after,              \* day -> the row after trading
    buys, sells,        \* live_trade: as bought and sold, or less
    ticks,              \* whether the ticks after trading are stored
    assets,             \* the asset snapshots after the day before and after this one
    table,              \* today's result: type of row -> return
    inputs              \* history: what the last report that was written had seen

today == <<day, preClose, opened>>
book == <<held, bought, sold>>
vars == <<today, phase, close, book, before, after, buys, sells, ticks, assets, table, inputs>>

None == -1
Nothing == [n |-> 0, amount |-> 0]
Unread == [before |-> None, after |-> None, buys |-> Nothing, sells |-> Nothing,
           bought |-> Nothing, sold |-> Nothing, opened |-> 0, whole |-> TRUE]
More(trades, price) == [n |-> trades.n + 1, amount |-> trades.amount + price]
NoRow == [t \in {} |-> 0]

\* An asset snapshot is missing or whole, or the broker's market value came as nearly zero
\* while shares were held (the comment in _asset_payload) and was stored so (_record_asset).
\* One without a market value stops the report by snapshots: as if it were not run.
Snapshots(n) == {"missing", "whole"} \cup (IF n > 0 THEN {"empty"} ELSE {})

\* A row of the positions: shares that are gone may keep a row, or have none.
Rows(n) == {n, None}

Init ==
    /\ day = 1 /\ phase = "session"
    /\ preClose \in Prices /\ close = 0
    /\ opened \in 0 .. Shares /\ held = opened
    /\ bought = Nothing /\ sold = Nothing /\ buys = Nothing /\ sells = Nothing
    /\ before \in Rows(opened)
    /\ \E row \in Rows(opened) : after = [d \in 0 .. Days |-> IF d = 0 THEN row ELSE None]
    /\ ticks = FALSE /\ assets \in [earlier : Snapshots(opened), today : {"missing"}]
    /\ table = NoRow /\ inputs = Unread

-----------------------------------------------------------------------------
(* The account, and what the recorder stores of it *)

Buy ==
    /\ phase = "session" /\ held < Shares /\ bought.n + sold.n < Trades
    /\ \E p \in Prices :
        /\ bought' = More(bought, p)
        /\ \/ buys' = More(buys, p)
           \/ UNCHANGED buys
    /\ held' = held + 1
    /\ UNCHANGED <<today, phase, close, sold, before, after, sells, ticks, assets, table, inputs>>

\* T+1: what was bought today is not sold today.
Sell ==
    /\ phase = "session" /\ sold.n < opened /\ bought.n + sold.n < Trades
    /\ \E p \in Prices :
        /\ sold' = More(sold, p)
        /\ \/ sells' = More(sells, p)
           \/ UNCHANGED sells
    /\ held' = held - 1
    /\ UNCHANGED <<today, phase, close, bought, before, after, buys, ticks, assets, table, inputs>>

Close ==
    /\ phase = "session" /\ phase' = "closed"
    /\ close' \in Prices
    /\ \E row \in Rows(held) : after' = [after EXCEPT ![day] = row]
    /\ ticks' \in BOOLEAN
    /\ \E stored \in Snapshots(held) : assets' = [assets EXCEPT !.today = stored]
    /\ UNCHANGED <<today, book, before, buys, sells, table, inputs>>

\* The recorder makes up for what it missed.
Backfill ==
    /\ phase = "closed"
    /\ buys' \in {buys, bought} /\ sells' \in {sells, sold}
    /\ after' \in {after, [after EXCEPT ![day] = held]}
    /\ ticks' \in {ticks, TRUE}
    /\ UNCHANGED <<today, phase, close, book, before, assets, table, inputs>>

NextDay ==
    /\ phase = "closed" /\ day < Days
    /\ day' = day + 1 /\ phase' = "session"
    /\ preClose' = close /\ close' = 0 /\ opened' = held
    /\ before' \in Rows(held)
    /\ bought' = Nothing /\ sold' = Nothing /\ buys' = Nothing /\ sells' = Nothing
    /\ ticks' = FALSE /\ assets' = [earlier |-> assets.today, today |-> "missing"]
    /\ table' = NoRow /\ inputs' = Unread
    /\ UNCHANGED <<held, after>>

-----------------------------------------------------------------------------
(* The report *)

FallbackLatest ==   \* mutant of Fallback: the most recent row of the days before
    LET known == {d \in 0 .. day - 1 : after[d] # None} IN
    IF known = {} THEN None ELSE after[CHOOSE d \in known : \A e \in known : e <= d]

\* The row after the previous trading day's session, and no older one (trade_calendar).
Fallback == after[day - 1]

\* fetch_mysql_inputs: a stock without a row before trading
Before == IF before # None THEN before ELSE Fallback
After == after[day]

AtLeast0(n) == IF n > 0 THEN n ELSE 0
FromAfter == AtLeast0(AtLeast0(After) - buys.n)
FromBefore == AtLeast0(AtLeast0(Before) - sells.n)

\* calculate_records: the shares that were neither bought nor sold
Unchanged == IF After # None THEN FromAfter ELSE FromBefore

ReconciledAnyway == TRUE    \* mutant of Reconciled: the two counts are not compared

Reconciled == Before # None /\ After # None => FromAfter = FromBefore

\* The types of rows that a stock has.
Types ==
    {t \in {"buy", "sell", "hold"} :
        \/ t = "buy" /\ buys.n > 0
        \/ t = "sell" /\ sells.n > 0
        \/ t = "hold" /\ Unchanged > 0}

Return(t) ==
    CASE t = "buy" -> close * buys.n - buys.amount
      [] t = "sell" -> sells.amount - preClose * sells.n
      [] t = "hold" -> (close - preClose) * Unchanged

Total == LET part(t) == IF t \in Types THEN Return(t) ELSE 0 IN
         part("buy") + part("sell") + part("hold")

\* What the account has gained by the books of the broker: cash and the shares' value.
Gain == sold.amount - bought.amount + held * close - opened * preClose

\* _asset_net_value: cash, and the market value as it is stored
Stored(snapshot, value) == IF snapshot = "empty" THEN 0 ELSE value
NetValueChange ==
    sold.amount - bought.amount
    + Stored(assets.today, held * close) - Stored(assets.earlier, opened * preClose)

\* calculate_records_by_account, an account by itself: the rows of the stock, their sum, and
\* the summary, by the asset snapshots if there are two.
BySnapshots(method) ==
    method = "asset-snapshot" /\ assets.earlier # "missing" /\ assets.today # "missing"
Resulting(method) ==
    Types \cup {t \in {"all", "summary"} : Types # {} \/ (t = "summary" /\ BySnapshots(method))}
Result(method) ==
    [t \in Resulting(method) |->
        IF t \in Types THEN Return(t)
        ELSE IF t = "summary" /\ BySnapshots(method) THEN NetValueChange ELSE Total]

\* Whether the summary of the table is of snapshots that were told their market value.
Whole(method) ==
    IF "summary" \notin Resulting(method) THEN inputs.whole
    ELSE BySnapshots(method) => assets.earlier # "empty" /\ assets.today # "empty"

\* upsert_records, in one transaction: rows of a type that is no longer there stay.
Upserted(rows) ==
    [t \in DOMAIN rows \cup DOMAIN table |-> IF t \in DOMAIN rows THEN rows[t] ELSE table[t]]

\* main: a report that raises or cannot write changes nothing.
Report ==
    /\ phase = "closed" /\ Reconciled
    /\ Types # {} => ticks
    /\ \E method \in {"asset-snapshot", "positions-and-trades"} :
        /\ table' = Upserted(Result(method))
        /\ inputs' = [before |-> Before, after |-> After, buys |-> buys, sells |-> sells,
                      bought |-> bought, sold |-> sold, opened |-> opened,
                      whole |-> Whole(method)]
    /\ UNCHANGED <<today, phase, close, book, before, after, buys, sells, ticks, assets>>

Next == Buy \/ Sell \/ Close \/ Backfill \/ NextDay \/ Report

Spec == Init /\ [][Next]_vars

-----------------------------------------------------------------------------
(* Properties *)

\* Types of the state.
TypeOK ==
    /\ day \in 1 .. Days /\ phase \in {"session", "closed"}
    /\ preClose \in Prices /\ close \in Prices \cup {0}
    /\ opened \in 0 .. Shares /\ held = opened + bought.n - sold.n
    /\ buys.n <= bought.n /\ sells.n <= sold.n
    /\ before \in {opened, None} /\ after \in [0 .. Days -> 0 .. Shares \cup {None}]
    /\ ticks \in BOOLEAN /\ assets \in [earlier : Snapshots(opened), today : Snapshots(held)]
    /\ DOMAIN table \subseteq {"buy", "sell", "hold", "all", "summary"}

\* A report that saw every trade, and a row of the stock on either side of the day unless
\* all that was held was sold, tells what the account gained, in its summary too if that was
\* not made from a snapshot whose market value had come as zero; and one that saw both rows
\* was not accepted with trades missing, but for as many purchases as sales.
ReturnIsReal ==
    LET sawTrades == inputs.buys = inputs.bought /\ inputs.sells = inputs.sold
        sawRow == inputs.before # None \/ inputs.after # None
                  \/ inputs.opened = inputs.sold.n
    IN
    /\ sawTrades /\ sawRow =>
         \A t \in {"all", "summary"} \cap DOMAIN table :
            (t = "all" \/ inputs.whole) => table[t] = Gain
    /\ inputs.before # None /\ inputs.after # None =>
         inputs.bought.n - inputs.buys.n = inputs.sold.n - inputs.sells.n

\* The summary of the account is what it gained, if both snapshots are there.
SummaryAlwaysReal ==
    assets.earlier # "missing" /\ assets.today # "missing" /\ "summary" \in DOMAIN table =>
        table["summary"] = Gain

\* As the script's head says: a missing snapshot is not reported as a return.
MissingIsNotReported == "all" \in DOMAIN table => table["all"] = Gain
===============================================================================
