------------------------------- MODULE Snapshots -------------------------------
(***************************************************************************)
(* The asset and position snapshots of src/lives/snapshot_recorder.py and  *)
(* what src/backtests/result_writers/live_writer.py reads back from them   *)
(* over several days, for one stock of the account.                        *)
(*                                                                         *)
(* A row is written when its phase runs: by its timer, or by the catch-up  *)
(* of a start.  The node may be down over any of the phases.               *)
(***************************************************************************)
EXTENDS Integers, FiniteSets, FiniteSetsExt

CONSTANTS
    Days       \* trading days 1 .. Days

VARIABLES
    day,
    phase,     \* "before" (to 09:29), "session", "after" (from 15:03)
    held,      \* the stock is held
    heldAtOpen,
    entry,     \* the day the stock was last bought (no day: 0)
    pending,   \* phases whose broker positions a catch-up is waiting for
    asset,     \* live_asset_snapshot: today's rows
    lastAsset, \* and whether there is one of the last close
    rows,      \* live_position_snapshot: days and phases with rows of the account,
    position   \* and with a row of the stock

account == <<held, heldAtOpen, entry>>
assets  == <<asset, lastAsset>>
vars == <<day, phase, account, pending, assets, rows, position>>

Types == {"before_trading", "continuous_trading", "after_trading"}
DayNo == 1 .. Days

Init ==
    /\ day = 1 /\ phase = "before" /\ held = FALSE /\ heldAtOpen = FALSE
    /\ entry = 0 /\ pending = {}
    /\ asset = {} /\ lastAsset = FALSE /\ rows = {} /\ position = {}

-----------------------------------------------------------------------------
(* The account *)

Trade ==
    /\ phase = "session"
    /\ held' = ~held
    /\ entry' = IF held \/ heldAtOpen THEN entry ELSE day
    /\ UNCHANGED <<day, phase, heldAtOpen, pending, assets, rows, position>>

\* A fetch of positions takes seconds: it does not outlast a phase.
Pass ==
    /\ pending = {}
    /\ \/ /\ phase = "before" /\ phase' = "session"
          /\ UNCHANGED <<day, heldAtOpen, entry, assets>>
       \/ /\ phase = "session" /\ phase' = "after"
          /\ UNCHANGED <<day, heldAtOpen, entry, assets>>
       \/ /\ phase = "after" /\ day < Days
          /\ phase' = "before" /\ day' = day + 1 /\ heldAtOpen' = held
          /\ entry' = IF held THEN entry ELSE 0
          /\ asset' = {} /\ lastAsset' = ("after_trading" \in asset)
    /\ UNCHANGED <<held, pending, rows, position>>

-----------------------------------------------------------------------------
(* The phases *)

\* _record_asset: a row that is there is kept.
AssetRows(types) == asset' = asset \cup types /\ UNCHANGED lastAsset

\* _record_positions_with_broker writes a row for each open position of the cache, and
\* deletes none.  Rows of the session are not read back.
PositionRows(types) ==
    LET these == {day} \X (types \ {"continuous_trading"})
    IN  /\ rows' = rows \cup these
        /\ position' = position \cup (IF held THEN these ELSE {})

\* The phase's timer.
TimerPhases ==
    CASE phase = "before" -> {"before_trading"}
      [] phase = "after"  -> {"after_trading"}
      [] OTHER            -> {}

\* _catch_up_on_start: a missed before-trading phase is not made up for.
CatchUpPhases ==
    CASE phase = "before"  -> {"before_trading"}
      [] phase = "session" -> {"continuous_trading"}
      [] phase = "after"   -> {"continuous_trading", "after_trading"}

\* On the clock's thread.  stored, fetched: the phases for which the account's figures and
\* the broker's positions could be had and written.
Timer(stored, fetched) ==
    /\ stored \cup fetched \subseteq TimerPhases
    /\ AssetRows(stored) /\ PositionRows(fetched)
    /\ UNCHANGED <<day, phase, account, pending>>

\* On the loop, at a start: the positions come back as a callback.
CatchUp(stored) ==
    /\ stored \subseteq CatchUpPhases
    /\ AssetRows(stored)
    /\ pending' = CatchUpPhases
    /\ UNCHANGED <<day, phase, account, rows, position>>

\* Without the broker's figures the cache's are written.
PositionsFetched(t, written) ==
    /\ t \in pending /\ pending' = pending \ {t}
    /\ PositionRows(IF written THEN {t} ELSE {})
    /\ UNCHANGED <<day, phase, account, assets>>

Next ==
    \/ Trade \/ Pass
    \/ \E stored, fetched \in SUBSET TimerPhases : Timer(stored, fetched)
    \/ \E stored \in SUBSET CatchUpPhases : CatchUp(stored)
    \/ \E t \in pending, written \in BOOLEAN : PositionsFetched(t, written)

Spec == Init /\ [][Next]_vars

-----------------------------------------------------------------------------
(* What is read back *)

HeldIn(d, t) == <<d, t>> \in position

AnyBefore == <<day, "before_trading">> \in rows
AfterDays(table) == {d \in 1 .. day - 1 : <<d, "after_trading">> \in table}

\* load_held_stock_codes_for_seeding: the stock is in the rows of the morning or, without
\* any, in those of the last day that has rows of its close.  The account's other stocks are
\* held throughout.
SeedingCodes ==
    IF AnyBefore THEN HeldIn(day, "before_trading")
    ELSE AfterDays(rows) # {} /\ HeldIn(Max(AfterDays(rows)), "after_trading")

\* A node that is built now knows the stock; a failed read is not fatal.
Seeded(readable) == readable /\ SeedingCodes

\* load_position_span_start_dates, 0 for a stock without an entry day.  The code looks back
\* 90 days, longer than the days of this model.
EntryDays == {d \in DayNo : HeldIn(d, "after_trading") /\ ~HeldIn(d, "before_trading")}

SpanStartsEarliest == Min(EntryDays \cup {day})   \* mutant of SpanStart: the first of them

SpanStart == Max(EntryDays \cup {0})

\* latest_asset_snapshot_value: the asset row a plan of the day is sized on when the account
\* does not answer; without one it is the configured initial cash
Basis ==
    IF "before_trading" \in asset THEN "before_trading"
    ELSE IF "continuous_trading" \in asset THEN "continuous_trading"
    ELSE IF lastAsset THEN "last_close" ELSE "initial_cash"

-----------------------------------------------------------------------------
(* Properties *)

\* Types of the account and of the rows; no row is from the future.
TypeOK ==
    /\ day \in DayNo /\ phase \in {"before", "session", "after"}
    /\ held \in BOOLEAN /\ heldAtOpen \in BOOLEAN /\ entry \in 0..day
    /\ pending \subseteq CatchUpPhases
    /\ asset \subseteq Types /\ lastAsset \in BOOLEAN
    /\ position \subseteq rows /\ rows \subseteq (1 .. day) \X Types

\* The day d left its trace: the stock's morning row if it was held, its row after the close.
Complete(d) ==
    /\ d # entry => HeldIn(d, "before_trading")
    /\ HeldIn(d, "after_trading")

\* The high-water mark of a trailing stop is counted from the day the stock was bought, if
\* the node was there for both snapshots of every day since, whatever it missed before.
SpanStartIsEntry ==
    phase = "before" /\ held /\ (\A d \in entry .. day - 1 : Complete(d)) => SpanStart = entry

\* The same without the condition on the days.
SpanStartAlways == phase = "before" /\ held => SpanStart = entry

\* "Return held stock codes": a node that is built knows every stock it holds, if the rows of
\* the last close were written.
BoughtTodaySeeded == held /\ <<day - 1, "after_trading">> \in rows => Seeded(TRUE)
===============================================================================
