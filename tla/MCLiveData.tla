------------------------------- MODULE MCLiveData -------------------------------
(* What the live node takes in and writes down, side by side: the fetches of   *)
(* ticks, reconciliation, the day's open, the trading window, the price trend, *)
(* the recorder's orders and trades, the export of ticks and the snapshots.    *)
(* A behaviour is one of the component chosen at the start; the others keep    *)
(* still, so the run has the sum of their states, not the product.             *)
EXTENDS MCTickFetch, Integers

CONSTANTS
    Parts,                    \* the components to run
    Changes, FlatAt,          \* of Reconciliation
    OpenDays, OpenRestarts,   \* of TradingDay
    WindowDays, Lags,         \* of TradingWindow
    Now, Prices, Volumes, Window, Threshold, Maximum,    \* of PriceTrend
    Orders, Starts,           \* of Recorder
    Procs, Ids, Restarts,     \* of TickExport
    SnapshotDays              \* of Snapshots

ASSUME LiveDataAssumption ==
    /\ Changes \in Nat /\ OpenDays \in Nat \ {0} /\ WindowDays \in Nat \ {0} /\ Lags \subseteq Nat
    /\ Now \in Nat /\ Window \in Nat /\ Prices \subseteq Nat \ {0} /\ Volumes \subseteq Int
    /\ IsFiniteSet(Ids) /\ SnapshotDays \in Nat \ {0}

\* PriceTrend's NoVolume, and two totals
SomeVolumes == {-1, 0, 1}

VARIABLES
    part,   \* the component that runs
    recon_pc, recon_task, future, seen, outcome, recon_heard, calling, account,
    sellable, gate, reports,
    day, time, trading_day, today_open, authoritative, bars, ticked, sized, restarts,
    window_day, local, venue, quote, window_trading_day, depth_converged, suspended,
    cycle, triggered,
    samples, newest, last,
    clock, starts, up, truth, known, lineage, row, trade, due, todo, got, pending, told,
    left, missed,
    export_market, export_final, export_pc, snap, rows, export_told, export_restarts,
    snaps_day, phase, held, heldAtOpen, entry, snaps_pending, asset, lastAsset,
    snaps_rows, position

RC == INSTANCE Reconciliation WITH
    Overlap <- FALSE, pc <- recon_pc, task <- recon_task, heard <- recon_heard
TD == INSTANCE TradingDay WITH
    Days <- OpenDays, Restarts <- OpenRestarts
TW == INSTANCE TradingWindow WITH
    Days <- WindowDays, day <- window_day, trading_day <- window_trading_day
PT == INSTANCE PriceTrend
RE == INSTANCE Recorder
TE == INSTANCE TickExport WITH
    market <- export_market, final <- export_final, pc <- export_pc,
    told <- export_told, restarts <- export_restarts
SN == INSTANCE Snapshots WITH
    Days <- SnapshotDays, day <- snaps_day, pending <- snaps_pending, rows <- snaps_rows

Idle == 0

recon == <<recon_pc, recon_task, future, seen, outcome, recon_heard, calling, account,
           sellable, gate, reports>>
NoRecon ==
    /\ recon_pc = Idle /\ recon_task = Idle /\ future = Idle /\ seen = Idle
    /\ outcome = Idle /\ recon_heard = Idle /\ calling = Idle /\ account = Idle
    /\ sellable = Idle /\ gate = Idle /\ reports = Idle
open == <<day, time, trading_day, today_open, authoritative, bars, ticked, sized,
          restarts>>
NoOpen ==
    /\ day = Idle /\ time = Idle /\ trading_day = Idle /\ today_open = Idle
    /\ authoritative = Idle /\ bars = Idle /\ ticked = Idle /\ sized = Idle
    /\ restarts = Idle
window == <<window_day, local, venue, quote, window_trading_day, depth_converged,
            suspended, cycle, triggered>>
NoWindow ==
    /\ window_day = Idle /\ local = Idle /\ venue = Idle /\ quote = Idle
    /\ window_trading_day = Idle /\ depth_converged = Idle /\ suspended = Idle /\ cycle = Idle
    /\ triggered = Idle
trend == <<samples, newest, last>>
NoTrend ==
    /\ samples = Idle /\ newest = Idle /\ last = Idle
records == <<clock, starts, up, truth, known, lineage, row, trade, due, todo, got,
             pending, told, left, missed>>
NoRecords ==
    /\ clock = Idle /\ starts = Idle /\ up = Idle /\ truth = Idle
    /\ known = Idle /\ lineage = Idle /\ row = Idle /\ trade = Idle
    /\ due = Idle /\ todo = Idle /\ got = Idle /\ pending = Idle
    /\ told = Idle /\ left = Idle /\ missed = Idle
export == <<export_market, export_final, export_pc, snap, rows, export_told,
            export_restarts>>
NoExport ==
    /\ export_market = Idle /\ export_final = Idle /\ export_pc = Idle /\ snap = Idle
    /\ rows = Idle /\ export_told = Idle /\ export_restarts = Idle
snaps == <<snaps_day, phase, held, heldAtOpen, entry, snaps_pending, asset, lastAsset,
           snaps_rows, position>>
NoSnaps ==
    /\ snaps_day = Idle /\ phase = Idle /\ held = Idle /\ heldAtOpen = Idle
    /\ entry = Idle /\ snaps_pending = Idle /\ asset = Idle /\ lastAsset = Idle
    /\ snaps_rows = Idle /\ position = Idle

-----------------------------------------------------------------------------
PartsInit ==
    /\ part \in Parts
    /\ \/ /\ part = "fetch" /\ Init
          /\ NoRecon /\ NoOpen /\ NoWindow /\ NoTrend /\ NoRecords /\ NoExport /\ NoSnaps
       \/ /\ part = "recon" /\ RC!Init /\ Init
          /\ NoOpen /\ NoWindow /\ NoTrend /\ NoRecords /\ NoExport /\ NoSnaps
       \/ /\ part = "open" /\ TD!Init /\ Init
          /\ NoRecon /\ NoWindow /\ NoTrend /\ NoRecords /\ NoExport /\ NoSnaps
       \/ /\ part = "window" /\ TW!Init /\ Init
          /\ NoRecon /\ NoOpen /\ NoTrend /\ NoRecords /\ NoExport /\ NoSnaps
       \/ /\ part = "trend" /\ PT!Init /\ Init
          /\ NoRecon /\ NoOpen /\ NoWindow /\ NoRecords /\ NoExport /\ NoSnaps
       \/ /\ part = "records" /\ RE!Init /\ Init
          /\ NoRecon /\ NoOpen /\ NoWindow /\ NoTrend /\ NoExport /\ NoSnaps
       \/ /\ part = "export" /\ TE!Init /\ Init
          /\ NoRecon /\ NoOpen /\ NoWindow /\ NoTrend /\ NoRecords /\ NoSnaps
       \/ /\ part = "snaps" /\ SN!Init /\ Init
          /\ NoRecon /\ NoOpen /\ NoWindow /\ NoTrend /\ NoRecords /\ NoExport

PartsNext ==
    \/ /\ part = "fetch" /\ Next
       /\ UNCHANGED <<part, recon, open, window, trend, records, export, snaps>>
    \/ /\ part = "recon" /\ RC!Next
       /\ UNCHANGED <<part, vars, open, window, trend, records, export, snaps>>
    \/ /\ part = "open" /\ TD!Next
       /\ UNCHANGED <<part, vars, recon, window, trend, records, export, snaps>>
    \/ /\ part = "window" /\ TW!Next
       /\ UNCHANGED <<part, vars, recon, open, trend, records, export, snaps>>
    \/ /\ part = "trend" /\ PT!Next
       /\ UNCHANGED <<part, vars, recon, open, window, records, export, snaps>>
    \/ /\ part = "records" /\ RE!Next
       /\ UNCHANGED <<part, vars, recon, open, window, trend, export, snaps>>
    \/ /\ part = "export" /\ TE!Next
       /\ UNCHANGED <<part, vars, recon, open, window, trend, records, snaps>>
    \/ /\ part = "snaps" /\ SN!Next
       /\ UNCHANGED <<part, vars, recon, open, window, trend, records, export>>

partsVars == <<part, vars, recon, open, window, trend, records, export, snaps>>

PartsSpec == PartsInit /\ [][PartsNext]_partsVars

-----------------------------------------------------------------------------
(* Properties *)

\* The type invariants of the components.
TypesOK ==
    /\ part = "fetch" => TypeOK
    /\ part = "recon" => RC!TypeOK
    /\ part = "open" => TD!TypeOK
    /\ part = "window" => TW!TypeOK
    /\ part = "trend" => PT!TypeOK
    /\ part = "records" => RE!TypeOK
    /\ part = "export" => TE!TypeOK
    /\ part = "snaps" => SN!TypeOK

\* Whoever asks for a full tick hears of its end once, and does hear of it, but for those
\* that joined too late (_on_whole_market_full_tick_done and its observers).
Heard == HeardOnce /\ HeardUnlessLate /\ GuardReopens

\* Each request to reconcile ends once, and an answer opens the gate of convergence
\* (ExecutionStateReconciler).
AnswerHeard == part = "recon" => RC!AnswerHeard

\* Nothing of today clobbers the day's open once a full tick has brought it, and a full tick
\* restores it after a late event of an earlier day (_set_authoritative_open).
FullTickOpenStays == part = "open" => TD!FullTickOpenStays

\* No cycle runs while the exchange is closed (_within_trading_window).
CycleOnlyWhenOpen == part = "window" => TW!CycleOnlyWhenOpen

\* The first depth event of the day is followed by a cycle (on_order_book_depth).
DepthConverges == part = "window" => TW!DepthConverges

\* The trend is that of the whole window, no less and no more (_execution_trend).
TrendIsOfWindow == part = "trend" => PT!TrendIsOfWindow

\* A task of the recorder that reports success has stored what the broker had, but for the
\* rows it skipped (_run_after_trading).
SuccessMeansStored == part = "records" => RE!SuccessMeansStored

\* The exported ticks of a day are one whole snapshot (replace_whole_market_tick_snapshots).
ExportIsWhole == part = "export" => TE!ExportIsWhole

\* A holding's span starts on the day it was entered (load_position_span_start_dates).
SpanStartIsEntry == part = "snaps" => SN!SpanStartIsEntry
=============================================================================
