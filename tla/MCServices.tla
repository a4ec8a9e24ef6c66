------------------------------- MODULE MCServices -------------------------------
(* What serves the operators and what sends the orders, side by side: the      *)
(* pause switches, the price and size of orders, the positions page, the       *)
(* account's value, the life of nodes, the health poll, the reports, the       *)
(* copying of reference data and the returns of a day.                         *)
(* A behaviour is one of the component chosen at the start; the others keep    *)
(* still, so the run has the sum of their states, not the product.             *)
EXTENDS PauseControl, Integers, Sequences

CONSTANTS
    Parts,                  \* the components to run
    OrderRules, OrderShares, Open, Offset, CapOffset, Band, Notional, Ladders, Threshold,
    Cancels,                \* of LimitOrders
    PagePrices, PageShares, PageDays, PageRestarts,     \* of PositionsView
    Price, Shares, Unsettled, Fields, InitialCash,      \* of AccountViews
    Nodes, Nobody, Outages, \* of NodeLifecycle
    Changes, AlertRules,    \* of HealthPoll
    Events, Rounds, Gauges, Own, \* of LiveReports
    Jobs, SyncDays, Versions,   \* of ReferenceSync
    ReturnDays, ReturnPrices, ReturnShares, Trades      \* of DailyReturns

ASSUME ServicesAssumption ==
    /\ PagePrices \subseteq Nat \ {0}
    /\ PageShares \in Nat /\ PageDays \in Nat \ {0} /\ PageRestarts \in Nat
    /\ \A p \in PagePrices, k \in 1 .. PageShares : p % k = 0    \* exact average prices
    /\ Price \in Nat \ {0} /\ Shares \in Nat
    /\ Nobody \notin Nodes \cup Jobs /\ Outages \in Nat
    /\ Changes \in Nat
    /\ Events \in Nat /\ Rounds \in Nat /\ DOMAIN Gauges = 1 .. Len(Gauges) /\ Len(Gauges) \in Nat
    /\ Own \in 0 .. Len(Gauges)
    /\ SyncDays \in Nat /\ Versions \in Nat \ {0}
    /\ ReturnDays \in Nat \ {0} /\ ReturnPrices \subseteq Nat
    /\ ReturnShares \in Nat /\ Trades \in Nat

\* What from_instrument lets through; the limits of a day are prices.
ASSUME OrderingAssumption ==
    /\ OrderRules \subseteq [min : Nat \ {0}, max : Nat, inc : Nat \ {0}, odd : BOOLEAN]
    /\ \A r \in OrderRules : r.min <= r.max /\ r.min % r.inc = 0 /\ r.max % r.inc = 0
    /\ OrderShares \in Nat /\ Notional \in Nat /\ Threshold \in Int /\ Cancels \in Nat
    /\ Open \in Nat /\ Band \in Nat /\ Band < Open
    /\ Offset \in Nat /\ CapOffset \in Nat
    /\ Ladders \subseteq Seq(Int \X Nat)

SomeRules ==
    {[min |-> 2, max |-> 6, inc |-> 2, odd |-> TRUE], [min |-> 3, max |-> 4, inc |-> 1, odd |-> TRUE],
     [min |-> 2, max |-> 8, inc |-> 1, odd |-> FALSE]}

SomeFields ==
    LET all == {"cash", "available_cash", "frozen_cash", "market_value", "total_asset"} IN
    {all, all \ {"market_value"}, all \ {"frozen_cash", "available_cash"}, {"total_asset"}, {}}

SomeAlerts ==
    LET all == {"running", "data", "exec", "reconciliation", "strategy", "proxy", "clickhouse"} IN
    {all, all \ {"reconciliation"}, all \ {"clickhouse"}, all \ {"proxy"}}

SomeGauges == <<"equity", "cash", "deferred", "rejected">>

SomeLadders ==
    {<<>>, <<<<1, 9>>>>, <<<<-3, 2>>, <<-4, 9>>>>, <<<<2, 1>>, <<4, 9>>>>}

VARIABLES
    part,   \* the component that runs
    side, rules, ladder, limit, frozen, position, target, orders, cancels,
    day, restarts, prev, opening, carried, bought, spent, selling, fills, avg, peak,
    closes, proceeds, can_use, pure,
    cash, asset_frozen, held, unsettled, info, equity,
    stage, owner, nodes_writer, loaded, mysql, outages,
    node, proxy, clickhouse, poll_rules, step, got, seen, alerts, sent, code, changes,
    process, reported, queue, posting, delivered, failed, account, round, next, gauge,
    up, finished,
    script, source, version, table, lock, sync_stage, rows, written, sync_code, last,
    returns_day, phase, preClose, close, opened, returns_held, returns_bought, sold,
    before, after, buys, sells, ticks, assets, returns_table, inputs

LO == INSTANCE LimitOrders WITH
    Rules <- OrderRules, Shares <- OrderShares
PV == INSTANCE PositionsView WITH
    Prices <- PagePrices, Shares <- PageShares, Days <- PageDays,
    Restarts <- PageRestarts
AV == INSTANCE AccountViews WITH
    frozen <- asset_frozen
NL == INSTANCE NodeLifecycle WITH
    writer <- nodes_writer
HP == INSTANCE HealthPoll WITH
    Rules <- AlertRules, rules <- poll_rules
LR == INSTANCE LiveReports
RS == INSTANCE ReferenceSync WITH
    Days <- SyncDays, stage <- sync_stage, code <- sync_code
DR == INSTANCE DailyReturns WITH
    Days <- ReturnDays, Prices <- ReturnPrices, Shares <- ReturnShares,
    day <- returns_day, held <- returns_held, bought <- returns_bought,
    table <- returns_table

\* The fields of an account event that are read, and the switches of live_status.
ASSUME FieldsAssumption ==
    /\ Fields \subseteq
         SUBSET {"cash", "available_cash", "frozen_cash", "market_value", "total_asset"}
    /\ AlertRules \subseteq SUBSET HP!AllRules

Idle == 0

ordering == <<side, rules, ladder, limit, frozen, position, target, orders, cancels>>
NoOrdering ==
    /\ side = Idle /\ rules = Idle /\ ladder = Idle /\ limit = Idle
    /\ frozen = Idle /\ position = Idle /\ target = Idle /\ orders = Idle
    /\ cancels = Idle
page == <<day, restarts, prev, opening, carried, bought, spent, selling, fills, avg,
          peak, closes, proceeds, can_use, pure>>
NoPage ==
    /\ day = Idle /\ restarts = Idle /\ prev = Idle /\ opening = Idle
    /\ carried = Idle /\ bought = Idle /\ spent = Idle /\ selling = Idle
    /\ fills = Idle /\ avg = Idle /\ peak = Idle /\ closes = Idle
    /\ proceeds = Idle /\ can_use = Idle /\ pure = Idle
asset == <<cash, asset_frozen, held, unsettled, info, equity>>
NoAsset ==
    /\ cash = Idle /\ asset_frozen = Idle /\ held = Idle /\ unsettled = Idle
    /\ info = Idle /\ equity = Idle
nodes == <<stage, owner, nodes_writer, loaded, mysql, outages>>
NoNodes ==
    /\ stage = Idle /\ owner = Idle /\ nodes_writer = Idle /\ loaded = Idle
    /\ mysql = Idle /\ outages = Idle
poll == <<node, proxy, clickhouse, poll_rules, step, got, seen, alerts, sent, code,
          changes>>
NoPoll ==
    /\ node = Idle /\ proxy = Idle /\ clickhouse = Idle /\ poll_rules = Idle
    /\ step = Idle /\ got = Idle /\ seen = Idle /\ alerts = Idle
    /\ sent = Idle /\ code = Idle /\ changes = Idle
reports == <<process, reported, queue, posting, delivered, failed, account, round, next,
             gauge, up, finished>>
NoReports ==
    /\ process = Idle /\ reported = Idle /\ queue = Idle /\ posting = Idle
    /\ delivered = Idle /\ failed = Idle /\ account = Idle /\ round = Idle
    /\ next = Idle /\ gauge = Idle /\ up = Idle /\ finished = Idle
sync == <<script, source, version, table, lock, sync_stage, rows, written, sync_code,
          last>>
NoSync ==
    /\ script = Idle /\ source = Idle /\ version = Idle /\ table = Idle
    /\ lock = Idle /\ sync_stage = Idle /\ rows = Idle /\ written = Idle
    /\ sync_code = Idle /\ last = Idle
returns == <<returns_day, phase, preClose, close, opened, returns_held, returns_bought,
             sold, before, after, buys, sells, ticks, assets, returns_table, inputs>>
NoReturns ==
    /\ returns_day = Idle /\ phase = Idle /\ preClose = Idle /\ close = Idle
    /\ opened = Idle /\ returns_held = Idle /\ returns_bought = Idle /\ sold = Idle
    /\ before = Idle /\ after = Idle /\ buys = Idle /\ sells = Idle
    /\ ticks = Idle /\ assets = Idle /\ returns_table = Idle /\ inputs = Idle

-----------------------------------------------------------------------------
PartsInit ==
    /\ part \in Parts
    /\ \/ /\ part = "switches" /\ Init
          /\ NoOrdering /\ NoPage /\ NoAsset /\ NoNodes /\ NoPoll /\ NoReports /\ NoSync /\ NoReturns
       \/ /\ part = "ordering" /\ LO!Init /\ Init
          /\ NoPage /\ NoAsset /\ NoNodes /\ NoPoll /\ NoReports /\ NoSync /\ NoReturns
       \/ /\ part = "page" /\ PV!Init /\ Init
          /\ NoOrdering /\ NoAsset /\ NoNodes /\ NoPoll /\ NoReports /\ NoSync /\ NoReturns
       \/ /\ part = "asset" /\ AV!Init /\ Init
          /\ NoOrdering /\ NoPage /\ NoNodes /\ NoPoll /\ NoReports /\ NoSync /\ NoReturns
       \/ /\ part = "nodes" /\ NL!Init /\ Init
          /\ NoOrdering /\ NoPage /\ NoAsset /\ NoPoll /\ NoReports /\ NoSync /\ NoReturns
       \/ /\ part = "poll" /\ HP!Init /\ Init
          /\ NoOrdering /\ NoPage /\ NoAsset /\ NoNodes /\ NoReports /\ NoSync /\ NoReturns
       \/ /\ part = "reports" /\ LR!Init /\ Init
          /\ NoOrdering /\ NoPage /\ NoAsset /\ NoNodes /\ NoPoll /\ NoSync /\ NoReturns
       \/ /\ part = "sync" /\ RS!Init /\ Init
          /\ NoOrdering /\ NoPage /\ NoAsset /\ NoNodes /\ NoPoll /\ NoReports /\ NoReturns
       \/ /\ part = "returns" /\ DR!Init /\ Init
          /\ NoOrdering /\ NoPage /\ NoAsset /\ NoNodes /\ NoPoll /\ NoReports /\ NoSync

PartsNext ==
    \/ /\ part = "switches" /\ Next
       /\ UNCHANGED <<part, ordering, page, asset, nodes, poll, reports, sync, returns>>
    \/ /\ part = "ordering" /\ LO!Next
       /\ UNCHANGED <<part, vars, page, asset, nodes, poll, reports, sync, returns>>
    \/ /\ part = "page" /\ PV!Next
       /\ UNCHANGED <<part, vars, ordering, asset, nodes, poll, reports, sync, returns>>
    \/ /\ part = "asset" /\ AV!Next
       /\ UNCHANGED <<part, vars, ordering, page, nodes, poll, reports, sync, returns>>
    \/ /\ part = "nodes" /\ NL!Next
       /\ UNCHANGED <<part, vars, ordering, page, asset, poll, reports, sync, returns>>
    \/ /\ part = "poll" /\ HP!Next
       /\ UNCHANGED <<part, vars, ordering, page, asset, nodes, reports, sync, returns>>
    \/ /\ part = "reports" /\ LR!Next
       /\ UNCHANGED <<part, vars, ordering, page, asset, nodes, poll, sync, returns>>
    \/ /\ part = "sync" /\ RS!Next
       /\ UNCHANGED <<part, vars, ordering, page, asset, nodes, poll, reports, returns>>
    \/ /\ part = "returns" /\ DR!Next
       /\ UNCHANGED <<part, vars, ordering, page, asset, nodes, poll, reports, sync>>

partsVars == <<part, vars, ordering, page, asset, nodes, poll, reports, sync, returns>>

PartsSpec ==
    /\ PartsInit /\ [][PartsNext]_partsVars
    /\ WF_ordering(part = "ordering" /\ LO!SendAny)
    /\ WF_ordering(part = "ordering" /\ LO!AgeAny)
    /\ WF_ordering(part = "ordering" /\ LO!TimeoutAny)

-----------------------------------------------------------------------------
(* Properties *)

\* The type invariants of the components.
TypesOK ==
    /\ part = "switches" => TypeOK
    /\ part = "ordering" => LO!TypeOK
    /\ part = "page" => PV!TypeOK
    /\ part = "asset" => AV!TypeOK
    /\ part = "nodes" => NL!TypeOK
    /\ part = "poll" => HP!TypeOK
    /\ part = "reports" => LR!TypeOK
    /\ part = "sync" => RS!TypeOK
    /\ part = "returns" => DR!TypeOK

\* What an operator was answered is what gates trading, and the copies of the switch agree
\* (_set_paused, control_set_paused_flag).
SwitchesAgree == AnswerHolds /\ CopiesAgree

\* The splitter leaves no share behind that legal orders could trade
\* (NotionalOrderSplitter).
SplitIsBest == part = "ordering" => LO!SplitIsBest

\* An order that nobody fills ends up crossing the book or at a limit
\* (_reconcile_unfilled_orders and the open-offset pricers).
ReachesBook == []<>(part = "ordering" => LO!Settled)

\* The value a plan is sized on, and the total the page rebuilds, are what the account is
\* worth (_portfolio_value, _asset_payload).
AccountIsRead == part = "asset" => AV!SizedOnWorth /\ AV!PageTellsWorth

\* As the comment in _portfolio_value has it, whatever value of the holdings is sent.
SizedOnTotalAsset == part = "asset" => AV!SizedOnTotalAsset

\* A node that trades is the one that operators reach, and the one that stores what they
\* ask for (build_target_model_node and main's finally).
TradesUnderControl == part = "nodes" => NL!TradesUnderControl /\ NL!WriterIsOwned

\* What is told without being asked is so: the poller's silence, the order of DingTalk's
\* messages, qapp_exporter_up (check_live_status, FixedTimeEventReporter, PrometheusExporter).
ReportsAreTrue ==
    /\ part = "poll" => HP!QuietMeansHealthy
    /\ part = "reports" => LR!ToldInOrder /\ LR!UpMeansFresh

\* MySQL's copy of the reference data is that of one job, whole (upsert_rows).
SyncIsWhole == part = "sync" => RS!SyncIsWhole

\* The profit of a day is what cash and prices say: that of a row of the page (_open_row,
\* _closed_row), and that of a report made from rows enough (calculate_records).
ProfitIsReal ==
    /\ part = "page" => PV!DayPnlIsReal
    /\ part = "returns" => DR!ReturnIsReal
=============================================================================
