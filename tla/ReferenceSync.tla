----------------------------- MODULE ReferenceSync -----------------------------
(***************************************************************************)
(* The scripts that copy reference data from ClickHouse to MySQL           *)
(* (src/scripts/_ch_mysql_sync.py, sync_trade_calendar.py,                 *)
(* sync_index_eod_price.py): read the current version of every row, upsert *)
(* them in batches in one transaction, count the row that matters, tell    *)
(* DingTalk.  Cron may start one while another still runs, and ClickHouse  *)
(* replaces a version in two steps.                                        *)
(***************************************************************************)
EXTENDS Naturals

CONSTANTS
    Jobs,       \* runs of a script
    Nobody,
    Days,       \* rows: one for each day, the last one being today
    Versions    \* versions of a row (bound)

VARIABLES
    script,     \* "calendar" or "index"
    source,     \* day -> version that ClickHouse marks as current, 0 without one
    version,    \* day -> versions there have been
    table,      \* day -> version in MySQL, 0 without a row
    lock,       \* day -> the job whose transaction has written the row, or Nobody
    stage,      \* job -> "off", "write", "count", "over"
    rows,       \* job -> what it read: day -> version, 0 if there was none
    written,    \* job -> days of which its transaction has sent the rows
    code,       \* job -> exit code, 9 before
    last        \* the job that committed last, or Nobody

clickhouse == <<script, source, version>>
vars == <<clickhouse, table, lock, stage, rows, written, code, last>>

Dates == 1 .. Days
NoRows == [d \in Dates |-> 0]

Init ==
    /\ script \in {"calendar", "index"}
    /\ source = [d \in Dates |-> 1] /\ version = source
    /\ table = NoRows /\ lock = [d \in Dates |-> Nobody]
    /\ stage = [j \in Jobs |-> "off"] /\ rows = [j \in Jobs |-> NoRows]
    /\ written = [j \in Jobs |-> {}] /\ code = [j \in Jobs |-> 9] /\ last = Nobody

-----------------------------------------------------------------------------
(* ClickHouse: a row is superseded, then its new version appears *)

Supersede(d) ==
    /\ source[d] # 0 /\ version[d] < Versions
    /\ source' = [source EXCEPT ![d] = 0]
    /\ UNCHANGED <<script, version, table, lock, stage, rows, written, code, last>>

Appear(d) ==
    /\ source[d] = 0
    /\ version' = [version EXCEPT ![d] = @ + 1] /\ source' = [source EXCEPT ![d] = version'[d]]
    /\ UNCHANGED <<script, table, lock, stage, rows, written, code, last>>

-----------------------------------------------------------------------------
(* A job *)

Ends(j, result) ==
    /\ stage' = [stage EXCEPT ![j] = "over"]
    /\ code' = [code EXCEPT ![j] = result]

\* An exception, or the end of the process: MySQL rolls the transaction back.
Fail(j) ==
    /\ stage[j] \in {"off", "write", "count"} /\ Ends(j, 2)
    /\ lock' = [d \in Dates |-> IF lock[d] = j THEN Nobody ELSE lock[d]]
    /\ UNCHANGED <<clickhouse, table, rows, written, last>>

\* clickhouse_select_json_each_row: one answer, with the current version of each row
Select == source

\* fetch_calendar, fetch_index_prices
Fetch(j) ==
    /\ stage[j] = "off"
    /\ stage' = [stage EXCEPT ![j] = "write"] /\ rows' = [rows EXCEPT ![j] = Select]
    /\ UNCHANGED <<clickhouse, table, lock, written, code, last>>

Read(j) == {d \in Dates : rows[j][d] # 0}
Put(j, days) == [d \in Dates |-> IF d \in days THEN rows[j][d] ELSE table[d]]

CommitEach(j, d) ==     \* mutant of Batch: each batch is committed
    /\ table' = Put(j, {d}) /\ UNCHANGED lock

\* upsert_rows: a batch waits for the rows that another transaction has written
Batch(j, d) ==
    /\ lock[d] = Nobody /\ lock' = [lock EXCEPT ![d] = j]
    /\ UNCHANGED table

\* The batches follow the order of the rows (ORDER BY).
Send(j) ==
    \E d \in Read(j) \ written[j] :
        /\ stage[j] = "write" /\ \A e \in Read(j) \ written[j] : d <= e
        /\ Batch(j, d) /\ written' = [written EXCEPT ![j] = @ \cup {d}]
        /\ UNCHANGED <<clickhouse, stage, rows, code, last>>

Commit(j) ==
    /\ stage[j] = "write" /\ written[j] = Read(j)
    /\ stage' = [stage EXCEPT ![j] = "count"]
    /\ table' = Put(j, Read(j)) /\ lock' = [d \in Dates |-> IF lock[d] = j THEN Nobody ELSE lock[d]]
    /\ last' = IF Read(j) = {} THEN last ELSE j
    /\ UNCHANGED <<clickhouse, rows, written, code>>

\* The row whose presence is the success: today's, or the latest of those read.
Counted(j) ==
    IF script = "calendar" THEN Days
    ELSE CHOOSE d \in Read(j) : \A e \in Read(j) : e <= d

Count(j) ==
    /\ stage[j] = "count"
    /\ IF (script = "index" /\ Read(j) = {}) \/ table[Counted(j)] = 0
         THEN Ends(j, 1) ELSE Ends(j, 0)
    /\ UNCHANGED <<clickhouse, table, lock, rows, written, last>>

Next ==
    \/ \E d \in Dates : Supersede(d) \/ Appear(d)
    \/ \E j \in Jobs : Fail(j) \/ Fetch(j) \/ Send(j) \/ Commit(j) \/ Count(j)

Spec == Init /\ [][Next]_vars

-----------------------------------------------------------------------------
(* Properties *)

\* Types of the state.
TypeOK ==
    /\ script \in {"calendar", "index"}
    /\ source \in [Dates -> 0 .. Versions] /\ version \in [Dates -> 1 .. Versions]
    /\ table \in [Dates -> 0 .. Versions] /\ lock \in [Dates -> Jobs \cup {Nobody}]
    /\ stage \in [Jobs -> {"off", "write", "count", "over"}]
    /\ rows \in [Jobs -> [Dates -> 0 .. Versions]]
    /\ code \in [Jobs -> {0, 1, 2, 9}] /\ last \in Jobs \cup {Nobody}

\* MySQL holds what one job read in one answer, with the rows that this answer lacked left
\* as they were: no failure and no overlap mixes in a part of another job.
SyncIsWhole ==
    last # Nobody => \A d \in Read(last) : table[d] = rows[last][d]
===============================================================================
