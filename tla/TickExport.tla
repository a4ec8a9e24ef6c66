------------------------------ MODULE TickExport ------------------------------
(***************************************************************************)
(* The export of the whole market's ticks after the close                  *)
(* (src/lives/snapshot_recorder.py) into live_stock_tick_snapshot.  The    *)
(* table has no account column: every trading process of the firm exports  *)
(* into the same rows of the day.                                          *)
(***************************************************************************)
EXTENDS Naturals, FiniteSets

CONSTANTS
    Procs,     \* the trading processes
    Ids,       \* instruments
    Restarts   \* how often a process may be restarted (bound)

VARIABLES
    market,    \* each process's whole-market map: none, unpriced, priced
    final,     \* whether its final refresh has succeeded
    pc,        \* idle, refresh, check, write
    snap,      \* the copy it exports
    rows,      \* the table: schema version (0: no row) and whether the price is valid
    told,      \* what the export came to
    restarts

vars == <<market, final, pc, snap, rows, told, restarts>>

Ticks  == [Ids -> {"none", "unpriced", "priced"}]
Empty  == [i \in Ids |-> "none"]
In(s)  == {i \in Ids : s[i] # "none"}
Priced(s) == {i \in Ids : s[i] = "priced"}

CurrentVersion == 2

\* The day's rows may be those of a process that still wrote the old schema.
Init ==
    /\ market = [p \in Procs |-> Empty] /\ final = [p \in Procs |-> FALSE]
    /\ pc = [p \in Procs |-> "idle"] /\ snap = market
    /\ rows \in {[i \in Ids |-> [v |-> IF i \in old THEN 1 ELSE 0, priced |-> i \in old]] :
                   old \in SUBSET Ids}
    /\ told = [p \in Procs |-> "none"] /\ restarts = 0

\* A fetch is applied on the loop; instruments it lacks stay as they were.
Refresh(p, s) ==
    /\ market' = [market EXCEPT ![p] = [i \in Ids |-> IF s[i] = "none" THEN @[i] ELSE s[i]]]
    /\ final' = [final EXCEPT ![p] = TRUE]

Begin(p) ==
    /\ pc[p] = "idle"
    /\ pc' = [pc EXCEPT ![p] = IF final[p] THEN "check" ELSE "refresh"]
    /\ told' = [told EXCEPT ![p] = "none"] /\ snap' = [snap EXCEPT ![p] = Empty]
    /\ UNCHANGED <<market, final, rows, restarts>>

\* The observer of the refresh it asked for.
Refreshed(p, s) ==
    /\ pc[p] = "refresh"
    /\ Refresh(p, s)
    /\ pc' = [pc EXCEPT ![p] = "check"]
    /\ UNCHANGED <<snap, rows, told, restarts>>

RefreshFails(p) ==
    /\ pc[p] = "refresh"
    /\ pc' = [pc EXCEPT ![p] = "idle"] /\ told' = [told EXCEPT ![p] = "failed"]
    /\ UNCHANGED <<market, final, snap, rows, restarts>>

TimerRefresh(p, s) ==
    /\ pc[p] = "write"      \* while the export is at the database
    /\ s # Empty /\ Refresh(p, s)
    /\ UNCHANGED <<pc, snap, rows, told, restarts>>

Stored(ids) == {i \in ids : rows[i].v > 0}

CurrentByTotal(s) ==     \* mutant of Current: the summary counts the day's rows
    /\ Stored(Ids) # {} /\ \A i \in Stored(Ids) : rows[i].v = CurrentVersion
    /\ Cardinality(Stored(Ids)) >= Cardinality(In(s))
    /\ Cardinality({i \in Stored(Ids) : rows[i].priced}) >= Cardinality(Priced(s))

\* _whole_market_snapshot_is_current: counts and the least version over the snapshot's ids
Current(s) ==
    /\ Stored(In(s)) # {} /\ \A i \in Stored(In(s)) : rows[i].v = CurrentVersion
    /\ Cardinality(Stored(In(s))) >= Cardinality(In(s))
    /\ Cardinality({i \in Stored(In(s)) : rows[i].priced}) >= Cardinality(Priced(s))

\* readable: the summary query did not fail
Check(p, readable) ==
    LET s == market[p]
    IN  /\ pc[p] = "check"
        /\ snap' = [snap EXCEPT ![p] = s]
        /\ told' = [told EXCEPT ![p] = IF In(s) = {} THEN "empty"
                                       ELSE IF readable /\ Current(s) THEN "current" ELSE "none"]
        /\ pc' = [pc EXCEPT ![p] = IF In(s) = {} \/ (readable /\ Current(s))
                                     THEN "idle" ELSE "write"]
        /\ UNCHANGED <<market, final, rows, restarts>>

DeletedAlone(s) ==       \* mutant of RolledBack: the DELETE was committed
    [i \in Ids |-> IF i \in In(s) THEN [v |-> 0, priced |-> FALSE] ELSE rows[i]]

RolledBack(s) == rows

\* DELETE of the snapshot's ids and INSERT in one transaction
Replaced(s) ==
    [i \in Ids |-> IF i \in In(s) THEN [v |-> CurrentVersion, priced |-> s[i] = "priced"]
                   ELSE rows[i]]

Replace(p, w) ==
    /\ pc[p] = "write"
    /\ rows' = IF w = "ok" THEN Replaced(snap[p]) ELSE RolledBack(snap[p])
    /\ told' = [told EXCEPT ![p] = IF w = "ok" THEN "success" ELSE "failed"]
    /\ pc' = [pc EXCEPT ![p] = "idle"]
    /\ UNCHANGED <<market, final, snap, restarts>>

Restart(p) ==
    /\ restarts < Restarts /\ restarts' = restarts + 1
    /\ market' = [market EXCEPT ![p] = Empty] /\ final' = [final EXCEPT ![p] = FALSE]
    /\ pc' = [pc EXCEPT ![p] = "idle"]
    /\ snap' = [snap EXCEPT ![p] = Empty] /\ told' = [told EXCEPT ![p] = "none"]
    /\ UNCHANGED rows

Next ==
    \E p \in Procs :
        \/ Begin(p) \/ RefreshFails(p) \/ Restart(p)
        \/ \E s \in Ticks : Refreshed(p, s) \/ TimerRefresh(p, s)
        \/ \E readable \in BOOLEAN : Check(p, readable)
        \/ \E w \in {"ok", "failed"} : Replace(p, w)

Spec == Init /\ [][Next]_vars

-----------------------------------------------------------------------------
(* Properties *)

\* Types of the maps, the rows and the results.
TypeOK ==
    /\ market \in [Procs -> Ticks] /\ snap \in [Procs -> Ticks] /\ final \in [Procs -> BOOLEAN]
    /\ pc \in [Procs -> {"idle", "refresh", "check", "write"}]
    /\ rows \in [Ids -> [v : 0..CurrentVersion, priced : BOOLEAN]]
    /\ told \in [Procs -> {"none", "failed", "empty", "current", "success"}]

\* What an export reports as written or as already current is in the table, every instrument
\* of its snapshot in the current schema, whatever the other processes' exports do, whether
\* they succeed, fail half-way or are killed.
ExportIsWhole ==
    \A p \in Procs :
        told[p] \in {"success", "current"} =>
            \A i \in In(snap[p]) : rows[i].v = CurrentVersion

\* With several processes: a valid price is not replaced by a missing one.
PricesKept == [][\A i \in Ids : rows[i].v = CurrentVersion /\ rows[i].priced => rows'[i].priced]_rows
===============================================================================
