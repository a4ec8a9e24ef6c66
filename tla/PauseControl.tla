----------------------------- MODULE PauseControl -----------------------------
(***************************************************************************)
(* The two switches of the control server: src/lives/control_server.py     *)
(* answers each request on its own thread, sets the strategy's flags, then *)
(* writes them to live_control_state, where the next start of the node     *)
(* reads them.                                                             *)
(*                                                                         *)
(* "trading" is the manual pause, with three copies in memory: the         *)
(* controller's, which the state page shows, the gate's, which stops       *)
(* convergence, and the suspend guard.  "updates" freezes the target map.  *)
(***************************************************************************)
EXTENDS Naturals

CONSTANTS
    Requests,      \* threads of the control server
    DatabaseFails  \* MySQL may be unavailable

Flags == {"trading", "updates"}
NoRow == [f \in Flags |-> FALSE]   \* a missing row loads as unset

ASSUME FailsAssumption == DatabaseFails \in BOOLEAN

VARIABLES
    controller,  \* TradingController._paused
    gate,        \* _trading_paused and _target_updates_paused
    suspended,   \* _convergence_suspended
    pc, job,     \* each thread's place, and its request: flag, value, what it has read
    writer,      \* the node has a control writer
    row,         \* live_control_state
    lost,        \* the switches whose last write failed, or that were not loaded
    answered,    \* what each switch was last answered to be
    crossed      \* history: the switches two requests were on at once, with none alone since

memory == <<controller, gate, suspended>>
vars   == <<controller, gate, suspended, pc, job, writer, row, lost, answered, crossed>>

NoJob == [flag |-> "trading", value |-> FALSE, read |-> FALSE]

Init ==
    /\ controller = FALSE /\ suspended = FALSE
    /\ gate = NoRow /\ row = NoRow /\ answered = NoRow
    /\ pc = [c \in Requests |-> "idle"]
    /\ job = [c \in Requests |-> NoJob]
    /\ writer = TRUE /\ lost = {} /\ crossed = {}

Quiet(f) == \A c \in Requests : pc[c] = "idle" \/ job[c].flag # f

Goto(c, here, there) == pc[c] = here /\ pc' = [pc EXCEPT ![c] = there]

-----------------------------------------------------------------------------
(* A request: _set_paused and _set_target_updates_paused *)

Begin(c, f, b) ==
    /\ Goto(c, "idle", IF f = "trading" THEN "controller" ELSE "gate")
    /\ job' = [job EXCEPT ![c] = [flag |-> f, value |-> b, read |-> b]]
    /\ crossed' = IF Quiet(f) THEN crossed \ {f} ELSE crossed \cup {f}
    /\ UNCHANGED <<memory, writer, row, lost, answered>>

SetController(c) ==
    /\ Goto(c, "controller", "reread")
    /\ controller' = job[c].value
    /\ UNCHANGED <<gate, suspended, job, writer, row, lost, answered, crossed>>

\* The controller passes on the flag it reads back, not its argument.
ReadBack(c) ==
    /\ Goto(c, "reread", "gate")
    /\ job' = [job EXCEPT ![c].read = controller]
    /\ UNCHANGED <<memory, writer, row, lost, answered, crossed>>

SetGate(c) ==
    /\ Goto(c, "gate", IF job[c].flag = "trading" THEN "suspend" ELSE "persist")
    /\ gate' = [gate EXCEPT ![job[c].flag] = job[c].read]
    /\ UNCHANGED <<controller, suspended, job, writer, row, lost, answered, crossed>>

SetSuspended(c) ==
    /\ Goto(c, "suspend", "persist")
    /\ suspended' = gate["trading"]
    /\ UNCHANGED <<controller, gate, job, writer, row, lost, answered, crossed>>

\* mutant of Upserted: the statement writes every column of the row
UpsertedWhole(f, b) == [NoRow EXCEPT ![f] = b]

\* mutant of Upserted: REPLACE, which leaves the other column out
UpsertedAlone(f, b) == [g \in {f} |-> b]

\* INSERT ... ON DUPLICATE KEY UPDATE of the one column
Upserted(f, b) == [row EXCEPT ![f] = b]

\* An exception of the database, like a missing writer, is passed over.
Persist(c) ==
    /\ Goto(c, "persist", "reply")
    /\ \/ /\ writer
          /\ row' = Upserted(job[c].flag, job[c].value)
          /\ lost' = lost \ {job[c].flag}
       \/ /\ ~writer \/ DatabaseFails
          /\ lost' = lost \cup {job[c].flag}
          /\ UNCHANGED row
    /\ UNCHANGED <<memory, job, writer, answered, crossed>>

\* ok: true, whatever became of the row
Reply(c) ==
    /\ Goto(c, "reply", "idle")
    /\ answered' = [answered EXCEPT ![job[c].flag] = job[c].value]
    /\ job' = [job EXCEPT ![c] = NoJob]
    /\ UNCHANGED <<memory, writer, row, lost, crossed>>

-----------------------------------------------------------------------------
(* The node stops at any point, and is built again *)

LoadedNothing(g) == [f \in Flags |-> FALSE]   \* mutant of Loaded

\* The flags are loaded one after the other; those before the failure are set.
Loaded(g) == [f \in Flags |-> f \in g /\ row[f]]

ControllerFresh(g) == FALSE   \* mutant of ControllerLoaded: only the gate is set

ControllerLoaded(g) == Loaded(g)["trading"]   \* set_paused sets both copies

Restart(g) ==
    /\ g = Flags \/ DatabaseFails
    /\ gate' = Loaded(g)
    /\ controller' = ControllerLoaded(g)
    /\ suspended' = Loaded(g)["trading"]
    /\ writer' = (g = Flags)
    /\ lost' = Flags \ g
    /\ pc' = [c \in Requests |-> "idle"]
    /\ job' = [c \in Requests |-> NoJob]
    /\ answered' = [f \in Flags |->
           IF f \notin g THEN FALSE
           ELSE IF f \in lost \cup crossed \/ ~Quiet(f) THEN row[f]
           ELSE answered[f]]   \* what was cut short, or not written, promised nothing
    /\ crossed' = {}
    /\ UNCHANGED row

Handle(c) ==
    SetController(c) \/ ReadBack(c) \/ SetGate(c) \/ SetSuspended(c) \/ Persist(c) \/ Reply(c)

Next ==
    \/ \E c \in Requests : Handle(c) \/ \E f \in Flags, b \in BOOLEAN : Begin(c, f, b)
    \/ \E g \in {{}, {"trading"}, Flags} : Restart(g)

Spec == Init /\ [][Next]_vars

-----------------------------------------------------------------------------
(* Properties *)

\* Types of the flags, of the threads' places and of the row.
TypeOK ==
    /\ controller \in BOOLEAN /\ suspended \in BOOLEAN /\ writer \in BOOLEAN
    /\ lost \subseteq Flags /\ crossed \subseteq Flags
    /\ gate \in [Flags -> BOOLEAN] /\ row \in [Flags -> BOOLEAN]
    /\ answered \in [Flags -> BOOLEAN]
    /\ pc \in [Requests -> {"idle", "controller", "reread", "gate", "suspend", "persist",
                           "reply"}]
    /\ job \in [Requests -> [flag : Flags, value : BOOLEAN, read : BOOLEAN]]

\* No request on the switch is under way, and the last to begin was alone on it: requests
\* that overlap may leave the copies, the row and the answers each as another of them said.
Settled(f) == Quiet(f) /\ f \notin crossed

\* What gates trading is what the switch's last answer said, through restarts, requests cut
\* short by one, overlapping ones before the last, and what the other switch does; a restart
\* takes back an answer whose write had failed.
AnswerHolds == \A f \in Flags : Settled(f) => gate[f] = answered[f]

\* "A manual pause survives a restart" (live_control_writer.py): what the next start would
\* load is what gates trading now, unless the database failed the switch last.
PauseSurvives == \A f \in Flags : Settled(f) /\ f \notin lost => row[f] = gate[f]

\* The controller's copy, which the state page shows, and the suspend guard of
\* update_target_quantities agree with the flag that gates trading ("Keep the suspend
\* guard consistent", control_set_paused_flag).
CopiesAgree == Settled("trading") => controller = gate["trading"] /\ suspended = gate["trading"]

\* Whatever overlapped, the row is what gates trading: TLC refutes it.
PauseSurvivesAlways == \A f \in Flags : Quiet(f) /\ f \notin lost => row[f] = gate[f]
=============================================================================
