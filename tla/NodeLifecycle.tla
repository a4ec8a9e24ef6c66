----------------------------- MODULE NodeLifecycle -----------------------------
(***************************************************************************)
(* Building, running and ending live nodes on one machine                  *)
(* (src/lives/_target_model_node.py, live_qmt_target_model_predictions.py, *)
(* live_bigqmt_target_model_predictions.py, status_server.py and the       *)
(* life of control_server.py).  Several processes may overlap: a new node  *)
(* is started while the old one still ends.                                *)
(*                                                                         *)
(* A node binds two ports.  A status port that is taken ends the build; a  *)
(* control port that is taken does not.                                    *)
(***************************************************************************)
EXTENDS Naturals

CONSTANTS
    Nodes,      \* processes
    Nobody,
    Outages     \* times that MySQL goes away (bound)

VARIABLES
    stage,      \* node -> where its main stands
    owner,      \* port -> the node that listens, or Nobody
    writer,     \* node -> its LiveControlWriter
    loaded,     \* node -> the switches it has read from live_control_state
    mysql,      \* whether MySQL answers
    outages

vars == <<stage, owner, writer, loaded, mysql, outages>>

Stages ==
    {"off", "context", "clients", "assemble", "recorder", "status", "writer", "control", "built", "run",
     "ended", "closing", "stopped", "silent", "gone"}

Init ==
    /\ stage = [n \in Nodes |-> "off"]
    /\ owner = [p \in {"status", "control"} |-> Nobody]
    /\ writer = [n \in Nodes |-> "none"]
    /\ loaded = [n \in Nodes |-> 0]
    /\ mysql = TRUE /\ outages = 0

Move(n, from, to) == stage[n] = from /\ stage' = [stage EXCEPT ![n] = to]

\* The sockets and connections of a process end with it.
Dies(n) ==
    /\ stage' = [stage EXCEPT ![n] = "gone"]
    /\ owner' = [p \in DOMAIN owner |-> IF owner[p] = n THEN Nobody ELSE owner[p]]
    /\ writer' = [writer EXCEPT ![n] = "none"]
    /\ UNCHANGED <<loaded, mysql, outages>>

-----------------------------------------------------------------------------
(* build_target_model_node, in its order *)

Start(n) == Move(n, "off", "context") /\ UNCHANGED <<owner, writer, loaded, mysql, outages>>

\* Holdings are seeded if MySQL answers; predictions that cannot be loaded end the build.
LoadContext(n) ==
    \/ Move(n, "context", "clients") /\ UNCHANGED <<owner, writer, loaded, mysql, outages>>
    \/ stage[n] = "context" /\ Dies(n)

\* _make_venue_clients, that of the entry point
MakeClients(n) ==
    Move(n, "clients", "assemble") /\ UNCHANGED <<owner, writer, loaded, mysql, outages>>

\* The node, its strategy and what the strategy calls back; a bad configuration raises.
Assemble(n) ==
    \/ Move(n, "assemble", "recorder") /\ UNCHANGED <<owner, writer, loaded, mysql, outages>>
    \/ stage[n] = "assemble" /\ Dies(n)

\* The recorder's writer needs MySQL.
AddRecorder(n) ==
    \/ /\ mysql /\ Move(n, "recorder", "status")
       /\ UNCHANGED <<owner, writer, loaded, mysql, outages>>
    \/ ~mysql /\ stage[n] = "recorder" /\ Dies(n)

Bind(n, port) == owner' = [owner EXCEPT ![port] = n]

StartStatusAnyway(n) ==     \* mutant of StartStatus: a port that is taken is passed over
    /\ Move(n, "status", "writer")
    /\ IF owner["status"] = Nobody THEN Bind(n, "status") ELSE UNCHANGED owner
    /\ UNCHANGED <<writer, loaded, mysql, outages>>

\* LiveStatusServer.start: an OSError is nobody's to catch
StartStatus(n) ==
    \/ /\ owner["status"] = Nobody /\ Bind(n, "status")
       /\ Move(n, "status", "writer")
       /\ UNCHANGED <<writer, loaded, mysql, outages>>
    \/ owner["status"] # Nobody /\ stage[n] = "status" /\ Dies(n)

\* The writer and the two switches, read one after the other; MySQL may fail any of the
\* three, then there is no writer, and what was read stays set.
LoadSwitches(n) ==
    /\ Move(n, "writer", "control")
    /\ \E read \in 0 .. 2, opened \in BOOLEAN :
         /\ ~opened => read = 0
         /\ loaded' = [loaded EXCEPT ![n] = read]
         /\ writer' = [writer EXCEPT ![n] = IF opened /\ read = 2 THEN "open" ELSE "none"]
    /\ UNCHANGED <<owner, mysql, outages>>

\* LiveControlServer.start, or its stop when the port is taken
StartControl(n) ==
    /\ Move(n, "control", "built")
    /\ IF owner["control"] = Nobody
         THEN Bind(n, "control") /\ UNCHANGED writer
         ELSE /\ writer' = [writer EXCEPT ![n] = "none"]
              /\ UNCHANGED owner
    /\ UNCHANGED <<loaded, mysql, outages>>

-----------------------------------------------------------------------------
(* main *)

\* node.run, or with --build-only straight to the end
Run(n) ==
    /\ \E to \in {"run", "ended"} : Move(n, "built", to)
    /\ UNCHANGED <<owner, writer, loaded, mysql, outages>>

End(n) == Move(n, "run", "ended") /\ UNCHANGED <<owner, writer, loaded, mysql, outages>>

Release(n, port) ==
    owner' = [owner EXCEPT ![port] = IF owner[port] = n THEN Nobody ELSE owner[port]]

StatusReleasedFirst == "status" \* mutant of FirstReleased: status_server.stop() comes first

FirstReleased == "control"      \* finally: control_server.stop() comes first

Other(port) == IF port = "control" THEN "status" ELSE "control"

\* finally: one server is stopped, then the other; the control server gives its port up,
\* waits for its thread and then closes its writer
StopFirst(n) ==
    /\ Move(n, "ended", "closing")
    /\ Release(n, FirstReleased)
    /\ UNCHANGED <<writer, loaded, mysql, outages>>

CloseWriter(n) ==
    /\ Move(n, "closing", "stopped")
    /\ writer' = [writer EXCEPT ![n] = "none"]
    /\ UNCHANGED <<owner, loaded, mysql, outages>>

StopSecond(n) ==
    /\ Move(n, "stopped", "silent")
    /\ Release(n, Other(FirstReleased))
    /\ UNCHANGED <<writer, loaded, mysql, outages>>

Dispose(n) == stage[n] = "silent" /\ Dies(n)

-----------------------------------------------------------------------------
(* The surroundings *)

Kill(n) == stage[n] \notin {"off", "gone"} /\ Dies(n)

Outage ==
    /\ mysql /\ outages < Outages
    /\ mysql' = FALSE /\ outages' = outages + 1
    /\ UNCHANGED <<stage, owner, writer, loaded>>

Recovery ==
    /\ ~mysql /\ mysql' = TRUE
    /\ UNCHANGED <<stage, owner, writer, loaded, outages>>

Next ==
    \/ \E n \in Nodes :
         \/ Start(n) \/ LoadContext(n) \/ MakeClients(n) \/ Assemble(n) \/ AddRecorder(n)
         \/ StartStatus(n) \/ LoadSwitches(n) \/ StartControl(n) \/ Run(n) \/ End(n)
         \/ StopFirst(n) \/ CloseWriter(n) \/ StopSecond(n) \/ Dispose(n) \/ Kill(n)
    \/ Outage \/ Recovery

Spec == Init /\ [][Next]_vars

-----------------------------------------------------------------------------
(* Properties *)

\* Types of the state.
TypeOK ==
    /\ stage \in [Nodes -> Stages]
    /\ owner \in [{"status", "control"} -> Nodes \cup {Nobody}]
    /\ writer \in [Nodes -> {"none", "open"}]
    /\ loaded \in [Nodes -> 0 .. 2]
    /\ outages \in 0 .. Outages

\* Requests to pause or to sell reach the node that trades, and no other: although a taken
\* control port is tolerated, a node that got past its status port finds it free.
TradesUnderControl == \A n \in Nodes : stage[n] = "run" => owner["control"] = n

\* A node that stores switches has read all of them first, and no other node holds a port
\* before it has closed its writer: never do two of them write the switches.
WriterIsOwned ==
    \A n \in Nodes :
        writer[n] = "open" =>
            loaded[n] = 2 /\ owner["status"] = n /\ owner["control"] \in {n, Nobody}
===============================================================================
