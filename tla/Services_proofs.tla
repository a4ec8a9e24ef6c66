------------------------------ MODULE Services_proofs ------------------------------
(***************************************************************************)
(* Why what serves the operators is right, component by component: an      *)
(* inductive invariant for each, the lemmas that its steps keep it, and at *)
(* the end one theorem for each property that the run of MCServices        *)
(* checks.  The splitting of orders is in Ordering_proofs.                 *)
(***************************************************************************)
EXTENDS MCServices, Ordering_proofs, FiniteSetTheorems, SequenceTheorems

-----------------------------------------------------------------------------
(* The pause switches.  Two requests under way on one switch have crossed; for *)
(* each request that has not, the invariant says which of the copies it has    *)
(* brought to its value so far.                                                *)

\* A request goes through its switch's steps, and shares the switch with no other request
\* unless the two have crossed.
InPlace ==
    /\ \A c \in Requests :
          pc[c] \in {"controller", "reread", "suspend"} => job[c].flag = "trading"
    /\ \A c, d \in Requests :
          c # d /\ pc[c] # "idle" /\ pc[d] # "idle" /\ job[c].flag = job[d].flag
              => job[c].flag \in crossed

\* What the request has brought to its value by the time it is where it is.
Brought ==
    \A c \in Requests : job[c].flag \notin crossed =>
        /\ pc[c] \in {"reread", "gate", "suspend", "persist", "reply"}
              /\ job[c].flag = "trading" => controller = job[c].value
        /\ pc[c] \in {"gate", "suspend", "persist", "reply"} => job[c].read = job[c].value
        /\ pc[c] \in {"suspend", "persist", "reply"} => gate[job[c].flag] = job[c].value
        /\ pc[c] \in {"persist", "reply"} /\ job[c].flag = "trading" =>
              suspended = job[c].value
        /\ pc[c] = "reply" /\ job[c].flag \notin lost => row[job[c].flag] = job[c].value

Promises == AnswerHolds /\ PauseSurvives /\ CopiesAgree

IInv == TypeOK /\ InPlace /\ Brought /\ Promises

LEMMA InitIInv == Init => IInv
<1> SUFFICES ASSUME Init PROVE IInv
    OBVIOUS
<1>1. TypeOK
    BY DEF Init, TypeOK, NoRow, NoJob, Flags
<1>2. InPlace /\ Brought
    BY DEF Init, InPlace, Brought
<1>3. Promises
    BY DEF Init, Promises, AnswerHolds, PauseSurvives, CopiesAgree, Settled, NoRow, Flags
<1> QED
    BY <1>1, <1>2, <1>3 DEF IInv

\* While c is under way on a switch, and stays so, the switch is not quiet; the
\* others are as quiet as they were.
LEMMA StaysUnderWay ==
    ASSUME TypeOK, NEW c \in Requests, pc[c] # "idle", pc'[c] # "idle",
           \A d \in Requests \ {c} : pc'[d] = pc[d] /\ job'[d] = job[d],
           job'[c].flag = job[c].flag
    PROVE  /\ ~Quiet(job[c].flag)'
           /\ \A f \in Flags : Quiet(f)' => Quiet(f) /\ f # job[c].flag
BY DEF Quiet, TypeOK

LEMMA BeginKeeps ==
    ASSUME IInv, NEW c \in Requests, NEW f \in Flags, NEW b \in BOOLEAN,
           Begin(c, f, b)
    PROVE  IInv'
<1>1. TypeOK'
    BY DEF IInv, TypeOK, Begin, Goto, memory
<1>2. /\ pc[c] = "idle" /\ pc'[c] = IF f = "trading" THEN "controller" ELSE "gate"
      /\ job'[c].flag = f /\ job'[c].value = b /\ job'[c].read = b
      /\ \A d \in Requests \ {c} : pc'[d] = pc[d] /\ job'[d] = job[d]
    BY DEF IInv, TypeOK, Begin, Goto
<1>5. ASSUME NEW d \in Requests, d # c, pc[d] # "idle"
      PROVE  job[d].flag \in crossed' <=> job[d].flag \in crossed \/ job[d].flag = f
    BY <1>5 DEF IInv, TypeOK, Quiet, Begin
<1>6. InPlace'
    <2>1. \A d \in Requests :
              pc'[d] \in {"controller", "reread", "suspend"} => job'[d].flag = "trading"
        BY <1>2 DEF IInv, InPlace
    <2>2. ASSUME NEW d \in Requests, NEW e \in Requests, d # e, pc'[d] # "idle",
                 pc'[e] # "idle", job'[d].flag = job'[e].flag
          PROVE  job'[d].flag \in crossed'
        BY <1>2, <1>5, <2>2 DEF IInv, InPlace
    <2> QED
        BY <2>1, <2>2 DEF InPlace
<1>7. Brought'
    <2>1. \A d \in Requests \ {c} :
              pc[d] # "idle" /\ job[d].flag \notin crossed' => job[d].flag \notin crossed
        BY <1>5
    <2>2. UNCHANGED <<controller, gate, suspended, row, lost>>
        BY DEF Begin, memory
    <2> QED
        BY <1>2, <2>1, <2>2 DEF IInv, Brought
<1>3. \A g \in Flags : Quiet(g)' => Quiet(g) /\ (g \in crossed' <=> g \in crossed)
    BY DEF IInv, TypeOK, Quiet, Begin, Goto
<1>4. Promises'
    BY <1>3 DEF IInv, Promises, AnswerHolds, PauseSurvives, CopiesAgree, Settled, Begin, memory,
        Flags
<1> QED
    BY <1>1, <1>4, <1>6, <1>7 DEF IInv

LEMMA SetControllerKeeps ==
    ASSUME IInv, NEW c \in Requests, SetController(c)
    PROVE  IInv'
<1>1. TypeOK'
    BY DEF IInv, TypeOK, SetController, Goto
<1>2. \A d \in Requests :
          pc[d] # "idle" /\ job[d].flag = "trading" /\ "trading" \notin crossed => d = c
    BY DEF IInv, InPlace, SetController, Goto
<1>3. InPlace' /\ Brought'
    BY <1>2 DEF IInv, TypeOK, InPlace, Brought, SetController, Goto
<1>4. \A f \in Flags : Quiet(f)' => Quiet(f) /\ f # "trading"
    BY StaysUnderWay DEF IInv, TypeOK, InPlace, SetController, Goto
<1>5. Promises'
    BY <1>4 DEF IInv, Promises, AnswerHolds, PauseSurvives, CopiesAgree, Settled, SetController,
        Flags
<1> QED
    BY <1>1, <1>3, <1>5 DEF IInv

LEMMA ReadBackKeeps ==
    ASSUME IInv, NEW c \in Requests, ReadBack(c)
    PROVE  IInv'
<1>1. TypeOK'
    BY DEF IInv, TypeOK, ReadBack, Goto, memory
<1>2. InPlace' /\ Brought'
    BY DEF IInv, TypeOK, InPlace, Brought, ReadBack, Goto, memory
<1>3. \A f \in Flags : Quiet(f)' => Quiet(f)
    BY StaysUnderWay DEF IInv, TypeOK, ReadBack, Goto
<1>4. Promises'
    BY <1>3 DEF IInv, Promises, AnswerHolds, PauseSurvives, CopiesAgree, Settled, ReadBack,
        memory, Flags
<1> QED
    BY <1>1, <1>2, <1>4 DEF IInv

LEMMA SetGateKeeps ==
    ASSUME IInv, NEW c \in Requests, SetGate(c)
    PROVE  IInv'
<1>1. TypeOK'
    BY DEF IInv, TypeOK, SetGate, Goto
<1>2. \A d \in Requests :
          pc[d] # "idle" /\ job[d].flag = job[c].flag /\ job[c].flag \notin crossed => d = c
    BY DEF IInv, InPlace, SetGate, Goto
<1>3. InPlace' /\ Brought'
    BY <1>2 DEF IInv, TypeOK, InPlace, Brought, SetGate, Goto
<1>4. \A f \in Flags : Quiet(f)' => Quiet(f) /\ f # job[c].flag
    BY StaysUnderWay DEF IInv, TypeOK, SetGate, Goto
<1>5. Promises'
    BY <1>4 DEF IInv, TypeOK, Promises, AnswerHolds, PauseSurvives, CopiesAgree, Settled, SetGate,
        Flags
<1> QED
    BY <1>1, <1>3, <1>5 DEF IInv

LEMMA SetSuspendedKeeps ==
    ASSUME IInv, NEW c \in Requests, SetSuspended(c)
    PROVE  IInv'
<1>1. TypeOK'
    BY DEF IInv, TypeOK, SetSuspended, Goto, Flags
<1>2. \A d \in Requests :
          pc[d] # "idle" /\ job[d].flag = "trading" /\ "trading" \notin crossed => d = c
    BY DEF IInv, InPlace, SetSuspended, Goto
<1>3. InPlace' /\ Brought'
    BY <1>2 DEF IInv, TypeOK, InPlace, Brought, SetSuspended, Goto
<1>4. \A f \in Flags : Quiet(f)' => Quiet(f) /\ f # "trading"
    BY StaysUnderWay DEF IInv, TypeOK, InPlace, SetSuspended, Goto
<1>5. Promises'
    BY <1>4 DEF IInv, Promises, AnswerHolds, PauseSurvives, CopiesAgree, Settled, SetSuspended,
        Flags
<1> QED
    BY <1>1, <1>3, <1>5 DEF IInv

LEMMA PersistKeeps ==
    ASSUME IInv, NEW c \in Requests, Persist(c)
    PROVE  IInv'
<1>1. TypeOK'
    BY DEF IInv, TypeOK, Persist, Goto, memory, Upserted
<1>2. \A d \in Requests :
          pc[d] # "idle" /\ job[d].flag = job[c].flag /\ job[c].flag \notin crossed => d = c
    BY DEF IInv, InPlace, Persist, Goto
<1>3. /\ \A f \in Flags \ {job[c].flag} : row'[f] = row[f] /\ (f \in lost' <=> f \in lost)
      /\ job[c].flag \notin lost' => row'[job[c].flag] = job[c].value
    BY DEF IInv, TypeOK, Persist, Upserted
<1>4. InPlace' /\ Brought'
    BY <1>2, <1>3 DEF IInv, TypeOK, InPlace, Brought, Persist, Goto, memory
<1>5. \A f \in Flags : Quiet(f)' => Quiet(f) /\ f # job[c].flag
    BY StaysUnderWay DEF IInv, TypeOK, Persist, Goto
<1>6. Promises'
    BY <1>3, <1>5
    DEF IInv, TypeOK, Promises, AnswerHolds, PauseSurvives, CopiesAgree, Settled, Persist, memory,
        Flags
<1> QED
    BY <1>1, <1>4, <1>6 DEF IInv

\* The request ends: its switch may be quiet from now on, and all copies are at its value.
LEMMA ReplyKeeps ==
    ASSUME IInv, NEW c \in Requests, Reply(c)
    PROVE  IInv'
<1>1. TypeOK'
    BY DEF IInv, TypeOK, Reply, Goto, memory, NoJob, Flags
<1>2. InPlace' /\ Brought'
    BY DEF IInv, TypeOK, InPlace, Brought, Reply, Goto, memory
<1>3. \A f \in Flags \ {job[c].flag} : Quiet(f)' => Quiet(f)
    BY DEF IInv, TypeOK, Quiet, Reply, Goto
<1>4. job[c].flag \notin crossed =>
        /\ gate[job[c].flag] = job[c].value
        /\ job[c].flag = "trading" => controller = job[c].value /\ suspended = job[c].value
        /\ job[c].flag \notin lost => row[job[c].flag] = job[c].value
    BY DEF IInv, Brought, Reply, Goto
<1>5. AnswerHolds' /\ PauseSurvives'
    BY <1>3, <1>4
    DEF IInv, TypeOK, Promises, AnswerHolds, PauseSurvives, Settled, Reply, memory
<1>6. CopiesAgree'
    BY <1>3, <1>4 DEF IInv, TypeOK, Promises, CopiesAgree, Settled, Reply, memory, Flags
<1> QED
    BY <1>1, <1>2, <1>5, <1>6 DEF IInv, Promises

LEMMA RestartKeeps ==
    ASSUME IInv, NEW g \in {{}, {"trading"}, Flags}, Restart(g)
    PROVE  IInv'
<1>1. TypeOK'
    BY DEF IInv, TypeOK, Restart, Loaded, ControllerLoaded, NoJob, Flags
<1>2. InPlace' /\ Brought'
    BY DEF IInv, TypeOK, InPlace, Brought, Restart
<1>3. ASSUME NEW f \in Flags PROVE gate'[f] = answered'[f]
    <2>1. CASE f \in g /\ Settled(f) /\ f \notin lost
        BY <2>1 DEF IInv, TypeOK, Promises, AnswerHolds, PauseSurvives, Settled, Restart, Loaded
    <2>2. CASE f \notin g \/ f \in lost \cup crossed \/ ~Quiet(f)
        BY <2>2 DEF IInv, TypeOK, Restart, Loaded
    <2> QED
        BY <2>1, <2>2 DEF Settled
<1>4. AnswerHolds' /\ PauseSurvives' /\ CopiesAgree'
    BY <1>3 DEF IInv, TypeOK, AnswerHolds, PauseSurvives, CopiesAgree, Settled, Restart, Loaded,
                ControllerLoaded, Flags
<1> QED
    BY <1>1, <1>2, <1>4 DEF IInv, Promises

LEMMA NextKeeps ==
    ASSUME IInv, [Next]_vars
    PROVE  IInv'
<1>1. CASE \E c \in Requests, f \in Flags, b \in BOOLEAN : Begin(c, f, b)
    BY <1>1, BeginKeeps
<1>2. CASE \E c \in Requests : Handle(c)
    BY <1>2, SetControllerKeeps, ReadBackKeeps, SetGateKeeps, SetSuspendedKeeps, PersistKeeps,
       ReplyKeeps DEF Handle
<1>3. CASE \E g \in {{}, {"trading"}, Flags} : Restart(g)
    BY <1>3, RestartKeeps
<1>4. CASE UNCHANGED vars
    BY <1>4 DEF vars, memory, IInv, TypeOK, InPlace, Brought, Promises, AnswerHolds,
                PauseSurvives, CopiesAgree, Settled, Quiet
<1> QED
    BY <1>1, <1>2, <1>3, <1>4 DEF Next

\* Both switches hold what was answered, survive a restart unless the database failed them,
\* and have copies that agree, through any number of operators, requests that overlap,
\* restarts and failures: where two requests on one switch overlapped, again as soon as one
\* has run alone (LiveControlServer._set_paused and _persist_paused).
THEOREM SwitchesSafe ==
    Spec => [](TypeOK /\ AnswerHolds /\ PauseSurvives /\ CopiesAgree)
<1>1. Init => IInv
    BY InitIInv
<1>2. IInv /\ [Next]_vars => IInv'
    BY NextKeeps
<1>3. IInv => TypeOK /\ AnswerHolds /\ PauseSurvives /\ CopiesAgree
    BY DEF IInv, Promises
<1> QED
    BY <1>1, <1>2, <1>3, PTL DEF Spec

-----------------------------------------------------------------------------
(* The life of nodes.  The status port is taken before the control port and    *)
(* given up after it, so that who holds the status port meets nobody at the    *)
(* control port.                                                               *)

TwoPorts == {"status", "control"}

\* Nobody is not a node, and the bound of a run is a number.
NodesAssumption == Nobody \notin Nodes /\ Outages \in Nat

\* From the status server's start to the stop of the control server and beyond, the status
\* port is the node's.
HoldsStatus ==
    \A n \in Nodes :
        stage[n] \in {"writer", "control", "built", "run", "ended", "closing", "stopped"} =>
            owner["status"] = n

\* The control port is held by the node that has started its server, and by no other.
HoldsControl ==
    \A n \in Nodes : stage[n] \in {"built", "run", "ended"} <=> owner["control"] = n

\* A writer is open from the reading of the switches to its close.
WriterStages ==
    \A n \in Nodes : nodes_writer[n] = "open" =>
        loaded[n] = 2 /\ stage[n] \in {"control", "built", "run", "ended", "closing"}

NodesInv == NL!TypeOK /\ HoldsStatus /\ HoldsControl /\ WriterStages

LEMMA NodesStart == ASSUME NodesAssumption, NL!Init PROVE NodesInv
<1>1. NL!TypeOK
    BY DEF NodesAssumption, NL!Init, NL!TypeOK, NL!Stages
<1>2. HoldsStatus /\ HoldsControl /\ WriterStages
    BY DEF NodesAssumption, NL!Init, HoldsStatus, HoldsControl, WriterStages
<1> QED
    BY <1>1, <1>2 DEF NodesInv

\* A node that ends, by itself or killed, takes nothing from the others.
LEMMA DiesKeeps ==
    ASSUME NodesAssumption, NodesInv, NEW n \in Nodes, NL!Dies(n)
    PROVE  NodesInv'
<1> USE DEF NodesAssumption, NodesInv, NL!Dies
<1>1. NL!TypeOK'
    BY DEF NL!TypeOK, NL!Stages
<1>2. \A m \in Nodes \ {n} : stage'[m] = stage[m] /\ nodes_writer'[m] = nodes_writer[m]
    BY DEF NL!TypeOK
<1>3. stage'[n] = "gone" /\ nodes_writer'[n] = "none"
    BY DEF NL!TypeOK
<1>4. \A p \in TwoPorts : owner'[p] = IF owner[p] = n THEN Nobody ELSE owner[p]
    BY DEF NL!TypeOK, TwoPorts
<1>5. HoldsStatus'
    BY <1>2, <1>3, <1>4 DEF HoldsStatus, TwoPorts
<1>6. HoldsControl'
    BY <1>2, <1>3, <1>4 DEF HoldsControl, TwoPorts
<1>7. WriterStages'
    BY <1>2, <1>3, <1>4 DEF WriterStages, TwoPorts
<1> QED
    BY <1>1, <1>5, <1>6, <1>7

\* A step within the stages before the status port, or from one of those in which both
\* ports are held to another, concerns no port and no writer.
LEMMA MoveKeeps ==
    ASSUME NodesAssumption, NodesInv, NEW n \in Nodes, NEW a \in NL!Stages, NEW b \in NL!Stages,
           NL!Move(n, a, b),
           UNCHANGED <<owner, nodes_writer, loaded, outages>>,
           \/ {a, b} \subseteq {"off", "context", "clients", "assemble", "recorder", "status"}
           \/ {a, b} \subseteq {"built", "run", "ended"}
    PROVE  NodesInv'
<1> USE DEF NodesAssumption, NodesInv, NL!Move
<1>1. NL!TypeOK'
    BY DEF NL!TypeOK
<1>2. \A m \in Nodes \ {n} : stage'[m] = stage[m]
    BY DEF NL!TypeOK
<1>3. stage[n] = a /\ stage'[n] = b
    BY DEF NL!TypeOK
<1>4. HoldsStatus'
    BY <1>2, <1>3 DEF HoldsStatus
<1>5. HoldsControl'
    BY <1>2, <1>3 DEF HoldsControl
<1>6. WriterStages'
    BY <1>2, <1>3 DEF WriterStages
<1> QED
    BY <1>1, <1>4, <1>5, <1>6

LEMMA StartStatusKeeps ==
    ASSUME NodesAssumption, NodesInv, NEW n \in Nodes, NL!StartStatus(n)
    PROVE  NodesInv'
<1>1. CASE owner["status"] # Nobody /\ stage[n] = "status" /\ NL!Dies(n)
    BY <1>1, DiesKeeps
<1>2. CASE /\ owner["status"] = Nobody /\ NL!Bind(n, "status") /\ NL!Move(n, "status", "writer")
           /\ UNCHANGED <<nodes_writer, loaded, mysql, outages>>
    <2> USE <1>2 DEF NodesAssumption, NodesInv, NL!Move, NL!Bind
    <2>1. NL!TypeOK'
        BY DEF NL!TypeOK, NL!Stages
    <2>2. \A m \in Nodes \ {n} : stage'[m] = stage[m]
        BY DEF NL!TypeOK
    <2>3. stage[n] = "status" /\ stage'[n] = "writer"
        BY DEF NL!TypeOK
    <2>4. owner'["status"] = n /\ owner'["control"] = owner["control"]
        BY DEF NL!TypeOK
    <2>5. HoldsStatus'
        BY <2>2, <2>3, <2>4 DEF HoldsStatus
    <2>6. HoldsControl'
        BY <2>2, <2>3, <2>4 DEF HoldsControl
    <2>7. WriterStages'
        BY <2>2, <2>3, <2>4 DEF WriterStages
    <2> QED
        BY <2>1, <2>5, <2>6, <2>7
<1> QED
    BY <1>1, <1>2 DEF NL!StartStatus

LEMMA LoadSwitchesKeeps ==
    ASSUME NodesAssumption, NodesInv, NEW n \in Nodes, NL!LoadSwitches(n)
    PROVE  NodesInv'
<1>1. PICK read \in 0 .. 2, reached \in BOOLEAN :
        /\ loaded' = [loaded EXCEPT ![n] = read]
        /\ nodes_writer' =
              [nodes_writer EXCEPT ![n] = IF reached /\ read = 2 THEN "open" ELSE "none"]
    BY DEF NL!LoadSwitches
<1> USE DEF NodesAssumption, NodesInv, NL!Move
<1>2. NL!TypeOK'
    BY <1>1 DEF NL!LoadSwitches, NL!TypeOK, NL!Stages
<1>3. \A m \in Nodes \ {n} :
        stage'[m] = stage[m] /\ nodes_writer'[m] = nodes_writer[m] /\ loaded'[m] = loaded[m]
    BY <1>1 DEF NL!LoadSwitches, NL!TypeOK
<1>4. stage[n] = "writer" /\ stage'[n] = "control" /\ (nodes_writer'[n] = "open" => loaded'[n] = 2)
    BY <1>1 DEF NL!LoadSwitches, NL!TypeOK
<1>5. owner' = owner
    BY DEF NL!LoadSwitches
<1>6. HoldsStatus'
    BY <1>3, <1>4, <1>5 DEF HoldsStatus
<1>7. HoldsControl'
    BY <1>3, <1>4, <1>5 DEF HoldsControl
<1>8. WriterStages'
    BY <1>3, <1>4, <1>5 DEF WriterStages
<1> QED
    BY <1>2, <1>6, <1>7, <1>8

\* Whoever held the control port would hold the status port as well, and that is this node's.
LEMMA ControlPortIsFree ==
    ASSUME NodesAssumption, NodesInv, NEW n \in Nodes, stage[n] = "control"
    PROVE  owner["control"] = Nobody
<1>1. SUFFICES ASSUME NEW m \in Nodes, owner["control"] = m PROVE FALSE
    BY DEF NodesAssumption, NodesInv, NL!TypeOK
<1>2. stage[m] \in {"built", "run", "ended"}
    BY <1>1 DEF NodesInv, HoldsControl
<1>3. owner["status"] = m /\ owner["status"] = n
    BY <1>2 DEF NodesInv, HoldsStatus
<1> QED
    BY <1>1, <1>2, <1>3

LEMMA StartControlKeeps ==
    ASSUME NodesAssumption, NodesInv, NEW n \in Nodes, NL!StartControl(n)
    PROVE  NodesInv'
<1> USE DEF NodesAssumption, NodesInv, NL!Move
<1>1. owner["control"] = Nobody
    BY ControlPortIsFree DEF NL!StartControl
<1>2. owner' = [owner EXCEPT !["control"] = n] /\ UNCHANGED <<nodes_writer, loaded, outages>>
    BY <1>1 DEF NL!StartControl, NL!Bind
<1>3. NL!TypeOK'
    BY <1>2 DEF NL!StartControl, NL!TypeOK, NL!Stages
<1>4. \A m \in Nodes \ {n} : stage'[m] = stage[m]
    BY DEF NL!StartControl, NL!TypeOK
<1>5. stage[n] = "control" /\ stage'[n] = "built"
    BY DEF NL!StartControl, NL!TypeOK
<1>6. owner'["control"] = n /\ owner'["status"] = owner["status"]
    BY <1>2 DEF NL!TypeOK
<1>7. HoldsStatus'
    BY <1>4, <1>5, <1>6 DEF HoldsStatus
<1>8. HoldsControl'
    BY <1>1, <1>4, <1>5, <1>6 DEF HoldsControl
<1>9. WriterStages'
    BY <1>1, <1>2, <1>4, <1>5, <1>6 DEF WriterStages
<1> QED
    BY <1>3, <1>7, <1>8, <1>9

LEMMA StopFirstKeeps ==
    ASSUME NodesAssumption, NodesInv, NEW n \in Nodes, NL!StopFirst(n)
    PROVE  NodesInv'
<1> USE DEF NodesAssumption, NodesInv, NL!Move
<1>1. stage[n] = "ended" /\ stage'[n] = "closing"
    BY DEF NL!StopFirst, NL!TypeOK
<1>2. \A m \in Nodes \ {n} : stage'[m] = stage[m] /\ nodes_writer'[m] = nodes_writer[m]
    BY DEF NL!StopFirst, NL!TypeOK
<1>3. owner["control"] = n
    BY <1>1 DEF HoldsControl
<1>4. owner'["control"] = Nobody /\ owner'["status"] = owner["status"]
    BY <1>3 DEF NL!StopFirst, NL!Release, NL!FirstReleased, NL!TypeOK
<1>5. NL!TypeOK'
    BY DEF NL!StopFirst, NL!Release, NL!FirstReleased, NL!TypeOK, NL!Stages
<1>6. HoldsStatus'
    BY <1>1, <1>2, <1>4 DEF HoldsStatus
<1>7. HoldsControl'
    BY <1>1, <1>2, <1>3, <1>4 DEF HoldsControl
<1>8. WriterStages'
    BY <1>1, <1>2, <1>3, <1>4 DEF NL!StopFirst, WriterStages
<1> QED
    BY <1>5, <1>6, <1>7, <1>8

LEMMA CloseWriterKeeps ==
    ASSUME NodesAssumption, NodesInv, NEW n \in Nodes, NL!CloseWriter(n)
    PROVE  NodesInv'
<1> USE DEF NodesAssumption, NodesInv, NL!Move
<1>1. stage[n] = "closing" /\ stage'[n] = "stopped" /\ nodes_writer'[n] = "none"
    BY DEF NL!CloseWriter, NL!TypeOK
<1>2. \A m \in Nodes \ {n} : stage'[m] = stage[m] /\ nodes_writer'[m] = nodes_writer[m]
    BY DEF NL!CloseWriter, NL!TypeOK
<1>3. NL!TypeOK'
    BY DEF NL!CloseWriter, NL!TypeOK, NL!Stages
<1>4. HoldsStatus' /\ HoldsControl'
    BY <1>1, <1>2 DEF NL!CloseWriter, HoldsStatus, HoldsControl
<1>5. WriterStages'
    BY <1>1, <1>2 DEF NL!CloseWriter, WriterStages
<1> QED
    BY <1>3, <1>4, <1>5

LEMMA StopSecondKeeps ==
    ASSUME NodesAssumption, NodesInv, NEW n \in Nodes, NL!StopSecond(n)
    PROVE  NodesInv'
<1> USE DEF NodesAssumption, NodesInv, NL!Move
<1>1. stage[n] = "stopped" /\ stage'[n] = "silent"
    BY DEF NL!StopSecond, NL!TypeOK
<1>2. \A m \in Nodes \ {n} : stage'[m] = stage[m]
    BY DEF NL!StopSecond, NL!TypeOK
<1>3. owner["status"] = n
    BY <1>1 DEF HoldsStatus
<1>4. owner'["status"] = Nobody /\ owner'["control"] = owner["control"]
    BY <1>3 DEF NL!StopSecond, NL!Release, NL!FirstReleased, NL!Other, NL!TypeOK
<1>5. NL!TypeOK'
    BY DEF NL!StopSecond, NL!Release, NL!FirstReleased, NL!Other, NL!TypeOK, NL!Stages
<1>6. HoldsStatus'
    BY <1>1, <1>2, <1>3, <1>4 DEF HoldsStatus
<1>7. HoldsControl'
    BY <1>1, <1>2, <1>4 DEF HoldsControl
<1>8. WriterStages'
    BY <1>1, <1>2, <1>4 DEF NL!StopSecond, WriterStages
<1> QED
    BY <1>5, <1>6, <1>7, <1>8

LEMMA NodesKeep ==
    ASSUME NodesAssumption, NodesInv, [NL!Next]_(NL!vars)
    PROVE  NodesInv'
<1>1. CASE UNCHANGED NL!vars
    BY <1>1 DEF NodesInv, NL!vars, NL!TypeOK, HoldsStatus, HoldsControl, WriterStages
<1>2. CASE NL!Outage \/ NL!Recovery
    BY <1>2 DEF NodesAssumption, NodesInv, NL!Outage, NL!Recovery, NL!TypeOK, HoldsStatus,
        HoldsControl, WriterStages
<1>3. ASSUME NEW n \in Nodes,
             \/ NL!Start(n) \/ NL!LoadContext(n) \/ NL!MakeClients(n) \/ NL!Assemble(n)
             \/ NL!AddRecorder(n) \/ NL!StartStatus(n) \/ NL!LoadSwitches(n)
             \/ NL!StartControl(n) \/ NL!Run(n) \/ NL!End(n)
             \/ NL!StopFirst(n) \/ NL!CloseWriter(n) \/ NL!StopSecond(n) \/ NL!Dispose(n)
             \/ NL!Kill(n)
      PROVE  NodesInv'
    <2>1. CASE NL!Dispose(n) \/ NL!Kill(n)
        BY <2>1, DiesKeeps DEF NL!Dispose, NL!Kill
    <2>2. CASE NL!Start(n)
        BY <2>2, MoveKeeps DEF NL!Start, NL!Stages
    <2>3. CASE NL!LoadContext(n)
        BY <2>3, MoveKeeps, DiesKeeps DEF NL!LoadContext, NL!Stages
    <2>4. CASE NL!MakeClients(n)
        BY <2>4, MoveKeeps DEF NL!MakeClients, NL!Stages
    <2>5. CASE NL!Assemble(n)
        BY <2>5, MoveKeeps, DiesKeeps DEF NL!Assemble, NL!Stages
    <2>6. CASE NL!AddRecorder(n)
        BY <2>6, MoveKeeps, DiesKeeps DEF NL!AddRecorder, NL!Stages
    <2>7. CASE NL!StartStatus(n)
        BY <2>7, StartStatusKeeps
    <2>8. CASE NL!LoadSwitches(n)
        BY <2>8, LoadSwitchesKeeps
    <2>9. CASE NL!StartControl(n)
        BY <2>9, StartControlKeeps
    <2>10. CASE NL!Run(n)
        BY <2>10, MoveKeeps DEF NL!Run, NL!Stages
    <2>11. CASE NL!End(n)
        BY <2>11, MoveKeeps DEF NL!End, NL!Stages
    <2>12. CASE NL!StopFirst(n)
        BY <2>12, StopFirstKeeps
    <2>13. CASE NL!StopSecond(n)
        BY <2>13, StopSecondKeeps
    <2>14. CASE NL!CloseWriter(n)
        BY <2>14, CloseWriterKeeps
    <2> QED
        BY <1>3, <2>1, <2>2, <2>3, <2>4, <2>5, <2>6, <2>7, <2>8, <2>9, <2>10, <2>11, <2>12,
           <2>13, <2>14
<1> QED
    BY <1>1, <1>2, <1>3 DEF NL!Next

LEMMA NodesHold == NodesInv => NL!TradesUnderControl /\ NL!WriterIsOwned
<1> SUFFICES ASSUME NodesInv PROVE NL!TradesUnderControl /\ NL!WriterIsOwned
    OBVIOUS
<1>1. NL!TradesUnderControl
    BY DEF NodesInv, HoldsControl, NL!TradesUnderControl
<1>2. ASSUME NEW n \in Nodes, nodes_writer[n] = "open"
      PROVE  loaded[n] = 2 /\ owner["status"] = n /\ owner["control"] \in {n, Nobody}
    <2>1. loaded[n] = 2 /\ owner["status"] = n
        BY <1>2 DEF NodesInv, WriterStages, HoldsStatus
    <2>2. owner["control"] \in Nodes \cup {Nobody}
        BY DEF NodesInv, NL!TypeOK
    <2>3. ASSUME owner["control"] \in Nodes PROVE owner["control"] = n
        BY <2>1, <2>3 DEF NodesInv, HoldsControl, HoldsStatus
    <2> QED
        BY <2>1, <2>2, <2>3
<1> QED
    BY <1>1, <1>2 DEF NL!WriterIsOwned

-----------------------------------------------------------------------------
(* The account, read two ways *)

AccountAssumption == Price \in Nat \ {0} /\ Shares \in Nat

\* The account's numbers; what is bought is paid for, so the worth is what it was at first.
AccountTypes ==
    /\ held \in Nat /\ cash \in Nat /\ asset_frozen \in Nat /\ unsettled \in Nat
    /\ AV!Worth = Shares * Price

\* What an event told of the account adds up to its worth, at whatever moment it came: a part
\* of it that has a field is told as it was, the value of the holdings perhaps as 0.
ToldTogether ==
    \E c \in Nat, z \in Nat, value \in Nat :
        /\ value # 0 => c + z + value = Shares * Price
        /\ \A f \in {"cash", "available_cash"} : AV!Has(f) => info[f] = c
        /\ AV!Has("frozen_cash") => info["frozen_cash"] = z
        /\ AV!Has("market_value") => info["market_value"] = value

AccountInv == AccountTypes /\ ToldTogether

LEMMA AccountStarts ==
    ASSUME AccountAssumption, AV!Init
    PROVE  AccountInv
<1>1. held \in Nat /\ (Shares - held) \in Nat /\ asset_frozen = 0 /\ unsettled = 0
    BY DEF AccountAssumption, AV!Init
<1>2. cash = (Shares - held) * Price /\ cash \in Nat
    BY <1>1 DEF AccountAssumption, AV!Init
<1>3. (Shares - held) * Price + held * Price = Shares * Price
    BY <1>1 DEF AccountAssumption
<1>4. held * Price \in Nat
    BY <1>1 DEF AccountAssumption
<1>5. AccountTypes
    BY <1>1, <1>2, <1>3, <1>4 DEF AccountTypes, AV!Worth
<1>6. ToldTogether
    BY DEF AV!Init, AV!NoInfo, ToldTogether, AV!Has
<1> QED
    BY <1>5, <1>6 DEF AccountInv

\* One share more or less is a price more or less.
LEMMA OneShare ==
    ASSUME AccountAssumption, NEW n \in Nat
    PROVE  /\ (n + 1) * Price = n * Price + Price
           /\ n > 0 => n - 1 \in Nat /\ (n - 1) * Price = n * Price - Price
           /\ n * Price \in Nat
    BY DEF AccountAssumption

LEMMA AccountMoves ==
    ASSUME AccountAssumption, AccountInv,
           AV!SendBuy \/ AV!FillBuy \/ AV!CancelBuy \/ AV!FillSell \/ AV!Settle
    PROVE  AccountInv'
<1>1. info' = info
    BY DEF AV!SendBuy, AV!FillBuy, AV!CancelBuy, AV!FillSell, AV!Settle
<1>2. ToldTogether'
    BY <1>1 DEF AccountInv, ToldTogether, AV!Has
<1>3. AccountTypes'
    <2> DEFINE w == held * Price
               total == Shares * Price
    <2>1. /\ w \in Nat /\ cash \in Nat /\ asset_frozen \in Nat /\ unsettled \in Nat /\ held \in Nat
          /\ cash + asset_frozen + w = total /\ Price \in Nat /\ Price > 0
        BY OneShare DEF AccountInv, AccountTypes, AV!Worth, AccountAssumption
    <2>2. (held + 1) * Price = w + Price /\ (held > 0 => (held - 1) * Price = w - Price)
        BY <2>1, OneShare
    <2>3. AccountTypes' <=> /\ held' \in Nat /\ cash' \in Nat /\ asset_frozen' \in Nat
                            /\ unsettled' \in Nat
                            /\ cash' + asset_frozen' + held' * Price = total
        BY DEF AccountTypes, AV!Worth
    <2> HIDE DEF w, total
    <2>4. CASE AV!SendBuy
        <3>1. held' * Price = w
            BY <2>4 DEF AV!SendBuy, w
        <3> QED
            BY <2>1, <2>3, <2>4, <3>1 DEF AV!SendBuy
    <2>5. CASE AV!FillBuy
        <3>1. held' * Price = w + Price
            BY <2>2, <2>5 DEF AV!FillBuy
        <3> QED
            BY <2>1, <2>3, <2>5, <3>1 DEF AV!FillBuy
    <2>6. CASE AV!CancelBuy
        <3>1. held' * Price = w
            BY <2>6 DEF AV!CancelBuy, w
        <3> QED
            BY <2>1, <2>3, <2>6, <3>1 DEF AV!CancelBuy
    <2>7. CASE AV!FillSell
        <3>1. held' * Price = w - Price
            BY <2>2, <2>7 DEF AV!FillSell
        <3> QED
            BY <2>1, <2>3, <2>7, <3>1 DEF AV!FillSell
    <2>8. CASE AV!Settle
        <3>1. held' * Price = w
            BY <2>8 DEF AV!Settle, w
        <3> QED
            BY <2>1, <2>3, <2>8, <3>1 DEF AV!Settle
    <2> QED
        BY <2>4, <2>5, <2>6, <2>7, <2>8
<1> QED
    BY <1>2, <1>3 DEF AccountInv

LEMMA PublishKeeps ==
    ASSUME AccountAssumption, AccountInv, NEW fields, NEW value \in {held * Price, 0},
           AV!Publish(fields, value)
    PROVE  AccountInv'
<1>1. held * Price \in Nat
    BY OneShare DEF AccountInv, AccountTypes
<1>2. UNCHANGED <<cash, asset_frozen, held, unsettled>>
    BY DEF AV!Publish, AV!account
<1>3. AccountTypes'
    BY <1>2 DEF AccountInv, AccountTypes, AV!Worth
<1>4. /\ value \in Nat
      /\ value # 0 => cash + asset_frozen + value = Shares * Price
    BY <1>1 DEF AccountInv, AccountTypes, AV!Worth
<1>5. /\ \A f \in {"cash", "available_cash"} : AV!Has(f)' => info'[f] = cash
      /\ AV!Has("frozen_cash")' => info'["frozen_cash"] = asset_frozen
      /\ AV!Has("market_value")' => info'["market_value"] = value
    BY DEF AV!Publish, AV!Has
<1>6. ToldTogether'
    BY <1>4, <1>5 DEF AccountInv, AccountTypes, ToldTogether
<1> QED
    BY <1>3, <1>6 DEF AccountInv

LEMMA AccountKeeps ==
    ASSUME AccountAssumption, AccountInv, [AV!Next]_(AV!vars)
    PROVE  AccountInv'
<1>1. CASE AV!SendBuy \/ AV!FillBuy \/ AV!CancelBuy \/ AV!FillSell \/ AV!Settle
    BY <1>1, AccountMoves
<1>2. CASE \E fields \in Fields, value \in {held * Price, 0} : AV!Publish(fields, value)
    BY <1>2, PublishKeeps
<1>3. CASE AV!Restart
    BY <1>3 DEF AV!Restart, AV!account, AV!NoInfo, AccountInv, AccountTypes, AV!Worth,
        ToldTogether,
        AV!Has
<1>4. CASE UNCHANGED AV!vars
    BY <1>4 DEF AV!vars, AV!account, AccountInv, AccountTypes, AV!Worth, ToldTogether, AV!Has
<1> QED
    BY <1>1, <1>2, <1>3, <1>4 DEF AV!Next

LEMMA AccountHolds ==
    ASSUME AccountAssumption, AccountInv
    PROVE  AV!SizedOnWorth /\ AV!PageTellsWorth
<1>1. PICK c \in Nat, z \in Nat, value \in Nat :
        /\ value # 0 => c + z + value = Shares * Price
        /\ \A f \in {"cash", "available_cash"} : AV!Has(f) => info[f] = c
        /\ AV!Has("frozen_cash") => info["frozen_cash"] = z
        /\ AV!Has("market_value") => info["market_value"] = value
    BY DEF AccountInv, ToldTogether
<1>2. ASSUME AV!Has("frozen_cash"), AV!Components # AV!Missing, info["market_value"] # 0
      PROVE  AV!PortfolioValue = AV!Worth
    <2>1. AV!Has("market_value") /\ AV!Cash # AV!Missing
        BY <1>2 DEF AV!Components
    <2>2. AV!Cash = c
        BY <1>1, <2>1 DEF AV!Cash, AV!Field
    <2>3. AV!Frozen = z /\ info["market_value"] = value /\ value # 0
        BY <1>1, <1>2, <2>1 DEF AV!Frozen
    <2>4. AV!Components = value + c + z
        BY <2>1, <2>2, <2>3 DEF AV!Components
    <2>5. AV!Components = Shares * Price /\ AV!Components > 0
        BY <1>1, <2>3, <2>4
    <2> QED
        BY <2>5 DEF AV!PortfolioValue, AccountInv, AccountTypes
<1>3. ASSUME AV!PageRebuilt, AV!Has("frozen_cash"), AV!Frozen = asset_frozen,
             AV!Field("cash", "available_cash") = cash
      PROVE  AV!PageTotal = AV!Worth
    BY <1>3 DEF AV!PageTotal, AV!Worth, AV!Missing, AccountInv, AccountTypes
<1> QED
    BY <1>2, <1>3 DEF AV!SizedOnWorth, AV!PageTellsWorth

-----------------------------------------------------------------------------
(* The health poll *)

\* The requests that the poll has behind it when it is at a step.
Asked(s) ==
    CASE s \in {"idle", "live"} -> {}
      [] s = "proxy" -> {"live"}
      [] s = "clickhouse" -> {"live", "proxy"}
      [] OTHER -> {"live", "proxy", "clickhouse"}

\* A service was seen to be in order when its answer says that all that is required of it is;
\* the proxy and ClickHouse are seen whether or not they are required.
SeenIsTold ==
    LET asked == DOMAIN got IN
    /\ "live" \in seen <=>
         "live" \in asked /\ got["live"].ok /\ HP!Live \cap poll_rules \subseteq got["live"].body
    /\ "proxy" \in seen <=>
         "proxy" \in asked /\ got["proxy"].ok /\ "proxy" \in got["proxy"].body
    /\ "clickhouse" \in seen <=> "clickhouse" \in asked /\ got["clickhouse"].ok

\* A poll that is over has told of what it was told.
EndIsTold == step = "done" => alerts = HP!Evaluate /\ (code = 0 <=> alerts = {})

PollInv ==
    /\ step \in {"idle", "live", "proxy", "clickhouse", "evaluate", "done"}
    /\ DOMAIN got = Asked(step)
    /\ SeenIsTold /\ EndIsTold

LEMMA PollStarts ==
    ASSUME HP!Init
    PROVE  PollInv
BY DEF HP!Init, PollInv, Asked, SeenIsTold, EndIsTold

LEMMA PollKeeps ==
    ASSUME PollInv, [HP!Next]_(HP!vars)
    PROVE  PollInv'
<1>1. CASE HP!Change \/ UNCHANGED HP!vars
    <2>1. UNCHANGED <<poll_rules, step, got, seen, alerts, code>>
        BY <1>1 DEF HP!Change, HP!vars, HP!poll
    <2> QED
        BY <2>1 DEF PollInv, SeenIsTold, EndIsTold, HP!Evaluate
<1>2. CASE HP!Begin
    BY <1>2 DEF HP!Begin, PollInv, Asked, SeenIsTold, EndIsTold
<1>3. CASE HP!FetchLive
    BY <1>3 DEF HP!FetchLive, HP!Ask, HP!Answer, HP!Failed, PollInv, Asked, SeenIsTold, EndIsTold
<1>4. CASE HP!FetchProxy
    BY <1>4 DEF HP!FetchProxy, HP!Ask, HP!Answer, HP!Failed, PollInv, Asked, SeenIsTold, EndIsTold
<1>5. CASE HP!FetchClickhouse
    BY <1>5 DEF HP!FetchClickhouse, HP!Ask, HP!Answer, HP!Failed, PollInv, Asked, SeenIsTold,
        EndIsTold
<1>6. CASE HP!Dispatch
    <2>1. /\ step = "evaluate" /\ step' = "done" /\ UNCHANGED <<poll_rules, got, seen>>
          /\ alerts' = HP!Evaluate /\ (code' = 0 <=> alerts' = {})
        BY <1>6 DEF HP!Dispatch
    <2>2. HP!Evaluate' = HP!Evaluate
        BY <2>1 DEF HP!Evaluate
    <2>3. Asked("done") = Asked("evaluate")
        BY DEF Asked
    <2> QED
        BY <2>1, <2>2, <2>3 DEF PollInv, SeenIsTold, EndIsTold
<1> QED
    BY <1>1, <1>2, <1>3, <1>4, <1>5, <1>6 DEF HP!Next

LEMMA PollHolds == PollInv => HP!QuietMeansHealthy
<1> SUFFICES ASSUME PollInv, step = "done"
             PROVE  code = 0 <=>
                      /\ "live" \in seen
                      /\ got["proxy"].ok /\ ("proxy" \in poll_rules => "proxy" \in seen)
                      /\ "clickhouse" \in poll_rules => "clickhouse" \in seen
    BY DEF HP!QuietMeansHealthy
<1>1. DOMAIN got = {"live", "proxy", "clickhouse"}
    BY DEF PollInv, Asked
<1>2. code = 0 <=> HP!Evaluate = {}
    BY DEF PollInv, EndIsTold
<1>3. HP!Evaluate = {} <=>
        /\ got["live"].ok /\ poll_rules \cap HP!Live \subseteq got["live"].body
        /\ got["proxy"].ok /\ poll_rules \cap {"proxy"} \subseteq got["proxy"].body
        /\ "clickhouse" \in poll_rules => got["clickhouse"].ok
    <2>1. "live" \in HP!Evaluate <=>
            ~(got["live"].ok /\ poll_rules \cap HP!Live \subseteq got["live"].body)
        BY DEF HP!Evaluate
    <2>2. "proxy" \in HP!Evaluate <=>
            ~(got["proxy"].ok /\ poll_rules \cap {"proxy"} \subseteq got["proxy"].body)
        BY DEF HP!Evaluate
    <2>3. "clickhouse" \in HP!Evaluate <=> "clickhouse" \in poll_rules /\ ~got["clickhouse"].ok
        BY DEF HP!Evaluate
    <2>4. HP!Evaluate \subseteq {"live", "proxy", "clickhouse"}
        BY DEF HP!Evaluate
    <2> QED
        BY <2>1, <2>2, <2>3, <2>4
<1> QED
    BY <1>1, <1>2, <1>3 DEF PollInv, SeenIsTold

-----------------------------------------------------------------------------
(* The reports *)

ReportsAssumption ==
    /\ Events \in Nat /\ Rounds \in Nat
    /\ DOMAIN Gauges = 1 .. Len(Gauges) /\ Len(Gauges) \in Nat /\ Own \in 0 .. Len(Gauges)

Ended == failed \cup {delivered[i] : i \in DOMAIN delivered}

\* The last that was begun: those after it wait in the queue.
Begun == reported - Len(queue)

ReporterTypes ==
    /\ process \in {"runs", "ends", "gone"}
    /\ reported \in Nat /\ queue \in Seq(Nat) /\ delivered \in Seq(Nat)
    /\ Len(queue) <= reported
    /\ process = "gone" => queue = <<>> /\ posting = {}

\* The queue holds what was reported last, in its order; the one worker posts what comes
\* before it, and everything before that has come to its end.
OneAfterAnother ==
    /\ \A i \in 1 .. Len(queue) : queue[i] = Begun + i
    /\ \/ posting = {} /\ Ended = 1 .. Begun
       \/ Begun > 0 /\ posting = {Begun} /\ Ended = 1 .. Begun - 1

DeliveredInOrder == \A i, j \in 1 .. Len(delivered) : i < j => delivered[i] < delivered[j]

ReporterInv == ReporterTypes /\ OneAfterAnother /\ DeliveredInOrder

\* The account's gauges behind the next one are those of this collection, and none is of a
\* later one.
GaugesFollow ==
    /\ round \in Nat /\ finished \in Nat /\ finished <= round
    /\ next \in 0 .. Len(Gauges) + 1
    /\ DOMAIN gauge = LR!Names
    /\ \A g \in LR!Names : gauge[g] \in 0 .. round
    /\ \A i \in 1 .. Own : i < next => gauge[Gauges[i]] = round

ExporterInv == GaugesFollow /\ LR!UpMeansFresh

ReportsInv == ReporterInv /\ ExporterInv

LEMMA ReportsStart ==
    ASSUME ReportsAssumption, LR!Init
    PROVE  ReportsInv
<1> USE DEF ReportsAssumption, LR!Init
<1>1. Len(queue) = 0 /\ queue \in Seq(Nat) /\ delivered \in Seq(Nat) /\ Len(delivered) = 0
      /\ DOMAIN delivered = {} /\ Begun = 0
    <2>1. Len(<<>>) = 0 /\ <<>> \in Seq(Nat) /\ DOMAIN <<>> = {}
        OBVIOUS
    <2>2. queue = <<>> /\ delivered = <<>> /\ reported = 0
        OBVIOUS
    <2>3. Len(queue) = 0
        BY <2>1, <2>2
    <2>4. Begun = 0
        <3>1. reported = 0
            BY <2>2
        <3> HIDE DEF LR!Init
        <3> QED
            BY <2>3, <3>1 DEF Begun
    <2> QED
        BY <2>1, <2>2, <2>3, <2>4
<1>2. ReporterTypes
    BY <1>1 DEF ReporterTypes
<1>3. Ended = {} /\ 1 .. Begun = {}
    BY <1>1 DEF Ended
<1>4. OneAfterAnother /\ DeliveredInOrder
    BY <1>1, <1>3 DEF OneAfterAnother, DeliveredInOrder
<1>5. ExporterInv
    BY DEF ExporterInv, GaugesFollow, LR!UpMeansFresh
<1> QED
    BY <1>2, <1>4, <1>5 DEF ReportsInv, ReporterInv

LEMMA ReportKeeps ==
    ASSUME ReporterInv, LR!Report
    PROVE  ReporterInv'
<1>0. /\ ReporterTypes /\ OneAfterAnother /\ DeliveredInOrder
      /\ reported \in Nat /\ queue \in Seq(Nat) /\ delivered \in Seq(Nat) /\ Len(queue) <= reported
    BY DEF ReporterInv, ReporterTypes
<1>1. /\ reported' = reported + 1 /\ queue' = Append(queue, reported + 1) /\ process = "runs"
      /\ UNCHANGED <<process, posting, delivered, failed>>
    BY DEF LR!Report
<1>2. /\ queue' \in Seq(Nat) /\ Len(queue') = Len(queue) + 1 /\ Len(queue) \in Nat
      /\ \A i \in 1 .. Len(queue) : queue'[i] = queue[i]
      /\ queue'[Len(queue) + 1] = reported + 1
    BY <1>0, <1>1
<1>3. Begun' = Begun /\ Begun + Len(queue) = reported /\ Begun \in Nat
    BY <1>0, <1>1, <1>2 DEF Begun
<1>4. ReporterTypes'
    <2>1. reported' \in Nat /\ Len(queue') <= reported' /\ delivered' \in Seq(Nat)
        BY <1>0, <1>1, <1>2
    <2> QED
        BY <1>1, <1>2, <2>1 DEF ReporterTypes
<1>5. Ended' = Ended
    BY <1>1 DEF Ended
<1>6. \A i \in 1 .. Len(queue') : queue'[i] = Begun' + i
    <2> SUFFICES ASSUME NEW i \in 1 .. Len(queue) + 1
                 PROVE  queue'[i] = Begun + i
        BY <1>2, <1>3
    <2>1. CASE i = Len(queue) + 1
        <3>1. Begun + i = reported + 1
            BY <1>2, <1>3, <2>1
        <3> QED
            BY <1>2, <2>1, <3>1
    <2>2. CASE i \in 1 .. Len(queue)
        BY <1>0, <1>2, <2>2 DEF OneAfterAnother
    <2>3. i = Len(queue) + 1 \/ i \in 1 .. Len(queue)
        BY <1>2
    <2> QED
        BY <2>1, <2>2, <2>3
<1>7. OneAfterAnother'
    BY <1>0, <1>1, <1>3, <1>5, <1>6 DEF OneAfterAnother
<1>8. DeliveredInOrder'
    BY <1>0, <1>1 DEF DeliveredInOrder
<1> QED
    BY <1>4, <1>7, <1>8 DEF ReporterInv

LEMMA TakeKeeps ==
    ASSUME ReporterInv, LR!Take
    PROVE  ReporterInv'
<1>0. /\ ReporterTypes /\ OneAfterAnother /\ DeliveredInOrder
      /\ reported \in Nat /\ queue \in Seq(Nat) /\ delivered \in Seq(Nat) /\ Len(queue) <= reported
    BY DEF ReporterInv, ReporterTypes
<1>1. /\ process # "gone" /\ queue # <<>> /\ posting' = posting \cup {Head(queue)}
      /\ queue' = Tail(queue) /\ UNCHANGED <<process, reported, delivered, failed>>
    BY DEF LR!Take
<1>2. posting = {}
    <2>1. posting = {} \/ posting = {Begun}
        BY <1>0 DEF OneAfterAnother
    <2>2. Cardinality({Begun}) = 1
        BY FS_Singleton
    <2>3. Cardinality(posting) < 1
        <3>1. \A S : LR!Cardinality(S) = Cardinality(S)
            BY Zenon DEF LR!Cardinality, Cardinality
        <3>2. LR!Cardinality(posting) < 1
            BY DEF LR!Take, LR!Workers
        <3> QED
            BY <3>1, <3>2
    <2> QED
        BY <2>1, <2>2, <2>3
<1>3. /\ queue' \in Seq(Nat) /\ Len(queue) \in Nat /\ Len(queue) > 0 /\ Len(queue') = Len(queue) - 1
      /\ \A i \in 1 .. Len(queue') : queue'[i] = queue[i + 1]
      /\ Head(queue) = queue[1]
    BY <1>0, <1>1
<1>4. /\ Begun \in Nat /\ Begun' = Begun + 1 /\ Begun + Len(queue) = reported
      /\ queue[1] = Begun + 1
    <2>1. Begun \in Nat /\ Begun' = Begun + 1 /\ Begun + Len(queue) = reported
        BY <1>0, <1>1, <1>3 DEF Begun
    <2>2. queue[1] = Begun + 1
        BY <1>0, <1>3 DEF OneAfterAnother
    <2> QED
        BY <2>1, <2>2
<1>5. ReporterTypes'
    <2>1. Len(queue') <= reported'
        BY <1>0, <1>1, <1>3
    <2> QED
        BY <1>0, <1>1, <1>3, <2>1 DEF ReporterTypes
<1>6. Ended' = Ended /\ Ended = 1 .. Begun' - 1
    <2>1. Ended' = Ended
        BY <1>1 DEF Ended
    <2>2. Ended = 1 .. Begun /\ Begun = Begun' - 1
        BY <1>0, <1>2, <1>4 DEF OneAfterAnother
    <2> QED
        BY <2>1, <2>2
<1>7. posting' = {Begun'}
    BY <1>1, <1>2, <1>3, <1>4
<1>8. \A i \in 1 .. Len(queue') : queue'[i] = Begun' + i
    <2> SUFFICES ASSUME NEW i \in 1 .. Len(queue')
                 PROVE  queue'[i] = Begun' + i
        OBVIOUS
    <2>1. i + 1 \in 1 .. Len(queue)
        BY <1>3
    <2>2. queue[i + 1] = Begun + (i + 1)
        BY <1>0, <2>1 DEF OneAfterAnother
    <2> QED
        BY <1>3, <1>4, <2>2
<1>9. OneAfterAnother'
    BY <1>4, <1>6, <1>7, <1>8 DEF OneAfterAnother
<1>10. DeliveredInOrder'
    BY <1>0, <1>1 DEF DeliveredInOrder
<1> QED
    BY <1>5, <1>9, <1>10 DEF ReporterInv

LEMMA PostKeeps ==
    ASSUME ReporterInv, NEW n \in posting, LR!Post(n)
    PROVE  ReporterInv'
<1>0. /\ ReporterTypes /\ OneAfterAnother /\ DeliveredInOrder
      /\ reported \in Nat /\ queue \in Seq(Nat) /\ delivered \in Seq(Nat) /\ Len(queue) <= reported
    BY DEF ReporterInv, ReporterTypes
<1>1. /\ process # "gone" /\ posting' = posting \ {n} /\ UNCHANGED <<process, reported, queue>>
      /\ \/ delivered' = Append(delivered, n) /\ failed' = failed
         \/ failed' = failed \cup {n} /\ delivered' = delivered
    BY DEF LR!Post
<1>2. Begun \in Nat /\ n = Begun /\ n > 0 /\ posting = {n} /\ posting' = {} /\ Ended = 1 .. n - 1
    <2>1. Begun \in Int
        BY <1>0 DEF Begun
    <2> QED
        BY <1>0, <1>1, <2>1 DEF OneAfterAnother
<1>3. Begun' = Begun
    BY <1>1 DEF Begun
<1>4. Len(delivered) \in Nat /\ DOMAIN delivered = 1 .. Len(delivered)
    BY <1>0
<1>5. Ended' = Ended \cup {n}
    <2>1. CASE delivered' = Append(delivered, n) /\ failed' = failed
        <3>1. DOMAIN delivered' = (DOMAIN delivered) \cup {Len(delivered) + 1}
            BY <1>0, <1>2, <1>4, <2>1
        <3>2. /\ \A i \in DOMAIN delivered : delivered'[i] = delivered[i]
              /\ delivered'[Len(delivered) + 1] = n
            BY <1>0, <1>2, <1>4, <2>1
        <3> QED
            BY <2>1, <3>1, <3>2 DEF Ended
    <2>2. CASE failed' = failed \cup {n} /\ delivered' = delivered
        BY <2>2 DEF Ended
    <2> QED
        BY <1>1, <2>1, <2>2
<1>6. Ended' = 1 .. Begun'
    BY <1>2, <1>3, <1>5
<1>7. OneAfterAnother'
    BY <1>0, <1>1, <1>2, <1>3, <1>6 DEF OneAfterAnother
<1>8. ReporterTypes'
    <2>1. delivered' \in Seq(Nat)
        <3>1. delivered \in Seq(Nat) /\ Append(delivered, n) \in Seq(Nat)
            BY <1>0, <1>2
        <3> QED
            BY <1>1, <3>1
    <2> QED
        BY <1>0, <1>1, <1>2, <2>1 DEF ReporterTypes
<1>9. DeliveredInOrder'
    <2>1. CASE delivered' = delivered
        BY <1>0, <2>1 DEF DeliveredInOrder
    <2>2. CASE delivered' = Append(delivered, n)
        <3>1. \A i \in 1 .. Len(delivered) : delivered[i] < n
            <4>1. \A i \in 1 .. Len(delivered) : delivered[i] \in Ended
                BY <1>4 DEF Ended
            <4> QED
                BY <1>2, <4>1
        <3>2. /\ Len(delivered') = Len(delivered) + 1 /\ delivered'[Len(delivered) + 1] = n
              /\ \A i \in 1 .. Len(delivered) : delivered'[i] = delivered[i]
            BY <1>0, <1>2, <2>2
        <3> SUFFICES ASSUME NEW i \in 1 .. Len(delivered) + 1, NEW j \in 1 .. Len(delivered) + 1,
                            i < j
                     PROVE  delivered'[i] < delivered'[j]
            BY <3>2 DEF DeliveredInOrder
        <3>3. i \in 1 .. Len(delivered) /\ (j = Len(delivered) + 1 \/ j \in 1 .. Len(delivered))
            BY <1>4
        <3> QED
            BY <1>0, <3>1, <3>2, <3>3 DEF DeliveredInOrder
    <2> QED
        BY <1>1, <2>1, <2>2
<1> QED
    BY <1>7, <1>8, <1>9 DEF ReporterInv

LEMMA ReporterKeeps ==
    ASSUME ReporterInv, [LR!Next]_(LR!vars)
    PROVE  ReporterInv'
<1>1. CASE LR!Report
    BY <1>1, ReportKeeps
<1>2. CASE LR!Take
    BY <1>2, TakeKeeps
<1>3. CASE \E n \in posting : LR!Post(n)
    BY <1>3, PostKeeps
<1>4. ASSUME UNCHANGED <<reported, queue, posting, delivered, failed>>,
             process' \in {"runs", "ends", "gone"},
             process' = "gone" => queue = <<>> /\ posting = {}
      PROVE  ReporterInv'
    BY <1>4 DEF ReporterInv, ReporterTypes, OneAfterAnother, DeliveredInOrder, Begun, Ended
<1>5. CASE LR!End
    BY <1>4, <1>5 DEF LR!End, LR!reports
<1>6. CASE LR!AccountLands \/ LR!CollectNothing \/ LR!Collect \/ LR!SetGauge \/ LR!HealthFails
           \/ LR!CollectEnds \/ UNCHANGED LR!vars
    BY <1>4, <1>6 DEF LR!AccountLands, LR!CollectNothing, LR!Collect, LR!SetGauge, LR!HealthFails,
        LR!CollectEnds, LR!vars, LR!reports, ReporterInv, ReporterTypes
<1> QED
    BY <1>1, <1>2, <1>3, <1>5, <1>6 DEF LR!Next

LEMMA SetGaugeKeeps ==
    ASSUME ReportsAssumption, ExporterInv, LR!SetGauge
    PROVE  ExporterInv'
<1> USE DEF ReportsAssumption, ExporterInv, GaugesFollow
<1>1. /\ next \in 1 .. Len(Gauges) /\ next' = next + 1 /\ UNCHANGED <<round, up, finished>>
      /\ gauge' = [gauge EXCEPT ![Gauges[next]] = round]
    BY DEF LR!SetGauge
<1>2. \A g \in LR!Names : gauge'[g] = IF g = Gauges[next] THEN round ELSE gauge[g]
    BY <1>1
<1>3. \A i \in 1 .. Len(Gauges) : Gauges[i] \in LR!Names
    BY DEF LR!Names
<1>4. \A g \in LR!Names : gauge'[g] \in 0 .. round'
    BY <1>1, <1>2
<1>5. \A i \in 1 .. Own : i < next' => gauge'[Gauges[i]] = round'
    BY <1>1, <1>2, <1>3
<1>6. GaugesFollow'
    BY <1>1, <1>4, <1>5
<1>7. LR!UpMeansFresh'
    BY <1>1, <1>2, <1>3 DEF LR!UpMeansFresh
<1> QED
    BY <1>6, <1>7

\* A collection that has got past the last gauge has set all those of the account.
LEMMA CollectEndsKeeps ==
    ASSUME ReportsAssumption, ExporterInv, LR!CollectEnds
    PROVE  ExporterInv'
<1> USE DEF ReportsAssumption, ExporterInv, GaugesFollow
<1>1. /\ next > 0 /\ next' = 0 /\ finished' = round /\ up' = (next > Len(Gauges))
      /\ UNCHANGED <<round, gauge>>
    BY DEF LR!CollectEnds, LR!UpAfter
<1>2. GaugesFollow'
    BY <1>1
<1>3. ASSUME up', NEW i \in 1 .. Own PROVE gauge'[Gauges[i]] >= finished'
    <2>0. next > Len(Gauges)
        <3>1. up' = (next > Len(Gauges))
            BY <1>1
        <3> QED
            BY <3>1, <1>3, Zenon
    <2>1. i < next
        BY <2>0, SMTT(30)
    <2>2. gauge[Gauges[i]] = round
        BY <2>1
    <2> QED
        BY <1>1, <2>2
<1> QED
    BY <1>2, <1>3 DEF LR!UpMeansFresh

LEMMA ExporterKeeps ==
    ASSUME ReportsAssumption, ExporterInv, [LR!Next]_(LR!vars)
    PROVE  ExporterInv'
<1>1. CASE LR!SetGauge
    BY <1>1, SetGaugeKeeps
<1>2. CASE LR!CollectEnds
    BY <1>2, CollectEndsKeeps
<1>3. CASE LR!CollectNothing
    BY <1>3 DEF LR!CollectNothing, ReportsAssumption, ExporterInv, GaugesFollow, LR!UpMeansFresh
<1>4. CASE LR!Collect
    BY <1>4 DEF LR!Collect, ReportsAssumption, ExporterInv, GaugesFollow, LR!UpMeansFresh
<1>6. CASE LR!HealthFails
    BY <1>6 DEF LR!HealthFails, ReportsAssumption, ExporterInv, GaugesFollow, LR!UpMeansFresh
<1>5. CASE LR!Report \/ LR!Take \/ (\E n \in posting : LR!Post(n)) \/ LR!End \/ LR!AccountLands
           \/ UNCHANGED LR!vars
    <2>1. UNCHANGED <<round, next, gauge, up, finished>>
        BY <1>5 DEF LR!Report, LR!Take, LR!Post, LR!End, LR!AccountLands, LR!vars, LR!exporter
    <2> QED
        BY <2>1 DEF ExporterInv, GaugesFollow, LR!UpMeansFresh
<1> QED
    BY <1>1, <1>2, <1>3, <1>4, <1>5, <1>6 DEF LR!Next

LEMMA ReportsKeep ==
    ASSUME ReportsAssumption, ReportsInv, [LR!Next]_(LR!vars)
    PROVE  ReportsInv'
BY ReporterKeeps, ExporterKeeps DEF ReportsInv

LEMMA ReportsHold == ReportsInv => LR!ToldInOrder /\ LR!UpMeansFresh
<1> SUFFICES ASSUME ReportsInv
             PROVE  LR!ToldInOrder /\ LR!UpMeansFresh
    OBVIOUS
<1>1. \A i, j \in DOMAIN delivered : i < j => delivered[i] < delivered[j]
    <2>1. DOMAIN delivered = 1 .. Len(delivered)
        BY DEF ReportsInv, ReporterInv, ReporterTypes
    <2> QED
        BY <2>1 DEF ReportsInv, ReporterInv, DeliveredInOrder
<1>2. ASSUME process = "gone" PROVE Ended = 1 .. reported
    <2>1. posting = {} /\ Len(queue) = 0 /\ reported \in Nat
        BY <1>2 DEF ReportsInv, ReporterInv, ReporterTypes
    <2>2. Begun = reported
        BY <2>1 DEF Begun
    <2> QED
        BY <2>1, <2>2 DEF ReportsInv, ReporterInv, OneAfterAnother
<1> QED
    BY <1>1, <1>2 DEF LR!ToldInOrder, Ended, ReportsInv, ExporterInv

-----------------------------------------------------------------------------
(* The copying of reference data *)

SyncAssumption == Nobody \notin Jobs

SyncTypes ==
    /\ sync_stage \in [Jobs -> {"off", "write", "count", "over"}]
    /\ DOMAIN rows = Jobs /\ DOMAIN table = RS!Dates
    /\ last \in Jobs \cup {Nobody}

\* The job that committed last reads no more, and nobody has put a row over its own.
LastStands ==
    last # Nobody =>
        /\ sync_stage[last] \in {"count", "over"}
        /\ \A d \in RS!Read(last) : table[d] = rows[last][d]

SyncInv == SyncTypes /\ LastStands

LEMMA SyncStarts ==
    ASSUME SyncAssumption, RS!Init
    PROVE  SyncInv
BY DEF RS!Init, RS!NoRows, SyncInv, SyncTypes, LastStands, RS!Dates

\* While the rows, the table and the last job stay, a job may go on in any way but to read
\* again.
LEMMA SyncStays ==
    ASSUME SyncInv, UNCHANGED <<table, rows, last>>,
           sync_stage' \in [Jobs -> {"off", "write", "count", "over"}],
           \A j \in Jobs : sync_stage[j] \in {"count", "over"}
               => sync_stage'[j] \in {"count", "over"}
    PROVE  SyncInv'
BY DEF SyncInv, SyncTypes, LastStands, RS!Read, RS!Dates

LEMMA FetchRowsKeeps ==
    ASSUME SyncAssumption, SyncInv, NEW j \in Jobs, RS!Fetch(j)
    PROVE  SyncInv'
<1>1. /\ sync_stage[j] = "off" /\ sync_stage' = [sync_stage EXCEPT ![j] = "write"]
      /\ rows' = [rows EXCEPT ![j] = RS!Select] /\ UNCHANGED <<table, last>>
    BY DEF RS!Fetch
<1>2. SyncTypes'
    BY <1>1 DEF SyncInv, SyncTypes
<1>3. ASSUME last # Nobody
      PROVE last # j /\ rows'[last] = rows[last] /\ sync_stage'[last] = sync_stage[last]
    BY <1>1, <1>3 DEF SyncInv, SyncTypes, LastStands
<1>4. LastStands'
    BY <1>1, <1>3 DEF SyncInv, LastStands, RS!Read
<1> QED
    BY <1>2, <1>4 DEF SyncInv

LEMMA CommitKeeps ==
    ASSUME SyncAssumption, SyncInv, NEW j \in Jobs, RS!Commit(j)
    PROVE  SyncInv'
<1>1. /\ sync_stage' = [sync_stage EXCEPT ![j] = "count"] /\ rows' = rows
      /\ table' = [d \in RS!Dates |-> IF d \in RS!Read(j) THEN rows[j][d] ELSE table[d]]
      /\ last' = IF RS!Read(j) = {} THEN last ELSE j
    BY DEF RS!Commit, RS!Put
<1>2. SyncTypes'
    BY <1>1 DEF SyncInv, SyncTypes
<1>3. CASE RS!Read(j) = {}
    <2>1. \A d \in RS!Dates : table'[d] = table[d]
        BY <1>1, <1>3
    <2>2. last' = last /\ \A k \in Jobs : RS!Read(k)' = RS!Read(k)
        BY <1>1, <1>3 DEF RS!Read, RS!Dates
    <2>3. last # Nobody => sync_stage'[last] \in {"count", "over"}
        BY <1>1 DEF SyncInv, SyncTypes, LastStands
    <2>4. \A k \in Jobs : RS!Read(k) \subseteq RS!Dates
        BY DEF RS!Read
    <2> QED
        BY <1>1, <1>2, <2>1, <2>2, <2>3, <2>4 DEF SyncInv, SyncTypes, LastStands
<1>4. CASE RS!Read(j) # {}
    <2>1. last' = j /\ RS!Read(j)' = RS!Read(j) /\ RS!Read(j) \subseteq RS!Dates
        BY <1>1, <1>4 DEF RS!Read, RS!Dates
    <2>2. \A d \in RS!Read(j) : table'[d] = rows'[j][d]
        BY <1>1, <2>1
    <2>3. sync_stage'[j] = "count"
        BY <1>1 DEF SyncInv, SyncTypes
    <2>4. LastStands'
        BY <2>1, <2>2, <2>3 DEF LastStands
    <2> QED
        BY <1>2, <2>4 DEF SyncInv
<1> QED
    BY <1>3, <1>4

LEMMA SyncKeeps ==
    ASSUME SyncAssumption, SyncInv, [RS!Next]_(RS!vars)
    PROVE  SyncInv'
<1> USE SyncStays
<1>1. CASE \E d \in RS!Dates : RS!Supersede(d) \/ RS!Appear(d)
    BY <1>1 DEF RS!Supersede, RS!Appear, SyncInv, SyncTypes
<1>2. CASE \E j \in Jobs : RS!Fail(j)
    BY <1>2 DEF RS!Fail, RS!Ends, SyncInv, SyncTypes
<1>3. CASE \E j \in Jobs : RS!Fetch(j)
    BY <1>3, FetchRowsKeeps
<1>4. CASE \E j \in Jobs : RS!Send(j)
    <2>1. UNCHANGED <<table, rows, last, sync_stage>>
        BY <1>4 DEF RS!Send, RS!Batch
    <2> QED
        BY <2>1 DEF SyncInv, SyncTypes
<1>5. CASE \E j \in Jobs : RS!Commit(j)
    BY <1>5, CommitKeeps
<1>6. CASE \E j \in Jobs : RS!Count(j)
    <2>1. PICK j \in Jobs : RS!Count(j)
        BY <1>6
    <2>2. sync_stage' = [sync_stage EXCEPT ![j] = "over"] /\ UNCHANGED <<table, rows, last>>
        BY <2>1 DEF RS!Count, RS!Ends
    <2> QED
        BY <2>2 DEF SyncInv, SyncTypes
<1>7. CASE UNCHANGED RS!vars
    BY <1>7 DEF RS!vars, SyncInv, SyncTypes
<1> QED
    BY <1>1, <1>2, <1>3, <1>4, <1>5, <1>6, <1>7 DEF RS!Next

LEMMA SyncHolds == SyncInv => RS!SyncIsWhole
    BY DEF SyncInv, LastStands, RS!SyncIsWhole

-----------------------------------------------------------------------------
(* The positions page *)

\* Prices are multiples of every number of shares, so that average prices are exact.
PageAssumption ==
    /\ PagePrices \subseteq Nat \ {0}
    /\ PageShares \in Nat /\ PageDays \in Nat \ {0} /\ PageRestarts \in Nat
    /\ \A p \in PagePrices, k \in 1 .. PageShares : p % k = 0

Sells == [qty : Nat, notional : Nat]

PageTypes ==
    /\ PV!TypeOK
    /\ day \in Nat /\ restarts \in Nat /\ prev \in PagePrices
    /\ opening \in Nat /\ carried \in Nat /\ bought \in Nat /\ spent \in Nat /\ selling \in Nat
    /\ fills \in Sells /\ closes \in Sells
    /\ avg \in Nat /\ peak \in Nat /\ can_use \in Int

\* What was paid today, and the average price of a position without anything of yesterday.
CostIsPaid ==
    /\ \A k \in 1 .. PageShares : spent % k = 0
    /\ bought = 0 => spent = 0
    /\ opening = 0 => avg * bought = spent

\* The sells of today are of yesterday's shares.
SoldIsCarried ==
    /\ carried + fills.qty <= opening
    /\ fills.qty = 0 => fills.notional = 0

\* What the page takes for yesterday's shares: none that were not there, and all that are left.
SellableIsCarried ==
    /\ can_use <= opening
    /\ pure /\ can_use # PV!Unknown => carried <= can_use + selling

\* The most that was held: with what was sold since, unless more was bought in between.
PeakIsHeld ==
    /\ closes.qty = 0 => peak = carried + bought
    /\ bought = 0 /\ closes = fills => peak = carried + bought + fills.qty

PageInv == PageTypes /\ CostIsPaid /\ SoldIsCarried /\ SellableIsCarried /\ PeakIsHeld

LEMMA MultipleIsDivided ==
    ASSUME NEW q \in Nat, NEW k \in Nat \ {0}
    PROVE  (k * q) % k = 0
<1>1. (k * q) \div k = q
    OBVIOUS
<1> DEFINE s == k * q
<1>2. s \in Nat
    OBVIOUS
<1> HIDE DEF s
<1>3. s = (k * (s \div k)) + (s % k)
    BY <1>2
<1>4. s % k \in Int /\ k * (s \div k) = s
    BY <1>1, <1>2 DEF s
<1>5. s % k = 0
    BY <1>2, <1>3, <1>4
<1> QED
    BY <1>5 DEF s

LEMMA DivisorOfSum ==
    ASSUME NEW a \in Nat, NEW b \in Nat, NEW k \in Nat \ {0}, a % k = 0, b % k = 0
    PROVE  (a + b) % k = 0
<1> DEFINE x == a \div k
           y == b \div k
<1>1. x \in Nat /\ y \in Nat /\ a = k * x /\ b = k * y
    OBVIOUS
<1>2. a + b = k * (x + y)
    BY <1>1
<1> HIDE DEF x, y
<1>3. x + y \in Nat
    BY <1>1
<1> QED
    BY <1>2, <1>3, MultipleIsDivided

LEMMA ExactQuotient ==
    ASSUME NEW a \in Nat, NEW k \in Nat \ {0}, a % k = 0
    PROVE  (a \div k) * k = a
OBVIOUS

\* An average of positive prices is one.
LEMMA AverageIsPositive ==
    ASSUME NEW a \in Nat \ {0}, NEW p \in Nat \ {0}, NEW v \in Nat
    PROVE  (a * v + p) \div (v + 1) \in Nat \ {0}
<1>1. a * v \in Nat /\ a * v >= v
    <2>1. a * v = v + (a - 1) * v
        OBVIOUS
    <2>2. (a - 1) * v \in Nat
        OBVIOUS
    <2> QED
        BY <2>1, <2>2
<1> DEFINE s == a * v + p
<1>2. s \in Nat /\ s >= v + 1
    BY <1>1
<1> HIDE DEF s
<1>3. s \div (v + 1) \in Nat /\ s \div (v + 1) >= 1
    BY <1>2
<1> QED
    BY <1>3 DEF s

LEMMA PageStarts ==
    ASSUME PageAssumption, PV!Init
    PROVE  PageInv
<1> USE DEF PageAssumption, PV!Init, PV!None, PV!Unknown
<1>1. PageTypes
    BY DEF PageTypes, PV!TypeOK, PV!Volume, Sells
<1>2. \A k \in 1 .. PageShares : 0 % k = 0
    OBVIOUS
<1>3. CostIsPaid
    BY <1>2 DEF CostIsPaid
<1>4. SoldIsCarried /\ SellableIsCarried /\ PeakIsHeld
    BY DEF SoldIsCarried, SellableIsCarried, PeakIsHeld
<1> QED
    BY <1>1, <1>3, <1>4 DEF PageInv

LEMMA BuyKeeps ==
    ASSUME PageAssumption, PageInv, NEW price \in PagePrices, PV!Buy(price)
    PROVE  PageInv'
<1> DEFINE v == carried + bought
<1>1. /\ v < PageShares /\ v \in Nat
      /\ bought' = bought + 1 /\ spent' = spent + price
      /\ avg' = (avg * v + price) \div (v + 1)
      /\ peak' = IF v = 0 THEN 1 ELSE PV!Largest(peak, v + 1)
      /\ closes' = IF v = 0 THEN PV!None ELSE closes
      /\ UNCHANGED <<day, restarts, prev, opening, carried, selling, fills, can_use, pure>>
    BY DEF PV!Buy, PV!Volume, PageInv, PageTypes
<1>2. avg \in Nat \ {0} /\ price \in Nat \ {0}
    BY DEF PageAssumption, PageInv, PageTypes, PV!TypeOK
<1>3. avg' \in Nat \ {0}
    BY <1>1, <1>2, AverageIsPositive
<1>4. peak' \in Nat /\ peak' >= v + 1
    BY <1>1 DEF PV!Largest, PageInv, PageTypes
<1>5. closes' \in Sells
    BY <1>1 DEF PV!None, PageInv, PageTypes, Sells
<1>6. PageTypes'
    BY <1>1, <1>2, <1>3, <1>4, <1>5 DEF PageAssumption, PageInv, PageTypes, PV!TypeOK, PV!Volume
<1>7. \A k \in 1 .. PageShares : spent' % k = 0
    <2> SUFFICES ASSUME NEW k \in 1 .. PageShares
                 PROVE  (spent + price) % k = 0
        BY <1>1
    <2>1. spent % k = 0
        BY DEF PageInv, CostIsPaid
    <2>2. price % k = 0
        BY DEF PageAssumption
    <2>3. k \in Nat \ {0} /\ spent \in Nat
        BY DEF PageAssumption, PageInv, PageTypes
    <2> QED
        BY <1>2, <2>1, <2>2, <2>3, DivisorOfSum
<1>8. opening = 0 => avg' * bought' = spent'
    <2> SUFFICES ASSUME opening = 0
                 PROVE  avg' * bought' = spent'
        OBVIOUS
    <2>1. carried = 0 /\ v = bought
        BY DEF PageInv, PageTypes, PV!TypeOK
    <2>2. avg * v + price = spent'
        BY <1>1, <2>1 DEF PageInv, CostIsPaid
    <2>3. v + 1 \in 1 .. PageShares /\ spent' \in Nat
        BY <1>1, <1>2 DEF PageInv, PageTypes, PageAssumption
    <2>4. spent' % (v + 1) = 0
        BY <1>7, <2>3
    <2>5. (spent' \div (v + 1)) * (v + 1) = spent'
        BY <2>3, <2>4, ExactQuotient
    <2> QED
        BY <1>1, <2>1, <2>2, <2>5
<1>9. CostIsPaid'
    BY <1>1, <1>7, <1>8 DEF PageInv, PageTypes, CostIsPaid
<1>10. SoldIsCarried' /\ SellableIsCarried'
    BY <1>1 DEF PageInv, SoldIsCarried, SellableIsCarried, PV!Unknown
<1>11. PeakIsHeld'
    BY <1>1 DEF PageInv, PageTypes, PeakIsHeld, PV!Largest, PV!None
<1> QED
    BY <1>6, <1>9, <1>10, <1>11 DEF PageInv

LEMMA SellKeeps ==
    ASSUME PageAssumption, PageInv, NEW q \in 1 .. PageShares,
           PV!SendSell(q) \/ PV!CancelSell
    PROVE  PageInv'
<1>1. /\ UNCHANGED <<day, restarts, prev, opening, carried, bought, spent, fills, avg, peak,
                     closes, can_use>>
      /\ selling' \in Nat /\ selling' <= carried
    BY DEF PV!SendSell, PV!CancelSell, PV!position, PageInv, PageTypes, PageAssumption
<1>2. pure' \in BOOLEAN
    <2>1. pure \in BOOLEAN
        BY DEF PageInv, PageTypes, PV!TypeOK
    <2> QED
        BY <2>1, Zenon DEF PV!SendSell, PV!CancelSell
<1>3. pure' /\ can_use # PV!Unknown =>
        \/ pure /\ selling' >= selling
        \/ can_use >= carried /\ selling' = 0
    <2>1. CASE PV!SendSell(q)
        <3>1. selling' >= selling
            BY <2>1 DEF PV!SendSell, PageAssumption
        <3>2. pure' = pure
            BY <2>1 DEF PV!SendSell
        <3> QED
            BY <3>1, <3>2, Zenon
    <2>2. CASE PV!CancelSell
        BY <2>2, Zenon DEF PV!CancelSell
    <2> QED
        BY <2>1, <2>2, Zenon
<1>4. PageTypes'
    <2>1. PV!TypeOK'
        BY <1>1, <1>2 DEF PageInv, PageTypes, PV!TypeOK, PV!Volume
    <2> QED
        BY <1>1, <2>1 DEF PageInv, PageTypes
<1>5. CostIsPaid' /\ SoldIsCarried' /\ PeakIsHeld'
    BY <1>1 DEF PageInv, CostIsPaid, SoldIsCarried, PeakIsHeld
<1>6. SellableIsCarried'
    <2>1. can_use \in Int /\ carried \in Nat /\ selling \in Nat
        BY DEF PageInv, PageTypes
    <2>2. pure /\ can_use # PV!Unknown => carried <= can_use + selling
        BY DEF PageInv, SellableIsCarried
    <2>3. can_use' <= opening'
        BY <1>1 DEF PageInv, SellableIsCarried
    <2>4. ASSUME pure', can_use # PV!Unknown
          PROVE  carried <= can_use + selling'
        <3>1. CASE pure /\ selling' >= selling
            <4>1. carried <= can_use + selling
                BY <2>2, <2>4, <3>1, Zenon
            <4>2. selling' >= selling
                BY <3>1, Zenon
            <4>3. selling' \in Nat
                BY <1>1
            <4>4. \A c \in Int, h \in Nat, s \in Nat, t \in Nat : h <= c + s /\ t >= s => h <= c + t
                OBVIOUS
            <4> QED
                BY <2>1, <4>1, <4>2, <4>3, <4>4
        <3>2. CASE can_use >= carried /\ selling' = 0
            BY <2>1, <3>2
        <3> QED
            BY <1>3, <2>4, <3>1, <3>2, Zenon
    <2> QED
        BY <1>1, <2>3, <2>4 DEF SellableIsCarried, PV!Unknown
<1> QED
    BY <1>4, <1>5, <1>6 DEF PageInv

LEMMA FillKeeps ==
    ASSUME PageAssumption, PageInv, NEW price \in PagePrices, PV!FillSell(price)
    PROVE  PageInv'
<1>1. /\ UNCHANGED <<day, restarts, prev, opening, bought, spent, avg, peak, can_use, pure>>
      /\ selling > 0 /\ selling' = selling - 1 /\ carried' = carried - 1
    BY DEF PV!FillSell
<1>2. PICK booked \in {price, avg} :
        /\ fills' = [qty |-> fills.qty + 1, notional |-> fills.notional + 1 * booked]
        /\ closes' = [qty |-> closes.qty + 1, notional |-> closes.notional + 1 * booked]
    BY DEF PV!FillSell, PV!Plus
<1>8. booked \in Nat
    BY DEF PageAssumption, PageInv, PageTypes
<1>3. PageTypes'
    <2>1. carried' \in Nat /\ selling' \in Nat /\ selling' <= carried' /\ carried' <= opening
        BY <1>1 DEF PageInv, PageTypes, PV!TypeOK
    <2>2. fills' \in Sells /\ closes' \in Sells
        BY <1>2, <1>8 DEF PageInv, PageTypes, Sells
    <2>3. PV!Volume' \in 0 .. PageShares /\ peak' >= PV!Volume'
        <3>1. carried' = carried - 1 /\ bought' = bought /\ peak' = peak
            BY <1>1
        <3>2. /\ PV!Volume \in 0 .. PageShares /\ peak >= PV!Volume /\ PageShares \in Nat
              /\ peak \in Nat /\ bought \in Nat /\ carried \in Nat
            BY DEF PageAssumption, PageInv, PageTypes, PV!TypeOK
        <3> QED
            BY <2>1, <3>1, <3>2 DEF PV!Volume
    <2>4. selling' \in 0 .. carried' /\ carried' \in 0 .. opening'
        BY <1>1, <2>1 DEF PageInv, PageTypes
    <2>5. /\ day' \in 1 .. PageDays /\ restarts' \in 0 .. PageRestarts /\ avg' > 0
          /\ can_use' \in PV!Unknown .. PageShares /\ pure' \in BOOLEAN
        BY <1>1 DEF PageInv, PageTypes, PV!TypeOK, PV!Unknown
    <2>6. PV!TypeOK'
        BY <2>3, <2>4, <2>5, Zenon DEF PV!TypeOK
    <2> QED
        BY <1>1, <2>1, <2>2, <2>6 DEF PageInv, PageTypes
<1>4. CostIsPaid' /\ SellableIsCarried'
    BY <1>1 DEF PageInv, PageTypes, CostIsPaid, SellableIsCarried, PV!Unknown
<1>5. SoldIsCarried'
    BY <1>1, <1>2 DEF PageInv, PageTypes, SoldIsCarried, Sells
<1>6. closes' = fills' => closes = fills
    <2>1. closes' = fills' => closes.qty = fills.qty /\ closes.notional = fills.notional
        BY <1>2, <1>8 DEF PageInv, PageTypes, Sells
    <2> QED
        BY <2>1 DEF PageInv, PageTypes, Sells
<1>7. PeakIsHeld'
    BY <1>1, <1>2, <1>6 DEF PageInv, PageTypes, PeakIsHeld, Sells
<1> QED
    BY <1>3, <1>4, <1>5, <1>7 DEF PageInv

\* A mass status, a night or a restart reads the account anew.
LEMMA ReadKeeps ==
    ASSUME PageAssumption, PageInv,
           PV!MassStatus \/ PV!Restart \/ \E close_px \in PagePrices : PV!NextDay(close_px)
    PROVE  PageInv'
<1> USE DEF PageInv
<1>1. CASE PV!MassStatus
    <2>1. /\ UNCHANGED <<day, restarts, prev, opening, carried, bought, spent, selling, fills, avg,
                         peak, closes>>
          /\ can_use' = carried - selling /\ pure' = TRUE
        BY <1>1 DEF PV!MassStatus, PV!holding, PV!position
    <2>2. can_use' \in 0 .. PageShares
        BY <2>1 DEF PageAssumption, PageTypes, PV!TypeOK, PV!Volume
    <2>3. PV!TypeOK'
        <3>1. PV!Volume' = PV!Volume /\ pure' \in BOOLEAN /\ can_use' \in PV!Unknown .. PageShares
            BY <2>1, <2>2 DEF PageAssumption, PV!Volume, PV!Unknown
        <3>2. PV!Volume' \in 0 .. PageShares /\ peak' >= PV!Volume'
            BY <2>1, <3>1 DEF PageTypes, PV!TypeOK
        <3>3. selling' \in 0 .. carried' /\ carried' \in 0 .. opening'
            BY <2>1 DEF PageTypes, PV!TypeOK
        <3>4. day' \in 1 .. PageDays /\ restarts' \in 0 .. PageRestarts /\ avg' > 0
            BY <2>1 DEF PageTypes, PV!TypeOK
        <3> QED
            BY <3>1, <3>2, <3>3, <3>4, Zenon DEF PV!TypeOK
    <2>4. PageTypes'
        BY <2>1, <2>2, <2>3 DEF PageAssumption, PageTypes
    <2> QED
        BY <2>1, <2>4 DEF PageTypes, PV!TypeOK, CostIsPaid, SoldIsCarried, SellableIsCarried,
            PeakIsHeld
<1>2. CASE PV!Restart
    <2>1. /\ UNCHANGED <<day, prev, opening, carried, bought, spent, selling, avg, pure>>
          /\ restarts < PageRestarts /\ restarts' = restarts + 1
          /\ can_use' = PV!Unknown /\ fills' = PV!None
          /\ peak' = carried + bought /\ closes' = PV!None
        BY <1>2 DEF PV!Restart, PV!holding, PV!Volume
    <2>2. PageTypes'
        BY <2>1 DEF PageAssumption, PageTypes, PV!TypeOK, PV!Volume, PV!Unknown, PV!None, Sells
    <2>3. CostIsPaid'
        BY <2>1 DEF CostIsPaid
    <2> QED
        BY <2>1, <2>2, <2>3 DEF PageTypes, PV!TypeOK, SoldIsCarried, SellableIsCarried,
            PeakIsHeld, PV!None, PV!Unknown
<1>3. CASE \E close_px \in PagePrices : PV!NextDay(close_px)
    <2>1. /\ day < PageDays /\ selling = 0 /\ day' = day + 1 /\ prev' \in PagePrices
          /\ opening' = carried + bought /\ carried' = carried + bought
          /\ bought' = 0 /\ spent' = 0 /\ fills' = PV!None /\ can_use' = carried + bought
          /\ UNCHANGED <<restarts, selling, avg, peak, closes, pure>>
        BY <1>3 DEF PV!NextDay, PV!position, PV!Volume
    <2>2. PageTypes'
        BY <2>1 DEF PageAssumption, PageTypes, PV!TypeOK, PV!Volume, PV!Unknown, PV!None, Sells
    <2>3. \A k \in 1 .. PageShares : 0 % k = 0
        BY DEF PageAssumption
    <2>4. CostIsPaid'
        BY <2>1, <2>3 DEF CostIsPaid, PageTypes
    <2>5. PeakIsHeld'
        BY <2>1 DEF PeakIsHeld, PageTypes, PV!None
    <2> QED
        BY <2>1, <2>2, <2>4, <2>5 DEF PageTypes, SoldIsCarried, SellableIsCarried, PV!None
<1> QED
    BY <1>1, <1>2, <1>3

LEMMA PageKeeps ==
    ASSUME PageAssumption, PageInv, [PV!Next]_(PV!vars)
    PROVE  PageInv'
<1>1. CASE UNCHANGED PV!vars
    BY <1>1 DEF PV!vars, PV!holding, PV!position, PageInv, PageTypes, PV!TypeOK, PV!Volume,
        CostIsPaid, SoldIsCarried, SellableIsCarried, PeakIsHeld
<1>2. ASSUME NEW price \in PagePrices, PV!Buy(price) \/ PV!FillSell(price) \/ PV!NextDay(price)
      PROVE  PageInv'
    BY <1>2, BuyKeeps, FillKeeps, ReadKeeps
<1>3. ASSUME NEW q \in 1 .. PageShares, PV!SendSell(q)
      PROVE  PageInv'
    BY <1>3, SellKeeps
<1>4. CASE PV!CancelSell
    <2>1. 1 \in 1 .. PageShares
        BY <1>4 DEF PV!CancelSell, PageAssumption, PageInv, PageTypes, PV!TypeOK, PV!Volume
    <2> QED
        BY <1>4, <2>1, SellKeeps
<1>5. CASE PV!MassStatus \/ PV!Restart
    BY <1>5, ReadKeeps
<1> QED
    BY <1>1, <1>2, <1>3, <1>4, <1>5 DEF PV!Next

\* The page's sum over shares of yesterday only, and over shares of today only.
LEMMA CarriedProfit ==
    ASSUME NEW l \in Int, NEW p \in Int, NEW a \in Int, NEW v \in Int, NEW n \in Int, NEW q \in Int
    PROVE  (l - p) * v + (l - a) * (v - v) + n - p * q = v * l + n - 0 - p * (v + q)
<1>1. (l - p) * v = l * v - p * v /\ p * (v + q) = p * v + p * q /\ (l - a) * (v - v) = 0
    OBVIOUS
<1> QED
    BY <1>1

LEMMA BoughtProfit ==
    ASSUME NEW l \in Int, NEW p \in Int, NEW a \in Int, NEW v \in Int
    PROVE  (l - p) * 0 + (l - a) * (v - 0) + 0 - p * 0 = v * l + 0 - a * v - p * (0 + 0)
<1>1. (l - a) * v = l * v - a * v
    OBVIOUS
<1> QED
    BY <1>1

LEMMA PageHolds ==
    ASSUME PageAssumption, PageInv
    PROVE  PV!DayPnlIsReal
<1> USE DEF PageInv
<1> SUFFICES ASSUME proceeds = fills, pure, can_use # PV!Unknown, opening = 0 \/ bought = 0
             PROVE  /\ \A l \in PagePrices : carried + bought > 0
                       => PV!OpenPnl(l) = PV!TrueDayPnl(l)
                    /\ PV!ClosedToday /\ closes = fills =>
                         PV!ClosedPnlTimes = PV!TrueDayPnl(prev) * closes.qty
    BY DEF PV!DayPnlIsReal, PV!CarriedPnlIsReal, PV!Volume
<1>1. /\ prev \in Int /\ avg \in Int /\ fills.qty \in Nat /\ fills.notional \in Nat
      /\ closes.qty \in Nat /\ closes.notional \in Nat
    BY DEF PageAssumption, PageTypes, Sells
<1>2. ASSUME NEW l \in PagePrices, carried + bought > 0
      PROVE  PV!OpenPnl(l) = PV!TrueDayPnl(l)
    <2>1. l \in Int
        BY DEF PageAssumption
    <2>2. CASE bought = 0
        <3>1. PV!OpeningQty = carried /\ PV!Volume = carried /\ spent = 0
            BY <2>2 DEF PV!OpeningQty, PV!Largest, PV!Smallest, PV!Volume, PV!Unknown, PageTypes,
                PV!TypeOK, SellableIsCarried, CostIsPaid
        <3>2. carried \in Int
            BY DEF PageTypes
        <3> QED
            BY <1>1, <2>1, <3>1, <3>2, CarriedProfit DEF PV!OpenPnl, PV!TrueDayPnl
    <2>3. CASE opening = 0
        <3>1. /\ PV!OpeningQty = 0 /\ PV!Volume = bought /\ carried = 0
              /\ fills.qty = 0 /\ fills.notional = 0
            BY <1>1, <2>3 DEF PV!OpeningQty, PV!Largest, PV!Smallest, PV!Volume, PV!Unknown,
                PageTypes, PV!TypeOK, SellableIsCarried, SoldIsCarried
        <3>2. spent = avg * bought /\ bought \in Int
            BY <2>3 DEF CostIsPaid, PageTypes
        <3> QED
            BY <1>1, <2>1, <3>1, <3>2, BoughtProfit DEF PV!OpenPnl, PV!TrueDayPnl
    <2> QED
        BY <2>2, <2>3
<1>3. ASSUME PV!ClosedToday, closes = fills
      PROVE  PV!ClosedPnlTimes = PV!TrueDayPnl(prev) * closes.qty
    <2>1. carried = 0 /\ bought = 0 /\ spent = 0
        BY <1>3 DEF PV!ClosedToday, PV!Volume, PageTypes, CostIsPaid
    <2>2. peak = closes.qty
        BY <1>1, <1>3, <2>1 DEF PeakIsHeld, PageTypes
    <2>3. PV!TrueDayPnl(prev) = closes.notional - prev * closes.qty
        BY <1>1, <1>3, <2>1 DEF PV!TrueDayPnl, PV!Volume
    <2> QED
        BY <2>2, <2>3 DEF PV!ClosedPnlTimes
<1> QED
    BY <1>2, <1>3

-----------------------------------------------------------------------------
(* The returns of a day *)

ReturnsAssumption ==
    /\ ReturnDays \in Nat \ {0} /\ ReturnPrices \subseteq Nat
    /\ ReturnShares \in Nat /\ Trades \in Nat

Amounts == [n : Nat, amount : Nat]

ReturnsTypes ==
    /\ returns_day \in 1 .. ReturnDays /\ phase \in {"session", "closed"}
    /\ preClose \in Nat /\ close \in Nat /\ opened \in Nat
    /\ returns_bought \in Amounts /\ sold \in Amounts /\ buys \in Amounts /\ sells \in Amounts
    /\ after \in [0 .. ReturnDays -> Int]

\* What is held is what there was and what was traded; shares bought today are not sold.
BookIsKept ==
    /\ returns_held = opened + returns_bought.n - sold.n
    /\ sold.n <= opened

\* What the recorder has of the trades, and what a trade costs.
TradesAreReal ==
    /\ buys.n <= returns_bought.n /\ sells.n <= sold.n
    /\ \A t \in {returns_bought, sold, buys, sells} : t.n = 0 => t.amount = 0

\* A row is what was held, or is missing.
RowsAreReal ==
    /\ before \in {opened, DR!None}
    /\ after[returns_day - 1] \in {opened, DR!None}
    /\ phase = "closed" => after[returns_day] \in {returns_held, DR!None}

TableIsGain ==
    \A t \in {"all", "summary"} \cap DOMAIN returns_table :
        (t = "all" \/ inputs.whole) => returns_table[t] = DR!Gain

\* A report is of a day that is over; without trades, each that could be made was right.
ReportsAreOfToday ==
    /\ phase = "session" => returns_table = DR!NoRow /\ inputs = DR!Unread
    /\ returns_bought.n = 0 /\ sold.n = 0 => TableIsGain

ReturnsBook == ReturnsTypes /\ BookIsKept /\ TradesAreReal /\ RowsAreReal

ReturnsInv == ReturnsBook /\ ReportsAreOfToday /\ DR!ReturnIsReal

LEMMA NoRowIsGain == ASSUME returns_table = DR!NoRow PROVE TableIsGain
BY DEF DR!NoRow, TableIsGain

\* Before anything is reported.
LEMMA UnreadIsReal ==
    ASSUME returns_table = DR!NoRow, inputs = DR!Unread
    PROVE  DR!ReturnIsReal
<1>1. \A t \in {"all", "summary"} \cap DOMAIN returns_table : returns_table[t] = DR!Gain
    BY DEF DR!NoRow
<1>2. inputs.before = DR!None
    BY DEF DR!Unread
<1> QED
    BY <1>1, <1>2 DEF DR!ReturnIsReal

LEMMA ReturnsStart ==
    ASSUME ReturnsAssumption, DR!Init
    PROVE  ReturnsInv
<1>1. ReturnsTypes
    <2>1. after \in [0 .. ReturnDays -> Int]
        BY DEF ReturnsAssumption, DR!Init, DR!Rows, DR!None
    <2> QED
        BY <2>1 DEF ReturnsAssumption, DR!Init, ReturnsTypes, DR!Nothing, Amounts
<1>2. BookIsKept /\ TradesAreReal
    BY DEF ReturnsAssumption, DR!Init, BookIsKept, TradesAreReal, DR!Nothing
<1>3. RowsAreReal
    <2>1. after[0] \in {opened, DR!None} /\ returns_day = 1 /\ phase = "session"
        BY DEF ReturnsAssumption, DR!Init, DR!Rows
    <2>2. before \in {opened, DR!None}
        BY DEF DR!Init, DR!Rows
    <2> QED
        BY <2>1, <2>2 DEF RowsAreReal
<1>4. ReportsAreOfToday /\ DR!ReturnIsReal
    BY NoRowIsGain, UnreadIsReal DEF DR!Init, ReportsAreOfToday
<1> QED
    BY <1>1, <1>2, <1>3, <1>4 DEF ReturnsInv, ReturnsBook

-----------------------------------------------------------------------------
(* What a report makes of what it reads *)

\* The shares that were neither bought nor sold, when the report has the trades and can tell
\* what was held.
LEMMA UnchangedIsKept ==
    ASSUME ReturnsBook, phase = "closed", buys.n = returns_bought.n, sells.n = sold.n,
           DR!Before # DR!None \/ DR!After # DR!None \/ opened = sold.n
    PROVE  DR!Unchanged = opened - sold.n
<1>1. DR!After \in {returns_held, DR!None} /\ DR!Before \in {opened, DR!None}
    BY DEF ReturnsBook, RowsAreReal, DR!After, DR!Before, DR!Fallback
<1>2. /\ opened \in Nat /\ sold.n \in Nat /\ returns_bought.n \in Nat /\ sold.n <= opened
      /\ returns_held = opened + returns_bought.n - sold.n
    BY DEF ReturnsBook, ReturnsTypes, BookIsKept, Amounts
<1>3. CASE DR!After # DR!None
    BY <1>1, <1>2, <1>3 DEF DR!Unchanged, DR!FromAfter, DR!AtLeast0
<1>4. CASE DR!After = DR!None /\ DR!Before # DR!None
    BY <1>1, <1>2, <1>4 DEF DR!Unchanged, DR!FromBefore, DR!AtLeast0
<1>5. CASE DR!After = DR!None /\ DR!Before = DR!None
    BY <1>1, <1>2, <1>5 DEF DR!Unchanged, DR!FromBefore, DR!AtLeast0, DR!None
<1> QED
    BY <1>3, <1>4, <1>5

LEMMA UnchangedType ==
    ASSUME ReturnsBook, phase = "closed"
    PROVE  DR!Unchanged \in Nat
<1>1. DR!After \in Int /\ DR!Before \in Int
    BY DEF ReturnsBook, ReturnsTypes, BookIsKept, RowsAreReal, DR!After, DR!Before, DR!Fallback,
        DR!None, Amounts
<1>2. buys.n \in Nat /\ sells.n \in Nat
    BY DEF ReturnsBook, ReturnsTypes, Amounts
<1> QED
    BY <1>1, <1>2 DEF DR!Unchanged, DR!FromAfter, DR!FromBefore, DR!AtLeast0

LEMMA ReturnsAddUp ==
    ASSUME NEW c \in Int, NEW p \in Int, NEW bn \in Int, NEW ba \in Int, NEW sn \in Int,
           NEW sa \in Int, NEW u \in Int, NEW total, NEW gain,
           total = (c * bn - ba) + (sa - p * sn) + (c - p) * u,
           gain = sa - ba + (u + bn) * c - (u + sn) * p
    PROVE  total = gain
<1>1. /\ (c - p) * u = c * u - p * u
      /\ (u + bn) * c = c * u + c * bn
      /\ (u + sn) * p = p * u + p * sn
    OBVIOUS
<1> QED
    BY <1>1

\* A type without rows returns nothing.
LEMMA TotalIsSum ==
    ASSUME ReturnsBook, phase = "closed"
    PROVE  DR!Total = (close * buys.n - buys.amount) + (sells.amount - preClose * sells.n)
                      + (close - preClose) * DR!Unchanged
<1>1. DR!Unchanged \in Nat
    BY UnchangedType
<1>2. /\ buys.n \in Nat /\ buys.amount \in Nat /\ sells.n \in Nat /\ sells.amount \in Nat
      /\ close \in Nat /\ preClose \in Nat
      /\ buys.n = 0 => buys.amount = 0
      /\ sells.n = 0 => sells.amount = 0
    BY DEF ReturnsBook, ReturnsTypes, TradesAreReal, Amounts
<1> DEFINE returned(t) == IF t \in DR!Types THEN DR!Return(t) ELSE 0
<1>3. returned("buy") = close * buys.n - buys.amount
    <2>1. "buy" \in DR!Types <=> buys.n > 0
        BY DEF DR!Types
    <2>2. DR!Return("buy") = close * buys.n - buys.amount
        BY DEF DR!Return
    <2>3. buys.n = 0 => close * buys.n - buys.amount = 0
        BY <1>2
    <2> QED
        BY <1>2, <2>1, <2>2, <2>3
<1>4. returned("sell") = sells.amount - preClose * sells.n
    <2>1. "sell" \in DR!Types <=> sells.n > 0
        BY DEF DR!Types
    <2>2. DR!Return("sell") = sells.amount - preClose * sells.n
        BY DEF DR!Return
    <2>3. sells.n = 0 => sells.amount - preClose * sells.n = 0
        BY <1>2
    <2> QED
        BY <1>2, <2>1, <2>2, <2>3
<1>5. returned("hold") = (close - preClose) * DR!Unchanged
    <2>1. "hold" \in DR!Types <=> DR!Unchanged > 0
        BY DEF DR!Types
    <2>2. DR!Return("hold") = (close - preClose) * DR!Unchanged
        BY DEF DR!Return
    <2>3. DR!Unchanged = 0 => (close - preClose) * DR!Unchanged = 0
        BY <1>2
    <2> QED
        BY <1>1, <2>1, <2>2, <2>3
<1>6. DR!Total = returned("buy") + returned("sell") + returned("hold")
    BY DEF DR!Total
<1> QED
    BY <1>3, <1>4, <1>5, <1>6

LEMMA TotalIsGain ==
    ASSUME ReturnsBook, phase = "closed", buys = returns_bought, sells = sold,
           DR!Before # DR!None \/ DR!After # DR!None \/ opened = sold.n
    PROVE  DR!Total = DR!Gain
<1> DEFINE u == opened - sold.n
<1>1. /\ buys.n \in Int /\ buys.amount \in Int /\ sells.n \in Int /\ sells.amount \in Int
      /\ close \in Int /\ preClose \in Int /\ opened \in Int /\ u \in Int
      /\ returns_held = u + buys.n /\ opened = u + sells.n
    BY DEF ReturnsBook, ReturnsTypes, BookIsKept, Amounts
<1>2. DR!Unchanged = u
    BY UnchangedIsKept
<1>3. DR!Gain = sells.amount - buys.amount + (u + buys.n) * close - (u + sells.n) * preClose
    BY <1>1 DEF DR!Gain
<1>4. DR!Total = (close * buys.n - buys.amount) + (sells.amount - preClose * sells.n)
                 + (close - preClose) * u
    BY <1>2, TotalIsSum
<1> DEFINE bn == buys.n
           ba == buys.amount
           sn == sells.n
           sa == sells.amount
<1>5. bn \in Int /\ ba \in Int /\ sn \in Int /\ sa \in Int /\ u \in Int
    BY <1>1
<1>6. /\ DR!Total = (close * bn - ba) + (sa - preClose * sn) + (close - preClose) * u
      /\ DR!Gain = sa - ba + (u + bn) * close - (u + sn) * preClose
    BY <1>3, <1>4
<1>7. close \in Int /\ preClose \in Int
    BY <1>1
<1> HIDE DEF u, bn, ba, sn, sa
<1> QED
    BY <1>5, <1>6, <1>7, ReturnsAddUp

-----------------------------------------------------------------------------
(* The steps *)

LEMMA DayTradeKeeps ==
    ASSUME ReturnsAssumption, ReturnsInv, DR!Buy \/ DR!Sell
    PROVE  ReturnsInv'
<1> USE DEF ReturnsInv, ReturnsBook
<1>1. PICK p \in ReturnPrices, b \in {0, 1} :
          /\ phase = "session"
          /\ UNCHANGED <<returns_day, preClose, opened, phase, close, before, after, returns_table,
                         inputs>>
          /\ \/ /\ b = 1 /\ returns_held' = returns_held + 1
                /\ returns_bought' = DR!More(returns_bought, p)
                /\ buys' \in {buys, DR!More(buys, p)} /\ UNCHANGED <<sold, sells>>
             \/ /\ b = 0 /\ returns_held' = returns_held - 1 /\ sold.n < opened
                /\ sold' = DR!More(sold, p)
                /\ sells' \in {sells, DR!More(sells, p)} /\ UNCHANGED <<returns_bought, buys>>
    BY DEF DR!Buy, DR!Sell, DR!today
<1>2. p \in Nat
    BY DEF ReturnsAssumption
<1>3. /\ returns_bought' \in Amounts /\ sold' \in Amounts /\ buys' \in Amounts /\ sells' \in Amounts
      /\ BookIsKept' /\ TradesAreReal'
    <2>1. ASSUME NEW a \in Amounts
          PROVE  /\ DR!More(a, p) \in Amounts /\ DR!More(a, p).n = a.n + 1
                 /\ DR!More(a, p).n # 0
        BY <1>2 DEF Amounts, DR!More
    <2>2. /\ returns_bought \in Amounts /\ sold \in Amounts /\ buys \in Amounts /\ sells \in Amounts
          /\ opened \in Nat
        BY DEF ReturnsTypes
    <2>3. ASSUME NEW a \in Amounts
          PROVE  a.n \in Nat
        BY DEF Amounts
    <2>4. returns_bought' \in Amounts /\ sold' \in Amounts /\ buys' \in Amounts
          /\ sells' \in Amounts
        BY <1>1, <2>1, <2>2
    <2>5. BookIsKept'
        <3>1. CASE b = 1
            BY <1>1, <2>1, <2>2, <2>3, <3>1 DEF BookIsKept
        <3>2. CASE b = 0
            BY <1>1, <2>1, <2>2, <2>3, <3>2 DEF BookIsKept
        <3> QED
            BY <3>1, <3>2
    <2>6. buys'.n <= returns_bought'.n /\ sells'.n <= sold'.n
        <3>1. CASE b = 1
            BY <1>1, <2>1, <2>2, <2>3, <3>1 DEF TradesAreReal
        <3>2. CASE b = 0
            BY <1>1, <2>1, <2>2, <2>3, <3>2 DEF TradesAreReal
        <3> QED
            BY <3>1, <3>2
    <2>7. \A t \in {returns_bought', sold', buys', sells'} : t.n = 0 => t.amount = 0
        BY <1>1, <2>1, <2>2 DEF TradesAreReal
    <2> QED
        BY <2>4, <2>5, <2>6, <2>7 DEF TradesAreReal
<1>4. ReturnsTypes' /\ RowsAreReal'
    BY <1>1, <1>3 DEF ReturnsTypes, RowsAreReal
<1>5. returns_table' = DR!NoRow /\ inputs' = DR!Unread
    BY <1>1 DEF ReportsAreOfToday
<1>6. TableIsGain' /\ DR!ReturnIsReal'
    <2>1. \A t \in {"all", "summary"} \cap DOMAIN returns_table' : returns_table'[t] = DR!Gain'
        BY <1>5 DEF DR!NoRow
    <2>2. inputs'.before = DR!None
        BY <1>5 DEF DR!Unread
    <2> QED
        BY <2>1, <2>2 DEF TableIsGain, DR!ReturnIsReal
<1> QED
    BY <1>1, <1>3, <1>4, <1>5, <1>6 DEF ReportsAreOfToday

LEMMA DayCloseKeeps ==
    ASSUME ReturnsAssumption, ReturnsInv, DR!Close
    PROVE  ReturnsInv'
<1> USE DEF ReturnsInv, ReturnsBook
<1>1. PICK shares \in DR!Rows(returns_held) :
          /\ phase = "session" /\ phase' = "closed" /\ close' \in ReturnPrices
          /\ after' = [after EXCEPT ![returns_day] = shares]
          /\ UNCHANGED <<returns_day, preClose, opened, returns_held, returns_bought, sold, before,
                         buys, sells, returns_table, inputs>>
    BY DEF DR!Close, DR!today, DR!book
<1>2. returns_held \in Int
    BY DEF ReturnsTypes, BookIsKept, Amounts
<1>3. ReturnsTypes'
    BY <1>1, <1>2 DEF ReturnsAssumption, ReturnsTypes, DR!Rows, DR!None
<1>4. BookIsKept' /\ TradesAreReal'
    BY <1>1 DEF BookIsKept, TradesAreReal
<1>5. RowsAreReal'
    <2>1. after'[returns_day] = shares /\ after'[returns_day - 1] = after[returns_day - 1]
        BY <1>1 DEF ReturnsAssumption, ReturnsTypes
    <2> QED
        BY <1>1, <2>1 DEF RowsAreReal, DR!Rows
<1>6. returns_table' = DR!NoRow /\ inputs' = DR!Unread
    BY <1>1 DEF ReportsAreOfToday
<1>7. TableIsGain' /\ DR!ReturnIsReal'
    <2>1. \A t \in {"all", "summary"} \cap DOMAIN returns_table' : returns_table'[t] = DR!Gain'
        BY <1>6 DEF DR!NoRow
    <2>2. inputs'.before = DR!None
        BY <1>6 DEF DR!Unread
    <2> QED
        BY <2>1, <2>2 DEF TableIsGain, DR!ReturnIsReal
<1> QED
    BY <1>1, <1>3, <1>4, <1>5, <1>6, <1>7 DEF ReportsAreOfToday

LEMMA BackfillKeeps ==
    ASSUME ReturnsAssumption, ReturnsInv, DR!Backfill
    PROVE  ReturnsInv'
<1> USE DEF ReturnsInv, ReturnsBook
<1>1. /\ phase = "closed"
      /\ buys' \in {buys, returns_bought} /\ sells' \in {sells, sold}
      /\ after' \in {after, [after EXCEPT ![returns_day] = returns_held]}
      /\ UNCHANGED <<returns_day, preClose, opened, phase, close, returns_held, returns_bought,
                     sold, before, returns_table, inputs>>
    BY DEF DR!Backfill, DR!today, DR!book
<1>2. returns_held \in Int
    BY DEF ReturnsTypes, BookIsKept, Amounts
<1>3. ReturnsTypes'
    BY <1>1, <1>2 DEF ReturnsAssumption, ReturnsTypes
<1>4. BookIsKept' /\ TradesAreReal'
    BY <1>1 DEF BookIsKept, TradesAreReal, ReturnsTypes, Amounts
<1>5. RowsAreReal'
    <2>1. /\ after'[returns_day] \in {after[returns_day], returns_held}
          /\ after'[returns_day - 1] = after[returns_day - 1]
        BY <1>1 DEF ReturnsAssumption, ReturnsTypes
    <2> QED
        BY <1>1, <2>1 DEF RowsAreReal
<1>6. DR!Gain' = DR!Gain
    BY <1>1 DEF DR!Gain
<1>7. ReportsAreOfToday' /\ DR!ReturnIsReal'
    BY <1>1, <1>6 DEF ReportsAreOfToday, TableIsGain, DR!ReturnIsReal
<1> QED
    BY <1>3, <1>4, <1>5, <1>7

LEMMA NextDayKeeps ==
    ASSUME ReturnsAssumption, ReturnsInv, DR!NextDay
    PROVE  ReturnsInv'
<1> USE DEF ReturnsInv, ReturnsBook
<1>1. /\ phase = "closed" /\ returns_day < ReturnDays
      /\ returns_day' = returns_day + 1 /\ phase' = "session"
      /\ preClose' = close /\ close' = 0 /\ opened' = returns_held
      /\ before' \in DR!Rows(returns_held)
      /\ returns_bought' = DR!Nothing /\ sold' = DR!Nothing
      /\ buys' = DR!Nothing /\ sells' = DR!Nothing
      /\ returns_table' = DR!NoRow /\ inputs' = DR!Unread
      /\ UNCHANGED <<returns_held, after>>
    BY DEF DR!NextDay
<1>2. returns_held \in Nat
    BY DEF ReturnsTypes, BookIsKept, Amounts
<1>3. ReturnsTypes'
    BY <1>1, <1>2 DEF ReturnsAssumption, ReturnsTypes, Amounts, DR!Nothing
<1>4. BookIsKept' /\ TradesAreReal'
    BY <1>1, <1>2 DEF BookIsKept, TradesAreReal, DR!Nothing
<1>5. RowsAreReal'
    BY <1>1 DEF RowsAreReal, ReturnsTypes, DR!Rows
<1>6. TableIsGain' /\ DR!ReturnIsReal'
    <2>1. \A t \in {"all", "summary"} \cap DOMAIN returns_table' : returns_table'[t] = DR!Gain'
        BY <1>1 DEF DR!NoRow
    <2>2. inputs'.before = DR!None
        BY <1>1 DEF DR!Unread
    <2> QED
        BY <2>1, <2>2 DEF TableIsGain, DR!ReturnIsReal
<1> QED
    BY <1>1, <1>3, <1>4, <1>5, <1>6 DEF ReportsAreOfToday

LEMMA DayReportKeeps ==
    ASSUME ReturnsAssumption, ReturnsInv, DR!Report
    PROVE  ReturnsInv'
<1> USE DEF ReturnsInv, ReturnsBook
<1>1. PICK method \in {"asset-snapshot", "positions-and-trades"} :
          /\ phase = "closed" /\ DR!Reconciled
          /\ returns_table' = DR!Upserted(DR!Result(method))
          /\ inputs' = [before |-> DR!Before, after |-> DR!After, buys |-> buys, sells |-> sells,
                        bought |-> returns_bought, sold |-> sold, opened |-> opened,
                        whole |-> DR!Whole(method)]
          /\ UNCHANGED <<returns_day, preClose, opened, phase, close, returns_held, returns_bought,
                         sold, before, after, buys, sells>>
    BY DEF DR!Report, DR!today, DR!book
<1>2. ReturnsBook'
    BY <1>1 DEF ReturnsTypes, BookIsKept, TradesAreReal, RowsAreReal
<1>3. DR!Gain' = DR!Gain
    BY <1>1 DEF DR!Gain
<1>4. ASSUME NEW t \in {"all", "summary"}, t \in DOMAIN returns_table',
             t = "all" \/ inputs'.whole,
             DR!Types # {} => DR!Total = DR!Gain,
             DR!Types = {} => TableIsGain
      PROVE  returns_table'[t] = DR!Gain
    <2>1. t \notin DR!Types
        BY DEF DR!Types
    <2>2. /\ DOMAIN DR!Result(method) = DR!Resulting(method)
          /\ t \in DR!Resulting(method) =>
               DR!Result(method)[t] =
                 IF t = "summary" /\ DR!BySnapshots(method) THEN DR!NetValueChange ELSE DR!Total
        BY <2>1 DEF DR!Result
    <2>3. returns_table'[t] = IF t \in DR!Resulting(method) THEN DR!Result(method)[t]
                              ELSE returns_table[t]
        BY <1>1, <1>4, <2>2 DEF DR!Upserted
    <2>4. t \in DR!Resulting(method) <=> DR!Types # {} \/ (t = "summary" /\ DR!BySnapshots(method))
        BY <2>1 DEF DR!Resulting
    <2>5. t \in DR!Resulting(method) \/ t \in DOMAIN returns_table
        BY <1>1, <1>4, <2>2 DEF DR!Upserted
    <2>6. inputs'.whole = DR!Whole(method)
        BY <1>1
    <2>7. CASE t \in DR!Resulting(method)
        <3>1. CASE t = "summary" /\ DR!BySnapshots(method)
            <4>1. assets.earlier # "empty" /\ assets.today # "empty"
                BY <1>4, <2>6, <2>7, <3>1 DEF DR!Whole
            <4>2. DR!NetValueChange = DR!Gain
                BY <4>1 DEF DR!NetValueChange, DR!Stored, DR!Gain
            <4> QED
                BY <2>2, <2>3, <2>7, <3>1, <4>2, Zenon
        <3>2. CASE ~(t = "summary" /\ DR!BySnapshots(method))
            BY <1>4, <2>2, <2>3, <2>4, <2>7, <3>2, Zenon
        <3> QED
            BY <3>1, <3>2, Zenon
    <2>8. CASE t \notin DR!Resulting(method)
        <3>1. DR!Types = {}
            BY <2>4, <2>8, Zenon
        <3>2. t \in DOMAIN returns_table
            BY <2>5, <2>8
        <3>3. t = "all" \/ inputs.whole
            BY <1>4, <2>6, <2>8 DEF DR!Whole
        <3>4. returns_table[t] = DR!Gain
            BY <1>4, <3>1, <3>2, <3>3 DEF TableIsGain
        <3> QED
            BY <2>3, <2>8, <3>4
    <2> QED
        BY <2>7, <2>8
<1>5. ASSUME returns_bought.n = 0, sold.n = 0
      PROVE  TableIsGain'
    <2>1. buys = returns_bought /\ sells = sold
        <3>1. /\ buys \in Amounts /\ sells \in Amounts /\ returns_bought \in Amounts
                 /\ sold \in Amounts
              /\ buys.n = 0 /\ sells.n = 0 /\ buys.amount = 0 /\ sells.amount = 0
              /\ returns_bought.amount = 0 /\ sold.amount = 0
            BY <1>5 DEF ReturnsTypes, TradesAreReal, Amounts
        <3> QED
            BY <1>5, <3>1 DEF Amounts
    <2>2. ASSUME DR!Types # {}
          PROVE  DR!Total = DR!Gain
        <3>1. DR!Unchanged > 0
            BY <1>5, <2>1, <2>2 DEF DR!Types
        <3>2. DR!Before # DR!None \/ DR!After # DR!None
            BY <1>5, <2>1, <3>1 DEF DR!Unchanged, DR!FromBefore, DR!AtLeast0, DR!None
        <3> QED
            BY <1>1, <2>1, <3>2, TotalIsGain
    <2>3. TableIsGain
        BY <1>5 DEF ReportsAreOfToday
    <2> QED
        BY <1>3, <1>4, <2>2, <2>3 DEF TableIsGain
<1>6. ASSUME buys = returns_bought, sells = sold,
             DR!Before # DR!None \/ DR!After # DR!None \/ opened = sold.n
      PROVE  TableIsGain'
    <2>1. DR!Total = DR!Gain
        BY <1>1, <1>6, TotalIsGain
    <2>2. DR!Types = {} => TableIsGain
        <3>1. DR!Types = {} => returns_bought.n = 0 /\ sold.n = 0
            BY <1>6 DEF DR!Types, ReturnsTypes, Amounts
        <3> QED
            BY <3>1 DEF ReportsAreOfToday
    <2> QED
        BY <1>3, <1>4, <2>1, <2>2 DEF TableIsGain
<1>7. ASSUME DR!Before # DR!None, DR!After # DR!None
      PROVE  returns_bought.n - buys.n = sold.n - sells.n
    <2>1. DR!FromAfter = DR!FromBefore
        BY <1>1, <1>7 DEF DR!Reconciled
    <2>2. DR!After = returns_held /\ DR!Before = opened
        BY <1>1, <1>7 DEF RowsAreReal, DR!After, DR!Before, DR!Fallback
    <2>3. /\ opened \in Nat /\ sold.n \in Nat /\ returns_bought.n \in Nat /\ buys.n \in Nat
          /\ sells.n \in Nat /\ sold.n <= opened /\ buys.n <= returns_bought.n /\ sells.n <= sold.n
          /\ returns_held = opened + returns_bought.n - sold.n
        BY DEF ReturnsTypes, BookIsKept, TradesAreReal, Amounts
    <2> QED
        BY <2>1, <2>2, <2>3 DEF DR!FromAfter, DR!FromBefore, DR!AtLeast0
<1>8. DR!ReturnIsReal'
    <2>1. /\ inputs'.buys = buys /\ inputs'.bought = returns_bought
          /\ inputs'.sells = sells /\ inputs'.sold = sold /\ inputs'.opened = opened
          /\ inputs'.before = DR!Before /\ inputs'.after = DR!After
        BY <1>1
    <2> QED
        BY <1>6, <1>7, <2>1 DEF DR!ReturnIsReal, DR!None, TableIsGain
<1>9. ReportsAreOfToday'
    BY <1>1, <1>5 DEF ReportsAreOfToday
<1> QED
    BY <1>2, <1>8, <1>9

LEMMA ReturnsKeep ==
    ASSUME ReturnsAssumption, ReturnsInv, [DR!Next]_(DR!vars)
    PROVE  ReturnsInv'
<1>1. CASE UNCHANGED DR!vars
    BY <1>1 DEF DR!vars, DR!today, DR!book, ReturnsInv, ReturnsBook, ReturnsTypes, BookIsKept,
        TradesAreReal, RowsAreReal, ReportsAreOfToday, TableIsGain, DR!ReturnIsReal, DR!Gain
<1> QED
    BY <1>1, DayTradeKeeps, DayCloseKeeps, BackfillKeeps, NextDayKeeps, DayReportKeeps DEF DR!Next

LEMMA ReturnsHold == ReturnsInv => DR!ReturnIsReal
BY DEF ReturnsInv

-----------------------------------------------------------------------------
(* The components side by side *)

LEMMA Assumed ==
    /\ AccountAssumption /\ NodesAssumption /\ ReportsAssumption /\ SyncAssumption
    /\ PageAssumption /\ ReturnsAssumption
<1>1. AccountAssumption /\ NodesAssumption /\ ReportsAssumption /\ SyncAssumption
    BY ServicesAssumption DEF AccountAssumption, NodesAssumption, ReportsAssumption,
        SyncAssumption
<1>2. PageAssumption
    BY ServicesAssumption, Zenon DEF PageAssumption
<1>3. ReturnsAssumption
    BY ServicesAssumption, Zenon DEF ReturnsAssumption
<1> QED
    BY <1>1, <1>2, <1>3

\* A behaviour starts as one of the component that runs, and the switches start in all of them.
LEMMA PartStarts ==
    ASSUME PartsInit
    PROVE  /\ Init
           /\ part = "ordering" => LO!Init
           /\ part = "page" => PV!Init
           /\ part = "asset" => AV!Init
           /\ part = "nodes" => NL!Init
           /\ part = "poll" => HP!Init
           /\ part = "reports" => LR!Init
           /\ part = "sync" => RS!Init
           /\ part = "returns" => DR!Init
    BY DEF PartsInit

\* A step is one of the component that runs, and leaves the others as they are.
LEMMA PartSteps ==
    ASSUME [PartsNext]_partsVars
    PROVE  /\ part' = part
           /\ [Next]_vars
           /\ part = "ordering" => [LO!Next]_(LO!vars)
           /\ part = "page" => [PV!Next]_(PV!vars)
           /\ part = "asset" => [AV!Next]_(AV!vars)
           /\ part = "nodes" => [NL!Next]_(NL!vars)
           /\ part = "poll" => [HP!Next]_(HP!vars)
           /\ part = "reports" => [LR!Next]_(LR!vars)
           /\ part = "sync" => [RS!Next]_(RS!vars)
           /\ part = "returns" => [DR!Next]_(DR!vars)
<1>1. CASE UNCHANGED partsVars
    BY <1>1 DEF partsVars, ordering, page, asset, nodes, poll, reports, sync, returns,
        LO!vars, LO!instrument, PV!vars, PV!holding, PV!position, AV!vars, AV!account, NL!vars,
        HP!vars, HP!services, HP!poll, LR!vars, LR!reports, LR!exporter, RS!vars, RS!clickhouse,
        DR!vars, DR!today, DR!book
<1>2. CASE PartsNext
    BY <1>2 DEF PartsNext
<1> QED
    BY <1>1, <1>2

\* What an operator was answered is what gates trading, the copies of the switch agree, and
\* both survive a restart unless the database failed them, through any number of requests,
\* restarts and failures: on a switch that two requests were on at once, again as soon as
\* one has run alone (_set_paused, _persist_paused).
THEOREM SwitchesKeepTheirWord ==
    PartsSpec => [](SwitchesAgree /\ PauseSurvives)
<1>1. PartsInit => IInv
    BY PartStarts, InitIInv
<1>2. IInv /\ [PartsNext]_partsVars => IInv'
    BY PartSteps, NextKeeps
<1>3. IInv => SwitchesAgree /\ PauseSurvives
    BY DEF IInv, Promises, SwitchesAgree
<1> QED
    BY <1>1, <1>2, <1>3, PTL DEF PartsSpec

AccountPart == part = "asset" => AccountInv

\* The value a plan is sized on, and the total the page rebuilds, are what the account is
\* worth, for every price and number of shares (_portfolio_value, _asset_payload).
THEOREM ValueIsRead ==
    PartsSpec => []AccountIsRead
<1>1. PartsInit => AccountPart
    BY PartStarts, Assumed, AccountStarts DEF AccountPart
<1>2. AccountPart /\ [PartsNext]_partsVars => AccountPart'
    BY PartSteps, Assumed, AccountKeeps DEF AccountPart
<1>3. AccountPart => AccountIsRead
    BY Assumed, AccountHolds DEF AccountPart, AccountIsRead
<1> QED
    BY <1>1, <1>2, <1>3, PTL DEF PartsSpec

NodesPart == part = "nodes" => NodesInv

\* Whatever number of nodes overlap on one machine, and wherever they are killed: the node
\* that trades has the control port, and a writer of switches is that of a node that has
\* read them (build_target_model_node, main).
THEOREM NodesUnderControl ==
    PartsSpec => []TradesUnderControl
<1>1. PartsInit => NodesPart
    BY PartStarts, Assumed, NodesStart DEF NodesPart
<1>2. NodesPart /\ [PartsNext]_partsVars => NodesPart'
    BY PartSteps, Assumed, NodesKeep DEF NodesPart
<1>3. NodesPart => TradesUnderControl
    BY Assumed, NodesHold DEF NodesPart, TradesUnderControl
<1> QED
    BY <1>1, <1>2, <1>3, PTL DEF PartsSpec

SyncPart == part = "sync" => SyncInv

\* However many jobs overlap and wherever they fail, MySQL's copy of the reference data is that
\* of one job, whole, for every number of rows and versions (upsert_rows).
THEOREM SyncsAreWhole ==
    PartsSpec => []SyncIsWhole
<1>1. PartsInit => SyncPart
    BY PartStarts, Assumed, SyncStarts DEF SyncPart
<1>2. SyncPart /\ [PartsNext]_partsVars => SyncPart'
    BY PartSteps, Assumed, SyncKeeps DEF SyncPart
<1>3. SyncPart => SyncIsWhole
    BY Assumed, SyncHolds DEF SyncPart, SyncIsWhole
<1> QED
    BY <1>1, <1>2, <1>3, PTL DEF PartsSpec

ReportingPart ==
    /\ part = "poll" => PollInv
    /\ part = "reports" => ReportsInv

\* What is told without being asked is so, for any number of polls, events, collections and
\* gauges: a poll is silent if and only if it found everything required in order, DingTalk
\* gets the messages in their order and each once, and a gauge of the account is fresh while
\* qapp_exporter_up is 1 (check_live_status, FixedTimeEventReporter, PrometheusExporter).
THEOREM ReportsTellTheTruth ==
    PartsSpec => []ReportsAreTrue
<1>1. PartsInit => ReportingPart
    BY PartStarts, Assumed, PollStarts, ReportsStart DEF ReportingPart
<1>2. ReportingPart /\ [PartsNext]_partsVars => ReportingPart'
    BY PartSteps, Assumed, PollKeeps, ReportsKeep DEF ReportingPart
<1>3. ReportingPart => ReportsAreTrue
    BY PollHolds, ReportsHold DEF ReportingPart, ReportsAreTrue
<1> QED
    BY <1>1, <1>2, <1>3, PTL DEF PartsSpec

ProfitPart ==
    /\ part = "page" => PageInv
    /\ part = "returns" => ReturnsInv

\* The profit of a day is what cash and prices say, for every price, holding and number of
\* days, trades and restarts: that of a row of the page whose shares are all of yesterday or all
\* of today (_open_row, _closed_row), and that of a report that saw the trades and a row of the
\* stock (calculate_records).
THEOREM ProfitsAreReal ==
    PartsSpec => []ProfitIsReal
<1>1. PartsInit => ProfitPart
    BY PartStarts, Assumed, PageStarts, ReturnsStart DEF ProfitPart
<1>2. ProfitPart /\ [PartsNext]_partsVars => ProfitPart'
    BY PartSteps, Assumed, PageKeeps, ReturnsKeep DEF ProfitPart
<1>3. ProfitPart => ProfitIsReal
    BY Assumed, PageHolds, ReturnsHold DEF ProfitPart, ProfitIsReal
<1> QED
    BY <1>1, <1>2, <1>3, PTL DEF PartsSpec

-----------------------------------------------------------------------------
(* The types that are kept, beside the invariants *)

LEMMA SwitchTypesStart ==
    ASSUME Init
    PROVE  TypeOK
BY DEF Init, TypeOK, NoRow, NoJob, Flags

LEMMA SwitchTypesKeep ==
    ASSUME TypeOK, [Next]_vars
    PROVE  TypeOK'
<1>1. ASSUME NEW c \in Requests, NEW f \in Flags, NEW b \in BOOLEAN, Begin(c, f, b)
      PROVE  TypeOK'
    BY <1>1 DEF TypeOK, Begin, Goto, memory
<1>2. ASSUME NEW c \in Requests, Handle(c) PROVE TypeOK'
  <2>1. CASE SetController(c)
      BY <2>1 DEF TypeOK, SetController, Goto
  <2>2. CASE ReadBack(c)
      BY <2>2 DEF TypeOK, ReadBack, Goto, memory
  <2>3. CASE SetGate(c)
      BY <2>3 DEF TypeOK, SetGate, Goto
  <2>4. CASE SetSuspended(c)
      BY <2>4 DEF TypeOK, SetSuspended, Goto, Flags
  <2>5. CASE Persist(c)
      BY <2>5 DEF TypeOK, Persist, Goto, memory, Upserted
  <2>6. CASE Reply(c)
      BY <2>6 DEF TypeOK, Reply, Goto, memory, NoJob, Flags
  <2> QED
      BY <1>2, <2>1, <2>2, <2>3, <2>4, <2>5, <2>6 DEF Handle
<1>3. ASSUME NEW g \in {{}, {"trading"}, Flags}, Restart(g) PROVE TypeOK'
    BY <1>3 DEF TypeOK, Restart, Loaded, ControllerLoaded, NoJob, Flags
<1>4. CASE UNCHANGED vars
    BY <1>4 DEF vars, memory, TypeOK
<1> QED
    BY <1>1, <1>2, <1>3, <1>4 DEF Next

EventFields == {"cash", "available_cash", "frozen_cash", "market_value", "total_asset"}

LEMMA AccountFieldsStart == AV!Init => DOMAIN info \subseteq EventFields
BY DEF AV!Init, AV!NoInfo

LEMMA AccountFieldsKeep ==
    ASSUME DOMAIN info \subseteq EventFields, [AV!Next]_(AV!vars)
    PROVE  DOMAIN info' \subseteq EventFields
<1>1. CASE AV!SendBuy \/ AV!FillBuy \/ AV!CancelBuy \/ AV!FillSell \/ AV!Settle
    BY <1>1 DEF AV!SendBuy, AV!FillBuy, AV!CancelBuy, AV!FillSell, AV!Settle
<1>2. CASE \E fields \in Fields, value \in {held * Price, 0} : AV!Publish(fields, value)
    BY <1>2, FieldsAssumption DEF AV!Publish, EventFields
<1>3. CASE AV!Restart
    BY <1>3 DEF AV!Restart, AV!NoInfo
<1>4. CASE UNCHANGED AV!vars
    BY <1>4 DEF AV!vars
<1> QED
    BY <1>1, <1>2, <1>3, <1>4 DEF AV!Next

\* What is held is paid for, so it is no more than there was.
LEMMA AccountTyped ==
    ASSUME AccountAssumption, AccountInv, DOMAIN info \subseteq EventFields
    PROVE  AV!TypeOK
<1>1. /\ held \in Nat /\ cash \in Nat /\ asset_frozen \in Nat /\ unsettled \in Nat
      /\ cash + asset_frozen + held * Price = Shares * Price
      /\ Price \in Nat \ {0} /\ Shares \in Nat
    BY DEF AccountInv, AccountTypes, AV!Worth, AccountAssumption
<1>2. held <= Shares
  <2> SUFFICES ASSUME held > Shares PROVE FALSE
      BY <1>1
  <2> DEFINE d == held - Shares
             x == Shares * Price
             y == d * Price
  <2>1. d \in Nat \ {0}
      BY <1>1
  <2>2. held * Price = x + y
      BY <1>1
  <2>3. x \in Nat /\ y \in Nat \ {0}
    <3>1. \A i \in Nat, j \in Nat : i * j \in Nat
        OBVIOUS
    <3>2. \A i, j \in Nat \ {0} : i * j \in Nat \ {0}
        OBVIOUS
    <3> HIDE DEF d
    <3> QED
        BY <1>1, <2>1, <3>1, <3>2
  <2> HIDE DEF x, y
  <2> QED
      BY <1>1, <2>2, <2>3 DEF x
<1>3. AV!Worth = Shares * Price
    BY DEF AccountInv, AccountTypes
<1> QED
    BY <1>1, <1>2, <1>3 DEF AV!TypeOK, EventFields

LEMMA PollTypesStart == HP!Init => HP!TypeOK
<1> SUFFICES ASSUME HP!Init PROVE HP!TypeOK
    OBVIOUS
<1>1. poll_rules \subseteq HP!AllRules /\ Changes \in Nat
    BY FieldsAssumption, ServicesAssumption DEF HP!Init
<1>2. node.fine \in HP!Reports
    BY DEF HP!Init, HP!Reports
<1>3. step = "idle" /\ alerts = {} /\ sent = FALSE /\ code = 0 /\ changes = 0
    BY DEF HP!Init
<1>4. changes \in 0 .. Changes
    BY <1>1, <1>3
<1> QED
    BY <1>1, <1>2, <1>3, <1>4 DEF HP!TypeOK

LEMMA PollTypesKeep ==
    ASSUME HP!TypeOK, [HP!Next]_(HP!vars)
    PROVE  HP!TypeOK'
<1>1. Changes \in Nat
    BY ServicesAssumption
<1>2. CASE HP!Change
  <2>1. node'.fine \in SUBSET HP!Live
    <3>1. CASE \E a \in {"ok", "raises", "down"},
                  f \in {HP!Live} \cup {HP!Live \ {p} : p \in HP!Live} :
                  node' = [answers |-> a, fine |-> f]
        BY <3>1
    <3>2. CASE UNCHANGED node
        BY <3>2 DEF HP!TypeOK, HP!Reports
    <3> QED
        BY <1>2, <3>1, <3>2 DEF HP!Change
  <2>2. changes' \in 0 .. Changes
      BY <1>1, <1>2 DEF HP!Change, HP!TypeOK
  <2>3. UNCHANGED <<poll_rules, step, alerts, sent, code>>
      BY <1>2 DEF HP!Change, HP!poll
  <2> QED
      BY <2>1, <2>2, <2>3 DEF HP!TypeOK, HP!Reports
<1>3. CASE HP!Begin
    BY <1>3 DEF HP!Begin, HP!services, HP!TypeOK
<1>4. CASE HP!FetchLive \/ HP!FetchProxy \/ HP!FetchClickhouse
    BY <1>4 DEF HP!FetchLive, HP!FetchProxy, HP!FetchClickhouse, HP!Ask, HP!services, HP!TypeOK
<1>5. CASE HP!Dispatch
  <2>1. HP!Evaluate \subseteq {"live", "proxy", "clickhouse"}
      BY DEF HP!Evaluate
  <2>2. sent' \in BOOLEAN /\ code' \in {0, 1}
      BY <1>5 DEF HP!Dispatch
  <2>3. alerts' = HP!Evaluate /\ step' = "done" /\ UNCHANGED <<node, poll_rules, changes>>
      BY <1>5 DEF HP!Dispatch, HP!services
  <2> QED
      BY <2>1, <2>2, <2>3 DEF HP!TypeOK
<1>6. CASE UNCHANGED HP!vars
    BY <1>6 DEF HP!vars, HP!services, HP!poll, HP!TypeOK
<1> QED
    BY <1>2, <1>3, <1>4, <1>5, <1>6 DEF HP!Next

\* A row that is superseded has a version to come.
SyncBook ==
    /\ RS!TypeOK
    /\ \A d \in RS!Dates : source[d] = 0 => version[d] < Versions

LEMMA SyncBookStarts ==
    ASSUME RS!Init
    PROVE  SyncBook
<1>1. Versions \in Nat \ {0} /\ SyncDays \in Nat
    BY ServicesAssumption
<1>2. [d \in RS!Dates |-> 1] \in [RS!Dates -> 1 .. Versions]
      /\ [d \in RS!Dates |-> 1] \in [RS!Dates -> 0 .. Versions]
      /\ RS!NoRows \in [RS!Dates -> 0 .. Versions]
    BY <1>1 DEF RS!NoRows
<1> QED
    BY <1>2 DEF RS!Init, RS!TypeOK, SyncBook

LEMMA SyncBookKeeps ==
    ASSUME SyncBook, [RS!Next]_(RS!vars)
    PROVE  SyncBook'
<1>1. Versions \in Nat \ {0} /\ SyncDays \in Nat
    BY ServicesAssumption
<1>2. ASSUME NEW d \in RS!Dates, RS!Supersede(d) PROVE SyncBook'
  <2>1. source' \in [RS!Dates -> 0 .. Versions]
      BY <1>1, <1>2 DEF RS!Supersede, SyncBook, RS!TypeOK
  <2>2. \A e \in RS!Dates : source'[e] = 0 => version[e] < Versions
      BY <1>2 DEF RS!Supersede, SyncBook, RS!TypeOK
  <2> QED
      BY <1>2, <2>1, <2>2 DEF RS!Supersede, SyncBook, RS!TypeOK
<1>3. ASSUME NEW d \in RS!Dates, RS!Appear(d) PROVE SyncBook'
  <2>1. version[d] \in 1 .. Versions /\ version[d] < Versions
      BY <1>3 DEF RS!Appear, SyncBook, RS!TypeOK
  <2>2. version[d] + 1 \in 1 .. Versions /\ version[d] + 1 \in 0 .. Versions
        /\ version[d] + 1 # 0
      BY <1>1, <2>1
  <2> DEFINE v == version[d] + 1
  <2>3. version' = [version EXCEPT ![d] = v] /\ source' = [source EXCEPT ![d] = v]
      BY <1>3 DEF RS!Appear, SyncBook, RS!TypeOK
  <2>4. v \in 1 .. Versions /\ v \in 0 .. Versions /\ v # 0
      BY <2>2
  <2> HIDE DEF v
  <2>5. /\ version' \in [RS!Dates -> 1 .. Versions]
        /\ source' \in [RS!Dates -> 0 .. Versions]
      BY <2>3, <2>4 DEF SyncBook, RS!TypeOK
  <2>6. \A e \in RS!Dates : source'[e] = 0 => version'[e] < Versions
      BY <2>3, <2>4 DEF SyncBook, RS!TypeOK
  <2> QED
      BY <1>3, <2>5, <2>6 DEF RS!Appear, SyncBook, RS!TypeOK
<1>4. ASSUME NEW j \in Jobs, RS!Fail(j) PROVE SyncBook'
    BY <1>4 DEF RS!Fail, RS!Ends, RS!clickhouse, SyncBook, RS!TypeOK
<1>5. ASSUME NEW j \in Jobs, RS!Fetch(j) PROVE SyncBook'
    BY <1>5 DEF RS!Fetch, RS!Select, RS!clickhouse, SyncBook, RS!TypeOK
<1>6. ASSUME NEW j \in Jobs, RS!Send(j) PROVE SyncBook'
  <2>1. PICK d \in RS!Read(j) \ written[j] : RS!Batch(j, d)
        /\ UNCHANGED <<script, source, version, sync_stage, rows, sync_code, last>>
      BY <1>6 DEF RS!Send, RS!clickhouse
  <2>2. d \in RS!Dates
      BY DEF RS!Read
  <2> QED
      BY <2>1, <2>2 DEF RS!Batch, SyncBook, RS!TypeOK
<1>7. ASSUME NEW j \in Jobs, RS!Commit(j) PROVE SyncBook'
  <2>1. table' \in [RS!Dates -> 0 .. Versions]
      BY <1>7 DEF RS!Commit, RS!Put, SyncBook, RS!TypeOK
  <2> QED
      BY <1>7, <2>1 DEF RS!Commit, RS!clickhouse, SyncBook, RS!TypeOK
<1>8. ASSUME NEW j \in Jobs, RS!Count(j) PROVE SyncBook'
  <2>1. PICK result \in {0, 1} : RS!Ends(j, result)
      BY <1>8 DEF RS!Count
  <2> QED
      BY <1>8, <2>1 DEF RS!Count, RS!Ends, RS!clickhouse, SyncBook, RS!TypeOK
<1>9. CASE UNCHANGED RS!vars
    BY <1>9 DEF RS!vars, RS!clickhouse, SyncBook, RS!TypeOK
<1> QED
    BY <1>2, <1>3, <1>4, <1>5, <1>6, <1>7, <1>8, <1>9 DEF RS!Next

LEMMA ReportTypesStart ==
    ASSUME LR!Init
    PROVE  LR!TypeOK
<1>1. Events \in Nat /\ Rounds \in Nat /\ Len(Gauges) \in Nat
    BY ServicesAssumption
<1>2. <<>> \in Seq(1 .. Events)
    OBVIOUS
<1>3. [g \in LR!Names |-> 0] \in [LR!Names -> 0 .. Rounds]
    BY <1>1
<1>4. 0 \in 0 .. Events /\ 0 \in 0 .. Rounds /\ 0 \in 0 .. Len(Gauges) + 1 /\ 0 \in 0 .. 0
    BY <1>1
<1>5. /\ process = "runs" /\ reported = 0 /\ queue = <<>> /\ delivered = <<>>
      /\ posting = {} /\ failed = {} /\ round = 0 /\ next = 0 /\ finished = 0
      /\ up = FALSE /\ gauge = [g \in LR!Names |-> 0]
    BY DEF LR!Init
<1> QED
    BY <1>2, <1>3, <1>4, <1>5 DEF LR!TypeOK

LEMMA ReportTypesKeep ==
    ASSUME LR!TypeOK, [LR!Next]_(LR!vars)
    PROVE  LR!TypeOK'
<1>1. Events \in Nat /\ Rounds \in Nat /\ Len(Gauges) \in Nat
      /\ DOMAIN Gauges = 1 .. Len(Gauges)
    BY ServicesAssumption
<1>2. /\ reported \in 0 .. Events /\ queue \in Seq(1 .. Events) /\ delivered \in Seq(1 .. Events)
      /\ posting \subseteq 1 .. Events /\ failed \subseteq 1 .. Events
      /\ round \in 0 .. Rounds /\ next \in 0 .. Len(Gauges) + 1
      /\ gauge \in [LR!Names -> 0 .. Rounds] /\ finished \in 0 .. round
    BY DEF LR!TypeOK
<1>3. CASE LR!Report
  <2>1. reported + 1 \in 0 .. Events /\ reported + 1 \in 1 .. Events
      BY <1>1, <1>2, <1>3 DEF LR!Report
  <2> DEFINE n == reported + 1
  <2> HIDE DEF n
  <2>2. Append(queue, n) \in Seq(1 .. Events)
      BY <1>2, <2>1, AppendProperties DEF n
  <2>3. reported' \in 0 .. Events /\ queue' \in Seq(1 .. Events)
      BY <1>3, <2>1, <2>2 DEF LR!Report, n
  <2> QED
      BY <1>3, <2>3 DEF LR!Report, LR!exporter, LR!TypeOK
<1>4. CASE LR!Take
  <2>1. Head(queue) \in 1 .. Events /\ Tail(queue) \in Seq(1 .. Events)
      BY <1>2, <1>4, HeadTailProperties DEF LR!Take
  <2> QED
      BY <1>4, <2>1 DEF LR!Take, LR!exporter, LR!TypeOK
<1>5. ASSUME NEW n \in posting, LR!Post(n) PROVE LR!TypeOK'
  <2>1. n \in 1 .. Events
      BY <1>2
  <2>2. Append(delivered, n) \in Seq(1 .. Events)
      BY <1>2, <2>1, AppendProperties
  <2>3. delivered' \in Seq(1 .. Events) /\ posting' \cup failed' \subseteq 1 .. Events
      BY <1>2, <1>5, <2>1, <2>2 DEF LR!Post
  <2> QED
      BY <1>5, <2>3 DEF LR!Post, LR!exporter, LR!TypeOK
<1>6. CASE LR!End
    BY <1>6 DEF LR!End, LR!reports, LR!exporter, LR!TypeOK
<1>7. CASE LR!AccountLands
    BY <1>7 DEF LR!AccountLands, LR!reports, LR!TypeOK
<1>8. CASE LR!CollectNothing
  <2>1. round' \in 0 .. Rounds /\ finished' \in 0 .. round'
      BY <1>1, <1>2, <1>8 DEF LR!CollectNothing
  <2> QED
      BY <1>8, <2>1 DEF LR!CollectNothing, LR!reports, LR!TypeOK
<1>9. CASE LR!Collect
  <2>1. round' \in 0 .. Rounds /\ finished' \in 0 .. round' /\ next' \in 0 .. Len(Gauges) + 1
      BY <1>1, <1>2, <1>9 DEF LR!Collect
  <2> QED
      BY <1>9, <2>1 DEF LR!Collect, LR!reports, LR!TypeOK
<1>10. CASE LR!SetGauge
  <2>1. next' \in 0 .. Len(Gauges) + 1
      BY <1>1, <1>2, <1>10 DEF LR!SetGauge
  <2>2. gauge' \in [LR!Names -> 0 .. Rounds]
      BY <1>2, <1>10 DEF LR!SetGauge
  <2> QED
      BY <1>10, <2>1, <2>2 DEF LR!SetGauge, LR!reports, LR!TypeOK
<1>11. CASE LR!CollectEnds
  <2>1. next' \in 0 .. Len(Gauges) + 1 /\ finished' \in 0 .. round' /\ up' \in BOOLEAN
      BY <1>1, <1>2, <1>11 DEF LR!CollectEnds, LR!UpAfter
  <2> QED
      BY <1>11, <2>1 DEF LR!CollectEnds, LR!reports, LR!TypeOK
<1>13. CASE LR!HealthFails
    BY <1>1, <1>13 DEF LR!HealthFails, LR!reports, LR!TypeOK
<1>12. CASE UNCHANGED LR!vars
    BY <1>12 DEF LR!vars, LR!reports, LR!exporter, LR!TypeOK
<1> QED
    BY <1>3, <1>4, <1>5, <1>6, <1>7, <1>8, <1>9, <1>10, <1>11, <1>12, <1>13
        DEF LR!Next

-----------------------------------------------------------------------------
\* The holding stays in its bounds, and a day that is over has a close.
ReturnsBounds ==
    /\ preClose \in ReturnPrices /\ close \in ReturnPrices \cup {0}
    /\ phase = "closed" => close \in ReturnPrices
    /\ opened \in 0 .. ReturnShares /\ returns_held \in 0 .. ReturnShares
    /\ after \in [0 .. ReturnDays -> 0 .. ReturnShares \cup {DR!None}]
    /\ ticks \in BOOLEAN
    /\ assets \in [earlier : DR!Snapshots(opened), today : DR!Snapshots(returns_held)]
    /\ phase = "session" => assets.today = "missing"
    /\ DOMAIN returns_table \subseteq {"buy", "sell", "hold", "all", "summary"}

LEMMA ReturnsTyped ==
    ASSUME ReturnsInv, ReturnsBounds
    PROVE  DR!TypeOK
BY DEF ReturnsInv, ReturnsBook, ReturnsTypes, BookIsKept, TradesAreReal, RowsAreReal,
    ReturnsBounds, DR!TypeOK

LEMMA ReturnsBoundsStart ==
    ASSUME DR!Init
    PROVE  ReturnsBounds
<1>1. ReturnShares \in Nat /\ ReturnDays \in Nat \ {0}
    BY ServicesAssumption
<1>2. opened \in 0 .. ReturnShares /\ returns_held = opened
    BY DEF DR!Init
<1>3. PICK stored \in DR!Rows(opened) :
        after = [d \in 0 .. ReturnDays |-> IF d = 0 THEN stored ELSE DR!None]
    BY DEF DR!Init
<1>4. stored \in 0 .. ReturnShares \cup {DR!None}
    BY <1>2 DEF DR!Rows
<1>5. after \in [0 .. ReturnDays -> 0 .. ReturnShares \cup {DR!None}]
    BY <1>3, <1>4
<1>6. DOMAIN returns_table = {} /\ phase = "session" /\ close = 0 /\ ticks = FALSE
      /\ preClose \in ReturnPrices
    BY DEF DR!Init, DR!NoRow
<1>7. /\ assets \in [earlier : DR!Snapshots(opened), today : DR!Snapshots(returns_held)]
      /\ assets.today = "missing"
    BY DEF DR!Init, DR!Snapshots
<1> QED
    BY <1>2, <1>5, <1>6, <1>7 DEF ReturnsBounds

LEMMA ReturnsBoundsKeep ==
    ASSUME ReturnsInv, ReturnsBounds, [DR!Next]_(DR!vars)
    PROVE  ReturnsBounds'
<1>1. ReturnShares \in Nat /\ ReturnDays \in Nat \ {0}
    BY ServicesAssumption
<1>2. /\ returns_held \in 0 .. ReturnShares /\ opened \in Nat
      /\ returns_held = opened + returns_bought.n - sold.n
      /\ returns_bought.n \in Nat /\ sold.n \in Nat /\ returns_day \in 1 .. ReturnDays
    BY DEF ReturnsInv, ReturnsBook, ReturnsTypes, BookIsKept, ReturnsBounds, Amounts
<1>10. ASSUME phase = "session", UNCHANGED <<assets, opened>>
       PROVE  /\ assets' \in [earlier : DR!Snapshots(opened)', today : DR!Snapshots(returns_held)']
              /\ assets'.today = "missing"
    BY <1>10 DEF ReturnsBounds, DR!Snapshots
<1>3. CASE DR!Buy
  <2>1. returns_held' \in 0 .. ReturnShares
      BY <1>1, <1>2, <1>3 DEF DR!Buy
  <2> QED
      BY <1>3, <1>10, <2>1 DEF DR!Buy, DR!today, ReturnsBounds
<1>4. CASE DR!Sell
  <2>1. returns_held' \in 0 .. ReturnShares
    <3>1. sold.n < opened /\ returns_held' = returns_held - 1
        BY <1>4 DEF DR!Sell
    <3> DEFINE b == returns_bought.n
               c == sold.n
    <3>2. b \in Nat /\ c \in Nat /\ c < opened /\ returns_held = opened + b - c
        BY <1>2, <3>1
    <3> HIDE DEF b, c
    <3>3. returns_held >= 1
        BY <1>2, <3>2
    <3> QED
        BY <1>1, <1>2, <3>1, <3>3
  <2> QED
      BY <1>4, <1>10, <2>1 DEF DR!Sell, DR!today, ReturnsBounds
<1>5. CASE DR!Close
  <2>1. PICK stored \in DR!Rows(returns_held) : after' = [after EXCEPT ![returns_day] = stored]
      BY <1>5 DEF DR!Close
  <2>2. stored \in 0 .. ReturnShares \cup {DR!None}
      BY <1>2 DEF DR!Rows
  <2>3. after' \in [0 .. ReturnDays -> 0 .. ReturnShares \cup {DR!None}]
      BY <2>1, <2>2 DEF ReturnsBounds
  <2>4. assets' \in [earlier : DR!Snapshots(opened), today : DR!Snapshots(returns_held)]
      BY <1>5 DEF DR!Close, ReturnsBounds
  <2> QED
      BY <1>5, <2>3, <2>4 DEF DR!Close, DR!today, DR!book, ReturnsBounds
<1>6. CASE DR!Backfill
  <2>1. after' \in [0 .. ReturnDays -> 0 .. ReturnShares \cup {DR!None}]
      BY <1>2, <1>6 DEF DR!Backfill, ReturnsBounds
  <2> QED
      BY <1>6, <2>1 DEF DR!Backfill, DR!today, DR!book, ReturnsBounds
<1>7. CASE DR!NextDay
  <2>1. /\ assets' \in [earlier : DR!Snapshots(returns_held), today : {"missing"}]
        /\ assets'.today = "missing"
      BY <1>7 DEF DR!NextDay, ReturnsBounds
  <2>3. assets' \in [earlier : DR!Snapshots(opened)', today : DR!Snapshots(returns_held)']
      BY <1>7, <2>1 DEF DR!NextDay, DR!Snapshots
  <2>2. DOMAIN returns_table' = {}
      BY <1>7 DEF DR!NextDay, DR!NoRow
  <2> QED
      BY <1>2, <1>7, <2>1, <2>2, <2>3 DEF DR!NextDay, ReturnsBounds
<1>8. CASE DR!Report
  <2>1. PICK method \in {"asset-snapshot", "positions-and-trades"} :
          returns_table' = DR!Upserted(DR!Result(method))
      BY <1>8 DEF DR!Report
  <2>2. DOMAIN DR!Result(method) \subseteq {"buy", "sell", "hold", "all", "summary"}
      BY DEF DR!Result, DR!Resulting, DR!Types
  <2>3. DOMAIN returns_table' = DOMAIN DR!Result(method) \cup DOMAIN returns_table
      BY <2>1 DEF DR!Upserted
  <2>4. DOMAIN returns_table' \subseteq {"buy", "sell", "hold", "all", "summary"}
      BY <2>2, <2>3 DEF ReturnsBounds
  <2> QED
      BY <1>8, <2>4 DEF DR!Report, DR!today, DR!book, ReturnsBounds
<1>9. CASE UNCHANGED DR!vars
    BY <1>9 DEF DR!vars, DR!today, DR!book, ReturnsBounds
<1> QED
    BY <1>3, <1>4, <1>5, <1>6, <1>7, <1>8, <1>9 DEF DR!Next

OrderingPart == part = "ordering" => OrderingInv

\* For every book, every price limit, every set of rules that from_instrument accepts and every
\* quantity: the splitter's slices are legal, within the notional cap, and add up to the most
\* that legal orders could trade (NotionalOrderSplitter.split).
THEOREM SplitsAreBest ==
    PartsSpec => []SplitIsBest
<1>1. PartsInit => OrderingPart
    BY PartStarts, OrderingStarts DEF OrderingPart
<1>2. OrderingPart /\ [PartsNext]_partsVars => OrderingPart'
    BY PartSteps, OrderingKeeps DEF OrderingPart
<1>3. OrderingPart => SplitIsBest
    BY OrderingHolds DEF OrderingPart, SplitIsBest
<1> QED
    BY <1>1, <1>2, <1>3, PTL DEF PartsSpec

\* What is kept of each component besides its types.
PartsInv ==
    /\ AccountPart /\ NodesPart /\ ReportingPart /\ ProfitPart /\ OrderingPart

LEMMA PartsInvStarts == PartsInit => PartsInv
BY PartStarts, Assumed, AccountStarts, NodesStart, PollStarts, ReportsStart, PageStarts,
    ReturnsStart, OrderingStarts
    DEF PartsInv, AccountPart, NodesPart, ReportingPart, ProfitPart, OrderingPart

LEMMA PartsInvKeeps == PartsInv /\ [PartsNext]_partsVars => PartsInv'
BY PartSteps, Assumed, AccountKeeps, NodesKeep, PollKeeps, ReportsKeep, PageKeeps,
    ReturnsKeep, OrderingKeeps
    DEF PartsInv, AccountPart, NodesPart, ReportingPart, ProfitPart, OrderingPart

\* The types that no other property needs.
PartsTypes ==
    /\ TypeOK
    /\ part = "asset" => DOMAIN info \subseteq EventFields
    /\ part = "poll" => HP!TypeOK
    /\ part = "reports" => LR!TypeOK
    /\ part = "sync" => SyncBook
    /\ part = "returns" => ReturnsBounds

LEMMA PartsTypesStart == PartsInit => PartsTypes
BY PartStarts, SwitchTypesStart, AccountFieldsStart, PollTypesStart, ReportTypesStart,
    SyncBookStarts, ReturnsBoundsStart
    DEF PartsTypes

LEMMA PartsTypesKeep == PartsInv /\ PartsTypes /\ [PartsNext]_partsVars => PartsTypes'
<1> SUFFICES ASSUME PartsInv, PartsTypes, [PartsNext]_partsVars PROVE PartsTypes'
    OBVIOUS
<1>1. TypeOK'
    BY PartSteps, SwitchTypesKeep DEF PartsTypes
<1>2. part' = part
    BY PartSteps
<1>3. part = "asset" => DOMAIN info' \subseteq EventFields
    BY PartSteps, AccountFieldsKeep DEF PartsTypes
<1>4. part = "poll" => HP!TypeOK'
    BY PartSteps, PollTypesKeep DEF PartsTypes
<1>5. part = "reports" => LR!TypeOK'
    BY PartSteps, ReportTypesKeep DEF PartsTypes
<1>6. part = "sync" => SyncBook'
    BY PartSteps, SyncBookKeeps DEF PartsTypes
<1>7. part = "returns" => ReturnsBounds'
    BY PartSteps, ReturnsBoundsKeep DEF PartsTypes, PartsInv, ProfitPart
<1> QED
    BY <1>1, <1>2, <1>3, <1>4, <1>5, <1>6, <1>7 DEF PartsTypes

LEMMA PartsTyped == PartsInv /\ PartsTypes => TypesOK
<1> SUFFICES ASSUME PartsInv, PartsTypes PROVE TypesOK
    OBVIOUS
<1>1. part = "ordering" => LO!TypeOK
    BY OrderingTyped DEF PartsInv, OrderingPart
<1>2. part = "page" => PV!TypeOK
    BY DEF PartsInv, ProfitPart, PageInv, PageTypes
<1>3. part = "asset" => AV!TypeOK
    BY Assumed, AccountTyped DEF PartsInv, PartsTypes, AccountPart
<1>4. part = "nodes" => NL!TypeOK
    BY DEF PartsInv, NodesPart, NodesInv
<1>5. part = "returns" => DR!TypeOK
    BY ReturnsTyped DEF PartsInv, PartsTypes, ProfitPart
<1>6. part = "sync" => RS!TypeOK
    BY DEF PartsTypes, SyncBook
<1> QED
    BY <1>1, <1>2, <1>3, <1>4, <1>5, <1>6 DEF PartsTypes, TypesOK

\* Every variable of every component stays in its type, among them: what is on its way is never
\* more than what is wanted, what is held is paid for, and the orders cancelled are bounded by
\* the times an order was late (LimitOrders and the others, in every instance).
THEOREM TypesHold ==
    PartsSpec => []TypesOK
<1>1. PartsInit => PartsInv /\ PartsTypes
    BY PartsInvStarts, PartsTypesStart
<1>2. PartsInv /\ PartsTypes /\ [PartsNext]_partsVars => PartsInv' /\ PartsTypes'
    BY PartsInvKeeps, PartsTypesKeep
<1>3. PartsInv /\ PartsTypes => TypesOK
    BY PartsTyped
<1> QED
    BY <1>1, <1>2, <1>3, PTL DEF PartsSpec
=============================================================================
