------------------------------ MODULE HealthPoll ------------------------------
(***************************************************************************)
(* The health poller (src/bin/check_live_status.py), a script that cron    *)
(* starts: it asks the node's status server (src/lives/status_server.py),  *)
(* the broker proxy and ClickHouse, one after the other, while each of     *)
(* them changes, and turns the answers into alerts and an exit code.       *)
(***************************************************************************)
EXTENDS Naturals

CONSTANTS
    Changes,    \* changes of the services (bound)
    Rules       \* the sets of rules that a deployment may require

VARIABLES
    node,       \* the node: up (or not), and what its health report says
    proxy,      \* "ready", "unready", "garbled" or "down"
    clickhouse, \* "one" (answers the probe), "other", "error" or "down"
    rules,      \* resolve_rules: those required
    step,       \* the next request of the poll
    got,        \* service -> its FetchResult
    seen,       \* service -> whether it was healthy when it answered
    alerts,     \* sources of the alerts
    sent,       \* whether DingTalk took them
    code,       \* exit code of the last poll
    changes

services == <<node, proxy, clickhouse>>
poll == <<rules, step, got, seen, alerts, sent, code>>
vars == <<services, poll, changes>>

Live == {"running", "data", "exec", "reconciliation", "strategy"}
AllRules == Live \cup {"proxy", "clickhouse"}

\* The parts of the node that are in order; an unreachable node has no report, and a
\* handler that raises answers 500.
Reports == SUBSET Live
Failed == [ok |-> FALSE, body |-> {}]
Answer(body) == [ok |-> TRUE, body |-> body]

Init ==
    /\ node = [answers |-> "ok", fine |-> Live]
    /\ proxy = "ready" /\ clickhouse = "one"
    /\ rules \in Rules
    /\ step = "idle" /\ got = [s \in {} |-> Failed] /\ seen = {}
    /\ alerts = {} /\ sent = FALSE /\ code = 0
    /\ changes = 0

-----------------------------------------------------------------------------
(* The services *)

Change ==
    /\ changes < Changes /\ changes' = changes + 1
    /\ \/ \E a \in {"ok", "raises", "down"}, f \in {Live} \cup {Live \ {p} : p \in Live} :
            node' = [answers |-> a, fine |-> f] /\ UNCHANGED <<proxy, clickhouse>>
       \/ proxy' \in {"ready", "unready", "garbled", "down"} /\ UNCHANGED <<node, clickhouse>>
       \/ clickhouse' \in {"one", "other", "error", "down"} /\ UNCHANGED <<node, proxy>>
    /\ UNCHANGED poll

-----------------------------------------------------------------------------
(* The poll *)

\* cron starts the script
Begin ==
    /\ step \in {"idle", "done"} /\ step' = "live"
    /\ got' = [s \in {} |-> Failed] /\ seen' = {}
    /\ alerts' = {} /\ sent' = FALSE /\ code' = 0
    /\ UNCHANGED <<services, rules, changes>>

Ask(service, next, answer, healthy) ==
    /\ step = service /\ step' = next
    /\ got' = [s \in DOMAIN got \cup {service} |-> IF s = service THEN answer ELSE got[s]]
    /\ seen' = IF healthy THEN seen \cup {service} ELSE seen
    /\ UNCHANGED <<services, rules, alerts, sent, code, changes>>

\* fetch_live_status: 200 with a body; a refused connection, a 500 or a timeout fails
FetchLive ==
    Ask("live", "proxy", IF node.answers = "ok" THEN Answer(node.fine) ELSE Failed,
        node.answers = "ok" /\ Live \cap rules \subseteq node.fine)

\* fetch_proxy_ready: the 503 of a proxy that is not ready is an answer
FetchProxy ==
    Ask("proxy", "clickhouse",
        CASE proxy = "ready" -> Answer({"proxy"})
          [] proxy = "unready" -> Answer({})
          [] OTHER -> Failed,
        proxy = "ready")

\* fetch_clickhouse_ready: only the row that was asked for is an answer
FetchClickhouse ==
    Ask("clickhouse", "evaluate", IF clickhouse = "one" THEN Answer({"clickhouse"}) ELSE Failed,
        clickhouse = "one")

EvaluateAnswersOnly ==     \* mutant of Evaluate: a service that could not be asked raises no alert
    {s \in {"live", "proxy"} :
        got[s].ok /\ ~(rules \cap (IF s = "live" THEN Live ELSE {s}) \subseteq got[s].body)}

\* evaluate: a failed fetch of the node or the proxy is an alert whatever is required
Evaluate ==
    {s \in {"live", "proxy"} :
        \/ ~got[s].ok
        \/ ~(rules \cap (IF s = "live" THEN Live ELSE {s}) \subseteq got[s].body)}
      \cup {s \in {"clickhouse"} \cap rules : ~got[s].ok}

\* dispatch_alerts, and the exit code
Dispatch ==
    /\ step = "evaluate" /\ step' = "done"
    /\ alerts' = Evaluate
    /\ code' = IF alerts' = {} THEN 0 ELSE 1
    /\ sent' \in IF alerts' = {} THEN {FALSE} ELSE BOOLEAN
    /\ UNCHANGED <<services, rules, got, seen, changes>>

Next == Change \/ Begin \/ FetchLive \/ FetchProxy \/ FetchClickhouse \/ Dispatch

Spec == Init /\ [][Next]_vars

-----------------------------------------------------------------------------
(* Properties *)

\* Types of the state.
TypeOK ==
    /\ node.fine \in Reports /\ rules \subseteq AllRules
    /\ step \in {"idle", "live", "proxy", "clickhouse", "evaluate", "done"}
    /\ alerts \subseteq {"live", "proxy", "clickhouse"}
    /\ sent \in BOOLEAN /\ code \in {0, 1} /\ changes \in 0 .. Changes

\* A poll that ends without an alert found everything that is required in order when it
\* asked; one that ends with an alert did not.
QuietMeansHealthy ==
    step = "done" =>
        (code = 0 <=>
            /\ "live" \in seen
            /\ got["proxy"].ok /\ ("proxy" \in rules => "proxy" \in seen)
            /\ "clickhouse" \in rules => "clickhouse" \in seen)
===============================================================================
