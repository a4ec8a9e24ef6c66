------------------------------ MODULE MCTickFetch ------------------------------
(* Instances of TickFetch for TLC. *)
EXTENDS TickFetch, TLC

CONSTANTS t1, t2, e1, p1, p2

Roled == [r \in Requests |->
    CASE r \in {t1, t2} -> "timer" [] r = e1 -> "export" [] OTHER -> "prefetch"]

\* All clock callbacks come from one thread.
OneClockThread == [r \in Requests |-> "clock"]

Interchangeable ==
    Permutations({t1, t2} \cap Requests) \cup Permutations({p1, p2} \cap Requests)
================================================================================
