--------------------------- MODULE ScatterGather ---------------------------
(***************************************************************************)
(* What a scrape that spreads its work over goroutines promises: every     *)
(* item is reported at most once, and a scrape that nobody cancelled is    *)
(* over only when every item was reported, and reports nothing after that. *)
(***************************************************************************)
EXTENDS Naturals

CONSTANTS Gatherers, Items

VARIABLES
    reports,   \* how often each scrape reported each item
    cancelled, \* scrapes whose client is gone
    over       \* scrapes that have returned

sgVars == <<reports, cancelled, over>>

SGInit ==
    /\ reports = [g \in Gatherers |-> [i \in Items |-> 0]]
    /\ cancelled = {} /\ over = {}

Report(g, i) ==
    /\ g \notin over /\ reports[g][i] = 0
    /\ reports' = [reports EXCEPT ![g][i] = 1]
    /\ UNCHANGED <<cancelled, over>>

Abandon(g) ==
    /\ g \notin over
    /\ cancelled' = cancelled \cup {g}
    /\ UNCHANGED <<reports, over>>

Finish(g) ==
    /\ g \in cancelled \/ \A i \in Items : reports[g][i] = 1
    /\ over' = over \cup {g}
    /\ UNCHANGED <<reports, cancelled>>

SGNext == \E g \in Gatherers : Abandon(g) \/ Finish(g) \/ \E i \in Items : Report(g, i)

SGSpec == SGInit /\ [][SGNext]_sgVars
=============================================================================
