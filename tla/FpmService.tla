----------------------------- MODULE FpmService -----------------------------
(***************************************************************************)
(* What the FPM master (sapi/fpm) promises of its pools, with no process,  *)
(* signal or timer in sight.  Workers join a pool only in normal operation *)
(* and never above pm.max_children; a stop only becomes more urgent, from  *)
(* reloading to finishing to terminating; and the master leaves only when  *)
(* every worker it started is gone.                                        *)
(***************************************************************************)
EXTENDS Naturals, FiniteSets

CONSTANTS Pools, Pids, pm_max_children

VARIABLES workers, mode

vars == <<workers, mode>>

Modes == <<"normal", "reloading", "finishing", "terminating", "gone">>

Nobody == \A w \in Pools : workers[w] = {}

Init == /\ workers = [w \in Pools |-> {}]
        /\ mode = "normal"

\* The mode may move to any more urgent one, to "gone" with no worker left.
Urge == \E i \in 1 .. 5 :
           \E j \in i .. 5 :
              /\ mode = Modes[i] 
              /\ mode' = Modes[j]
              /\ mode' = "gone" => Nobody'

Join(w, c) == /\ mode = "normal"
              /\ c \notin UNION {workers[v] : v \in Pools}
              /\ Cardinality(workers[w]) < pm_max_children[w]
              /\ workers' = [workers EXCEPT ![w] = @ \union {c}]
              /\ UNCHANGED mode

\* A worker's end may decide the stop: the last one out lets the master go.
Leave(w, c) == /\ c \in workers[w]
               /\ workers' = [workers EXCEPT ![w] = @ \ {c}]
               /\ Urge

Stop == /\ UNCHANGED workers
        /\ mode # "gone"
        /\ Urge

Next == \/ \E w \in Pools, c \in Pids : Join(w, c) \/ Leave(w, c)
        \/ Stop

Spec == Init /\ [][Next]_vars
=============================================================================
