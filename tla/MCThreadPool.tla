---------------------------- MODULE MCThreadPool ----------------------------
EXTENDS ThreadPool, TLC

CONSTANTS w1, w2, s1, s2, m, t1, t2, t3

(* Two tasks share the lowest lane, one overtakes them. *)
MCPriority == (t1 :> LOW) @@ (t2 :> HIGH) @@ (t3 :> LOW)

(* Where the order of the tasks does not matter. *)
OnePriority == [t \in Task |-> MEDIUM]

(* Workers, submitters and the two LOW tasks are interchangeable. *)
Symmetry == Permutations(Workers) \cup Permutations({s1, s2}) \cup Permutations({t1, t3})
=============================================================================
