------------------------------ MODULE Counters ------------------------------
(***************************************************************************)
(* What the handlers of runtime/conflict_detector.c promise together: a    *)
(* bank of counters in which every committed request adds one to its       *)
(* counter, and nothing else happens to them.  The oracle at the end of    *)
(* main() (the sum of the cache equals g_commits) follows.                 *)
(***************************************************************************)
EXTENDS Naturals

CONSTANT Key

VARIABLES val, commits

Init ==
    /\ val = [k \in Key |-> 0]
    /\ commits = 0

Increment(k) ==
    /\ val' = [val EXCEPT ![k] = @ + 1]
    /\ commits' = commits + 1

Next == \E k \in Key : Increment(k)

Spec == Init /\ [][Next]_<<val, commits>>
=============================================================================
