---------------------------- MODULE MCRunnerSync ----------------------------
(***************************************************************************)
(* Instances of RunnerSync for TLC: the runners' pool, and how many        *)
(* disturbances of each kind a behaviour may contain.                      *)
(***************************************************************************)
EXTENDS RunnerSync

CONSTANTS r1, p1

SamePool == [r \in Runners |-> p1]

\* A deletion, and up to two disturbances of one kind and one of another.
Some == {[d \in Disturbances |-> IF d = "delete" THEN 1
                                 ELSE IF d = twice THEN 2
                                 ELSE IF d = once THEN 1 ELSE 0]
            : twice, once \in Disturbances \ {"delete"}}

=============================================================================
