-------------------------- MODULE MCPoolController --------------------------
(***************************************************************************)
(* Instances of PoolController for TLC: how many disturbances of each kind *)
(* the behaviours of a run may contain.                                    *)
(***************************************************************************)
EXTENDS PoolController, TLC

Disturbances(edit, fault, crash, stale, external) ==
    [edit |-> edit, fault |-> fault, crash |-> crash, stale |-> stale,
     external |-> external]

\* None, or n of a kind.
Only(kind, n) == [k \in Kinds |-> IF k = kind THEN n ELSE 0]

\* One each of two kinds, or two failing calls or outdated reads.
Pairs == {[k \in Kinds |-> Only(a, 1)[k] + Only(b, 1)[k]] :
              <<a, b>> \in {c \in Kinds \X Kinds :
                              c[1] # c[2] \/ c[1] \in {"fault", "stale"}}}

OperatorSymmetry == Permutations(Operators)

OverlapBudgets == {Only(k, 1) : k \in Kinds} \cup
                  {Disturbances(0, 1, 0, 1, 0)}

FaultOnly == {Only("fault", 1)}

Undisturbed == {Only("edit", 0)}

=============================================================================
