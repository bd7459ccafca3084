--------------------------- MODULE MCRunnerScaling ---------------------------
(***************************************************************************)
(* Instances of RunnerScaling for TLC: how many events of each kind the    *)
(* behaviours of a run may contain.                                        *)
(***************************************************************************)
EXTENDS RunnerScaling

Events(edit, job, fault, slow, skew) ==
    [edit |-> edit, job |-> job, fault |-> fault, slow |-> slow,
     skew |-> skew]

\* Two runners may pass minIdleRunnersAge between the evaluations of
\* OldIdleRunners, one more than the largest minIdleRunners.
MixedBudgets == {Events(1, 1, 1, 0, 0), Events(1, 1, 0, 1, 0),
                 Events(1, 1, 0, 0, 2)}

Calm == {Events(1, 0, 0, 0, 0)}

=============================================================================
