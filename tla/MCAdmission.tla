---------------------------- MODULE MCAdmission ----------------------------
(***************************************************************************)
(* Instances of Admission for TLC: two Pools and two Images in two         *)
(* namespaces, and how often clients may act.                              *)
(***************************************************************************)
EXTENDS Admission

CONSTANTS q1, q2, i1, i2

PoolHome == [p \in Pools |-> IF p = q1 THEN "here" ELSE "there"]

ImagesHome == [i \in Images |-> IF i = i1 THEN "here" ELSE "there"]

OwnName == [i \in Images |-> i]

\* How often each client acts on the Pools and Images, and on the scopes.
Shares == {[create |-> 3, edit |-> 1, scope |-> 0, image |-> 1,
            rewrite |-> 1, restart |-> 1],
           [create |-> 0, edit |-> 0, scope |-> 2, image |-> 0,
            rewrite |-> 2, restart |-> 0]}

\* Two Pools are created and deleted, and one is edited.
EditAndDelete == {[create |-> 4, edit |-> 1, scope |-> 0, image |-> 0,
                   rewrite |-> 0, restart |-> 0]}

\* The operator watches every namespace, or one.
OneOrAll == {{"here", "there"}, {"here"}}

Everywhere == {{"here", "there"}}

=============================================================================
