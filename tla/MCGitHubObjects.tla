-------------------------- MODULE MCGitHubObjects --------------------------
(***************************************************************************)
(* Instances of GitHubObjects for TLC: which objects users apply, and how  *)
(* many disturbances of each kind the behaviours of a run may contain.     *)
(***************************************************************************)
EXTENDS GitHubObjects

Plan(ks, disturbances) ==
    [kinds  |-> ks,
     budget |-> [d \in Disturbances |-> IF d \in disturbances THEN 1 ELSE 0]]

\* A credential and its scope, or an endpoint, with one disturbance of any
\* kind; an endpoint and its credential, and each scope, undisturbed.
Disturbed == {Plan(ks, {d}) : ks \in {{"credential", "repository"},
                                      {"endpoint"}}, d \in Disturbances}
             \cup {Plan({"endpoint", "credential"}, {})}
             \cup {Plan({k}, {}) : k \in Scopes}

=============================================================================
