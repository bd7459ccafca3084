----------------------------- MODULE PoolBinding -----------------------------
(***************************************************************************)
(* What the Pool controller promises about a Pool object and the pools of  *)
(* garm, without processes, caches or calls: an object is pending until it *)
(* is bound to a pool that garm has created; once bound it stays bound,    *)
(* possibly to another pool; it is released while pending or after its     *)
(* pool was deleted, and nothing happens to it after that.  The scope and  *)
(* credential controllers promise the same of what they keep in garm.      *)
(***************************************************************************)
EXTENDS Naturals

CONSTANT PoolIDs    \* ids garm hands out

VARIABLES
    bound,      \* the id of the object's pool, or Pending
    released,   \* the object is gone
    pools       \* for each id, what has become of the pool

vars == <<bound, released, pools>>

Pending == 0

Init == /\ bound = Pending
        /\ released = FALSE
        /\ pools = [id \in PoolIDs |-> "none"]

Become(id, from, to) == /\ pools[id] = from
                        /\ pools' = [pools EXCEPT ![id] = to]
                        /\ UNCHANGED <<bound, released>>

Bind(id) == /\ ~released
            /\ pools[id] # "none"
            /\ bound' = id
            /\ UNCHANGED <<released, pools>>

Release == /\ ~released
           /\ bound # Pending => pools[bound] = "deleted"
           /\ released' = TRUE
           /\ UNCHANGED <<bound, pools>>

Next == \/ \E id \in PoolIDs : \/ Become(id, "none", "live")
                               \/ Become(id, "live", "deleted")
                               \/ Bind(id)
        \/ Release

Spec == Init /\ [][Next]_vars

=============================================================================
