--------------------------- MODULE PoolController ---------------------------
(***************************************************************************)
(* The Pool controller of garm-operator: one Pool object in the Kubernetes *)
(* API server, the operator processes that reconcile it from their         *)
(* informer caches, and the garm server that keeps the pools the object    *)
(* stands for.                                                             *)
(*                                                                         *)
(* One reconciliation is a walk of a worker through program points (pc);   *)
(* every call that leaves the process is a step of its own, so that user   *)
(* edits, crashes, other processes and garm itself interleave with it.     *)
(* The work queue runs at most one reconciliation of an object per         *)
(* process.                                                                *)
(***************************************************************************)
EXTENDS Integers

CONSTANTS
    Operators,  \* operator processes (two only while leadership overlaps)
    PoolIDs,    \* ids garm hands out, in order; bounds the pools it creates
    MinIdles,   \* values of spec.minIdleRunners
    Budgets     \* for each kind of disturbance, how often it may happen;
                \* a behaviour has one of these budgets

NoID == 0       \* status.id = ""

(***************************************************************************)
(* What may happen besides the controller's own work:                      *)
(*   edit      the user changes the spec or toggles the paused annotation  *)
(*   fault     a call to garm or to the API server fails; to garm, also    *)
(*             after it took effect (the reply is lost)                    *)
(*   crash     an operator process dies and is restarted                   *)
(*   stale     a reconciliation begins on a cached object that is outdated *)
(*   external  somebody deletes the garm pool, or a referenced object      *)
(***************************************************************************)
Kinds == {"edit", "fault", "crash", "stale", "external"}

\* The objects reconcileNormal needs besides the Pool.
Deps == {"scope", "image"}

ASSUME ConstantsAssumption ==
    /\ PoolIDs \subseteq Nat \ {NoID}
    /\ MinIdles \subseteq Nat
    /\ 0 \in MinIdles
    /\ Budgets \subseteq [Kinds -> Nat]

VARIABLES
    cr,         \* the Pool object in the API server
    userSpec,   \* the spec the user last wrote
    cache,      \* each process's informer copy of the object
    wk,         \* each process's worker
    garm,       \* garm's pools
    deps,       \* referenced objects that exist (and, for a scope, have an ID)
    budget      \* disturbances left

vars == <<cr, userSpec, cache, wk, garm, deps, budget>>

-----------------------------------------------------------------------------
(***************************************************************************)
(* Data                                                                    *)
(***************************************************************************)

Specs == [minIdle : MinIdles, enabled : BOOLEAN]

\* The Ready condition: not set yet, Unknown, True, False with an error
\* reason, False with reason Deleting.
Readiness == {"none", "unknown", "true", "error", "deleting"}

Objects == [present : BOOLEAN, fin : BOOLEAN, deleting : BOOLEAN,
            paused : BOOLEAN, spec : Specs, id : PoolIDs \cup {NoID},
            ready : Readiness]

(***************************************************************************)
(* A copy of the object with its resourceVersion.  The API server only     *)
(* compares a resourceVersion with the current one, so a copy is either    *)
(* fresh (nothing was written since it was read) or not.                   *)
(***************************************************************************)
Copies == [obj : Objects, fresh : BOOLEAN]

Points == {"idle", "normal", "probe", "create", "update", "push", "scale",
           "deleting", "release", "drain", "quiesce", "list", "sweep",
           "remove", "unbind", "finish"}

Workers == [pc : Points, obj : Objects, fresh : BOOLEAN,
            initID : PoolIDs \cup {NoID}, initReady : Readiness,
            listed : BOOLEAN]

\* garm keeps at most one runner per pool here; the counts are the subject
\* of another module.
RunnerPhases == {"none", "creating", "up", "stopping"}

GarmPools == [status : {"none", "live", "deleted"}, spec : Specs,
              runner : RunnerPhases]

\* Mutant: one idle runner less instead of none.
DrainedByOne(s) == [s EXCEPT !.minIdle = @ - 1, !.enabled = FALSE]

\* The spec reconcileDelete writes before it empties the pool.
Drained(s) == [s EXCEPT !.minIdle = 0, !.enabled = FALSE]

NullSpec == [minIdle |-> 0, enabled |-> FALSE]

NullObject == [present |-> FALSE, fin |-> FALSE, deleting |-> FALSE,
               paused |-> FALSE, spec |-> NullSpec, id |-> NoID,
               ready |-> "none"]

IdleWorker == [pc |-> "idle", obj |-> NullObject, fresh |-> FALSE,
               initID |-> NoID, initReady |-> "none", listed |-> FALSE]

Live(id) == id \in PoolIDs /\ garm[id].status = "live"

-----------------------------------------------------------------------------
(***************************************************************************)
(* Building blocks                                                         *)
(***************************************************************************)

Spend(kind) == /\ budget[kind] > 0
               /\ budget' = [budget EXCEPT ![kind] = @ - 1]

\* p's worker moves on to another program point.
Goto(p, point) == wk' = [wk EXCEPT ![p].pc = point]

\* conditions.MarkFalse(Ready, <error>) and return err: on to the deferred
\* status update.
Fail(p) == wk' = [wk EXCEPT ![p].pc = "finish", ![p].obj.ready = "error"]

\* Update sends a worker's copy o and the API server keeps the status it has:
\* WithStatusOf(o, cr).  Status().Update is the converse: WithStatusOf(cr, o).
WithStatusOf(o, c) == [o EXCEPT !.id = c.id, !.ready = c.ready]

(***************************************************************************)
(* The API server accepts a write of p and p's worker becomes w.  A write  *)
(* that changes nothing keeps the resourceVersion.                         *)
(***************************************************************************)
Commit(p, new, w) ==
    /\ cr' = new
    /\ cache' = [q \in Operators |->
                    [cache[q] EXCEPT !.fresh = @ /\ new = cr]]
    /\ wk' = [q \in Operators |->
                 IF q = p THEN w
                 ELSE [wk[q] EXCEPT !.fresh = @ /\ new = cr]]

\* A write of somebody else (kubectl, the API server itself).
UserWrite(new) ==
    /\ cr' = new
    /\ cache' = [q \in Operators |-> [cache[q] EXCEPT !.fresh = FALSE]]
    /\ wk' = [q \in Operators |-> [wk[q] EXCEPT !.fresh = FALSE]]

-----------------------------------------------------------------------------
(***************************************************************************)
(* Reconcile: from the cache to the first branch                           *)
(***************************************************************************)

\* Reconcile gets past the paused check with the cached object.
MayStart(p) == /\ wk[p].pc = "idle"
               /\ cache[p].obj.present
               /\ ~cache[p].obj.paused

\* Mutant: the whole object is written without its resourceVersion.
EnsureFinalizerForced(p) ==
    /\ MayStart(p)
    /\ ~cache[p].obj.deleting /\ ~cache[p].obj.fin
    /\ cr.present
    /\ Commit(p, WithStatusOf([cache[p].obj EXCEPT !.fin = TRUE], cr), wk[p])
    /\ UNCHANGED <<userSpec, garm, deps, budget>>

\* EnsureFinalizer adds the finalizer and Reconcile returns.  On an outdated
\* copy the Update is refused and nothing changes.
EnsureFinalizer(p) ==
    /\ MayStart(p)
    /\ ~cache[p].obj.deleting /\ ~cache[p].obj.fin
    /\ cache[p].fresh
    /\ Commit(p, WithStatusOf([cache[p].obj EXCEPT !.fin = TRUE], cr), wk[p])
    /\ UNCHANGED <<userSpec, garm, deps, budget>>

\* Mutant: the reconciliation does not wait for the finalizer.
ReconcileUnprotected(p) ==
    /\ MayStart(p) /\ cache[p].fresh
    /\ wk' = [wk EXCEPT ![p] =
                [pc        |-> IF cr.deleting THEN "deleting" ELSE "normal",
                 obj       |-> cr,
                 fresh     |-> TRUE,
                 initID    |-> cr.id,
                 initReady |-> cr.ready,
                 listed    |-> FALSE]]
    /\ UNCHANGED <<cr, userSpec, cache, garm, deps, budget>>

Reconcile(p) ==
    LET c == cache[p].obj IN
    /\ MayStart(p)
    /\ c.deleting \/ c.fin
    /\ IF cache[p].fresh THEN UNCHANGED budget ELSE Spend("stale")
    /\ wk' = [wk EXCEPT ![p] =
                [pc        |-> IF c.deleting THEN "deleting" ELSE "normal",
                 obj       |-> IF c.ready = "none"
                               THEN [c EXCEPT !.ready = "unknown"] ELSE c,
                 fresh     |-> cache[p].fresh,
                 initID    |-> c.id,
                 initReady |-> c.ready,
                 listed    |-> FALSE]]
    /\ UNCHANGED <<cr, userSpec, cache, garm, deps>>

-----------------------------------------------------------------------------
(***************************************************************************)
(* reconcileNormal, reconcileCreate                                        *)
(***************************************************************************)

ReconcileNormal(p) ==
    /\ wk[p].pc = "normal"
    /\ IF "scope" \notin deps
       THEN Fail(p)
       ELSE Goto(p, IF wk[p].obj.id = NoID THEN "create" ELSE "probe")
    /\ UNCHANGED <<cr, userSpec, cache, garm, deps, budget>>

\* Any error of GetPool counts as "does not exist".
GarmPoolExists(p) ==
    /\ wk[p].pc = "probe"
    /\ \/ /\ Goto(p, IF Live(wk[p].obj.id) THEN "update" ELSE "create")
          /\ UNCHANGED budget
       \/ /\ Spend("fault")
          /\ Goto(p, "create")
    /\ UNCHANGED <<cr, userSpec, cache, garm, deps>>

\* The id garm gives to the next pool.
NextID(id) == /\ garm[id].status = "none"
              /\ \A j \in PoolIDs : garm[j].status = "none" => id <= j

GarmCreates(id, s) ==
    garm' = [garm EXCEPT ![id] = [status |-> "live", spec |-> s,
                                  runner |-> "none"]]

\* The pool is created in garm and its id is kept in memory only, until the
\* deferred status update.
CreateSucceeds(p) ==
    \E id \in PoolIDs :
        /\ NextID(id)
        /\ GarmCreates(id, wk[p].obj.spec)
        /\ wk' = [wk EXCEPT ![p].pc = "finish",
                            ![p].obj = [@ EXCEPT !.id = id,
                                                 !.ready = "true"]]

CreateReplyLost(p) ==
    \E id \in PoolIDs : /\ NextID(id)
                        /\ GarmCreates(id, wk[p].obj.spec)
                        /\ Fail(p)

ReconcileCreate(p) ==
    /\ wk[p].pc = "create"
    /\ \/ /\ "image" \notin deps
          /\ Fail(p)
          /\ UNCHANGED <<garm, budget>>
       \/ /\ "image" \in deps
          /\ CreateSucceeds(p)
          /\ UNCHANGED budget
       \/ /\ "image" \in deps
          /\ Spend("fault")
          /\ CreateReplyLost(p) \/ (Fail(p) /\ UNCHANGED garm)
       \/ /\ "image" \in deps
          /\ \A id \in PoolIDs : garm[id].status # "none"
          /\ Fail(p)
          /\ UNCHANGED <<garm, budget>>
    /\ UNCHANGED <<cr, userSpec, cache, deps>>

-----------------------------------------------------------------------------
(***************************************************************************)
(* reconcileUpdate                                                         *)
(***************************************************************************)

(***************************************************************************)
(* GetImageCR and comparePoolSpecs.  A difference always leads to          *)
(* UpdatePool; equal specs may as well, as the compared garm pool carries  *)
(* fields that only garm fills in.  A scope object that exists without an  *)
(* ID is a difference, one that is gone an error.  GetPool also returns    *)
(* the runners.                                                            *)
(***************************************************************************)
ComparePoolSpecs(p) ==
    LET id == wk[p].obj.id
        Compared(point) ==
            wk' = [wk EXCEPT ![p].pc = point,
                             ![p].listed = garm[id].runner = "up"]
    IN
    /\ wk[p].pc = "update"
    /\ \/ /\ ~Live(id) \/ deps # Deps
          /\ Fail(p)
          /\ UNCHANGED budget
       \/ /\ Live(id) /\ "image" \in deps
          /\ \/ Compared("push")
             \/ /\ garm[id].spec = wk[p].obj.spec /\ "scope" \in deps
                /\ Compared("scale")
          /\ UNCHANGED budget
       \/ /\ Spend("fault")
          /\ Fail(p)
    /\ UNCHANGED <<cr, userSpec, cache, garm, deps>>

(***************************************************************************)
(* pools.UpdatePool: garm takes over the spec in the worker's hands,       *)
(* whichever version of the object that is.                                *)
(***************************************************************************)
UpdatePool(p, onSuccess) ==
    LET id == wk[p].obj.id
        Accepted == garm' = [garm EXCEPT ![id].spec = wk[p].obj.spec]
    IN
    \/ /\ Live(id) /\ Accepted
       /\ Goto(p, onSuccess)
       /\ UNCHANGED budget
    \/ /\ ~Live(id)
       /\ Fail(p)
       /\ UNCHANGED <<garm, budget>>
    \/ /\ Spend("fault")
       /\ Fail(p)
       /\ (Live(id) /\ Accepted) \/ UNCHANGED garm

\* Mutant: an outdated garm pool is left as it is.
PushSpecSkipped(p) ==
    /\ wk[p].pc = "push"
    /\ Goto(p, "scale")
    /\ UNCHANGED <<cr, userSpec, cache, garm, deps, budget>>

PushSpec(p) ==
    /\ wk[p].pc = "push"
    /\ UpdatePool(p, "scale")
    /\ UNCHANGED <<cr, userSpec, cache, deps>>

\* DeleteInstance: garm stops a runner that is up and refuses others.
StopRunner(id) ==
    garm' = [garm EXCEPT ![id].runner = IF @ = "up" THEN "stopping" ELSE @]

(***************************************************************************)
(* Scaling down.  With minIdleRunners = 0 the runner that was listed is    *)
(* deleted if it was idle; otherwise one runner is never too many.  Errors *)
(* of DeleteInstance are only logged.                                      *)
(***************************************************************************)
ScaleDown(p) ==
    /\ wk[p].pc = "scale"
    /\ \/ /\ wk[p].obj.spec.minIdle = 0 /\ wk[p].listed
          /\ StopRunner(wk[p].obj.id)
       \/ UNCHANGED garm
    /\ wk' = [wk EXCEPT ![p].pc = "finish", ![p].obj.ready = "true"]
    /\ UNCHANGED <<cr, userSpec, cache, deps, budget>>

-----------------------------------------------------------------------------
(***************************************************************************)
(* reconcileDelete                                                         *)
(***************************************************************************)

\* Mutant: no special case for a pending object.
MarkDeletingAlwaysDrains(p) ==
    /\ wk[p].pc = "deleting"
    /\ wk[p].fresh
    /\ Commit(p, [cr EXCEPT !.ready = "deleting"],
              [wk[p] EXCEPT !.obj.ready = "deleting", !.pc = "drain"])
    /\ UNCHANGED <<userSpec, garm, deps, budget>>

\* Ready becomes False/Deleting by a status update of its own, before
\* anything else happens; a refused update ends the reconciliation.
MarkDeleting(p) ==
    LET w == [wk[p] EXCEPT !.obj.ready = "deleting"] IN
    /\ wk[p].pc = "deleting"
    /\ \/ /\ wk[p].fresh
          /\ Commit(p, WithStatusOf(cr, w.obj),
                    [w EXCEPT !.pc = IF w.obj.id = NoID THEN "release"
                                     ELSE "drain"])
          /\ UNCHANGED budget
       \/ /\ IF wk[p].fresh THEN Spend("fault") ELSE UNCHANGED budget
          /\ wk' = [wk EXCEPT ![p] = [w EXCEPT !.pc = "finish"]]
          /\ UNCHANGED <<cr, cache>>
    /\ UNCHANGED <<userSpec, garm, deps>>

\* RemoveFinalizer and Update: the API server drops the object with its last
\* finalizer.
RemoveFinalizer(p) ==
    \/ /\ wk[p].fresh
       /\ Commit(p, WithStatusOf([wk[p].obj EXCEPT !.fin = FALSE,
                                                   !.present = FALSE], cr),
                 [wk[p] EXCEPT !.pc = "finish", !.fresh = FALSE])
       /\ UNCHANGED budget
    \/ /\ IF wk[p].fresh THEN Spend("fault") ELSE UNCHANGED budget
       /\ Fail(p)
       /\ UNCHANGED <<cr, cache>>

\* The deletion of a pending object, which has no id.
ReleasePending(p) ==
    /\ wk[p].pc = "release"
    /\ RemoveFinalizer(p)
    /\ UNCHANGED <<userSpec, garm, deps>>

\* minIdleRunners = 0 and enabled = false are written to the object itself.
DrainSpec(p) ==
    LET s == Drained(wk[p].obj.spec) IN
    /\ wk[p].pc = "drain"
    /\ \/ /\ wk[p].fresh
          /\ Commit(p, WithStatusOf([wk[p].obj EXCEPT !.spec = s], cr),
                    [wk[p] EXCEPT !.pc = "quiesce", !.obj.spec = s])
          /\ UNCHANGED budget
       \/ /\ IF wk[p].fresh THEN Spend("fault") ELSE UNCHANGED budget
          /\ Fail(p)
          /\ UNCHANGED <<cr, cache>>
    /\ UNCHANGED <<userSpec, garm, deps>>

\* Mutant: the drained spec is not sent to garm.
QuiesceSkipped(p) ==
    /\ wk[p].pc = "quiesce"
    /\ Goto(p, "list")
    /\ UNCHANGED <<cr, userSpec, cache, garm, deps, budget>>

Quiesce(p) ==
    /\ wk[p].pc = "quiesce"
    /\ UpdatePool(p, "list")
    /\ UNCHANGED <<cr, userSpec, cache, deps>>

\* GetRunnersByPoolID; its error returns without touching the conditions.
ListRunners(p) ==
    LET id == wk[p].obj.id IN
    /\ wk[p].pc = "list"
    /\ \/ /\ wk' = [wk EXCEPT ![p].pc = "sweep",
                              ![p].listed = Live(id) /\ garm[id].runner = "up"]
          /\ UNCHANGED budget
       \/ /\ IF Live(id) THEN Spend("fault") ELSE UNCHANGED budget
          /\ Goto(p, "finish")
    /\ UNCHANGED <<cr, userSpec, cache, garm, deps>>

\* Mutant: the runners are listed but not deleted.
SweepRunnersSkipped(p) ==
    /\ wk[p].pc = "sweep"
    /\ Goto(p, "remove")
    /\ UNCHANGED <<cr, userSpec, cache, garm, deps, budget>>

\* DeleteInstance for every deletable runner of the list, idle or not.
SweepRunners(p) ==
    /\ wk[p].pc = "sweep"
    /\ Goto(p, "remove")
    /\ \/ /\ IF wk[p].listed THEN StopRunner(wk[p].obj.id) ELSE UNCHANGED garm
          /\ UNCHANGED budget
       \/ Spend("fault") /\ UNCHANGED garm
    /\ UNCHANGED <<cr, userSpec, cache, deps>>

\* Mutant: the error of DeletePool is only logged.
RemoveGarmPoolIgnoringErrors(p) ==
    LET id == wk[p].obj.id IN
    /\ wk[p].pc = "remove"
    /\ Goto(p, "unbind")
    /\ \/ /\ Live(id) /\ garm[id].runner = "none"
          /\ garm' = [garm EXCEPT ![id].status = "deleted"]
       \/ UNCHANGED garm
    /\ UNCHANGED <<cr, userSpec, cache, deps, budget>>

\* DeletePool; garm refuses to delete a pool that still has runners.
RemoveGarmPool(p) ==
    LET id == wk[p].obj.id
        Deleted == /\ Live(id) /\ garm[id].runner = "none"
                   /\ garm' = [garm EXCEPT ![id].status = "deleted"]
    IN
    /\ wk[p].pc = "remove"
    /\ \/ Deleted /\ Goto(p, "unbind") /\ UNCHANGED budget
       \/ ~Live(id) /\ Goto(p, "unbind") /\ UNCHANGED <<garm, budget>>
       \/ /\ ~Live(id) \/ garm[id].runner # "none"
          /\ Fail(p)
          /\ UNCHANGED <<garm, budget>>
       \/ /\ Spend("fault")
          /\ Fail(p)
          /\ Deleted \/ UNCHANGED garm
    /\ UNCHANGED <<cr, userSpec, cache, deps>>

Unbind(p) ==
    /\ wk[p].pc = "unbind"
    /\ RemoveFinalizer(p)
    /\ UNCHANGED <<userSpec, garm, deps>>

-----------------------------------------------------------------------------
(***************************************************************************)
(* The deferred status update, which runs on every return                  *)
(***************************************************************************)

\* Mutant: the status is written whatever the resourceVersion.
UpdateStatusForced(p) ==
    /\ wk[p].pc = "finish"
    /\ IF /\ cr.present
          /\ <<wk[p].obj.id, wk[p].obj.ready>>
               # <<wk[p].initID, wk[p].initReady>>
       THEN Commit(p, WithStatusOf(cr, wk[p].obj), IdleWorker)
       ELSE wk' = [wk EXCEPT ![p] = IdleWorker] /\ UNCHANGED <<cr, cache>>
    /\ UNCHANGED <<userSpec, garm, deps, budget>>

UpdateStatus(p) ==
    LET o == wk[p].obj IN
    /\ wk[p].pc = "finish"
    /\ \/ /\ wk[p].fresh
          /\ <<o.id, o.ready>> # <<wk[p].initID, wk[p].initReady>>
          /\ Commit(p, WithStatusOf(cr, o), IdleWorker)
          /\ UNCHANGED budget
       \/ /\ IF wk[p].fresh
                /\ <<o.id, o.ready>> # <<wk[p].initID, wk[p].initReady>>
             THEN Spend("fault") ELSE UNCHANGED budget
          /\ wk' = [wk EXCEPT ![p] = IdleWorker]
          /\ UNCHANGED <<cr, cache>>
    /\ UNCHANGED <<userSpec, garm, deps>>

\* The steps of p's worker and informer.
Work(p) == \/ EnsureFinalizer(p)
           \/ Reconcile(p)
           \/ ReconcileNormal(p)
           \/ GarmPoolExists(p)
           \/ ReconcileCreate(p)
           \/ ComparePoolSpecs(p)
           \/ PushSpec(p)
           \/ ScaleDown(p)
           \/ MarkDeleting(p)
           \/ ReleasePending(p)
           \/ DrainSpec(p)
           \/ Quiesce(p)
           \/ ListRunners(p)
           \/ SweepRunners(p)
           \/ RemoveGarmPool(p)
           \/ Unbind(p)
           \/ UpdateStatus(p)

\* The informer catches up with the API server.
CacheSync(p) ==
    /\ ~cache[p].fresh
    /\ cache[p].obj # cr \/ cr.present
    /\ cache' = [cache EXCEPT ![p] = [obj |-> cr, fresh |-> cr.present]]
    /\ UNCHANGED <<cr, userSpec, wk, garm, deps, budget>>

\* The process dies and another starts with an empty queue and a new list.
Crash(p) ==
    /\ Spend("crash")
    /\ wk' = [wk EXCEPT ![p] = IdleWorker]
    /\ cache' = [cache EXCEPT ![p] = [obj |-> cr, fresh |-> cr.present]]
    /\ UNCHANGED <<cr, userSpec, garm, deps>>

-----------------------------------------------------------------------------
(***************************************************************************)
(* The user                                                                *)
(***************************************************************************)

EditSpec ==
    /\ cr.present
    /\ Spend("edit")
    /\ \E s \in Specs \ {cr.spec} :
           UserWrite([cr EXCEPT !.spec = s]) /\ userSpec' = s
    /\ UNCHANGED <<garm, deps>>

TogglePaused ==
    /\ cr.present
    /\ Spend("edit")
    /\ UserWrite([cr EXCEPT !.paused = ~@])
    /\ UNCHANGED <<userSpec, garm, deps>>

\* Without a finalizer the object is gone at once.
RequestDelete ==
    /\ cr.present /\ ~cr.deleting
    /\ UserWrite([cr EXCEPT !.deleting = TRUE, !.present = cr.fin])
    /\ UNCHANGED <<userSpec, garm, deps, budget>>

-----------------------------------------------------------------------------
(***************************************************************************)
(* garm and the referenced objects                                         *)
(***************************************************************************)

RunnerPhase(id, from, to) ==
    /\ Live(id)
    /\ garm[id].runner = from
    /\ garm' = [garm EXCEPT ![id].runner = to]
    /\ UNCHANGED <<cr, userSpec, cache, wk, deps, budget>>

RunnerCreated(id) ==
    /\ Live(id) /\ garm[id].spec.enabled /\ garm[id].spec.minIdle > 0
    /\ RunnerPhase(id, "none", "creating")

RunnerUp(id) == RunnerPhase(id, "creating", "up")

RunnerRetires(id) == RunnerPhase(id, "up", "stopping")

RunnerGone(id) == RunnerPhase(id, "stopping", "none")

\* Somebody deletes the pool in garm behind the operator's back.
PoolDeletedExternally(id) ==
    /\ Live(id) /\ garm[id].runner = "none"
    /\ Spend("external")
    /\ garm' = [garm EXCEPT ![id].status = "deleted"]
    /\ UNCHANGED <<cr, userSpec, cache, wk, deps>>

DepAppears(d) ==
    /\ d \notin deps
    /\ deps' = deps \cup {d}
    /\ UNCHANGED <<cr, userSpec, cache, wk, garm, budget>>

DepVanishes(d) ==
    /\ d \in deps
    /\ Spend("external")
    /\ deps' = deps \ {d}
    /\ UNCHANGED <<cr, userSpec, cache, wk, garm>>

-----------------------------------------------------------------------------

Init ==
    /\ cr \in {[NullObject EXCEPT !.present = TRUE, !.spec = s] : s \in Specs}
    /\ userSpec = cr.spec
    /\ cache = [p \in Operators |-> [obj |-> cr, fresh |-> TRUE]]
    /\ wk = [p \in Operators |-> IdleWorker]
    /\ garm = [id \in PoolIDs |-> [status |-> "none", spec |-> NullSpec,
                                   runner |-> "none"]]
    /\ deps \in SUBSET Deps
    /\ budget \in Budgets

Process(p) == Work(p) \/ CacheSync(p) \/ Crash(p)

User == EditSpec \/ TogglePaused \/ RequestDelete

Environment ==
    \/ \E id \in PoolIDs : \/ RunnerCreated(id) \/ RunnerUp(id)
                           \/ RunnerRetires(id) \/ RunnerGone(id)
                           \/ PoolDeletedExternally(id)
    \/ \E d \in Deps : DepAppears(d) \/ DepVanishes(d)

Next == (\E p \in Operators : Process(p)) \/ User \/ Environment

Spec == Init /\ [][Next]_vars

(***************************************************************************)
(* The work queue retries a failed reconciliation and the cache resyncs    *)
(* every SyncPeriod, so a worker never rests for good while the object     *)
(* exists; watches are delivered; garm finishes creating and stopping a    *)
(* runner.  Nothing is assumed of users, faults, crashes or other objects. *)
(***************************************************************************)
Fairness ==
    /\ \A p \in Operators : WF_vars(Work(p)) /\ WF_vars(CacheSync(p))
    /\ \A id \in PoolIDs : WF_vars(RunnerUp(id)) /\ WF_vars(RunnerGone(id))

FairSpec == Spec /\ Fairness

-----------------------------------------------------------------------------
(***************************************************************************)
(* Properties                                                              *)
(***************************************************************************)

\* Every variable has its type.
TypeOK == /\ cr \in Objects
          /\ userSpec \in Specs
          /\ cache \in [Operators -> Copies]
          /\ wk \in [Operators -> Workers]
          /\ garm \in [PoolIDs -> GarmPools]
          /\ deps \subseteq Deps
          /\ budget \in [Kinds -> Nat]

(***************************************************************************)
(* An object that has an id is released (its finalizer removed) only after *)
(* its pool is gone from garm: the last statements of reconcileDelete, in  *)
(* spite of failing calls, crashes, outdated caches and a second process.  *)
(***************************************************************************)
ReleaseOnlyAfterGarmDelete ==
    ~cr.present /\ cr.id # NoID => garm[cr.id].status = "deleted"

(***************************************************************************)
(* What the user asked for is never overwritten by a whole-object Update   *)
(* (EnsureFinalizer, reconcileDelete) of a process that had read an older  *)
(* version: the spec is the user's, or that one drained once the user      *)
(* requested the deletion.                                                 *)
(***************************************************************************)
NoLostUserEdit ==
    cr.present => \/ cr.spec = userSpec
                  \/ cr.deleting /\ cr.spec = Drained(userSpec)

(***************************************************************************)
(* An object that has an id, or whose deletion was requested, carries the  *)
(* finalizer: a user who deletes it cannot make it disappear before        *)
(* reconcileDelete has dealt with its garm pool (EnsureFinalizer comes     *)
(* first, and reconcileDelete removes the finalizer last).                 *)
(***************************************************************************)
Guarded(o) == o.present => o.fin \/ (o.id = NoID /\ ~o.deleting)

FinalizerGuardsID == Guarded(cr)

(***************************************************************************)
(* With one process, reconcileCreate never creates a garm pool for an      *)
(* object that is already gone, so nothing is created that no later        *)
(* reconciliation could delete.  It rests on the finalizer being there     *)
(* before anything is created.                                             *)
(***************************************************************************)
NoCreateAfterRelease ==
    [][~cr.present =>
         \A id \in PoolIDs : garm[id].status = "none"
                              => garm'[id].status = "none"]_vars

(***************************************************************************)
(* With one process, the pool reconcileDelete empties stays disabled until *)
(* the deletion is over: nothing the process does lets garm start runners  *)
(* while reconcileDelete counts on them becoming fewer.                    *)
(***************************************************************************)
DrainedPoolStaysDisabled ==
    \A p \in Operators :
        wk[p].pc \in {"list", "sweep", "remove"} /\ Live(wk[p].obj.id)
        => garm[wk[p].obj.id].spec = Drained(garm[wk[p].obj.id].spec)

(***************************************************************************)
(* Why ReleaseOnlyAfterGarmDelete and NoLostUserEdit hold: a copy that is  *)
(* still fresh agrees with the API server on everything but the status the *)
(* worker is about to write, and a worker in reconcileDelete never changes *)
(* the id it read.                                                         *)
(***************************************************************************)
FreshWorker(w, c) == w.fresh => /\ w.pc # "idle"
                                /\ c.present
                                /\ WithStatusOf(w.obj, c) = c
                                /\ w.initID = c.id

FreshCopies ==
    \A p \in Operators :
        /\ cache[p].fresh => cr.present /\ cache[p].obj = cr
        /\ FreshWorker(wk[p], cr)

DrainPoints == {"drain", "quiesce", "list", "sweep", "remove", "unbind"}

DeletingWorker(w, pools) ==
    /\ w.pc \in {"deleting", "release"} \cup DrainPoints
         => w.obj.deleting /\ w.obj.id = w.initID
    /\ w.pc = "release" => w.obj.id = NoID
    /\ w.pc \in DrainPoints => w.obj.id # NoID
    /\ w.pc = "unbind" => pools[w.obj.id].status = "deleted"

DeletionProgress == \A p \in Operators : DeletingWorker(wk[p], garm)

\* Every id in circulation was given out by garm.
Issued(o, pools) == o.id # NoID => pools[o.id].status # "none"

IssuedIDs == /\ Issued(cr, garm)
             /\ \A p \in Operators : /\ Issued(cache[p].obj, garm)
                                     /\ Issued(wk[p].obj, garm)

\* Every reconciliation that gets past EnsureFinalizer works on an object
\* with the finalizer.
GuardedWorker(w) == w.pc # "idle" => w.obj.present /\ w.obj.fin

FinalizerHeld == /\ FinalizerGuardsID
                 /\ \A p \in Operators : /\ Guarded(cache[p].obj)
                                         /\ GuardedWorker(wk[p])

\* The inductive invariant behind these properties.
BindingInvariant == /\ TypeOK
                    /\ FreshCopies
                    /\ DeletionProgress
                    /\ IssuedIDs
                    /\ FinalizerHeld
                    /\ ReleaseOnlyAfterGarmDelete
                    /\ NoLostUserEdit

(***************************************************************************)
(* The Pool controller implements PoolBinding: through all faults, crashes *)
(* and outdated reads an object that once had an id never loses it, and    *)
(* never takes one that garm has not handed out; one that is released      *)
(* never comes back to be bound (the deferred status update, and the       *)
(* whole-object updates of EnsureFinalizer and reconcileDelete).           *)
(***************************************************************************)
Promise == INSTANCE PoolBinding
             WITH bound    <- cr.id,
                  released <- ~cr.present,
                  pools    <- [id \in PoolIDs |-> garm[id].status]

PromiseKept == Promise!Spec

\* The object reflects the user's spec and its garm pool has taken it over.
Synced == /\ cr.id # NoID /\ Live(cr.id)
          /\ garm[cr.id].spec = cr.spec
          /\ cr.ready = "true"

(***************************************************************************)
(* Once scope and image are there for good, the controller converges: an   *)
(* object that is neither paused nor being deleted ends up bound to a live *)
(* garm pool with exactly its spec and Ready, whatever edits, faults,      *)
(* crashes and outdated reads came before (reconcileNormal).               *)
(***************************************************************************)
EventuallySynced ==
    <>[](deps = Deps)
    => <>[](cr.present /\ ~cr.deleting /\ ~cr.paused => Synced)

(***************************************************************************)
(* A requested deletion comes at least as far as garm: the object goes     *)
(* away or its garm pool does, unless the object stays paused              *)
(* (reconcileDelete).                                                      *)
(***************************************************************************)
DeletionReachesGarm ==
    \/ []<>cr.paused
    \/ cr.deleting ~> \/ ~cr.present
                      \/ cr.id # NoID /\ ~Live(cr.id)

\* A requested deletion is completed (reconcileDelete: "remove finalizer so
\* k8s can delete resource").
DeletionCompletes == cr.deleting ~> ~cr.present

(***************************************************************************)
(* It is, whatever was edited, failed, crashed or was interfered with      *)
(* before, once no worker is busy, the garm pool is still there, nothing   *)
(* of that kind happens any more and the object is not paused - and        *)
(* however late the process learns of the object's latest version.         *)
(***************************************************************************)
Settled == /\ \A k \in Kinds \ {"stale"} : budget[k] = 0
           /\ \A p \in Operators : wk[p].pc = "idle"
           /\ cr.id = NoID \/ Live(cr.id)
           /\ ~cr.paused

SettledDeletionCompletes == cr.deleting /\ Settled ~> ~cr.present

\* "pool does not exist in garm database yet as ID in Status is empty, so we
\* can safely delete it" (reconcileDelete).
NothingInGarmWhenPending ==
    \A p \in Operators : wk[p].pc = "release" /\ wk[p].fresh
                         => \A id \in PoolIDs : ~Live(id)

Creates == \E id \in PoolIDs : /\ garm[id].status = "none"
                               /\ garm'[id].status = "live"

\* "no pool id yet or the existing pool id is outdated" (reconcileNormal)
\* whenever reconcileCreate creates a pool.
CreateOnlyIfIdOutdated ==
    [][Creates => \E p \in Operators : /\ wk[p].pc = "create"
                                       /\ ~Live(wk[p].obj.id)]_vars

=============================================================================
