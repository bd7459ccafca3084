----------------------------- MODULE RunnerSync -----------------------------
(***************************************************************************)
(* The Runner controller: Runner objects mirror the instances of garm.     *)
(*                                                                         *)
(* A poller lists the instances of the known Pools and sends their names,  *)
(* and the names of all other Runner objects, over an unbuffered channel   *)
(* into the controller's work queue.  The reconciler takes no more than    *)
(* the name from there: it asks garm and the cache again, and creates the  *)
(* Runner, deletes it or copies the instance into its status.  A user who  *)
(* deletes a Runner wants the instance to be deleted.                      *)
(*                                                                         *)
(* The poller runs as soon as the process does.  The queue is filled and   *)
(* emptied only once this process leads; until then the poller blocks on   *)
(* its first name.                                                         *)
(***************************************************************************)
EXTENDS FiniteSets, Integers

CONSTANTS
    Runners,    \* the names of instances; a Runner has its instance's name
    Pools,      \* the Pool objects of the watched namespace
    PoolOf,     \* the pool of each instance
    Budgets     \* how often each disturbance may happen: a behaviour stays
                \* within one of these budgets

(***************************************************************************)
(* What may happen besides the work of poller, reconciler and garm:        *)
(*   delete   a user deletes a Runner                                      *)
(*   touch    a user changes the metadata of a Runner                      *)
(*   fault    a call to garm or the API server fails; also after it took   *)
(*            effect (the reply is lost)                                   *)
(*   crash    the process dies and is restarted                            *)
(*   pool     a Pool gets its id, or disappears from the cache             *)
(***************************************************************************)
Disturbances == {"delete", "touch", "fault", "crash", "pool"}

ASSUME RunnerConstants == /\ IsFiniteSet(Runners)
                          /\ PoolOf \in [Runners -> Pools]
                          /\ Budgets \subseteq [Disturbances -> Nat]

VARIABLES
    inst,       \* the instances in garm
    known,      \* the Pools that are cached with an id in their status
    cr,         \* the Runners in the API server
    cache,      \* the process's informer copies of them
    leads,      \* the controllers of this process have been started
    poller,     \* the goroutine of PollRunnerInstances
    queue,      \* the names in the work queue
    wk,         \* for each name, the reconciliation of it, if one runs
    requested,  \* the Runners a user has deleted,
    guarded,    \* those of them that had the finalizer then, and
    asked,      \* the instances the operator asked garm to delete (history)
    spent       \* the disturbances so far

vars == <<inst, known, cr, cache, leads, poller, queue, wk,
          requested, guarded, asked, spent>>

users == <<requested, guarded>>

-----------------------------------------------------------------------------
(***************************************************************************)
(* Data                                                                    *)
(***************************************************************************)

\* An instance that is "running" may work, idle or be on its way up; one
\* that is "stopping" waits for its provider to delete it.  Names are never
\* used again.
InstancePhases == {"unborn", "running", "stopping", "gone"}

Listed == {"running", "stopping"}

\* What ListInstances says of a name.
Findings == Listed \cup {"none"}

\* Mutant: instances that have been deleted are found as well.
FindAny(r) == IF inst[r] = "unborn" THEN "none" ELSE inst[r]

Find(r) == IF inst[r] \in Listed THEN inst[r] ELSE "none"

\* Of the status: the instance's status, and whether the pool is given by
\* its garm id or by the name of the Pool object.
Statuses == [phase : Findings, pool : {"none", "id", "name"}]

NoStatus == [phase |-> "none", pool |-> "none"]

Objects == [present : BOOLEAN, fin : BOOLEAN, deleting : BOOLEAN,
            status : Statuses]

NoRunner == [present |-> FALSE, fin |-> FALSE, deleting |-> FALSE,
             status |-> NoStatus]

\* A copy of an object is fresh while its resourceVersion is the current one.
Copies == [obj : Objects, fresh : BOOLEAN]

Points == {"idle", "get", "create", "protect", "delete", "stop", "unbind",
           "save"}

Workers == [pc : Points, found : Findings, obj : Objects, fresh : BOOLEAN]

Idle == [pc |-> "idle", found |-> "none", obj |-> NoRunner, fresh |-> FALSE]

Pollers == [busy : BOOLEAN, names : SUBSET Runners]

Waiting == [busy |-> FALSE, names |-> {}]

-----------------------------------------------------------------------------
(***************************************************************************)
(* Building blocks                                                         *)
(***************************************************************************)

Spend(d) == /\ spent' = [spent EXCEPT ![d] = @ + 1]
            /\ \E b \in Budgets : \A e \in Disturbances : spent'[e] <= b[e]

Goto(r, point) == wk' = [wk EXCEPT ![r].pc = point]

Done(r) == wk' = [wk EXCEPT ![r] = Idle] /\ UNCHANGED queue

\* An error is returned; the name is queued again, with a delay.
Fail(r) == wk' = [wk EXCEPT ![r] = Idle] /\ queue' = queue \cup {r}

\* A call that may fail, before it takes effect or after.
Lost(r, Effect) == Spend("fault") /\ Fail(r)
                   /\ (Effect \/ UNCHANGED <<cr, cache>>)

\* A write the API server accepts; it reaches the cache later.
Stored(r, new) == /\ cr' = [cr EXCEPT ![r] = new]
                  /\ cache' = [cache EXCEPT ![r].fresh = FALSE]

Removed(o) == [o EXCEPT !.deleting = TRUE, !.present = o.fin]

-----------------------------------------------------------------------------
(***************************************************************************)
(* The poller                                                              *)
(***************************************************************************)

\* The instances of the Pools that have an id, one Pool after the other.
RunnerInstances == {r \in Runners : PoolOf[r] \in known /\ inst[r] \in Listed}

\* The cached Runners that are not among the instances.
RunnerDiff(instances) == {r \in Runners : cache[r].obj.present} \ instances

\* A tick.  One step: names are all that is kept, and each of them is looked
\* up again.
EnqueueRunnerInstances ==
    /\ poller = Waiting
    /\ poller' = [busy  |-> TRUE,
                  names |-> RunnerInstances \cup RunnerDiff(RunnerInstances)]
    /\ UNCHANGED <<inst, known, cr, cache, leads, queue, wk, users, asked,
                   spent>>

\* The names are sent one by one; each send waits for its receiver.
EnqueueRunnerEvents ==
    /\ poller.busy
    /\ \/ /\ poller.names = {}
          /\ poller' = Waiting
          /\ UNCHANGED queue
       \/ /\ leads
          /\ \E r \in poller.names :
                /\ poller' = [poller EXCEPT !.names = @ \ {r}]
                /\ queue' = queue \cup {r}
    /\ UNCHANGED <<inst, known, cr, cache, leads, wk, users, asked, spent>>

Poll == EnqueueRunnerInstances \/ EnqueueRunnerEvents

-----------------------------------------------------------------------------
(***************************************************************************)
(* The reconciler                                                          *)
(***************************************************************************)

\* Mutant: only instances of the Pools known to the operator are looked at.
FindInKnownPools(r) ==
    /\ leads /\ wk[r].pc = "idle" /\ r \in queue
    /\ queue' = queue \ {r}
    /\ wk' = [wk EXCEPT ![r] = [Idle EXCEPT
                 !.pc = "get",
                 !.found = IF PoolOf[r] \in known THEN Find(r) ELSE "none"]]
    /\ UNCHANGED <<inst, known, cr, cache, leads, poller, users, asked,
                   spent>>

\* A name is taken from the queue and looked up among all instances of garm.
GetGarmRunnerInstance(r) ==
    /\ leads /\ wk[r].pc = "idle" /\ r \in queue
    /\ \/ /\ queue' = queue \ {r}
          /\ wk' = [wk EXCEPT ![r] = [Idle EXCEPT !.pc = "get",
                                                  !.found = Find(r)]]
          /\ UNCHANGED spent
       \/ /\ Spend("fault")
          /\ UNCHANGED <<queue, wk>>
    /\ UNCHANGED <<inst, known, cr, cache, leads, poller, users, asked>>

\* Mutant: the instance is not deleted.
BranchWithoutStop(o, found) ==
    CASE o.present /\ o.deleting  -> "unbind"
      [] o.present /\ ~o.deleting -> IF found = "none" THEN "delete" ELSE "save"
      [] ~o.present               -> IF found = "none" THEN "idle" ELSE "create"

\* Mutant: a Runner without an instance is left alone.
BranchWithoutDelete(o, found) ==
    CASE o.present /\ o.deleting  -> IF found = "none" THEN "unbind" ELSE "stop"
      [] o.present /\ ~o.deleting -> IF found = "none" THEN "idle" ELSE "save"
      [] ~o.present               -> IF found = "none" THEN "idle" ELSE "create"

\* The switch of reconcileNormal, on the instance found and the cached
\* Runner; and then reconcileDelete or updateRunnerStatus.
Branch(o, found) ==
    CASE o.present /\ o.deleting  -> IF found = "none" THEN "unbind" ELSE "stop"
      [] o.present /\ ~o.deleting -> IF found = "none" THEN "delete" ELSE "save"
      [] ~o.present               -> IF found = "none" THEN "idle" ELSE "create"

ReconcileNormal(r) ==
    LET o  == cache[r].obj
        to == Branch(o, wk[r].found)
    IN
    /\ wk[r].pc = "get"
    /\ wk' = [wk EXCEPT ![r] =
                 IF to = "idle" THEN Idle
                 ELSE [@ EXCEPT !.pc = to, !.obj = o, !.fresh = cache[r].fresh]]
    /\ UNCHANGED <<inst, known, cr, cache, leads, poller, queue, users, asked,
                   spent>>

\* r.Delete goes by the name, whatever the resourceVersion.
DeleteRunner(r) ==
    LET Effect == cr[r].present /\ Stored(r, Removed(cr[r])) IN
    /\ wk[r].pc = "delete"
    /\ \/ Effect /\ Done(r) /\ UNCHANGED spent
       \/ ~cr[r].present /\ Fail(r) /\ UNCHANGED <<cr, cache, spent>>
       \/ Lost(r, Effect)
    /\ UNCHANGED <<inst, known, leads, poller, users, asked>>

\* createRunnerCR: an empty Runner, ...
CreateRunner(r) ==
    LET Effect == ~cr[r].present
                  /\ Stored(r, [NoRunner EXCEPT !.present = TRUE])
    IN
    /\ wk[r].pc = "create"
    /\ \/ /\ Effect
          /\ wk' = [wk EXCEPT ![r].pc = "protect", ![r].fresh = TRUE]
          /\ UNCHANGED <<queue, spent>>
       \/ cr[r].present /\ Fail(r) /\ UNCHANGED <<cr, cache, spent>>
       \/ Lost(r, Effect)
    /\ UNCHANGED <<inst, known, leads, poller, users, asked>>

\* Mutant: the finalizer comes with the status, in some later reconciliation.
EnsureFinalizerLater(r) ==
    /\ wk[r].pc = "protect"
    /\ Done(r)
    /\ UNCHANGED <<inst, known, cr, cache, leads, poller, users, asked, spent>>

\* ... then the finalizer.  The status that is set next is not stored: the
\* deferred update is installed only further down in reconcileNormal.
EnsureFinalizer(r) ==
    LET Effect == wk[r].fresh /\ Stored(r, [cr[r] EXCEPT !.fin = TRUE]) IN
    /\ wk[r].pc = "protect"
    /\ \/ Effect /\ Done(r) /\ UNCHANGED spent
       \/ ~wk[r].fresh /\ Fail(r) /\ UNCHANGED <<cr, cache, spent>>
       \/ Lost(r, Effect)
    /\ UNCHANGED <<inst, known, leads, poller, users, asked>>

Status(r, found) == [phase |-> found,
                     pool  |-> IF PoolOf[r] \in known THEN "name" ELSE "id"]

\* updateRunnerStatus, and the deferred update of the status if it changed.
UpdateRunnerStatus(r) ==
    LET new == Status(r, wk[r].found)
        Effect == wk[r].fresh /\ Stored(r, [cr[r] EXCEPT !.status = new])
    IN
    /\ wk[r].pc = "save"
    /\ \/ new = wk[r].obj.status /\ Done(r) /\ UNCHANGED <<cr, cache, spent>>
       \/ /\ new # wk[r].obj.status
          /\ \/ Effect /\ Done(r) /\ UNCHANGED spent
             \/ ~wk[r].fresh /\ Fail(r) /\ UNCHANGED <<cr, cache, spent>>
             \/ Lost(r, Effect)
    /\ UNCHANGED <<inst, known, leads, poller, users, asked>>

\* Mutant: an error of garm is only logged.
DeleteInstanceUnchecked(r) ==
    /\ wk[r].pc = "stop"
    /\ Goto(r, "unbind")
    /\ \/ /\ inst[r] \in Listed
          /\ inst' = [inst EXCEPT ![r] = "stopping"]
          /\ asked' = asked \cup {r}
          /\ UNCHANGED spent
       \/ Spend("fault") /\ UNCHANGED <<inst, asked>>
    /\ UNCHANGED <<known, cr, cache, leads, poller, queue, users>>

\* reconcileDelete: garm is asked first.  It may refuse an instance that is
\* being deleted already, and does not know one that is gone.
DeleteInstance(r) ==
    /\ wk[r].pc = "stop"
    /\ \/ /\ inst[r] \in Listed
          /\ inst' = [inst EXCEPT ![r] = "stopping"]
          /\ asked' = asked \cup {r}
          /\ \/ Goto(r, "unbind") /\ UNCHANGED <<queue, spent>>
             \/ Spend("fault") /\ Fail(r)
       \/ /\ inst[r] # "running"
          /\ Fail(r)
          /\ UNCHANGED <<inst, asked, spent>>
       \/ /\ Spend("fault")
          /\ Fail(r)
          /\ UNCHANGED <<inst, asked>>
    /\ UNCHANGED <<known, cr, cache, leads, poller, users>>

\* Then the finalizer is removed, and with it the Runner.
RemoveFinalizer(r) ==
    LET Effect == wk[r].fresh /\ Stored(r, [cr[r] EXCEPT !.fin = FALSE,
                                                         !.present = FALSE])
    IN
    /\ wk[r].pc = "unbind"
    /\ \/ Effect /\ Done(r) /\ UNCHANGED spent
       \/ ~wk[r].fresh /\ Fail(r) /\ UNCHANGED <<cr, cache, spent>>
       \/ Lost(r, Effect)
    /\ UNCHANGED <<inst, known, leads, poller, users, asked>>

Work(r) == \/ GetGarmRunnerInstance(r) \/ ReconcileNormal(r)
           \/ DeleteRunner(r)
           \/ CreateRunner(r) \/ EnsureFinalizer(r)
           \/ UpdateRunnerStatus(r)
           \/ DeleteInstance(r) \/ RemoveFinalizer(r)

-----------------------------------------------------------------------------
(***************************************************************************)
(* The process, its environment, garm and users                            *)
(***************************************************************************)

\* The informers follow, whether this process leads or not; their events
\* fill the queue of one that does.
CacheSync(r) ==
    /\ ~cache[r].fresh
    /\ cache[r].obj # cr[r] \/ cr[r].present
    /\ cache' = [cache EXCEPT ![r] = [obj |-> cr[r], fresh |-> cr[r].present]]
    /\ queue' = IF leads THEN queue \cup {r} ELSE queue
    /\ UNCHANGED <<inst, known, cr, leads, poller, wk, users, asked, spent>>

\* The process becomes the leader; its controllers start with what is cached.
Lead ==
    /\ ~leads
    /\ leads' = TRUE
    /\ queue' = {r \in Runners : cache[r].obj.present}
    /\ UNCHANGED <<inst, known, cr, cache, poller, wk, users, asked, spent>>

\* The process dies, another starts.
Crash ==
    /\ Spend("crash")
    /\ leads' = FALSE
    /\ poller' = Waiting
    /\ queue' = {}
    /\ wk' = [r \in Runners |-> Idle]
    /\ cache' = [r \in Runners |-> [obj |-> cr[r], fresh |-> cr[r].present]]
    /\ UNCHANGED <<inst, known, cr, users, asked>>

PoolChanges ==
    /\ Spend("pool")
    /\ \E p \in Pools : known' = (known \ {p}) \cup ({p} \ known)
    /\ UNCHANGED <<inst, cr, cache, leads, poller, queue, wk, users, asked>>

\* garm creates instances, scales them down, and its providers delete them.
Moves == {<<"unborn", "running">>, <<"running", "stopping">>,
          <<"stopping", "gone">>}

InstanceMoves(r) ==
    /\ \E m \in Moves : /\ inst[r] = m[1]
                        /\ inst' = [inst EXCEPT ![r] = m[2]]
    /\ UNCHANGED <<known, cr, cache, leads, poller, queue, wk, users, asked,
                   spent>>

\* A write of a user.
UserWrite(r, new) ==
    /\ Stored(r, new)
    /\ wk' = [wk EXCEPT ![r].fresh = FALSE]
    /\ UNCHANGED <<inst, known, leads, poller, queue, asked>>

RequestDelete(r) ==
    /\ cr[r].present /\ ~cr[r].deleting
    /\ Spend("delete")
    /\ requested' = requested \cup {r}
    /\ guarded' = IF cr[r].fin THEN guarded \cup {r} ELSE guarded
    /\ UserWrite(r, Removed(cr[r]))

Touch(r) ==
    /\ cr[r].present
    /\ Spend("touch")
    /\ UserWrite(r, cr[r])
    /\ UNCHANGED users

-----------------------------------------------------------------------------

Init ==
    /\ inst = [r \in Runners |-> "unborn"]
    /\ known \in SUBSET Pools
    /\ cr = [r \in Runners |-> NoRunner]
    /\ cache = [r \in Runners |-> [obj |-> NoRunner, fresh |-> FALSE]]
    /\ leads = FALSE
    /\ poller = Waiting
    /\ queue = {}
    /\ wk = [r \in Runners |-> Idle]
    /\ requested = {} /\ guarded = {} /\ asked = {}
    /\ spent = [d \in Disturbances |-> 0]

Next == \/ Poll \/ Lead \/ Crash \/ PoolChanges
        \/ \E r \in Runners : \/ Work(r) \/ CacheSync(r) \/ InstanceMoves(r)
                              \/ RequestDelete(r) \/ Touch(r)

Spec == Init /\ [][Next]_vars

(***************************************************************************)
(* The ticker keeps ticking, the queue retries, watches are delivered, one *)
(* of the replicas is elected, and providers delete what garm wants gone.  *)
(* Nobody has to create or stop a runner.                                  *)
(***************************************************************************)
Fairness ==
    /\ WF_vars(Poll) /\ WF_vars(Lead)
    /\ \A r \in Runners :
          /\ WF_vars(Work(r)) /\ WF_vars(CacheSync(r))
          /\ WF_vars(inst[r] = "stopping" /\ InstanceMoves(r))

FairSpec == Spec /\ Fairness

-----------------------------------------------------------------------------
(***************************************************************************)
(* Properties                                                              *)
(***************************************************************************)

\* Every variable has its type.
RunnerTypeOK ==
    /\ inst \in [Runners -> InstancePhases]
    /\ known \subseteq Pools
    /\ cr \in [Runners -> Objects]
    /\ cache \in [Runners -> Copies]
    /\ leads \in BOOLEAN
    /\ poller \in Pollers
    /\ queue \subseteq Runners
    /\ wk \in [Runners -> Workers]
    /\ guarded \subseteq requested /\ requested \subseteq Runners
    /\ asked \subseteq Runners
    /\ spent \in [Disturbances -> Nat]

(***************************************************************************)
(* The operator asks garm to delete an instance only if a user deleted its *)
(* Runner.  It deletes Runners on its own as well, and any deletion of a   *)
(* Runner may reach garm: what keeps the two apart is that reconcileNormal *)
(* decides on all instances of garm, and not on the poller's list, which   *)
(* lacks those of Pools without an id and may be older than the process's  *)
(* leadership (runner_controller.go, reconcileNormal).                     *)
(***************************************************************************)
OnlyRequestedStops == asked \subseteq requested

(***************************************************************************)
(* Once a user has deleted a Runner that carries the finalizer, the Runner *)
(* stays, in deletion, for as long as its instance runs: whatever fails,   *)
(* crashes or is read from an outdated cache (reconcileDelete).            *)
(***************************************************************************)
GuardedUntilStopped ==
    \A r \in guarded : inst[r] = "running"
                          => cr[r].present /\ cr[r].deleting /\ cr[r].fin

(***************************************************************************)
(* A Runner is left without its finalizer only if the step between its     *)
(* creation and ensureFinalizer was hit by a failure, a crash or a write   *)
(* of a user: nothing else can get in between, and nothing adds it later   *)
(* (createRunnerCR).                                                       *)
(***************************************************************************)
Undisturbed == \A d \in {"fault", "crash", "touch"} : spent[d] = 0

UnprotectedOnlyIfDisturbed ==
    Undisturbed => \A r \in Runners :
        cr[r].present /\ ~cr[r].fin => wk[r].pc = "protect"

\* The deletion of a guarded Runner reaches garm (reconcileDelete).
RequestReachesGarm ==
    \A r \in Runners : r \in guarded ~> inst[r] \in {"stopping", "gone"}

Mirrored(r) ==
    CASE inst[r] = "unborn"  -> ~cr[r].present
      [] inst[r] = "running" -> /\ cr[r].present /\ ~cr[r].deleting
                                /\ cr[r].status = Status(r, "running")
      [] OTHER               -> inst[r] = "gone" /\ ~cr[r].present

(***************************************************************************)
(* If every Pool keeps its id, the Runners end up as the instances are:    *)
(* one for each, with its status, and none for those that are gone; after  *)
(* any failure, crash, deletion by users or round of the poller that saw   *)
(* only some of the Pools (PollRunnerInstances, reconcileNormal).          *)
(***************************************************************************)
EventuallyMirrored ==
    <>[](known = Pools) => <>[](\A r \in Runners : Mirrored(r))

=============================================================================
