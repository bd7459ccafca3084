---------------------------- MODULE GitHubObjects ----------------------------
(***************************************************************************)
(* A GitHubEndpoint, a GitHubCredential that refers to it, and scopes (a   *)
(* Repository, an Organization, an Enterprise) that refer to the           *)
(* credential; their controllers, which run concurrently in one operator   *)
(* process; and the entities of the same names in garm, which refer to     *)
(* each other in the same way.                                             *)
(*                                                                         *)
(* The five controllers share one shape: find the entity by the object's   *)
(* name or create it, update it, keep its id in the status; on deletion,   *)
(* delete the entity and remove the finalizer.  Hence one action per step, *)
(* with the kind of object as its parameter, and for each controller the   *)
(* steps its handlers consist of.                                          *)
(***************************************************************************)
EXTENDS Integers

CONSTANTS
    MaxID,      \* how many entities of a kind garm creates at most
    Versions,   \* versions of an object's spec
    PoolManager, \* what garm may say of a scope's pool manager: whether it
                 \* runs, as the condition Ready will be
    Forgiving,  \* kinds that garm deletes successfully when there are none
    Plans       \* for each kind of behaviour, the objects users apply and how
                \* often each disturbance may happen

Scopes == {"repository", "organization", "enterprise"}

Kinds == {"endpoint", "credential"} \cup Scopes

Refers(k, to) == \/ k = "credential" /\ to = "endpoint"
                 \/ k \in Scopes /\ to = "credential"

(***************************************************************************)
(* What may happen besides the controllers' own work:                      *)
(*   edit      the user changes a spec or toggles a paused annotation      *)
(*   fault     a call to garm, to the API server or for a Secret fails; to *)
(*             garm, also after it took effect (the reply is lost)         *)
(*   crash     the operator process dies and is restarted                  *)
(*   stale     a reconciliation begins on a cached object that is outdated *)
(*   external  somebody creates or deletes an entity in garm               *)
(***************************************************************************)
Disturbances == {"edit", "fault", "crash", "stale", "external"}

NoID == 0       \* status.id = "" or 0

IDs == 1 .. MaxID

ASSUME GitHubConstants == /\ MaxID \in Nat
                          /\ Versions # {}
                          /\ PoolManager \subseteq {"true", "error"}
                          /\ Forgiving \subseteq Kinds
                          /\ Plans \subseteq [kinds  : SUBSET Kinds,
                                             budget : [Disturbances -> Nat]]

VARIABLES
    kinds,      \* the kinds of objects users apply; what others these refer
                \* to is taken to be there, and stays
    cr,         \* the objects in the API server
    applied,    \* the kinds whose object has ever been there
    cache,      \* the process's informer copies of them
    wk,         \* the worker of each controller
    garm,       \* the entities in garm
    issued,     \* for each kind, how many ids garm has handed out
    budget      \* disturbances left

vars == <<kinds, cr, applied, cache, wk, garm, issued, budget>>

-----------------------------------------------------------------------------
(***************************************************************************)
(* Data                                                                    *)
(***************************************************************************)

\* Of the conditions only Ready: not set yet, Unknown, True, False with an
\* error reason, False with reason Deleting.
Readiness == {"none", "unknown", "true", "error", "deleting"}

\* An endpoint has no id in its status; listed says whether the status of a
\* credential lists a scope.
Statuses == [id : 0 .. MaxID, ready : Readiness, listed : BOOLEAN]

Objects == [present : BOOLEAN, fin : BOOLEAN, deleting : BOOLEAN,
            paused : BOOLEAN, spec : Versions, status : Statuses]

\* A copy of an object is fresh while its resourceVersion is the current one.
Copies == [obj : Objects, fresh : BOOLEAN]

Points == {"idle", "refs", "find", "create", "update", "get", "mark",
           "delete", "unbind", "finish"}

Workers == [pc : Points, obj : Objects, fresh : BOOLEAN, init : Statuses,
            found : 0 .. MaxID]

\* An entity with id NoID is not there.  An endpoint is known by its name
\* only; its id here tells apart endpoints that are created again.  History:
\* an entity is ours once the controller has created, found or updated it.
Entities == [id : 0 .. MaxID, spec : Versions, ours : BOOLEAN]

AnyVersion == CHOOSE v \in Versions : TRUE

NoStatus == [id |-> NoID, ready |-> "none", listed |-> FALSE]

NullObject == [present |-> FALSE, fin |-> FALSE, deleting |-> FALSE,
               paused |-> FALSE, spec |-> AnyVersion, status |-> NoStatus]

NoEntity == [id |-> NoID, spec |-> AnyVersion, ours |-> FALSE]

IdleWorker == [pc |-> "idle", obj |-> NullObject, fresh |-> FALSE,
               init |-> NoStatus, found |-> NoID]

InGarm(k) == garm[k].id # NoID

\* garm knows what an entity of kind k has to refer to.
ParentInGarm(k) == \A to \in kinds : Refers(k, to) => InGarm(to)

InUse(k) == \E c \in kinds : Refers(c, k) /\ InGarm(c)

-----------------------------------------------------------------------------
(***************************************************************************)
(* Building blocks                                                         *)
(***************************************************************************)

Spend(d) == /\ budget[d] > 0
            /\ budget' = [budget EXCEPT ![d] = @ - 1]

\* The worker of k, which is one of those followed, is at this point.
At(k, point) == k \in kinds /\ wk[k].pc = point

Goto(k, point) == wk' = [wk EXCEPT ![k].pc = point]

\* conditions.MarkFalse(Ready, <reason>), and on to the deferred update.
Return(k, ready) == wk' = [wk EXCEPT ![k].pc = "finish",
                                     ![k].found = NoID,
                                     ![k].obj.status.ready = ready]

Fail(k) == Return(k, "error")

\* The API server accepts a write of k's worker, which becomes w.  A write
\* that changes nothing keeps the resourceVersion.
Commit(k, new, w) ==
    /\ cr' = [cr EXCEPT ![k] = new]
    /\ cache' = [cache EXCEPT ![k].fresh = @ /\ new = cr[k]]
    /\ wk' = [wk EXCEPT ![k] = w]

\* A write of somebody else.
UserWrite(k, new) ==
    /\ cr' = [cr EXCEPT ![k] = new]
    /\ cache' = [cache EXCEPT ![k].fresh = FALSE]
    /\ wk' = [wk EXCEPT ![k].fresh = FALSE]

-----------------------------------------------------------------------------
(***************************************************************************)
(* garm.  Names are unique, an entity is created or pointed at a parent    *)
(* only if garm has it, and is deleted only while nothing refers to it.    *)
(***************************************************************************)

GarmCreates(k, v, ours) ==
    /\ ~InGarm(k) /\ ParentInGarm(k) /\ issued[k] < MaxID
    /\ issued' = [issued EXCEPT ![k] = @ + 1]
    /\ garm' = [garm EXCEPT ![k] = [id |-> issued[k] + 1, spec |-> v,
                                     ours |-> ours]]

GarmRefusesCreate(k) == InGarm(k) \/ ~ParentInGarm(k) \/ issued[k] = MaxID

Entity(k, id) == InGarm(k) /\ (k = "endpoint" \/ garm[k].id = id)

GarmDeletes(k, id) ==
    \/ /\ Entity(k, id) /\ ~InUse(k)
       /\ garm' = [garm EXCEPT ![k] = NoEntity]
    \/ /\ ~Entity(k, id) /\ k \in Forgiving
       /\ UNCHANGED garm

GarmRefusesDelete(k, id) == IF Entity(k, id) THEN InUse(k)
                                             ELSE k \notin Forgiving

-----------------------------------------------------------------------------
(***************************************************************************)
(* Reconcile: from the cache to the first branch                           *)
(***************************************************************************)

MayStart(k) == /\ At(k, "idle")
               /\ cache[k].obj.present
               /\ ~cache[k].obj.paused

\* On an outdated copy the Update is refused and nothing changes.
EnsureFinalizer(k) ==
    /\ MayStart(k)
    /\ ~cache[k].obj.deleting /\ ~cache[k].obj.fin
    /\ cache[k].fresh
    /\ Commit(k, [cr[k] EXCEPT !.fin = TRUE], wk[k])
    /\ UNCHANGED <<kinds, applied, garm, issued, budget>>

\* reconcileNormal begins with the references, that of a credential with
\* garm's list; reconcileDelete of a credential begins with a status update.
FirstPoint(k, deleting) ==
    IF k = "credential" THEN (IF deleting THEN "mark" ELSE "find")
                        ELSE (IF deleting THEN "delete" ELSE "refs")

Reconcile(k) ==
    LET o == cache[k].obj IN
    /\ MayStart(k)
    /\ o.deleting \/ o.fin
    /\ IF cache[k].fresh THEN UNCHANGED budget ELSE Spend("stale")
    /\ wk' = [wk EXCEPT ![k] =
                [pc    |-> FirstPoint(k, o.deleting),
                 obj   |-> [o EXCEPT !.status.ready =
                                        IF @ = "none" THEN "unknown" ELSE @],
                 fresh |-> cache[k].fresh,
                 init  |-> o.status,
                 found |-> NoID]]
    /\ UNCHANGED <<kinds, cr, applied, cache, garm, issued>>

-----------------------------------------------------------------------------
(***************************************************************************)
(* reconcileNormal                                                         *)
(***************************************************************************)

Known(id) == IF id = NoID THEN "create" ELSE "update"

\* The referenced object only has to exist; it may be on its way out.
RefCached(k) == \A to \in kinds : Refers(k, to) => cache[to].obj.present

\* Secret and referenced object, both from the cache.
FetchRefs(k) ==
    /\ At(k, "refs")
    /\ \/ /\ RefCached(k)
          /\ Goto(k, IF k = "credential" THEN Known(wk[k].found) ELSE "find")
          /\ UNCHANGED budget
       \/ /\ ~RefCached(k)
          /\ Fail(k)
          /\ UNCHANGED budget
       \/ /\ Spend("fault")
          /\ Fail(k)
    /\ UNCHANGED <<kinds, cr, applied, cache, garm, issued>>

\* Mutant: -1 stands for "not found".
GetExistingSentinel(k) ==
    /\ At(k, "find")
    /\ wk' = [wk EXCEPT ![k].found = IF InGarm(k) THEN garm[k].id ELSE -1,
                        ![k].pc = IF k = "credential" THEN "refs"
                                  ELSE Known(garm[k].id)]
    /\ UNCHANGED <<kinds, cr, applied, cache, garm, issued, budget>>

\* The entity is looked up by name; whatever garm has is adopted.  An error
\* other than "not found" fails.
GetExisting(k) ==
    /\ At(k, "find")
    /\ \/ /\ wk' = [wk EXCEPT ![k].found = garm[k].id,
                              ![k].pc = IF k = "credential" THEN "refs"
                                        ELSE Known(garm[k].id)]
          /\ garm' = [garm EXCEPT ![k].ours = InGarm(k)]
          /\ UNCHANGED budget
       \/ /\ Spend("fault")
          /\ Fail(k)
          /\ UNCHANGED garm
    /\ UNCHANGED <<kinds, cr, applied, cache, issued>>

Create(k) ==
    /\ At(k, "create")
    /\ \/ /\ GarmCreates(k, wk[k].obj.spec, TRUE)
          /\ wk' = [wk EXCEPT ![k].pc = "update",
                              ![k].found = issued'[k]]
          /\ UNCHANGED budget
       \/ /\ GarmRefusesCreate(k)
          /\ Fail(k)
          /\ UNCHANGED <<garm, issued, budget>>
       \/ /\ Spend("fault")
          /\ Fail(k)
          /\ \/ GarmCreates(k, wk[k].obj.spec, TRUE)
             \/ UNCHANGED <<garm, issued>>
    /\ UNCHANGED <<kinds, cr, applied, cache>>

\* Where an update leads when garm accepts it.  The status of a scope tells
\* whether its pool manager runs.
Updated(k) ==
    \/ /\ k = "endpoint"
       /\ Return(k, "true")
    \/ /\ k = "credential"
       /\ Goto(k, "get")
    \/ /\ k \in Scopes
       /\ \E ready \in PoolManager :
             wk' = [wk EXCEPT ![k].pc = "finish",
                              ![k].found = NoID,
                              ![k].obj.status = [@ EXCEPT !.id = wk[k].found,
                                                          !.ready = ready]]

\* Mutant: an entity that has been found is not updated.
UpdateOnlyNew(k) ==
    /\ At(k, "update")
    /\ Updated(k)
    /\ UNCHANGED <<kinds, cr, applied, cache, garm, issued, budget>>

\* "update anytime": a scope is also pointed at its credential again.
Update(k) ==
    LET Accepts == Entity(k, wk[k].found) /\ (k \in Scopes => ParentInGarm(k))
        Pushed  == garm' = [garm EXCEPT ![k].spec = wk[k].obj.spec,
                                        ![k].ours = TRUE]
    IN
    /\ At(k, "update")
    /\ \/ /\ Accepts /\ Pushed
          /\ Updated(k)
          /\ UNCHANGED budget
       \/ /\ ~Accepts
          /\ Fail(k)
          /\ UNCHANGED <<garm, budget>>
       \/ /\ Spend("fault")
          /\ Fail(k)
          /\ (Accepts /\ Pushed) \/ UNCHANGED garm
    /\ UNCHANGED <<kinds, cr, applied, cache, issued>>

\* The credential with the scopes that use it.
GetCredential(k) ==
    /\ At(k, "get")
    /\ \/ /\ Entity(k, wk[k].found)
          /\ wk' = [wk EXCEPT ![k].pc = "finish",
                              ![k].found = NoID,
                              ![k].obj.status = [id     |-> wk[k].found,
                                                 ready  |-> "true",
                                                 listed |-> InUse(k)]]
          /\ UNCHANGED budget
       \/ /\ ~Entity(k, wk[k].found)
          /\ Fail(k)
          /\ UNCHANGED budget
       \/ /\ Spend("fault")
          /\ Fail(k)
    /\ UNCHANGED <<kinds, cr, applied, cache, garm, issued>>

-----------------------------------------------------------------------------
(***************************************************************************)
(* reconcileDelete                                                         *)
(***************************************************************************)

\* A credential's status is written first; garm is not called if that fails.
MarkDeleting(k) ==
    LET o == [wk[k].obj EXCEPT !.status.ready = "deleting"] IN
    /\ At(k, "mark")
    /\ \/ /\ wk[k].fresh
          /\ Commit(k, [cr[k] EXCEPT !.status = o.status],
                       [wk[k] EXCEPT !.pc = "delete", !.obj = o])
          /\ UNCHANGED budget
       \/ /\ IF wk[k].fresh THEN Spend("fault") ELSE UNCHANGED budget
          /\ Return(k, "deleting")
          /\ UNCHANGED <<cr, cache>>
    /\ UNCHANGED <<kinds, applied, garm, issued>>

\* Mutant: the id is taken from the lookup reconcileNormal makes.
DeleteFound(k) ==
    /\ At(k, "delete")
    /\ \/ /\ GarmDeletes(k, wk[k].found)
          /\ Goto(k, "unbind")
       \/ /\ GarmRefusesDelete(k, wk[k].found)
          /\ Fail(k)
          /\ UNCHANGED garm
    /\ UNCHANGED <<kinds, cr, applied, cache, issued, budget>>

\* Mutant: errors of garm are only logged.
DeleteIgnoringErrors(k) ==
    /\ At(k, "delete")
    /\ Goto(k, "unbind")
    /\ GarmDeletes(k, wk[k].obj.status.id) \/ UNCHANGED garm
    /\ UNCHANGED <<kinds, cr, applied, cache, issued, budget>>

\* An endpoint is deleted by its name, the others by the id in the status,
\* whether there is one or not.  Any error is final for this reconciliation.
\* A credential's status is then written twice with the same content, here
\* and by the deferred update: once in the model.
Delete(k) ==
    LET id == wk[k].obj.status.id IN
    /\ At(k, "delete")
    /\ \/ /\ GarmDeletes(k, id)
          /\ wk' = [wk EXCEPT ![k].pc = "unbind",
                              ![k].obj.status.ready = "deleting"]
          /\ UNCHANGED budget
       \/ /\ GarmRefusesDelete(k, id)
          /\ Fail(k)
          /\ UNCHANGED <<garm, budget>>
       \/ /\ Spend("fault")
          /\ Fail(k)
          /\ GarmDeletes(k, id) \/ UNCHANGED garm
    /\ UNCHANGED <<kinds, cr, applied, cache, issued>>

\* Removing the finalizer lets the API server remove the object.
Unbind(k) ==
    /\ At(k, "unbind")
    /\ \/ /\ wk[k].fresh
          /\ Commit(k, [cr[k] EXCEPT !.fin = FALSE, !.present = FALSE],
                       [wk[k] EXCEPT !.pc = "finish", !.fresh = FALSE])
          /\ UNCHANGED budget
       \/ /\ IF wk[k].fresh THEN Spend("fault") ELSE UNCHANGED budget
          /\ Goto(k, "finish")
          /\ UNCHANGED <<cr, cache>>
    /\ UNCHANGED <<kinds, applied, garm, issued>>

-----------------------------------------------------------------------------
(***************************************************************************)
(* The deferred status update, which runs on every return                  *)
(***************************************************************************)

\* Mutant: the status is written whatever the resourceVersion.
UpdateStatusForced(k) ==
    /\ At(k, "finish")
    /\ IF cr[k].present /\ wk[k].obj.status # wk[k].init
       THEN Commit(k, [cr[k] EXCEPT !.status = wk[k].obj.status], IdleWorker)
       ELSE wk' = [wk EXCEPT ![k] = IdleWorker] /\ UNCHANGED <<cr, cache>>
    /\ UNCHANGED <<kinds, applied, garm, issued, budget>>

UpdateStatus(k) ==
    LET pending == wk[k].fresh /\ wk[k].obj.status # wk[k].init IN
    /\ At(k, "finish")
    /\ \/ /\ pending
          /\ Commit(k, [cr[k] EXCEPT !.status = wk[k].obj.status], IdleWorker)
          /\ UNCHANGED budget
       \/ /\ IF pending THEN Spend("fault") ELSE UNCHANGED budget
          /\ wk' = [wk EXCEPT ![k] = IdleWorker]
          /\ UNCHANGED <<cr, cache>>
    /\ UNCHANGED <<kinds, applied, garm, issued>>

(***************************************************************************)
(* The controllers: what Reconcile, reconcileNormal and reconcileDelete of *)
(* each consist of                                                         *)
(***************************************************************************)

RepositoryReconcile == \/ EnsureFinalizer("repository")
                       \/ Reconcile("repository")
                       \/ UpdateStatus("repository")

RepositoryNormal == \/ FetchRefs("repository") \/ GetExisting("repository")
                    \/ Create("repository")    \/ Update("repository")

RepositoryDelete == Delete("repository") \/ Unbind("repository")

OrganizationReconcile == \/ EnsureFinalizer("organization")
                         \/ Reconcile("organization")
                         \/ UpdateStatus("organization")

OrganizationNormal == \/ FetchRefs("organization") \/ GetExisting("organization")
                      \/ Create("organization")    \/ Update("organization")

OrganizationDelete == Delete("organization") \/ Unbind("organization")

EnterpriseReconcile == \/ EnsureFinalizer("enterprise")
                       \/ Reconcile("enterprise")
                       \/ UpdateStatus("enterprise")

EnterpriseNormal == \/ FetchRefs("enterprise") \/ GetExisting("enterprise")
                    \/ Create("enterprise")    \/ Update("enterprise")

EnterpriseDelete == Delete("enterprise") \/ Unbind("enterprise")

CredentialReconcile == \/ EnsureFinalizer("credential")
                       \/ Reconcile("credential")
                       \/ UpdateStatus("credential")

CredentialNormal == \/ GetExisting("credential") \/ FetchRefs("credential")
                    \/ Create("credential")      \/ Update("credential")
                    \/ GetCredential("credential")

CredentialDelete == \/ MarkDeleting("credential")
                    \/ Delete("credential") \/ Unbind("credential")

EndpointReconcile == \/ EnsureFinalizer("endpoint")
                     \/ Reconcile("endpoint")
                     \/ UpdateStatus("endpoint")

EndpointNormal == \/ FetchRefs("endpoint") \/ GetExisting("endpoint")
                  \/ Create("endpoint")    \/ Update("endpoint")

EndpointDelete == Delete("endpoint") \/ Unbind("endpoint")

RepositoryController ==
    RepositoryReconcile \/ RepositoryNormal \/ RepositoryDelete

OrganizationController ==
    OrganizationReconcile \/ OrganizationNormal \/ OrganizationDelete

EnterpriseController ==
    EnterpriseReconcile \/ EnterpriseNormal \/ EnterpriseDelete

CredentialController ==
    CredentialReconcile \/ CredentialNormal \/ CredentialDelete

EndpointController ==
    EndpointReconcile \/ EndpointNormal \/ EndpointDelete

Controllers == \/ RepositoryController \/ OrganizationController
               \/ EnterpriseController
               \/ CredentialController \/ EndpointController

-----------------------------------------------------------------------------
(***************************************************************************)
(* The process, users and garm                                             *)
(***************************************************************************)

CacheSync(k) ==
    /\ k \in kinds
    /\ ~cache[k].fresh
    /\ cache[k].obj # cr[k] \/ cr[k].present
    /\ cache' = [cache EXCEPT ![k] = [obj |-> cr[k], fresh |-> cr[k].present]]
    /\ UNCHANGED <<kinds, cr, applied, wk, garm, issued, budget>>

\* The process dies and another starts with empty queues and new lists.
Crash ==
    /\ Spend("crash")
    /\ wk' = [k \in kinds |-> IdleWorker]
    /\ cache' = [k \in kinds |-> [obj |-> cr[k], fresh |-> cr[k].present]]
    /\ UNCHANGED <<kinds, cr, applied, garm, issued>>

Apply(k) ==
    /\ k \in kinds \ applied
    /\ applied' = applied \cup {k}
    /\ UserWrite(k, [NullObject EXCEPT !.present = TRUE])
    /\ UNCHANGED <<kinds, garm, issued, budget>>

Exists(k) == k \in kinds /\ cr[k].present

EditSpec(k) ==
    /\ Exists(k)
    /\ Spend("edit")
    /\ \E v \in Versions \ {cr[k].spec} :
           UserWrite(k, [cr[k] EXCEPT !.spec = v])
    /\ UNCHANGED <<kinds, applied, garm, issued>>

TogglePaused(k) ==
    /\ Exists(k)
    /\ Spend("edit")
    /\ UserWrite(k, [cr[k] EXCEPT !.paused = ~@])
    /\ UNCHANGED <<kinds, applied, garm, issued>>

\* Without a finalizer the object is gone at once.
RequestDelete(k) ==
    /\ Exists(k) /\ ~cr[k].deleting
    /\ UserWrite(k, [cr[k] EXCEPT !.deleting = TRUE, !.present = cr[k].fin])
    /\ UNCHANGED <<kinds, applied, garm, issued, budget>>

\* Somebody creates an entity with the name of the object ...
CreatedExternally(k) ==
    /\ k \in kinds
    /\ Spend("external")
    /\ \E v \in Versions : GarmCreates(k, v, FALSE)
    /\ UNCHANGED <<kinds, cr, applied, cache, wk>>

\* ... or deletes it.
DeletedExternally(k) ==
    /\ k \in kinds
    /\ Spend("external")
    /\ InGarm(k) /\ GarmDeletes(k, garm[k].id)
    /\ UNCHANGED <<kinds, cr, applied, cache, wk, issued>>

-----------------------------------------------------------------------------

Init ==
    /\ \E p \in Plans : kinds = p.kinds /\ budget = p.budget
    /\ cr = [k \in kinds |-> NullObject]
    /\ applied = {}
    /\ cache = [k \in kinds |-> [obj |-> NullObject, fresh |-> FALSE]]
    /\ wk = [k \in kinds |-> IdleWorker]
    /\ garm = [k \in kinds |-> NoEntity]
    /\ issued = [k \in kinds |-> 0]

User(k) == Apply(k) \/ EditSpec(k) \/ TogglePaused(k) \/ RequestDelete(k)

Next == \/ Controllers
        \/ \E k \in Kinds : \/ CacheSync(k) \/ User(k)
                            \/ CreatedExternally(k) \/ DeletedExternally(k)
        \/ Crash

Spec == Init /\ [][Next]_vars

(***************************************************************************)
(* Each controller has a work queue of its own, which retries, and every   *)
(* object is reconciled again each SyncPeriod; watches are delivered.      *)
(***************************************************************************)
Fairness ==
    /\ WF_vars(RepositoryController)
    /\ WF_vars(OrganizationController)
    /\ WF_vars(EnterpriseController)
    /\ WF_vars(CredentialController)
    /\ WF_vars(EndpointController)
    /\ \A k \in Kinds : WF_vars(CacheSync(k))

FairSpec == Spec /\ Fairness

-----------------------------------------------------------------------------
(***************************************************************************)
(* Properties                                                              *)
(***************************************************************************)

\* Every variable has its type.
GitHubTypeOK ==
    /\ kinds \subseteq Kinds
    /\ cr \in [kinds -> Objects]
    /\ applied \subseteq kinds
    /\ cache \in [kinds -> Copies]
    /\ wk \in [kinds -> Workers]
    /\ garm \in [kinds -> Entities]
    /\ issued \in [kinds -> 0 .. MaxID]
    /\ budget \in [Disturbances -> Nat]

Released(k) == k \in applied /\ ~cr[k].present

\* Nothing is left of what the controller created or found.
Gone(k) == ~(InGarm(k) /\ garm[k].ours)

\* Kinds whose deletion succeeds without an id, whatever garm has: nobody
\* promises anything of a credential that is deleted before it has one.
MayBeLeft == Forgiving \ {"endpoint"}

(***************************************************************************)
(* An object is released only after its entity is gone: the one whose id   *)
(* it has and, with or without an id, any that the controller has created, *)
(* even if the reply was lost, or found.  Nothing the controllers do       *)
(* brings it back or takes hold of what others create under the name: not  *)
(* a reconciliation from an outdated cache, not a crash, not a user who    *)
(* deletes the objects in the wrong order (reconcileDelete).               *)
(***************************************************************************)
ReleasedMeansGone ==
    \A k \in kinds : Released(k) =>
        /\ cr[k].status.id # NoID => garm[k].id # cr[k].status.id
        /\ k \notin MayBeLeft => Gone(k)

(***************************************************************************)
(* An id in a status is never replaced by that of an older entity, nor     *)
(* taken away, although reconcileNormal writes what it found several calls *)
(* earlier (reconcileNormal, deferred status update).                      *)
(***************************************************************************)
IDsNeverRegress ==
    [][\A k \in kinds : k \in applied
            => cr'[k].status.id >= cr[k].status.id]_vars

\* The entity in garm is what the object asks for, and the status says so.
Synced(k) ==
    /\ InGarm(k) /\ garm[k].spec = cr[k].spec
    /\ k # "endpoint" => cr[k].status.id = garm[k].id
    /\ k \notin Scopes => cr[k].status.ready = "true"
    /\ k = "credential" /\ kinds \cap Scopes # {} => cr[k].status.listed

Wanted(k) == cr[k].present /\ ~cr[k].deleting /\ ~cr[k].paused

(***************************************************************************)
(* In whatever order the objects are applied and whatever is edited,       *)
(* fails, crashes or is interfered with: if they all stay, garm ends up    *)
(* with all of them, as they are specified, under the ids in the statuses, *)
(* and the credential lists the scope that uses it (reconcileNormal).      *)
(***************************************************************************)
EventuallySynced ==
    <>[](\A k \in kinds : Wanted(k)) => <>[](\A k \in kinds : Synced(k))

(***************************************************************************)
(* Deletions, requested in any order, complete, although garm refuses to   *)
(* delete what is in use: once nothing else happens, and every object that *)
(* is left is bound to its entity and no deletion of it is under way on an *)
(* outdated copy (reconcileDelete).                                        *)
(***************************************************************************)
Settled(k) ==
    /\ cr[k].present /\ cr[k].deleting /\ ~cr[k].paused
    /\ Entity(k, cr[k].status.id)
    /\ wk[k].pc \in {"delete", "unbind"} => wk[k].fresh

TeardownCompletes ==
    /\ \A d \in Disturbances : budget[d] = 0
    /\ \A k \in kinds : Settled(k) \/ (Released(k) /\ ~InGarm(k))
    ~> \A k \in kinds : Released(k) /\ Gone(k)

\* Scope and credential keep the promise a Pool does; PoolBinding says
\* nothing of where the ids come from (reconcileNormal, reconcileDelete).
Fate(k, id) == IF id > issued[k] THEN "none"
               ELSE IF id = garm[k].id THEN "live" ELSE "deleted"

Promise(k) == INSTANCE PoolBinding
                WITH PoolIDs  <- IDs,
                     bound    <- cr[k].status.id,
                     released <- Released(k),
                     pools    <- [id \in IDs |-> Fate(k, id)]

PromisesKept ==
    /\ \A k \in kinds \ {"endpoint"} : Promise(k)!Init
    /\ [][\A k \in kinds \ {"endpoint"} :
             [Promise(k)!Next]_(Promise(k)!vars)]_vars

=============================================================================
