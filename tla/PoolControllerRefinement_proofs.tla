------------------ MODULE PoolControllerRefinement_proofs -------------------
(***************************************************************************)
(* PoolController implements PoolBinding.  Every step writes either the    *)
(* object or garm's pools, or neither of what PoolBinding sees; so one     *)
(* lemma maps a step that writes the object, one maps a step that writes   *)
(* garm, and the rest shows which action is which.                         *)
(***************************************************************************)
EXTENDS PoolControllerBinding_proofs

Statuses == [id \in PoolIDs |-> garm[id].status]

\* What a write to the API server may do to the object.
ObjectWrite == /\ UNCHANGED garm
               /\ cr.present
               /\ \/ UNCHANGED cr.id
                  \/ cr'.present /\ cr'.id # NoID

\* What a call may do to garm's pools.
GarmWrite == /\ UNCHANGED cr
             /\ \/ UNCHANGED Statuses
                \/ \E id \in PoolIDs :
                      \/ /\ garm[id].status = "none"
                         /\ Statuses' = [Statuses EXCEPT ![id] = "live"]
                      \/ /\ garm[id].status = "live"
                         /\ Statuses' = [Statuses EXCEPT ![id] = "deleted"]

LEMMA ObjectWriteMaps ==
    ASSUME TypeOK, BindingInvariant', ObjectWrite
    PROVE  [Promise!Next]_(Promise!vars)
<1>1. UNCHANGED Statuses
  BY DEF ObjectWrite, Statuses
<1>2. cr'.id \in PoolIDs \cup {NoID} /\ cr'.present \in BOOLEAN
  BY DEF BindingInvariant, TypeOK, Objects
<1>3. CASE cr'.present /\ UNCHANGED cr.id
  BY <1>1, <1>3 DEF ObjectWrite, Promise!vars, Statuses
<1>4. CASE cr'.present /\ cr'.id # NoID
  <2>1. cr'.id \in PoolIDs /\ garm[cr'.id].status # "none"
    BY <1>2, <1>4 DEF BindingInvariant, IssuedIDs, Issued, ObjectWrite
  <2>2. Promise!Bind(cr'.id)
    BY <1>1, <1>4, <2>1 DEF Promise!Bind, ObjectWrite, Statuses
  <2> QED
    BY <2>1, <2>2 DEF Promise!Next
<1>5. CASE ~cr'.present
  <2>1. cr'.id = cr.id
    BY <1>5 DEF ObjectWrite
  <2>2. cr.id # NoID => cr.id \in PoolIDs /\ garm[cr.id].status = "deleted"
    BY <1>2, <1>5, <2>1
       DEF BindingInvariant, ReleaseOnlyAfterGarmDelete, ObjectWrite
  <2>3. Promise!Release
    BY <1>1, <1>5, <2>1, <2>2
       DEF Promise!Release, Promise!Pending, NoID, ObjectWrite, Statuses
  <2> QED
    BY <2>3 DEF Promise!Next
<1> QED
  BY <1>2, <1>3, <1>4, <1>5 DEF ObjectWrite

LEMMA GarmWriteMaps ==
    ASSUME GarmWrite
    PROVE  [Promise!Next]_(Promise!vars)
<1>1. CASE UNCHANGED Statuses
  BY <1>1 DEF GarmWrite, Promise!vars, Statuses
<1>2. ASSUME NEW id \in PoolIDs, garm[id].status = "none",
             Statuses' = [Statuses EXCEPT ![id] = "live"]
      PROVE  Promise!Next
  <2>1. Promise!Become(id, "none", "live")
    BY <1>2 DEF GarmWrite, Promise!Become, Statuses
  <2> QED
    BY <2>1 DEF Promise!Next
<1>3. ASSUME NEW id \in PoolIDs, garm[id].status = "live",
             Statuses' = [Statuses EXCEPT ![id] = "deleted"]
      PROVE  Promise!Next
  <2>1. Promise!Become(id, "live", "deleted")
    BY <1>3 DEF GarmWrite, Promise!Become, Statuses
  <2> QED
    BY <2>1 DEF Promise!Next
<1> QED
  BY <1>1, <1>2, <1>3 DEF GarmWrite

-----------------------------------------------------------------------------
(***************************************************************************)
(* A worker that read an id never works without one, so that its status    *)
(* update does not clear it.                                               *)
(***************************************************************************)
HoldsID(w) == w.obj.id = NoID => w.initID = NoID

KeepsID == \A p \in Operators : HoldsID(wk[p])

\* A step of p, or of nobody, that leaves the other workers' ids alone.
OthersKept(p) ==
    \A q \in Operators \ {p} : /\ wk'[q].obj.id = wk[q].obj.id
                               /\ wk'[q].initID = wk[q].initID

LEMMA KeptByAll ==
    ASSUME KeepsID, NEW p \in Operators, OthersKept(p),
           \/ HoldsID(wk'[p])
           \/ wk'[p].obj.id = wk[p].obj.id /\ wk'[p].initID = wk[p].initID
    PROVE  KeepsID'
BY DEF KeepsID, OthersKept, HoldsID

LEMMA OneWorkerKeeps ==
    ASSUME TypeOK, NEW p \in Operators, NEW w, wk' = [wk EXCEPT ![p] = w]
    PROVE  OthersKept(p) /\ wk'[p] = w
BY DEF TypeOK, OthersKept

LEMMA CommitKeeps ==
    ASSUME TypeOK, NEW p \in Operators, NEW new, NEW w, Commit(p, new, w)
    PROVE  OthersKept(p) /\ wk'[p] = w /\ cr' = new
<1>1. ASSUME NEW q \in Operators \ {p}
      PROVE  /\ wk[q] \in Workers
             /\ wk'[q] = [wk[q] EXCEPT !.fresh = @ /\ new = cr]
  BY DEF Commit, TypeOK
<1>2. OthersKept(p)
  BY <1>1 DEF OthersKept, Workers
<1> QED
  BY <1>2 DEF Commit

LEMMA FailKeeps ==
    ASSUME TypeOK, NEW p \in Operators, KeepsID, Fail(p)
    PROVE  KeepsID'
<1> DEFINE o == [wk[p].obj EXCEPT !.ready = "error"]
           w == [wk[p] EXCEPT !.pc = "finish", !.obj = o]
<1>1. wk' = [wk EXCEPT ![p] = w]
  BY DEF Fail
<1>2. w.obj.id = wk[p].obj.id /\ w.initID = wk[p].initID
  BY WorkerObject DEF Workers, Objects
<1> HIDE DEF w
<1> QED
  BY <1>1, <1>2, OneWorkerKeeps, KeptByAll

LEMMA GotoKeeps ==
    ASSUME TypeOK, NEW p \in Operators, KeepsID, NEW point, Goto(p, point)
    PROVE  KeepsID'
<1> DEFINE w == [wk[p] EXCEPT !.pc = point]
<1>1. wk' = [wk EXCEPT ![p] = w]
  BY DEF Goto
<1>2. w.obj.id = wk[p].obj.id /\ w.initID = wk[p].initID
  BY WorkerObject DEF Workers
<1> HIDE DEF w
<1> QED
  BY <1>1, <1>2, OneWorkerKeeps, KeptByAll

LEMMA ListedKeeps ==
    ASSUME TypeOK, NEW p \in Operators, KeepsID, NEW point, NEW listed,
           wk' = [wk EXCEPT ![p].pc = point, ![p].listed = listed]
    PROVE  KeepsID'
<1> DEFINE w == [wk[p] EXCEPT !.pc = point, !.listed = listed]
<1>1. wk' = [wk EXCEPT ![p] = w]
  OBVIOUS
<1>2. w.obj.id = wk[p].obj.id /\ w.initID = wk[p].initID
  BY WorkerObject DEF Workers
<1> HIDE DEF w
<1> QED
  BY <1>1, <1>2, OneWorkerKeeps, KeptByAll

LEMMA IdleHolds == HoldsID(IdleWorker)
BY DEF HoldsID, IdleWorker

-----------------------------------------------------------------------------
(***************************************************************************)
(* Steps that write neither the object nor garm, or only garm.             *)
(***************************************************************************)

LEMMA NothingWritten ==
    ASSUME UNCHANGED <<cr, garm>>
    PROVE  GarmWrite
BY DEF GarmWrite, Statuses

\* garm's pools change in a field other than their status.
LEMMA StatusKept ==
    ASSUME TypeOK, UNCHANGED cr, NEW id \in PoolIDs, NEW pool,
           garm' = [garm EXCEPT ![id] = pool], pool.status = garm[id].status
    PROVE  GarmWrite
BY DEF TypeOK, GarmWrite, Statuses

LEMMA ReadingSteps ==
    ASSUME BindingInvariant, KeepsID, NEW p \in Operators,
           \/ ReconcileNormal(p) \/ GarmPoolExists(p)
           \/ ComparePoolSpecs(p) \/ ListRunners(p)
    PROVE  GarmWrite /\ KeepsID'
<1>1. TypeOK /\ UNCHANGED <<cr, garm>>
  BY DEF BindingInvariant, ReconcileNormal, GarmPoolExists,
         ComparePoolSpecs, ListRunners
<1>2. \/ Fail(p)
      \/ \E point \in Points : Goto(p, point)
      \/ \E point \in Points, listed \in BOOLEAN :
             wk' = [wk EXCEPT ![p].pc = point, ![p].listed = listed]
  <2>1. CASE ReconcileNormal(p) \/ GarmPoolExists(p)
    BY <2>1 DEF ReconcileNormal, GarmPoolExists, Points
  <2>2. CASE ComparePoolSpecs(p)
    BY <2>2 DEF ComparePoolSpecs, Points
  <2>3. CASE ListRunners(p)
    BY <2>3 DEF ListRunners, Points
  <2> QED
    BY <2>1, <2>2, <2>3
<1>3. KeepsID'
  BY <1>1, <1>2, FailKeeps, GotoKeeps, ListedKeeps
<1> QED
  BY <1>1, <1>3, NothingWritten

LEMMA UpdatePoolMaps ==
    ASSUME BindingInvariant, KeepsID, NEW p \in Operators, UNCHANGED cr,
           NEW point, UpdatePool(p, point)
    PROVE  GarmWrite /\ KeepsID'
<1> DEFINE id == wk[p].obj.id
<1>1. TypeOK
  BY DEF BindingInvariant
<1>2. KeepsID'
  BY <1>1, FailKeeps, GotoKeeps DEF UpdatePool
<1>3. \/ UNCHANGED garm
      \/ /\ id \in PoolIDs
         /\ garm' = [garm EXCEPT ![id].spec = wk[p].obj.spec]
  BY DEF UpdatePool, Live
<1>4. CASE garm' = [garm EXCEPT ![id].spec = wk[p].obj.spec] /\ id \in PoolIDs
  <2>1. garm[id] \in GarmPools
    BY <1>1, <1>4 DEF TypeOK
  <2>2. [garm[id] EXCEPT !.spec = wk[p].obj.spec].status = garm[id].status
    BY <2>1 DEF GarmPools
  <2> QED
    BY <1>1, <1>2, <1>4, <2>2, StatusKept
<1> QED
  BY <1>2, <1>3, <1>4, NothingWritten

LEMMA StopRunnerMaps ==
    ASSUME TypeOK, NEW id \in PoolIDs, UNCHANGED cr, StopRunner(id)
    PROVE  GarmWrite
<1> DEFINE pool == [garm[id] EXCEPT !.runner = IF @ = "up" THEN "stopping"
                                                ELSE @]
<1>1. garm[id] \in GarmPools
  BY DEF TypeOK
<1>2. pool.status = garm[id].status
  BY <1>1 DEF GarmPools
<1>3. garm' = [garm EXCEPT ![id] = pool]
  BY DEF StopRunner
<1> HIDE DEF pool
<1> QED
  BY <1>2, <1>3, StatusKept

-----------------------------------------------------------------------------
(***************************************************************************)
(* The remaining steps that write garm                                     *)
(***************************************************************************)

LEMMA GarmCreatesMaps ==
    ASSUME TypeOK, NEW id \in PoolIDs, NextID(id), NEW s, UNCHANGED cr,
           GarmCreates(id, s)
    PROVE  GarmWrite
<1>1. garm[id].status = "none"
  BY DEF NextID
<1>2. Statuses' = [Statuses EXCEPT ![id] = "live"]
  BY DEF TypeOK, GarmCreates, Statuses
<1> QED
  BY <1>1, <1>2 DEF GarmWrite

LEMMA GarmDeletesMaps ==
    ASSUME TypeOK, NEW id \in PoolIDs, Live(id), UNCHANGED cr,
           garm' = [garm EXCEPT ![id].status = "deleted"]
    PROVE  GarmWrite
<1>1. garm[id].status = "live"
  BY DEF Live
<1>2. Statuses' = [Statuses EXCEPT ![id] = "deleted"]
  BY DEF TypeOK, GarmPools, Statuses
<1> QED
  BY <1>1, <1>2 DEF GarmWrite

LEMMA CreateMaps ==
    ASSUME BindingInvariant, KeepsID, NEW p \in Operators,
           ReconcileCreate(p)
    PROVE  GarmWrite /\ KeepsID'
<1>1. TypeOK /\ UNCHANGED cr
  BY DEF BindingInvariant, ReconcileCreate
<1>2. CASE Fail(p) /\ UNCHANGED garm
  BY <1>1, <1>2, FailKeeps, NothingWritten
<1>3. CASE CreateReplyLost(p)
  <2>1. PICK id \in PoolIDs : /\ NextID(id) /\ Fail(p)
                              /\ GarmCreates(id, wk[p].obj.spec)
    BY <1>3 DEF CreateReplyLost
  <2> QED
    BY <1>1, <2>1, FailKeeps, GarmCreatesMaps
<1>4. CASE CreateSucceeds(p)
  <2>1. PICK id \in PoolIDs :
            /\ NextID(id)
            /\ GarmCreates(id, wk[p].obj.spec)
            /\ wk' = [wk EXCEPT ![p].pc = "finish",
                                ![p].obj = [@ EXCEPT !.id = id,
                                                     !.ready = "true"]]
    BY <1>4 DEF CreateSucceeds
  <2> DEFINE o == [wk[p].obj EXCEPT !.id = id, !.ready = "true"]
             w == [wk[p] EXCEPT !.pc = "finish", !.obj = o]
  <2>2. wk' = [wk EXCEPT ![p] = w]
    BY <2>1
  <2>3. w.obj.id = id
    BY <1>1, WorkerObject DEF Workers, Objects
  <2>4. HoldsID(w)
    BY <2>3, ConstantsAssumption DEF HoldsID
  <2> HIDE DEF w
  <2> QED
    BY <1>1, <2>1, <2>2, <2>4, OneWorkerKeeps, KeptByAll, GarmCreatesMaps
<1> QED
  BY <1>2, <1>3, <1>4 DEF ReconcileCreate

LEMMA ScaleMaps ==
    ASSUME BindingInvariant, KeepsID, NEW p \in Operators, ScaleDown(p)
    PROVE  GarmWrite /\ KeepsID'
<1> DEFINE o == [wk[p].obj EXCEPT !.ready = "true"]
           w == [wk[p] EXCEPT !.pc = "finish", !.obj = o]
           id == wk[p].obj.id
<1>1. TypeOK /\ UNCHANGED cr /\ wk' = [wk EXCEPT ![p] = w]
  BY DEF BindingInvariant, ScaleDown
<1>2. w.obj.id = wk[p].obj.id /\ w.initID = wk[p].initID
  BY <1>1, WorkerObject DEF Workers, Objects
<1>3. KeepsID'
  <2> HIDE DEF w
  <2> QED
    BY <1>1, <1>2, OneWorkerKeeps, KeptByAll
<1>4. CASE StopRunner(id)
  <2>1. CASE id \in PoolIDs
    BY <1>1, <1>3, <1>4, <2>1, StopRunnerMaps
  <2>2. CASE id \notin PoolIDs
    <3>1. UNCHANGED garm
      BY <1>1, <1>4, <2>2 DEF StopRunner, TypeOK
    <3> QED
      BY <1>1, <1>3, <3>1, NothingWritten
  <2> QED
    BY <2>1, <2>2
<1> QED
  BY <1>1, <1>3, <1>4, NothingWritten DEF ScaleDown

LEMMA EmptyPoolMaps ==
    ASSUME BindingInvariant, KeepsID, NEW p \in Operators,
           SweepRunners(p) \/ RemoveGarmPool(p)
    PROVE  GarmWrite /\ KeepsID'
<1> DEFINE id == wk[p].obj.id
<1>1. TypeOK /\ UNCHANGED cr
  BY DEF BindingInvariant, SweepRunners, RemoveGarmPool
<1>2. wk[p].pc \in {"sweep", "remove"}
  BY DEF SweepRunners, RemoveGarmPool
<1>3. id \in PoolIDs
  BY <1>1, <1>2, WorkerObject
     DEF BindingInvariant, DeletionProgress, DeletingWorker, DrainPoints
<1>4. KeepsID'
  BY <1>1, FailKeeps, GotoKeeps DEF SweepRunners, RemoveGarmPool
<1>5. \/ UNCHANGED garm
      \/ StopRunner(id)
      \/ Live(id) /\ garm' = [garm EXCEPT ![id].status = "deleted"]
  BY DEF SweepRunners, RemoveGarmPool
<1> QED
  BY <1>1, <1>3, <1>4, <1>5, NothingWritten, StopRunnerMaps,
     GarmDeletesMaps

-----------------------------------------------------------------------------
(***************************************************************************)
(* Steps that write the object                                             *)
(***************************************************************************)

LEMMA EnsureFinalizerMaps ==
    ASSUME BindingInvariant, KeepsID, NEW p \in Operators,
           EnsureFinalizer(p)
    PROVE  ObjectWrite /\ KeepsID'
<1> DEFINE new == WithStatusOf([cache[p].obj EXCEPT !.fin = TRUE], cr)
<1>1. /\ TypeOK /\ UNCHANGED garm /\ Commit(p, new, wk[p])
      /\ cache[p].obj = cr /\ cr.present /\ cr \in Objects
  BY DEF EnsureFinalizer, BindingInvariant, FreshCopies, TypeOK
<1>2. new.id = cr.id
  BY <1>1 DEF WithStatusOf, Objects
<1> HIDE DEF new
<1> QED
  BY <1>1, <1>2, CommitKeeps, KeptByAll DEF ObjectWrite, KeepsID

LEMMA ReconcileMaps ==
    ASSUME BindingInvariant, KeepsID, NEW p \in Operators, Reconcile(p)
    PROVE  GarmWrite /\ KeepsID'
<1> DEFINE c == cache[p].obj
           o == IF c.ready = "none" THEN [c EXCEPT !.ready = "unknown"]
                ELSE c
           w == [pc        |-> IF c.deleting THEN "deleting" ELSE "normal",
                 obj       |-> o,
                 fresh     |-> cache[p].fresh,
                 initID    |-> c.id,
                 initReady |-> c.ready,
                 listed    |-> FALSE]
<1>1. TypeOK /\ UNCHANGED <<cr, garm>> /\ wk' = [wk EXCEPT ![p] = w]
  BY DEF BindingInvariant, Reconcile
<1>2. o.id = c.id
  BY <1>1 DEF TypeOK, Copies, Objects
<1>3. HoldsID(w)
  BY <1>2 DEF HoldsID
<1> HIDE DEF w
<1> QED
  BY <1>1, <1>3, OneWorkerKeeps, KeptByAll, NothingWritten

LEMMA MarkDeletingMaps ==
    ASSUME BindingInvariant, KeepsID, NEW p \in Operators, MarkDeleting(p)
    PROVE  (ObjectWrite \/ GarmWrite) /\ KeepsID'
<1> DEFINE o == [wk[p].obj EXCEPT !.ready = "deleting"]
           w(point) == [wk[p] EXCEPT !.obj = o, !.pc = point]
           next == IF wk[p].obj.id = NoID THEN "release" ELSE "drain"
           new == WithStatusOf(cr, o)
<1>1. /\ TypeOK /\ wk[p] \in Workers /\ wk[p].obj \in Objects
      /\ cr \in Objects /\ UNCHANGED garm /\ wk[p].pc = "deleting"
  BY WorkerObject DEF BindingInvariant, TypeOK, MarkDeleting
<1>2. ASSUME NEW point
      PROVE  w(point).obj.id = wk[p].obj.id /\ w(point).initID = wk[p].initID
  BY <1>1 DEF Workers, Objects
<1>3. [wk[p] EXCEPT !.obj.ready = "deleting"] = [wk[p] EXCEPT !.obj = o]
  BY <1>1 DEF Workers
<1>4. /\ [[wk[p] EXCEPT !.obj = o] EXCEPT !.pc = "finish"] = w("finish")
      /\ [[wk[p] EXCEPT !.obj = o] EXCEPT !.pc = next] = w(next)
      /\ [wk[p] EXCEPT !.obj = o].obj = o
      /\ o.id = wk[p].obj.id
  BY <1>1 DEF Workers, Objects
<1>5. CASE wk[p].fresh /\ Commit(p, new, w(next))
  <2>1. cr.present /\ cr.id = wk[p].obj.id
    BY <1>1, <1>5, FreshDeleting
  <2>2. new.id = cr.id
    BY <1>1, <1>4, <2>1 DEF WithStatusOf, Objects
  <2> HIDE DEF new, w
  <2>3. ObjectWrite
    BY <1>1, <1>5, <2>1, <2>2, CommitKeeps DEF ObjectWrite
  <2> QED
    BY <1>1, <1>2, <1>5, <2>3, CommitKeeps, KeptByAll
<1>6. CASE UNCHANGED cr /\ wk' = [wk EXCEPT ![p] = w("finish")]
  <2>1. w("finish").obj.id = wk[p].obj.id
        /\ w("finish").initID = wk[p].initID
    BY <1>2
  <2> HIDE DEF w
  <2>2. OthersKept(p) /\ wk'[p] = w("finish")
    BY <1>1, <1>6, OneWorkerKeeps
  <2>3. KeepsID'
    BY <2>1, <2>2, KeptByAll
  <2> QED
    BY <1>1, <1>6, <2>3, NothingWritten
<1> QED
  BY <1>3, <1>4, <1>5, <1>6 DEF MarkDeleting

LEMMA DrainSpecMaps ==
    ASSUME BindingInvariant, KeepsID, NEW p \in Operators, DrainSpec(p)
    PROVE  (ObjectWrite \/ GarmWrite) /\ KeepsID'
<1> DEFINE s == Drained(wk[p].obj.spec)
           o == [wk[p].obj EXCEPT !.spec = s]
           w == [wk[p] EXCEPT !.pc = "quiesce", !.obj = o]
           new == WithStatusOf(o, cr)
<1>1. /\ TypeOK /\ wk[p] \in Workers /\ wk[p].obj \in Objects
      /\ cr \in Objects /\ UNCHANGED garm /\ wk[p].pc = "drain"
  BY WorkerObject DEF BindingInvariant, TypeOK, DrainSpec
<1>2. w.obj.id = wk[p].obj.id /\ w.initID = wk[p].initID
  BY <1>1 DEF Workers, Objects
<1>3. [wk[p] EXCEPT !.pc = "quiesce", !.obj.spec = s] = w
  BY <1>1 DEF Workers
<1>4. CASE wk[p].fresh /\ Commit(p, new, w)
  <2>1. cr.present
    BY <1>1, <1>4, FreshDeleting DEF DrainPoints
  <2>2. new.id = cr.id
    BY <1>1 DEF WithStatusOf, Objects
  <2> HIDE DEF new, w
  <2> QED
    BY <1>1, <1>2, <1>4, <2>1, <2>2, CommitKeeps, KeptByAll
       DEF ObjectWrite
<1>5. CASE UNCHANGED cr /\ Fail(p)
  BY <1>1, <1>5, FailKeeps, NothingWritten
<1> QED
  BY <1>3, <1>4, <1>5 DEF DrainSpec

LEMMA RemoveFinalizerMaps ==
    ASSUME BindingInvariant, KeepsID, NEW p \in Operators,
           wk[p].pc \in {"release", "unbind"},
           RemoveFinalizer(p), UNCHANGED garm
    PROVE  (ObjectWrite \/ GarmWrite) /\ KeepsID'
<1> DEFINE w == [wk[p] EXCEPT !.pc = "finish", !.fresh = FALSE]
           new == WithStatusOf([wk[p].obj EXCEPT !.fin = FALSE,
                                                 !.present = FALSE], cr)
<1>1. TypeOK /\ wk[p] \in Workers /\ wk[p].obj \in Objects /\ cr \in Objects
  BY WorkerObject DEF BindingInvariant, TypeOK
<1>2. w.obj.id = wk[p].obj.id /\ w.initID = wk[p].initID
  BY <1>1 DEF Workers
<1>3. CASE wk[p].fresh /\ Commit(p, new, w)
  <2>1. cr.present
    BY <1>3, FreshDeleting DEF DrainPoints
  <2>2. new.id = cr.id
    BY <1>1 DEF WithStatusOf, Objects
  <2> HIDE DEF new, w
  <2> QED
    BY <1>1, <1>2, <1>3, <2>1, <2>2, CommitKeeps, KeptByAll
       DEF ObjectWrite
<1>4. CASE UNCHANGED cr /\ Fail(p)
  BY <1>1, <1>4, FailKeeps, NothingWritten
<1> QED
  BY <1>3, <1>4 DEF RemoveFinalizer

\* A fresh worker at the end of its reconciliation writes an id, or the one
\* the object has.
LEMMA UpdateStatusMaps ==
    ASSUME BindingInvariant, KeepsID, NEW p \in Operators, UpdateStatus(p)
    PROVE  (ObjectWrite \/ GarmWrite) /\ KeepsID'
<1> DEFINE o == wk[p].obj
           new == WithStatusOf(cr, o)
<1>1. TypeOK /\ o \in Objects /\ cr \in Objects /\ UNCHANGED garm
  BY WorkerObject DEF BindingInvariant, TypeOK, UpdateStatus
<1>2. CASE wk[p].fresh /\ Commit(p, new, IdleWorker)
  <2>1. cr.present /\ wk[p].initID = cr.id
    BY <1>2 DEF BindingInvariant, FreshCopies, FreshWorker
  <2>2. new.present /\ new.id = o.id
    BY <1>1, <2>1 DEF WithStatusOf, Objects
  <2>3. o.id = NoID => o.id = cr.id
    BY <2>1 DEF KeepsID, HoldsID
  <2> HIDE DEF new
  <2>4. cr' = new /\ KeepsID'
    BY <1>1, <1>2, IdleHolds, CommitKeeps, KeptByAll
  <2> QED
    BY <1>1, <2>1, <2>2, <2>3, <2>4 DEF ObjectWrite
<1>3. CASE UNCHANGED cr /\ wk' = [wk EXCEPT ![p] = IdleWorker]
  BY <1>1, <1>3, IdleHolds, OneWorkerKeeps, KeptByAll, NothingWritten
<1> QED
  BY <1>2, <1>3 DEF UpdateStatus

LEMMA WorkMaps ==
    ASSUME BindingInvariant, KeepsID, NEW p \in Operators, Work(p)
    PROVE  (ObjectWrite \/ GarmWrite) /\ KeepsID'
<1>1. CASE PushSpec(p)
  BY <1>1, UpdatePoolMaps DEF PushSpec
<1>2. CASE Quiesce(p)
  BY <1>2, UpdatePoolMaps DEF Quiesce
<1>3. CASE ReleasePending(p) \/ Unbind(p)
  BY <1>3, RemoveFinalizerMaps DEF ReleasePending, Unbind
<1> QED
  BY <1>1, <1>2, <1>3, EnsureFinalizerMaps, ReconcileMaps, ReadingSteps,
     CreateMaps, ScaleMaps, MarkDeletingMaps, DrainSpecMaps, EmptyPoolMaps,
     UpdateStatusMaps
     DEF Work

LEMMA ProcessMaps ==
    ASSUME BindingInvariant, KeepsID, NEW p \in Operators,
           CacheSync(p) \/ Crash(p)
    PROVE  GarmWrite /\ KeepsID'
<1>1. /\ TypeOK /\ UNCHANGED <<cr, garm>>
      /\ wk' = wk \/ wk' = [wk EXCEPT ![p] = IdleWorker]
  BY DEF BindingInvariant, CacheSync, Crash
<1>2. KeepsID'
  <2>1. CASE wk' = wk
    BY <2>1 DEF KeepsID
  <2>2. CASE wk' = [wk EXCEPT ![p] = IdleWorker]
    BY <1>1, <2>2, IdleHolds, OneWorkerKeeps, KeptByAll
  <2> QED
    BY <1>1, <2>1, <2>2
<1> QED
  BY <1>1, <1>2, NothingWritten

-----------------------------------------------------------------------------
(***************************************************************************)
(* The user, garm and the referenced objects                               *)
(***************************************************************************)

LEMMA UserMaps ==
    ASSUME BindingInvariant, KeepsID, User
    PROVE  ObjectWrite /\ KeepsID'
<1>1. TypeOK /\ cr \in Objects /\ cr.present /\ UNCHANGED garm
  BY DEF BindingInvariant, TypeOK, User, EditSpec, TogglePaused,
         RequestDelete
<1>2. ASSUME NEW new, UserWrite(new)
      PROVE  cr' = new /\ KeepsID'
  <2>1. ASSUME NEW q \in Operators
        PROVE  wk'[q].obj.id = wk[q].obj.id /\ wk'[q].initID = wk[q].initID
    BY <1>1, <1>2 DEF UserWrite, TypeOK, Workers
  <2> QED
    BY <1>2, <2>1 DEF UserWrite, KeepsID, HoldsID
<1>3. ASSUME NEW new, UserWrite(new), new.id = cr.id
      PROVE  ObjectWrite /\ KeepsID'
  BY <1>1, <1>2, <1>3 DEF ObjectWrite
<1>4. CASE EditSpec
  <2>1. PICK s \in Specs : UserWrite([cr EXCEPT !.spec = s])
    BY <1>4 DEF EditSpec
  <2>2. [cr EXCEPT !.spec = s].id = cr.id
    BY <1>1 DEF Objects
  <2> QED
    BY <1>3, <2>1, <2>2
<1>5. CASE TogglePaused
  <2>1. [cr EXCEPT !.paused = ~@].id = cr.id
    BY <1>1 DEF Objects
  <2> QED
    BY <1>3, <1>5, <2>1 DEF TogglePaused
<1>6. CASE RequestDelete
  <2>1. [cr EXCEPT !.deleting = TRUE, !.present = cr.fin].id = cr.id
    BY <1>1 DEF Objects
  <2> QED
    BY <1>3, <1>6, <2>1 DEF RequestDelete
<1> QED
  BY <1>4, <1>5, <1>6 DEF User

LEMMA EnvironmentMaps ==
    ASSUME BindingInvariant, KeepsID, Environment
    PROVE  GarmWrite /\ KeepsID'
<1>1. TypeOK /\ UNCHANGED <<cr, wk>>
  BY DEF BindingInvariant, Environment, RunnerCreated, RunnerUp,
         RunnerRetires, RunnerGone, RunnerPhase, PoolDeletedExternally,
         DepAppears, DepVanishes
<1>2. KeepsID'
  BY <1>1 DEF KeepsID
<1>3. CASE UNCHANGED garm
  BY <1>1, <1>2, <1>3, NothingWritten
<1>4. ASSUME NEW id \in PoolIDs, PoolDeletedExternally(id)
      PROVE  GarmWrite
  BY <1>1, <1>4, GarmDeletesMaps DEF PoolDeletedExternally
<1>5. ASSUME NEW id \in PoolIDs, NEW from, NEW to, RunnerPhase(id, from, to)
      PROVE  GarmWrite
  <2> DEFINE pool == [garm[id] EXCEPT !.runner = to]
  <2>1. garm[id] \in GarmPools /\ garm' = [garm EXCEPT ![id] = pool]
    BY <1>1, <1>5 DEF TypeOK, RunnerPhase
  <2>2. pool.status = garm[id].status
    BY <2>1 DEF GarmPools
  <2> HIDE DEF pool
  <2> QED
    BY <1>1, <2>1, <2>2, StatusKept
<1> QED
  BY <1>2, <1>3, <1>4, <1>5
     DEF Environment, RunnerCreated, RunnerUp, RunnerRetires, RunnerGone,
         DepAppears, DepVanishes

-----------------------------------------------------------------------------
(***************************************************************************)
(* The theorem                                                             *)
(***************************************************************************)

LEMMA StepMaps ==
    ASSUME BindingInvariant, BindingInvariant', KeepsID, [Next]_vars
    PROVE  [Promise!Next]_(Promise!vars) /\ KeepsID'
<1>1. TypeOK
  BY DEF BindingInvariant
<1>2. (ObjectWrite \/ GarmWrite) /\ KeepsID'
  <2>1. CASE UNCHANGED vars
    <3>1. UNCHANGED <<cr, garm, wk>>
      BY <2>1 DEF vars
    <3> QED
      BY <3>1, NothingWritten DEF KeepsID
  <2>2. CASE \E p \in Operators : Process(p)
    BY <2>2, WorkMaps, ProcessMaps DEF Process
  <2> QED
    BY <2>1, <2>2, UserMaps, EnvironmentMaps DEF Next
<1> QED
  BY <1>1, <1>2, ObjectWriteMaps, GarmWriteMaps

LEMMA InitMaps == Init => Promise!Init /\ KeepsID
<1> SUFFICES ASSUME Init PROVE Promise!Init /\ KeepsID
  OBVIOUS
<1>1. Promise!Init
  BY DEF Init, NullObject, NoID, Promise!Init, Promise!Pending
<1>2. KeepsID
  BY IdleHolds DEF Init, KeepsID
<1> QED
  BY <1>1, <1>2

\* An object of the Pool controller behaves as PoolBinding says: bound to
\* pools garm has created, never unbound, released while pending or after its
\* pool was deleted (reconcileCreate, reconcileDelete, deferred update).
THEOREM PromiseIsKept == Spec => PromiseKept
<1>1. Init => Promise!Init /\ KeepsID
  BY InitMaps
<1>2. BindingInvariant /\ BindingInvariant' /\ KeepsID /\ [Next]_vars
      => [Promise!Next]_(Promise!vars) /\ KeepsID'
  BY StepMaps
<1>3. Spec => Promise!Spec
  BY <1>1, <1>2, Binding, PTL DEF Spec, Promise!Spec
<1> QED
  BY <1>3 DEF PromiseKept

=============================================================================
