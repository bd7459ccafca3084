----------------------- MODULE PoolController_proofs -----------------------
(***************************************************************************)
(* Theorems about PoolController, for any number of operator processes,    *)
(* garm pools and disturbances.                                            *)
(***************************************************************************)
EXTENDS PoolController, TLAPS

(***************************************************************************)
(* Type correctness: what the building blocks do to the types.             *)
(***************************************************************************)

LEMMA ConstantTypes ==
    /\ NullSpec \in Specs
    /\ NullObject \in Objects
    /\ IdleWorker \in Workers
    /\ \A s \in Specs : Drained(s) \in Specs
BY ConstantsAssumption
   DEF NullSpec, NullObject, IdleWorker, Drained, Specs, Objects, Workers,
       Points, Readiness, NoID

LEMMA SpendType ==
    ASSUME TypeOK, NEW kind \in Kinds, Spend(kind)
    PROVE  budget' \in [Kinds -> Nat]
BY DEF TypeOK, Spend

LEMMA GotoType ==
    ASSUME wk \in [Operators -> Workers], NEW p \in Operators,
           NEW point \in Points, Goto(p, point)
    PROVE  wk' \in [Operators -> Workers]
BY DEF Goto, Workers

LEMMA FailType ==
    ASSUME wk \in [Operators -> Workers], NEW p \in Operators, Fail(p)
    PROVE  wk' \in [Operators -> Workers]
<1> DEFINE o == [wk[p].obj EXCEPT !.ready = "error"]
           w == [wk[p] EXCEPT !.pc = "finish", !.obj = o]
<1>1. wk[p] \in Workers /\ wk[p].obj \in Objects
  BY DEF Workers
<1>2. o \in Objects
  BY <1>1 DEF Objects, Readiness
<1>3. w \in Workers
  BY <1>1, <1>2 DEF Workers, Points
<1>4. wk' = [wk EXCEPT ![p] = w]
  BY DEF Fail
<1> QED
  BY <1>3, <1>4

LEMMA CommitType ==
    ASSUME TypeOK, NEW p \in Operators, NEW new \in Objects,
           NEW w \in Workers, Commit(p, new, w)
    PROVE  /\ cr' \in Objects
           /\ cache' \in [Operators -> Copies]
           /\ wk' \in [Operators -> Workers]
BY DEF TypeOK, Commit, Copies, Workers

LEMMA UserWriteType ==
    ASSUME TypeOK, NEW new \in Objects, UserWrite(new)
    PROVE  /\ cr' \in Objects
           /\ cache' \in [Operators -> Copies]
           /\ wk' \in [Operators -> Workers]
BY DEF TypeOK, UserWrite, Copies, Workers

LEMMA WriteTypes ==
    ASSUME TypeOK, NEW o \in Objects
    PROVE  WithStatusOf(o, cr) \in Objects /\ WithStatusOf(cr, o) \in Objects
BY DEF TypeOK, WithStatusOf, Objects

(***************************************************************************)
(* Type correctness: the steps of a worker.                                *)
(***************************************************************************)

LEMMA ReconcileTypes ==
    ASSUME TypeOK, NEW p \in Operators,
           EnsureFinalizer(p) \/ Reconcile(p)
    PROVE  TypeOK'
<1>0. cache[p].obj \in Objects /\ cache[p].fresh \in BOOLEAN
  BY DEF TypeOK, Copies
<1>1. CASE EnsureFinalizer(p)
  <2>1. WithStatusOf([cache[p].obj EXCEPT !.fin = TRUE], cr) \in Objects
    <3>1. [cache[p].obj EXCEPT !.fin = TRUE] \in Objects
      BY <1>0 DEF Objects
    <3> QED
      BY <3>1, WriteTypes
  <2>2. wk[p] \in Workers
    BY DEF TypeOK
  <2>3. /\ cr' \in Objects
        /\ cache' \in [Operators -> Copies]
        /\ wk' \in [Operators -> Workers]
    BY <1>1, <2>1, <2>2, CommitType DEF EnsureFinalizer
  <2> QED
    BY <1>1, <2>3 DEF EnsureFinalizer, TypeOK
<1>2. CASE Reconcile(p)
  <2> DEFINE c == cache[p].obj
             o == IF c.ready = "none" THEN [c EXCEPT !.ready = "unknown"]
                  ELSE c
             w == [pc        |-> IF c.deleting THEN "deleting" ELSE "normal",
                   obj       |-> o,
                   fresh     |-> cache[p].fresh,
                   initID    |-> c.id,
                   initReady |-> c.ready,
                   listed    |-> FALSE]
  <2>1. o \in Objects /\ c.id \in PoolIDs \cup {NoID} /\ c.ready \in Readiness
    BY <1>0 DEF Objects, Readiness
  <2>2. w \in Workers
    BY <1>0, <2>1 DEF Workers, Points
  <2>3. wk' = [wk EXCEPT ![p] = w]
    BY <1>2 DEF Reconcile
  <2>4. wk' \in [Operators -> Workers]
    BY <2>2, <2>3 DEF TypeOK
  <2>5. budget' \in [Kinds -> Nat]
    BY <1>2, SpendType DEF Reconcile, Kinds, TypeOK
  <2> QED
    BY <1>2, <2>4, <2>5 DEF Reconcile, TypeOK
<1> QED
  BY <1>1, <1>2

LEMMA GarmCreatesType ==
    ASSUME TypeOK, NEW id \in PoolIDs, NEW s \in Specs, GarmCreates(id, s)
    PROVE  garm' \in [PoolIDs -> GarmPools]
BY DEF TypeOK, GarmCreates, GarmPools, RunnerPhases

LEMMA WorkerObject ==
    ASSUME TypeOK, NEW p \in Operators
    PROVE  /\ wk[p] \in Workers
           /\ wk[p].obj \in Objects
           /\ wk[p].obj.spec \in Specs
           /\ wk[p].obj.id \in PoolIDs \cup {NoID}
BY DEF TypeOK, Workers, Objects

LEMMA NormalTypes ==
    ASSUME TypeOK, NEW p \in Operators,
           ReconcileNormal(p) \/ GarmPoolExists(p)
    PROVE  TypeOK'
<1>1. CASE ReconcileNormal(p)
  <2>1. wk' \in [Operators -> Workers]
    BY <1>1, FailType, GotoType DEF ReconcileNormal, TypeOK, Points
  <2> QED
    BY <1>1, <2>1 DEF ReconcileNormal, TypeOK
<1>2. CASE GarmPoolExists(p)
  <2>1. wk' \in [Operators -> Workers]
    BY <1>2, GotoType DEF GarmPoolExists, TypeOK, Points
  <2>2. budget' \in [Kinds -> Nat]
    BY <1>2, SpendType DEF GarmPoolExists, TypeOK, Kinds
  <2> QED
    BY <1>2, <2>1, <2>2 DEF GarmPoolExists, TypeOK
<1> QED
  BY <1>1, <1>2

LEMMA CreateTypes ==
    ASSUME TypeOK, NEW p \in Operators, ReconcileCreate(p)
    PROVE  TypeOK'
<1>1. budget' \in [Kinds -> Nat]
  BY SpendType DEF ReconcileCreate, TypeOK, Kinds
<1>2. ASSUME CreateSucceeds(p)
      PROVE  /\ wk' \in [Operators -> Workers]
             /\ garm' \in [PoolIDs -> GarmPools]
  <2>1. PICK id \in PoolIDs :
            /\ GarmCreates(id, wk[p].obj.spec)
            /\ wk' = [wk EXCEPT ![p].pc = "finish",
                                ![p].obj = [wk[p].obj EXCEPT !.id = id,
                                                            !.ready = "true"]]
    BY <1>2 DEF CreateSucceeds
  <2> DEFINE o == [wk[p].obj EXCEPT !.id = id, !.ready = "true"]
             w == [wk[p] EXCEPT !.pc = "finish", !.obj = o]
  <2>2. o \in Objects
    BY WorkerObject DEF Objects, Readiness
  <2>3. w \in Workers
    BY <2>2, WorkerObject DEF Workers, Points
  <2>4. wk' = [wk EXCEPT ![p] = w]
    BY <2>1
  <2> QED
    BY <2>1, <2>3, <2>4, GarmCreatesType, WorkerObject DEF TypeOK
<1>3. ASSUME CreateReplyLost(p)
      PROVE  /\ wk' \in [Operators -> Workers]
             /\ garm' \in [PoolIDs -> GarmPools]
  BY <1>3, GarmCreatesType, FailType, WorkerObject
     DEF CreateReplyLost, TypeOK
<1>4. Fail(p) => wk' \in [Operators -> Workers]
  BY FailType DEF TypeOK
<1> QED
  BY <1>1, <1>2, <1>3, <1>4 DEF ReconcileCreate, TypeOK

LEMMA UpdatePoolTypes ==
    ASSUME TypeOK, NEW p \in Operators, NEW point \in Points,
           UpdatePool(p, point)
    PROVE  /\ wk' \in [Operators -> Workers]
           /\ garm' \in [PoolIDs -> GarmPools]
           /\ budget' \in [Kinds -> Nat]
<1>1. Fail(p) \/ Goto(p, point)
  BY DEF UpdatePool
<1>2. wk' \in [Operators -> Workers]
  BY <1>1, FailType, GotoType DEF TypeOK
<1>3. budget' \in [Kinds -> Nat]
  BY SpendType DEF UpdatePool, TypeOK, Kinds
<1>4. garm' \in [PoolIDs -> GarmPools]
  <2>1. CASE UNCHANGED garm
    BY <2>1 DEF TypeOK
  <2>2. CASE garm' = [garm EXCEPT ![wk[p].obj.id].spec = wk[p].obj.spec]
    BY <2>2, WorkerObject DEF TypeOK, GarmPools
  <2> QED
    BY <2>1, <2>2 DEF UpdatePool
<1> QED
  BY <1>2, <1>3, <1>4

LEMMA StopRunnerType ==
    ASSUME TypeOK, NEW id, StopRunner(id)
    PROVE  garm' \in [PoolIDs -> GarmPools]
BY DEF StopRunner, TypeOK, GarmPools, RunnerPhases

LEMMA UpdateTypes ==
    ASSUME TypeOK, NEW p \in Operators,
           ComparePoolSpecs(p) \/ PushSpec(p) \/ ScaleDown(p)
    PROVE  TypeOK'
<1>1. CASE ComparePoolSpecs(p)
  <2> DEFINE listed == garm[wk[p].obj.id].runner = "up"
             Compared(point) ==
                 wk' = [wk EXCEPT ![p].pc = point, ![p].listed = listed]
  <2>1. ASSUME NEW point \in Points, Compared(point)
        PROVE  wk' \in [Operators -> Workers]
    <3>1. [wk[p] EXCEPT !.pc = point, !.listed = listed] \in Workers
      BY WorkerObject DEF Workers
    <3> QED
      BY <2>1, <3>1 DEF TypeOK
  <2>2. Fail(p) => wk' \in [Operators -> Workers]
    BY FailType DEF TypeOK
  <2>3. Fail(p) \/ Compared("push") \/ Compared("scale")
    BY <1>1 DEF ComparePoolSpecs
  <2>4. wk' \in [Operators -> Workers]
    BY <2>1, <2>2, <2>3 DEF Points
  <2>5. budget' \in [Kinds -> Nat]
    BY <1>1, SpendType DEF ComparePoolSpecs, TypeOK, Kinds
  <2> QED
    BY <1>1, <2>4, <2>5 DEF ComparePoolSpecs, TypeOK
<1>2. CASE PushSpec(p)
  BY <1>2, UpdatePoolTypes DEF PushSpec, TypeOK, Points
<1>3. CASE ScaleDown(p)
  <2> DEFINE o == [wk[p].obj EXCEPT !.ready = "true"]
             w == [wk[p] EXCEPT !.pc = "finish", !.obj = o]
  <2>1. o \in Objects
    BY WorkerObject DEF Objects, Readiness
  <2>2. w \in Workers
    BY <2>1, WorkerObject DEF Workers, Points
  <2>3. wk' = [wk EXCEPT ![p] = w]
    BY <1>3 DEF ScaleDown
  <2>4. garm' \in [PoolIDs -> GarmPools]
    BY <1>3, StopRunnerType DEF ScaleDown, TypeOK
  <2> QED
    BY <1>3, <2>2, <2>3, <2>4 DEF ScaleDown, TypeOK
<1> QED
  BY <1>1, <1>2, <1>3

LEMMA RemoveFinalizerTypes ==
    ASSUME TypeOK, NEW p \in Operators, RemoveFinalizer(p)
    PROVE  /\ cr' \in Objects
           /\ cache' \in [Operators -> Copies]
           /\ wk' \in [Operators -> Workers]
           /\ budget' \in [Kinds -> Nat]
<1>1. [wk[p].obj EXCEPT !.fin = FALSE, !.present = FALSE] \in Objects
  BY WorkerObject DEF Objects
<1>2. [wk[p] EXCEPT !.pc = "finish", !.fresh = FALSE] \in Workers
  BY WorkerObject DEF Workers, Points
<1>3. budget' \in [Kinds -> Nat]
  BY SpendType DEF RemoveFinalizer, TypeOK, Kinds
<1>4. CASE Fail(p) /\ UNCHANGED <<cr, cache>>
  BY <1>3, <1>4, FailType DEF TypeOK
<1>5. CASE Commit(p, WithStatusOf([wk[p].obj EXCEPT !.fin = FALSE,
                                                    !.present = FALSE], cr),
                  [wk[p] EXCEPT !.pc = "finish", !.fresh = FALSE])
  BY <1>1, <1>2, <1>3, <1>5, WriteTypes, CommitType
<1> QED
  BY <1>4, <1>5 DEF RemoveFinalizer

LEMMA ReleaseTypes ==
    ASSUME TypeOK, NEW p \in Operators, ReleasePending(p) \/ Unbind(p)
    PROVE  TypeOK'
BY RemoveFinalizerTypes DEF ReleasePending, Unbind, TypeOK

LEMMA MarkDeletingTypes ==
    ASSUME TypeOK, NEW p \in Operators, MarkDeleting(p)
    PROVE  TypeOK'
<1> DEFINE o == [wk[p].obj EXCEPT !.ready = "deleting"]
           w == [wk[p] EXCEPT !.obj.ready = "deleting"]
<1>1. o \in Objects
  BY WorkerObject DEF Objects, Readiness
<1>2. /\ w \in Workers /\ w.obj = o
      /\ [w EXCEPT !.pc = "finish"] \in Workers
      /\ [w EXCEPT !.pc = IF w.obj.id = NoID THEN "release" ELSE "drain"]
             \in Workers
  BY <1>1, WorkerObject DEF Workers, Points
<1>3. budget' \in [Kinds -> Nat]
  BY SpendType DEF MarkDeleting, TypeOK, Kinds
<1>4. /\ cr' \in Objects
      /\ cache' \in [Operators -> Copies]
      /\ wk' \in [Operators -> Workers]
  <2>1. CASE /\ UNCHANGED <<cr, cache>>
             /\ wk' = [wk EXCEPT ![p] = [w EXCEPT !.pc = "finish"]]
    BY <1>2, <2>1 DEF TypeOK
  <2>2. CASE Commit(p, WithStatusOf(cr, w.obj),
                    [w EXCEPT !.pc = IF w.obj.id = NoID THEN "release"
                                     ELSE "drain"])
    BY <1>1, <1>2, <2>2, WriteTypes, CommitType
  <2> QED
    BY <2>1, <2>2 DEF MarkDeleting
<1> QED
  BY <1>3, <1>4 DEF MarkDeleting, TypeOK

LEMMA DrainSpecTypes ==
    ASSUME TypeOK, NEW p \in Operators, DrainSpec(p)
    PROVE  TypeOK'
<1> DEFINE s == Drained(wk[p].obj.spec)
           o == [wk[p].obj EXCEPT !.spec = s]
           w == [wk[p] EXCEPT !.pc = "quiesce", !.obj.spec = s]
<1>1. o \in Objects
  BY WorkerObject, ConstantTypes DEF Objects
<1>2. w \in Workers
  <2>1. w = [wk[p] EXCEPT !.pc = "quiesce", !.obj = o]
    BY WorkerObject DEF Workers
  <2> QED
    BY <1>1, <2>1, WorkerObject DEF Workers, Points
<1>3. budget' \in [Kinds -> Nat]
  BY SpendType DEF DrainSpec, TypeOK, Kinds
<1>4. /\ cr' \in Objects
      /\ cache' \in [Operators -> Copies]
      /\ wk' \in [Operators -> Workers]
  <2>1. CASE UNCHANGED <<cr, cache>> /\ Fail(p)
    BY <2>1, FailType DEF TypeOK
  <2>2. CASE Commit(p, WithStatusOf(o, cr), w)
    BY <1>1, <1>2, <2>2, WriteTypes, CommitType
  <2> QED
    BY <2>1, <2>2 DEF DrainSpec
<1> QED
  BY <1>3, <1>4 DEF DrainSpec, TypeOK

LEMMA EmptyPoolTypes ==
    ASSUME TypeOK, NEW p \in Operators,
           \/ Quiesce(p) \/ ListRunners(p)
           \/ SweepRunners(p) \/ RemoveGarmPool(p)
    PROVE  TypeOK'
<1>1. CASE Quiesce(p)
  BY <1>1, UpdatePoolTypes DEF Quiesce, TypeOK, Points
<1>2. CASE ListRunners(p)
  <2> DEFINE up == Live(wk[p].obj.id) /\ garm[wk[p].obj.id].runner = "up"
  <2>1. [wk[p] EXCEPT !.pc = "sweep", !.listed = up] \in Workers
    BY WorkerObject DEF Workers, Points, Live
  <2>2. wk' \in [Operators -> Workers]
    BY <1>2, <2>1, GotoType DEF ListRunners, TypeOK, Points
  <2>3. budget' \in [Kinds -> Nat]
    BY <1>2, SpendType DEF ListRunners, TypeOK, Kinds
  <2> QED
    BY <1>2, <2>2, <2>3 DEF ListRunners, TypeOK
<1>3. CASE SweepRunners(p)
  <2>1. wk' \in [Operators -> Workers]
    BY <1>3, GotoType DEF SweepRunners, TypeOK, Points
  <2>2. budget' \in [Kinds -> Nat] /\ garm' \in [PoolIDs -> GarmPools]
    BY <1>3, SpendType, StopRunnerType DEF SweepRunners, TypeOK, Kinds
  <2> QED
    BY <1>3, <2>1, <2>2 DEF SweepRunners, TypeOK
<1>4. CASE RemoveGarmPool(p)
  <2>1. wk' \in [Operators -> Workers]
    BY <1>4, GotoType, FailType DEF RemoveGarmPool, TypeOK, Points
  <2>2. budget' \in [Kinds -> Nat]
    BY <1>4, SpendType DEF RemoveGarmPool, TypeOK, Kinds
  <2>3. \/ UNCHANGED garm
        \/ garm' = [garm EXCEPT ![wk[p].obj.id].status = "deleted"]
    BY <1>4 DEF RemoveGarmPool
  <2>4. garm' \in [PoolIDs -> GarmPools]
    BY <2>3 DEF TypeOK, GarmPools
  <2> QED
    BY <1>4, <2>1, <2>2, <2>4 DEF RemoveGarmPool, TypeOK
<1> QED
  BY <1>1, <1>2, <1>3, <1>4

LEMMA UpdateStatusTypes ==
    ASSUME TypeOK, NEW p \in Operators, UpdateStatus(p)
    PROVE  TypeOK'
<1>1. budget' \in [Kinds -> Nat]
  BY SpendType DEF UpdateStatus, TypeOK, Kinds
<1>2. /\ cr' \in Objects
      /\ cache' \in [Operators -> Copies]
      /\ wk' \in [Operators -> Workers]
  <2>1. CASE UNCHANGED <<cr, cache>> /\ wk' = [wk EXCEPT ![p] = IdleWorker]
    BY <2>1, ConstantTypes DEF TypeOK
  <2>2. CASE Commit(p, WithStatusOf(cr, wk[p].obj), IdleWorker)
    BY <2>2, ConstantTypes, WorkerObject, WriteTypes, CommitType
  <2> QED
    BY <2>1, <2>2 DEF UpdateStatus
<1> QED
  BY <1>1, <1>2 DEF UpdateStatus, TypeOK

LEMMA WorkTypes ==
    ASSUME TypeOK, NEW p \in Operators, Work(p)
    PROVE  TypeOK'
BY ReconcileTypes, NormalTypes, CreateTypes, UpdateTypes, ReleaseTypes,
   MarkDeletingTypes, DrainSpecTypes, EmptyPoolTypes, UpdateStatusTypes
   DEF Work

LEMMA ProcessTypes ==
    ASSUME TypeOK, NEW p \in Operators, CacheSync(p) \/ Crash(p)
    PROVE  TypeOK'
<1>1. [obj |-> cr, fresh |-> cr.present] \in Copies
  BY DEF TypeOK, Copies, Objects
<1>2. CASE CacheSync(p)
  BY <1>1, <1>2 DEF CacheSync, TypeOK
<1>3. CASE Crash(p)
  BY <1>1, <1>3, ConstantTypes, SpendType DEF Crash, TypeOK, Kinds
<1> QED
  BY <1>2, <1>3

LEMMA UserTypes ==
    ASSUME TypeOK, User
    PROVE  TypeOK'
<1>1. CASE EditSpec
  <2>1. PICK s \in Specs : UserWrite([cr EXCEPT !.spec = s]) /\ userSpec' = s
    BY <1>1 DEF EditSpec
  <2>2. [cr EXCEPT !.spec = s] \in Objects
    BY DEF TypeOK, Objects
  <2>3. budget' \in [Kinds -> Nat]
    BY <1>1, SpendType DEF EditSpec, Kinds
  <2> QED
    BY <1>1, <2>1, <2>2, <2>3, UserWriteType DEF EditSpec, TypeOK
<1>2. CASE TogglePaused
  <2>1. [cr EXCEPT !.paused = ~@] \in Objects
    BY DEF TypeOK, Objects
  <2>2. budget' \in [Kinds -> Nat]
    BY <1>2, SpendType DEF TogglePaused, Kinds
  <2> QED
    BY <1>2, <2>1, <2>2, UserWriteType DEF TogglePaused, TypeOK
<1>3. CASE RequestDelete
  <2>1. [cr EXCEPT !.deleting = TRUE, !.present = cr.fin] \in Objects
    BY DEF TypeOK, Objects
  <2> QED
    BY <1>3, <2>1, UserWriteType DEF RequestDelete, TypeOK
<1> QED
  BY <1>1, <1>2, <1>3 DEF User

LEMMA EnvironmentTypes ==
    ASSUME TypeOK, Environment
    PROVE  TypeOK'
<1>1. ASSUME NEW id \in PoolIDs,
             \/ RunnerCreated(id) \/ RunnerUp(id)
             \/ RunnerRetires(id) \/ RunnerGone(id)
      PROVE  TypeOK'
  <2>1. PICK to \in RunnerPhases : garm' = [garm EXCEPT ![id].runner = to]
    BY <1>1 DEF RunnerCreated, RunnerUp, RunnerRetires, RunnerGone,
                RunnerPhase, RunnerPhases
  <2>2. garm' \in [PoolIDs -> GarmPools]
    BY <2>1 DEF TypeOK, GarmPools
  <2> QED
    BY <1>1, <2>2 DEF RunnerCreated, RunnerUp, RunnerRetires, RunnerGone,
                      RunnerPhase, TypeOK
<1>2. ASSUME NEW id \in PoolIDs, PoolDeletedExternally(id)
      PROVE  TypeOK'
  <2>1. garm' \in [PoolIDs -> GarmPools]
    BY <1>2 DEF PoolDeletedExternally, TypeOK, GarmPools
  <2>2. budget' \in [Kinds -> Nat]
    BY <1>2, SpendType DEF PoolDeletedExternally, Kinds
  <2> QED
    BY <1>2, <2>1, <2>2 DEF PoolDeletedExternally, TypeOK
<1>3. ASSUME NEW d \in Deps, DepAppears(d) \/ DepVanishes(d)
      PROVE  TypeOK'
  <2>1. budget' \in [Kinds -> Nat]
    BY <1>3, SpendType DEF DepAppears, DepVanishes, TypeOK, Kinds
  <2>2. deps' \subseteq Deps
    BY <1>3 DEF DepAppears, DepVanishes, TypeOK
  <2> QED
    BY <1>3, <2>1, <2>2 DEF DepAppears, DepVanishes, TypeOK
<1> QED
  BY <1>1, <1>2, <1>3 DEF Environment

LEMMA NextTypes == TypeOK /\ [Next]_vars => TypeOK'
<1> SUFFICES ASSUME TypeOK, [Next]_vars
             PROVE  TypeOK'
  OBVIOUS
<1>1. CASE \E p \in Operators : Process(p)
  BY <1>1, WorkTypes, ProcessTypes DEF Process
<1>2. CASE User
  BY <1>2, UserTypes
<1>3. CASE Environment
  BY <1>3, EnvironmentTypes
<1>4. CASE UNCHANGED vars
  BY <1>4 DEF vars, TypeOK
<1> QED
  BY <1>1, <1>2, <1>3, <1>4 DEF Next

LEMMA InitTypes == Init => TypeOK
<1> SUFFICES ASSUME Init
             PROVE  TypeOK
  OBVIOUS
<1>1. cr \in Objects /\ userSpec \in Specs
  BY ConstantTypes DEF Init, Objects
<1>2. cache \in [Operators -> Copies]
  BY <1>1 DEF Init, Copies
<1>3. garm \in [PoolIDs -> GarmPools]
  BY ConstantTypes DEF Init, GarmPools, RunnerPhases
<1> QED
  BY <1>1, <1>2, <1>3, ConstantTypes, ConstantsAssumption DEF Init, TypeOK

(***************************************************************************)
(* Every variable of the controller keeps its type, whatever the number of *)
(* processes, garm pools and disturbances.                                 *)
(***************************************************************************)
THEOREM TypeCorrectness == Spec => []TypeOK
BY InitTypes, NextTypes, PTL DEF Spec

=============================================================================
