------------------- MODULE PoolControllerBinding_proofs --------------------
(***************************************************************************)
(* BindingInvariant is inductive, and with it: an object with an id is     *)
(* released only after its garm pool is deleted, and no user edit is lost. *)
(* A single process, moreover, creates nothing for a released object and   *)
(* leaves the pool it empties disabled.                                    *)
(*                                                                         *)
(* A step of the controller is one of three shapes: a local step of one    *)
(* worker (with an effect on garm at most), a write to the API server by   *)
(* one worker, and a write by the user.  There is one lemma per shape, and *)
(* the lemmas on the actions only name the shape and the worker's next     *)
(* local state.                                                            *)
(***************************************************************************)
EXTENDS PoolController_proofs

\* garm never brings a deleted pool back nor takes an id back.
DeletedForGood ==
    \A id \in PoolIDs :
        /\ garm[id].status = "deleted" => garm'[id].status = "deleted"
        /\ garm[id].status # "none" => garm'[id].status # "none"

LEMMA LocalStep ==
    ASSUME BindingInvariant, TypeOK',
           NEW p \in Operators, NEW w,
           UNCHANGED <<cr, userSpec, cache>>,
           wk' = [wk EXCEPT ![p] = w],
           DeletedForGood,
           FreshWorker(w, cr),
           DeletingWorker(w, garm'),
           w.obj.id = wk[p].obj.id \/ Issued(w.obj, garm'),
           GuardedWorker(w)
    PROVE  BindingInvariant'
<1>1. FreshCopies'
  BY DEF BindingInvariant, FreshCopies, FreshWorker, TypeOK
<1>2. DeletionProgress'
  <2> SUFFICES ASSUME NEW q \in Operators
               PROVE  DeletingWorker(wk'[q], garm')
    BY DEF DeletionProgress
  <2>1. CASE q = p
    BY <2>1 DEF BindingInvariant, TypeOK
  <2>2. CASE q # p
    <3>1. wk'[q] = wk[q] /\ DeletingWorker(wk[q], garm)
      BY <2>2 DEF BindingInvariant, TypeOK, DeletionProgress
    <3>2. wk[q].obj.id \in PoolIDs \cup {NoID}
      BY WorkerObject DEF BindingInvariant
    <3> QED
      BY <3>1, <3>2 DEF DeletingWorker, DeletedForGood, DrainPoints
  <2> QED
    BY <2>1, <2>2
<1>3. ReleaseOnlyAfterGarmDelete'
  BY DEF BindingInvariant, ReleaseOnlyAfterGarmDelete, DeletedForGood,
         TypeOK, Objects
<1>4. NoLostUserEdit'
  BY DEF BindingInvariant, NoLostUserEdit
<1>5. IssuedIDs'
  <2>1. ASSUME NEW o, o.id \in PoolIDs \cup {NoID}, Issued(o, garm)
        PROVE  Issued(o, garm')
    BY <2>1 DEF Issued, DeletedForGood
  <2>2. Issued(cr', garm')
    BY <2>1 DEF BindingInvariant, IssuedIDs, TypeOK, Objects
  <2>3. ASSUME NEW q \in Operators
        PROVE  Issued(cache'[q].obj, garm') /\ Issued(wk'[q].obj, garm')
    <3>1. Issued(cache'[q].obj, garm')
      BY <2>1 DEF BindingInvariant, IssuedIDs, TypeOK, Copies, Objects
    <3>2. Issued(wk[q].obj, garm')
      BY <2>1, WorkerObject DEF BindingInvariant, IssuedIDs
    <3>3. wk'[q] = IF q = p THEN w ELSE wk[q]
      BY DEF BindingInvariant, TypeOK
    <3> QED
      BY <3>1, <3>2, <3>3 DEF Issued
  <2> QED
    BY <2>2, <2>3 DEF IssuedIDs
<1>6. FinalizerHeld'
  BY DEF BindingInvariant, FinalizerHeld, FinalizerGuardsID, TypeOK
<1> QED
  BY <1>1, <1>2, <1>3, <1>4, <1>5, <1>6 DEF BindingInvariant

LEMMA CommitStep ==
    ASSUME BindingInvariant, TypeOK',
           NEW p \in Operators, NEW w, NEW new,
           Commit(p, new, w),
           UNCHANGED <<userSpec, garm>>,
           FreshWorker(w, new),
           DeletingWorker(w, garm),
           w.obj.id \in {wk[p].obj.id, NoID},
           new.id \in {wk[p].obj.id, cr.id},
           GuardedWorker(w), Guarded(new),
           ~new.present /\ new.id # NoID => garm[new.id].status = "deleted",
           new.present => \/ new.spec = userSpec
                          \/ new.deleting /\ new.spec = Drained(userSpec)
    PROVE  BindingInvariant'
<1>1. FreshCopies'
  <2> SUFFICES ASSUME NEW q \in Operators
               PROVE  /\ cache'[q].fresh => cr'.present /\ cache'[q].obj = cr'
                      /\ FreshWorker(wk'[q], cr')
    BY DEF FreshCopies
  <2>1. cache'[q].fresh => cr'.present /\ cache'[q].obj = cr'
    BY DEF Commit, BindingInvariant, FreshCopies, TypeOK, Copies
  <2>2. CASE q = p
    BY <2>1, <2>2 DEF Commit
  <2>3. CASE q # p
    <3>1. wk'[q] = [wk[q] EXCEPT !.fresh = @ /\ new = cr] /\ wk[q] \in Workers
      BY <2>3 DEF Commit, BindingInvariant, TypeOK
    <3>2. FreshWorker(wk[q], cr)
      BY DEF BindingInvariant, FreshCopies
    <3>3. CASE new = cr
      <4>1. wk'[q] = wk[q]
        BY <3>1, <3>3 DEF Workers
      <4> QED
        BY <2>1, <3>2, <3>3, <4>1 DEF Commit
    <3>4. CASE new # cr
      <4>1. wk'[q].fresh = FALSE
        BY <3>1, <3>4 DEF Workers
      <4> QED
        BY <2>1, <4>1 DEF FreshWorker
    <3> QED
      BY <3>3, <3>4
  <2> QED
    BY <2>2, <2>3
<1>2. DeletionProgress'
  <2> SUFFICES ASSUME NEW q \in Operators
               PROVE  DeletingWorker(wk'[q], garm')
    BY DEF DeletionProgress
  <2>1. CASE q = p
    BY <2>1 DEF Commit
  <2>2. CASE q # p
    <3>1. /\ wk'[q] = [wk[q] EXCEPT !.fresh = @ /\ new = cr]
          /\ wk[q] \in Workers
          /\ DeletingWorker(wk[q], garm)
      BY <2>2 DEF Commit, BindingInvariant, TypeOK, DeletionProgress
    <3>2. /\ wk'[q].pc = wk[q].pc /\ wk'[q].obj = wk[q].obj
          /\ wk'[q].initID = wk[q].initID
      BY <3>1 DEF Workers
    <3> QED
      BY <3>1, <3>2 DEF DeletingWorker
  <2> QED
    BY <2>1, <2>2
<1>3. ReleaseOnlyAfterGarmDelete' /\ NoLostUserEdit'
  BY DEF Commit, ReleaseOnlyAfterGarmDelete, NoLostUserEdit
<1>4. IssuedIDs'
  <2>1. ASSUME NEW q \in Operators
        PROVE  /\ cache'[q].obj = cache[q].obj
               /\ wk'[q].obj = IF q = p THEN w.obj ELSE wk[q].obj
    BY DEF Commit, BindingInvariant, TypeOK, Copies, Workers
  <2>2. Issued(cr', garm')
    BY DEF Commit, BindingInvariant, IssuedIDs, Issued
  <2>3. ASSUME NEW q \in Operators
        PROVE  Issued(cache'[q].obj, garm') /\ Issued(wk'[q].obj, garm')
    <3>1. Issued(cache[q].obj, garm) /\ Issued(wk[q].obj, garm)
      BY DEF BindingInvariant, IssuedIDs
    <3>2. Issued(w.obj, garm)
      BY DEF BindingInvariant, IssuedIDs, Issued
    <3> QED
      BY <2>1, <3>1, <3>2
  <2> QED
    BY <2>2, <2>3 DEF IssuedIDs
<1>5. FinalizerHeld'
  <2>1. ASSUME NEW q \in Operators
        PROVE  Guarded(cache'[q].obj) /\ GuardedWorker(wk'[q])
    <3>1. Guarded(cache[q].obj) /\ GuardedWorker(wk[q])
      BY DEF BindingInvariant, FinalizerHeld
    <3>2. cache'[q].obj = cache[q].obj
      BY DEF Commit, BindingInvariant, TypeOK, Copies
    <3>3. \/ wk'[q] = w
          \/ wk'[q].pc = wk[q].pc /\ wk'[q].obj = wk[q].obj
      BY DEF Commit, BindingInvariant, TypeOK, Workers
    <3> QED
      BY <3>1, <3>2, <3>3 DEF GuardedWorker
  <2> QED
    BY <2>1 DEF FinalizerHeld, FinalizerGuardsID, Commit
<1> QED
  BY <1>1, <1>2, <1>3, <1>4, <1>5 DEF BindingInvariant

LEMMA UserStep ==
    ASSUME BindingInvariant, TypeOK', NEW new,
           UserWrite(new),
           UNCHANGED garm,
           new.id = cr.id, Guarded(new),
           ~new.present /\ new.id # NoID => garm[new.id].status = "deleted",
           new.present => \/ new.spec = userSpec'
                          \/ new.deleting /\ new.spec = Drained(userSpec')
    PROVE  BindingInvariant'
<1>1. FreshCopies'
  BY DEF UserWrite, BindingInvariant, FreshCopies, FreshWorker, TypeOK,
         Copies, Workers
<1>2. DeletionProgress'
  <2> SUFFICES ASSUME NEW q \in Operators
               PROVE  DeletingWorker(wk'[q], garm')
    BY DEF DeletionProgress
  <2>1. /\ wk'[q] = [wk[q] EXCEPT !.fresh = FALSE]
        /\ wk[q] \in Workers
        /\ DeletingWorker(wk[q], garm)
    BY DEF UserWrite, BindingInvariant, TypeOK, DeletionProgress
  <2>2. /\ wk'[q].pc = wk[q].pc /\ wk'[q].obj = wk[q].obj
        /\ wk'[q].initID = wk[q].initID
    BY <2>1 DEF Workers
  <2> QED
    BY <2>1, <2>2 DEF DeletingWorker
<1>3. ReleaseOnlyAfterGarmDelete' /\ NoLostUserEdit'
  BY DEF UserWrite, ReleaseOnlyAfterGarmDelete, NoLostUserEdit
<1>4. IssuedIDs'
  <2>1. ASSUME NEW q \in Operators
        PROVE  cache'[q].obj = cache[q].obj /\ wk'[q].obj = wk[q].obj
    BY DEF UserWrite, BindingInvariant, TypeOK, Copies, Workers
  <2> QED
    BY <2>1 DEF UserWrite, BindingInvariant, IssuedIDs, Issued
<1>5. FinalizerHeld'
  <2>1. ASSUME NEW q \in Operators
        PROVE  /\ cache'[q].obj = cache[q].obj
               /\ wk'[q].obj = wk[q].obj /\ wk'[q].pc = wk[q].pc
    BY DEF UserWrite, BindingInvariant, TypeOK, Copies, Workers
  <2> QED
    BY <2>1 DEF UserWrite, BindingInvariant, FinalizerHeld,
                FinalizerGuardsID, GuardedWorker
<1> QED
  BY <1>1, <1>2, <1>3, <1>4, <1>5 DEF BindingInvariant

-----------------------------------------------------------------------------
(***************************************************************************)
(* The two local steps most actions end in.                                *)
(***************************************************************************)

LEMMA FailStep ==
    ASSUME BindingInvariant, TypeOK', NEW p \in Operators,
           wk[p].pc # "idle", Fail(p),
           UNCHANGED <<cr, userSpec, cache>>, DeletedForGood
    PROVE  BindingInvariant'
<1> DEFINE o == [wk[p].obj EXCEPT !.ready = "error"]
           w == [wk[p] EXCEPT !.pc = "finish", !.obj = o]
<1>1. wk' = [wk EXCEPT ![p] = w]
  BY DEF Fail
<1>2. wk[p] \in Workers /\ wk[p].obj \in Objects /\ cr \in Objects
  BY WorkerObject DEF BindingInvariant, TypeOK
<1>3. WithStatusOf(o, cr) = WithStatusOf(wk[p].obj, cr)
  BY <1>2 DEF WithStatusOf, Objects
<1>4. FreshWorker(w, cr)
  BY <1>2, <1>3 DEF BindingInvariant, FreshCopies, FreshWorker, Workers
<1>5. DeletingWorker(w, garm')
  BY <1>2 DEF DeletingWorker, DrainPoints, Workers
<1>6. w.obj.id = wk[p].obj.id /\ GuardedWorker(w)
  BY <1>2 DEF Workers, Objects, BindingInvariant, FinalizerHeld,
              GuardedWorker
<1> HIDE DEF w
<1> QED
  BY <1>1, <1>4, <1>5, <1>6, LocalStep

LEMMA GotoStep ==
    ASSUME BindingInvariant, TypeOK', NEW p \in Operators, NEW point,
           wk[p].pc # "idle", point # "idle", Goto(p, point),
           UNCHANGED <<cr, userSpec, cache>>, DeletedForGood,
           DeletingWorker([wk[p] EXCEPT !.pc = point], garm')
    PROVE  BindingInvariant'
<1> DEFINE w == [wk[p] EXCEPT !.pc = point]
<1>1. wk' = [wk EXCEPT ![p] = w]
  BY DEF Goto
<1>2. wk[p] \in Workers
  BY DEF BindingInvariant, TypeOK
<1>3. FreshWorker(w, cr)
  BY <1>2 DEF BindingInvariant, FreshCopies, FreshWorker, Workers
<1>4. w.obj.id = wk[p].obj.id /\ GuardedWorker(w)
  BY <1>2 DEF Workers, BindingInvariant, FinalizerHeld, GuardedWorker
<1> HIDE DEF w
<1> QED
  BY <1>1, <1>3, <1>4, LocalStep DEF w

\* Outside reconcileDelete, DeletingWorker says nothing.
LEMMA NotDeleting ==
    ASSUME NEW w \in Workers, NEW pools,
           NEW point \in {"normal", "probe", "create", "update", "push",
                          "scale", "finish"}
    PROVE  DeletingWorker([w EXCEPT !.pc = point], pools)
BY DEF DeletingWorker, DrainPoints, Workers

LEMMA NormalStep ==
    ASSUME BindingInvariant, TypeOK', NEW p \in Operators,
           ReconcileNormal(p) \/ GarmPoolExists(p)
    PROVE  BindingInvariant'
<1>1. /\ UNCHANGED <<cr, userSpec, cache, garm>>
      /\ wk[p].pc # "idle"
      /\ wk[p] \in Workers
  BY DEF ReconcileNormal, GarmPoolExists, BindingInvariant, TypeOK
<1>2. DeletedForGood
  BY <1>1 DEF DeletedForGood
<1>3. \/ Fail(p)
      \/ \E point \in {"create", "probe", "update"} : Goto(p, point)
  BY DEF ReconcileNormal, GarmPoolExists
<1>4. CASE Fail(p)
  BY <1>1, <1>2, <1>4, FailStep
<1>5. CASE \E point \in {"create", "probe", "update"} : Goto(p, point)
  BY <1>1, <1>2, <1>5, GotoStep, NotDeleting
<1> QED
  BY <1>3, <1>4, <1>5

LEMMA CreateStep ==
    ASSUME BindingInvariant, TypeOK', NEW p \in Operators,
           ReconcileCreate(p)
    PROVE  BindingInvariant'
<1>1. /\ UNCHANGED <<cr, userSpec, cache>>
      /\ wk[p].pc = "create"
      /\ wk[p] \in Workers /\ wk[p].obj \in Objects /\ cr \in Objects
  BY WorkerObject DEF ReconcileCreate, BindingInvariant, TypeOK
<1>2. DeletedForGood
  <2>1. CASE UNCHANGED garm
    BY <2>1 DEF DeletedForGood
  <2>2. CASE \E id \in PoolIDs : /\ NextID(id)
                                 /\ GarmCreates(id, wk[p].obj.spec)
    BY <2>2 DEF DeletedForGood, NextID, GarmCreates, BindingInvariant, TypeOK
  <2> QED
    BY <2>1, <2>2 DEF ReconcileCreate, CreateSucceeds, CreateReplyLost
<1>3. CASE Fail(p)
  BY <1>1, <1>2, <1>3, FailStep
<1>4. CASE CreateSucceeds(p)
  <2>1. PICK id \in PoolIDs :
            /\ GarmCreates(id, wk[p].obj.spec)
            /\ wk' = [wk EXCEPT ![p].pc = "finish",
                                ![p].obj = [wk[p].obj EXCEPT !.id = id,
                                                            !.ready = "true"]]
    BY <1>4 DEF CreateSucceeds
  <2> DEFINE o == [wk[p].obj EXCEPT !.id = id, !.ready = "true"]
             w == [wk[p] EXCEPT !.pc = "finish", !.obj = o]
  <2>2. wk' = [wk EXCEPT ![p] = w]
    BY <2>1
  <2>3. WithStatusOf(o, cr) = WithStatusOf(wk[p].obj, cr)
    BY <1>1 DEF WithStatusOf, Objects
  <2>4. FreshWorker(w, cr)
    BY <1>1, <2>3 DEF BindingInvariant, FreshCopies, FreshWorker, Workers
  <2>5. DeletingWorker(w, garm')
    BY <1>1 DEF DeletingWorker, DrainPoints, Workers
  <2>6. Issued(w.obj, garm')
    <3>1. w.obj.id = id
      BY <1>1 DEF Workers, Objects
    <3> QED
      BY <2>1, <3>1 DEF Issued, GarmCreates, BindingInvariant, TypeOK
  <2>7. GuardedWorker(w)
    BY <1>1 DEF Workers, Objects, BindingInvariant, FinalizerHeld,
                GuardedWorker
  <2> HIDE DEF w
  <2> QED
    BY <1>1, <1>2, <2>2, <2>4, <2>5, <2>6, <2>7, LocalStep
<1> QED
  BY <1>3, <1>4 DEF ReconcileCreate, CreateReplyLost

LEMMA UpdatePoolStep ==
    ASSUME BindingInvariant, TypeOK', NEW p \in Operators,
           NEW point \in {"scale", "list"},
           wk[p].pc = IF point = "scale" THEN "push" ELSE "quiesce",
           UpdatePool(p, point), UNCHANGED <<cr, userSpec, cache>>
    PROVE  BindingInvariant'
<1>1. wk[p] \in Workers /\ wk[p].obj.id \in PoolIDs \cup {NoID}
  BY WorkerObject DEF BindingInvariant
<1>2. DeletedForGood
  <2>1. CASE UNCHANGED garm
    BY <2>1 DEF DeletedForGood
  <2>2. CASE garm' = [garm EXCEPT ![wk[p].obj.id].spec = wk[p].obj.spec]
    BY <2>2 DEF DeletedForGood, BindingInvariant, TypeOK, GarmPools
  <2> QED
    BY <2>1, <2>2 DEF UpdatePool
<1>3. CASE Fail(p)
  BY <1>2, <1>3, FailStep
<1>4. CASE Goto(p, point)
  <2>1. DeletingWorker([wk[p] EXCEPT !.pc = point], garm')
    BY <1>1 DEF BindingInvariant, DeletionProgress, DeletingWorker,
                DrainPoints, Workers
  <2> QED
    BY <1>2, <1>4, <2>1, GotoStep
<1> QED
  BY <1>3, <1>4 DEF UpdatePool

LEMMA UpdateStep ==
    ASSUME BindingInvariant, TypeOK', NEW p \in Operators,
           ComparePoolSpecs(p) \/ PushSpec(p) \/ ScaleDown(p)
    PROVE  BindingInvariant'
<1>0. wk[p] \in Workers /\ wk[p].obj \in Objects /\ cr \in Objects
  BY WorkerObject DEF BindingInvariant, TypeOK
<1>1. CASE ComparePoolSpecs(p)
  <2>1. /\ UNCHANGED <<cr, userSpec, cache, garm>>
        /\ wk[p].pc = "update"
    BY <1>1 DEF ComparePoolSpecs
  <2>2. DeletedForGood
    BY <2>1 DEF DeletedForGood
  <2>3. CASE Fail(p)
    BY <2>1, <2>2, <2>3, FailStep
  <2>4. ASSUME NEW point \in {"push", "scale"}, NEW listed,
               wk' = [wk EXCEPT ![p].pc = point, ![p].listed = listed]
        PROVE  BindingInvariant'
    <3> DEFINE w == [wk[p] EXCEPT !.pc = point, !.listed = listed]
    <3>1. wk' = [wk EXCEPT ![p] = w]
      BY <2>4
    <3>2. FreshWorker(w, cr)
      BY <1>0 DEF BindingInvariant, FreshCopies, FreshWorker, Workers
    <3>3. DeletingWorker(w, garm')
      BY <1>0 DEF DeletingWorker, DrainPoints, Workers
    <3>4. w.obj.id = wk[p].obj.id /\ GuardedWorker(w)
      BY <1>0, <2>1 DEF Workers, BindingInvariant, FinalizerHeld,
                        GuardedWorker
    <3> HIDE DEF w
    <3> QED
      BY <2>1, <2>2, <3>1, <3>2, <3>3, <3>4, LocalStep
  <2> QED
    BY <1>1, <2>3, <2>4 DEF ComparePoolSpecs
<1>2. CASE PushSpec(p)
  BY <1>2, UpdatePoolStep DEF PushSpec
<1>3. CASE ScaleDown(p)
  <2> DEFINE o == [wk[p].obj EXCEPT !.ready = "true"]
             w == [wk[p] EXCEPT !.pc = "finish", !.obj = o]
  <2>1. wk' = [wk EXCEPT ![p] = w] /\ wk[p].pc = "scale"
    BY <1>3 DEF ScaleDown
  <2>2. WithStatusOf(o, cr) = WithStatusOf(wk[p].obj, cr)
    BY <1>0 DEF WithStatusOf, Objects
  <2>3. FreshWorker(w, cr)
    BY <1>0, <2>2 DEF BindingInvariant, FreshCopies, FreshWorker, Workers
  <2>4. DeletingWorker(w, garm')
    BY <1>0 DEF DeletingWorker, DrainPoints, Workers
  <2>5. DeletedForGood
    BY <1>3 DEF ScaleDown, StopRunner, DeletedForGood, BindingInvariant,
                TypeOK, GarmPools
  <2>6. UNCHANGED <<cr, userSpec, cache>>
    BY <1>3 DEF ScaleDown
  <2>7. w.obj.id = wk[p].obj.id /\ GuardedWorker(w)
    BY <1>0, <2>1 DEF Workers, Objects, BindingInvariant, FinalizerHeld,
                      GuardedWorker
  <2> HIDE DEF w
  <2> QED
    BY <2>1, <2>3, <2>4, <2>5, <2>6, <2>7, LocalStep
<1> QED
  BY <1>1, <1>2, <1>3

-----------------------------------------------------------------------------
(***************************************************************************)
(* reconcileDelete                                                         *)
(***************************************************************************)

\* What a fresh worker in reconcileDelete knows about the object.
LEMMA FreshDeleting ==
    ASSUME BindingInvariant, NEW p \in Operators, wk[p].fresh,
           wk[p].pc \in {"deleting", "release"} \cup DrainPoints
    PROVE  /\ cr.present /\ cr.deleting
           /\ cr.id = wk[p].obj.id
           /\ cr.spec = wk[p].obj.spec
           /\ wk[p].initID = cr.id
           /\ cr = [wk[p].obj EXCEPT !.id = cr.id, !.ready = cr.ready]
<1>1. /\ FreshWorker(wk[p], cr)
      /\ DeletingWorker(wk[p], garm)
      /\ wk[p].obj \in Objects
  BY WorkerObject DEF BindingInvariant, FreshCopies, DeletionProgress
<1>2. /\ cr.present
      /\ cr = [wk[p].obj EXCEPT !.id = cr.id, !.ready = cr.ready]
      /\ wk[p].initID = cr.id
  BY <1>1 DEF FreshWorker, WithStatusOf
<1>3. wk[p].obj.deleting /\ wk[p].obj.id = wk[p].initID
  BY <1>1 DEF DeletingWorker
<1>4. cr.deleting = wk[p].obj.deleting /\ cr.spec = wk[p].obj.spec
  BY <1>1, <1>2 DEF Objects
<1> QED
  BY <1>2, <1>3, <1>4

LEMMA MarkDeletingStep ==
    ASSUME BindingInvariant, TypeOK', NEW p \in Operators, MarkDeleting(p)
    PROVE  BindingInvariant'
<1> DEFINE o == [wk[p].obj EXCEPT !.ready = "deleting"]
           w(point) == [wk[p] EXCEPT !.obj = o, !.pc = point]
           next == IF wk[p].obj.id = NoID THEN "release" ELSE "drain"
           new == WithStatusOf(cr, o)
<1>0. /\ wk[p] \in Workers /\ wk[p].obj \in Objects /\ cr \in Objects
      /\ wk[p].pc = "deleting"
      /\ UNCHANGED <<userSpec, garm>>
  BY WorkerObject DEF BindingInvariant, TypeOK, MarkDeleting
<1>1. [wk[p] EXCEPT !.obj.ready = "deleting"] = [wk[p] EXCEPT !.obj = o]
  BY <1>0 DEF Workers
<1>2. /\ [[wk[p] EXCEPT !.obj = o] EXCEPT !.pc = "finish"] = w("finish")
      /\ [[wk[p] EXCEPT !.obj = o] EXCEPT !.pc = next] = w(next)
      /\ [wk[p] EXCEPT !.obj = o].obj = o
      /\ o.id = wk[p].obj.id
  BY <1>0 DEF Workers, Objects
<1>3. DeletingWorker(wk[p], garm) /\ wk[p].obj.present /\ wk[p].obj.fin
  BY <1>0 DEF BindingInvariant, DeletionProgress, FinalizerHeld,
              GuardedWorker
<1>4. CASE UNCHANGED <<cr, cache>> /\ wk' = [wk EXCEPT ![p] = w("finish")]
  <2>1. WithStatusOf(o, cr) = WithStatusOf(wk[p].obj, cr)
    BY <1>0 DEF WithStatusOf, Objects
  <2>2. FreshWorker(w("finish"), cr)
    BY <1>0, <2>1 DEF BindingInvariant, FreshCopies, FreshWorker, Workers
  <2>3. DeletingWorker(w("finish"), garm')
    BY <1>0 DEF DeletingWorker, DrainPoints, Workers
  <2>4. DeletedForGood
    BY <1>0 DEF DeletedForGood
  <2>5. w("finish").obj.id = wk[p].obj.id /\ GuardedWorker(w("finish"))
    BY <1>0, <1>2, <1>3 DEF Workers, Objects, GuardedWorker
  <2> HIDE DEF w
  <2> QED
    BY <1>0, <1>4, <2>2, <2>3, <2>4, <2>5, LocalStep
<1>5. CASE wk[p].fresh /\ Commit(p, new, w(next))
  <2>1. /\ cr.present /\ cr.id = wk[p].obj.id /\ wk[p].initID = cr.id
        /\ cr = [wk[p].obj EXCEPT !.id = cr.id, !.ready = cr.ready]
    BY <1>0, <1>5, FreshDeleting
  <2>2. /\ new.present /\ new.id = cr.id
        /\ new.spec = cr.spec /\ new.deleting = cr.deleting
    BY <1>0, <2>1 DEF WithStatusOf, Objects
  <2>3. WithStatusOf(o, new) = new
    BY <1>0, <2>1 DEF WithStatusOf, Objects
  <2>4. FreshWorker(w(next), new)
    BY <1>0, <2>1, <2>2, <2>3 DEF FreshWorker, Workers
  <2>5. DeletingWorker(w(next), garm)
    BY <1>0, <1>3 DEF DeletingWorker, DrainPoints, Workers, Objects
  <2>6. \/ new.spec = userSpec
        \/ new.deleting /\ new.spec = Drained(userSpec)
    BY <2>1, <2>2 DEF BindingInvariant, NoLostUserEdit
  <2>7. w(next).obj.id = wk[p].obj.id /\ GuardedWorker(w(next))
    BY <1>0, <1>2, <1>3 DEF Workers, Objects, GuardedWorker
  <2>8. Guarded(new)
    <3>1. cr.fin
      BY <1>0, <1>3, <2>1 DEF Objects
    <3> QED
      BY <1>0, <3>1 DEF Guarded, WithStatusOf, Objects
  <2> HIDE DEF w, new
  <2> QED
    BY <1>0, <1>5, <2>1, <2>2, <2>4, <2>5, <2>6, <2>7, <2>8, CommitStep
<1> QED
  BY <1>1, <1>2, <1>4, <1>5 DEF MarkDeleting

LEMMA RemoveFinalizerStep ==
    ASSUME BindingInvariant, TypeOK', NEW p \in Operators,
           wk[p].pc \in {"release", "unbind"},
           RemoveFinalizer(p), UNCHANGED <<userSpec, garm>>
    PROVE  BindingInvariant'
<1> DEFINE w == [wk[p] EXCEPT !.pc = "finish", !.fresh = FALSE]
           new == WithStatusOf([wk[p].obj EXCEPT !.fin = FALSE,
                                                 !.present = FALSE], cr)
<1>0. wk[p] \in Workers /\ wk[p].obj \in Objects /\ cr \in Objects
  BY WorkerObject DEF BindingInvariant, TypeOK
<1>1. CASE UNCHANGED <<cr, cache>> /\ Fail(p)
  <2>1. DeletedForGood
    BY DEF DeletedForGood
  <2> QED
    BY <1>1, <2>1, FailStep
<1>2. CASE wk[p].fresh /\ Commit(p, new, w)
  <2>1. cr.id = wk[p].obj.id
    BY <1>2, FreshDeleting DEF DrainPoints
  <2>2. ~new.present /\ new.id = cr.id
    BY <1>0 DEF WithStatusOf, Objects
  <2>3. new.id # NoID => garm[new.id].status = "deleted"
    BY <2>1, <2>2 DEF BindingInvariant, DeletionProgress, DeletingWorker
  <2>4. FreshWorker(w, new) /\ DeletingWorker(w, garm)
    BY <1>0 DEF FreshWorker, DeletingWorker, DrainPoints, Workers
  <2>5. w.obj.id = wk[p].obj.id /\ GuardedWorker(w)
    BY <1>0 DEF Workers, BindingInvariant, FinalizerHeld, GuardedWorker
  <2>6. Guarded(new)
    BY <2>2 DEF Guarded
  <2> HIDE DEF w, new
  <2> QED
    BY <1>2, <2>2, <2>3, <2>4, <2>5, <2>6, CommitStep
<1> QED
  BY <1>1, <1>2 DEF RemoveFinalizer

LEMMA DrainSpecStep ==
    ASSUME BindingInvariant, TypeOK', NEW p \in Operators, DrainSpec(p)
    PROVE  BindingInvariant'
<1> DEFINE s == Drained(wk[p].obj.spec)
           o == [wk[p].obj EXCEPT !.spec = s]
           w == [wk[p] EXCEPT !.pc = "quiesce", !.obj = o]
           new == WithStatusOf(o, cr)
<1>0. /\ wk[p] \in Workers /\ wk[p].obj \in Objects /\ cr \in Objects
      /\ userSpec \in Specs
      /\ wk[p].pc = "drain"
      /\ UNCHANGED <<userSpec, garm>>
  BY WorkerObject DEF BindingInvariant, TypeOK, DrainSpec
<1>1. [wk[p] EXCEPT !.pc = "quiesce", !.obj.spec = s] = w
  BY <1>0 DEF Workers
<1>2. DeletingWorker(wk[p], garm)
  BY DEF BindingInvariant, DeletionProgress
<1>3. CASE UNCHANGED <<cr, cache>> /\ Fail(p)
  <2>1. DeletedForGood
    BY <1>0 DEF DeletedForGood
  <2> QED
    BY <1>0, <1>3, <2>1, FailStep
<1>4. CASE wk[p].fresh /\ Commit(p, new, w)
  <2>1. /\ cr.present /\ cr.deleting
        /\ cr.id = wk[p].obj.id /\ cr.spec = wk[p].obj.spec
        /\ wk[p].initID = cr.id
        /\ cr = [wk[p].obj EXCEPT !.id = cr.id, !.ready = cr.ready]
    BY <1>0, <1>4, FreshDeleting DEF DrainPoints
  <2>2. /\ new.present /\ new.deleting /\ new.id = cr.id /\ new.spec = s
    <3>1. wk[p].obj.present /\ wk[p].obj.deleting
      BY <1>0, <2>1 DEF Objects
    <3> HIDE DEF s
    <3> QED
      BY <1>0, <3>1 DEF WithStatusOf, Objects
  <2>3. Drained(Drained(userSpec)) = Drained(userSpec)
    BY <1>0 DEF Drained, Specs
  <2>4. s = Drained(userSpec)
    <3>1. cr.spec = userSpec \/ cr.spec = Drained(userSpec)
      BY <2>1 DEF BindingInvariant, NoLostUserEdit
    <3> QED
      BY <2>1, <2>3, <3>1
  <2>5. FreshWorker(w, new)
    <3>1. WithStatusOf(o, new) = new
      <4> HIDE DEF s
      <4> QED
        BY <1>0 DEF WithStatusOf, Objects
    <3>2. w.pc = "quiesce" /\ w.obj = o /\ w.initID = wk[p].initID
      BY <1>0 DEF Workers
    <3> QED
      BY <2>1, <2>2, <3>1, <3>2 DEF FreshWorker
  <2>6. DeletingWorker(w, garm)
    <3>1. /\ w.pc = "quiesce" /\ w.obj = o /\ w.initID = wk[p].initID
          /\ o.id = wk[p].obj.id /\ o.deleting = wk[p].obj.deleting
      BY <1>0 DEF Workers, Objects
    <3> QED
      BY <1>0, <1>2, <3>1 DEF DeletingWorker, DrainPoints
  <2>7. w.obj.id = wk[p].obj.id /\ GuardedWorker(w) /\ Guarded(new)
    <3>1. wk[p].obj.present /\ wk[p].obj.fin
      BY <1>0 DEF BindingInvariant, FinalizerHeld, GuardedWorker
    <3>2. w.obj = o /\ o.id = wk[p].obj.id /\ o.present /\ o.fin
      BY <1>0, <3>1 DEF Workers, Objects
    <3>3. new.fin
      <4> HIDE DEF s
      <4> QED
        BY <1>0, <3>1 DEF WithStatusOf, Objects
    <3> QED
      BY <3>2, <3>3 DEF GuardedWorker, Guarded
  <2> HIDE DEF w, new, s
  <2> QED
    BY <1>0, <1>4, <2>1, <2>2, <2>4, <2>5, <2>6, <2>7, CommitStep
<1> QED
  BY <1>1, <1>3, <1>4 DEF DrainSpec

LEMMA EmptyPoolStep ==
    ASSUME BindingInvariant, TypeOK', NEW p \in Operators,
           \/ Quiesce(p) \/ ListRunners(p)
           \/ SweepRunners(p) \/ RemoveGarmPool(p)
    PROVE  BindingInvariant'
<1>0. /\ wk[p] \in Workers
      /\ wk[p].obj.id \in PoolIDs \cup {NoID}
      /\ DeletingWorker(wk[p], garm)
      /\ UNCHANGED <<cr, userSpec, cache>>
      /\ garm \in [PoolIDs -> GarmPools]
  BY WorkerObject DEF BindingInvariant, TypeOK, DeletionProgress, Quiesce,
                      ListRunners, SweepRunners, RemoveGarmPool
<1>1. CASE Quiesce(p)
  BY <1>0, <1>1, UpdatePoolStep DEF Quiesce
<1>2. CASE ListRunners(p)
  <2>1. wk[p].pc = "list" /\ UNCHANGED garm
    BY <1>2 DEF ListRunners
  <2>2. DeletedForGood
    BY <2>1 DEF DeletedForGood
  <2>3. CASE Goto(p, "finish")
    BY <1>0, <2>1, <2>2, <2>3, GotoStep, NotDeleting
  <2>4. ASSUME NEW listed,
               wk' = [wk EXCEPT ![p].pc = "sweep", ![p].listed = listed]
        PROVE  BindingInvariant'
    <3> DEFINE w == [wk[p] EXCEPT !.pc = "sweep", !.listed = listed]
    <3>1. wk' = [wk EXCEPT ![p] = w]
      BY <2>4
    <3>2. FreshWorker(w, cr)
      BY <1>0 DEF BindingInvariant, FreshCopies, FreshWorker, Workers
    <3>3. DeletingWorker(w, garm')
      BY <1>0, <2>1 DEF DeletingWorker, DrainPoints, Workers
    <3>4. w.obj.id = wk[p].obj.id /\ GuardedWorker(w)
      BY <1>0, <2>1 DEF Workers, BindingInvariant, FinalizerHeld,
                        GuardedWorker
    <3> HIDE DEF w
    <3> QED
      BY <1>0, <2>2, <3>1, <3>2, <3>3, <3>4, LocalStep
  <2> QED
    BY <1>2, <2>3, <2>4 DEF ListRunners
<1>3. CASE SweepRunners(p)
  <2>1. wk[p].pc = "sweep" /\ Goto(p, "remove")
    BY <1>3 DEF SweepRunners
  <2>2. DeletedForGood
    BY <1>0, <1>3 DEF SweepRunners, StopRunner, DeletedForGood, GarmPools
  <2>3. DeletingWorker([wk[p] EXCEPT !.pc = "remove"], garm')
    BY <1>0, <2>1 DEF DeletingWorker, DrainPoints, Workers
  <2> QED
    BY <1>0, <2>1, <2>2, <2>3, GotoStep
<1>4. CASE RemoveGarmPool(p)
  <2> DEFINE id == wk[p].obj.id
  <2>1. wk[p].pc = "remove" /\ id \in PoolIDs
    BY <1>0, <1>4 DEF RemoveGarmPool, DeletingWorker, DrainPoints
  <2>2. \/ UNCHANGED garm
        \/ garm' = [garm EXCEPT ![id].status = "deleted"]
    BY <1>4 DEF RemoveGarmPool
  <2>3. DeletedForGood
    BY <1>0, <2>2 DEF DeletedForGood, GarmPools
  <2>4. CASE Fail(p)
    BY <1>0, <2>1, <2>3, <2>4, FailStep
  <2>5. CASE Goto(p, "unbind") /\ garm'[id].status = "deleted"
    <3>1. DeletingWorker([wk[p] EXCEPT !.pc = "unbind"], garm')
      BY <1>0, <2>1, <2>5 DEF DeletingWorker, DrainPoints, Workers
    <3> QED
      BY <1>0, <2>1, <2>3, <2>5, <3>1, GotoStep
  <2>6. garm[id].status # "none"
    BY <2>1, ConstantsAssumption DEF BindingInvariant, IssuedIDs, Issued
  <2>7. Goto(p, "unbind") => garm'[id].status = "deleted"
    <3>1. CASE Fail(p)
      <4>1. wk'[p].pc = "finish"
        BY <1>0, <3>1 DEF Fail, BindingInvariant, TypeOK, Workers
      <4>2. Goto(p, "unbind") => wk'[p].pc = "unbind"
        BY <1>0 DEF Goto, BindingInvariant, TypeOK, Workers
      <4> QED
        BY <4>1, <4>2
    <3>2. CASE garm' = [garm EXCEPT ![id].status = "deleted"]
      BY <1>0, <2>1, <3>2 DEF GarmPools
    <3>3. CASE ~Live(id) /\ UNCHANGED garm
      BY <1>0, <2>1, <2>6, <3>3 DEF Live, GarmPools
    <3> QED
      BY <1>4, <3>1, <3>2, <3>3 DEF RemoveGarmPool
  <2>8. Fail(p) \/ Goto(p, "unbind")
    BY <1>4 DEF RemoveGarmPool
  <2> QED
    BY <2>4, <2>5, <2>7, <2>8
<1> QED
  BY <1>1, <1>2, <1>3, <1>4

-----------------------------------------------------------------------------
(***************************************************************************)
(* Start and end of a reconciliation, informer, crash                      *)
(***************************************************************************)

LEMMA EnsureFinalizerStep ==
    ASSUME BindingInvariant, TypeOK', NEW p \in Operators,
           EnsureFinalizer(p)
    PROVE  BindingInvariant'
<1> DEFINE new == WithStatusOf([cache[p].obj EXCEPT !.fin = TRUE], cr)
<1>1. /\ wk[p].pc = "idle" /\ wk[p] \in Workers
      /\ cache[p].obj = cr /\ cr \in Objects /\ cr.present
      /\ Commit(p, new, wk[p])
      /\ UNCHANGED <<userSpec, garm>>
  BY DEF EnsureFinalizer, MayStart, BindingInvariant, FreshCopies, TypeOK
<1>2. /\ new.present /\ new.id = cr.id /\ new.spec = cr.spec
      /\ new.deleting = cr.deleting
  BY <1>1 DEF WithStatusOf, Objects
<1>3. FreshWorker(wk[p], new)
  BY <1>1 DEF BindingInvariant, FreshCopies, FreshWorker
<1>4. DeletingWorker(wk[p], garm)
  BY DEF BindingInvariant, DeletionProgress
<1>5. \/ new.spec = userSpec
      \/ new.deleting /\ new.spec = Drained(userSpec)
  BY <1>1, <1>2 DEF BindingInvariant, NoLostUserEdit
<1>6. GuardedWorker(wk[p]) /\ Guarded(new)
  BY <1>1 DEF GuardedWorker, Guarded, WithStatusOf, Objects
<1> HIDE DEF new
<1> QED
  BY <1>1, <1>2, <1>3, <1>4, <1>5, <1>6, CommitStep

LEMMA ReconcileStep ==
    ASSUME BindingInvariant, TypeOK', NEW p \in Operators, Reconcile(p)
    PROVE  BindingInvariant'
<1> DEFINE c == cache[p].obj
           o == IF c.ready = "none" THEN [c EXCEPT !.ready = "unknown"]
                ELSE c
           w == [pc        |-> IF c.deleting THEN "deleting" ELSE "normal",
                 obj       |-> o,
                 fresh     |-> cache[p].fresh,
                 initID    |-> c.id,
                 initReady |-> c.ready,
                 listed    |-> FALSE]
<1>1. /\ wk' = [wk EXCEPT ![p] = w]
      /\ UNCHANGED <<cr, userSpec, cache, garm>>
  BY DEF Reconcile
<1>2. c \in Objects /\ cr \in Objects
  BY DEF BindingInvariant, TypeOK, Copies
<1>3. o.id = c.id /\ o.deleting = c.deleting
  BY <1>2 DEF Objects
<1>4. WithStatusOf(o, cr) = WithStatusOf(c, cr)
  BY <1>2 DEF WithStatusOf, Objects
<1>5. FreshWorker(w, cr)
  <2>1. cache[p].fresh => cr.present /\ c = cr
    BY DEF BindingInvariant, FreshCopies
  <2>2. WithStatusOf(cr, cr) = cr
    BY <1>2 DEF WithStatusOf, Objects
  <2> QED
    BY <1>4, <2>1, <2>2 DEF FreshWorker
<1>6. DeletingWorker(w, garm')
  BY <1>3 DEF DeletingWorker, DrainPoints
<1>7. Issued(w.obj, garm')
  BY <1>1, <1>3 DEF Issued, IssuedIDs, BindingInvariant
<1>8. DeletedForGood
  BY <1>1 DEF DeletedForGood
<1>9. GuardedWorker(w)
  <2>1. c.present /\ (c.deleting \/ c.fin)
    BY DEF Reconcile, MayStart
  <2>2. c.fin
    BY <2>1 DEF BindingInvariant, FinalizerHeld, Guarded
  <2> QED
    BY <1>2, <2>1, <2>2 DEF GuardedWorker, Objects
<1> HIDE DEF w
<1> QED
  BY <1>1, <1>5, <1>6, <1>7, <1>8, <1>9, LocalStep

LEMMA UpdateStatusStep ==
    ASSUME BindingInvariant, TypeOK', NEW p \in Operators, UpdateStatus(p)
    PROVE  BindingInvariant'
<1> DEFINE o == wk[p].obj
           new == WithStatusOf(cr, o)
<1>0. /\ wk[p] \in Workers /\ o \in Objects /\ cr \in Objects
      /\ UNCHANGED <<userSpec, garm>>
  BY WorkerObject DEF BindingInvariant, TypeOK, UpdateStatus
<1>1. /\ ~IdleWorker.fresh /\ IdleWorker.pc = "idle"
      /\ IdleWorker.obj.id = NoID
  BY DEF IdleWorker, NullObject
<1>2. /\ FreshWorker(IdleWorker, cr) /\ FreshWorker(IdleWorker, new)
      /\ DeletingWorker(IdleWorker, garm)
      /\ Issued(IdleWorker.obj, garm)
      /\ GuardedWorker(IdleWorker)
  BY <1>1 DEF FreshWorker, DeletingWorker, DrainPoints, Issued,
              GuardedWorker
<1>3. CASE UNCHANGED <<cr, cache>> /\ wk' = [wk EXCEPT ![p] = IdleWorker]
  <2>1. DeletedForGood
    BY <1>0 DEF DeletedForGood
  <2> QED
    BY <1>0, <1>2, <1>3, <2>1, LocalStep
<1>4. CASE wk[p].fresh /\ Commit(p, new, IdleWorker)
  <2>1. cr.present
    BY <1>4 DEF BindingInvariant, FreshCopies, FreshWorker
  <2>2. /\ new.present /\ new.id = o.id /\ new.spec = cr.spec
        /\ new.deleting = cr.deleting
    BY <1>0, <2>1 DEF WithStatusOf, Objects
  <2>3. \/ new.spec = userSpec
        \/ new.deleting /\ new.spec = Drained(userSpec)
    BY <2>1, <2>2 DEF BindingInvariant, NoLostUserEdit
  <2>4. Guarded(new)
    <3>1. cr = WithStatusOf(o, cr) /\ o.fin
      BY <1>4 DEF BindingInvariant, FreshCopies, FreshWorker, FinalizerHeld,
                  GuardedWorker
    <3>2. cr.fin
      BY <1>0, <3>1 DEF WithStatusOf, Objects
    <3> QED
      BY <1>0, <3>2 DEF Guarded, WithStatusOf, Objects
  <2> HIDE DEF new
  <2> QED
    BY <1>0, <1>1, <1>2, <1>4, <2>2, <2>3, <2>4, CommitStep
<1> QED
  BY <1>3, <1>4 DEF UpdateStatus

LEMMA ProcessStep ==
    ASSUME BindingInvariant, TypeOK', NEW p \in Operators,
           CacheSync(p) \/ Crash(p)
    PROVE  BindingInvariant'
<1>0. /\ UNCHANGED <<cr, userSpec, garm>>
      /\ cache' = [cache EXCEPT ![p] = [obj |-> cr, fresh |-> cr.present]]
      /\ wk' = wk \/ wk' = [wk EXCEPT ![p] = IdleWorker]
  BY DEF CacheSync, Crash
<1>1. /\ ~IdleWorker.fresh /\ IdleWorker.pc = "idle"
      /\ IdleWorker.obj.id = NoID
  BY DEF IdleWorker, NullObject
<1>2. ASSUME NEW q \in Operators
      PROVE  /\ wk'[q] = wk[q] \/ wk'[q] = IdleWorker
             /\ \/ cache'[q] = cache[q]
                \/ cache'[q] = [obj |-> cr, fresh |-> cr.present]
  BY <1>0 DEF BindingInvariant, TypeOK
<1>3. FreshCopies'
  BY <1>0, <1>1, <1>2 DEF BindingInvariant, FreshCopies, FreshWorker
<1>4. DeletionProgress'
  BY <1>0, <1>1, <1>2
     DEF BindingInvariant, DeletionProgress, DeletingWorker, DrainPoints
<1>5. IssuedIDs'
  BY <1>0, <1>1, <1>2 DEF BindingInvariant, IssuedIDs, Issued
<1>6. ReleaseOnlyAfterGarmDelete' /\ NoLostUserEdit'
  BY <1>0 DEF BindingInvariant, ReleaseOnlyAfterGarmDelete, NoLostUserEdit
<1>7. FinalizerHeld'
  BY <1>0, <1>1, <1>2
     DEF BindingInvariant, FinalizerHeld, FinalizerGuardsID, GuardedWorker
<1> QED
  BY <1>3, <1>4, <1>5, <1>6, <1>7 DEF BindingInvariant

LEMMA WorkStep ==
    ASSUME BindingInvariant, TypeOK', NEW p \in Operators, Work(p)
    PROVE  BindingInvariant'
<1>1. CASE ReleasePending(p) \/ Unbind(p)
  BY <1>1, RemoveFinalizerStep DEF ReleasePending, Unbind
<1> QED
  BY <1>1, EnsureFinalizerStep, ReconcileStep, NormalStep, CreateStep,
     UpdateStep, MarkDeletingStep, DrainSpecStep, EmptyPoolStep,
     UpdateStatusStep
     DEF Work

-----------------------------------------------------------------------------
(***************************************************************************)
(* The user, garm and the referenced objects                               *)
(***************************************************************************)

LEMMA UserActionStep ==
    ASSUME BindingInvariant, TypeOK', User
    PROVE  BindingInvariant'
<1>0. cr \in Objects /\ Guarded(cr)
  BY DEF BindingInvariant, TypeOK, FinalizerHeld, FinalizerGuardsID
<1>1. CASE EditSpec
  <2>1. PICK s \in Specs : UserWrite([cr EXCEPT !.spec = s]) /\ userSpec' = s
    BY <1>1 DEF EditSpec
  <2> DEFINE new == [cr EXCEPT !.spec = s]
  <2>2. cr.present /\ UNCHANGED garm
    BY <1>1 DEF EditSpec
  <2>3. new.present /\ new.id = cr.id /\ new.spec = userSpec'
    BY <1>0, <2>1, <2>2 DEF Objects
  <2>4. Guarded(new)
    BY <1>0 DEF Guarded, Objects
  <2> HIDE DEF new
  <2> QED
    BY <2>1, <2>2, <2>3, <2>4, UserStep DEF new
<1>2. CASE TogglePaused
  <2> DEFINE new == [cr EXCEPT !.paused = ~@]
  <2>1. /\ cr.present /\ UNCHANGED <<userSpec, garm>>
        /\ UserWrite(new)
    BY <1>2 DEF TogglePaused
  <2>2. /\ new.present /\ new.id = cr.id /\ new.spec = cr.spec
        /\ new.deleting = cr.deleting
    BY <1>0, <2>1 DEF Objects
  <2>3. \/ new.spec = userSpec
        \/ new.deleting /\ new.spec = Drained(userSpec)
    BY <2>1, <2>2 DEF BindingInvariant, NoLostUserEdit
  <2>4. Guarded(new)
    BY <1>0 DEF Guarded, Objects
  <2> HIDE DEF new
  <2> QED
    BY <2>1, <2>2, <2>3, <2>4, UserStep
<1>3. CASE RequestDelete
  <2> DEFINE new == [cr EXCEPT !.deleting = TRUE, !.present = cr.fin]
  <2>1. /\ cr.present /\ UNCHANGED <<userSpec, garm>>
        /\ UserWrite(new)
    BY <1>3 DEF RequestDelete
  <2>2. /\ new.present = cr.fin /\ new.id = cr.id /\ new.spec = cr.spec
        /\ new.deleting
    BY <1>0, <2>1 DEF Objects
  <2>3. \/ new.spec = userSpec
        \/ new.deleting /\ new.spec = Drained(userSpec)
    BY <2>1, <2>2 DEF BindingInvariant, NoLostUserEdit
  <2>4. Guarded(new)
    BY <1>0 DEF Guarded, Objects
  <2>5. ~new.present => new.id = NoID
    BY <1>0, <2>1, <2>2 DEF Guarded
  <2> HIDE DEF new
  <2> QED
    BY <2>1, <2>2, <2>3, <2>4, <2>5, UserStep
<1> QED
  BY <1>1, <1>2, <1>3 DEF User

LEMMA EnvironmentStep ==
    ASSUME BindingInvariant, TypeOK', Environment
    PROVE  BindingInvariant'
<1>0. UNCHANGED <<cr, userSpec, cache, wk>>
  BY DEF Environment, RunnerCreated, RunnerUp, RunnerRetires, RunnerGone,
         RunnerPhase, PoolDeletedExternally, DepAppears, DepVanishes
<1>1. \/ UNCHANGED garm
      \/ \E id \in PoolIDs, to \in RunnerPhases :
             garm' = [garm EXCEPT ![id].runner = to]
      \/ \E id \in PoolIDs : garm' = [garm EXCEPT ![id].status = "deleted"]
  BY DEF Environment, RunnerCreated, RunnerUp, RunnerRetires, RunnerGone,
         RunnerPhase, RunnerPhases, PoolDeletedExternally, DepAppears,
         DepVanishes
<1>2. DeletedForGood
  BY <1>1 DEF DeletedForGood, BindingInvariant, TypeOK, GarmPools
<1>3. FreshCopies' /\ FinalizerHeld' /\ NoLostUserEdit'
  BY <1>0 DEF BindingInvariant, FreshCopies, FinalizerHeld,
              FinalizerGuardsID, NoLostUserEdit
<1>4. ASSUME NEW q \in Operators
      PROVE  DeletingWorker(wk[q], garm')
  <2>1. DeletingWorker(wk[q], garm) /\ wk[q].obj.id \in PoolIDs \cup {NoID}
    BY WorkerObject DEF BindingInvariant, DeletionProgress
  <2> QED
    BY <1>2, <2>1 DEF DeletingWorker, DeletedForGood, DrainPoints
<1>5. ASSUME NEW o, o.id \in PoolIDs \cup {NoID}, Issued(o, garm)
      PROVE  Issued(o, garm')
  BY <1>2, <1>5 DEF Issued, DeletedForGood
<1>6. IssuedIDs'
  <2>1. Issued(cr, garm')
    BY <1>5 DEF BindingInvariant, IssuedIDs, TypeOK, Objects
  <2>2. ASSUME NEW q \in Operators
        PROVE  Issued(cache[q].obj, garm') /\ Issued(wk[q].obj, garm')
    <3>1. Issued(cache[q].obj, garm')
      BY <1>5 DEF BindingInvariant, IssuedIDs, TypeOK, Copies, Objects
    <3> QED
      BY <1>5, <3>1, WorkerObject DEF BindingInvariant, IssuedIDs
  <2> QED
    BY <1>0, <2>1, <2>2 DEF IssuedIDs
<1>7. DeletionProgress'
  BY <1>0, <1>4 DEF DeletionProgress
<1>8. ReleaseOnlyAfterGarmDelete'
  BY <1>0, <1>2 DEF BindingInvariant, ReleaseOnlyAfterGarmDelete,
                    DeletedForGood, TypeOK, Objects
<1> QED
  BY <1>3, <1>6, <1>7, <1>8 DEF BindingInvariant

LEMMA NextStep == BindingInvariant /\ [Next]_vars => BindingInvariant'
<1> SUFFICES ASSUME BindingInvariant, [Next]_vars
             PROVE  BindingInvariant'
  OBVIOUS
<1>0. TypeOK'
  BY NextTypes DEF BindingInvariant
<1>1. CASE \E p \in Operators : Process(p)
  BY <1>0, <1>1, WorkStep, ProcessStep DEF Process
<1>2. CASE User
  BY <1>0, <1>2, UserActionStep
<1>3. CASE Environment
  BY <1>0, <1>3, EnvironmentStep
<1>4. CASE UNCHANGED vars
  <2>1. UNCHANGED <<cr, userSpec, cache, wk, garm>>
    BY <1>4 DEF vars
  <2> QED
    BY <1>0, <2>1 DEF BindingInvariant, FreshCopies, DeletionProgress,
                      IssuedIDs, FinalizerHeld, FinalizerGuardsID,
                      ReleaseOnlyAfterGarmDelete, NoLostUserEdit
<1> QED
  BY <1>1, <1>2, <1>3, <1>4 DEF Next

LEMMA InitBinding == Init => BindingInvariant
<1> SUFFICES ASSUME Init
             PROVE  BindingInvariant
  OBVIOUS
<1>1. /\ cr.present /\ cr.id = NoID /\ ~cr.deleting
      /\ cr.spec = userSpec
  BY DEF Init, NullObject
<1>2. /\ ~IdleWorker.fresh /\ IdleWorker.pc = "idle"
      /\ IdleWorker.obj.id = NoID
  BY DEF IdleWorker, NullObject
<1>3. ASSUME NEW p \in Operators
      PROVE  wk[p] = IdleWorker /\ cache[p] = [obj |-> cr, fresh |-> TRUE]
  BY DEF Init
<1>4. FreshCopies
  <2> SUFFICES ASSUME NEW p \in Operators
               PROVE  /\ cache[p].fresh => cr.present /\ cache[p].obj = cr
                      /\ FreshWorker(wk[p], cr)
    BY DEF FreshCopies
  <2>1. cache[p].obj = cr
    BY <1>3
  <2>2. ~wk[p].fresh
    BY <1>2, <1>3
  <2> QED
    BY <1>1, <2>1, <2>2 DEF FreshWorker
<1>5. DeletionProgress
  BY <1>2, <1>3 DEF DeletionProgress, DeletingWorker, DrainPoints
<1>6. IssuedIDs /\ FinalizerHeld
  BY <1>1, <1>2, <1>3 DEF IssuedIDs, Issued, FinalizerHeld,
                          FinalizerGuardsID, Guarded, GuardedWorker
<1> QED
  BY <1>1, <1>4, <1>5, <1>6, InitTypes
     DEF BindingInvariant, ReleaseOnlyAfterGarmDelete, NoLostUserEdit

-----------------------------------------------------------------------------
(***************************************************************************)
(* Theorems                                                                *)
(***************************************************************************)

\* The inductive invariant holds in every reachable state.
THEOREM Binding == Spec => []BindingInvariant
BY InitBinding, NextStep, PTL DEF Spec

\* An object with an id loses its finalizer only after DeletePool has removed
\* its garm pool (reconcileDelete).
THEOREM ReleaseSafety == Spec => []ReleaseOnlyAfterGarmDelete
<1>1. BindingInvariant => ReleaseOnlyAfterGarmDelete
  BY DEF BindingInvariant
<1> QED
  BY <1>1, Binding, PTL

\* No whole-object Update of the controller overwrites what a user wrote in
\* the meantime (EnsureFinalizer, reconcileDelete).
THEOREM UserEditSafety == Spec => []NoLostUserEdit
<1>1. BindingInvariant => NoLostUserEdit
  BY DEF BindingInvariant
<1> QED
  BY <1>1, Binding, PTL

\* The finalizer is there before the id and stays until the release
\* (EnsureFinalizer, reconcileDelete).
THEOREM FinalizerSafety == Spec => []FinalizerGuardsID
<1>1. BindingInvariant => FinalizerGuardsID
  BY DEF BindingInvariant, FinalizerHeld
<1> QED
  BY <1>1, Binding, PTL

-----------------------------------------------------------------------------
(***************************************************************************)
(* A single process                                                        *)
(***************************************************************************)

\* No two processes run at the same time.
OneProcess == \A p, q \in Operators : p = q

NormalPoints == {"normal", "probe", "create", "update", "push", "scale"}

DeletingPoints == {"deleting", "release"} \cup DrainPoints

(***************************************************************************)
(* c is the object, k the cached one and w the worker of the process.  A   *)
(* worker in reconcileNormal, and a cache that would start one, keep the   *)
(* object present: only the process itself removes the finalizer, and by   *)
(* then it knows for good that the object is being deleted.                *)
(***************************************************************************)
Held(c, k, w) ==
    /\ c.fin => c.present
    /\ k.fin /\ ~k.deleting => c.present /\ c.fin
    /\ k.deleting => c.deleting
    /\ w.pc \in NormalPoints => c.present /\ c.fin
    /\ w.pc \in DeletingPoints => k.deleting

HeldWhileWorking == \A p \in Operators : Held(cr, cache[p].obj, wk[p])

\* What a step of a worker does to the points and flags Held is about.
Entered(p) ==
    /\ wk'[p].pc \in NormalPoints
         => \/ wk[p].pc \in NormalPoints
            \/ cache[p].obj.fin /\ ~cache[p].obj.deleting
    /\ wk'[p].pc \in DeletingPoints
         => wk[p].pc \in DeletingPoints \/ cache[p].obj.deleting

SameFlags(new) == /\ new.fin = cr.fin /\ new.present = cr.present
                  /\ new.deleting = cr.deleting

\* A write of p keeps p's cache, but not as fresh, and gives p its worker.
LEMMA CommitParts ==
    ASSUME TypeOK, NEW p \in Operators, NEW new, NEW w, Commit(p, new, w)
    PROVE  cr' = new /\ wk'[p] = w /\ cache'[p].obj = cache[p].obj
BY DEF Commit, TypeOK, Copies

\* A worker's fresh copy has the flags of the object.
LEMMA FreshFlags ==
    ASSUME BindingInvariant, NEW p \in Operators, wk[p].fresh
    PROVE  SameFlags(wk[p].obj)
<1>1. WithStatusOf(wk[p].obj, cr) = cr /\ wk[p].obj \in Objects
  BY WorkerObject DEF BindingInvariant, FreshCopies, FreshWorker
<1> QED
  BY <1>1 DEF WithStatusOf, Objects, SameFlags

\* RemoveFinalizer takes the finalizer, or fails and changes no flag.
LEMMA RemoveFinalizerFlags ==
    ASSUME BindingInvariant, NEW p \in Operators, RemoveFinalizer(p)
    PROVE  /\ cache'[p].obj = cache[p].obj /\ wk'[p].pc = "finish"
           /\ SameFlags(cr') \/ (~cr'.fin /\ cr'.deleting = cr.deleting)
<1>0. TypeOK /\ wk[p].obj \in Objects /\ cr \in Objects /\ wk[p] \in Workers
  BY WorkerObject DEF BindingInvariant, TypeOK
<1>1. CASE UNCHANGED <<cr, cache>> /\ Fail(p)
  BY <1>0, <1>1 DEF Fail, TypeOK, SameFlags
<1>2. ASSUME wk[p].fresh,
             Commit(p, WithStatusOf([wk[p].obj EXCEPT !.fin = FALSE,
                                                      !.present = FALSE], cr),
                    [wk[p] EXCEPT !.pc = "finish", !.fresh = FALSE])
      PROVE  /\ cache'[p].obj = cache[p].obj /\ wk'[p].pc = "finish"
             /\ ~cr'.fin /\ cr'.deleting = cr.deleting
  <2>1. wk[p].obj.deleting = cr.deleting
    BY <1>2, FreshFlags DEF SameFlags
  <2>2. /\ cr' = WithStatusOf([wk[p].obj EXCEPT !.fin = FALSE,
                                                !.present = FALSE], cr)
        /\ wk'[p] = [wk[p] EXCEPT !.pc = "finish", !.fresh = FALSE]
        /\ cache'[p].obj = cache[p].obj
    BY <1>0, <1>2, CommitParts
  <2>3. ~cr'.fin /\ cr'.deleting = wk[p].obj.deleting
    BY <1>0, <2>2 DEF WithStatusOf, Objects
  <2>4. wk'[p].pc = "finish"
    BY <1>0, <2>2 DEF Workers
  <2> QED
    BY <2>1, <2>2, <2>3, <2>4
<1> QED
  BY <1>1, <1>2 DEF RemoveFinalizer

\* What every step of a worker does to the object, its cached copy and its
\* program point.
Flagged(p) ==
    /\ cache'[p].obj = cache[p].obj
    /\ Entered(p)
    /\ cr'.deleting = cr.deleting
    /\ \/ SameFlags(cr')
       \/ cr'.fin /\ cr'.present
       \/ ~cr'.fin /\ wk[p].pc \in DeletingPoints /\ wk'[p].pc = "finish"

\* A step that writes no object and goes on within a branch.
LEMMA LocalFlags ==
    ASSUME NEW p \in Operators, UNCHANGED <<cr, cache>>,
           \/ wk'[p].pc \in {"idle", "finish"}
           \/ wk[p].pc \in NormalPoints /\ wk'[p].pc \in NormalPoints
           \/ wk[p].pc \in DeletingPoints /\ wk'[p].pc \in DeletingPoints
    PROVE  Flagged(p)
BY DEF Flagged, Entered, SameFlags, NormalPoints, DeletingPoints, DrainPoints

\* EnsureFinalizer and Reconcile.
LEMMA StartFlags ==
    ASSUME BindingInvariant, NEW p \in Operators,
           EnsureFinalizer(p) \/ Reconcile(p)
    PROVE  Flagged(p)
<1>0. TypeOK /\ wk[p] \in Workers
  BY WorkerObject DEF BindingInvariant
<1>1. CASE EnsureFinalizer(p)
  <2>1. cache[p].obj = cr /\ cr.present /\ cr \in Objects
    BY <1>0, <1>1 DEF EnsureFinalizer, BindingInvariant, FreshCopies, TypeOK
  <2>2. /\ cr' = WithStatusOf([cr EXCEPT !.fin = TRUE], cr)
        /\ wk'[p] = wk[p] /\ cache'[p].obj = cache[p].obj
    BY <1>0, <1>1, <2>1, CommitParts DEF EnsureFinalizer
  <2>3. cr'.fin /\ cr'.present /\ cr'.deleting = cr.deleting
    BY <2>1, <2>2 DEF WithStatusOf, Objects
  <2>4. wk[p].pc = "idle"
    BY <1>1 DEF EnsureFinalizer, MayStart
  <2> QED
    BY <2>2, <2>3, <2>4
       DEF Flagged, Entered, NormalPoints, DeletingPoints, DrainPoints
<1>2. CASE Reconcile(p)
  <2>1. UNCHANGED <<cr, cache>>
    BY <1>2 DEF Reconcile
  <2>2. /\ cache[p].obj.deleting \/ cache[p].obj.fin
        /\ wk'[p].pc = IF cache[p].obj.deleting THEN "deleting" ELSE "normal"
    BY <1>0, <1>2 DEF Reconcile, TypeOK
  <2> QED
    BY <2>1, <2>2 DEF Flagged, Entered, SameFlags, NormalPoints,
                      DeletingPoints, DrainPoints
<1> QED
  BY <1>1, <1>2

\* The steps of reconcileNormal lead to another one or to the end.
LEMMA NormalGoesOn ==
    ASSUME BindingInvariant, NEW p \in Operators,
           \/ ReconcileNormal(p) \/ GarmPoolExists(p) \/ ReconcileCreate(p)
           \/ ComparePoolSpecs(p) \/ PushSpec(p) \/ ScaleDown(p)
    PROVE  wk'[p].pc \in NormalPoints \cup {"finish"}
<1>0. wk[p] \in Workers /\ wk \in [Operators -> Workers]
  BY DEF BindingInvariant, TypeOK
<1>1. Fail(p) => wk'[p].pc = "finish"
  BY <1>0 DEF Fail, Workers
<1>2. ASSUME NEW point, Goto(p, point) PROVE wk'[p].pc = point
  BY <1>0, <1>2 DEF Goto, Workers
<1>3. CASE ReconcileNormal(p)
  BY <1>1, <1>2, <1>3 DEF ReconcileNormal, NormalPoints
<1>4. CASE GarmPoolExists(p)
  BY <1>2, <1>4 DEF GarmPoolExists, NormalPoints
<1>5. CASE ReconcileCreate(p)
  <2>1. CreateSucceeds(p) => wk'[p].pc = "finish"
    BY <1>0 DEF CreateSucceeds, Workers
  <2> QED
    BY <1>1, <1>5, <2>1 DEF ReconcileCreate, CreateReplyLost
<1>6. CASE ComparePoolSpecs(p)
  <2>1. ASSUME NEW point, NEW seen,
               wk' = [wk EXCEPT ![p].pc = point, ![p].listed = seen]
        PROVE  wk'[p].pc = point
    BY <1>0, <2>1 DEF Workers
  <2> QED
    BY <1>1, <1>6, <2>1 DEF ComparePoolSpecs, NormalPoints
<1>7. CASE PushSpec(p)
  BY <1>1, <1>2, <1>7 DEF PushSpec, UpdatePool, NormalPoints
<1>8. CASE ScaleDown(p)
  BY <1>0, <1>8 DEF ScaleDown, Workers
<1> QED
  BY <1>3, <1>4, <1>5, <1>6, <1>7, <1>8

\* reconcileNormal, reconcileCreate and reconcileUpdate.
LEMMA NormalFlags ==
    ASSUME BindingInvariant, NEW p \in Operators,
           \/ ReconcileNormal(p) \/ GarmPoolExists(p) \/ ReconcileCreate(p)
           \/ ComparePoolSpecs(p) \/ PushSpec(p) \/ ScaleDown(p)
    PROVE  Flagged(p)
<1>0. TypeOK /\ wk[p] \in Workers /\ wk \in [Operators -> Workers]
  BY WorkerObject DEF BindingInvariant, TypeOK
<1>1. UNCHANGED <<cr, cache>>
  BY DEF ReconcileNormal, GarmPoolExists, ReconcileCreate, ComparePoolSpecs,
         PushSpec, ScaleDown
<1>2. wk[p].pc \in NormalPoints
  BY DEF ReconcileNormal, GarmPoolExists, ReconcileCreate, ComparePoolSpecs,
         PushSpec, ScaleDown, NormalPoints
<1>3. wk'[p].pc \in NormalPoints \cup {"finish"}
  BY NormalGoesOn
<1> QED
  BY <1>1, <1>2, <1>3, LocalFlags

\* The steps of reconcileDelete that write no object.
LEMMA EmptyPoolFlags ==
    ASSUME BindingInvariant, NEW p \in Operators,
           \/ Quiesce(p) \/ ListRunners(p) \/ SweepRunners(p)
           \/ RemoveGarmPool(p)
    PROVE  Flagged(p)
<1>0. TypeOK /\ wk[p] \in Workers /\ wk \in [Operators -> Workers]
  BY WorkerObject DEF BindingInvariant, TypeOK
<1>1. UNCHANGED <<cr, cache>>
  BY DEF Quiesce, ListRunners, SweepRunners, RemoveGarmPool
<1>2. wk[p].pc \in DeletingPoints
  BY DEF Quiesce, ListRunners, SweepRunners, RemoveGarmPool, DeletingPoints,
         DrainPoints
<1>3. wk'[p].pc \in DeletingPoints \cup {"finish"}
  BY <1>0 DEF Quiesce, UpdatePool, ListRunners, SweepRunners,
     RemoveGarmPool, DeletingPoints, DrainPoints, Goto, Fail, Workers
<1> QED
  BY <1>1, <1>2, <1>3, LocalFlags

\* The steps of reconcileDelete that write the object, and the deferred
\* status update.
LEMMA WriteFlags ==
    ASSUME BindingInvariant, NEW p \in Operators,
           \/ MarkDeleting(p) \/ ReleasePending(p) \/ DrainSpec(p)
           \/ Unbind(p) \/ UpdateStatus(p)
    PROVE  Flagged(p)
<1>0. /\ TypeOK /\ wk[p] \in Workers /\ wk \in [Operators -> Workers]
      /\ wk[p].obj \in Objects /\ cr \in Objects
  BY WorkerObject DEF BindingInvariant, TypeOK
<1>1. CASE MarkDeleting(p)
  <2> DEFINE w == [wk[p] EXCEPT !.obj.ready = "deleting"]
             next == IF w.obj.id = NoID THEN "release" ELSE "drain"
  <2>1. wk[p].pc \in DeletingPoints
    BY <1>1 DEF MarkDeleting, DeletingPoints
  <2>2. CASE Commit(p, WithStatusOf(cr, w.obj), [w EXCEPT !.pc = next])
    <3>1. /\ cr' = WithStatusOf(cr, w.obj) /\ wk'[p] = [w EXCEPT !.pc = next]
          /\ cache'[p].obj = cache[p].obj
      BY <1>0, <2>2, CommitParts
    <3>2. SameFlags(cr')
      BY <1>0, <3>1 DEF WithStatusOf, Objects, SameFlags
    <3>3. wk'[p].pc \in DeletingPoints
      BY <1>0, <3>1 DEF Workers, DeletingPoints, DrainPoints
    <3> QED
      BY <2>1, <3>1, <3>2, <3>3
         DEF Flagged, Entered, SameFlags, NormalPoints, DeletingPoints,
             DrainPoints
  <2>3. CASE wk' = [wk EXCEPT ![p] = [w EXCEPT !.pc = "finish"]]
             /\ UNCHANGED <<cr, cache>>
    <3>1. wk'[p].pc = "finish"
      BY <1>0, <2>3 DEF Workers
    <3> QED
      BY <2>3, <3>1, LocalFlags
  <2> QED
    BY <1>1, <2>2, <2>3 DEF MarkDeleting
<1>2. CASE ReleasePending(p) \/ Unbind(p)
  <2>1. wk[p].pc \in DeletingPoints /\ RemoveFinalizer(p)
    BY <1>2 DEF ReleasePending, Unbind, DeletingPoints, DrainPoints
  <2> QED
    BY <2>1, RemoveFinalizerFlags
       DEF Flagged, Entered, SameFlags, NormalPoints, DeletingPoints,
           DrainPoints
<1>3. CASE DrainSpec(p)
  <2> DEFINE s == Drained(wk[p].obj.spec)
  <2>1. wk[p].pc \in DeletingPoints
    BY <1>3 DEF DrainSpec, DeletingPoints, DrainPoints
  <2>2. CASE /\ wk[p].fresh
             /\ Commit(p, WithStatusOf([wk[p].obj EXCEPT !.spec = s], cr),
                       [wk[p] EXCEPT !.pc = "quiesce", !.obj.spec = s])
    <3> HIDE DEF s
    <3>1. /\ cr' = WithStatusOf([wk[p].obj EXCEPT !.spec = s], cr)
          /\ wk'[p] = [wk[p] EXCEPT !.pc = "quiesce", !.obj.spec = s]
          /\ cache'[p].obj = cache[p].obj
      BY <1>0, <2>2, CommitParts
    <3>2. SameFlags(wk[p].obj)
      BY <2>2, FreshFlags
    <3>3. SameFlags(cr')
      BY <1>0, <3>1, <3>2 DEF WithStatusOf, Objects, SameFlags
    <3>4. wk'[p].pc = "quiesce"
      BY <1>0, <3>1 DEF Workers
    <3> QED
      BY <2>1, <3>1, <3>3, <3>4
         DEF Flagged, Entered, SameFlags, NormalPoints, DeletingPoints,
             DrainPoints
  <2>3. CASE Fail(p) /\ UNCHANGED <<cr, cache>>
    <3>1. wk'[p].pc = "finish"
      BY <1>0, <2>3 DEF Fail, Workers
    <3> QED
      BY <2>3, <3>1, LocalFlags
  <2> QED
    BY <1>3, <2>2, <2>3 DEF DrainSpec
<1>4. CASE UpdateStatus(p)
  <2>1. IdleWorker.pc = "idle"
    BY DEF IdleWorker
  <2>2. CASE Commit(p, WithStatusOf(cr, wk[p].obj), IdleWorker)
    <3>1. /\ cr' = WithStatusOf(cr, wk[p].obj) /\ wk'[p] = IdleWorker
          /\ cache'[p].obj = cache[p].obj
      BY <1>0, <2>2, CommitParts
    <3>2. SameFlags(cr')
      BY <1>0, <3>1 DEF WithStatusOf, Objects, SameFlags
    <3> QED
      BY <2>1, <3>1, <3>2
         DEF Flagged, Entered, SameFlags, NormalPoints, DeletingPoints,
             DrainPoints
  <2>3. CASE wk' = [wk EXCEPT ![p] = IdleWorker] /\ UNCHANGED <<cr, cache>>
    <3>1. wk'[p].pc = "idle"
      BY <1>0, <2>1, <2>3
    <3> QED
      BY <2>3, <3>1, LocalFlags
  <2> QED
    BY <1>4, <2>2, <2>3 DEF UpdateStatus
<1> QED
  BY <1>1, <1>2, <1>3, <1>4

\* Every step of a worker.
LEMMA WorkFlags ==
    ASSUME BindingInvariant, NEW p \in Operators, Work(p)
    PROVE  Flagged(p)
BY StartFlags, NormalFlags, EmptyPoolFlags, WriteFlags DEF Work

\* A step of the only process keeps Held.
LEMMA ProcessHolds ==
    ASSUME OneProcess, BindingInvariant, HeldWhileWorking,
           NEW p \in Operators, Process(p)
    PROVE  HeldWhileWorking'
<1>1. Operators = {p}
  BY DEF OneProcess
<1>2. Held(cr, cache[p].obj, wk[p]) /\ TypeOK
  BY DEF HeldWhileWorking, BindingInvariant
<1> SUFFICES Held(cr', cache'[p].obj, wk'[p])
  BY <1>1 DEF HeldWhileWorking
<1>3. CASE Work(p)
  <2>1. Flagged(p)
    BY <1>3, WorkFlags
  <2>2. wk[p].pc \in DeletingPoints => cache[p].obj.deleting
    BY <1>2 DEF Held
  <2>3. CASE SameFlags(cr') \/ (cr'.fin /\ cr'.present)
    BY <1>2, <2>1, <2>3 DEF Held, Flagged, Entered, SameFlags
  <2>4. CASE ~cr'.fin /\ wk[p].pc \in DeletingPoints /\ wk'[p].pc = "finish"
    BY <1>2, <2>1, <2>2, <2>4 DEF Held, Flagged, NormalPoints,
                                  DeletingPoints, DrainPoints
  <2> QED
    BY <2>1, <2>3, <2>4 DEF Flagged
<1>4. CASE CacheSync(p)
  <2>1. cache'[p].obj = cr /\ wk' = wk /\ cr' = cr
    BY <1>2, <1>4 DEF CacheSync, TypeOK
  <2> QED
    BY <1>2, <2>1 DEF Held
<1>5. CASE Crash(p)
  <2>1. cache'[p].obj = cr /\ wk'[p].pc = "idle" /\ cr' = cr
    BY <1>2, <1>5 DEF Crash, TypeOK, IdleWorker
  <2> QED
    BY <1>2, <2>1 DEF Held, NormalPoints, DeletingPoints, DrainPoints
<1> QED
  BY <1>3, <1>4, <1>5 DEF Process

\* Users do not remove finalizers, and everybody else leaves objects alone.
LEMMA OthersHold ==
    ASSUME TypeOK, HeldWhileWorking,
           User \/ Environment \/ UNCHANGED vars
    PROVE  HeldWhileWorking'
<1>1. CASE User
  <2>1. PICK new : /\ UserWrite(new) /\ new.fin = cr.fin
                   /\ new.deleting = cr.deleting \/ new.deleting = TRUE
                   /\ new.present = cr.present \/ new.present = cr.fin
    <3>1. CASE EditSpec
      <4>1. PICK s \in Specs : UserWrite([cr EXCEPT !.spec = s])
        BY <3>1 DEF EditSpec
      <4> DEFINE edited == [cr EXCEPT !.spec = s]
      <4>2. /\ edited.fin = cr.fin /\ edited.present = cr.present
            /\ edited.deleting = cr.deleting
        BY DEF TypeOK, Objects
      <4> HIDE DEF edited
      <4> QED
        BY <4>1, <4>2 DEF edited
    <3>2. CASE TogglePaused
      <4> DEFINE toggled == [cr EXCEPT !.paused = ~@]
      <4>1. UserWrite(toggled)
        BY <3>2 DEF TogglePaused
      <4>2. /\ toggled.fin = cr.fin /\ toggled.present = cr.present
            /\ toggled.deleting = cr.deleting
        BY DEF TypeOK, Objects
      <4> HIDE DEF toggled
      <4> QED
        BY <4>1, <4>2
    <3>3. CASE RequestDelete
      <4> DEFINE marked == [cr EXCEPT !.deleting = TRUE, !.present = cr.fin]
      <4>1. UserWrite(marked)
        BY <3>3 DEF RequestDelete
      <4>2. /\ marked.fin = cr.fin /\ marked.present = cr.fin
            /\ marked.deleting = TRUE
        BY DEF TypeOK, Objects
      <4> HIDE DEF marked
      <4> QED
        BY <4>1, <4>2
    <3> QED
      BY <1>1, <3>1, <3>2, <3>3 DEF User
  <2> SUFFICES ASSUME NEW p \in Operators
               PROVE  Held(cr', cache'[p].obj, wk'[p])
    BY DEF HeldWhileWorking
  <2>2. /\ cr' = new /\ cache'[p].obj = cache[p].obj
        /\ wk'[p].pc = wk[p].pc
    BY <2>1 DEF UserWrite, TypeOK, Copies, Workers
  <2>3. Held(cr, cache[p].obj, wk[p])
    BY DEF HeldWhileWorking
  <2> QED
    BY <2>1, <2>2, <2>3 DEF Held
<1>2. CASE Environment \/ UNCHANGED vars
  <2>1. UNCHANGED <<cr, cache, wk>>
    BY <1>2 DEF Environment, RunnerCreated, RunnerUp, RunnerRetires,
       RunnerGone, RunnerPhase, PoolDeletedExternally, DepAppears,
       DepVanishes, vars
  <2> QED
    BY <2>1 DEF HeldWhileWorking
<1> QED
  BY <1>1, <1>2

\* With one process, HeldWhileWorking is there from the start and stays.
LEMMA HeldInduction ==
    ASSUME OneProcess
    PROVE  /\ Init => HeldWhileWorking
           /\ BindingInvariant /\ HeldWhileWorking /\ [Next]_vars
              => HeldWhileWorking'
<1>1. ASSUME Init PROVE HeldWhileWorking
  <2>1. /\ cr.present /\ ~cr.fin /\ ~cr.deleting
        /\ IdleWorker.pc = "idle"
    BY <1>1 DEF Init, NullObject, IdleWorker
  <2>2. ASSUME NEW p \in Operators
        PROVE  cache[p].obj = cr /\ wk[p] = IdleWorker
    BY <1>1 DEF Init
  <2> QED
    BY <2>1, <2>2 DEF HeldWhileWorking, Held, NormalPoints, DeletingPoints,
                      DrainPoints
<1>2. ASSUME BindingInvariant, HeldWhileWorking, [Next]_vars
      PROVE  HeldWhileWorking'
  <2>1. CASE \E p \in Operators : Process(p)
    BY <1>2, <2>1, ProcessHolds
  <2>2. CASE User \/ Environment \/ UNCHANGED vars
    BY <1>2, <2>2, OthersHold DEF BindingInvariant
  <2> QED
    BY <1>2, <2>1, <2>2 DEF Next
<1> QED
  BY <1>1, <1>2

\* A garm pool comes into being only by reconcileCreate.
LEMMA CreatedByWorker ==
    ASSUME TypeOK, [Next]_vars, NEW id \in PoolIDs,
           garm[id].status = "none", garm'[id].status # "none"
    PROVE  \E p \in Operators : wk[p].pc = "create"
<1>0. garm \in [PoolIDs -> GarmPools]
  BY DEF TypeOK
<1>a. ASSUME NEW i, NEW s, garm' = [garm EXCEPT ![i].spec = s]
      PROVE  FALSE
  BY <1>0, <1>a DEF GarmPools
<1>b. ASSUME NEW i, NEW r, garm' = [garm EXCEPT ![i].runner = r]
      PROVE  FALSE
  BY <1>0, <1>b DEF GarmPools
<1>c. ASSUME NEW i, Live(i), garm' = [garm EXCEPT ![i].status = "deleted"]
      PROVE  FALSE
  BY <1>0, <1>c DEF GarmPools, Live
<1>d. garm' # garm
  OBVIOUS
<1>1. ASSUME NEW p \in Operators, Process(p) PROVE wk[p].pc = "create"
  <2>1. CASE ReconcileCreate(p)
    BY <2>1 DEF ReconcileCreate
  <2>2. ASSUME NEW next, UpdatePool(p, next) PROVE FALSE
    BY <1>a, <1>d, <2>2 DEF UpdatePool
  <2>3. ASSUME NEW i, StopRunner(i) PROVE FALSE
    BY <1>b, <2>3 DEF StopRunner
  <2>4. CASE RemoveGarmPool(p)
    BY <1>c, <1>d, <2>4 DEF RemoveGarmPool
  <2>5. CASE PushSpec(p) \/ Quiesce(p)
    BY <2>2, <2>5 DEF PushSpec, Quiesce
  <2>6. CASE ScaleDown(p) \/ SweepRunners(p)
    BY <1>d, <2>3, <2>6 DEF ScaleDown, SweepRunners
  <2>7. CASE \/ EnsureFinalizer(p) \/ Reconcile(p) \/ ReconcileNormal(p)
             \/ GarmPoolExists(p) \/ ComparePoolSpecs(p) \/ MarkDeleting(p)
             \/ ReleasePending(p) \/ DrainSpec(p) \/ ListRunners(p)
             \/ Unbind(p) \/ UpdateStatus(p) \/ CacheSync(p) \/ Crash(p)
    BY <1>d, <2>7 DEF EnsureFinalizer, Reconcile, ReconcileNormal,
       GarmPoolExists, ComparePoolSpecs, MarkDeleting, ReleasePending,
       DrainSpec, ListRunners, Unbind, UpdateStatus, CacheSync, Crash
  <2> QED
    BY <1>1, <2>1, <2>4, <2>5, <2>6, <2>7 DEF Process, Work
<1>2. CASE User
  BY <1>d, <1>2 DEF User, EditSpec, TogglePaused, RequestDelete
<1>3. CASE Environment
  BY <1>b, <1>c, <1>d, <1>3 DEF Environment, RunnerCreated, RunnerUp,
     RunnerRetires, RunnerGone, RunnerPhase, PoolDeletedExternally,
     DepAppears, DepVanishes
<1>4. CASE UNCHANGED vars
  BY <1>d, <1>4 DEF vars
<1> QED
  BY <1>1, <1>2, <1>3, <1>4 DEF Next

(***************************************************************************)
(* One process never creates a garm pool for an object that is gone,       *)
(* however outdated its cache is and whenever it crashes or users delete   *)
(* the object (reconcileCreate, EnsureFinalizer).                          *)
(***************************************************************************)
THEOREM CreationSafety ==
    ASSUME OneProcess
    PROVE  Spec => NoCreateAfterRelease
<1>1. ASSUME BindingInvariant, HeldWhileWorking, [Next]_vars
      PROVE  ~cr.present =>
                 \A id \in PoolIDs : garm[id].status = "none"
                                      => garm'[id].status = "none"
  BY <1>1, CreatedByWorker DEF BindingInvariant, HeldWhileWorking, Held,
                               NormalPoints
<1>2. BindingInvariant /\ HeldWhileWorking /\ [Next]_vars
      => [~cr.present =>
             \A id \in PoolIDs : garm[id].status = "none"
                                  => garm'[id].status = "none"]_vars
  BY <1>1
<1> QED
  BY <1>2, HeldInduction, Binding, PTL DEF Spec, NoCreateAfterRelease

(***************************************************************************)
(* What reconcileDelete sends to garm before it lists the runners is the   *)
(* drained spec, and garm keeps it.                                        *)
(***************************************************************************)
EmptiedBy(w, pools) ==
    /\ w.pc \in {"quiesce", "list", "sweep", "remove"}
         => w.obj.spec = Drained(w.obj.spec)
    /\ /\ w.pc \in {"list", "sweep", "remove"} /\ w.obj.id \in PoolIDs
       /\ pools[w.obj.id].status = "live"
       => pools[w.obj.id].spec = Drained(pools[w.obj.id].spec)

PoolsEmptied == \A p \in Operators : EmptiedBy(wk[p], garm)

\* The steps of the worker that matter for it.
LEMMA EmptyPoolEmpties ==
    ASSUME BindingInvariant, NEW p \in Operators, EmptiedBy(wk[p], garm),
           \/ DrainSpec(p) \/ Quiesce(p) \/ ListRunners(p)
           \/ SweepRunners(p) \/ RemoveGarmPool(p)
    PROVE  EmptiedBy(wk'[p], garm')
<1> DEFINE id == wk[p].obj.id
<1>0. /\ TypeOK /\ wk[p] \in Workers /\ wk \in [Operators -> Workers]
      /\ wk[p].obj \in Objects /\ wk[p].obj.spec \in Specs
      /\ garm \in [PoolIDs -> GarmPools]
  BY WorkerObject DEF BindingInvariant, TypeOK
<1>1. Fail(p) => wk'[p].pc = "finish"
  BY <1>0 DEF Fail, Workers
<1>2. ASSUME NEW point, Goto(p, point)
      PROVE  wk'[p].pc = point /\ wk'[p].obj = wk[p].obj
  BY <1>0, <1>2 DEF Goto, Workers
<1>a. ASSUME wk'[p].pc \in {"finish", "unbind"} PROVE EmptiedBy(wk'[p], garm')
  BY <1>a DEF EmptiedBy
<1>3. CASE DrainSpec(p)
  <2> DEFINE s == Drained(wk[p].obj.spec)
  <2>1. s = Drained(s)
    BY <1>0 DEF Drained, Specs
  <2>2. CASE Commit(p, WithStatusOf([wk[p].obj EXCEPT !.spec = s], cr),
                    [wk[p] EXCEPT !.pc = "quiesce", !.obj.spec = s])
    <3> HIDE DEF s
    <3>1. wk'[p] = [wk[p] EXCEPT !.pc = "quiesce", !.obj.spec = s]
      BY <1>0, <2>2, CommitParts
    <3>2. wk'[p].pc = "quiesce" /\ wk'[p].obj.spec = s
      BY <1>0, <3>1 DEF Workers, Objects
    <3> QED
      BY <2>1, <3>2 DEF EmptiedBy
  <2> QED
    BY <1>1, <1>3, <1>a, <2>2 DEF DrainSpec
<1>4. CASE Quiesce(p)
  <2>1. CASE /\ Live(id) /\ Goto(p, "list")
             /\ garm' = [garm EXCEPT ![id].spec = wk[p].obj.spec]
    <3>1. wk[p].obj.spec = Drained(wk[p].obj.spec)
      BY <1>4 DEF Quiesce, EmptiedBy
    <3>2. garm'[id].spec = wk[p].obj.spec
      BY <1>0, <2>1 DEF Live, GarmPools
    <3>3. wk'[p].pc = "list" /\ wk'[p].obj = wk[p].obj
      BY <1>2, <2>1
    <3> QED
      BY <3>1, <3>2, <3>3 DEF EmptiedBy
  <2> QED
    BY <1>1, <1>4, <1>a, <2>1 DEF Quiesce, UpdatePool
<1>5. CASE ListRunners(p)
  <2>1. ASSUME NEW seen,
               wk' = [wk EXCEPT ![p].pc = "sweep", ![p].listed = seen]
        PROVE  wk'[p].pc = "sweep" /\ wk'[p].obj = wk[p].obj
    BY <1>0, <2>1 DEF Workers
  <2>2. \/ wk'[p].pc = "sweep" /\ wk'[p].obj = wk[p].obj
        \/ wk'[p].pc = "finish"
    BY <1>2, <1>5, <2>1 DEF ListRunners
  <2>3. wk[p].pc = "list" /\ garm' = garm
    BY <1>5 DEF ListRunners
  <2> QED
    BY <1>a, <2>2, <2>3 DEF EmptiedBy
<1>6. CASE SweepRunners(p)
  <2>1. /\ wk[p].pc = "sweep" /\ wk'[p].pc = "remove"
        /\ wk'[p].obj = wk[p].obj
    BY <1>2, <1>6 DEF SweepRunners
  <2>2. \/ garm' = garm
        \/ garm' = [garm EXCEPT ![id].runner =
                                    IF @ = "up" THEN "stopping" ELSE @]
    BY <1>6 DEF SweepRunners, StopRunner
  <2>3. id \in PoolIDs => /\ garm'[id].status = garm[id].status
                          /\ garm'[id].spec = garm[id].spec
    BY <1>0, <2>2 DEF GarmPools
  <2> QED
    BY <2>1, <2>3 DEF EmptiedBy
<1>7. CASE RemoveGarmPool(p)
  BY <1>1, <1>2, <1>7, <1>a DEF RemoveGarmPool
<1> QED
  BY <1>3, <1>4, <1>5, <1>6, <1>7

\* Hence the steps of the only process.
LEMMA ProcessEmpties ==
    ASSUME OneProcess, BindingInvariant, PoolsEmptied,
           NEW p \in Operators, Process(p)
    PROVE  PoolsEmptied'
<1>1. Operators = {p}
  BY DEF OneProcess
<1>2. EmptiedBy(wk[p], garm) /\ TypeOK
  BY DEF PoolsEmptied, BindingInvariant
<1>3. wk[p] \in Workers /\ wk \in [Operators -> Workers]
  BY <1>2 DEF TypeOK
<1> SUFFICES EmptiedBy(wk'[p], garm')
  BY <1>1 DEF PoolsEmptied
<1>a. ASSUME wk'[p].pc \notin {"quiesce", "list", "sweep", "remove"}
      PROVE  EmptiedBy(wk'[p], garm')
  BY <1>a DEF EmptiedBy
<1>4. CASE \/ DrainSpec(p) \/ Quiesce(p) \/ ListRunners(p)
           \/ SweepRunners(p) \/ RemoveGarmPool(p)
  BY <1>2, <1>4, EmptyPoolEmpties
<1>5. CASE \/ ReconcileNormal(p) \/ GarmPoolExists(p) \/ ReconcileCreate(p)
           \/ ComparePoolSpecs(p) \/ PushSpec(p) \/ ScaleDown(p)
  BY <1>5, <1>a, NormalGoesOn DEF NormalPoints
<1>6. CASE EnsureFinalizer(p)
  <2>1. wk'[p] = wk[p]
    BY <1>2, <1>6, CommitParts DEF EnsureFinalizer
  <2>2. garm' = garm
    BY <1>6 DEF EnsureFinalizer
  <2> QED
    BY <1>2, <2>1, <2>2
<1>7. CASE Reconcile(p)
  <2>1. wk'[p].pc = IF cache[p].obj.deleting THEN "deleting" ELSE "normal"
    BY <1>3, <1>7 DEF Reconcile
  <2> QED
    BY <1>a, <2>1
<1>8. CASE MarkDeleting(p)
  <2> DEFINE w == [wk[p] EXCEPT !.obj.ready = "deleting"]
             next == IF w.obj.id = NoID THEN "release" ELSE "drain"
  <2>1. CASE Commit(p, WithStatusOf(cr, w.obj), [w EXCEPT !.pc = next])
    <3>1. wk'[p] = [w EXCEPT !.pc = next]
      BY <1>2, <2>1, CommitParts
    <3>2. wk'[p].pc \in {"release", "drain"}
      BY <1>3, <3>1 DEF Workers
    <3> QED
      BY <1>a, <3>2
  <2>2. CASE wk' = [wk EXCEPT ![p] = [w EXCEPT !.pc = "finish"]]
    <3>1. wk'[p].pc = "finish"
      BY <1>3, <2>2 DEF Workers
    <3> QED
      BY <1>a, <3>1
  <2> QED
    BY <1>8, <2>1, <2>2 DEF MarkDeleting
<1>9. CASE ReleasePending(p) \/ Unbind(p)
  <2>1. RemoveFinalizer(p)
    BY <1>9 DEF ReleasePending, Unbind
  <2>2. wk'[p].pc = "finish"
    BY <2>1, RemoveFinalizerFlags
  <2> QED
    BY <1>a, <2>2
<1>10. CASE UpdateStatus(p)
  <2>1. CASE Commit(p, WithStatusOf(cr, wk[p].obj), IdleWorker)
    BY <1>2, <1>a, <2>1, CommitParts DEF IdleWorker
  <2>2. CASE wk' = [wk EXCEPT ![p] = IdleWorker]
    BY <1>3, <1>a, <2>2 DEF IdleWorker
  <2> QED
    BY <1>10, <2>1, <2>2 DEF UpdateStatus
<1>11. CASE CacheSync(p)
  BY <1>2, <1>11 DEF CacheSync
<1>12. CASE Crash(p)
  BY <1>3, <1>12, <1>a DEF Crash, IdleWorker
<1> QED
  BY <1>4, <1>5, <1>6, <1>7, <1>8, <1>9, <1>10, <1>11, <1>12
     DEF Process, Work

\* Neither users nor garm change the spec of a garm pool.
LEMMA OthersEmpty ==
    ASSUME TypeOK, PoolsEmptied, User \/ Environment \/ UNCHANGED vars
    PROVE  PoolsEmptied'
<1> SUFFICES ASSUME NEW p \in Operators
             PROVE  EmptiedBy(wk'[p], garm')
  BY DEF PoolsEmptied
<1>0. EmptiedBy(wk[p], garm) /\ garm \in [PoolIDs -> GarmPools]
  BY DEF PoolsEmptied, TypeOK
<1>1. CASE User
  <2>1. PICK new : UserWrite(new)
    BY <1>1 DEF User, EditSpec, TogglePaused, RequestDelete
  <2>2. wk'[p].pc = wk[p].pc /\ wk'[p].obj = wk[p].obj
    BY <2>1 DEF UserWrite, TypeOK, Workers
  <2>3. garm' = garm
    BY <1>1 DEF User, EditSpec, TogglePaused, RequestDelete
  <2> QED
    BY <1>0, <2>2, <2>3 DEF EmptiedBy
<1>2. CASE Environment \/ UNCHANGED vars
  <2>1. wk' = wk
    BY <1>2 DEF Environment, RunnerCreated, RunnerUp, RunnerRetires,
       RunnerGone, RunnerPhase, PoolDeletedExternally, DepAppears,
       DepVanishes, vars
  <2>2. \/ UNCHANGED garm
        \/ \E id \in PoolIDs, to \in RunnerPhases :
               garm' = [garm EXCEPT ![id].runner = to]
        \/ \E id \in PoolIDs : garm' = [garm EXCEPT ![id].status = "deleted"]
    BY <1>2 DEF Environment, RunnerCreated, RunnerUp, RunnerRetires,
       RunnerGone, RunnerPhase, RunnerPhases, PoolDeletedExternally,
       DepAppears, DepVanishes, vars
  <2>3. ASSUME NEW id \in PoolIDs
        PROVE  /\ garm'[id].spec = garm[id].spec
               /\ garm'[id].status = "live" => garm[id].status = "live"
    BY <1>0, <2>2 DEF GarmPools
  <2> QED
    BY <1>0, <2>1, <2>3 DEF EmptiedBy
<1> QED
  BY <1>1, <1>2

(***************************************************************************)
(* While one process empties a garm pool, the pool stays as                *)
(* reconcileDelete has set it: disabled, and with no idle runners wanted.  *)
(***************************************************************************)
THEOREM DrainSafety ==
    ASSUME OneProcess
    PROVE  Spec => []DrainedPoolStaysDisabled
<1>1. ASSUME Init PROVE PoolsEmptied
  <2>1. IdleWorker.pc = "idle"
    BY DEF IdleWorker
  <2>2. \A p \in Operators : wk[p] = IdleWorker
    BY <1>1 DEF Init
  <2> QED
    BY <2>1, <2>2 DEF PoolsEmptied, EmptiedBy
<1>2. ASSUME BindingInvariant, PoolsEmptied, [Next]_vars PROVE PoolsEmptied'
  <2>1. CASE \E p \in Operators : Process(p)
    BY <1>2, <2>1, ProcessEmpties
  <2>2. CASE User \/ Environment \/ UNCHANGED vars
    BY <1>2, <2>2, OthersEmpty DEF BindingInvariant
  <2> QED
    BY <1>2, <2>1, <2>2 DEF Next
<1>3. PoolsEmptied => DrainedPoolStaysDisabled
  BY DEF PoolsEmptied, EmptiedBy, DrainedPoolStaysDisabled, Live
<1> QED
  BY <1>1, <1>2, <1>3, Binding, PTL DEF Spec

=============================================================================
