------------------------ MODULE GitHubObjects_proofs ------------------------
(***************************************************************************)
(* Theorems about GitHubObjects, for any number of ids, any versions of    *)
(* the specs, any behaviour of pool managers and of garm's deletions, and  *)
(* any plans of users and disturbances.                                    *)
(***************************************************************************)
EXTENDS GitHubObjects, TLAPS

(***************************************************************************)
(* What the building blocks do to the types.                               *)
(***************************************************************************)

LEMMA ConstantTypes ==
    /\ NoID \in 0 .. MaxID /\ AnyVersion \in Versions
    /\ NoStatus \in Statuses
    /\ NullObject \in Objects
    /\ [NullObject EXCEPT !.present = TRUE] \in Objects
    /\ NoEntity \in Entities
    /\ IdleWorker \in Workers
<1>1. NoID \in 0 .. MaxID /\ AnyVersion \in Versions
  BY GitHubConstants DEF NoID, AnyVersion
<1>2. NoStatus \in Statuses
  BY <1>1 DEF NoStatus, Statuses, Readiness
<1>3. NullObject \in Objects
  BY <1>1, <1>2 DEF NullObject, Objects
<1>4. [NullObject EXCEPT !.present = TRUE] \in Objects
  BY <1>3 DEF Objects
<1>5. NoEntity \in Entities
  BY <1>1 DEF NoEntity, Entities
<1>6. IdleWorker \in Workers
  BY <1>1, <1>2, <1>3 DEF IdleWorker, Workers, Points
<1> QED
  BY <1>1, <1>2, <1>3, <1>4, <1>5, <1>6

LEMMA SpendType ==
    ASSUME budget \in [Disturbances -> Nat], NEW d \in Disturbances, Spend(d)
    PROVE  budget' \in [Disturbances -> Nat]
BY DEF Spend

\* What a write may store is an object.
LEMMA StoredObjects ==
    ASSUME NEW o \in Objects, NEW s \in Statuses, NEW v \in Versions,
           NEW r \in Readiness
    PROVE  /\ [o EXCEPT !.fin = TRUE] \in Objects
           /\ [o EXCEPT !.status = s] \in Objects
           /\ [o EXCEPT !.status.ready = r] \in Objects
           /\ [o EXCEPT !.spec = v] \in Objects
           /\ [o EXCEPT !.paused = ~@] \in Objects
           /\ [o EXCEPT !.fin = FALSE, !.present = FALSE] \in Objects
           /\ [o EXCEPT !.deleting = TRUE, !.present = o.fin] \in Objects
<1>1. [o.status EXCEPT !.ready = r] \in Statuses
  BY DEF Objects, Statuses
<1>2. [o EXCEPT !.status.ready = r] = [o EXCEPT !.status = [o.status EXCEPT
                                                             !.ready = r]]
  BY DEF Objects
<1> QED
  BY <1>1, <1>2 DEF Objects

(***************************************************************************)
(* All steps but a crash are about one kind k: they may change what is     *)
(* kept of k, and nothing that is kept of the other kinds.                 *)
(***************************************************************************)

WorkerOf(k) == \E w \in Workers : wk' = [wk EXCEPT ![k] = w]

ObjectOf(k) == \E o \in Objects, c \in Copies :
                  cr' = [cr EXCEPT ![k] = o] /\ cache' = [cache EXCEPT ![k] = c]

EntityOf(k) == \E e \in Entities, n \in 0 .. MaxID :
                  /\ garm' = [garm EXCEPT ![k] = e]
                  /\ issued' = [issued EXCEPT ![k] = n]

(***************************************************************************)
(* What a call may do to the entity of k: nothing that its id shows, or    *)
(* create it under the next id, or delete it.                              *)
(***************************************************************************)
IDStep(k) == \/ /\ garm'[k].id = garm[k].id
                /\ issued'[k] = issued[k]
             \/ /\ garm[k].id = NoID
                /\ garm'[k].id = issued[k] + 1
                /\ issued'[k] = issued[k] + 1
             \/ /\ garm'[k].id = NoID
                /\ issued'[k] = issued[k]

Spending == UNCHANGED budget \/ \E d \in Disturbances : Spend(d)

About(k) == /\ WorkerOf(k) /\ ObjectOf(k) /\ EntityOf(k) /\ IDStep(k)
            /\ applied' \in {applied, applied \cup {k}}
            /\ Spending
            /\ UNCHANGED kinds

LEMMA AboutType ==
    ASSUME GitHubTypeOK, NEW k \in kinds, About(k)
    PROVE  GitHubTypeOK'
<1>1. cr' \in [kinds -> Objects] /\ cache' \in [kinds -> Copies]
  BY DEF About, ObjectOf, GitHubTypeOK
<1>2. wk' \in [kinds -> Workers]
  BY DEF About, WorkerOf, GitHubTypeOK
<1>3. garm' \in [kinds -> Entities] /\ issued' \in [kinds -> 0 .. MaxID]
  BY DEF About, EntityOf, GitHubTypeOK
<1>4. budget' \in [Disturbances -> Nat]
  BY SpendType DEF About, Spending, GitHubTypeOK
<1> QED
  BY <1>1, <1>2, <1>3, <1>4 DEF About, GitHubTypeOK

LEMMA Typed ==
    ASSUME GitHubTypeOK, NEW k \in kinds
    PROVE  /\ wk[k] \in Workers /\ cr[k] \in Objects /\ cache[k] \in Copies
           /\ garm[k] \in Entities /\ issued[k] \in 0 .. MaxID
           /\ wk[k].obj \in Objects /\ wk[k].obj.status \in Statuses
           /\ wk[k].obj.spec \in Versions /\ wk[k].found \in 0 .. MaxID
           /\ cache[k].obj \in Objects /\ cache[k].fresh \in BOOLEAN
           /\ cache[k].obj.status \in Statuses /\ cr[k].status \in Statuses
           /\ wk[k].fresh \in BOOLEAN /\ wk[k].init \in Statuses
<1>1. /\ wk[k] \in Workers /\ cr[k] \in Objects /\ cache[k] \in Copies
      /\ garm[k] \in Entities /\ issued[k] \in 0 .. MaxID
  BY DEF GitHubTypeOK
<1>2. /\ wk[k].obj \in Objects /\ wk[k].found \in 0 .. MaxID
      /\ wk[k].fresh \in BOOLEAN /\ wk[k].init \in Statuses
      /\ cache[k].obj \in Objects /\ cache[k].fresh \in BOOLEAN
  BY <1>1 DEF Workers, Copies
<1> QED
  BY <1>1, <1>2 DEF Objects

(***************************************************************************)
(* What the worker of k is after each of the ways to go on.  Only its      *)
(* point, the ids it knows and its freshness matter below.                 *)
(***************************************************************************)

LEMMA GotoIs ==
    ASSUME GitHubTypeOK, NEW k \in kinds, NEW point \in Points,
           Goto(k, point)
    PROVE  /\ WorkerOf(k)
           /\ wk'[k] = [wk[k] EXCEPT !.pc = point]
<1>1. [wk[k] EXCEPT !.pc = point] \in Workers
  BY Typed DEF Workers
<1> QED
  BY <1>1 DEF Goto, WorkerOf, GitHubTypeOK

LEMMA ReturnIs ==
    ASSUME GitHubTypeOK, NEW k \in kinds, NEW ready \in Readiness,
           Return(k, ready)
    PROVE  /\ WorkerOf(k)
           /\ wk'[k].pc = "finish" /\ wk'[k].found = NoID
           /\ wk'[k].obj.status.id = wk[k].obj.status.id
           /\ wk'[k].init = wk[k].init /\ wk'[k].fresh = wk[k].fresh
<1> DEFINE o == [wk[k].obj EXCEPT !.status.ready = ready]
           w == [wk[k] EXCEPT !.pc = "finish", !.found = NoID, !.obj = o]
<1>1. o \in Objects
  BY Typed, StoredObjects
<1>2. w \in Workers
  BY <1>1, Typed, ConstantTypes DEF Workers, Points
<1>3. wk' = [wk EXCEPT ![k] = w]
  BY Typed DEF Return, GitHubTypeOK, Workers
<1>4. o.status.id = wk[k].obj.status.id
  BY Typed DEF Objects, Statuses
<1>5. /\ w.pc = "finish" /\ w.found = NoID /\ w.obj = o
      /\ w.init = wk[k].init /\ w.fresh = wk[k].fresh
  BY Typed DEF Workers
<1>6. wk'[k] = w
  BY <1>3 DEF GitHubTypeOK
<1> HIDE DEF w, o
<1> QED
  BY <1>2, <1>3, <1>4, <1>5, <1>6 DEF WorkerOf

LEMMA FoundIs ==
    ASSUME GitHubTypeOK, NEW k \in kinds, NEW point \in Points,
           NEW id \in 0 .. MaxID,
           \/ wk' = [wk EXCEPT ![k].found = id, ![k].pc = point]
           \/ wk' = [wk EXCEPT ![k].pc = point, ![k].found = id]
    PROVE  /\ WorkerOf(k)
           /\ wk'[k].pc = point /\ wk'[k].found = id
           /\ wk'[k].obj = wk[k].obj
           /\ wk'[k].init = wk[k].init /\ wk'[k].fresh = wk[k].fresh
<1> DEFINE w == [wk[k] EXCEPT !.pc = point, !.found = id]
<1>1. w \in Workers
  BY Typed DEF Workers
<1>2. wk' = [wk EXCEPT ![k] = w]
  BY Typed DEF GitHubTypeOK, Workers
<1>3. /\ w.pc = point /\ w.found = id /\ w.obj = wk[k].obj
      /\ w.init = wk[k].init /\ w.fresh = wk[k].fresh
  BY Typed DEF Workers
<1>4. wk'[k] = w
  BY <1>2 DEF GitHubTypeOK
<1> HIDE DEF w
<1> QED
  BY <1>1, <1>2, <1>3, <1>4 DEF WorkerOf

\* The id that was found becomes that of the status.
LEMMA BoundIs ==
    ASSUME GitHubTypeOK, NEW k \in kinds, NEW s \in Statuses,
           s.id = wk[k].found,
           wk' = [wk EXCEPT ![k].pc = "finish",
                            ![k].found = NoID,
                            ![k].obj.status = s]
    PROVE  /\ WorkerOf(k)
           /\ wk'[k].pc = "finish" /\ wk'[k].found = NoID
           /\ wk'[k].obj.status.id = wk[k].found
           /\ wk'[k].init = wk[k].init /\ wk'[k].fresh = wk[k].fresh
<1> DEFINE o == [wk[k].obj EXCEPT !.status = s]
           w == [wk[k] EXCEPT !.pc = "finish", !.found = NoID, !.obj = o]
<1>1. o \in Objects
  BY Typed DEF Objects
<1>2. w \in Workers
  BY <1>1, Typed, ConstantTypes DEF Workers, Points
<1>3. wk' = [wk EXCEPT ![k] = w]
  BY Typed DEF GitHubTypeOK, Workers
<1>4. o.status = s
  BY Typed DEF Objects
<1>5. /\ w.pc = "finish" /\ w.found = NoID /\ w.obj = o
      /\ w.init = wk[k].init /\ w.fresh = wk[k].fresh
  BY Typed DEF Workers
<1>6. wk'[k] = w
  BY <1>3 DEF GitHubTypeOK
<1> HIDE DEF w, o
<1> QED
  BY <1>2, <1>3, <1>4, <1>5, <1>6 DEF WorkerOf

\* The worker that deleted the entity goes on to remove the finalizer.
LEMMA ToUnbindIs ==
    ASSUME GitHubTypeOK, NEW k \in kinds,
           wk' = [wk EXCEPT ![k].pc = "unbind",
                            ![k].obj.status.ready = "deleting"]
    PROVE  /\ WorkerOf(k)
           /\ wk'[k].pc = "unbind" /\ wk'[k].found = wk[k].found
           /\ wk'[k].obj.status.id = wk[k].obj.status.id
           /\ wk'[k].init = wk[k].init /\ wk'[k].fresh = wk[k].fresh
<1> DEFINE o == [wk[k].obj EXCEPT !.status.ready = "deleting"]
           w == [wk[k] EXCEPT !.pc = "unbind", !.obj = o]
<1>1. o \in Objects
  BY Typed, StoredObjects DEF Readiness
<1>2. w \in Workers
  BY <1>1, Typed DEF Workers, Points
<1>3. wk' = [wk EXCEPT ![k] = w]
  BY Typed DEF GitHubTypeOK, Workers
<1>4. o.status.id = wk[k].obj.status.id
  BY Typed DEF Objects, Statuses
<1>5. /\ w.pc = "unbind" /\ w.found = wk[k].found /\ w.obj = o
      /\ w.init = wk[k].init /\ w.fresh = wk[k].fresh
  BY Typed DEF Workers
<1>6. wk'[k] = w
  BY <1>3 DEF GitHubTypeOK
<1> HIDE DEF w, o
<1> QED
  BY <1>2, <1>3, <1>4, <1>5, <1>6 DEF WorkerOf

LEMMA SameEntity ==
    ASSUME GitHubTypeOK, NEW k \in kinds, UNCHANGED <<garm, issued>>
    PROVE  EntityOf(k) /\ IDStep(k)
<1>1. garm = [garm EXCEPT ![k] = garm[k]]
      /\ issued = [issued EXCEPT ![k] = issued[k]]
  BY DEF GitHubTypeOK
<1> QED
  BY <1>1, Typed DEF EntityOf, IDStep

LEMMA CreatesIs ==
    ASSUME GitHubTypeOK, NEW k \in kinds, NEW v \in Versions,
           NEW ours \in BOOLEAN, GarmCreates(k, v, ours)
    PROVE  /\ EntityOf(k) /\ IDStep(k)
           /\ issued'[k] = issued[k] + 1 /\ issued'[k] \in 1 .. MaxID
<1> DEFINE e == [id |-> issued[k] + 1, spec |-> v, ours |-> ours]
<1>1. issued[k] + 1 \in 1 .. MaxID /\ issued[k] + 1 \in 0 .. MaxID
  BY Typed, GitHubConstants DEF GarmCreates
<1>2. e \in Entities
  BY <1>1 DEF Entities
<1>3. /\ garm' = [garm EXCEPT ![k] = e]
      /\ issued' = [issued EXCEPT ![k] = issued[k] + 1]
      /\ garm[k].id = NoID
  BY DEF GarmCreates, InGarm
<1>4. garm'[k] = e /\ issued'[k] = issued[k] + 1
  BY <1>3 DEF GitHubTypeOK
<1>5. EntityOf(k)
  BY <1>1, <1>2, <1>3 DEF EntityOf
<1>6. e.id = issued[k] + 1
  OBVIOUS
<1> QED
  BY <1>1, <1>3, <1>4, <1>5, <1>6 DEF IDStep

LEMMA DeletesIs ==
    ASSUME GitHubTypeOK, NEW k \in kinds, NEW id, GarmDeletes(k, id),
           UNCHANGED issued
    PROVE  /\ EntityOf(k) /\ IDStep(k)
           /\ id # NoID => garm'[k].id # id
<1>1. CASE garm' = [garm EXCEPT ![k] = NoEntity]
  <2>1. issued = [issued EXCEPT ![k] = issued[k]]
        /\ garm'[k] = NoEntity /\ NoEntity.id = NoID
    BY <1>1 DEF GitHubTypeOK, NoEntity
  <2> QED
    BY <1>1, <2>1, ConstantTypes, Typed DEF EntityOf, IDStep
<1>2. CASE UNCHANGED garm /\ ~Entity(k, id)
  BY <1>2, SameEntity DEF Entity, InGarm
<1> QED
  BY <1>1, <1>2 DEF GarmDeletes

\* An entity that is found or updated keeps its id.
LEMMA PushIs ==
    ASSUME GitHubTypeOK, NEW k \in kinds, NEW v \in Versions,
           NEW ours \in BOOLEAN, UNCHANGED issued,
           \/ garm' = [garm EXCEPT ![k].spec = v, ![k].ours = ours]
           \/ garm' = [garm EXCEPT ![k].ours = ours]
    PROVE  EntityOf(k) /\ IDStep(k)
<1> DEFINE e == garm'[k]
<1>1. e \in Entities /\ e.id = garm[k].id
  BY Typed DEF Entities, GitHubTypeOK
<1>2. /\ garm' = [garm EXCEPT ![k] = e]
      /\ issued = [issued EXCEPT ![k] = issued[k]]
  BY DEF GitHubTypeOK
<1> QED
  BY <1>1, <1>2, Typed DEF EntityOf, IDStep

(***************************************************************************)
(* The writes of k's object.                                               *)
(***************************************************************************)

LEMMA SameObject ==
    ASSUME GitHubTypeOK, NEW k \in kinds
    PROVE  /\ UNCHANGED <<cr, cache>> => ObjectOf(k)
           /\ UNCHANGED wk => WorkerOf(k)
<1>1. /\ cr = [cr EXCEPT ![k] = cr[k]] /\ cache = [cache EXCEPT ![k] = cache[k]]
      /\ wk = [wk EXCEPT ![k] = wk[k]]
  BY DEF GitHubTypeOK
<1> QED
  BY <1>1, Typed DEF ObjectOf, WorkerOf

LEMMA CommitIs ==
    ASSUME GitHubTypeOK, NEW k \in kinds, NEW new \in Objects,
           NEW w \in Workers, Commit(k, new, w)
    PROVE  /\ WorkerOf(k) /\ ObjectOf(k)
           /\ cr'[k] = new /\ wk'[k] = w
           /\ cache'[k].obj = cache[k].obj
           /\ cache'[k].fresh => cache[k].fresh /\ new = cr[k]
<1> DEFINE c == [cache[k] EXCEPT !.fresh = @ /\ new = cr[k]]
<1>1. c \in Copies
  BY Typed DEF Copies
<1>2. cache' = [cache EXCEPT ![k] = c]
  BY DEF Commit
<1>3. cache'[k] = c
  BY <1>2 DEF GitHubTypeOK
<1>4. c.obj = cache[k].obj /\ (c.fresh => cache[k].fresh /\ new = cr[k])
  BY Typed DEF Copies
<1>5. cr'[k] = new /\ wk'[k] = w
  BY DEF Commit, GitHubTypeOK
<1>6. ObjectOf(k) /\ WorkerOf(k)
  BY <1>1, <1>2 DEF Commit, ObjectOf, WorkerOf
<1> HIDE DEF c
<1> QED
  BY <1>3, <1>4, <1>5, <1>6

LEMMA UserWriteIs ==
    ASSUME GitHubTypeOK, NEW k \in kinds, NEW new \in Objects,
           UserWrite(k, new)
    PROVE  /\ WorkerOf(k) /\ ObjectOf(k)
           /\ cr'[k] = new
           /\ cache'[k].obj = cache[k].obj /\ ~cache'[k].fresh
           /\ wk'[k] = [wk[k] EXCEPT !.fresh = FALSE]
<1> DEFINE c == [cache[k] EXCEPT !.fresh = FALSE]
           w == [wk[k] EXCEPT !.fresh = FALSE]
<1>1. c \in Copies /\ w \in Workers
  BY Typed DEF Copies, Workers
<1>2. /\ cache' = [cache EXCEPT ![k] = c] /\ wk' = [wk EXCEPT ![k] = w]
      /\ cr' = [cr EXCEPT ![k] = new]
  BY DEF UserWrite
<1>3. cache'[k] = c /\ wk'[k] = w /\ cr'[k] = new
  BY <1>2 DEF GitHubTypeOK
<1>4. c.obj = cache[k].obj /\ ~c.fresh
  BY Typed DEF Copies
<1>5. ObjectOf(k) /\ WorkerOf(k)
  BY <1>1, <1>2 DEF ObjectOf, WorkerOf
<1> QED
  BY <1>3, <1>4, <1>5

-----------------------------------------------------------------------------
(***************************************************************************)
(* The inductive invariant.  What makes ReleasedMeansGone and              *)
(* IDsNeverRegress hold in spite of outdated copies is that garm has at    *)
(* most one entity of a name, so that the one it has is the latest, and    *)
(* that the worker of an object that has since been written cannot write.  *)
(***************************************************************************)

\* An id that an object carries has been handed out; endpoints have none.
IDsOf(k, o) == /\ o.status.id <= issued[k]
               /\ k = "endpoint" => o.status.id = NoID

ObjectSound(k) ==
    /\ IDsOf(k, cr[k]) /\ IDsOf(k, cache[k].obj)
    /\ InGarm(k) => garm[k].id = issued[k]
    /\ k \notin applied => ~cr[k].present /\ cr[k].status.id = NoID
    /\ cr[k].present /\ ~cr[k].fin =>
          ~cr[k].deleting /\ cr[k].status.id = NoID
    /\ cache[k].fresh => cr[k].present /\ cache[k].obj = cr[k]
    /\ Released(k) /\ cr[k].status.id # NoID =>
          garm[k].id # cr[k].status.id

\* A worker knows ids no older than the one it began with; a fresh one still
\* sees that one in the object, which has the finalizer.
WorkerSound(k) ==
    LET w == wk[k] IN
    /\ IDsOf(k, w.obj)
    /\ w.init.id <= w.obj.status.id
    /\ w.pc # "finish" => w.init.id = w.obj.status.id
    /\ w.found <= issued[k]
    /\ w.found # NoID => w.init.id <= w.found
    /\ w.pc \in {"update", "get"} => w.found # NoID
    /\ w.pc = "unbind" /\ w.obj.status.id # NoID =>
          garm[k].id # w.obj.status.id
    /\ w.fresh => /\ cr[k].present /\ cr[k].fin
                  /\ cr[k].status.id = w.init.id

Sound(k) == ObjectSound(k) /\ WorkerSound(k)

GitHubInv == GitHubTypeOK /\ \A k \in kinds : Sound(k)

\* The ids are numbers.
LEMMA Numbers ==
    ASSUME GitHubTypeOK, NEW k \in kinds
    PROVE  /\ issued[k] \in Nat /\ garm[k].id \in Nat
           /\ cr[k].status.id \in Nat /\ cache[k].obj.status.id \in Nat
           /\ wk[k].obj.status.id \in Nat /\ wk[k].init.id \in Nat
           /\ wk[k].found \in Nat /\ NoID = 0
           /\ garm[k].id \in 0 .. MaxID /\ wk[k].found \in 0 .. MaxID
<1>1. \A s \in Statuses : s.id \in 0 .. MaxID
  BY DEF Statuses
<1>2. garm[k].id \in 0 .. MaxID
  BY Typed DEF Entities
<1> QED
  BY <1>1, <1>2, Typed, GitHubConstants DEF NoID

LEMMA ObjectStays ==
    ASSUME GitHubTypeOK, GitHubTypeOK', UNCHANGED kinds,
           NEW k \in kinds, ObjectSound(k),
           UNCHANGED <<cr, cache, applied>>, IDStep(k)
    PROVE  ObjectSound(k)'
<1>1. issued'[k] >= issued[k] /\ issued'[k] \in Nat /\ garm'[k].id \in Nat
  BY Numbers DEF IDStep
<1>2. IDsOf(k, cr[k])' /\ IDsOf(k, cache[k].obj)'
  BY <1>1, Numbers DEF ObjectSound, IDsOf
<1>3. InGarm(k)' => garm'[k].id = issued'[k]
  BY DEF ObjectSound, InGarm, IDStep
<1>4. Released(k)' /\ cr'[k].status.id # NoID => garm'[k].id # cr'[k].status.id
  <2>1. cr[k].status.id # issued[k] + 1
    BY Numbers DEF ObjectSound, IDsOf
  <2> QED
    BY <2>1 DEF ObjectSound, Released, IDStep
<1> QED
  BY <1>2, <1>3, <1>4 DEF ObjectSound

\* The worker of k goes on without a write of its object.
LEMMA WorkerGoes ==
    ASSUME GitHubTypeOK, NEW k \in kinds, Sound(k),
           WorkerOf(k), EntityOf(k), IDStep(k), Spending,
           UNCHANGED <<kinds, cr, cache, applied>>,
           wk'[k].init = wk[k].init, wk'[k].fresh = wk[k].fresh,
           \/ /\ wk'[k].obj.status.id = wk[k].obj.status.id
              /\ wk'[k].pc # "finish" => wk[k].pc # "finish"
           \/ /\ wk'[k].pc = "finish" /\ k # "endpoint"
              /\ wk'[k].obj.status.id = wk[k].found /\ wk[k].found # NoID,
           \/ wk'[k].found \in {NoID, wk[k].found}
           \/ wk'[k].found = garm[k].id
           \/ wk'[k].found = issued'[k],
           wk'[k].pc \in {"update", "get"} => wk'[k].found # NoID,
           wk'[k].pc = "unbind" =>
              \/ wk'[k].obj.status.id = NoID
              \/ garm'[k].id # wk'[k].obj.status.id
    PROVE  About(k) /\ Sound(k)'
<1>1. About(k)
  BY SameObject DEF About
<1>2. GitHubTypeOK'
  BY <1>1, AboutType
<1>3. ObjectSound(k)'
  BY <1>2, ObjectStays DEF Sound
<1>4. /\ issued'[k] >= issued[k] /\ issued'[k] \in Nat
      /\ wk'[k].found \in Nat
  BY <1>2, Numbers DEF IDStep
<1>5. wk[k].init.id <= issued[k]
  BY Numbers DEF Sound, WorkerSound, IDsOf
<1>6. garm[k].id # NoID => garm[k].id = issued[k]
  BY DEF Sound, ObjectSound, InGarm
<1>7. IDsOf(k, wk[k].obj)'
  BY <1>4, Numbers DEF Sound, WorkerSound, IDsOf
<1>8. /\ wk'[k].init.id <= wk'[k].obj.status.id
      /\ wk'[k].pc # "finish" => wk'[k].init.id = wk'[k].obj.status.id
  BY Numbers DEF Sound, WorkerSound
<1>9. /\ wk'[k].found <= issued'[k]
      /\ wk'[k].found # NoID => wk'[k].init.id <= wk'[k].found
  <2>1. wk[k].found <= issued[k]
        /\ (wk[k].found # NoID => wk[k].init.id <= wk[k].found)
    BY DEF Sound, WorkerSound
  <2>2. CASE wk'[k].found \in {NoID, wk[k].found}
    BY <1>4, <2>1, <2>2, Numbers
  <2>3. CASE wk'[k].found = garm[k].id
    BY <1>4, <1>5, <1>6, <2>3, Numbers
  <2>4. CASE wk'[k].found = issued'[k]
    BY <1>4, <1>5, <2>4, Numbers
  <2> QED
    BY <2>2, <2>3, <2>4
<1>10. wk'[k].fresh => /\ cr'[k].present /\ cr'[k].fin
                       /\ cr'[k].status.id = wk'[k].init.id
  BY DEF Sound, WorkerSound
<1>11. WorkerSound(k)'
  BY <1>7, <1>8, <1>9, <1>10 DEF WorkerSound
<1> QED
  BY <1>1, <1>3, <1>11 DEF Sound

LEMMA FailSound ==
    ASSUME GitHubTypeOK, NEW k \in kinds, Sound(k),
           NEW ready \in Readiness, Return(k, ready),
           EntityOf(k), IDStep(k), Spending,
           UNCHANGED <<kinds, cr, cache, applied>>
    PROVE  About(k) /\ Sound(k)'
BY ReturnIs, WorkerGoes

LEMMA GotoSound ==
    ASSUME GitHubTypeOK, NEW k \in kinds, Sound(k),
           NEW point \in Points, Goto(k, point),
           wk[k].pc # "finish",
           point \in {"update", "get"} => wk[k].found # NoID,
           point # "unbind",
           EntityOf(k), IDStep(k), Spending,
           UNCHANGED <<kinds, cr, cache, applied>>
    PROVE  About(k) /\ Sound(k)'
<1>1. WorkerOf(k) /\ wk'[k] = [wk[k] EXCEPT !.pc = point]
  BY GotoIs
<1>2. /\ wk'[k].pc = point /\ wk'[k].found = wk[k].found
      /\ wk'[k].obj = wk[k].obj /\ wk'[k].init = wk[k].init
      /\ wk'[k].fresh = wk[k].fresh
  BY <1>1, Typed DEF Workers
<1> QED
  BY <1>1, <1>2, WorkerGoes

(***************************************************************************)
(* reconcileNormal keeps the invariant.                                    *)
(***************************************************************************)

LEMMA FetchRefsSound ==
    ASSUME GitHubTypeOK, NEW k \in kinds, Sound(k), FetchRefs(k)
    PROVE  About(k) /\ Sound(k)'
<1>1. /\ UNCHANGED <<kinds, cr, cache, applied, garm, issued>>
      /\ EntityOf(k) /\ IDStep(k) /\ Spending
      /\ wk[k].pc = "refs"
  BY SameEntity DEF FetchRefs, At, Spending, Disturbances
<1>2. CASE Fail(k)
  BY <1>1, <1>2, FailSound DEF Fail, Readiness
<1>3. CASE Goto(k, IF k = "credential" THEN Known(wk[k].found) ELSE "find")
  <2> DEFINE point == IF k = "credential" THEN Known(wk[k].found) ELSE "find"
  <2>1. /\ point \in Points /\ point \notin {"get", "unbind"}
        /\ point = "update" => wk[k].found # NoID
    BY DEF Known, Points
  <2> HIDE DEF point
  <2> QED
    BY <1>1, <1>3, <2>1, GotoSound DEF point
<1> QED
  BY <1>2, <1>3 DEF FetchRefs

LEMMA GetExistingSound ==
    ASSUME GitHubTypeOK, NEW k \in kinds, Sound(k), GetExisting(k)
    PROVE  About(k) /\ Sound(k)'
<1>1. /\ UNCHANGED <<kinds, cr, cache, applied, issued>> /\ Spending
      /\ wk[k].pc = "find"
      /\ UNCHANGED garm \/ garm' = [garm EXCEPT ![k].ours = InGarm(k)]
  BY DEF GetExisting, At, Spending, Disturbances
<1>0. EntityOf(k) /\ IDStep(k)
  <2>1. wk[k].obj.spec \in Versions /\ InGarm(k) \in BOOLEAN
    BY Typed DEF InGarm
  <2> QED
    BY <1>1, <2>1, SameEntity, PushIs
<1>2. CASE Fail(k)
  BY <1>0, <1>1, <1>2, FailSound DEF Fail, Readiness
<1> DEFINE point == IF k = "credential" THEN "refs" ELSE Known(garm[k].id)
<1>3. CASE wk' = [wk EXCEPT ![k].found = garm[k].id, ![k].pc = point]
  <2>1. /\ point \in Points /\ point \notin {"get", "unbind", "finish"}
        /\ point = "update" => garm[k].id # NoID
    BY DEF Known, Points
  <2> HIDE DEF point
  <2>2. /\ WorkerOf(k)
        /\ wk'[k].pc = point /\ wk'[k].found = garm[k].id
        /\ wk'[k].obj = wk[k].obj
        /\ wk'[k].init = wk[k].init /\ wk'[k].fresh = wk[k].fresh
    BY <1>3, <2>1, FoundIs, Numbers
  <2> QED
    BY <1>0, <1>1, <2>1, <2>2, WorkerGoes
<1> QED
  BY <1>2, <1>3 DEF GetExisting

LEMMA CreateSound ==
    ASSUME GitHubTypeOK, NEW k \in kinds, Sound(k), Create(k)
    PROVE  About(k) /\ Sound(k)'
<1>0. wk[k].obj.spec \in Versions
  BY Typed
<1>1. /\ UNCHANGED <<kinds, cr, cache, applied>> /\ Spending
      /\ wk[k].pc = "create"
      /\ GarmCreates(k, wk[k].obj.spec, TRUE) \/ UNCHANGED <<garm, issued>>
  BY DEF Create, At, Spending, Disturbances
<1>2. EntityOf(k) /\ IDStep(k)
  BY <1>0, <1>1, SameEntity, CreatesIs
<1>3. CASE Fail(k)
  BY <1>1, <1>2, <1>3, FailSound DEF Fail, Readiness
<1>4. CASE /\ GarmCreates(k, wk[k].obj.spec, TRUE)
           /\ wk' = [wk EXCEPT ![k].pc = "update", ![k].found = issued'[k]]
  <2>1. issued'[k] \in 0 .. MaxID /\ issued'[k] # NoID
    BY <1>4, Numbers, GitHubConstants DEF GarmCreates, GitHubTypeOK
  <2>2. /\ WorkerOf(k)
        /\ wk'[k].pc = "update" /\ wk'[k].found = issued'[k]
        /\ wk'[k].obj = wk[k].obj
        /\ wk'[k].init = wk[k].init /\ wk'[k].fresh = wk[k].fresh
    BY <1>4, <2>1, FoundIs DEF Points
  <2> QED
    BY <1>1, <1>2, <2>1, <2>2, WorkerGoes
<1> QED
  BY <1>3, <1>4 DEF Create

\* The id found, which is not older than that of the status, is kept.
LEMMA BoundSound ==
    ASSUME GitHubTypeOK, NEW k \in kinds, Sound(k), k # "endpoint",
           wk[k].found # NoID,
           NEW s \in Statuses, s.id = wk[k].found,
           wk' = [wk EXCEPT ![k].pc = "finish",
                            ![k].found = NoID,
                            ![k].obj.status = s],
           EntityOf(k), IDStep(k), Spending,
           UNCHANGED <<kinds, cr, cache, applied>>
    PROVE  About(k) /\ Sound(k)'
BY BoundIs, WorkerGoes

LEMMA UpdateSound ==
    ASSUME GitHubTypeOK, NEW k \in kinds, Sound(k), Update(k)
    PROVE  About(k) /\ Sound(k)'
<1>0. wk[k].obj.spec \in Versions /\ k \in Kinds
  BY Typed DEF GitHubTypeOK
<1>1. /\ UNCHANGED <<kinds, cr, cache, applied, issued>> /\ Spending
      /\ wk[k].pc = "update" /\ wk[k].found # NoID
      /\ \/ garm' = [garm EXCEPT ![k].spec = wk[k].obj.spec, ![k].ours = TRUE]
         \/ UNCHANGED garm
  BY DEF Update, At, Spending, Disturbances, Sound, WorkerSound
<1>2. EntityOf(k) /\ IDStep(k)
  BY <1>0, <1>1, SameEntity, PushIs
<1>3. CASE Fail(k)
  BY <1>1, <1>2, <1>3, FailSound DEF Fail, Readiness
<1>4. CASE k = "endpoint" /\ Return(k, "true")
  BY <1>1, <1>2, <1>4, FailSound DEF Readiness
<1>5. CASE k = "credential" /\ Goto(k, "get")
  BY <1>1, <1>2, <1>5, GotoSound DEF Points
<1>6. ASSUME k \in Scopes, NEW ready \in PoolManager,
             wk' = [wk EXCEPT ![k].pc = "finish",
                              ![k].found = NoID,
                              ![k].obj.status = [@ EXCEPT !.id = wk[k].found,
                                                          !.ready = ready]]
      PROVE  About(k) /\ Sound(k)'
  <2> DEFINE s == [wk[k].obj.status EXCEPT !.id = wk[k].found, !.ready = ready]
  <2>1. ready \in Readiness
    BY GitHubConstants DEF Readiness
  <2>2. s \in Statuses /\ s.id = wk[k].found
    BY <2>1, Typed DEF Statuses
  <2>3. wk' = [wk EXCEPT ![k].pc = "finish", ![k].found = NoID,
                         ![k].obj.status = s]
    BY <1>6, Typed DEF GitHubTypeOK, Workers
  <2>4. k # "endpoint"
    BY <1>6 DEF Scopes
  <2> HIDE DEF s
  <2> QED
    BY <1>1, <1>2, <2>2, <2>3, <2>4, BoundSound
<1> QED
  BY <1>3, <1>4, <1>5, <1>6 DEF Update, Updated

LEMMA GetCredentialSound ==
    ASSUME GitHubTypeOK, NEW k \in kinds, Sound(k), k = "credential",
           GetCredential(k)
    PROVE  About(k) /\ Sound(k)'
<1>1. /\ UNCHANGED <<kinds, cr, cache, applied, garm, issued>>
      /\ EntityOf(k) /\ IDStep(k) /\ Spending
      /\ wk[k].pc = "get" /\ wk[k].found # NoID
  BY SameEntity
     DEF GetCredential, At, Spending, Disturbances, Sound, WorkerSound
<1>2. CASE Fail(k)
  BY <1>1, <1>2, FailSound DEF Fail, Readiness
<1> DEFINE s == [id |-> wk[k].found, ready |-> "true", listed |-> InUse(k)]
<1>3. CASE wk' = [wk EXCEPT ![k].pc = "finish", ![k].found = NoID,
                            ![k].obj.status = s]
  <2>1. InUse(k) \in BOOLEAN
    BY DEF InUse
  <2>2. s \in Statuses /\ s.id = wk[k].found
    BY <2>1, Typed DEF Statuses, Readiness
  <2> HIDE DEF s
  <2> QED
    BY <1>1, <1>3, <2>2, BoundSound
<1> QED
  BY <1>2, <1>3 DEF GetCredential

(***************************************************************************)
(* reconcileDelete and the status update keep the invariant.               *)
(***************************************************************************)

LEMMA DeleteSound ==
    ASSUME GitHubTypeOK, NEW k \in kinds, Sound(k), Delete(k)
    PROVE  About(k) /\ Sound(k)'
<1> DEFINE id == wk[k].obj.status.id
<1>1. /\ UNCHANGED <<kinds, cr, cache, applied, issued>> /\ Spending
      /\ wk[k].pc = "delete"
      /\ GarmDeletes(k, id) \/ UNCHANGED garm
  BY DEF Delete, At, Spending, Disturbances
<1>2. EntityOf(k) /\ IDStep(k)
  BY <1>1, SameEntity, DeletesIs
<1>3. CASE Fail(k)
  BY <1>1, <1>2, <1>3, FailSound DEF Fail, Readiness
<1>4. CASE /\ GarmDeletes(k, id)
           /\ wk' = [wk EXCEPT ![k].pc = "unbind",
                               ![k].obj.status.ready = "deleting"]
  <2>1. id # NoID => garm'[k].id # id
    BY <1>1, <1>4, DeletesIs
  <2> QED
    BY <1>1, <1>2, <1>4, <2>1, ToUnbindIs, WorkerGoes
<1> QED
  BY <1>3, <1>4 DEF Delete

\* A write by a worker whose object nobody else wrote; the entity is left
\* alone.
LEMMA CommitSound ==
    ASSUME GitHubTypeOK, NEW k \in kinds, Sound(k),
           NEW new \in Objects, NEW w \in Workers, Commit(k, new, w),
           UNCHANGED <<kinds, applied, garm, issued>>, Spending,
           cr[k].present,
           IDsOf(k, new),
           new.present /\ ~new.fin => ~new.deleting /\ new.status.id = NoID,
           cache[k].fresh /\ new = cr[k] => new.present,
           ~new.present /\ new.status.id # NoID =>
              garm[k].id # new.status.id,
           IDsOf(k, w.obj),
           w.init.id <= w.obj.status.id,
           w.pc # "finish" => w.init.id = w.obj.status.id,
           w.found <= issued[k],
           w.found # NoID => w.init.id <= w.found,
           w.pc \notin {"update", "get", "unbind"},
           w.fresh => /\ new.present /\ new.fin
                      /\ new.status.id = w.init.id
    PROVE  About(k) /\ Sound(k)'
<1>1. /\ WorkerOf(k) /\ ObjectOf(k)
      /\ cr'[k] = new /\ wk'[k] = w
      /\ cache'[k].obj = cache[k].obj
      /\ cache'[k].fresh => cache[k].fresh /\ new = cr[k]
  BY CommitIs
<1>2. About(k)
  BY <1>1, SameEntity DEF About
<1>3. IDsOf(k, cr[k])' /\ IDsOf(k, cache[k].obj)'
  BY <1>1 DEF Sound, ObjectSound, IDsOf
<1>4. /\ InGarm(k)' => garm'[k].id = issued'[k]
      /\ k \in applied'
  BY DEF Sound, ObjectSound, InGarm
<1>5. cache'[k].fresh => cr'[k].present /\ cache'[k].obj = cr'[k]
  BY <1>1 DEF Sound, ObjectSound
<1>6. Released(k)' /\ cr'[k].status.id # NoID => garm'[k].id # cr'[k].status.id
  BY <1>1 DEF Released
<1>7. ObjectSound(k)'
  BY <1>1, <1>3, <1>4, <1>5, <1>6 DEF ObjectSound
<1>8. IDsOf(k, wk[k].obj)'
  BY <1>1 DEF IDsOf
<1>9. WorkerSound(k)'
  BY <1>1, <1>8 DEF WorkerSound
<1> QED
  BY <1>2, <1>7, <1>9 DEF Sound

\* No write, and the worker goes on to the end of its reconciliation.
LEMMA EndSound ==
    ASSUME GitHubTypeOK, NEW k \in kinds, Sound(k),
           NEW point \in {"finish", "idle"},
           \/ point = "finish" /\ Goto(k, "finish")
           \/ point = "idle" /\ wk' = [wk EXCEPT ![k] = IdleWorker],
           UNCHANGED <<kinds, cr, cache, applied, garm, issued>>, Spending
    PROVE  About(k) /\ Sound(k)'
<1>1. EntityOf(k) /\ IDStep(k)
  BY SameEntity
<1>2. CASE Goto(k, "finish")
  <2>1. WorkerOf(k) /\ wk'[k] = [wk[k] EXCEPT !.pc = "finish"]
    BY <1>2, GotoIs DEF Points
  <2>2. /\ wk'[k].pc = "finish" /\ wk'[k].found = wk[k].found
        /\ wk'[k].obj = wk[k].obj /\ wk'[k].init = wk[k].init
        /\ wk'[k].fresh = wk[k].fresh
    BY <2>1, Typed DEF Workers
  <2>3. About(k)
    BY <1>1, <2>1, SameObject DEF About
  <2>4. ObjectSound(k)'
    BY <1>1, <2>3, AboutType, ObjectStays DEF Sound
  <2>5. WorkerSound(k)'
    BY <2>2 DEF Sound, WorkerSound, IDsOf
  <2> QED
    BY <2>3, <2>4, <2>5 DEF Sound
<1>3. CASE wk' = [wk EXCEPT ![k] = IdleWorker]
  <2>1. WorkerOf(k) /\ wk'[k] = IdleWorker
    BY <1>3, ConstantTypes DEF WorkerOf, GitHubTypeOK
  <2>2. About(k)
    BY <1>1, <2>1, SameObject DEF About
  <2>3. ObjectSound(k)'
    BY <1>1, <2>2, AboutType, ObjectStays DEF Sound
  <2>4. /\ wk'[k].pc = "idle" /\ wk'[k].found = NoID
        /\ wk'[k].obj.status.id = NoID /\ wk'[k].init.id = NoID
        /\ ~wk'[k].fresh
    BY <2>1 DEF IdleWorker, NullObject, NoStatus
  <2>5. issued'[k] = issued[k] /\ NoID <= issued[k] /\ NoID <= NoID
    BY Numbers
  <2>6. WorkerSound(k)'
    BY <2>4, <2>5 DEF WorkerSound, IDsOf
  <2> QED
    BY <2>2, <2>3, <2>6 DEF Sound
<1> QED
  BY <1>2, <1>3

LEMMA MarkDeletingSound ==
    ASSUME GitHubTypeOK, NEW k \in kinds, Sound(k), MarkDeleting(k)
    PROVE  About(k) /\ Sound(k)'
<1> DEFINE o == [wk[k].obj EXCEPT !.status.ready = "deleting"]
           new == [cr[k] EXCEPT !.status = o.status]
           w == [wk[k] EXCEPT !.pc = "delete", !.obj = o]
<1>1. /\ UNCHANGED <<kinds, applied, garm, issued>> /\ Spending
      /\ wk[k].pc = "mark"
  BY DEF MarkDeleting, At, Spending, Disturbances
<1>2. CASE Return(k, "deleting") /\ UNCHANGED <<cr, cache>>
  BY <1>1, <1>2, SameEntity, FailSound DEF Readiness
<1>3. CASE wk[k].fresh /\ Commit(k, new, w)
  <2>1. o \in Objects /\ o.status.id = wk[k].obj.status.id
    <3>1. o \in Objects
      BY Typed, StoredObjects DEF Readiness
    <3>2. o.status.id = wk[k].obj.status.id
      BY Typed DEF Objects, Statuses
    <3> QED
      BY <3>1, <3>2
  <2>2. o.status \in Statuses
    BY <2>1 DEF Objects
  <2> HIDE DEF o
  <2>3. /\ new \in Objects /\ new.status = o.status
        /\ new.present = cr[k].present /\ new.fin = cr[k].fin
        /\ new.deleting = cr[k].deleting
    BY <2>2, Typed DEF Objects
  <2>4. w \in Workers
    BY <2>1, Typed DEF Workers, Points
  <2>5. /\ w.pc = "delete" /\ w.obj = o /\ w.init = wk[k].init
        /\ w.found = wk[k].found /\ w.fresh = wk[k].fresh
    BY Typed DEF Workers
  <2>6. /\ cr[k].present /\ cr[k].fin
        /\ w.init.id = w.obj.status.id
        /\ w.found <= issued[k]
        /\ w.found # NoID => w.init.id <= w.found
        /\ new.status.id = w.init.id
        /\ IDsOf(k, new) /\ IDsOf(k, w.obj)
    BY <1>1, <1>3, <2>1, <2>3, <2>5 DEF Sound, WorkerSound, IDsOf
  <2>7. w.init.id <= w.obj.status.id
    BY <2>1, <2>5, <2>6, Numbers
  <2> HIDE DEF new, w
  <2> QED
    BY <1>1, <1>3, <2>3, <2>4, <2>5, <2>6, <2>7, CommitSound
<1> QED
  BY <1>2, <1>3 DEF MarkDeleting

LEMMA UnbindSound ==
    ASSUME GitHubTypeOK, NEW k \in kinds, Sound(k), Unbind(k)
    PROVE  About(k) /\ Sound(k)'
<1> DEFINE new == [cr[k] EXCEPT !.fin = FALSE, !.present = FALSE]
           w == [wk[k] EXCEPT !.pc = "finish", !.fresh = FALSE]
<1>1. /\ UNCHANGED <<kinds, applied, garm, issued>> /\ Spending
      /\ wk[k].pc = "unbind"
  BY DEF Unbind, At, Spending, Disturbances
<1>2. CASE Goto(k, "finish") /\ UNCHANGED <<cr, cache>>
  BY <1>1, <1>2, EndSound
<1>3. CASE wk[k].fresh /\ Commit(k, new, w)
  <2>0. cr[k] \in Objects /\ wk[k] \in Workers
    BY Typed
  <2>1. ~new.present /\ new.status = cr[k].status
    BY <2>0 DEF Objects
  <2>2. new \in Objects
    BY <2>0 DEF Objects
  <2>3. w \in Workers
    BY <2>0 DEF Workers, Points
  <2>4. /\ w.pc = "finish" /\ w.obj = wk[k].obj /\ w.init = wk[k].init
        /\ w.found = wk[k].found /\ ~w.fresh
    BY <2>0 DEF Workers
  <2>5. /\ cr[k].present
        /\ new.status.id = wk[k].obj.status.id
        /\ wk[k].obj.status.id # NoID => garm[k].id # wk[k].obj.status.id
        /\ w.init.id <= w.obj.status.id
        /\ w.found <= issued[k]
        /\ w.found # NoID => w.init.id <= w.found
        /\ IDsOf(k, new) /\ IDsOf(k, w.obj)
    BY <1>1, <1>3, <2>1, <2>4 DEF Sound, WorkerSound, IDsOf
  <2>6. new # cr[k]
    BY <2>1, <2>5
  <2> HIDE DEF new, w
  <2> QED
    BY <1>1, <1>3, <2>1, <2>2, <2>3, <2>4, <2>5, <2>6, CommitSound
<1> QED
  BY <1>2, <1>3 DEF Unbind

\* A worker that has nothing to do.
LEMMA IdleIs ==
    ASSUME GitHubTypeOK, NEW k \in kinds
    PROVE  /\ IdleWorker.pc = "idle" /\ IdleWorker.found = NoID
           /\ IdleWorker.obj.status.id = NoID /\ IdleWorker.init.id = NoID
           /\ ~IdleWorker.fresh
           /\ IDsOf(k, IdleWorker.obj)
           /\ NoID <= issued[k] /\ NoID <= NoID
<1>1. NoID <= issued[k] /\ NoID <= NoID
  BY Numbers
<1> QED
  BY <1>1 DEF IdleWorker, NullObject, NoStatus, IDsOf

LEMMA UpdateStatusSound ==
    ASSUME GitHubTypeOK, NEW k \in kinds, Sound(k), UpdateStatus(k)
    PROVE  About(k) /\ Sound(k)'
<1> DEFINE new == [cr[k] EXCEPT !.status = wk[k].obj.status]
<1>1. UNCHANGED <<kinds, applied, garm, issued>> /\ Spending
  BY DEF UpdateStatus, Spending, Disturbances
<1>2. CASE wk' = [wk EXCEPT ![k] = IdleWorker] /\ UNCHANGED <<cr, cache>>
  BY <1>1, <1>2, EndSound
<1>3. CASE wk[k].fresh /\ Commit(k, new, IdleWorker)
  <2>1. /\ new \in Objects /\ new.status = wk[k].obj.status
        /\ new.present = cr[k].present /\ new.fin = cr[k].fin
    BY Typed DEF Objects
  <2>2. cr[k].present /\ cr[k].fin /\ IDsOf(k, new)
    BY <1>3, <2>1 DEF Sound, WorkerSound, IDsOf
  <2> HIDE DEF new
  <2> QED
    BY <1>1, <1>3, <2>1, <2>2, IdleIs, ConstantTypes, CommitSound
<1> QED
  BY <1>2, <1>3 DEF UpdateStatus

LEMMA EnsureFinalizerSound ==
    ASSUME GitHubTypeOK, NEW k \in kinds, Sound(k), EnsureFinalizer(k)
    PROVE  About(k) /\ Sound(k)'
<1> DEFINE new == [cr[k] EXCEPT !.fin = TRUE]
<1>1. /\ UNCHANGED <<kinds, applied, garm, issued>> /\ Spending
      /\ wk[k].pc = "idle" /\ cache[k].fresh
      /\ Commit(k, new, wk[k])
  BY DEF EnsureFinalizer, MayStart, At, Spending
<1>2. /\ new \in Objects /\ new.status = cr[k].status
      /\ new.present = cr[k].present /\ new.fin
  BY Typed DEF Objects
<1>3. cr[k].present /\ IDsOf(k, new)
  BY <1>1, <1>2 DEF Sound, ObjectSound, IDsOf
<1>4. /\ IDsOf(k, wk[k].obj)
      /\ wk[k].init.id <= wk[k].obj.status.id
      /\ wk[k].init.id = wk[k].obj.status.id
      /\ wk[k].found <= issued[k]
      /\ wk[k].found # NoID => wk[k].init.id <= wk[k].found
      /\ wk[k].fresh => new.status.id = wk[k].init.id
  BY <1>1, <1>2 DEF Sound, WorkerSound
<1> HIDE DEF new
<1> QED
  BY <1>1, <1>2, <1>3, <1>4, Typed, CommitSound

LEMMA ReconcileSound ==
    ASSUME GitHubTypeOK, NEW k \in kinds, Sound(k), Reconcile(k)
    PROVE  About(k) /\ Sound(k)'
<1> DEFINE c == cache[k].obj
           ready == IF c.status.ready = "none" THEN "unknown"
                    ELSE c.status.ready
           o == [c EXCEPT !.status.ready = ready]
           w == [pc    |-> FirstPoint(k, c.deleting),
                 obj   |-> o,
                 fresh |-> cache[k].fresh,
                 init  |-> c.status,
                 found |-> NoID]
<1>1. /\ UNCHANGED <<kinds, cr, cache, applied, garm, issued>> /\ Spending
      /\ c.present /\ (c.deleting \/ c.fin)
  BY DEF Reconcile, MayStart, Spending, Disturbances
<1>2. wk' = [wk EXCEPT ![k] = w]
  BY DEF Reconcile
<1>3. ready \in Readiness
  BY Typed DEF Statuses, Readiness
<1>4. o \in Objects /\ o.status.id = c.status.id
  <2> HIDE DEF ready
  <2>1. o \in Objects
    BY <1>3, Typed, StoredObjects
  <2>2. o.status.id = c.status.id
    BY Typed DEF Objects, Statuses
  <2> QED
    BY <2>1, <2>2
<1>5. FirstPoint(k, c.deleting) \in {"mark", "find", "delete", "refs"}
  BY DEF FirstPoint
<1> HIDE DEF o
<1>6. w \in Workers
  BY <1>4, <1>5, Typed, ConstantTypes DEF Workers, Points
<1>7. wk'[k] = w
  BY <1>2 DEF GitHubTypeOK
<1>8. WorkerOf(k)
  BY <1>2, <1>6 DEF WorkerOf
<1>9. About(k)
  BY <1>1, <1>8, SameEntity, SameObject DEF About
<1>10. ObjectSound(k)'
  BY <1>1, <1>9, SameEntity, AboutType, ObjectStays DEF Sound
<1>11. cache[k].fresh => /\ cr[k].present /\ cr[k].fin
                         /\ cr[k].status.id = c.status.id
  BY <1>1, Typed DEF Sound, ObjectSound
<1>12. NoID <= issued[k] /\ c.status.id <= c.status.id
  BY Numbers
<1>13. IDsOf(k, c)
  BY DEF Sound, ObjectSound
<1>14. /\ wk'[k].pc \in {"mark", "find", "delete", "refs"}
       /\ wk'[k].obj.status.id = c.status.id /\ wk'[k].found = NoID
       /\ wk'[k].init.id = c.status.id /\ wk'[k].fresh = cache[k].fresh
  BY <1>4, <1>5, <1>7
<1> HIDE DEF c, w
<1>15. WorkerSound(k)'
  BY <1>1, <1>11, <1>12, <1>13, <1>14 DEF WorkerSound, IDsOf
<1> QED
  BY <1>9, <1>10, <1>15 DEF Sound

(***************************************************************************)
(* Every step of a controller is about the kind of its objects.            *)
(***************************************************************************)
Steps(k) == \/ EnsureFinalizer(k) \/ Reconcile(k) \/ UpdateStatus(k)
            \/ FetchRefs(k) \/ GetExisting(k) \/ Create(k) \/ Update(k)
            \/ k = "credential" /\ (GetCredential(k) \/ MarkDeleting(k))
            \/ Delete(k) \/ Unbind(k)

LEMMA ControllersAre == Controllers => \E k \in kinds : Steps(k)
<1>1. \A k : Steps(k) => k \in kinds
  BY DEF Steps, EnsureFinalizer, Reconcile, MayStart, UpdateStatus,
         FetchRefs, GetExisting, Create, Update, GetCredential, MarkDeleting,
         Delete, Unbind, At
<1>2. RepositoryController => Steps("repository")
  BY DEF RepositoryController, RepositoryReconcile, RepositoryNormal,
         RepositoryDelete, Steps
<1>3. OrganizationController => Steps("organization")
  BY DEF OrganizationController, OrganizationReconcile, OrganizationNormal,
         OrganizationDelete, Steps
<1>4. EnterpriseController => Steps("enterprise")
  BY DEF EnterpriseController, EnterpriseReconcile, EnterpriseNormal,
         EnterpriseDelete, Steps
<1>5. CredentialController => Steps("credential")
  BY DEF CredentialController, CredentialReconcile, CredentialNormal,
         CredentialDelete, Steps
<1>6. EndpointController => Steps("endpoint")
  BY DEF EndpointController, EndpointReconcile, EndpointNormal,
         EndpointDelete, Steps
<1> QED
  BY <1>1, <1>2, <1>3, <1>4, <1>5, <1>6 DEF Controllers

LEMMA StepsSound ==
    ASSUME GitHubTypeOK, NEW k \in kinds, Sound(k), Steps(k)
    PROVE  About(k) /\ Sound(k)'
BY EnsureFinalizerSound, ReconcileSound, UpdateStatusSound, FetchRefsSound,
   GetExistingSound, CreateSound, UpdateSound, GetCredentialSound,
   MarkDeletingSound, DeleteSound, UnbindSound DEF Steps

(***************************************************************************)
(* Caches, users and garm keep the invariant.                              *)
(***************************************************************************)

LEMMA CacheSyncSound ==
    ASSUME GitHubTypeOK, NEW k \in kinds, Sound(k), CacheSync(k)
    PROVE  About(k) /\ Sound(k)'
<1> DEFINE c == [obj |-> cr[k], fresh |-> cr[k].present]
<1>1. /\ UNCHANGED <<kinds, cr, applied, wk, garm, issued, budget>>
      /\ cache' = [cache EXCEPT ![k] = c]
  BY DEF CacheSync
<1>2. c \in Copies /\ cr = [cr EXCEPT ![k] = cr[k]] /\ cache'[k] = c
  BY <1>1, Typed DEF Copies, Objects, GitHubTypeOK
<1>3. ObjectOf(k)
  BY <1>1, <1>2, Typed DEF ObjectOf
<1>4. About(k)
  BY <1>1, <1>3, SameObject, SameEntity DEF About, Spending
<1>5. ObjectSound(k)'
  BY <1>1, <1>2 DEF Sound, ObjectSound, IDsOf, InGarm, Released
<1>6. WorkerSound(k)'
  BY <1>1 DEF Sound, WorkerSound, IDsOf
<1> QED
  BY <1>4, <1>5, <1>6 DEF Sound

\* A user writes the object: its ids stay.
LEMMA UserWriteSound ==
    ASSUME GitHubTypeOK, NEW k \in kinds, Sound(k),
           NEW new \in Objects, UserWrite(k, new),
           UNCHANGED <<kinds, garm, issued>>, Spending,
           applied' \in {applied, applied \cup {k}},
           new.status.id = cr[k].status.id,
           k \in applied',
           new.present /\ ~new.fin => ~new.deleting /\ new.status.id = NoID,
           ~new.present => new.status.id = NoID
    PROVE  About(k) /\ Sound(k)'
<1>1. /\ WorkerOf(k) /\ ObjectOf(k)
      /\ cr'[k] = new
      /\ cache'[k].obj = cache[k].obj /\ ~cache'[k].fresh
      /\ wk'[k] = [wk[k] EXCEPT !.fresh = FALSE]
  BY UserWriteIs
<1>2. About(k)
  BY <1>1, SameEntity DEF About
<1>3. IDsOf(k, cr[k])' /\ IDsOf(k, cache[k].obj)'
  BY <1>1 DEF Sound, ObjectSound, IDsOf
<1>4. InGarm(k)' => garm'[k].id = issued'[k]
  BY DEF Sound, ObjectSound, InGarm
<1>5. Released(k)' => cr'[k].status.id = NoID
  BY <1>1 DEF Released
<1>6. ObjectSound(k)'
  BY <1>1, <1>3, <1>4, <1>5 DEF ObjectSound
<1>7. /\ wk'[k].pc = wk[k].pc /\ wk'[k].obj = wk[k].obj
      /\ wk'[k].init = wk[k].init /\ wk'[k].found = wk[k].found
      /\ ~wk'[k].fresh
  BY <1>1, Typed DEF Workers
<1>8. WorkerSound(k)'
  BY <1>7 DEF Sound, WorkerSound, IDsOf
<1> QED
  BY <1>2, <1>6, <1>8 DEF Sound

LEMMA UserSound ==
    ASSUME GitHubTypeOK, NEW k \in kinds, Sound(k), User(k)
    PROVE  About(k) /\ Sound(k)'
<1>0. cr[k] \in Objects
  BY Typed
<1>1. CASE Apply(k)
  <2> DEFINE new == [NullObject EXCEPT !.present = TRUE]
  <2>1. /\ new \in Objects /\ new.status.id = NoID /\ new.present
        /\ ~new.deleting
    BY ConstantTypes DEF NullObject, NoStatus
  <2>2. /\ applied' = applied \cup {k} /\ k \notin applied
        /\ UserWrite(k, new)
        /\ UNCHANGED <<kinds, garm, issued, budget>>
    BY <1>1 DEF Apply
  <2>3. cr[k].status.id = NoID
    BY <2>2 DEF Sound, ObjectSound
  <2> HIDE DEF new
  <2> QED
    BY <2>1, <2>2, <2>3, UserWriteSound DEF Spending
<1>2. cr[k].present => k \in applied
  BY DEF Sound, ObjectSound
<1>3. CASE EditSpec(k)
  <2>1. PICK v \in Versions : UserWrite(k, [cr[k] EXCEPT !.spec = v])
    BY <1>3 DEF EditSpec
  <2> DEFINE new == [cr[k] EXCEPT !.spec = v]
  <2>2. /\ new \in Objects /\ new.status = cr[k].status
        /\ new.present = cr[k].present /\ new.fin = cr[k].fin
        /\ new.deleting = cr[k].deleting
    BY <1>0 DEF Objects
  <2>3. /\ cr[k].present /\ UNCHANGED <<kinds, applied, garm, issued>>
        /\ Spending
    BY <1>3 DEF EditSpec, Exists, Spending, Disturbances
  <2>4. UserWrite(k, new)
    BY <2>1
  <2>5. new.present /\ ~new.fin => ~new.deleting /\ new.status.id = NoID
    BY <2>2 DEF Sound, ObjectSound
  <2> HIDE DEF new
  <2> QED
    BY <1>2, <2>2, <2>3, <2>4, <2>5, UserWriteSound
<1>4. CASE TogglePaused(k)
  <2> DEFINE new == [cr[k] EXCEPT !.paused = ~cr[k].paused]
  <2>2. /\ new \in Objects /\ new.status = cr[k].status
        /\ new.present = cr[k].present /\ new.fin = cr[k].fin
        /\ new.deleting = cr[k].deleting
    BY <1>0 DEF Objects
  <2>3. /\ cr[k].present /\ UNCHANGED <<kinds, applied, garm, issued>>
        /\ Spending /\ UserWrite(k, new)
    BY <1>4 DEF TogglePaused, Exists, Spending, Disturbances
  <2>4. new.present /\ ~new.fin => ~new.deleting /\ new.status.id = NoID
    BY <2>2 DEF Sound, ObjectSound
  <2> HIDE DEF new
  <2> QED
    BY <1>2, <2>2, <2>3, <2>4, UserWriteSound
<1>5. CASE RequestDelete(k)
  <2> DEFINE new == [cr[k] EXCEPT !.deleting = TRUE, !.present = cr[k].fin]
  <2>1. new \in Objects
    BY <1>0 DEF Objects
  <2>2. /\ new.status = cr[k].status /\ new.present = cr[k].fin
        /\ new.fin = cr[k].fin
    BY <1>0 DEF Objects
  <2>3. /\ cr[k].present /\ UNCHANGED <<kinds, applied, garm, issued, budget>>
        /\ UserWrite(k, new)
    BY <1>5 DEF RequestDelete, Exists
  <2>4. ~new.present => new.status.id = NoID
    BY <2>2, <2>3 DEF Sound, ObjectSound
  <2> HIDE DEF new
  <2> QED
    BY <1>2, <2>1, <2>2, <2>3, <2>4, UserWriteSound DEF Spending
<1> QED
  BY <1>1, <1>3, <1>4, <1>5 DEF User

LEMMA ExternalSound ==
    ASSUME GitHubTypeOK, NEW k \in kinds, Sound(k),
           CreatedExternally(k) \/ DeletedExternally(k)
    PROVE  About(k) /\ Sound(k)'
<1>1. UNCHANGED <<kinds, cr, applied, cache, wk>> /\ Spending
  BY DEF CreatedExternally, DeletedExternally, Spending, Disturbances
<1>2. EntityOf(k) /\ IDStep(k)
  <2>1. CASE CreatedExternally(k)
    BY <2>1, CreatesIs DEF CreatedExternally
  <2>2. CASE DeletedExternally(k)
    BY <2>2, DeletesIs DEF DeletedExternally
  <2> QED
    BY <2>1, <2>2
<1>3. About(k)
  BY <1>1, <1>2, SameObject DEF About
<1>4. ObjectSound(k)'
  BY <1>1, <1>2, <1>3, AboutType, ObjectStays DEF Sound
<1>5. issued'[k] >= issued[k] /\ issued'[k] \in Nat
  BY <1>2, Numbers DEF IDStep
<1>6. IDsOf(k, wk[k].obj)' /\ wk'[k].found <= issued'[k]
  BY <1>1, <1>5, Numbers DEF Sound, WorkerSound, IDsOf
<1>7. wk[k].pc = "unbind" /\ wk[k].obj.status.id # NoID =>
          garm'[k].id # wk[k].obj.status.id
  <2>1. wk[k].obj.status.id # issued[k] + 1
    BY Numbers DEF Sound, WorkerSound, IDsOf
  <2> QED
    BY <1>2, <2>1 DEF Sound, WorkerSound, IDStep
<1>8. WorkerSound(k)'
  BY <1>1, <1>6, <1>7 DEF Sound, WorkerSound
<1> QED
  BY <1>3, <1>4, <1>8 DEF Sound

-----------------------------------------------------------------------------
(***************************************************************************)
(* The invariant is inductive.                                             *)
(***************************************************************************)

Action(k) == Steps(k) \/ CacheSync(k) \/ User(k)
                \/ CreatedExternally(k) \/ DeletedExternally(k)

LEMMA ActionSound ==
    ASSUME GitHubTypeOK, NEW k \in kinds, Sound(k), Action(k)
    PROVE  About(k) /\ Sound(k)'
BY StepsSound, CacheSyncSound, UserSound, ExternalSound DEF Action

LEMMA NextIs == Next => (\E k \in kinds : Action(k)) \/ Crash
<1>1. \A k : CacheSync(k) \/ User(k) \/ CreatedExternally(k)
                \/ DeletedExternally(k) => k \in kinds
  BY DEF CacheSync, User, Apply, EditSpec, TogglePaused, RequestDelete,
         Exists, CreatedExternally, DeletedExternally
<1> QED
  BY <1>1, ControllersAre DEF Next, Action

\* What is kept of another kind stays.
LEMMA OthersStay ==
    ASSUME GitHubTypeOK, NEW k \in kinds, About(k), NEW s \in kinds, s # k
    PROVE  /\ wk'[s] = wk[s] /\ cr'[s] = cr[s] /\ cache'[s] = cache[s]
           /\ garm'[s] = garm[s] /\ issued'[s] = issued[s]
           /\ s \in applied' <=> s \in applied
BY DEF About, WorkerOf, ObjectOf, EntityOf, GitHubTypeOK

LEMMA OthersSound ==
    ASSUME GitHubTypeOK, NEW k \in kinds, About(k),
           NEW s \in kinds, s # k, Sound(s)
    PROVE  Sound(s)'
<1>1. /\ wk'[s] = wk[s] /\ cr'[s] = cr[s] /\ cache'[s] = cache[s]
      /\ garm'[s] = garm[s] /\ issued'[s] = issued[s]
      /\ s \in applied' <=> s \in applied
  BY OthersStay
<1>2. ObjectSound(s)'
  BY <1>1 DEF Sound, ObjectSound, IDsOf, InGarm, Released
<1>3. WorkerSound(s)'
  BY <1>1 DEF Sound, WorkerSound, IDsOf
<1> QED
  BY <1>2, <1>3 DEF Sound

LEMMA CrashSound ==
    ASSUME GitHubInv, Crash
    PROVE  GitHubInv'
<1>1. /\ UNCHANGED <<kinds, cr, applied, garm, issued>>
      /\ Spend("crash")
      /\ wk' = [k \in kinds |-> IdleWorker]
      /\ cache' = [k \in kinds |-> [obj |-> cr[k], fresh |-> cr[k].present]]
      /\ GitHubTypeOK
  BY DEF Crash, GitHubInv
<1>2. budget' \in [Disturbances -> Nat]
  BY <1>1, SpendType DEF Disturbances, GitHubTypeOK
<1>3. \A k \in kinds : [obj |-> cr[k], fresh |-> cr[k].present] \in Copies
  BY <1>1, Typed DEF Copies, Objects
<1>4. GitHubTypeOK'
  BY <1>1, <1>2, <1>3, ConstantTypes DEF GitHubTypeOK
<1>5. ASSUME NEW k \in kinds PROVE Sound(k)'
  <2>1. Sound(k)
    BY DEF GitHubInv
  <2>2. wk'[k] = IdleWorker
        /\ cache'[k] = [obj |-> cr[k], fresh |-> cr[k].present]
    BY <1>1
  <2>3. ObjectSound(k)'
    BY <1>1, <2>1, <2>2 DEF Sound, ObjectSound, IDsOf, InGarm, Released
  <2>4. WorkerSound(k)'
    BY <1>1, <2>2, IdleIs DEF WorkerSound, IDsOf
  <2> QED
    BY <2>3, <2>4 DEF Sound
<1> QED
  BY <1>1, <1>4, <1>5 DEF GitHubInv

LEMMA InitGitHubInv == Init => GitHubInv
<1> SUFFICES ASSUME Init PROVE GitHubInv
  OBVIOUS
<1>1. PICK p \in Plans : kinds = p.kinds /\ budget = p.budget
  BY DEF Init
<1>2. kinds \subseteq Kinds /\ budget \in [Disturbances -> Nat]
  BY <1>1, GitHubConstants
<1>3. [obj |-> NullObject, fresh |-> FALSE] \in Copies /\ 0 \in 0 .. MaxID
  BY ConstantTypes, GitHubConstants DEF Copies
<1>4. GitHubTypeOK
  BY <1>2, <1>3, ConstantTypes DEF Init, GitHubTypeOK
<1>5. ASSUME NEW k \in kinds PROVE Sound(k)
  <2>1. /\ cr[k] = NullObject /\ wk[k] = IdleWorker /\ k \notin applied
        /\ cache[k] = [obj |-> NullObject, fresh |-> FALSE]
        /\ garm[k] = NoEntity
    BY DEF Init
  <2>2. /\ ~NullObject.present /\ NullObject.status.id = NoID
        /\ NoEntity.id = NoID
    BY DEF NullObject, NoStatus, NoEntity
  <2>3. ObjectSound(k)
    BY <1>4, <2>1, <2>2, IdleIs DEF ObjectSound, IDsOf, InGarm, Released
  <2>4. WorkerSound(k)
    BY <1>4, <2>1, IdleIs DEF WorkerSound
  <2> QED
    BY <2>3, <2>4 DEF Sound
<1> QED
  BY <1>4, <1>5 DEF GitHubInv

LEMMA GitHubInvStep == GitHubInv /\ [Next]_vars => GitHubInv'
<1> SUFFICES ASSUME GitHubInv, [Next]_vars PROVE GitHubInv'
  OBVIOUS
<1>1. ASSUME NEW k \in kinds, Action(k) PROVE GitHubInv'
  <2>1. About(k) /\ Sound(k)'
    BY <1>1, ActionSound DEF GitHubInv
  <2>2. \A s \in kinds : Sound(s)'
    BY <2>1, OthersSound DEF GitHubInv
  <2>3. GitHubTypeOK' /\ UNCHANGED kinds
    BY <2>1, AboutType DEF GitHubInv, About
  <2> QED
    BY <2>2, <2>3 DEF GitHubInv
<1>2. CASE UNCHANGED vars
  BY <1>2 DEF vars, GitHubInv, GitHubTypeOK, Sound, ObjectSound, WorkerSound,
              IDsOf, InGarm, Released
<1> QED
  BY <1>1, <1>2, CrashSound, NextIs

\* The inductive invariant holds in every reachable state.
THEOREM GitHubSound == Spec => []GitHubInv
BY InitGitHubInv, GitHubInvStep, PTL DEF Spec

\* Every variable keeps its type, whatever the controllers, users and garm do.
THEOREM GitHubTypeCorrect == Spec => []GitHubTypeOK
<1>1. GitHubInv => GitHubTypeOK
  BY DEF GitHubInv
<1> QED
  BY <1>1, GitHubSound, PTL

-----------------------------------------------------------------------------
(***************************************************************************)
(* That nothing the controller created or found is left needs a second     *)
(* invariant, for endpoints above all, which have no id to tell entities   *)
(* apart.  A deletionTimestamp is never taken away.  Hence a worker that   *)
(* deletes has its copy from an object on its way out, and so is every     *)
(* copy of an object that has lost its finalizer: once that is lost,       *)
(* nobody looks the entity up or creates it any more.                      *)
(***************************************************************************)

Deleting(k) == wk[k].pc \in {"mark", "delete", "unbind"}

OursSound(k) ==
    /\ cache[k].obj.deleting => cr[k].deleting
    /\ Deleting(k) => cache[k].obj.deleting
    /\ k \notin MayBeLeft /\ wk[k].pc = "unbind" => Gone(k)
    /\ ~cr[k].fin =>
          /\ Deleting(k) \/ wk[k].pc \in {"idle", "finish"}
          /\ cache[k].obj.fin => cache[k].obj.deleting
          /\ k \notin MayBeLeft => Gone(k)
    /\ k \notin applied => ~cr[k].fin /\ ~cr[k].deleting
    /\ cr[k].fin => cr[k].present

OursInv == \A k \in kinds : OursSound(k)

\* reconcileNormal is at work only for an object that has its finalizer.
LEMMA NormalKeeps ==
    ASSUME NEW k \in kinds, OursSound(k),
           wk[k].pc \in {"refs", "find", "create", "update", "get"},
           UNCHANGED <<cr, cache, applied>>, ~Deleting(k)'
    PROVE  OursSound(k)'
BY DEF OursSound, Deleting

\* The worker goes on, and leaves nothing in garm that was not there.
LEMMA WorkerKeeps ==
    ASSUME NEW k \in kinds, OursSound(k),
           UNCHANGED <<cr, cache, applied>>,
           k \notin MayBeLeft /\ Gone(k) => Gone(k)',
           Deleting(k)' => cache[k].obj.deleting,
           k \notin MayBeLeft /\ wk'[k].pc = "unbind" => Gone(k)',
           ~cr[k].fin => Deleting(k)' \/ wk'[k].pc \in {"idle", "finish"}
    PROVE  OursSound(k)'
BY DEF OursSound

\* The object is written; its finalizer goes only after the entity.
LEMMA WriteKeeps ==
    ASSUME NEW k \in kinds, OursSound(k), UNCHANGED garm, k \in applied',
           cache'[k].obj = cache[k].obj,
           cr[k].deleting => cr'[k].deleting,
           cr'[k].fin => cr'[k].present,
           Deleting(k)' => Deleting(k),
           wk'[k].pc = "unbind" => wk[k].pc = "unbind",
           cr[k].fin /\ ~cr'[k].fin => wk[k].pc = "unbind",
           Deleting(k)' \/ wk'[k].pc = wk[k].pc
                        \/ wk'[k].pc \in {"idle", "finish"}
    PROVE  OursSound(k)'
<1>1. Gone(k)' <=> Gone(k)
  BY DEF Gone, InGarm
<1>2. ~cr'[k].fin /\ cr[k].fin => Deleting(k) /\ (k \notin MayBeLeft => Gone(k))
  BY DEF OursSound, Deleting
<1>3. ~cr'[k].fin => Deleting(k)' \/ wk'[k].pc \in {"idle", "finish"}
  BY <1>2 DEF OursSound, Deleting
<1> QED
  BY <1>1, <1>2, <1>3 DEF OursSound

LEMMA DeletesGone ==
    ASSUME GitHubTypeOK, NEW k \in kinds, NEW id, GarmDeletes(k, id)
    PROVE  /\ k \notin MayBeLeft => Gone(k)'
           /\ Gone(k) => Gone(k)'
<1>1. CASE garm' = [garm EXCEPT ![k] = NoEntity]
  BY <1>1 DEF GitHubTypeOK, NoEntity, Gone, InGarm
<1>2. CASE ~Entity(k, id) /\ k \in Forgiving /\ UNCHANGED garm
  BY <1>2 DEF Entity, MayBeLeft, Gone, InGarm
<1> QED
  BY <1>1, <1>2 DEF GarmDeletes

LEMMA NormalOurs ==
    ASSUME GitHubTypeOK, NEW k \in kinds, OursSound(k),
           \/ FetchRefs(k) \/ GetExisting(k) \/ Create(k) \/ Update(k)
           \/ GetCredential(k)
    PROVE  OursSound(k)'
<1>1. /\ UNCHANGED <<cr, cache, applied>>
      /\ wk[k].pc \in {"refs", "find", "create", "update", "get"}
  BY DEF FetchRefs, GetExisting, Create, Update, GetCredential, At
<1>2. ASSUME NEW ready \in Readiness, Return(k, ready)
      PROVE  wk'[k].pc = "finish"
  BY <1>2, ReturnIs
<1>3. Fail(k) => wk'[k].pc = "finish"
  BY <1>2 DEF Fail, Readiness
<1>4. ASSUME NEW point \in Points, Goto(k, point)
      PROVE  wk'[k].pc = point
  BY <1>4, GotoIs, Typed DEF Workers
<1>5. ASSUME NEW id \in 0 .. MaxID, NEW point \in Points,
             \/ wk' = [wk EXCEPT ![k].found = id, ![k].pc = point]
             \/ wk' = [wk EXCEPT ![k].pc = point, ![k].found = id]
      PROVE  wk'[k].pc = point
  BY <1>5, FoundIs
<1>6. \A id : Known(id) \in {"create", "update"}
  BY DEF Known
<1>7. CASE FetchRefs(k)
  <2> DEFINE point == IF k = "credential" THEN Known(wk[k].found) ELSE "find"
  <2>1. point \in Points /\ ~(point \in {"mark", "delete", "unbind"})
    BY <1>6 DEF Points
  <2>2. Fail(k) \/ Goto(k, point)
    BY <1>7 DEF FetchRefs
  <2> HIDE DEF point
  <2>3. wk'[k].pc \in {"finish", point}
    BY <1>3, <1>4, <2>1, <2>2
  <2> QED
    BY <1>1, <2>1, <2>3, NormalKeeps DEF Deleting
<1>8. CASE GetExisting(k)
  <2> DEFINE point == IF k = "credential" THEN "refs" ELSE Known(garm[k].id)
  <2>1. point \in Points /\ ~(point \in {"mark", "delete", "unbind"})
    BY <1>6 DEF Points
  <2>2. \/ Fail(k)
        \/ wk' = [wk EXCEPT ![k].found = garm[k].id, ![k].pc = point]
    BY <1>8 DEF GetExisting
  <2> HIDE DEF point
  <2>3. wk'[k].pc \in {"finish", point}
    BY <1>3, <1>5, <2>1, <2>2, Numbers
  <2> QED
    BY <1>1, <2>1, <2>3, NormalKeeps DEF Deleting
<1>9. CASE Create(k)
  <2>1. \/ Fail(k)
        \/ /\ GarmCreates(k, wk[k].obj.spec, TRUE)
           /\ wk' = [wk EXCEPT ![k].pc = "update", ![k].found = issued'[k]]
    BY <1>9 DEF Create
  <2>2. GarmCreates(k, wk[k].obj.spec, TRUE) => issued'[k] \in 0 .. MaxID
    BY Numbers, GitHubConstants DEF GarmCreates, GitHubTypeOK
  <2>3. wk'[k].pc \in {"finish", "update"}
    BY <1>3, <1>5, <2>1, <2>2 DEF Points
  <2> QED
    BY <1>1, <2>3, NormalKeeps DEF Deleting
<1>10. CASE Update(k) \/ GetCredential(k)
  <2>0. ASSUME NEW s, wk' = [wk EXCEPT ![k].pc = "finish",
                                       ![k].found = NoID,
                                       ![k].obj.status = s]
        PROVE  wk'[k].pc = "finish"
    BY <2>0, Typed DEF GitHubTypeOK, Workers
  <2>1. \/ Fail(k) \/ Return(k, "true") \/ Goto(k, "get")
        \/ wk'[k].pc = "finish"
    <3>1. CASE GetCredential(k)
      BY <2>0, <3>1 DEF GetCredential
    <3>2. CASE Update(k)
      <4>1. Fail(k) \/ Updated(k)
        BY <3>2 DEF Update
      <4>2. ASSUME NEW ready,
                   wk' = [wk EXCEPT ![k].pc = "finish",
                                    ![k].found = NoID,
                                    ![k].obj.status =
                                       [@ EXCEPT !.id = wk[k].found,
                                                 !.ready = ready]]
            PROVE  wk'[k].pc = "finish"
        BY <4>2, Typed DEF GitHubTypeOK, Workers
      <4> QED
        BY <4>1, <4>2 DEF Updated
    <3> QED
      BY <1>10, <3>1, <3>2
  <2>2. wk'[k].pc \in {"finish", "get"}
    BY <1>2, <1>3, <1>4, <2>1 DEF Points, Readiness
  <2> QED
    BY <1>1, <2>2, NormalKeeps DEF Deleting
<1> QED
  BY <1>7, <1>8, <1>9, <1>10

LEMMA DeleteOurs ==
    ASSUME GitHubTypeOK, NEW k \in kinds, OursSound(k), Delete(k)
    PROVE  OursSound(k)'
<1> DEFINE id == wk[k].obj.status.id
<1>1. /\ UNCHANGED <<cr, cache, applied>> /\ wk[k].pc = "delete"
      /\ cache[k].obj.deleting
  BY DEF Delete, At, OursSound, Deleting
<1>2. CASE GarmDeletes(k, id) /\ wk' = [wk EXCEPT ![k].pc = "unbind",
                                          ![k].obj.status.ready = "deleting"]
  <2>1. wk'[k].pc = "unbind"
    BY <1>2, ToUnbindIs
  <2>2. k \notin MayBeLeft => Gone(k)'
    BY <1>2, DeletesGone
  <2> QED
    BY <1>1, <2>1, <2>2, WorkerKeeps DEF Deleting
<1>3. CASE Fail(k) /\ (GarmDeletes(k, id) \/ UNCHANGED garm)
  <2>1. wk'[k].pc = "finish"
    BY <1>3, ReturnIs DEF Fail, Readiness
  <2>2. Gone(k) => Gone(k)'
    BY <1>3, DeletesGone DEF Gone, InGarm
  <2> QED
    BY <1>1, <2>1, <2>2, WorkerKeeps DEF Deleting
<1> QED
  BY <1>2, <1>3 DEF Delete

\* No write, and the worker goes on to the end of its reconciliation.
LEMMA EndOurs ==
    ASSUME NEW k \in kinds, OursSound(k),
           UNCHANGED <<cr, cache, applied, garm>>,
           wk'[k].pc \in {"idle", "finish"}
    PROVE  OursSound(k)'
BY WorkerKeeps DEF Deleting, Gone, InGarm

LEMMA WorkerOurs ==
    ASSUME GitHubTypeOK, NEW k \in kinds, Sound(k), OursSound(k),
           \/ EnsureFinalizer(k) \/ Reconcile(k) \/ MarkDeleting(k)
           \/ Unbind(k) \/ UpdateStatus(k)
    PROVE  OursSound(k)'
<1>0. /\ UNCHANGED <<applied, garm>>
      /\ cr[k] \in Objects /\ wk[k] \in Workers /\ wk[k].obj \in Objects
      /\ wk[k].obj.status \in Statuses
      /\ wk[k].fresh \/ cache[k].fresh => k \in applied /\ cr[k].present
  BY Typed DEF EnsureFinalizer, Reconcile, MarkDeleting, Unbind, UpdateStatus,
               Sound, ObjectSound, WorkerSound
\* What is written, and where the worker goes.
<1>1. ASSUME NEW new \in Objects, NEW w \in Workers, Commit(k, new, w),
             k \in applied, new.deleting = cr[k].deleting,
             w.pc # "unbind", new.fin => new.present,
             w.pc \in {"mark", "delete"} => Deleting(k),
             cr[k].fin /\ ~new.fin => wk[k].pc = "unbind",
             w.pc \in {"delete", "idle", "finish"}
      PROVE  OursSound(k)'
  <2>1. cr'[k] = new /\ wk'[k] = w /\ cache'[k].obj = cache[k].obj
    BY <1>1, CommitIs
  <2>2. Deleting(k)' => Deleting(k)
    BY <1>1, <2>1 DEF Deleting
  <2>3. k \in applied'
    BY <1>0, <1>1
  <2>4. Deleting(k)' \/ wk'[k].pc \in {"idle", "finish"}
    BY <1>1, <2>1 DEF Deleting
  <2> QED
    BY <1>0, <1>1, <2>1, <2>2, <2>3, <2>4, WriteKeeps
<1>2. CASE EnsureFinalizer(k)
  <2> DEFINE new == [cr[k] EXCEPT !.fin = TRUE]
  <2>1. /\ new \in Objects /\ new.deleting = cr[k].deleting /\ new.fin
        /\ new.present = cr[k].present
    BY <1>0 DEF Objects
  <2>2. Commit(k, new, wk[k]) /\ wk[k].pc = "idle" /\ cache[k].fresh
    BY <1>2 DEF EnsureFinalizer, MayStart, At
  <2> HIDE DEF new
  <2> QED
    BY <1>0, <1>1, <2>1, <2>2
<1>3. CASE Reconcile(k)
  <2> DEFINE c == cache[k].obj
             first == FirstPoint(k, c.deleting)
  <2>1. /\ UNCHANGED <<cr, cache>> /\ (c.deleting \/ c.fin)
        /\ wk'[k].pc = first
    BY <1>3 DEF Reconcile, GitHubTypeOK
  <2>2. /\ first \in {"mark", "delete"} <=> c.deleting
        /\ first # "unbind"
    BY Typed DEF FirstPoint, Objects
  <2>3. Deleting(k)' <=> c.deleting
    BY <2>1, <2>2 DEF Deleting
  <2>4. ~cr[k].fin => c.deleting
    BY <2>1 DEF OursSound
  <2>5. Gone(k) => Gone(k)'
    BY <1>0 DEF Gone, InGarm
  <2> HIDE DEF first
  <2> QED
    BY <1>0, <2>1, <2>2, <2>3, <2>4, <2>5, WorkerKeeps
<1>4. CASE MarkDeleting(k)
  <2> DEFINE o == [wk[k].obj EXCEPT !.status.ready = "deleting"]
             new == [cr[k] EXCEPT !.status = o.status]
             w == [wk[k] EXCEPT !.pc = "delete", !.obj = o]
  <2>0. o \in Objects
    BY Typed, StoredObjects DEF Readiness
  <2>1. o.status \in Statuses
    BY <2>0 DEF Objects
  <2>2. \/ wk[k].fresh /\ Commit(k, new, w)
        \/ UNCHANGED <<cr, cache>> /\ Return(k, "deleting")
    BY <1>4 DEF MarkDeleting
  <2>3. wk[k].pc = "mark" /\ Deleting(k)
    BY <1>4 DEF MarkDeleting, At, Deleting
  <2> HIDE DEF o
  <2>4. /\ new \in Objects /\ new.deleting = cr[k].deleting
        /\ new.fin = cr[k].fin /\ new.present = cr[k].present
    BY <1>0, <2>1 DEF Objects
  <2>5. w \in Workers /\ w.pc = "delete"
    BY <1>0, <2>0 DEF Workers, Points
  <2> HIDE DEF new, w
  <2>6. CASE wk[k].fresh /\ Commit(k, new, w)
    BY <1>0, <1>1, <2>3, <2>4, <2>5, <2>6
  <2>7. CASE UNCHANGED <<cr, cache>> /\ Return(k, "deleting")
    BY <1>0, <2>7, ReturnIs, EndOurs DEF Readiness
  <2> QED
    BY <2>2, <2>6, <2>7
<1>5. CASE Unbind(k)
  <2> DEFINE new == [cr[k] EXCEPT !.fin = FALSE, !.present = FALSE]
             w == [wk[k] EXCEPT !.pc = "finish", !.fresh = FALSE]
  <2>1. new \in Objects
    BY <1>0 DEF Objects
  <2>2. new.deleting = cr[k].deleting /\ ~new.fin
    BY <1>0 DEF Objects
  <2>3. w \in Workers
    BY <1>0 DEF Workers, Points
  <2>4. w.pc = "finish"
    BY <1>0 DEF Workers
  <2>5. \/ wk[k].fresh /\ Commit(k, new, w)
        \/ UNCHANGED <<cr, cache>> /\ Goto(k, "finish")
    BY <1>5 DEF Unbind
  <2>6. wk[k].pc = "unbind"
    BY <1>5 DEF Unbind, At
  <2> HIDE DEF new, w
  <2>7. CASE wk[k].fresh /\ Commit(k, new, w)
    BY <1>0, <1>1, <2>1, <2>2, <2>3, <2>4, <2>6, <2>7
  <2>8. CASE UNCHANGED <<cr, cache>> /\ Goto(k, "finish")
    <3>1. wk'[k] = [wk[k] EXCEPT !.pc = "finish"]
      BY <2>8, GotoIs DEF Points
    <3>2. wk'[k].pc = "finish"
      BY <1>0, <3>1 DEF Workers
    <3> QED
      BY <1>0, <2>8, <3>2, EndOurs
  <2> QED
    BY <2>5, <2>7, <2>8
<1>6. CASE UpdateStatus(k)
  <2> DEFINE new == [cr[k] EXCEPT !.status = wk[k].obj.status]
  <2>1. /\ new \in Objects /\ new.deleting = cr[k].deleting
        /\ new.fin = cr[k].fin /\ new.present = cr[k].present
    BY <1>0 DEF Objects
  <2>2. \/ wk[k].fresh /\ Commit(k, new, IdleWorker)
        \/ UNCHANGED <<cr, cache>> /\ wk' = [wk EXCEPT ![k] = IdleWorker]
    BY <1>6 DEF UpdateStatus
  <2>3. IdleWorker \in Workers /\ IdleWorker.pc = "idle"
    BY ConstantTypes, IdleIs
  <2> HIDE DEF new
  <2>4. CASE wk[k].fresh /\ Commit(k, new, IdleWorker)
    BY <1>0, <1>1, <2>1, <2>3, <2>4
  <2>5. CASE UNCHANGED <<cr, cache>> /\ wk' = [wk EXCEPT ![k] = IdleWorker]
    <3>1. wk'[k] = IdleWorker
      BY <2>5 DEF GitHubTypeOK
    <3> QED
      BY <1>0, <2>3, <2>5, <3>1, EndOurs
  <2> QED
    BY <2>2, <2>4, <2>5
<1> QED
  BY <1>2, <1>3, <1>4, <1>5, <1>6

LEMMA UserOurs ==
    ASSUME GitHubTypeOK, NEW k \in kinds, Sound(k), OursSound(k), User(k)
    PROVE  OursSound(k)'
<1>0. cr[k] \in Objects /\ UNCHANGED garm
  BY Typed DEF User, Apply, EditSpec, TogglePaused, RequestDelete
<1>1. ASSUME NEW new \in Objects, UserWrite(k, new), k \in applied',
             cr[k].deleting => new.deleting, new.fin = cr[k].fin,
             new.fin => new.present
      PROVE  OursSound(k)'
  <2>1. /\ cr'[k] = new /\ cache'[k].obj = cache[k].obj
        /\ wk'[k] = [wk[k] EXCEPT !.fresh = FALSE]
    BY <1>1, UserWriteIs
  <2>2. wk'[k].pc = wk[k].pc
    BY <2>1, Typed DEF Workers
  <2> QED
    BY <1>0, <1>1, <2>1, <2>2, WriteKeeps DEF Deleting
<1>2. cr[k].present => k \in applied
  BY DEF Sound, ObjectSound
<1>3. CASE Apply(k)
  <2> DEFINE new == [NullObject EXCEPT !.present = TRUE]
  <2>1. new \in Objects /\ ~new.fin
    BY ConstantTypes DEF NullObject
  <2>2. UserWrite(k, new) /\ k \notin applied /\ k \in applied'
    BY <1>3 DEF Apply
  <2>3. cr[k].fin = FALSE /\ ~cr[k].deleting
    BY <1>0, <2>2 DEF OursSound, Objects
  <2>4. new.fin = FALSE
    BY DEF NullObject
  <2> HIDE DEF new
  <2> QED
    BY <1>1, <2>1, <2>2, <2>3, <2>4
<1>4. CASE EditSpec(k)
  <2>1. PICK v \in Versions : UserWrite(k, [cr[k] EXCEPT !.spec = v])
    BY <1>4 DEF EditSpec
  <2> DEFINE new == [cr[k] EXCEPT !.spec = v]
  <2>2. /\ new \in Objects /\ new.fin = cr[k].fin
        /\ new.deleting = cr[k].deleting /\ new.present = cr[k].present
    BY <1>0 DEF Objects
  <2>3. UserWrite(k, new) /\ k \in applied'
    BY <1>2, <1>4, <2>1 DEF EditSpec, Exists
  <2> HIDE DEF new
  <2> QED
    BY <1>1, <2>2, <2>3 DEF OursSound
<1>5. CASE TogglePaused(k)
  <2> DEFINE new == [cr[k] EXCEPT !.paused = ~cr[k].paused]
  <2>1. /\ new \in Objects /\ new.fin = cr[k].fin
        /\ new.deleting = cr[k].deleting /\ new.present = cr[k].present
    BY <1>0 DEF Objects
  <2>2. UserWrite(k, new) /\ k \in applied'
    BY <1>2, <1>5 DEF TogglePaused, Exists
  <2> HIDE DEF new
  <2> QED
    BY <1>1, <2>1, <2>2 DEF OursSound
<1>6. CASE RequestDelete(k)
  <2> DEFINE new == [cr[k] EXCEPT !.deleting = TRUE, !.present = cr[k].fin]
  <2>1. new \in Objects
    BY <1>0 DEF Objects
  <2>2. new.deleting /\ new.fin = cr[k].fin /\ (new.fin => new.present)
    BY <1>0 DEF Objects
  <2>3. UserWrite(k, new) /\ k \in applied'
    BY <1>2, <1>6 DEF RequestDelete, Exists
  <2> HIDE DEF new
  <2> QED
    BY <1>1, <2>1, <2>2, <2>3
<1> QED
  BY <1>3, <1>4, <1>5, <1>6 DEF User

LEMMA OutsideOurs ==
    ASSUME GitHubTypeOK, NEW k \in kinds, OursSound(k),
           CacheSync(k) \/ CreatedExternally(k) \/ DeletedExternally(k)
    PROVE  OursSound(k)'
<1>1. CASE CacheSync(k)
  <2>1. /\ UNCHANGED <<cr, applied, wk, garm>>
        /\ cache'[k].obj = cr[k]
    BY <1>1 DEF CacheSync, GitHubTypeOK
  <2> QED
    BY <2>1 DEF OursSound, Deleting, Gone, InGarm
<1>2. CASE CreatedExternally(k) \/ DeletedExternally(k)
  <2>1. UNCHANGED <<cr, applied, wk, cache>>
    BY <1>2 DEF CreatedExternally, DeletedExternally
  <2>2. CASE CreatedExternally(k)
    <3>1. PICK v \in Versions : GarmCreates(k, v, FALSE)
      BY <2>2 DEF CreatedExternally
    <3>2. ~garm'[k].ours
      BY <3>1 DEF GarmCreates, GitHubTypeOK
    <3> QED
      BY <2>1, <3>2 DEF OursSound, Deleting, Gone
  <2>3. CASE DeletedExternally(k)
    BY <2>1, <2>3, DeletesGone DEF DeletedExternally, OursSound, Deleting
  <2> QED
    BY <1>2, <2>2, <2>3
<1> QED
  BY <1>1, <1>2

LEMMA InitOurs == Init => OursInv
<1> SUFFICES ASSUME Init, NEW k \in kinds PROVE OursSound(k)
  BY DEF OursInv
<1>1. /\ cr[k] = NullObject /\ wk[k] = IdleWorker /\ garm[k] = NoEntity
      /\ cache[k] = [obj |-> NullObject, fresh |-> FALSE]
  BY DEF Init
<1> QED
  BY <1>1 DEF OursSound, Deleting, Gone, NullObject, IdleWorker, NoEntity

LEMMA OursStep == GitHubInv /\ OursInv /\ [Next]_vars => OursInv'
<1> SUFFICES ASSUME GitHubInv, OursInv, [Next]_vars PROVE OursInv'
  OBVIOUS
<1>1. ASSUME NEW k \in kinds, Action(k) PROVE OursInv'
  <2>0. GitHubTypeOK /\ Sound(k) /\ OursSound(k)
    BY DEF GitHubInv, OursInv
  <2>1. OursSound(k)'
    BY <1>1, <2>0, NormalOurs, DeleteOurs, WorkerOurs, UserOurs, OutsideOurs
       DEF Action, Steps
  <2>2. About(k) /\ UNCHANGED kinds
    BY <1>1, <2>0, ActionSound DEF About
  <2>3. ASSUME NEW s \in kinds, s # k PROVE OursSound(s)'
    BY <2>0, <2>2, <2>3, OthersStay
       DEF OursInv, OursSound, Deleting, Gone, InGarm
  <2> QED
    BY <2>1, <2>2, <2>3 DEF OursInv
<1>2. CASE Crash
  <2> SUFFICES ASSUME NEW k \in kinds PROVE OursSound(k)'
    BY <1>2 DEF OursInv, Crash
  <2>1. /\ UNCHANGED <<cr, applied, garm>>
        /\ wk'[k] = IdleWorker /\ cache'[k].obj = cr[k]
    BY <1>2 DEF Crash
  <2>2. wk'[k].pc = "idle"
    BY <2>1 DEF IdleWorker
  <2> QED
    BY <2>1, <2>2 DEF OursInv, OursSound, Deleting, Gone, InGarm
<1>3. CASE UNCHANGED vars
  BY <1>3 DEF vars, OursInv, OursSound, Deleting, Gone, InGarm
<1> QED
  BY <1>1, <1>2, <1>3, NextIs

LEMMA OursKept == Spec => []OursInv
BY InitOurs, OursStep, GitHubSound, PTL DEF Spec

\* What the controller created or found is gone when the object is released,
\* whether the object had an id or, as an endpoint, has none; and it does not
\* come back (reconcileDelete).
THEOREM ReleasedIsGone == Spec => []ReleasedMeansGone
<1>1. GitHubInv /\ OursInv => ReleasedMeansGone
  <2> SUFFICES ASSUME GitHubInv, OursInv, NEW k \in kinds, Released(k)
               PROVE  /\ cr[k].status.id # NoID =>
                            garm[k].id # cr[k].status.id
                      /\ k \notin MayBeLeft => Gone(k)
    BY DEF ReleasedMeansGone
  <2>1. cr[k].status.id # NoID => garm[k].id # cr[k].status.id
    BY DEF GitHubInv, Sound, ObjectSound
  <2>2. k \notin MayBeLeft => Gone(k)
    BY DEF OursInv, OursSound, Released
  <2> QED
    BY <2>1, <2>2
<1> QED
  BY <1>1, GitHubSound, OursKept, PTL

-----------------------------------------------------------------------------
(***************************************************************************)
(* What a step may do to the ids of k: something happens to its entity, or *)
(* to its object, never to both.                                           *)
(***************************************************************************)

EntityMoves(k) == /\ IDStep(k)
                  /\ cr'[k].status.id = cr[k].status.id
                  /\ Released(k)' = Released(k)

\* The id becomes one that is not older, or the object goes away.
ObjectMoves(k) ==
    /\ garm'[k].id = garm[k].id /\ issued'[k] = issued[k]
    /\ ~Released(k)
    /\ \/ /\ ~Released(k)'
          /\ cr'[k].status.id >= cr[k].status.id
          /\ cr'[k].status.id <= issued[k]
       \/ /\ Released(k)'
          /\ cr'[k].status.id = cr[k].status.id
          /\ cr[k].status.id # NoID => garm[k].id # cr[k].status.id

Moves(k) == EntityMoves(k) \/ ObjectMoves(k)

LEMMA EntityOnly ==
    ASSUME GitHubTypeOK, NEW k \in kinds, IDStep(k), UNCHANGED <<cr, applied>>
    PROVE  Moves(k)
BY DEF Moves, EntityMoves, Released

\* An object that is there is written.
LEMMA ObjectOnly ==
    ASSUME GitHubTypeOK, GitHubTypeOK', NEW k \in kinds, k \in kinds',
           Sound(k), Sound(k)',
           UNCHANGED <<applied, garm, issued>>, cr[k].present,
           cr'[k].status.id >= cr[k].status.id,
           ~cr'[k].present => cr'[k].status.id = cr[k].status.id
    PROVE  Moves(k)
<1>1. ~Released(k) /\ (Released(k)' => ~cr'[k].present)
  BY DEF Released
<1>2. cr'[k].status.id <= issued[k]
  BY DEF Sound, ObjectSound, IDsOf
<1>3. Released(k)' /\ cr'[k].status.id # NoID => garm[k].id # cr'[k].status.id
  BY DEF Sound, ObjectSound
<1> QED
  BY <1>1, <1>2, <1>3 DEF Moves, ObjectMoves

\* What a worker writes while its object is as it read it.
LEMMA CommitMoves ==
    ASSUME GitHubTypeOK, GitHubTypeOK', NEW k \in kinds, k \in kinds',
           Sound(k), Sound(k)',
           NEW new \in Objects, NEW w \in Workers, Commit(k, new, w),
           UNCHANGED <<applied, garm, issued>>, cr[k].present,
           new.status.id >= cr[k].status.id,
           ~new.present => new.status.id = cr[k].status.id
    PROVE  Moves(k)
BY CommitIs, ObjectOnly

LEMMA StepsMoves ==
    ASSUME GitHubTypeOK, GitHubTypeOK', NEW k \in kinds,
           Sound(k), Sound(k)', About(k), Steps(k)
    PROVE  Moves(k)
<1>0. /\ IDStep(k) /\ k \in kinds'
      /\ cr[k] \in Objects /\ wk[k] \in Workers
  BY Typed DEF About
<1>1. CASE UNCHANGED <<cr, applied>>
  BY <1>0, <1>1, EntityOnly
<1>2. CASE EnsureFinalizer(k)
  <2> DEFINE new == [cr[k] EXCEPT !.fin = TRUE]
  <2>1. /\ UNCHANGED <<applied, garm, issued>>
        /\ Commit(k, new, wk[k]) /\ cache[k].fresh
    BY <1>2 DEF EnsureFinalizer
  <2>2. /\ new \in Objects /\ new.status = cr[k].status
        /\ new.present = cr[k].present
    BY <1>0 DEF Objects
  <2>3. cr[k].present /\ new.status.id >= cr[k].status.id
    BY <2>1, <2>2, Numbers DEF Sound, ObjectSound
  <2> HIDE DEF new
  <2> QED
    BY <1>0, <2>1, <2>2, <2>3, CommitMoves
<1>3. CASE MarkDeleting(k)
  <2> DEFINE o == [wk[k].obj EXCEPT !.status.ready = "deleting"]
             new == [cr[k] EXCEPT !.status = o.status]
             w == [wk[k] EXCEPT !.pc = "delete", !.obj = o]
  <2>1. CASE wk[k].fresh /\ Commit(k, new, w)
    <3>0. o \in Objects
      BY Typed, StoredObjects DEF Readiness
    <3>1. o.status \in Statuses /\ o.status.id = wk[k].obj.status.id
      <4>1. o.status \in Statuses
        BY <3>0 DEF Objects
      <4>2. o.status.id = wk[k].obj.status.id
        BY Typed DEF Objects, Statuses
      <4> QED
        BY <4>1, <4>2
    <3> HIDE DEF o
    <3>2. /\ new \in Objects /\ new.status = o.status
          /\ new.present = cr[k].present
      BY <1>0, <3>1 DEF Objects
    <3>3. w \in Workers
      BY <1>0, <3>0 DEF Workers, Points
    <3>4. /\ UNCHANGED <<applied, garm, issued>> /\ wk[k].pc = "mark"
          /\ cr[k].present /\ cr[k].status.id = wk[k].init.id
          /\ wk[k].init.id = wk[k].obj.status.id
      BY <1>3, <2>1 DEF MarkDeleting, At, Sound, WorkerSound
    <3>5. new.status.id >= cr[k].status.id
      BY <3>1, <3>2, <3>4, Numbers
    <3> HIDE DEF new, w
    <3> QED
      BY <1>0, <2>1, <3>2, <3>3, <3>4, <3>5, CommitMoves
  <2> QED
    BY <1>1, <1>3, <2>1 DEF MarkDeleting
<1>4. CASE Unbind(k)
  <2> DEFINE new == [cr[k] EXCEPT !.fin = FALSE, !.present = FALSE]
             w == [wk[k] EXCEPT !.pc = "finish", !.fresh = FALSE]
  <2>1. CASE wk[k].fresh /\ Commit(k, new, w)
    <3>1. new \in Objects
      BY <1>0 DEF Objects
    <3>2. new.status = cr[k].status
      BY <1>0 DEF Objects
    <3>3. w \in Workers
      BY <1>0 DEF Workers, Points
    <3>4. UNCHANGED <<applied, garm, issued>> /\ cr[k].present
      BY <1>4, <2>1 DEF Unbind, Sound, WorkerSound
    <3>5. new.status.id >= cr[k].status.id
      BY <3>2, Numbers
    <3> HIDE DEF new, w
    <3> QED
      BY <1>0, <2>1, <3>1, <3>2, <3>3, <3>4, <3>5, CommitMoves
  <2> QED
    BY <1>1, <1>4, <2>1 DEF Unbind
<1>5. CASE UpdateStatus(k)
  <2> DEFINE new == [cr[k] EXCEPT !.status = wk[k].obj.status]
  <2>1. CASE wk[k].fresh /\ Commit(k, new, IdleWorker)
    <3>1. /\ new \in Objects /\ new.status = wk[k].obj.status
          /\ new.present = cr[k].present
      BY Typed DEF Objects
    <3>2. /\ UNCHANGED <<applied, garm, issued>>
          /\ cr[k].present /\ cr[k].status.id = wk[k].init.id
          /\ wk[k].init.id <= wk[k].obj.status.id
      BY <1>5, <2>1 DEF UpdateStatus, Sound, WorkerSound
    <3>3. new.status.id >= cr[k].status.id
      BY <3>1, <3>2, Numbers
    <3> HIDE DEF new
    <3> QED
      BY <1>0, <2>1, <3>1, <3>2, <3>3, ConstantTypes, CommitMoves
  <2> QED
    BY <1>1, <1>5, <2>1 DEF UpdateStatus
<1>6. Steps(k) => \/ UNCHANGED <<cr, applied>> \/ EnsureFinalizer(k)
                  \/ MarkDeleting(k) \/ Unbind(k) \/ UpdateStatus(k)
  BY DEF Steps, Reconcile, FetchRefs, GetExisting, Create, Update,
         GetCredential, Delete
<1> QED
  BY <1>1, <1>2, <1>3, <1>4, <1>5, <1>6

LEMMA UserMoves ==
    ASSUME GitHubTypeOK, GitHubTypeOK', NEW k \in kinds,
           Sound(k), Sound(k)', About(k), User(k)
    PROVE  Moves(k)
<1>0. k \in kinds' /\ cr[k] \in Objects
  BY Typed DEF About
<1>1. CASE Apply(k)
  <2> DEFINE new == [NullObject EXCEPT !.present = TRUE]
  <2>1. /\ new \in Objects /\ new.status.id = NoID /\ new.present
    BY ConstantTypes DEF NullObject, NoStatus
  <2>2. UserWrite(k, new) /\ k \notin applied /\ UNCHANGED <<garm, issued>>
    BY <1>1 DEF Apply
  <2>3. cr'[k] = new
    BY <2>1, <2>2, UserWriteIs
  <2>4. ~Released(k) /\ ~Released(k)' /\ cr[k].status.id = NoID
    BY <2>1, <2>2, <2>3 DEF Released, Sound, ObjectSound
  <2>5. cr'[k].status.id >= NoID /\ cr'[k].status.id <= issued[k]
    BY <2>1, <2>3, Numbers
  <2> QED
    BY <2>2, <2>4, <2>5 DEF Moves, ObjectMoves
<1>2. ASSUME UNCHANGED <<applied, garm, issued>>, cr[k].present,
             NEW new \in Objects, UserWrite(k, new), new.status = cr[k].status
      PROVE  Moves(k)
  <2>1. cr'[k] = new
    BY <1>2, UserWriteIs
  <2>2. cr'[k].status.id = cr[k].status.id
        /\ cr'[k].status.id >= cr[k].status.id
    BY <1>2, <2>1, Numbers
  <2> QED
    BY <1>0, <1>2, <2>2, ObjectOnly
<1>3. CASE EditSpec(k)
  <2>1. PICK v \in Versions : UserWrite(k, [cr[k] EXCEPT !.spec = v])
    BY <1>3 DEF EditSpec
  <2> DEFINE new == [cr[k] EXCEPT !.spec = v]
  <2>2. new \in Objects /\ new.status = cr[k].status
    BY <1>0 DEF Objects
  <2>3. UserWrite(k, new)
    BY <2>1
  <2> HIDE DEF new
  <2> QED
    BY <1>2, <1>3, <2>2, <2>3 DEF EditSpec, Exists
<1>4. CASE TogglePaused(k)
  <2> DEFINE new == [cr[k] EXCEPT !.paused = ~cr[k].paused]
  <2>1. new \in Objects /\ new.status = cr[k].status
    BY <1>0 DEF Objects
  <2>2. UserWrite(k, new)
    BY <1>4 DEF TogglePaused
  <2> HIDE DEF new
  <2> QED
    BY <1>2, <1>4, <2>1, <2>2 DEF TogglePaused, Exists
<1>5. CASE RequestDelete(k)
  <2> DEFINE new == [cr[k] EXCEPT !.deleting = TRUE, !.present = cr[k].fin]
  <2>1. new \in Objects
    BY <1>0 DEF Objects
  <2>2. new.status = cr[k].status
    BY <1>0 DEF Objects
  <2>3. UserWrite(k, new)
    BY <1>5 DEF RequestDelete
  <2> HIDE DEF new
  <2> QED
    BY <1>2, <1>5, <2>1, <2>2, <2>3 DEF RequestDelete, Exists
<1> QED
  BY <1>1, <1>3, <1>4, <1>5 DEF User

LEMMA AllMove ==
    ASSUME GitHubInv, GitHubInv', [Next]_vars
    PROVE  UNCHANGED kinds /\ \A s \in kinds : Moves(s)
<1>1. ASSUME NEW k \in kinds, Action(k)
      PROVE  UNCHANGED kinds /\ \A s \in kinds : Moves(s)
  <2>1. About(k)
    BY <1>1, ActionSound DEF GitHubInv
  <2>2. UNCHANGED kinds /\ IDStep(k)
    BY <2>1 DEF About
  <2>3. Moves(k)
    <3>1. CASE Steps(k)
      BY <2>1, <2>2, <3>1, StepsMoves DEF GitHubInv
    <3>2. CASE User(k)
      BY <2>1, <2>2, <3>2, UserMoves DEF GitHubInv
    <3>3. CASE CacheSync(k) \/ CreatedExternally(k) \/ DeletedExternally(k)
      BY <2>2, <3>3, EntityOnly
         DEF GitHubInv, CacheSync, CreatedExternally, DeletedExternally
    <3> QED
      BY <1>1, <3>1, <3>2, <3>3 DEF Action
  <2>4. ASSUME NEW s \in kinds, s # k PROVE Moves(s)
    BY <2>1, <2>4, OthersStay
       DEF GitHubInv, Moves, EntityMoves, IDStep, Released
  <2> QED
    BY <2>2, <2>3, <2>4
<1>2. CASE Crash \/ UNCHANGED vars
  BY <1>2 DEF Crash, vars, Moves, EntityMoves, IDStep, Released
<1> QED
  BY <1>1, <1>2, NextIs

\* An id in a status is never replaced by an older one, nor taken away
\* (reconcileNormal, reconcileDelete, deferred status update).
THEOREM IDsOnlyAdvance == Spec => IDsNeverRegress
<1>1. GitHubInv /\ GitHubInv' /\ [Next]_vars
      => [\A k \in kinds : k \in applied
              => cr'[k].status.id >= cr[k].status.id]_vars
  <2> SUFFICES ASSUME GitHubInv, GitHubInv', [Next]_vars, NEW k \in kinds
               PROVE  cr'[k].status.id >= cr[k].status.id
    OBVIOUS
  <2>1. Moves(k)
    BY AllMove
  <2> QED
    BY <2>1, Numbers DEF GitHubInv, Moves, EntityMoves, ObjectMoves
<1> QED
  BY <1>1, GitHubSound, PTL DEF Spec, IDsNeverRegress

-----------------------------------------------------------------------------
(***************************************************************************)
(* The steps of the other kinds stutter in the PoolBinding of k; its own   *)
(* moves are steps of it.                                                  *)
(***************************************************************************)

LEMMA EntityMaps ==
    ASSUME GitHubTypeOK, GitHubTypeOK', NEW k \in kinds, k \in kinds',
           Sound(k), EntityMoves(k)
    PROVE  [Promise(k)!Next]_(Promise(k)!vars)
<1> DEFINE P == [id \in IDs |-> Fate(k, id)]
           Q == [id \in IDs |-> Fate(k, id)']
<1>0. /\ cr'[k].status.id = cr[k].status.id
      /\ UNCHANGED Released(k)
  BY DEF EntityMoves
<1>1. /\ issued[k] \in 0 .. MaxID /\ issued'[k] \in 0 .. MaxID
      /\ MaxID \in Nat /\ NoID = 0
      /\ garm[k].id \in 0 .. MaxID
      /\ garm[k].id # NoID => garm[k].id = issued[k]
  <2>1. issued[k] \in 0 .. MaxID /\ issued'[k] \in 0 .. MaxID
    BY DEF GitHubTypeOK
  <2>2. garm[k].id # NoID => garm[k].id = issued[k]
    BY DEF Sound, ObjectSound, InGarm
  <2> QED
    BY <2>1, <2>2, Numbers, GitHubConstants
<1>2. CASE garm'[k].id = garm[k].id /\ issued'[k] = issued[k]
  <2>1. Q = P
    BY <1>2 DEF Fate
  <2> QED
    BY <1>0, <2>1 DEF Promise!vars
<1>3. CASE /\ garm[k].id = NoID /\ garm'[k].id = issued[k] + 1
           /\ issued'[k] = issued[k] + 1
  <2> DEFINE n == issued[k] + 1
  <2>1. n \in IDs /\ P[n] = "none"
    BY <1>1, <1>3 DEF IDs, Fate
  <2>2. \A id \in IDs : Q[id] = IF id = n THEN "live" ELSE P[id]
    BY <1>1, <1>3 DEF IDs, Fate
  <2>3. Q = [P EXCEPT ![n] = "live"]
    BY <2>2
  <2>4. Promise(k)!Become(n, "none", "live")
    BY <1>0, <2>1, <2>3 DEF Promise!Become
  <2> QED
    BY <2>1, <2>4 DEF Promise!Next
<1>4. CASE garm'[k].id = NoID /\ garm[k].id # NoID /\ issued'[k] = issued[k]
  <2> DEFINE n == issued[k]
  <2>1. n \in IDs /\ P[n] = "live"
    BY <1>1, <1>4 DEF IDs, Fate
  <2>2. Q = [P EXCEPT ![n] = "deleted"]
    BY <1>1, <1>4, <2>1 DEF IDs, Fate
  <2>3. Promise(k)!Become(n, "live", "deleted")
    BY <1>0, <2>1, <2>2 DEF Promise!Become
  <2> QED
    BY <2>1, <2>3 DEF Promise!Next
<1> QED
  BY <1>2, <1>3, <1>4 DEF EntityMoves, IDStep

LEMMA ObjectMaps ==
    ASSUME GitHubTypeOK, GitHubTypeOK', NEW k \in kinds, k \in kinds',
           Sound(k), ObjectMoves(k)
    PROVE  [Promise(k)!Next]_(Promise(k)!vars)
<1> DEFINE P == [id \in IDs |-> Fate(k, id)]
           Q == [id \in IDs |-> Fate(k, id)']
           old == cr[k].status.id
           new == cr'[k].status.id
<1>1. /\ issued[k] \in 0 .. MaxID /\ MaxID \in Nat /\ NoID = 0
      /\ old \in Nat /\ new \in Nat /\ old <= issued[k]
  <2>1. issued[k] \in 0 .. MaxID /\ old \in Nat
    BY Typed, Numbers
  <2>2. cr'[k].status \in Statuses
    BY DEF GitHubTypeOK, Objects
  <2>3. new \in Nat
    BY <2>2, GitHubConstants DEF Statuses
  <2>4. old <= issued[k]
    BY DEF Sound, ObjectSound, IDsOf
  <2> QED
    BY <2>1, <2>3, <2>4, GitHubConstants DEF NoID
<1>2. Q = P
  BY DEF ObjectMoves, Fate
<1>3. ~Released(k) /\ (~Released(k)' => UNCHANGED Released(k))
  BY DEF ObjectMoves, Released
<1>4. CASE ~Released(k)' /\ new = old
  BY <1>2, <1>3, <1>4 DEF Promise!vars
<1>5. CASE ~Released(k)' /\ new > old
  <2>1. new \in IDs /\ P[new] # "none"
    BY <1>1, <1>5 DEF IDs, Fate, ObjectMoves
  <2>2. Promise(k)!Bind(new)
    BY <1>2, <1>3, <1>5, <2>1 DEF Promise!Bind
  <2> QED
    BY <2>1, <2>2 DEF Promise!Next
<1>6. CASE Released(k)'
  <2>1. old # NoID => old \in IDs /\ P[old] = "deleted"
    BY <1>1, <1>6 DEF IDs, Fate, ObjectMoves
  <2>2. new = old
    BY <1>6 DEF ObjectMoves
  <2>3. Promise(k)!Release
    BY <1>1, <1>2, <1>3, <1>6, <2>1, <2>2
       DEF Promise!Release, Promise!Pending
  <2> QED
    BY <2>3 DEF Promise!Next
<1>7. ~Released(k)' => new = old \/ new > old
  BY <1>1 DEF ObjectMoves
<1> QED
  BY <1>4, <1>5, <1>6, <1>7

LEMMA InitPromises == Init => \A k \in kinds : Promise(k)!Init
<1> SUFFICES ASSUME Init, NEW k \in kinds PROVE Promise(k)!Init
  OBVIOUS
<1>1. /\ cr[k] = NullObject /\ issued[k] = 0 /\ applied = {}
  BY DEF Init
<1>2. cr[k].status.id = 0 /\ ~Released(k)
  BY <1>1 DEF NullObject, NoStatus, NoID, Released
<1>3. \A id \in IDs : Fate(k, id) = "none"
  BY <1>1, GitHubConstants DEF IDs, Fate
<1> QED
  BY <1>2, <1>3 DEF Promise!Init, Promise!Pending

\* Scope and credential objects behave as PoolBinding says: bound to entities
\* garm has created, never unbound, released while pending or after their
\* entity was deleted (reconcileNormal, reconcileDelete).
THEOREM PromisesAreKept == Spec => PromisesKept
<1>1. Init => \A k \in kinds \ {"endpoint"} : Promise(k)!Init
  BY InitPromises
<1>2. GitHubInv /\ GitHubInv' /\ [Next]_vars
      => [\A k \in kinds \ {"endpoint"} :
             [Promise(k)!Next]_(Promise(k)!vars)]_vars
  <2> SUFFICES ASSUME GitHubInv, GitHubInv', [Next]_vars, NEW k \in kinds
               PROVE  [Promise(k)!Next]_(Promise(k)!vars)
    OBVIOUS
  <2>1. UNCHANGED kinds /\ Moves(k)
    BY AllMove
  <2> QED
    BY <2>1, EntityMaps, ObjectMaps DEF Moves, GitHubInv
<1> QED
  BY <1>1, <1>2, GitHubSound, PTL DEF Spec, PromisesKept

=============================================================================
