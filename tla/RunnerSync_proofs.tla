------------------------- MODULE RunnerSync_proofs -------------------------
(***************************************************************************)
(* Theorems about RunnerSync, for any instances, Pools and disturbances.   *)
(***************************************************************************)
EXTENDS RunnerSync, TLAPS

(***************************************************************************)
(* What the building blocks do to the types.                               *)
(***************************************************************************)

LEMMA ConstantTypes ==
    /\ NoStatus \in Statuses
    /\ NoRunner \in Objects
    /\ Idle \in Workers
    /\ Waiting \in Pollers
<1>1. NoStatus \in Statuses
  BY DEF NoStatus, Statuses, Findings
<1>2. NoRunner \in Objects
  BY <1>1 DEF NoRunner, Objects
<1>3. Idle \in Workers
  BY <1>2 DEF Idle, Workers, Points, Findings
<1> QED
  BY <1>1, <1>2, <1>3 DEF Waiting, Pollers

LEMMA FindType == \A r \in Runners : Find(r) \in Findings
BY DEF Find, Findings

LEMMA StatusType ==
    ASSUME NEW r \in Runners, NEW f \in Findings
    PROVE  Status(r, f) \in Statuses
BY DEF Status, Statuses

\* What a write may store is a Runner.
LEMMA StoredObjects ==
    ASSUME NEW o \in Objects
    PROVE  /\ Removed(o) \in Objects
           /\ [o EXCEPT !.fin = TRUE] \in Objects
           /\ [o EXCEPT !.fin = FALSE, !.present = FALSE] \in Objects
           /\ [o EXCEPT !.present = TRUE] \in Objects
           /\ \A s \in Statuses : [o EXCEPT !.status = s] \in Objects
BY DEF Removed, Objects

LEMMA SpendType ==
    ASSUME spent \in [Disturbances -> Nat], NEW d \in Disturbances, Spend(d)
    PROVE  /\ spent' \in [Disturbances -> Nat]
           /\ spent'[d] > 0
           /\ \A e \in Disturbances : spent'[e] >= spent[e]
BY DEF Spend

(***************************************************************************)
(* Most steps are about one name r: they may change what is kept of r, and *)
(* nothing that is kept of other names.                                    *)
(***************************************************************************)
WorkerOf(r) == \E w \in Workers : wk' = [wk EXCEPT ![r] = w]

ObjectOf(r) == \E o \in Objects, c \in Copies :
                  cr' = [cr EXCEPT ![r] = o] /\ cache' = [cache EXCEPT ![r] = c]

InstanceOf(r) == \E i \in InstancePhases : inst' = [inst EXCEPT ![r] = i]

Spending == UNCHANGED spent \/ \E d \in Disturbances : Spend(d)

HistoryOf(r) == /\ queue' \in {queue, queue \cup {r}, queue \ {r}}
                /\ asked' \in {asked, asked \cup {r}}
                /\ \/ UNCHANGED users
                   \/ /\ requested' = requested \cup {r}
                      /\ guarded' \in {guarded, guarded \cup {r}}

About(r) == /\ WorkerOf(r) /\ ObjectOf(r) /\ InstanceOf(r) /\ HistoryOf(r)
            /\ Spending
            /\ UNCHANGED <<known, leads, poller>>

LEMMA AboutType ==
    ASSUME RunnerTypeOK, NEW r \in Runners, About(r)
    PROVE  RunnerTypeOK'
<1>1. inst' \in [Runners -> InstancePhases]
  BY DEF About, InstanceOf, RunnerTypeOK
<1>2. cr' \in [Runners -> Objects] /\ cache' \in [Runners -> Copies]
  BY DEF About, ObjectOf, RunnerTypeOK
<1>3. wk' \in [Runners -> Workers]
  BY DEF About, WorkerOf, RunnerTypeOK
<1>4. spent' \in [Disturbances -> Nat]
  BY SpendType DEF About, Spending, RunnerTypeOK
<1>5. /\ queue' \subseteq Runners /\ asked' \subseteq Runners
      /\ guarded' \subseteq requested' /\ requested' \subseteq Runners
  BY DEF About, HistoryOf, RunnerTypeOK, users
<1> QED
  BY <1>1, <1>2, <1>3, <1>4, <1>5 DEF About, RunnerTypeOK

(***************************************************************************)
(* The parts of a step about r.                                            *)
(***************************************************************************)

LEMMA SameParts ==
    ASSUME RunnerTypeOK, NEW r \in Runners
    PROVE  /\ UNCHANGED inst => InstanceOf(r)
           /\ UNCHANGED <<cr, cache>> => ObjectOf(r)
           /\ UNCHANGED wk => WorkerOf(r)
           /\ wk[r] \in Workers /\ cr[r] \in Objects /\ cache[r] \in Copies
           /\ wk[r].found \in Findings /\ inst[r] \in InstancePhases
<1>1. wk[r] \in Workers /\ cr[r] \in Objects /\ cache[r] \in Copies
      /\ inst[r] \in InstancePhases
  BY DEF RunnerTypeOK
<1>2. /\ inst = [inst EXCEPT ![r] = inst[r]]
      /\ cr = [cr EXCEPT ![r] = cr[r]]
      /\ cache = [cache EXCEPT ![r] = cache[r]]
      /\ wk = [wk EXCEPT ![r] = wk[r]]
  BY DEF RunnerTypeOK
<1>3. wk[r].found \in Findings
  BY <1>1 DEF Workers
<1> QED
  BY <1>1, <1>2, <1>3 DEF InstanceOf, ObjectOf, WorkerOf

LEMMA StoredPart ==
    ASSUME RunnerTypeOK, NEW r \in Runners, NEW new \in Objects,
           Stored(r, new)
    PROVE  ObjectOf(r)
<1> DEFINE c == [cache[r] EXCEPT !.fresh = FALSE]
<1>1. c \in Copies
  BY DEF RunnerTypeOK, Copies
<1>2. cache' = [cache EXCEPT ![r] = c]
  BY DEF Stored
<1> QED
  BY <1>1, <1>2 DEF Stored, ObjectOf

LEMMA WorkerPart ==
    ASSUME RunnerTypeOK, NEW r \in Runners, NEW w \in Workers
    PROVE  /\ wk' = [wk EXCEPT ![r] = w] => WorkerOf(r)
           /\ wk' = [wk EXCEPT ![r] = Idle] => WorkerOf(r)
           /\ \A point \in Points :
                 wk' = [wk EXCEPT ![r].pc = point] => WorkerOf(r)
           /\ wk' = [wk EXCEPT ![r].fresh = FALSE] => WorkerOf(r)
           /\ wk' = [wk EXCEPT ![r].pc = "protect", ![r].fresh = TRUE]
                 => WorkerOf(r)
<1>1. wk[r] \in Workers
  BY DEF RunnerTypeOK
<1>2. /\ \A point \in Points : [wk[r] EXCEPT !.pc = point] \in Workers
      /\ [wk[r] EXCEPT !.fresh = FALSE] \in Workers
      /\ [wk[r] EXCEPT !.pc = "protect", !.fresh = TRUE] \in Workers
  BY <1>1 DEF Workers, Points
<1>3. wk' = [wk EXCEPT ![r].pc = "protect", ![r].fresh = TRUE] =>
        wk' = [wk EXCEPT ![r] = [wk[r] EXCEPT !.pc = "protect",
                                              !.fresh = TRUE]]
  BY DEF RunnerTypeOK
<1> QED
  BY <1>2, <1>3, ConstantTypes DEF WorkerOf

\* The reconciler ends, or goes on, after at most one write.
LEMMA EndParts ==
    ASSUME RunnerTypeOK, NEW r \in Runners, Done(r) \/ Fail(r)
    PROVE  WorkerOf(r) /\ queue' \in {queue, queue \cup {r}}
BY WorkerPart, SameParts DEF Done, Fail

\* Such a write is one of the reconciler's that may fail.
LEMMA WriteParts ==
    ASSUME RunnerTypeOK, NEW r \in Runners, NEW new \in Objects,
           UNCHANGED <<inst, known, leads, poller, users, asked>>,
           \/ UNCHANGED <<cr, cache>>
           \/ Stored(r, new),
           \/ Done(r) \/ Fail(r)
           \/ WorkerOf(r) /\ UNCHANGED queue,
           UNCHANGED spent \/ Spend("fault")
    PROVE  About(r)
<1>1. ObjectOf(r)
  BY StoredPart, SameParts
<1>2. WorkerOf(r) /\ queue' \in {queue, queue \cup {r}}
  BY EndParts
<1>3. Spending
  BY DEF Spending, Disturbances
<1> QED
  BY <1>1, <1>2, <1>3, SameParts DEF About, HistoryOf

LEMMA WorkIsAbout ==
    ASSUME RunnerTypeOK, NEW r \in Runners, Work(r)
    PROVE  About(r)
<1>0. /\ wk[r] \in Workers /\ cr[r] \in Objects /\ cache[r] \in Copies
      /\ wk[r].found \in Findings /\ cache[r].obj \in Objects
      /\ cache[r].fresh \in BOOLEAN
  BY SameParts DEF Copies
<1>1. CASE GetGarmRunnerInstance(r)
  <2> DEFINE w == [Idle EXCEPT !.pc = "get", !.found = Find(r)]
  <2>1. w \in Workers
    BY ConstantTypes, FindType DEF Workers, Points
  <2>2. WorkerOf(r)
    BY <1>1, <2>1, WorkerPart, SameParts DEF GetGarmRunnerInstance
  <2>3. queue' \in {queue, queue \ {r}}
    BY <1>1 DEF GetGarmRunnerInstance
  <2>4. Spending
    BY <1>1 DEF GetGarmRunnerInstance, Spending, Disturbances
  <2> QED
    BY <1>1, <2>2, <2>3, <2>4, SameParts
       DEF GetGarmRunnerInstance, About, HistoryOf
<1>2. CASE ReconcileNormal(r)
  <2> DEFINE o == cache[r].obj
             to == Branch(o, wk[r].found)
             w == [wk[r] EXCEPT !.pc = to, !.obj = o, !.fresh = cache[r].fresh]
  <2>1. to \in Points
    BY <1>0 DEF Branch, Points, Objects
  <2>2. w \in Workers
    BY <1>0, <2>1 DEF Workers
  <2>3. \/ wk' = [wk EXCEPT ![r] = Idle]
        \/ wk' = [wk EXCEPT ![r] = w]
    BY <1>2 DEF ReconcileNormal
  <2>4. WorkerOf(r)
    BY <2>2, <2>3, WorkerPart
  <2> QED
    BY <1>2, <2>4, SameParts
       DEF ReconcileNormal, About, HistoryOf, Spending
<1>3. CASE DeleteRunner(r)
  BY <1>0, <1>3, WriteParts, StoredObjects DEF DeleteRunner, Lost
<1>4. CASE CreateRunner(r)
  <2>1. [NoRunner EXCEPT !.present = TRUE] \in Objects
    BY ConstantTypes, StoredObjects
  <2>2. wk' = [wk EXCEPT ![r].pc = "protect", ![r].fresh = TRUE]
          => WorkerOf(r)
    BY <1>0, WorkerPart
  <2> QED
    BY <1>4, <2>1, <2>2, WriteParts DEF CreateRunner, Lost
<1>5. CASE EnsureFinalizer(r)
  BY <1>0, <1>5, WriteParts, StoredObjects DEF EnsureFinalizer, Lost
<1>6. CASE UpdateRunnerStatus(r)
  <2>1. [cr[r] EXCEPT !.status = Status(r, wk[r].found)] \in Objects
    BY <1>0, StatusType, StoredObjects
  <2> QED
    BY <1>6, <2>1, WriteParts DEF UpdateRunnerStatus, Lost
<1>7. CASE DeleteInstance(r)
  <2>1. WorkerOf(r) /\ queue' \in {queue, queue \cup {r}}
    BY <1>0, <1>7, EndParts, WorkerPart DEF DeleteInstance, Goto, Points
  <2>2. InstanceOf(r)
    BY <1>7, SameParts DEF DeleteInstance, InstanceOf, InstancePhases
  <2>3. asked' \in {asked, asked \cup {r}}
    BY <1>7 DEF DeleteInstance
  <2>4. Spending
    BY <1>7 DEF DeleteInstance, Spending, Disturbances
  <2>5. ObjectOf(r)
    BY <1>7, SameParts DEF DeleteInstance
  <2> QED
    BY <1>7, <2>1, <2>2, <2>3, <2>4, <2>5 DEF DeleteInstance, About, HistoryOf
<1>8. CASE RemoveFinalizer(r)
  BY <1>0, <1>8, WriteParts, StoredObjects DEF RemoveFinalizer, Lost
<1> QED
  BY <1>1, <1>2, <1>3, <1>4, <1>5, <1>6, <1>7, <1>8 DEF Work

LEMMA OutsideIsAbout ==
    ASSUME RunnerTypeOK, NEW r \in Runners,
           CacheSync(r) \/ InstanceMoves(r) \/ RequestDelete(r) \/ Touch(r)
    PROVE  About(r)
<1>0. /\ wk[r] \in Workers /\ cr[r] \in Objects /\ cache[r] \in Copies
      /\ cr[r].present \in BOOLEAN
  BY SameParts DEF Objects
<1>1. CASE CacheSync(r)
  <2> DEFINE c == [obj |-> cr[r], fresh |-> cr[r].present]
  <2>1. c \in Copies
    BY <1>0 DEF Copies
  <2>2. cr = [cr EXCEPT ![r] = cr[r]] /\ cache' = [cache EXCEPT ![r] = c]
    BY <1>1 DEF CacheSync, RunnerTypeOK
  <2>3. ObjectOf(r)
    BY <1>0, <1>1, <2>1, <2>2 DEF CacheSync, ObjectOf
  <2> QED
    BY <1>1, <2>3, SameParts DEF CacheSync, About, HistoryOf, Spending
<1>2. CASE InstanceMoves(r)
  <2>1. PICK m \in Moves : inst' = [inst EXCEPT ![r] = m[2]]
    BY <1>2 DEF InstanceMoves
  <2>2. m[2] \in InstancePhases
    BY DEF Moves, InstancePhases
  <2>3. InstanceOf(r)
    BY <2>1, <2>2 DEF InstanceOf
  <2> QED
    BY <1>2, <2>3, SameParts DEF InstanceMoves, About, HistoryOf, Spending
<1>3. ASSUME NEW new \in Objects, UserWrite(r, new)
      PROVE  ObjectOf(r) /\ WorkerOf(r)
  BY <1>0, <1>3, StoredPart, WorkerPart DEF UserWrite
<1>4. CASE RequestDelete(r)
  BY <1>0, <1>3, <1>4, SameParts, StoredObjects
     DEF RequestDelete, UserWrite, About, HistoryOf, Spending, Disturbances
<1>5. CASE Touch(r)
  BY <1>0, <1>3, <1>5, SameParts
     DEF Touch, UserWrite, About, HistoryOf, Spending, Disturbances
<1> QED
  BY <1>1, <1>2, <1>4, <1>5

(***************************************************************************)
(* Type correctness.                                                       *)
(***************************************************************************)

LEMMA InitTypes == Init => RunnerTypeOK
<1> SUFFICES ASSUME Init PROVE RunnerTypeOK
  OBVIOUS
<1>1. inst \in [Runners -> InstancePhases] /\ spent \in [Disturbances -> Nat]
  BY DEF Init, InstancePhases
<1>2. [obj |-> NoRunner, fresh |-> FALSE] \in Copies
  BY ConstantTypes DEF Copies
<1>3. /\ cr \in [Runners -> Objects] /\ cache \in [Runners -> Copies]
      /\ wk \in [Runners -> Workers]
  BY <1>2, ConstantTypes DEF Init
<1> QED
  BY <1>1, <1>3, ConstantTypes DEF Init, RunnerTypeOK

LEMMA StepTypes == RunnerTypeOK /\ [Next]_vars => RunnerTypeOK'
<1> SUFFICES ASSUME RunnerTypeOK, [Next]_vars
             PROVE  RunnerTypeOK'
  OBVIOUS
<1>1. CASE EnqueueRunnerInstances
  <2>1. poller' \in Pollers
    BY <1>1 DEF EnqueueRunnerInstances, RunnerInstances, RunnerDiff, Pollers
  <2> QED
    BY <1>1, <2>1 DEF EnqueueRunnerInstances, RunnerTypeOK, users
<1>2. CASE EnqueueRunnerEvents
  <2>1. poller' \in Pollers /\ queue' \subseteq Runners
    BY <1>2, ConstantTypes DEF EnqueueRunnerEvents, RunnerTypeOK, Pollers
  <2> QED
    BY <1>2, <2>1 DEF EnqueueRunnerEvents, RunnerTypeOK, users
<1>3. CASE Lead
  BY <1>3 DEF Lead, RunnerTypeOK, users
<1>4. CASE Crash
  <2>1. cache' \in [Runners -> Copies]
    BY <1>4 DEF Crash, RunnerTypeOK, Copies, Objects
  <2>2. wk' \in [Runners -> Workers] /\ poller' \in Pollers
    BY <1>4, ConstantTypes DEF Crash
  <2>3. spent' \in [Disturbances -> Nat]
    BY <1>4, SpendType DEF Crash, RunnerTypeOK, Disturbances
  <2> QED
    BY <1>4, <2>1, <2>2, <2>3 DEF Crash, RunnerTypeOK, users
<1>5. CASE PoolChanges
  <2>1. spent' \in [Disturbances -> Nat]
    BY <1>5, SpendType DEF PoolChanges, RunnerTypeOK, Disturbances
  <2>2. known' \subseteq Pools
    BY <1>5 DEF PoolChanges, RunnerTypeOK
  <2> QED
    BY <1>5, <2>1, <2>2 DEF PoolChanges, RunnerTypeOK, users
<1>6. ASSUME NEW r \in Runners,
             \/ Work(r) \/ CacheSync(r) \/ InstanceMoves(r)
             \/ RequestDelete(r) \/ Touch(r)
      PROVE  RunnerTypeOK'
  BY <1>6, WorkIsAbout, OutsideIsAbout, AboutType
<1>7. CASE UNCHANGED vars
  BY <1>7 DEF vars, RunnerTypeOK, users
<1> QED
  BY <1>1, <1>2, <1>3, <1>4, <1>5, <1>6, <1>7 DEF Next, Poll

\* Every variable of RunnerSync keeps its type, whatever fails or crashes.
THEOREM RunnerTypeCorrect == Spec => []RunnerTypeOK
BY InitTypes, StepTypes, PTL DEF Spec

-----------------------------------------------------------------------------
(***************************************************************************)
(* The inductive invariant.  For each name r:                              *)
(*                                                                         *)
(*   Born      whatever tells of a Runner tells that garm once had the     *)
(*             instance: an instance not found is gone, not yet to come;   *)
(*   Branched  where a reconciliation stands shows what it found: it may   *)
(*             remove the finalizer only of an instance that stops, and    *)
(*             may ask garm to delete one only if a user asked for that;   *)
(*   Requested a Runner, and every copy of it, that is in deletion without *)
(*             a user's doing has no instance any more;                    *)
(*   Guarded   the property GuardedUntilStopped;                           *)
(*   Protected the property UnprotectedOnlyIfDisturbed, and that nobody    *)
(*             wrote the Runner after its creation.                        *)
(***************************************************************************)
Born(r) == \/ inst[r] # "unborn"
           \/ /\ ~cr[r].present /\ ~cache[r].obj.present
              /\ r \notin requested
              /\ wk[r].pc \in {"idle", "get"}
              /\ wk[r].found = "none"

Branched(r) ==
    /\ wk[r].pc = "get" /\ wk[r].found = "none" =>
          \/ inst[r] = "gone"
          \/ ~cr[r].present /\ ~cache[r].obj.present
    /\ wk[r].pc = "delete" => inst[r] = "gone"
    /\ wk[r].pc = "unbind" => inst[r] \in {"stopping", "gone"}
    /\ wk[r].pc = "stop" => r \in requested \/ inst[r] = "gone"

Requested(r) == cr[r].deleting \/ cache[r].obj.deleting =>
                    r \in requested \/ inst[r] = "gone"

Guarded(r) == r \in guarded /\ inst[r] = "running"
                  => cr[r].present /\ cr[r].deleting /\ cr[r].fin

Protected(r) == Undisturbed /\ cr[r].present /\ ~cr[r].fin
                    => wk[r].pc = "protect" /\ wk[r].fresh

Sound(r) == /\ Born(r) /\ Branched(r) /\ Requested(r)
            /\ Guarded(r) /\ Protected(r)

RunnerInv == RunnerTypeOK /\ (\A r \in Runners : Sound(r))
             /\ OnlyRequestedStops

\* A behaviour that was disturbed stays so.
LEMMA Disturbs ==
    ASSUME RunnerTypeOK
    PROVE  /\ Spending => (Undisturbed' => Undisturbed)
           /\ \A d \in {"fault", "crash", "touch"} :
                 Spend(d) => ~Undisturbed'
<1>1. ASSUME NEW d \in Disturbances, Spend(d)
      PROVE  Undisturbed' => Undisturbed
  <2>1. \A e \in {"fault", "crash", "touch"} :
            spent'[e] >= spent[e] /\ spent[e] \in Nat /\ spent'[e] \in Nat
    BY <1>1, SpendType DEF RunnerTypeOK, Disturbances
  <2> QED
    BY <2>1 DEF Undisturbed
<1>2. ASSUME NEW d \in {"fault", "crash", "touch"}, Spend(d)
      PROVE  ~Undisturbed'
  BY <1>2, SpendType DEF RunnerTypeOK, Disturbances, Undisturbed
<1> QED
  BY <1>1, <1>2 DEF Spending, Undisturbed

\* A step about r leaves what is kept of another name alone.
LEMMA Others ==
    ASSUME RunnerTypeOK, NEW r \in Runners, About(r),
           NEW s \in Runners, s # r, Sound(s)
    PROVE  Sound(s)'
<1>1. wk'[s] = wk[s] /\ cr'[s] = cr[s] /\ cache'[s] = cache[s]
      /\ inst'[s] = inst[s]
  BY DEF About, WorkerOf, ObjectOf, InstanceOf, RunnerTypeOK
<1>2. (s \in requested' <=> s \in requested)
      /\ (s \in guarded' <=> s \in guarded)
  BY DEF About, HistoryOf, users
<1>3. Undisturbed' => Undisturbed
  BY Disturbs DEF About
<1> QED
  BY <1>1, <1>2, <1>3
     DEF Sound, Born, Branched, Requested, Guarded, Protected

(***************************************************************************)
(* What happens to r when its reconciliation writes, ends or goes on.      *)
(***************************************************************************)

LEMMA AfterStored ==
    ASSUME RunnerTypeOK, NEW r \in Runners, NEW new \in Objects,
           Stored(r, new)
    PROVE  /\ cr'[r] = new /\ cache'[r].obj = cache[r].obj
BY DEF Stored, RunnerTypeOK, Copies

LEMMA AfterEnd ==
    ASSUME RunnerTypeOK, NEW r \in Runners, Done(r) \/ Fail(r)
    PROVE  /\ wk'[r] = Idle
           /\ wk'[r].pc = "idle" /\ wk'[r].found = "none"
<1>1. wk'[r] = Idle
  BY DEF Done, Fail, RunnerTypeOK
<1> QED
  BY <1>1 DEF Idle

\* The reconciliation of r ends with at most one write of its Runner, which
\* the invariant allows.
LEMMA EndsSoundly ==
    ASSUME RunnerTypeOK, NEW r \in Runners, Sound(r),
           Done(r) \/ Fail(r),
           UNCHANGED <<inst, requested, guarded>>,
           NEW new \in Objects,
           \/ UNCHANGED <<cr, cache>>
           \/ Stored(r, new),
           new.present => inst[r] # "unborn",
           new.deleting => cr[r].deleting \/ inst[r] = "gone",
           Guarded(r) /\ r \in guarded /\ inst[r] = "running" =>
               new.present /\ new.deleting /\ new.fin,
           Undisturbed' => /\ Undisturbed
                           /\ cr'[r].present => cr'[r].fin
    PROVE  Sound(r)'
<1>1. wk'[r].pc = "idle" /\ wk'[r].found = "none"
  BY AfterEnd
<1>2. \/ cr'[r] = cr[r] /\ cache'[r] = cache[r]
      \/ cr'[r] = new /\ cache'[r].obj = cache[r].obj
  BY AfterStored
<1>3. Born(r)'
  BY <1>1, <1>2 DEF Sound, Born
<1>4. Branched(r)'
  BY <1>1 DEF Branched
<1>5. Requested(r)'
  BY <1>2 DEF Sound, Requested
<1>6. Guarded(r)'
  BY <1>2 DEF Sound, Guarded
<1>7. Protected(r)'
  BY DEF Protected
<1> QED
  BY <1>3, <1>4, <1>5, <1>6, <1>7 DEF Sound

(***************************************************************************)
(* The steps of a reconciliation keep the invariant.                       *)
(***************************************************************************)

LEMMA FindSound ==
    ASSUME RunnerTypeOK, NEW r \in Runners, Sound(r),
           GetGarmRunnerInstance(r)
    PROVE  Sound(r)'
<1>0. Undisturbed' => Undisturbed
  BY WorkIsAbout, Disturbs DEF Work, About
<1>1. UNCHANGED <<inst, cr, cache, requested, guarded>>
      /\ wk[r].pc = "idle"
  BY DEF GetGarmRunnerInstance, users
<1>2. CASE UNCHANGED wk
  BY <1>0, <1>1, <1>2
     DEF Sound, Born, Branched, Requested, Guarded, Protected
<1>3. CASE wk' = [wk EXCEPT ![r] = [Idle EXCEPT !.pc = "get",
                                                !.found = Find(r)]]
  <2>1. wk'[r].pc = "get" /\ wk'[r].found = Find(r)
    BY <1>3 DEF RunnerTypeOK, Idle
  <2>2. Find(r) = "none" => inst[r] \in {"unborn", "gone"}
    BY DEF Find, Listed, RunnerTypeOK, InstancePhases
  <2>3. inst[r] = "unborn" => Find(r) = "none"
    BY DEF Find, Listed
  <2>4. Born(r)'
    BY <1>1, <2>1, <2>3 DEF Sound, Born
  <2>5. Branched(r)'
    BY <1>1, <2>1, <2>2 DEF Sound, Born, Branched
  <2>6. Requested(r)' /\ Guarded(r)' /\ Protected(r)'
    BY <1>0, <1>1 DEF Sound, Requested, Guarded, Protected
  <2> QED
    BY <2>4, <2>5, <2>6 DEF Sound
<1> QED
  BY <1>2, <1>3 DEF GetGarmRunnerInstance

LEMMA ReconcileSound ==
    ASSUME RunnerTypeOK, NEW r \in Runners, Sound(r), ReconcileNormal(r)
    PROVE  Sound(r)'
<1> DEFINE o == cache[r].obj
           to == Branch(o, wk[r].found)
<1>1. UNCHANGED <<inst, cr, cache, requested, guarded, spent>>
      /\ wk[r].pc = "get"
  BY DEF ReconcileNormal, users
<1>2. \/ to = "idle" /\ wk'[r].pc = "idle" /\ wk'[r].found = "none"
      \/ to # "idle" /\ wk'[r].pc = to
  BY DEF ReconcileNormal, RunnerTypeOK, Workers, Idle
<1>3. /\ o.present \in BOOLEAN /\ o.deleting \in BOOLEAN
      /\ inst[r] \in InstancePhases
  BY DEF RunnerTypeOK, Copies, Objects
<1>4. /\ to = "unbind" => o.present /\ wk[r].found = "none"
      /\ to = "delete" => o.present /\ wk[r].found = "none"
      /\ to = "stop" => o.present /\ o.deleting
      /\ to = "save" => o.present
      /\ to = "create" => wk[r].found # "none"
      /\ to \in {"idle", "unbind", "delete", "stop", "create", "save"}
  BY <1>3 DEF Branch
<1> HIDE DEF to
<1>5. Born(r)'
  BY <1>1, <1>2, <1>4 DEF Sound, Born
<1>6. Branched(r)'
  BY <1>1, <1>2, <1>4 DEF Sound, Branched, Requested
<1>7. Requested(r)' /\ Guarded(r)'
  BY <1>1 DEF Sound, Requested, Guarded
<1>8. Protected(r)'
  BY <1>1 DEF Sound, Protected, Undisturbed
<1> QED
  BY <1>5, <1>6, <1>7, <1>8 DEF Sound

\* The facts about r that the writing steps need.
LEMMA SoundFacts ==
    ASSUME RunnerTypeOK, NEW r \in Runners, Sound(r)
    PROVE  /\ cr[r] \in Objects
           /\ cr[r].present => inst[r] # "unborn"
           /\ wk[r].pc = "create" => inst[r] # "unborn"
           /\ wk[r].pc = "delete" => inst[r] = "gone"
           /\ wk[r].pc = "unbind" => inst[r] # "running"
           /\ Undisturbed /\ cr[r].present /\ ~cr[r].fin =>
                wk[r].pc = "protect" /\ wk[r].fresh
           /\ r \in guarded /\ inst[r] = "running" =>
                cr[r].present /\ cr[r].deleting /\ cr[r].fin
BY DEF Sound, Born, Branched, Guarded, Protected, RunnerTypeOK

LEMMA DeleteRunnerSound ==
    ASSUME RunnerTypeOK, NEW r \in Runners, Sound(r), DeleteRunner(r)
    PROVE  Sound(r)'
<1> DEFINE new == Removed(cr[r])
<1>1. new \in Objects /\ new.present = cr[r].fin /\ new.fin = cr[r].fin
  BY SoundFacts, StoredObjects DEF Removed, Objects
<1>2. Undisturbed' => Undisturbed
  BY WorkIsAbout, Disturbs DEF Work, About
<1>3. inst[r] = "gone" /\ wk[r].pc = "delete"
  BY SoundFacts DEF DeleteRunner
<1>4. /\ Done(r) \/ Fail(r)
      /\ UNCHANGED <<inst, requested, guarded>>
      /\ UNCHANGED <<cr, cache>> \/ Stored(r, new)
  BY DEF DeleteRunner, Lost, users
<1>5. cr'[r].present => cr'[r] = cr[r] \/ cr'[r].fin
  <2>1. CASE UNCHANGED <<cr, cache>>
    BY <2>1
  <2>2. CASE Stored(r, new)
    BY <1>1, <2>2, AfterStored
  <2> QED
    BY <1>4, <2>1, <2>2
<1>6. Undisturbed' => Undisturbed /\ (cr'[r].present => cr'[r].fin)
  BY <1>2, <1>3, <1>5, SoundFacts
<1> HIDE DEF new
<1> QED
  BY <1>1, <1>3, <1>4, <1>6, EndsSoundly

LEMMA CreateRunnerSound ==
    ASSUME RunnerTypeOK, NEW r \in Runners, Sound(r), CreateRunner(r)
    PROVE  Sound(r)'
<1> DEFINE new == [NoRunner EXCEPT !.present = TRUE]
<1>1. new \in Objects /\ ~new.deleting
  BY ConstantTypes, StoredObjects DEF NoRunner
<1>2. Undisturbed' => Undisturbed
  BY WorkIsAbout, Disturbs DEF Work, About
<1>3. inst[r] # "unborn" /\ wk[r].pc = "create"
  BY SoundFacts DEF CreateRunner
<1>4. UNCHANGED <<inst, requested, guarded>>
  BY DEF CreateRunner, users
<1>5. CASE /\ ~cr[r].present /\ Stored(r, new)
           /\ wk' = [wk EXCEPT ![r].pc = "protect", ![r].fresh = TRUE]
  <2>1. wk'[r].pc = "protect" /\ wk'[r].fresh
    BY <1>5 DEF RunnerTypeOK, Workers
  <2>2. cr'[r] = new /\ cache'[r].obj = cache[r].obj
    BY <1>1, <1>5, AfterStored
  <2>3. Born(r)' /\ Branched(r)' /\ Protected(r)'
    BY <1>3, <1>4, <2>1 DEF Born, Branched, Protected
  <2>4. Requested(r)'
    BY <1>1, <1>4, <2>2 DEF Sound, Requested
  <2>5. Guarded(r)'
    BY <1>4, <1>5 DEF Sound, Guarded
  <2> QED
    BY <2>3, <2>4, <2>5 DEF Sound
<1>6. CASE cr[r].present /\ Fail(r) /\ UNCHANGED <<cr, cache>>
  <2>1. Undisturbed' => Undisturbed /\ (cr'[r].present => cr'[r].fin)
    BY <1>2, <1>3, <1>6, SoundFacts
  <2> QED
    BY <1>4, <1>6, <2>1, SoundFacts, EndsSoundly
<1>7. CASE Lost(r, ~cr[r].present /\ Stored(r, new))
  <2>1. ~Undisturbed'
    BY <1>7, Disturbs DEF Lost
  <2>2. CASE UNCHANGED <<cr, cache>>
    BY <1>4, <1>7, <2>1, <2>2, SoundFacts, EndsSoundly DEF Lost
  <2>3. CASE ~cr[r].present /\ Stored(r, new)
    <3> HIDE DEF new
    <3> QED
      BY <1>1, <1>3, <1>4, <1>7, <2>1, <2>3, SoundFacts, EndsSoundly DEF Lost
  <2> QED
    BY <1>7, <2>2, <2>3 DEF Lost
<1> QED
  BY <1>5, <1>6, <1>7 DEF CreateRunner

LEMMA EnsureFinalizerSound ==
    ASSUME RunnerTypeOK, NEW r \in Runners, Sound(r), EnsureFinalizer(r)
    PROVE  Sound(r)'
<1> DEFINE new == [cr[r] EXCEPT !.fin = TRUE]
<1>1. /\ new \in Objects /\ new.present = cr[r].present /\ new.fin
      /\ new.deleting = cr[r].deleting
  BY SoundFacts, StoredObjects DEF Objects
<1>2. Undisturbed' => Undisturbed
  BY WorkIsAbout, Disturbs DEF Work, About
<1>3. /\ Done(r) \/ Fail(r)
      /\ UNCHANGED <<inst, requested, guarded>>
      /\ \/ UNCHANGED <<cr, cache>> /\ ~wk[r].fresh
         \/ UNCHANGED <<cr, cache>> /\ Spend("fault")
         \/ Stored(r, new)
  BY DEF EnsureFinalizer, Lost, users
<1> HIDE DEF new
<1>4. Undisturbed' => Undisturbed /\ (cr'[r].present => cr'[r].fin)
  <2>1. CASE UNCHANGED <<cr, cache>> /\ ~wk[r].fresh
    BY <1>2, <2>1, SoundFacts
  <2>2. CASE UNCHANGED <<cr, cache>> /\ Spend("fault")
    BY <2>2, Disturbs
  <2>3. CASE Stored(r, new)
    BY <1>1, <1>2, <2>3, AfterStored
  <2> QED
    BY <1>3, <2>1, <2>2, <2>3
<1> QED
  BY <1>1, <1>3, <1>4, SoundFacts, EndsSoundly

LEMMA UpdateStatusSound ==
    ASSUME RunnerTypeOK, NEW r \in Runners, Sound(r), UpdateRunnerStatus(r)
    PROVE  Sound(r)'
<1> DEFINE new == [cr[r] EXCEPT !.status = Status(r, wk[r].found)]
<1>1. Status(r, wk[r].found) \in Statuses
  BY SameParts, StatusType
<1>2. /\ new \in Objects /\ new.present = cr[r].present
      /\ new.fin = cr[r].fin /\ new.deleting = cr[r].deleting
  BY <1>1, SoundFacts, StoredObjects DEF Objects
<1>3. Undisturbed' => Undisturbed
  BY WorkIsAbout, Disturbs DEF Work, About
<1>4. /\ Done(r) \/ Fail(r)
      /\ UNCHANGED <<inst, requested, guarded>>
      /\ UNCHANGED <<cr, cache>> \/ Stored(r, new)
      /\ wk[r].pc = "save"
  BY DEF UpdateRunnerStatus, Lost, users
<1> HIDE DEF new
<1>5. Undisturbed' => Undisturbed /\ (cr'[r].present => cr'[r].fin)
  <2>1. CASE UNCHANGED <<cr, cache>>
    BY <1>3, <1>4, <2>1, SoundFacts
  <2>2. CASE Stored(r, new)
    BY <1>2, <1>3, <1>4, <2>2, SoundFacts, AfterStored
  <2> QED
    BY <1>4, <2>1, <2>2
<1> QED
  BY <1>2, <1>4, <1>5, SoundFacts, EndsSoundly

LEMMA RemoveFinalizerSound ==
    ASSUME RunnerTypeOK, NEW r \in Runners, Sound(r), RemoveFinalizer(r)
    PROVE  Sound(r)'
<1> DEFINE new == [cr[r] EXCEPT !.fin = FALSE, !.present = FALSE]
<1>0. cr[r] \in Objects
  BY SoundFacts
<1>1. /\ new \in Objects /\ ~new.present /\ new.deleting = cr[r].deleting
  <2>1. ~new.present /\ new.deleting = cr[r].deleting
    BY <1>0 DEF Objects
  <2> QED
    BY <1>0, <2>1, StoredObjects
<1>2. Undisturbed' => Undisturbed
  BY WorkIsAbout, Disturbs DEF Work, About
<1>3. /\ Done(r) \/ Fail(r)
      /\ UNCHANGED <<inst, requested, guarded>>
      /\ UNCHANGED <<cr, cache>> \/ Stored(r, new)
      /\ wk[r].pc = "unbind" /\ inst[r] # "running"
  BY SoundFacts DEF RemoveFinalizer, Lost, users
<1> HIDE DEF new
<1>4. Undisturbed' => Undisturbed /\ (cr'[r].present => cr'[r].fin)
  <2>1. CASE UNCHANGED <<cr, cache>>
    BY <1>2, <1>3, <2>1, SoundFacts
  <2>2. CASE Stored(r, new)
    BY <1>1, <1>2, <2>2, AfterStored
  <2> QED
    BY <1>3, <2>1, <2>2
<1> QED
  BY <1>1, <1>3, <1>4, SoundFacts, EndsSoundly

\* An instance that garm is asked to delete is one a user wants gone, and
\* from then on it is not "running".
LEMMA DeleteInstanceSound ==
    ASSUME RunnerTypeOK, NEW r \in Runners, Sound(r), DeleteInstance(r)
    PROVE  Sound(r)'
<1>1. /\ UNCHANGED <<cr, cache, requested, guarded>>
      /\ wk[r].pc = "stop"
  BY DEF DeleteInstance, users
<1>2. Undisturbed' => Undisturbed
  BY WorkIsAbout, Disturbs DEF Work, About
<1>3. \/ wk'[r].pc = "unbind" /\ inst'[r] = "stopping"
      \/ wk'[r].pc = "idle" /\ wk'[r].found = "none"
  <2>1. CASE Fail(r)
    BY <2>1, AfterEnd
  <2>2. CASE Goto(r, "unbind") /\ inst' = [inst EXCEPT ![r] = "stopping"]
    BY <2>2 DEF Goto, RunnerTypeOK, Workers
  <2> QED
    BY <2>1, <2>2 DEF DeleteInstance
<1>4. \/ inst'[r] = inst[r]
      \/ inst'[r] = "stopping" /\ inst[r] # "gone"
  BY DEF DeleteInstance, RunnerTypeOK, Listed
<1>5. Born(r)'
  BY <1>1, <1>3, <1>4 DEF Sound, Born
<1>6. Branched(r)'
  BY <1>3 DEF Branched
<1>7. Requested(r)' /\ Guarded(r)'
  BY <1>1, <1>4 DEF Sound, Requested, Guarded
<1>8. Protected(r)'
  BY <1>1, <1>2 DEF Sound, Protected
<1> QED
  BY <1>5, <1>6, <1>7, <1>8 DEF Sound

LEMMA WorkSound ==
    ASSUME RunnerTypeOK, NEW r \in Runners, Sound(r), Work(r)
    PROVE  Sound(r)'
BY FindSound, ReconcileSound, DeleteRunnerSound, CreateRunnerSound,
   EnsureFinalizerSound, UpdateStatusSound, DeleteInstanceSound,
   RemoveFinalizerSound DEF Work

(***************************************************************************)
(* The steps of caches, garm and users keep the invariant.                 *)
(***************************************************************************)

LEMMA CacheSyncSound ==
    ASSUME RunnerTypeOK, NEW r \in Runners, Sound(r), CacheSync(r)
    PROVE  Sound(r)'
<1>1. /\ UNCHANGED <<inst, cr, wk, requested, guarded, spent>>
      /\ cache'[r].obj = cr[r]
  BY DEF CacheSync, users, RunnerTypeOK
<1>2. Born(r)' /\ Branched(r)'
  BY <1>1 DEF Sound, Born, Branched
<1>3. Requested(r)' /\ Guarded(r)' /\ Protected(r)'
  BY <1>1 DEF Sound, Requested, Guarded, Protected, Undisturbed
<1> QED
  BY <1>2, <1>3 DEF Sound

LEMMA InstanceMovesSound ==
    ASSUME RunnerTypeOK, NEW r \in Runners, Sound(r), InstanceMoves(r)
    PROVE  Sound(r)'
<1>1. UNCHANGED <<cr, cache, wk, requested, guarded, spent>>
  BY DEF InstanceMoves, users
<1>2. \/ inst[r] = "unborn" /\ inst'[r] = "running"
      \/ inst[r] = "running" /\ inst'[r] = "stopping"
      \/ inst[r] = "stopping" /\ inst'[r] = "gone"
  BY DEF InstanceMoves, Moves, RunnerTypeOK
<1>3. r \in guarded => inst[r] # "unborn"
  BY DEF Sound, Born, RunnerTypeOK
<1>4. Born(r)'
  BY <1>2 DEF Born
<1>5. Branched(r)'
  BY <1>1, <1>2 DEF Sound, Born, Branched
<1>6. Requested(r)' /\ Guarded(r)' /\ Protected(r)'
  BY <1>1, <1>2, <1>3
     DEF Sound, Requested, Guarded, Protected, Undisturbed
<1> QED
  BY <1>4, <1>5, <1>6 DEF Sound

LEMMA RequestDeleteSound ==
    ASSUME RunnerTypeOK, NEW r \in Runners, Sound(r), RequestDelete(r)
    PROVE  Sound(r)'
<1> DEFINE new == Removed(cr[r])
<1>1. /\ cr[r].present /\ ~cr[r].deleting
      /\ requested' = requested \cup {r}
      /\ guarded' = IF cr[r].fin THEN guarded \cup {r} ELSE guarded
      /\ Stored(r, new) /\ UNCHANGED inst
      /\ wk' = [wk EXCEPT ![r].fresh = FALSE]
  BY DEF RequestDelete, UserWrite
<1>2. /\ new \in Objects /\ new.present = cr[r].fin /\ new.fin = cr[r].fin
      /\ new.deleting
  BY SoundFacts, StoredObjects DEF Removed, Objects
<1>3. cr'[r] = new /\ cache'[r].obj = cache[r].obj
  BY <1>1, <1>2, AfterStored
<1>4. wk'[r].pc = wk[r].pc /\ wk'[r].found = wk[r].found
  BY <1>1 DEF RunnerTypeOK, Workers
<1>5. inst[r] # "unborn" /\ r \in requested'
  BY <1>1, SoundFacts
<1> HIDE DEF new
<1>6. Born(r)' /\ Requested(r)'
  BY <1>1, <1>5 DEF Born, Requested
<1>7. Branched(r)'
  BY <1>1, <1>4, <1>5 DEF Sound, Branched
<1>8. Guarded(r)'
  BY <1>1, <1>2, <1>3 DEF Sound, Guarded
<1>9. Protected(r)'
  BY <1>2, <1>3 DEF Protected
<1> QED
  BY <1>6, <1>7, <1>8, <1>9 DEF Sound

LEMMA TouchSound ==
    ASSUME RunnerTypeOK, NEW r \in Runners, Sound(r), Touch(r)
    PROVE  Sound(r)'
<1>1. /\ Stored(r, cr[r]) /\ Spend("touch")
      /\ UNCHANGED <<inst, requested, guarded>>
      /\ wk' = [wk EXCEPT ![r].fresh = FALSE]
  BY DEF Touch, UserWrite, users
<1>2. cr'[r] = cr[r] /\ cache'[r].obj = cache[r].obj
  BY <1>1, SoundFacts, AfterStored
<1>3. wk'[r].pc = wk[r].pc /\ wk'[r].found = wk[r].found
  BY <1>1 DEF RunnerTypeOK, Workers
<1>4. Born(r)' /\ Branched(r)' /\ Requested(r)' /\ Guarded(r)'
  BY <1>1, <1>2, <1>3 DEF Sound, Born, Branched, Requested, Guarded
<1>5. Protected(r)'
  BY <1>1, Disturbs DEF Protected
<1> QED
  BY <1>4, <1>5 DEF Sound

(***************************************************************************)
(* The whole step.                                                         *)
(***************************************************************************)

LEMMA RunnerInvInit == Init => RunnerInv
<1> SUFFICES ASSUME Init PROVE RunnerInv
  OBVIOUS
<1>1. ASSUME NEW r \in Runners
      PROVE  Sound(r)
  <2>1. /\ inst[r] = "unborn" /\ r \notin requested /\ r \notin guarded
        /\ ~cr[r].present /\ ~cr[r].deleting
        /\ ~cache[r].obj.present /\ ~cache[r].obj.deleting
        /\ wk[r].pc = "idle" /\ wk[r].found = "none"
    BY DEF Init, NoRunner, Idle
  <2> QED
    BY <2>1 DEF Sound, Born, Branched, Requested, Guarded, Protected
<1> QED
  BY <1>1, InitTypes DEF RunnerInv, OnlyRequestedStops, Init

LEMMA RequestedStep ==
    ASSUME RunnerInv, NEW r \in Runners,
           \/ Work(r) \/ CacheSync(r) \/ InstanceMoves(r)
           \/ RequestDelete(r) \/ Touch(r)
    PROVE  OnlyRequestedStops'
<1>1. requested \subseteq requested'
  BY WorkIsAbout, OutsideIsAbout DEF RunnerInv, About, HistoryOf, users
<1>2. CASE DeleteInstance(r)
  <2>1. wk[r].pc = "stop" /\ Branched(r)
    BY <1>2 DEF DeleteInstance, RunnerInv, Sound
  <2>2. \/ asked' = asked
        \/ asked' = asked \cup {r} /\ inst[r] \in Listed
    BY <1>2 DEF DeleteInstance
  <2>3. inst[r] \in Listed => r \in requested
    BY <2>1 DEF Branched, Listed
  <2> QED
    BY <1>1, <2>2, <2>3 DEF RunnerInv, OnlyRequestedStops
<1>3. CASE UNCHANGED asked
  BY <1>1, <1>3 DEF RunnerInv, OnlyRequestedStops
<1>4. DeleteInstance(r) \/ UNCHANGED asked
  BY DEF Work, GetGarmRunnerInstance, ReconcileNormal, DeleteRunner,
         CreateRunner, EnsureFinalizer, UpdateRunnerStatus, RemoveFinalizer,
         CacheSync, InstanceMoves, RequestDelete, Touch, UserWrite
<1> QED
  BY <1>2, <1>3, <1>4

LEMMA CrashSound ==
    ASSUME RunnerTypeOK, NEW r \in Runners, Sound(r), Crash
    PROVE  Sound(r)'
<1>1. /\ UNCHANGED <<inst, cr, requested, guarded>> /\ Spend("crash")
      /\ wk'[r] = Idle /\ cache'[r].obj = cr[r]
  BY DEF Crash, users
<1>2. wk'[r].pc = "idle" /\ wk'[r].found = "none"
  BY <1>1 DEF Idle
<1>3. Born(r)' /\ Branched(r)' /\ Requested(r)' /\ Guarded(r)'
  BY <1>1, <1>2 DEF Sound, Born, Branched, Requested, Guarded
<1>4. Protected(r)'
  BY <1>1, Disturbs DEF Protected
<1> QED
  BY <1>3, <1>4 DEF Sound

LEMMA RunnerInvStep == RunnerInv /\ [Next]_vars => RunnerInv'
<1> SUFFICES ASSUME RunnerInv, [Next]_vars
             PROVE  RunnerInv'
  OBVIOUS
<1>0. RunnerTypeOK /\ RunnerTypeOK'
  BY StepTypes DEF RunnerInv
<1>1. ASSUME NEW r \in Runners,
             \/ Work(r) \/ CacheSync(r) \/ InstanceMoves(r)
             \/ RequestDelete(r) \/ Touch(r)
      PROVE  RunnerInv'
  <2>1. Sound(r)'
    BY <1>0, <1>1, WorkSound, CacheSyncSound, InstanceMovesSound,
       RequestDeleteSound, TouchSound DEF RunnerInv
  <2>2. \A s \in Runners : Sound(s)'
    BY <1>0, <1>1, <2>1, WorkIsAbout, OutsideIsAbout, Others DEF RunnerInv
  <2> QED
    BY <1>0, <1>1, <2>2, RequestedStep DEF RunnerInv
<1>2. CASE Crash
  <2>1. OnlyRequestedStops'
    BY <1>2 DEF Crash, RunnerInv, OnlyRequestedStops, users
  <2>2. \A r \in Runners : Sound(r)'
    BY <1>0, <1>2, CrashSound DEF RunnerInv
  <2> QED
    BY <1>0, <2>1, <2>2 DEF RunnerInv
<1>3. ASSUME UNCHANGED <<inst, cr, cache, wk, users, asked>>, Spending
      PROVE  RunnerInv'
  <2>1. Undisturbed' => Undisturbed
    BY <1>0, <1>3, Disturbs
  <2>2. ASSUME NEW r \in Runners
        PROVE  Sound(r)'
    BY <1>3, <2>1 DEF RunnerInv, Sound, Born, Branched, Requested, Guarded,
                      Protected, users
  <2> QED
    BY <1>0, <1>3, <2>2 DEF RunnerInv, OnlyRequestedStops, users
<1>4. CASE Poll
  BY <1>3, <1>4 DEF Poll, EnqueueRunnerInstances, EnqueueRunnerEvents,
                    Spending
<1>5. CASE Lead \/ PoolChanges
  BY <1>3, <1>5 DEF Lead, PoolChanges, Spending, Disturbances
<1>6. CASE UNCHANGED vars
  BY <1>3, <1>6 DEF vars, users, Spending
<1> QED
  BY <1>1, <1>2, <1>4, <1>5, <1>6 DEF Next

\* The inductive invariant holds in every reachable state, for any number of
\* runners and Pools (reconcileNormal, PollRunnerInstances).
THEOREM RunnerInvariant == Spec => []RunnerInv
BY RunnerInvInit, RunnerInvStep, PTL DEF Spec

(***************************************************************************)
(* garm is never asked to delete an instance whose Runner no user deleted. *)
(***************************************************************************)
THEOREM StopsAreRequested == Spec => []OnlyRequestedStops
<1>1. RunnerInv => OnlyRequestedStops
  BY DEF RunnerInv
<1> QED
  BY <1>1, RunnerInvariant, PTL

(***************************************************************************)
(* The Runner a user deleted guards its instance for as long as that runs. *)
(***************************************************************************)
THEOREM RunnersGuardInstances == Spec => []GuardedUntilStopped
<1>1. RunnerInv => GuardedUntilStopped
  BY DEF RunnerInv, RunnerTypeOK, Sound, Guarded, GuardedUntilStopped
<1> QED
  BY <1>1, RunnerInvariant, PTL

(***************************************************************************)
(* A Runner stays without a finalizer only after a disturbance.            *)
(***************************************************************************)
THEOREM RunnersAreProtected == Spec => []UnprotectedOnlyIfDisturbed
<1>1. RunnerInv => UnprotectedOnlyIfDisturbed
  BY DEF RunnerInv, Sound, Protected, UnprotectedOnlyIfDisturbed
<1> QED
  BY <1>1, RunnerInvariant, PTL

=============================================================================
