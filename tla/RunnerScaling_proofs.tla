------------------------ MODULE RunnerScaling_proofs ------------------------
(***************************************************************************)
(* Proofs about RunnerScaling, for any number of runners, any values of    *)
(* minIdleRunners and any budgets: types, that a scale down spares         *)
(* minIdleRunners usable runners, and that the count in the status stays   *)
(* sound as long as no more than one listed runner ages at a bad moment.   *)
(***************************************************************************)
EXTENDS RunnerScaling, FiniteSetTheorems, WellFoundedInduction, TLAPS

-----------------------------------------------------------------------------
(***************************************************************************)
(* Selections and their sizes                                              *)
(***************************************************************************)

\* A selection of runners is finite and no larger than the pool can be.
LEMMA SelectionSize ==
    ASSUME NEW names \in SUBSET Runners
    PROVE  /\ IsFiniteSet(names)
           /\ Cardinality(names) \in Nat
           /\ Cardinality(names) <= MaxRunners
<1>1. IsFiniteSet(1..MaxRunners) /\ Cardinality(1..MaxRunners) = MaxRunners
  BY ScalingConstants, FS_Interval
<1>2. IsFiniteSet(names) /\ Cardinality(names) <= MaxRunners
  BY <1>1, FS_Subset DEF Runners
<1> QED BY <1>2, FS_CardinalityType

\* The order of natural numbers as the relation the library speaks of.
LEMMA LessRelated ==
    ASSUME NEW m \in Nat, NEW n \in Nat, m < n
    PROVE  <<m, n>> \in OpToRel(<, Nat)
<1>1. <<m, n>> \in {ss \in Nat \X Nat : ss[1] < ss[2]}
  OBVIOUS
<1> QED BY <1>1, Zenon DEF OpToRel

\* A selection that is not empty has a last runner.
LEMMA LastRunner ==
    ASSUME NEW names \in SUBSET Runners, names # {}
    PROVE  \E r \in names : \A q \in names : q <= r
<1> DEFINE Ranks == {MaxRunners - r : r \in names}
<1>1. names \subseteq 1..MaxRunners /\ MaxRunners \in Nat
  BY ScalingConstants DEF Runners
<1>2. Ranks \subseteq Nat
  BY <1>1
<1>3. Ranks # {}
  OBVIOUS
<1>4. PICK m \in Ranks : \A n \in Ranks : ~(<<n, m>> \in OpToRel(<, Nat))
  <2> HIDE DEF Ranks
  <2> QED BY <1>2, <1>3, WFMin, NatLessThanWellFounded, Zenon
<1>5. ASSUME NEW n \in Ranks PROVE ~(n < m)
  <2> HIDE DEF Ranks
  <2> QED BY <1>2, <1>4, LessRelated
<1>6. PICK r \in names : m = MaxRunners - r
  BY <1>4
<1>7. ASSUME NEW q \in names PROVE q <= r
  <2>1. MaxRunners - q \in Ranks
    OBVIOUS
  <2>2. ~(MaxRunners - q < MaxRunners - r)
    <3> HIDE DEF Ranks
    <3> QED BY <2>1, <1>5, <1>6
  <2>3. q \in Int /\ r \in Int /\ MaxRunners \in Int
    BY <1>1
  <2> QED BY <2>2, <2>3
<1> QED BY <1>7

\* AlignIdleRunners leaves the last min runners alone, whatever part of its
\* result is deleted in the end.
LEMMA AlignSpares ==
    ASSUME NEW min \in Nat, NEW names \in SUBSET Runners,
           NEW part \in SUBSET AlignIdleRunners(min, names), part # {}
    PROVE  \E rest \in SUBSET (names \ part) : Cardinality(rest) >= min
<1>1. part \subseteq names /\ names \subseteq 1..MaxRunners
  BY DEF AlignIdleRunners, Runners
<1>2. PICK r \in part : \A q \in part : q <= r
  BY <1>1, LastRunner DEF Runners
<1>3. After(r, names) \subseteq names \ part
  <2>1. ASSUME NEW q \in names, q > r PROVE q \notin part
    <3>1. q \in Int /\ r \in Int
      BY <1>1
    <3> QED BY <2>1, <3>1, <1>2
  <2> QED BY <2>1 DEF After
<1>4. Cardinality(After(r, names)) >= min
  BY <1>2 DEF AlignIdleRunners
<1> QED BY <1>3, <1>4

\* Hence it selects at most what exceeds min, or nothing.
LEMMA AlignBounds ==
    ASSUME NEW min \in Nat, NEW names \in SUBSET Runners,
           NEW part \in SUBSET AlignIdleRunners(min, names), part # {}
    PROVE  Cardinality(part) <= Cardinality(names) - min
<1>1. PICK rest \in SUBSET (names \ part) : Cardinality(rest) >= min
  BY AlignSpares
<1>2. part \subseteq names
  BY DEF AlignIdleRunners
<1>3. /\ IsFiniteSet(part) /\ IsFiniteSet(rest) /\ IsFiniteSet(names)
      /\ Cardinality(part) \in Nat /\ Cardinality(rest) \in Nat
      /\ Cardinality(names) \in Nat
  BY <1>2, SelectionSize
<1>4. part \cap rest = {}
  OBVIOUS
<1>5. Cardinality(part \cup rest) = Cardinality(part) + Cardinality(rest)
  <2>1. Cardinality(part \cap rest) = 0
    BY <1>4, FS_EmptySet
  <2>2. Cardinality(part \cup rest)
          = Cardinality(part) + Cardinality(rest) - Cardinality(part \cap rest)
    BY <1>3, FS_Union
  <2> QED BY <2>1, <2>2, <1>3
<1>6. Cardinality(part \cup rest) <= Cardinality(names)
  BY <1>2, <1>3, FS_Subset
<1> QED BY <1>1, <1>3, <1>5, <1>6

\* What is in a listing, as a function on the names it holds.
LEMMA ListingParts ==
    ASSUME NEW list \in Listings
    PROVE  /\ DOMAIN list \subseteq Runners
           /\ list \in [DOMAIN list -> Instances]
<1>1. PICK names \in SUBSET Runners : list \in [names -> Instances]
  BY DEF Listings
<1> QED BY <1>1

\* And the other way round.
LEMMA ListingFrom ==
    ASSUME NEW names \in SUBSET Runners, NEW list \in [names -> Instances]
    PROVE  list \in Listings
BY DEF Listings

\* Nothing is a listing.
LEMMA NothingListed == Nothing \in Listings /\ DOMAIN Nothing = {}
<1>1. Nothing \in [{} -> Instances] /\ DOMAIN Nothing = {}
  BY DEF Nothing
<1>2. {} \in SUBSET Runners
  OBVIOUS
<1> QED BY <1>1, <1>2, ListingFrom

\* What garm lists is a listing.
LEMMA ListingListed ==
    ASSUME runners \in [Runners -> Instances]
    PROVE  Listing \in Listings
<1> DEFINE names == {q \in Runners : runners[q].status # "absent"}
<1>1. names \in SUBSET Runners
  OBVIOUS
<1>2. Listing \in [names -> Instances]
  BY DEF Listing
<1> QED BY <1>1, <1>2, ListingFrom

\* A selection of a listing is one of its names.
LEMMA SelectionsOfListing ==
    ASSUME NEW list \in Listings, NEW min
    PROVE  /\ IdleRunners(list) \subseteq DOMAIN list
           /\ OldIdleRunners(list) \subseteq DOMAIN list
           /\ DeletableRunners(list) \subseteq DOMAIN list
           /\ Surplus(min, list) \subseteq DOMAIN list
BY DEF IdleRunners, OldIdleRunners, DeletableRunners, Surplus

\* A number converted to uint is one, and not larger than it was.
LEMMA UintBounds ==
    ASSUME NEW n \in Int
    PROVE  /\ Uint(n) \in 0..UintSize - 1
           /\ n >= 0 => Uint(n) <= n
BY ScalingConstants, SMT DEF Uint

-----------------------------------------------------------------------------
(***************************************************************************)
(* Types                                                                   *)
(***************************************************************************)

\* What is spent of a budget leaves a budget.
LEMMA SpendTypes ==
    ASSUME NEW kind \in Kinds, budget \in [Kinds -> Nat], Spend(kind)
    PROVE  /\ budget' \in [Kinds -> Nat]
           /\ budget'[kind] = budget[kind] - 1
           /\ \A other \in Kinds \ {kind} : budget'[other] = budget[other]
<1>1. budget[kind] \in Nat /\ budget[kind] > 0
  BY DEF Spend
<1>2. budget[kind] - 1 \in Nat
  BY <1>1
<1> QED BY <1>2 DEF Spend

\* The fields of the reconciliation in progress have their types.
LEMMA WorkerParts ==
    ASSUME w \in Workers
    PROVE  /\ w.pc \in Points /\ w.minIdle \in MinIdles
           /\ w.deleting \in BOOLEAN /\ w.list \in Listings
           /\ w.todo \subseteq Runners /\ w.count \in Int /\ w.late \in Nat
BY DEF Workers

\* No reconciliation is in progress after Rest.
LEMMA RestTypes == Rest \in Workers
<1>1. "rest" \in Points /\ 0 \in MinIdles /\ {} \subseteq Runners
  BY ScalingConstants DEF Points
<1> QED BY <1>1, NothingListed DEF Rest, Workers

\* DeleteInstance leaves the runners what they are.
LEMMA DeleteInstanceTypes ==
    ASSUME NEW r \in Runners, runners \in [Runners -> Instances],
           DeleteInstance(r)
    PROVE  runners' \in [Runners -> Instances]
<1>1. runners[r] \in Instances
  OBVIOUS
<1>2. [runners[r] EXCEPT !.status = "deleting", !.old = FALSE] \in Instances
  BY <1>1 DEF Instances
<1> QED BY <1>2 DEF DeleteInstance

\* UpdatePool keeps the types.
LEMMA UpdatePoolTypes ==
    ASSUME NEW min \in MinIdles, NEW enabled \in BOOLEAN,
           NEW point \in Points, ScalingTypeOK,
           UpdatePool(min, enabled, point)
    PROVE  /\ garm' \in [exists : BOOLEAN, minIdle : MinIdles,
                          enabled : BOOLEAN]
           /\ w' \in Workers
           /\ budget' \in [Kinds -> Nat]
<1> USE DEF ScalingTypeOK
<1>1. CASE /\ garm' = [garm EXCEPT !.minIdle = min, !.enabled = enabled]
           /\ Goto(point) /\ UNCHANGED budget
  BY <1>1 DEF Goto, Workers
<1>2. CASE Spend("fault") /\ w' = Rest /\ UNCHANGED garm
  BY <1>2, RestTypes, SpendTypes DEF Kinds
<1> QED BY <1>1, <1>2 DEF UpdatePool

\* Every step of the Pool controller keeps the types.
LEMMA WorkTypes ==
    ASSUME ScalingTypeOK, Work
    PROVE  ScalingTypeOK'
<1> USE DEF ScalingTypeOK
<1>0. /\ w.pc \in Points /\ w.minIdle \in MinIdles
      /\ w.deleting \in BOOLEAN /\ w.list \in Listings
      /\ w.todo \subseteq Runners /\ w.count \in Int
      /\ w \in Workers
  BY WorkerParts
<1>a. "fault" \in Kinds
  BY DEF Kinds
<1>b. ASSUME w' = Rest PROVE w' \in Workers
  BY <1>b, RestTypes
<1>c. ASSUME NEW point \in Points, Goto(point) PROVE w' \in Workers
  BY <1>0, <1>c DEF Goto, Workers
<1>d. Listing \in Listings
  BY ListingListed
<1>1. CASE Reconcile
  <2>1. counted \in Int /\ 0 \in MinIdles
    BY ScalingConstants
  <2>2. [Rest EXCEPT !.pc = IF deleting THEN "quiesce" ELSE "list",
                     !.minIdle = IF deleting THEN 0 ELSE minIdle,
                     !.deleting = deleting,
                     !.count = counted] \in Workers
    BY <2>1, RestTypes DEF Workers, Points
  <2> QED BY <1>1, <2>2 DEF Reconcile
<1>2. CASE ListIdle
  <2> DEFINE idle == [r \in IdleRunners(Listing) |-> Listing[r]]
  <2>1. idle \in Listings
    <3>1. /\ IdleRunners(Listing) \in SUBSET Runners
          /\ \A r \in IdleRunners(Listing) : Listing[r] \in Instances
      BY <1>d, ListingParts, SelectionsOfListing
    <3>2. idle \in [IdleRunners(Listing) -> Instances]
      BY <3>1
    <3> QED BY <3>1, <3>2, ListingFrom
  <2>2. CASE w' = [w EXCEPT !.pc = "push", !.list = idle] /\ UNCHANGED budget
    <3> HIDE DEF idle
    <3>1. w' \in Workers
      BY <1>0, <2>1, <2>2 DEF Workers, Points
    <3> QED BY <1>2, <2>2, <3>1 DEF ListIdle
  <2>3. CASE Spend("fault") /\ w' = Rest
    BY <1>2, <2>3, <1>a, <1>b, SpendTypes DEF ListIdle
  <2> QED BY <1>2, <2>2, <2>3 DEF ListIdle
<1>3. CASE PushSpec
  BY <1>0, <1>3, UpdatePoolTypes DEF PushSpec, Points
<1>4. CASE CountOld
  <2>1. OldIdleRunners(w.list) \in SUBSET Runners
    BY <1>0, ListingParts DEF OldIdleRunners
  <2>2. Cardinality(OldIdleRunners(w.list)) \in Int
    BY <2>1, SelectionSize
  <2>3. w' \in Workers
    BY <1>0, <1>4, <2>2 DEF CountOld, Workers, Points
  <2> QED BY <1>4, <2>3 DEF CountOld
<1>5. CASE Align
  <2>1. Surplus(w.minIdle, w.list) \subseteq Runners
    BY <1>0, ListingParts, SelectionsOfListing
  <2>2. w' \in Workers
    BY <1>0, <1>5, <2>1 DEF Align, Workers, Points
  <2> QED BY <1>5, <2>2 DEF Align
<1>6. CASE Quiesce
  BY <1>6, ScalingConstants, UpdatePoolTypes DEF Quiesce, Points
<1>7. CASE SweepList
  <2> DEFINE found == DeletableRunners(Listing)
  <2>1. found \in SUBSET Runners
    BY <1>d, ListingParts, SelectionsOfListing
  <2>2. Cardinality(found) \in Int
    BY <2>1, SelectionSize
  <2>3. CASE /\ w' = [w EXCEPT !.pc = "delete", !.list = Listing,
                               !.todo = found, !.count = Cardinality(found)]
             /\ UNCHANGED budget
    <3> HIDE DEF found
    <3>1. w' \in Workers
      BY <1>0, <1>d, <2>1, <2>2, <2>3 DEF Workers, Points
    <3> QED BY <1>7, <2>3, <3>1 DEF SweepList
  <2>4. CASE Spend("fault") /\ w' = Rest
    BY <1>7, <2>4, <1>a, <1>b, SpendTypes DEF SweepList
  <2> QED BY <1>7, <2>3, <2>4 DEF SweepList
<1>8. CASE DeleteNext
  <2>1. PICK r \in w.todo :
            /\ w' = [w EXCEPT !.todo = @ \ {r},
                              !.count = IF w.deleting THEN @ ELSE @ - 1]
            /\ \/ DeleteInstance(r) /\ UNCHANGED budget
               \/ Spend("fault") /\ UNCHANGED runners
    BY <1>8 DEF DeleteNext
  <2>2. (IF w.deleting THEN w.count ELSE w.count - 1) \in Int
    BY <1>0
  <2>3. w' \in Workers
    BY <1>0, <2>1, <2>2 DEF Workers
  <2>4. runners' \in [Runners -> Instances] /\ budget' \in [Kinds -> Nat]
    BY <1>0, <1>a, <2>1, DeleteInstanceTypes, SpendTypes
  <2> QED BY <1>8, <2>3, <2>4 DEF DeleteNext
<1>9. CASE DeletedAll
  <2>1. w' \in Workers
    BY <1>0, <1>9, NothingListed DEF DeletedAll, Workers, Points
  <2> QED BY <1>9, <2>1 DEF DeletedAll
<1>10. CASE DeletePool
  <2>1. w' \in Workers
    BY <1>10, <1>b, <1>c DEF DeletePool, Points
  <2>2. budget' \in [Kinds -> Nat]
    BY <1>10, <1>a, SpendTypes DEF DeletePool
  <2>3. garm' \in [exists : BOOLEAN, minIdle : MinIdles, enabled : BOOLEAN]
    BY <1>10 DEF DeletePool
  <2> QED BY <1>10, <2>1, <2>2, <2>3 DEF DeletePool
<1>11. CASE SaveCount
  <2>1. counted' \in 0..UintSize - 1
    BY <1>0, <1>11, UintBounds DEF SaveCount
  <2>2. budget' \in [Kinds -> Nat]
    BY <1>11, <1>a, SpendTypes DEF SaveCount
  <2> QED BY <1>11, <1>b, <2>1, <2>2 DEF SaveCount
<1> QED BY <1>1, <1>2, <1>3, <1>4, <1>5, <1>6, <1>7, <1>8, <1>9, <1>10, <1>11
        DEF Work

\* A listed runner that grows old stays a listed runner.
LEMMA AgedListing ==
    ASSUME NEW list \in Listings, NEW r \in DOMAIN list
    PROVE  /\ [list EXCEPT ![r].old = TRUE] \in Listings
           /\ OldIdleRunners([list EXCEPT ![r].old = TRUE])
                \subseteq OldIdleRunners(list) \cup {r}
<1> DEFINE aged == [list EXCEPT ![r].old = TRUE]
<1>1. DOMAIN list \in SUBSET Runners /\ list \in [DOMAIN list -> Instances]
  BY ListingParts
<1>2. [list[r] EXCEPT !.old = TRUE] \in Instances
  BY <1>1 DEF Instances
<1>3. aged \in [DOMAIN list -> Instances]
  BY <1>1, <1>2
<1>4. aged \in Listings
  BY <1>1, <1>3, ListingFrom
<1>5. OldIdleRunners(aged) \subseteq OldIdleRunners(list) \cup {r}
  BY <1>1 DEF OldIdleRunners
<1> QED BY <1>4, <1>5

\* Users, garm, GitHub and the clock keep the types as well.
LEMMA EnvironmentTypes ==
    ASSUME ScalingTypeOK, NEW r \in Runners,
           \/ RunnerCreated(r) \/ InstanceCreated(r) \/ RunnerRegisters(r)
           \/ RunnerTakesJob(r) \/ JobDone(r) \/ InstanceGone(r)
           \/ RunnerAges(r) \/ EntryAges(r)
    PROVE  ScalingTypeOK'
<1> USE DEF ScalingTypeOK
<1>1. runners[r] \in Instances
  OBVIOUS
<1>2. {"edit", "job", "slow", "skew"} \subseteq Kinds
  BY DEF Kinds
<1>3. ASSUME NEW inst \in Instances, Becomes(r, inst),
             budget' \in [Kinds -> Nat]
      PROVE  ScalingTypeOK'
  <2>1. runners' \in [Runners -> Instances]
    BY <1>3 DEF Becomes
  <2> QED BY <1>3, <2>1 DEF Becomes
<1>4. CASE RunnerCreated(r)
  <2>1. [Absent EXCEPT !.status = "creating"] \in Instances
    BY DEF Absent, Instances
  <2>2. budget' \in [Kinds -> Nat]
    BY <1>4, <1>2, SpendTypes DEF RunnerCreated
  <2> QED BY <1>3, <1>4, <2>1, <2>2 DEF RunnerCreated
<1>5. CASE InstanceCreated(r)
  <2>1. PICK s \in {"running", "error"} :
            Becomes(r, [runners[r] EXCEPT !.status = s, !.old = FALSE])
    BY <1>5 DEF InstanceCreated
  <2>2. [runners[r] EXCEPT !.status = s, !.old = FALSE] \in Instances
    BY <1>1 DEF Instances
  <2> QED BY <1>3, <1>5, <2>1, <2>2 DEF InstanceCreated
<1>6. CASE RunnerRegisters(r)
  <2>1. [runners[r] EXCEPT !.runnerStatus = "idle"] \in Instances
    BY <1>1 DEF Instances
  <2> QED BY <1>3, <1>6, <2>1 DEF RunnerRegisters
<1>7. CASE RunnerTakesJob(r)
  <2>1. [runners[r] EXCEPT !.runnerStatus = "active", !.old = FALSE]
            \in Instances
    BY <1>1 DEF Instances
  <2> QED BY <1>2, <1>3, <1>7, <2>1, SpendTypes DEF RunnerTakesJob
<1>8. CASE JobDone(r)
  <2>1. [runners[r] EXCEPT !.status = "deleting"] \in Instances
    BY <1>1 DEF Instances
  <2> QED BY <1>3, <1>8, <2>1 DEF JobDone
<1>9. CASE InstanceGone(r)
  <2>1. Absent \in Instances
    BY DEF Absent, Instances
  <2> QED BY <1>3, <1>9, <2>1 DEF InstanceGone
<1>10. CASE RunnerAges(r)
  <2>1. [runners[r] EXCEPT !.old = TRUE] \in Instances
    BY <1>1 DEF Instances
  <2>2. budget' \in [Kinds -> Nat]
    BY <1>10, <1>2, SpendTypes DEF RunnerAges
  <2> QED BY <1>3, <1>10, <2>1, <2>2 DEF RunnerAges
<1>11. CASE EntryAges(r)
  <2> DEFINE aged == [w.list EXCEPT ![r].old = TRUE]
  <2> DEFINE n == IF w.pc = "align" THEN w.late + 1 ELSE w.late
  <2>1. r \in DOMAIN w.list /\ w' = [w EXCEPT !.list = aged, !.late = n]
    BY <1>11 DEF EntryAges, Workers
  <2>a. n \in Nat
    BY WorkerParts
  <2>2. aged \in Listings
    BY <2>1, WorkerParts, AgedListing
  <2>3. w' \in Workers
    <3> HIDE DEF aged, n
    <3> QED BY <2>1, <2>2, <2>a, WorkerParts DEF Workers
  <2>4. budget' \in [Kinds -> Nat]
    BY <1>11, <1>2, SpendTypes DEF EntryAges
  <2> QED BY <1>11, <2>3, <2>4 DEF EntryAges
<1> QED BY <1>4, <1>5, <1>6, <1>7, <1>8, <1>9, <1>10, <1>11

\* The types are there from the start.
LEMMA InitTypes == Init => ScalingTypeOK
<1> SUFFICES ASSUME Init PROVE ScalingTypeOK
  OBVIOUS
<1>1. minIdle \in Int
  BY ScalingConstants DEF Init
<1>2. counted \in 0..UintSize - 1
  BY <1>1, UintBounds DEF Init
<1>3. runners \in [Runners -> Instances]
  BY DEF Init, Absent, Instances
<1>4. budget \in [Kinds -> Nat]
  BY ScalingConstants DEF Init
<1> QED BY <1>2, <1>3, <1>4, RestTypes DEF Init, ScalingTypeOK

\* Every step keeps the types.
LEMMA NextTypes == ScalingTypeOK /\ [Next]_vars => ScalingTypeOK'
<1> SUFFICES ASSUME ScalingTypeOK, [Next]_vars PROVE ScalingTypeOK'
  OBVIOUS
<1>1. CASE Work
  BY <1>1, WorkTypes
<1>2. CASE EditMinIdle
  BY <1>2, SpendTypes DEF EditMinIdle, ScalingTypeOK, Kinds
<1>3. CASE RequestDelete
  BY <1>3 DEF RequestDelete, ScalingTypeOK
<1>4. CASE Environment
  BY <1>4, EnvironmentTypes DEF Environment
<1>5. CASE UNCHANGED vars
  BY <1>5 DEF vars, ScalingTypeOK
<1> QED BY <1>1, <1>2, <1>3, <1>4, <1>5 DEF Next

(***************************************************************************)
(* Every variable has its type, for any number of runners and any width of *)
(* the count in the status (PoolStatus.LongRunningIdleRunners).            *)
(***************************************************************************)
THEOREM ScalingTypeCorrect == Spec => []ScalingTypeOK
BY InitTypes, NextTypes, PTL DEF Spec

-----------------------------------------------------------------------------
(***************************************************************************)
(* minIdleRunners are spared                                               *)
(***************************************************************************)

\* Only reconcileDelete comes to the points that are its own.
Branches == w.pc \in {"quiesce", "sweep", "remove"} => w.deleting

\* What reconcileUpdate has yet to delete is part of the surplus of the
\* listing it holds.
Chosen == w.pc = "delete" /\ ~w.deleting
          => w.todo \subseteq Surplus(w.minIdle, w.list)

\* The inductive invariant.
ScalingInv == ScalingTypeOK /\ Branches /\ Chosen

\* After Rest nothing is chosen.
LEMMA RestChoosesNothing == w' = Rest => Branches' /\ Chosen'
BY DEF Rest, Branches, Chosen

\* The steps of the Pool controller keep to what was chosen.
LEMMA WorkChoices ==
    ASSUME ScalingInv, Work
    PROVE  Branches' /\ Chosen'
<1> USE DEF Branches, Chosen
<1>0. w \in Workers /\ Branches /\ Chosen
  BY DEF ScalingInv, ScalingTypeOK
<1>1. CASE Reconcile
  <2>1. w'.pc = (IF deleting THEN "quiesce" ELSE "list")
        /\ w'.deleting = deleting
    BY <1>1 DEF Reconcile, Rest
  <2> QED BY <2>1
<1>2. CASE ListIdle
  <2>1. w'.pc = "push" \/ w' = Rest
    BY <1>0, <1>2 DEF ListIdle, Workers
  <2> QED BY <2>1, RestChoosesNothing
<1>3. CASE PushSpec
  <2>1. w'.pc = "count" \/ w' = Rest
    BY <1>0, <1>3 DEF PushSpec, UpdatePool, Goto, Workers
  <2> QED BY <2>1, RestChoosesNothing
<1>4. CASE CountOld
  BY <1>0, <1>4 DEF CountOld, Workers
<1>5. CASE Align
  <2>1. /\ w'.pc = "delete" /\ w'.todo = Surplus(w.minIdle, w.list)
        /\ w'.minIdle = w.minIdle /\ w'.list = w.list
    BY <1>0, <1>5 DEF Align, Workers
  <2> QED BY <2>1
<1>6. CASE Quiesce
  <2>1. w' = Rest \/ (w'.pc = "sweep" /\ w'.deleting = w.deleting)
    BY <1>0, <1>6 DEF Quiesce, UpdatePool, Goto, Workers
  <2> QED BY <1>0, <1>6, <2>1, RestChoosesNothing DEF Quiesce
<1>7. CASE SweepList
  <2>1. w' = Rest \/ (w'.pc = "delete" /\ w'.deleting = w.deleting)
    BY <1>0, <1>7 DEF SweepList, Workers
  <2> QED BY <1>0, <1>7, <2>1, RestChoosesNothing DEF SweepList
<1>8. CASE DeleteNext
  <2>1. /\ w.pc = "delete" /\ w'.pc = "delete" /\ w'.deleting = w.deleting
        /\ w'.minIdle = w.minIdle /\ w'.list = w.list
        /\ w'.todo \subseteq w.todo
    BY <1>0, <1>8 DEF DeleteNext, Workers
  <2> QED BY <1>0, <2>1
<1>9. CASE DeletedAll
  <2>1. /\ w'.pc = (IF w.deleting THEN "remove" ELSE "save")
        /\ w'.deleting = w.deleting
    BY <1>0, <1>9 DEF DeletedAll, Workers
  <2> QED BY <2>1
<1>10. CASE DeletePool
  <2>1. w'.pc = "save" \/ w' = Rest
    BY <1>0, <1>10 DEF DeletePool, Goto, Workers
  <2> QED BY <2>1, RestChoosesNothing
<1>11. CASE SaveCount
  BY <1>11, RestChoosesNothing DEF SaveCount
<1> QED BY <1>1, <1>2, <1>3, <1>4, <1>5, <1>6, <1>7, <1>8, <1>9, <1>10, <1>11
        DEF ScalingInv, Work

\* What happens meanwhile leaves the reconciliation alone, except that a
\* listed runner may grow old before anything is chosen.
LEMMA EnvironmentLeavesWorker ==
    ASSUME ScalingTypeOK, EditMinIdle \/ RequestDelete \/ Environment
    PROVE  \/ UNCHANGED w
           \/ \E r \in Runners : EntryAges(r)
BY DEF EditMinIdle, RequestDelete, Environment, RunnerCreated,
       InstanceCreated, RunnerRegisters, RunnerTakesJob, JobDone,
       InstanceGone, RunnerAges, Becomes

\* Init establishes the invariant and every step keeps it.
LEMMA ScalingInduction ==
    /\ Init => ScalingInv
    /\ ScalingInv /\ [Next]_vars => ScalingInv'
<1>1. Init => ScalingInv
  BY InitTypes DEF Init, ScalingInv, Branches, Chosen, Rest
<1>2. ASSUME ScalingInv, [Next]_vars PROVE ScalingInv'
  <2>1. ScalingTypeOK /\ ScalingTypeOK' /\ w \in Workers
    BY <1>2, NextTypes DEF ScalingInv, ScalingTypeOK
  <2>2. CASE Work
    BY <1>2, <2>1, <2>2, WorkChoices DEF ScalingInv
  <2>3. CASE UNCHANGED w
    BY <1>2, <2>1, <2>3 DEF ScalingInv, Branches, Chosen
  <2>4. CASE \E r \in Runners : EntryAges(r)
    <3>1. w.pc \in {"push", "count", "align"} /\ w'.pc = w.pc
      BY <2>1, <2>4 DEF EntryAges, Workers
    <3> QED BY <2>1, <3>1 DEF ScalingInv, Branches, Chosen
  <2> QED BY <1>2, <2>1, <2>2, <2>3, <2>4, EnvironmentLeavesWorker
          DEF Next, vars
<1> QED BY <1>1, <1>2

\* A choice that is part of the surplus spares enough.
LEMMA ChoiceSpares == ScalingInv => SparesMinIdle
<1> SUFFICES ASSUME ScalingInv,
                    w.pc = "delete", ~w.deleting, w.minIdle > 0,
                    w.todo # {},
                    \A r \in OldIdleRunners(w.list) : Settled(w.list[r])
             PROVE  Cardinality(Spared) >= w.minIdle
  BY DEF SparesMinIdle
<1> DEFINE old == OldIdleRunners(w.list)
<1>1. /\ w.list \in Listings /\ w.minIdle \in Nat
      /\ w.todo \subseteq Surplus(w.minIdle, w.list)
  BY WorkerParts, ScalingConstants DEF ScalingInv, ScalingTypeOK, Chosen
<1>2. old \subseteq DOMAIN w.list /\ DOMAIN w.list \subseteq Runners
  BY <1>1, ListingParts, SelectionsOfListing
<1>3. w.todo \in SUBSET AlignIdleRunners(w.minIdle, old)
  BY <1>1 DEF Surplus
<1>4. PICK rest \in SUBSET (old \ w.todo) : Cardinality(rest) >= w.minIdle
  <2> HIDE DEF old
  <2> QED BY <1>1, <1>2, <1>3, AlignSpares
<1>5. rest \subseteq Spared /\ Spared \subseteq Runners
  BY <1>2 DEF Spared
<1>6. /\ IsFiniteSet(Spared) /\ Cardinality(Spared) \in Nat
      /\ Cardinality(rest) <= Cardinality(Spared)
  BY <1>5, SelectionSize, FS_Subset
<1>7. Cardinality(rest) \in Nat
  BY <1>5, SelectionSize
<1> QED BY <1>1, <1>4, <1>6, <1>7

(***************************************************************************)
(* A scale down spares minIdleRunners usable runners, however many there   *)
(* are and whatever happens while reconcileUpdate works through its list.  *)
(***************************************************************************)
THEOREM ScaleDownSpares == Spec => []SparesMinIdle
BY ScalingInduction, ChoiceSpares, PTL DEF Spec

-----------------------------------------------------------------------------
(***************************************************************************)
(* The count in the status                                                 *)
(***************************************************************************)

(***************************************************************************)
(* What holds of the count, at each point of reconcileUpdate at which it   *)
(* is used, when minIdleRunners is not 0: the second evaluation of         *)
(* OldIdleRunners finds at most w.late runners more than the first.        *)
(***************************************************************************)
Counted ==
    ~w.deleting /\ w.minIdle > 0 =>
        /\ w.pc = "align" =>
               /\ w.count \in 0..MaxRunners
               /\ Cardinality(OldIdleRunners(w.list)) <= w.count + w.late
        /\ w.pc = "delete" /\ w.late <= w.minIdle =>
               /\ w.count \in 0..MaxRunners
               /\ Cardinality(w.todo) <= w.count
        /\ w.pc = "save" /\ w.late <= w.minIdle => w.count \in 0..MaxRunners

\* A set of runners with one more is at most one larger.
LEMMA OneMore ==
    ASSUME NEW names \in SUBSET Runners, NEW r,
           NEW more \in SUBSET (names \cup {r})
    PROVE  Cardinality(more) \in Nat
           /\ Cardinality(more) <= Cardinality(names) + 1
<1>1. IsFiniteSet(names) /\ Cardinality(names) \in Nat
  BY SelectionSize
<1>2. /\ IsFiniteSet(names \cup {r})
      /\ Cardinality(names \cup {r}) <= Cardinality(names) + 1
  BY <1>1, FS_AddElement
<1>3. IsFiniteSet(more) /\ Cardinality(more) <= Cardinality(names \cup {r})
  BY <1>2, FS_Subset
<1>4. Cardinality(more) \in Nat /\ Cardinality(names \cup {r}) \in Nat
  BY <1>2, <1>3, FS_CardinalityType
<1> QED BY <1>1, <1>2, <1>3, <1>4

\* The steps of the Pool controller keep the count sound.
LEMMA WorkCounts ==
    ASSUME ScalingInv, Counted, Work
    PROVE  Counted'
<1> USE DEF Counted
<1>0. /\ w \in Workers /\ ScalingTypeOK /\ Branches /\ Chosen /\ Counted
      /\ w.list \in Listings /\ w.todo \in SUBSET Runners
      /\ w.minIdle \in Nat /\ w.minIdle \in MinIdles /\ w.count \in Int
      /\ w.late \in Nat /\ MaxRunners \in Nat
  BY WorkerParts, ScalingConstants DEF ScalingInv, ScalingTypeOK
<1>a. ASSUME w' = Rest PROVE Counted'
  BY <1>a DEF Rest
<1>1. CASE Reconcile
  <2>1. w'.pc \in {"quiesce", "list"}
    BY <1>1 DEF Reconcile, Rest
  <2> QED BY <2>1
<1>2. CASE ListIdle
  <2>1. w'.pc = "push" \/ w' = Rest
    BY <1>0, <1>2 DEF ListIdle, Workers
  <2> QED BY <2>1, <1>a
<1>3. CASE PushSpec
  <2>1. w'.pc = "count" \/ w' = Rest
    BY <1>0, <1>3 DEF PushSpec, UpdatePool, Goto, Workers
  <2> QED BY <2>1, <1>a
<1>4. CASE CountOld
  <2> DEFINE n == Cardinality(OldIdleRunners(w.list))
  <2>1. /\ w'.pc = "align" /\ w'.count = n /\ w'.list = w.list
        /\ w'.late = w.late
    BY <1>0, <1>4 DEF CountOld, Workers
  <2>2. n \in 0..MaxRunners
    <3>1. OldIdleRunners(w.list) \in SUBSET Runners
      BY <1>0, ListingParts, SelectionsOfListing
    <3> QED BY <1>0, <3>1, SelectionSize
  <2>3. Cardinality(OldIdleRunners(w'.list)) = n
    BY <2>1
  <2> HIDE DEF n
  <2> QED BY <1>0, <2>1, <2>2, <2>3
<1>5. CASE Align
  <2> DEFINE old == OldIdleRunners(w.list)
  <2>1. /\ w.pc = "align" /\ w'.pc = "delete"
        /\ w'.todo = Surplus(w.minIdle, w.list) /\ w'.count = w.count
        /\ w'.minIdle = w.minIdle /\ w'.deleting = w.deleting
        /\ w'.late = w.late
    BY <1>0, <1>5 DEF Align, Workers
  <2> SUFFICES ASSUME ~w.deleting, w.minIdle > 0, w.late <= w.minIdle
               PROVE  /\ w.count \in 0..MaxRunners
                      /\ Cardinality(w'.todo) <= w.count
    BY <2>1
  <2>2. /\ w.count \in 0..MaxRunners
        /\ Cardinality(old) <= w.count + w.late
    BY <1>0, <2>1
  <2>4. old \in SUBSET Runners
    BY <1>0, ListingParts, SelectionsOfListing
  <2>5. w'.todo \in SUBSET AlignIdleRunners(w.minIdle, old)
    BY <2>1 DEF Surplus
  <2>6. CASE w'.todo = {}
    BY <2>2, <2>6, FS_EmptySet
  <2>7. CASE w'.todo # {}
    <3>1. Cardinality(w'.todo) <= Cardinality(old) - w.minIdle
      <4> HIDE DEF old
      <4> QED BY <1>0, <2>4, <2>5, <2>7, AlignBounds
    <3>2. w'.todo \in SUBSET Runners
      BY <2>4, <2>5 DEF AlignIdleRunners
    <3>3. Cardinality(old) \in Nat /\ Cardinality(w'.todo) \in Nat
      BY <2>4, <3>2, SelectionSize
    <3> HIDE DEF old
    <3> QED BY <1>0, <2>2, <3>1, <3>3
  <2> QED BY <2>6, <2>7
<1>6. CASE Quiesce
  <2>1. w' = Rest \/ w'.pc = "sweep"
    BY <1>0, <1>6 DEF Quiesce, UpdatePool, Goto, Workers
  <2> QED BY <2>1, <1>a
<1>7. CASE SweepList
  <2>1. w' = Rest \/ w'.deleting
    BY <1>0, <1>7 DEF SweepList, Workers, Branches
  <2> QED BY <2>1, <1>a
<1>8. CASE DeleteNext
  <2>1. PICK r \in w.todo :
            w' = [w EXCEPT !.todo = @ \ {r},
                           !.count = IF w.deleting THEN @ ELSE @ - 1]
    BY <1>8 DEF DeleteNext
  <2>2. /\ w.pc = "delete" /\ w'.pc = "delete" /\ w'.todo = w.todo \ {r}
        /\ w'.deleting = w.deleting /\ w'.minIdle = w.minIdle
        /\ w'.late = w.late
        /\ ~w.deleting => w'.count = w.count - 1
    BY <1>0, <1>8, <2>1 DEF DeleteNext, Workers
  <2>3. /\ IsFiniteSet(w.todo) /\ Cardinality(w.todo) \in Nat
        /\ Cardinality(w'.todo) \in Nat
    BY <1>0, <2>2, SelectionSize
  <2>4. Cardinality(w.todo \ {r}) = Cardinality(w.todo) - 1
    BY <2>3, FS_RemoveElement
  <2> QED BY <1>0, <2>2, <2>3, <2>4
<1>9. CASE DeletedAll
  <2>1. /\ w.pc = "delete" /\ w'.count = w.count
        /\ w'.minIdle = w.minIdle /\ w'.deleting = w.deleting
        /\ w'.late = w.late /\ w'.pc \in {"remove", "save"}
    BY <1>0, <1>9 DEF DeletedAll, Workers
  <2> QED BY <1>0, <2>1
<1>10. CASE DeletePool
  <2>1. w' = Rest \/ w'.deleting
    BY <1>0, <1>10 DEF DeletePool, Goto, Workers, Branches
  <2> QED BY <2>1, <1>a
<1>11. CASE SaveCount
  BY <1>11, <1>a DEF SaveCount
<1> QED BY <1>1, <1>2, <1>3, <1>4, <1>5, <1>6, <1>7, <1>8, <1>9, <1>10, <1>11
        DEF Work

\* Init establishes Counted and every step keeps it.
LEMMA CountInduction ==
    /\ Init => Counted
    /\ ScalingInv /\ Counted /\ [Next]_vars => Counted'
<1>1. Init => Counted
  BY DEF Init, Rest, Counted
<1>2. ASSUME ScalingInv, Counted, [Next]_vars PROVE Counted'
  <2>0. /\ ScalingTypeOK /\ w \in Workers /\ w.late \in Nat
        /\ w.list \in Listings /\ w.minIdle \in Nat /\ w.count \in Int
    BY <1>2, WorkerParts, ScalingConstants DEF ScalingInv, ScalingTypeOK
  <2>1. CASE Work
    BY <1>2, <2>1, WorkCounts
  <2>2. CASE UNCHANGED w
    BY <1>2, <2>2 DEF Counted, OldIdleRunners
  <2>3. ASSUME NEW r \in Runners, EntryAges(r) PROVE Counted'
    <3> DEFINE aged == [w.list EXCEPT ![r].old = TRUE]
    <3>1. /\ w.pc \in {"push", "count", "align"} /\ w'.pc = w.pc
          /\ r \in DOMAIN w.list
          /\ w'.list = aged /\ w'.count = w.count
          /\ w'.minIdle = w.minIdle /\ w'.deleting = w.deleting
          /\ w.pc = "align" => w'.late = w.late + 1
      BY <2>0, <2>3 DEF EntryAges, Workers
    <3> SUFFICES ASSUME w.pc = "align", ~w.deleting, w.minIdle > 0
                 PROVE  /\ w.count \in 0..MaxRunners
                        /\ Cardinality(OldIdleRunners(w'.list))
                             <= w.count + w.late + 1
      BY <2>0, <3>1 DEF Counted
    <3>2. /\ w.count \in 0..MaxRunners
          /\ Cardinality(OldIdleRunners(w.list)) <= w.count + w.late
      BY <1>2 DEF Counted
    <3>3. OldIdleRunners(w.list) \in SUBSET Runners
      BY <2>0, ListingParts, SelectionsOfListing
    <3>4. OldIdleRunners(w'.list)
            \in SUBSET (OldIdleRunners(w.list) \cup {r})
      BY <2>0, <3>1, AgedListing
    <3>5. /\ Cardinality(OldIdleRunners(w'.list)) \in Nat
          /\ Cardinality(OldIdleRunners(w'.list))
               <= Cardinality(OldIdleRunners(w.list)) + 1
      BY <3>3, <3>4, OneMore
    <3>6. Cardinality(OldIdleRunners(w.list)) \in Nat
      BY <3>3, SelectionSize
    <3> QED BY <2>0, <3>2, <3>5, <3>6
  <2> QED BY <1>2, <2>0, <2>1, <2>2, <2>3, EnvironmentLeavesWorker
          DEF Next, vars
<1> QED BY <1>1, <1>2

\* What Counted says of a step that saves the count.
LEMMA CountSaved ==
    ASSUME ScalingInv, Counted, [Next]_vars,
           w.pc = "save", ~w.deleting, w.minIdle > 0, w.late <= w.minIdle
    PROVE  counted' <= MaxRunners \/ UNCHANGED counted
<1>1. w.count \in 0..MaxRunners /\ MaxRunners \in Nat
  BY ScalingConstants DEF Counted
<1>2. Uint(w.count) <= MaxRunners
  BY <1>1, ScalingConstants, UintBounds
<1>3. counted' = Uint(w.count) \/ UNCHANGED counted
  BY DEF Next, vars, Work, Reconcile, ListIdle, PushSpec, CountOld, Align,
     Quiesce, SweepList, DeleteNext, DeletedAll, DeletePool, SaveCount,
     EditMinIdle, RequestDelete, Environment, RunnerCreated,
     InstanceCreated, RunnerRegisters, RunnerTakesJob, JobDone,
     InstanceGone, RunnerAges, EntryAges, Becomes
<1> QED BY <1>2, <1>3

(***************************************************************************)
(* While minIdleRunners > 0, the count in the status wraps around in no    *)
(* reconciliation in which at most minIdleRunners listed runners grow old  *)
(* between the two evaluations: reconcileUpdate takes a runner off the     *)
(* count for each of the surplus it found a little later, and the surplus  *)
(* leaves minIdleRunners of the old ones.                                  *)
(***************************************************************************)
THEOREM CountNeverWraps == Spec => CountStaysSound
<1>1. ScalingInv /\ Counted /\ [Next]_vars
      => [w.pc = "save" /\ ~w.deleting /\ w.minIdle > 0
          /\ w.late <= w.minIdle
          => counted' <= MaxRunners \/ UNCHANGED counted]_vars
  BY CountSaved
<1> QED BY <1>1, ScalingInduction, CountInduction, PTL
        DEF Spec, CountStaysSound

=============================================================================
