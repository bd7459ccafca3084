---------------------------- MODULE RunnerScaling ----------------------------
(***************************************************************************)
(* How a Pool's runners are scaled down: reconcileUpdate picks surplus     *)
(* idle runners from a listing it took some calls earlier, reconcileDelete *)
(* empties the pool, and meanwhile garm and GitHub move the runners on.    *)
(*                                                                         *)
(* PoolController models the rest of these two functions; here one         *)
(* reconciliation has only the steps that read or delete runners.          *)
(***************************************************************************)
EXTENDS Integers, FiniteSets

CONSTANTS
    MaxRunners, \* runner names, in the order in which garm lists them
    MinIdles,   \* values of spec.minIdleRunners
    UintSize,   \* number of values of the uint longRunningIdleRunners
    Budgets     \* for each kind of event, how often it may happen

(***************************************************************************)
(*   edit   the user changes minIdleRunners                                *)
(*   job    garm adds a runner for a queued job, or a runner takes a job   *)
(*   fault  a call fails                                                   *)
(*   slow   creating or stopping an instance takes longer than             *)
(*          minIdleRunnersAge                                              *)
(*   skew   a runner passes minIdleRunnersAge between the two evaluations  *)
(*          of OldIdleRunners of one reconciliation                        *)
(***************************************************************************)
Kinds == {"edit", "job", "fault", "slow", "skew"}

ASSUME ScalingConstants == /\ MaxRunners \in Nat
                           /\ MinIdles \subseteq Nat /\ 0 \in MinIdles
                           /\ UintSize \in Nat \ {0}
                           /\ Budgets \subseteq [Kinds -> Nat]

VARIABLES
    minIdle,    \* spec.minIdleRunners
    deleting,   \* the object has a deletionTimestamp
    counted,    \* status.longRunningIdleRunners
    garm,       \* the garm pool: exists, its minIdleRunners and enabled
    runners,    \* the runners of the pool in garm
    w,          \* the reconciliation in progress
    budget

vars == <<minIdle, deleting, counted, garm, runners, w, budget>>

Runners == 1..MaxRunners

(***************************************************************************)
(* status is the provider's view, runnerStatus GitHub's.  old says that    *)
(* the time since UpdatedAt exceeds minIdleRunnersAge; every update of a   *)
(* runner resets it, and only for idle runners does anybody ask.           *)
(***************************************************************************)
Instances == [status : {"absent", "creating", "running", "error", "deleting"},
              runnerStatus : {"installing", "idle", "active"},
              old : BOOLEAN]

Absent == [status |-> "absent", runnerStatus |-> "installing", old |-> FALSE]

\* Some runners by name, as they were listed.
Listings == UNION {[names -> Instances] : names \in SUBSET Runners}

Nothing == [r \in {} |-> Absent]

Points == {"rest", "list", "push", "count", "align", "delete", "save",
           "quiesce", "sweep", "remove"}

\* list holds the runners in hand, todo the names still to delete; late says
\* how many passed minIdleRunnersAge between the two evaluations of
\* OldIdleRunners (history).
Workers == [pc : Points, minIdle : MinIdles, deleting : BOOLEAN,
            list : Listings, todo : SUBSET Runners, count : Int, late : Nat]

Rest == [pc |-> "rest", minIdle |-> 0, deleting |-> FALSE,
         list |-> Nothing, todo |-> {}, count |-> 0, late |-> 0]

-----------------------------------------------------------------------------
(***************************************************************************)
(* pkg/runners: selections from a listing, as sets of names.  A selection  *)
(* keeps the order of the listing, which is that of the names.             *)
(***************************************************************************)

\* What ListPoolInstances and GetPool return.
Listing ==
    [r \in {q \in Runners : runners[q].status # "absent"} |-> runners[r]]

IdleRunners(list) == {r \in DOMAIN list : list[r].runnerStatus = "idle"}

OldIdleRunners(list) == {r \in DOMAIN list : list[r].old}

\* Mutant: runners in status running are not selected.
DeletableErrorsOnly(list) == {r \in DOMAIN list : list[r].status = "error"}

DeletableRunners(list) ==
    {r \in DOMAIN list : list[r].status \in {"running", "error"}}

\* The runners of the selection that come after r.
After(r, names) == {q \in names : q > r}

\* Mutant: one runner too many.
AlignIdleRunnersOffByOne(min, names) ==
    {r \in names : Cardinality(After(r, names)) + 1 >= min}

\* All but the last min runners.
AlignIdleRunners(min, names) ==
    {r \in names : Cardinality(After(r, names)) >= min}

\* Mutant: a surplus of any age is deleted.
SurplusOfAnyAge(min, list) ==
    DeletableRunners(list) \cap AlignIdleRunners(min, DOMAIN list)

\* What reconcileUpdate deletes: all idle runners when minIdleRunners is 0,
\* the surplus of old ones otherwise.
Surplus(min, list) ==
    DeletableRunners(list)
        \cap (IF min = 0 THEN DOMAIN list
              ELSE AlignIdleRunners(min, OldIdleRunners(list)))

\* Mutant: the count is not converted.
Signed(n) == n

\* uint(n)
Uint(n) == n % UintSize

-----------------------------------------------------------------------------

Spend(kind) == /\ budget[kind] > 0
               /\ budget' = [budget EXCEPT ![kind] = @ - 1]

Goto(point) == w' = [w EXCEPT !.pc = point]

\* The pool in garm takes over minIdleRunners and enabled, or the call fails
\* and the reconciliation ends.
UpdatePool(min, enabled, next) ==
    \/ /\ garm' = [garm EXCEPT !.minIdle = min, !.enabled = enabled]
       /\ Goto(next)
       /\ UNCHANGED budget
    \/ /\ Spend("fault")
       /\ w' = Rest
       /\ UNCHANGED garm

-----------------------------------------------------------------------------
(***************************************************************************)
(* A reconciliation that changes nothing else                              *)
(***************************************************************************)

Reconcile ==
    /\ w.pc = "rest"
    /\ garm.exists
    /\ w' = [Rest EXCEPT !.pc = IF deleting THEN "quiesce" ELSE "list",
                         !.minIdle = IF deleting THEN 0 ELSE minIdle,
                         !.deleting = deleting,
                         !.count = counted]
    /\ UNCHANGED <<minIdle, deleting, counted, garm, runners, budget>>

\* comparePoolSpecs: GetPool's instances, of which only the idle ones count.
ListIdle ==
    /\ w.pc = "list"
    /\ \/ /\ w' = [w EXCEPT !.pc = "push",
                            !.list = [r \in IdleRunners(Listing)
                                          |-> Listing[r]]]
          /\ UNCHANGED budget
       \/ /\ Spend("fault")
          /\ w' = Rest
    /\ UNCHANGED <<minIdle, deleting, counted, garm, runners>>

\* UpdatePool; without a difference it would change nothing.
PushSpec ==
    /\ w.pc = "push"
    /\ UpdatePool(w.minIdle, TRUE, "count")
    /\ UNCHANGED <<minIdle, deleting, counted, runners>>

\* longRunningIdleRunnersCount := len(OldIdleRunners(...))
CountOld ==
    /\ w.pc = "count"
    /\ w' = [w EXCEPT !.pc = "align",
                      !.count = Cardinality(OldIdleRunners(w.list))]
    /\ UNCHANGED <<minIdle, deleting, counted, garm, runners, budget>>

\* The switch on minIdleRunners, with an evaluation of OldIdleRunners of
\* its own.
Align ==
    /\ w.pc = "align"
    /\ w' = [w EXCEPT !.pc = "delete", !.todo = Surplus(w.minIdle, w.list)]
    /\ UNCHANGED <<minIdle, deleting, counted, garm, runners, budget>>

Quiesce ==
    /\ w.pc = "quiesce"
    /\ UpdatePool(0, FALSE, "sweep")
    /\ UNCHANGED <<minIdle, deleting, counted, runners>>

\* Mutant: only idle runners are swept, as the comment has it.
SweepListIdle ==
    LET found == DeletableRunners(Listing) \cap IdleRunners(Listing) IN
    /\ w.pc = "sweep"
    /\ w' = [w EXCEPT !.pc = "delete", !.list = Listing, !.todo = found,
                      !.count = Cardinality(found)]
    /\ UNCHANGED <<minIdle, deleting, counted, garm, runners, budget>>

\* GetRunnersByPoolID and DeletableRunners, whatever their runnerStatus.
SweepList ==
    LET found == DeletableRunners(Listing) IN
    /\ w.pc = "sweep"
    /\ \/ /\ w' = [w EXCEPT !.pc = "delete", !.list = Listing,
                            !.todo = found, !.count = Cardinality(found)]
          /\ UNCHANGED budget
       \/ /\ Spend("fault")
          /\ w' = Rest
    /\ UNCHANGED <<minIdle, deleting, counted, garm, runners>>

\* DeleteInstance: garm stops an instance that is running or in error.  One
\* that works on a job it may refuse to stop.
DeleteInstance(r) ==
    \/ /\ runners[r].status \in {"running", "error"}
       /\ runners' = [runners EXCEPT ![r].status = "deleting",
                                     ![r].old = FALSE]
    \/ /\ \/ runners[r].status \notin {"running", "error"}
          \/ runners[r].runnerStatus = "active"
       /\ UNCHANGED runners

\* The next runner of the list; errors are logged, and reconcileUpdate takes
\* the runner off the count all the same.
DeleteNext ==
    /\ w.pc = "delete"
    /\ \E r \in w.todo :
           /\ \A q \in w.todo : r <= q
           /\ w' = [w EXCEPT !.todo = @ \ {r},
                             !.count = IF w.deleting THEN @ ELSE @ - 1]
           /\ \/ /\ DeleteInstance(r)
                 /\ UNCHANGED budget
              \/ /\ Spend("fault")
                 /\ UNCHANGED runners
    /\ UNCHANGED <<minIdle, deleting, counted, garm>>

DeletedAll ==
    /\ w.pc = "delete" /\ w.todo = {}
    /\ w' = [w EXCEPT !.pc = IF w.deleting THEN "remove" ELSE "save",
                      !.list = Nothing]
    /\ UNCHANGED <<minIdle, deleting, counted, garm, runners, budget>>

\* DeletePool: refused by garm while the pool has runners.  If it succeeds
\* the finalizer is removed and there is no status left to update.
DeletePool ==
    /\ w.pc = "remove"
    /\ \/ /\ \A r \in Runners : runners[r] = Absent
          /\ garm' = [garm EXCEPT !.exists = FALSE]
          /\ w' = Rest
          /\ UNCHANGED budget
       \/ /\ \E r \in Runners : runners[r] # Absent
          /\ Goto("save")
          /\ UNCHANGED <<garm, budget>>
       \/ /\ Spend("fault")
          /\ Goto("save")
          /\ UNCHANGED garm
    /\ UNCHANGED <<minIdle, deleting, counted, runners>>

\* The count reaches the status with the deferred status update, which may
\* be refused.
SaveCount ==
    /\ w.pc = "save"
    /\ w' = Rest
    /\ \/ /\ counted' = Uint(w.count)
          /\ UNCHANGED budget
       \/ /\ Spend("fault")
          /\ UNCHANGED counted
    /\ UNCHANGED <<minIdle, deleting, garm, runners>>

Work == \/ Reconcile \/ ListIdle \/ PushSpec \/ CountOld \/ Align
        \/ Quiesce \/ SweepList \/ DeleteNext \/ DeletedAll \/ DeletePool
        \/ SaveCount

-----------------------------------------------------------------------------
(***************************************************************************)
(* The user, garm, GitHub and the clock                                    *)
(***************************************************************************)

EditMinIdle ==
    /\ ~deleting
    /\ Spend("edit")
    /\ minIdle' \in MinIdles \ {minIdle}
    /\ UNCHANGED <<deleting, counted, garm, runners, w>>

RequestDelete ==
    /\ ~deleting
    /\ deleting' = TRUE
    /\ UNCHANGED <<minIdle, counted, garm, runners, w, budget>>

Becomes(r, inst) ==
    /\ runners' = [runners EXCEPT ![r] = inst]
    /\ UNCHANGED <<minIdle, deleting, counted, garm, w>>

\* garm tops up the pool with a runner of a new name, or adds one for a job.
RunnerCreated(r) ==
    /\ garm.exists /\ garm.enabled
    /\ runners[r] = Absent /\ r \notin DOMAIN w.list
    /\ \/ /\ Cardinality({q \in Runners : runners[q] # Absent
                                  /\ runners[q].runnerStatus # "active"})
                 < garm.minIdle
          /\ UNCHANGED budget
       \/ Spend("job")
    /\ Becomes(r, [Absent EXCEPT !.status = "creating"])

\* The provider reports the instance as running or failed.
InstanceCreated(r) ==
    /\ runners[r].status = "creating"
    /\ \E s \in {"running", "error"} :
           Becomes(r, [runners[r] EXCEPT !.status = s, !.old = FALSE])
    /\ UNCHANGED budget

\* The runner reports to GitHub, possibly before the provider has answered.
RunnerRegisters(r) ==
    /\ runners[r].status \in {"creating", "running"}
    /\ runners[r].runnerStatus = "installing"
    /\ Becomes(r, [runners[r] EXCEPT !.runnerStatus = "idle"])
    /\ UNCHANGED budget

RunnerTakesJob(r) ==
    /\ runners[r].status = "running" /\ runners[r].runnerStatus = "idle"
    /\ Spend("job")
    /\ Becomes(r, [runners[r] EXCEPT !.runnerStatus = "active",
                                     !.old = FALSE])

\* Runners are ephemeral.
JobDone(r) ==
    /\ runners[r].status = "running" /\ runners[r].runnerStatus = "active"
    /\ Becomes(r, [runners[r] EXCEPT !.status = "deleting"])
    /\ UNCHANGED budget

InstanceGone(r) ==
    /\ runners[r].status = "deleting"
    /\ Becomes(r, Absent)
    /\ UNCHANGED budget

Young(inst) == inst.runnerStatus = "idle" /\ ~inst.old

Settled(inst) == inst.status \in {"running", "error"}

ListedYoung(r) == /\ w.pc \in {"push", "count", "align"}
                  /\ r \in DOMAIN w.list /\ Young(w.list[r])

\* A runner passes minIdleRunnersAge; what was listed of it did before.
RunnerAges(r) ==
    /\ Young(runners[r]) /\ ~ListedYoung(r)
    /\ IF Settled(runners[r]) THEN UNCHANGED budget ELSE Spend("slow")
    /\ Becomes(r, [runners[r] EXCEPT !.old = TRUE])

\* The UpdatedAt in a listing becomes older than minIdleRunnersAge.
EntryAges(r) ==
    /\ w.pc \in {"push", "count", "align"}
    /\ r \in DOMAIN w.list /\ Young(w.list[r])
    /\ \/ w.pc # "align" /\ Settled(w.list[r]) /\ UNCHANGED budget
       \/ ~Settled(w.list[r]) /\ Spend("slow")
       \/ w.pc = "align" /\ Settled(w.list[r]) /\ Spend("skew")
    /\ w' = [w EXCEPT !.list[r].old = TRUE,
                      !.late = IF w.pc = "align" THEN @ + 1 ELSE @]
    /\ UNCHANGED <<minIdle, deleting, counted, garm, runners>>

-----------------------------------------------------------------------------

Init ==
    /\ minIdle \in MinIdles
    /\ deleting = FALSE
    /\ counted = Uint(minIdle)          \* set by reconcileCreate
    /\ garm = [exists |-> TRUE, minIdle |-> minIdle, enabled |-> TRUE]
    /\ runners = [r \in Runners |-> Absent]
    /\ w = Rest
    /\ budget \in Budgets

Environment ==
    \E r \in Runners :
        \/ RunnerCreated(r) \/ InstanceCreated(r) \/ RunnerRegisters(r)
        \/ RunnerTakesJob(r) \/ JobDone(r) \/ InstanceGone(r)
        \/ RunnerAges(r) \/ EntryAges(r)

Next == Work \/ EditMinIdle \/ RequestDelete \/ Environment

Spec == Init /\ [][Next]_vars

(***************************************************************************)
(* The resync of the cache starts a reconciliation at least every          *)
(* SyncPeriod.  Of garm: an instance being created or stopped is so one    *)
(* day, and a job ends.                                                    *)
(***************************************************************************)
Fairness == /\ WF_vars(Work)
            /\ \A r \in Runners : /\ WF_vars(InstanceCreated(r))
                                  /\ WF_vars(InstanceGone(r))
                                  /\ WF_vars(JobDone(r))

FairSpec == Spec /\ Fairness

-----------------------------------------------------------------------------
(***************************************************************************)
(* Properties                                                              *)
(***************************************************************************)

\* Every variable has its type.
ScalingTypeOK ==
    /\ minIdle \in MinIdles /\ deleting \in BOOLEAN
    /\ counted \in 0..UintSize - 1
    /\ garm \in [exists : BOOLEAN, minIdle : MinIdles, enabled : BOOLEAN]
    /\ runners \in [Runners -> Instances]
    /\ w \in Workers
    /\ budget \in [Kinds -> Nat]

\* The usable runners in hand that are not about to be deleted.
Spared == {r \in DOMAIN w.list \ w.todo : Settled(w.list[r])}

(***************************************************************************)
(* A scale down to minIdleRunners > 0 spares at least that many of the     *)
(* idle, usable runners it has seen (AlignIdleRunners: "do not delete more *)
(* runners than minIdleRunners"), provided none of the old ones it has     *)
(* seen was still being created or already being stopped: those would be   *)
(* spared in their place.                                                  *)
(***************************************************************************)
SparesMinIdle ==
    /\ w.pc = "delete" /\ ~w.deleting /\ w.minIdle > 0 /\ w.todo # {}
    /\ \A r \in OldIdleRunners(w.list) : Settled(w.list[r])
    => Cardinality(Spared) >= w.minIdle

(***************************************************************************)
(* While minIdleRunners > 0 the status counts no more runners than there   *)
(* are: the count starts from one evaluation of OldIdleRunners and is      *)
(* decremented along another, a little later, and must not fall below zero *)
(* in between (uint(longRunningIdleRunnersCount)).  It does only in a      *)
(* reconciliation in which more than minIdleRunners runners pass the age   *)
(* between the two; nothing in the code keeps that from happening.         *)
(***************************************************************************)
CountStaysSound ==
    [][w.pc = "save" /\ ~w.deleting /\ w.minIdle > 0 /\ w.late <= w.minIdle
       => counted' <= MaxRunners \/ UNCHANGED counted]_vars

\* The runners a scale down to m is about: of any age if m is 0.
Removable(m) == {r \in Runners : /\ Settled(runners[r])
                                 /\ runners[r].runnerStatus = "idle"
                                 /\ runners[r].old \/ m = 0}

(***************************************************************************)
(* When minIdleRunners stays as it is, the surplus goes for good: at most  *)
(* that many old idle runners remain, and with 0 no idle runner at all,    *)
(* although every listing is outdated when it is used (reconcileUpdate).   *)
(***************************************************************************)
ScaleDownConverges ==
    \A m \in MinIdles :
        <>[](minIdle = m) => <>[](Cardinality(Removable(m)) <= m)

(***************************************************************************)
(* reconcileDelete empties the pool, whatever state its runners are in     *)
(* when it first lists them, until garm accepts DeletePool.                *)
(***************************************************************************)
DeletionEmptiesPool == deleting ~> ~garm.exists

\* "update pool idle runners count in status" (reconcileUpdate): the status
\* never counts more runners than the pool can have.
CountBounded == counted <= MaxRunners

=============================================================================
