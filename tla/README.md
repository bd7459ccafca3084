# A TLA+ verification of garm-operator

garm-operator keeps the pools, scopes, credentials and runners of a
[garm](https://github.com/cloudbase/garm) server in step with Kubernetes
objects. Every object has a counterpart in garm, created, updated and deleted
by calls that are neither atomic with the writes to the API server nor
idempotent. What is hard about the program is therefore hardly ever inside one
function: it is what happens *between* two calls, when a user edits the object,
a call fails after it took effect, the process dies, the informer cache lags
behind, or garm moves a runner on.

This directory holds TLA+ modules that model the program, TLC configurations
that check them on small instances, and proofs that TLAPS checks for every value
of the constants. `PROJECT.json` maps each definition to the source lines it
stands for, and lists the runs, mutants, hazards, findings and theorems. Paths
below are relative to the repository.

## 1. The system

| component | state | operations | interacts with |
|---|---|---|---|
| **Pool controller** `internal/controller/pool_controller.go`, `pkg/pools` | the Pool object: spec, `status.id`, conditions, finalizer | reconcileNormal, reconcileCreate, reconcileUpdate, reconcileDelete, deferred status update | API server and cache, garm pools, Image and scope objects, runners |
| **Runner scaling** `pkg/runners`, parts of the Pool controller | `status.longRunningIdleRunners`; the runners in garm | IdleRunners, OldIdleRunners, AlignIdleRunners, DeletableRunners, DeleteInstance | garm, which tops a pool up while the operator takes runners away |
| **GitHub scopes** `repository_controller.go`, `organization_controller.go`, `enterprise_controller.go` | `status.id`, conditions, finalizer | adopt by name or create, update, delete | credentials, garm scopes; Pools wait for their id |
| **GitHubCredential** `githubcredentials_controller.go` | `status.id`, the lists of scopes using it | create, update from a Secret, delete | Endpoint, Secret, garm credentials |
| **GitHubEndpoint** `githubendpoint_controller.go` | garm endpoint, by name | create, update, delete | credentials in garm refer to it |
| **GarmServerConfig** `garmserverconfig_controller.go`, `pkg/client/controller.go` | URLs of the one garm controller | get or first update, update | garm; start-up of the operator |
| **Runner controller and poller** `runner_controller.go` | Runner objects mirroring garm's instances, an unbuffered event channel | poll, enqueue, create and update the object, delete the instance | Pools, garm instances, the work queue |
| **garm client** `pkg/client/client.go` | one shared client and token | EnsureAuth around every call, Login, Init | all controllers, concurrently |
| **Admission webhooks** `api/v1beta1/*_webhook.go` | none (a cached list of Pools) | validate create, update, delete | the API server, also for the controllers' own updates |
| **API versions** `api/v1alpha1/*_conversion.go` | none | convert objects between v1alpha1 and v1beta1 | every read and write in the deprecated version |
| **Start-up** `cmd/main.go` | none | create garm's first user, log in, check the version, start the manager | garm, the other replicas |
| **Conditions** `pkg/conditions` | `status.conditions` | MarkTrue, MarkFalse, MarkUnknown, sorting | every status update |
| **API server and informer cache** (external) | the objects with resourceVersion, status subresource and finalizers; a lagging copy | Get from the cache, Update, Status().Update, watch | all controllers |
| **garm server** (external) | pools, instances, scopes, credentials | REST | the operator, GitHub, providers |
| events, metrics, configuration, flags, version, tags, filters, predicates, secrets | none that outlives a call | pure selections, wiring, output | |

What makes each component correct:

- *Pool controller.* An object that got an id is released only after its garm
  pool is gone; a finalizer guards the id; edits are never overwritten; the
  controller converges; a deletion completes; no pool is created that nobody
  can delete any more.
- *Runner scaling.* Never fewer usable runners kept than asked for; the surplus
  goes; a deleted pool is emptied; the count in the status means something.
- *Scopes, credentials, endpoints.* The same as for Pools, with adoption of what
  exists in garm, and the order in which they may be deleted.
- *Runner controller.* The objects converge to garm's instances, and an
  instance is deleted when its object is.
- *Runner controller, the other way round.* An instance is deleted only when a
  user wanted it, although the operator deletes Runner objects on its own too.
- *garm client and start-up.* Concurrent logins leave a usable token; replicas
  start; calls get through after tokens expired or garm lost its database;
  configured URLs win over initial ones.
- *Webhooks and conversions.* What is admitted can be deleted; what is in use
  is not deleted; what a user asked for survives a client of the old version,
  as far as that version can express it.

`PROJECT.json` lists the hazards at the lines where they bite, with the
properties that cover them, or the reason why none does.

## 2. The modules

| module | about |
|---|---|
| `PoolController` | one Pool object, the processes reconciling it, garm's pools |
| `MCPoolController` | budgets of disturbances for TLC |
| `PoolBinding` | the abstract promise: an object is *pending*, *bound* to a pool of garm, or *released* |
| `PoolController_proofs` | type correctness of every behaviour |
| `PoolControllerBinding_proofs` | the inductive invariant and the safety theorems of `PoolController` |
| `PoolControllerRefinement_proofs` | `PoolController` implements `PoolBinding` |
| `RunnerScaling_proofs`, `GitHubObjects_proofs`, `RunnerSync_proofs`, `GarmSession_proofs`, `Admission_proofs` | types and safety of the modules below; that `GitHubObjects` implements `PoolBinding` |
| `GitHubObjects` | endpoint, credential and scopes, their controllers and garm's references between them |
| `MCGitHubObjects` | budgets of disturbances for TLC |
| `RunnerScaling` | one pool's runners against scaling down and deletion |
| `MCRunnerScaling` | budgets of events for TLC |
| `RunnerSync` | poller, channel, work queue and reconciler of the Runner controller, garm's instances, users who delete Runners |
| `GarmSession` | replicas: start-up, the shared token, EnsureAuth, the GarmServerConfig controller, and a garm that can be new, old, or lose its database |
| `Admission` | the webhooks and conversions in front of the writes of users, v1alpha1 clients and the Pool controller |
| `MCRunnerSync`, `MCGarmSession`, `MCAdmission` | budgets of disturbances for TLC |

### PoolController

State and code:

| variable | stands for |
|---|---|
| `cr` | the Pool in the API server: existence, finalizer, deletionTimestamp, paused annotation, spec (`minIdleRunners`, `enabled`), `status.id`, Ready |
| `userSpec` | what the user last wrote, a history variable |
| `cache[p]` | the copy of the object in process `p`'s informer |
| `wk[p]` | the reconciliation `p` is in: program point, its working copy, the values the deferred status update compares with |
| `garm` | garm's pools, each with its spec and one slot for a runner |
| `deps` | which of the referenced Image and scope (with an id) exist |
| `budget` | how many disturbances are left |

Every call that leaves the process is one action, named after the function or
the statement: `Reconcile`, `EnsureFinalizer`, `ReconcileNormal`,
`GarmPoolExists`, `ReconcileCreate`, `ComparePoolSpecs`, `PushSpec`,
`ScaleDown`, `MarkDeleting`, `ReleasePending`, `DrainSpec`, `Quiesce`,
`ListRunners`, `SweepRunners`, `RemoveGarmPool`, `Unbind`, `UpdateStatus`.
Between any two of them the user, garm, a crash or another process may act. Each
call to garm may fail before or after it took effect; each write to the API
server may be refused.

Abstractions:

- *resourceVersion.* The API server only ever compares it with the current one,
  so a copy is *fresh* or not; every write that changes the object makes all
  other copies not fresh. A write that changes nothing keeps it, as in the
  API server.
- *Reads from an outdated cache* are counted: a reconciliation that begins on a
  copy that is not fresh spends one `stale`. What is read stays whatever the
  cache held, which can be several versions old.
- *`deps`.* A Pool's scope and image are there or not; their content is not told
  apart. `comparePoolSpecs` finds a difference or, only when the specs agree, none.
- *One runner slot per pool* in `PoolController`: enough to make garm refuse
  DeletePool and to make the sweeps matter. The numbers are in `RunnerScaling`.
- *One Pool object.* The controller never relates two Pools.
- *Pool ids* are handed out in order and never reused. When they run out,
  CreatePool fails.
- Status update and its failure are one action: the code's deferred function
  writes only if the status changed, and its error makes the queue retry.

### RunnerScaling

The two places where runners are taken away, with all the calls between the
listing and the last DeleteInstance as separate steps. A reconciliation that
scales down reads garm's instances once (`ListIdle`, inside
`comparePoolSpecs`), pushes the spec, counts the old idle runners (`CountOld`),
selects the surplus by evaluating OldIdleRunners a second time (`Align`), and
works through the selection (`DeleteNext`). A deletion sets the pool to zero and
disabled, lists again, sweeps and asks garm to delete the pool. The environment
creates instances, registers runners, gives them jobs, finishes and removes them
and lets them age, at every point in between; entries of a listing in
the operator's hands age as well, as `time.Since(UpdatedAt)` is taken when
OldIdleRunners is called.

Names are in garm's listing order, and a name in the operator's hands is not used
for another runner. A list is therefore a function on the names it holds
(`Listings`), a selection from it a set of names: the filters keep the order, so
"the first n of a list" are those with enough names after them
(`AlignIdleRunners`), and `DeleteNext` takes the lowest name left. `w.late`, a history, counts the runners
that passed minIdleRunnersAge between the two evaluations in this reconciliation.

### GitHubObjects

At most one object of each of the five kinds; a credential refers to the
endpoint, a Repository, an Organization and an Enterprise to the credential, and
so do garm's entities of the same names. The five controllers have the same
shape, so that each step is one action with the kind as its parameter; for each
controller, `RepositoryReconcile`, `RepositoryNormal`, `RepositoryDelete` and so on
name the steps its handlers consist of, and each controller has a worker and a
fairness assumption of its own. Where kinds differ, the action says so:

| step | code | differences |
|---|---|---|
| `FetchRefs` | FetchRef, getCredentialsRef, getEndpointRef | after the lookup for a credential, before it otherwise; an endpoint refers to nothing |
| `GetExisting` | getExistingGarmRepo, ...Org, ...Enterprise, getExistingCredentials, getExistingEndpoint | a list searched by name, or a GET whose 404 is "not found" |
| `Create`, `Update` | create..., update... | a scope's update also points it at its credential |
| `GetCredential` | the GetCredentials at the end of reconcileNormal | credentials only: brings the scopes that use it |
| `MarkDeleting` | Status().Update at the start of reconcileDelete | credentials only: an outdated copy is refused before garm is called |
| `Delete`, `Unbind` | reconcileDelete | an endpoint by name, the others by `status.id` |
| `UpdateStatus` | the deferred function | |

Variables are as in `PoolController`, one of each per kind; `garm[k]` is the one
entity of that name, as garm's names are unique, `applied` and `issued` are
histories of the objects and of garm's ids, and so is `garm[k].ours`: the
controller has created, found or updated this entity, also if the reply was lost. All controllers run in one process
with one cache per kind, so `Crash` hits all. What a user applies and deletes,
in any order and at any moment, costs no budget.

Assumptions about garm, which is not part of the repository: an entity is
created only if the one it refers to exists, and is deleted only while nothing
refers to it. Whether deleting what is not there succeeds differs between kinds
and versions of garm; `Forgiving` holds the kinds for which it does. Left out:
owners, the pool managers (what they report is a free choice from `PoolManager` in
`Updated`), authentication types, scopes that are kept in garm by their
pools, and the second status update with which the credential's reconcileDelete
reports that garm refused (`githubcredentials_controller.go:280`): the deferred
one, which writes the same, stands for both. A behaviour begins with one of `Plans`: the variable `kinds` holds the
kinds whose objects users apply in it, and what the others would provide is taken
to be there.

### RunnerSync

| variable | stands for |
|---|---|
| `inst` | garm's instances: unborn, running, stopping, gone |
| `known` | the cached Pools with an id in their status |
| `cr`, `cache` | the Runner objects and the informer's copies: existence, finalizer, deletionTimestamp, phase and pool in the status |
| `leads` | the process is the leader: its controllers run |
| `poller` | the goroutine of PollRunnerInstances: waiting for its ticker, or with names still to be sent |
| `queue`, `wk` | the work queue, and the reconciliation of each name that runs |
| `requested`, `guarded`, `asked` | histories: Runners deleted by users, those of them with the finalizer, instances garm was asked to delete |

The poller keeps nothing but names, so a round (`EnqueueRunnerInstances`) is one
step and every send (`EnqueueRunnerEvents`) another, possible only when the queue's
receiver runs. `GetGarmRunnerInstance` lists garm again, `ReconcileNormal` reads
the cache and branches as the switch in the code does (`Branch`), and each write
(`CreateRunner`, `EnsureFinalizer`, `UpdateRunnerStatus`, `DeleteRunner`,
`DeleteInstance`, `RemoveFinalizer`) is a step that may fail before or after it
took effect. Left out: namespaces (see section 5), the other status fields, and that
names are folded to lower case.

### GarmSession

| variable | stands for |
|---|---|
| `garm` | whether it has a user, its URLs (none, initial, or those of an object), whether its version is too old |
| `proc`, `leader` | the replicas and which of them leads |
| `token[p]` | whether the token in `Client` is valid |
| `thread[p][j]` | the goroutines that call garm: start-up, the GarmServerConfig controller, any other reconciliation |
| `conf`, `seen`, `due` | GarmServerConfig objects, the informer's copies, the queue |
| `owed` | another controller, or the poller, has to call garm |

A call (`Request`) is answered as garm's state says; `EnsureAuth` says what
becomes of the answer: a first 401 leads to `FirstRun`, `Login`, `StoreToken` and
a second try, and GetControllerInfo's conflict to the UpdateController nested in
it, with its own EnsureAuth inside. `Boot` to `CheckVersion` is the sequence of
`run()`; any error ends the process, which is started again. Any other
call is `Work`: a controller's in the leader, the runner poller's (`cmd/main.go:213`)
in every replica set up to poll (`Polling`). A login that garm answers with 401
inside another EnsureAuth is tried again by the outer one, as in the code.
`Reconcile`, `UpdateControllerInfo`, `ControllerUpdated` and `UpdateStatus` are the
controller. The two assignments in Login are one step: clients are all alike,
and a reader that sees the new client with the old token, or the reverse, is one
that has either token.

Assumptions about garm: it answers 409 until it has URLs and 401 to a token it
does not know, as `pkg/client` expects; its database may be lost, and then its user,
URLs and tokens are. That at most one replica leads is assumed too. Leader election is
off by default (`pkg/defaults/defaults.go:11`), which is right for one replica only.

### Admission

`pool`, `scope` and `image` are the stored objects, `seen` the cache that
the Images' webhook reads, `wish` what users last wrote, `downgraded` the scopes a
v1alpha1 client has written since, `serving` whether that cache is filled, and
`watched` the namespaces it holds: those of `WatchNamespace`, or all
(`cmd/main.go:79`). `ValidateCreate`, `ValidateUpdate`, `ValidateDelete` and the
conversions are operators with the names of the functions; every write of a user,
of a client that writes v1alpha1 (`UpdateScopeAlpha`), or reads and writes it back
(`RewritePool`, `RewriteScope`), or
of the Pool controller (`EnsureFinalizer`, `RemoveFinalizer`) passes through them.
`ValidateUpdate(old, new)` binds `obj` and `oldObj` in the order in which
controller-runtime passes the two objects, which is not the order the method
names them in.

### Order of the work, and the plan

Modelled and checked, in this order: `PoolController` with `PoolBinding`,
`RunnerScaling`, `GitHubObjects`, `RunnerSync`, `GarmSession`, `Admission`. Every
safety property that a run checks, invariant or action property, is a theorem
(section 4), and so are the two refinements of `PoolBinding`.

Left to do:

1. An abstract specification of a Runner and its instance (known, wanted gone,
   stopped), implemented by `RunnerSync`, and one of the single garm
   configuration, implemented by `GarmSession`.
2. The safety part of what makes `SettledDeletionCompletes` and
   `TeardownCompletes` hold: that each step of a deletion that succeeds leads to a
   state closer to its end.

## 3. The runs

| run | instance | what it shows |
|---|---|---|
| `PoolSafety.cfg` | two processes, two garm pools; one disturbance of each kind, or a fault and an outdated read | `TypeOK`, `BindingInvariant`, `ReleaseOnlyAfterGarmDelete`, `NoLostUserEdit`, `FinalizerGuardsID` and the refinement `PromiseKept` do not depend on there being a single process |
| `PoolLive.cfg` | one process, three garm pools, minIdleRunners 0 or 1; every two disturbances except two edits, two crashes or two interferences | convergence, progress and completion of deletions, `NoCreateAfterRelease`, `DrainedPoolStaysDisabled` |
| `PoolDeletionStuck.cfg` | one fault | a finding: `DeletionCompletes` fails |
| `PoolPendingOrphan.cfg` | no disturbance at all | a finding: `NothingInGarmWhenPending` fails |
| `PoolCreateOnError.cfg` | one fault | a finding: `CreateOnlyIfIdOutdated` fails |
| `GitHub.cfg` | credential and Repository, or an endpoint, with one disturbance of any kind; endpoint and credential, and each kind of scope, without; two ids and two specs each | `GitHubTypeOK`, `ReleasedMeansGone`, `IDsNeverRegress`, `PromisesKept`, `EventuallySynced`, `TeardownCompletes` |
| `Scaling.cfg` | two runners, minIdleRunners 0 or 1; an edit and a job (which makes garm add a runner, or busies one) with a fault, a slow instance, or two runners that grow old late | `ScalingTypeOK`, `SparesMinIdle`, `CountStaysSound`, `ScaleDownConverges`, `DeletionEmptiesPool` |
| `Runners.cfg` | one instance, one Pool; a user's deletion with up to three other disturbances of two kinds | `RunnerTypeOK`, `OnlyRequestedStops`, `GuardedUntilStopped`, `UnprotectedOnlyIfDisturbed`, `RequestReachesGarm`, `EventuallyMirrored` |
| `Session.cfg` | two replicas, of which one leads and one polls garm whether it leads or not, one GarmServerConfig, one disturbance of any kind | `SessionTypeOK`, `UsableTokenKept`, `ConfiguredURLsKept`, `EventuallyStarted`, `CallsGetThrough`, `ConfigApplied` |
| `Admission.cfg` | two Pools and two Images in two namespaces, both of them watched or one; three creations or deletions, an edit, the deletion of an Image, a v1alpha1 write and a restart; or the three scopes with two edits and two v1alpha1 writes | `AdmissionTypeOK`, `WishesSurvive`, `UsedImageKept`, `ValidDeletionCompletes` |
| `AdmissionDeletionSkips.cfg` | two Pools, four creations or deletions and an edit | a finding: `DeletionSkipsValidation` fails |
| `ScalingCountWraps.cfg` | three runners, one edit | a finding: `CountBounded` fails |

`BindingInvariant` is checked as an ordinary invariant before it is
used in a proof. Every property of a passing run has a mutant, an operator kept
beside the one it replaces and marked *Mutant*, under which TLC finds the
property violated.

### Bounds

- *Disturbances* (`Budgets`) bound edits, faults, crashes, outdated reads and
  interferences. A behaviour starts with one budget of the set; runs take sets
  of small budgets, so that the kinds meet in pairs and not all at
  once. `RequestDelete` happens at most once by itself; everything else is
  finite-state.
- *Pool ids.* Two disturbances can make the controller create two pools more
  than needed, so `PoolLive` has three: with two, it would end up with
  CreatePool failing for good, which is the bound and not the program. The
  safety runs do not mind.
- *MinIdles.* `{0}` in `PoolSafety`: enabled or not is all that edits change and
  no runner is ever created; runners matter for `PoolLive`, which has `{0, 1}`.
- *MaxID* in `GitHub.cfg` is 2: an entity, and the one that replaces it after an
  interference. *Versions* are two, so that an entity may hold an older spec.
- *Plans.* The chain endpoint, credential, scope is checked link by link: the
  Repository with its credential, with disturbances, and the credential with its
  endpoint, without. All three at once are too many states to check liveness on.
  What a link needs of the next is that it exists in garm; the three kinds of
  scopes take the same steps, and each is checked by itself.
- *RunnerSync* never relates two instances: the poller sends each name by itself
  and the reconciler works on one name. A round of the poller that fails for
  one pool and thereby for all is a round that does not happen.
- *GarmSession.* Two replicas are what it takes for one to start while the other
  leads. One object is enough for URLs that replace each other, since a user
  may delete and create it again, and the initial ones are there as well.
  One of the two replicas polls, so calls come from a leader alone, from a
  poller that does not lead, and from both at once.
- *Admission.* Two namespaces, with one Pool and one Image each; a Pool may
  name the Image of its own namespace or that of the other one.
- *Symmetry* is used in `PoolSafety` (two equal processes; no liveness is
  checked there) and nowhere else.
- *Runners.* Two names are enough for one runner too many, exactly enough and
  too few; `ScalingCountWraps` has three.
- *slow and skew.* Up to two runners pass minIdleRunnersAge between the two
  evaluations of OldIdleRunners, one more than the largest minIdleRunners, so
  both sides of `CountStaysSound`'s proviso occur. Where it does not hold, the
  count wraps.
- *UintSize* stands for the 2^64 values of Go's `uint`: 16, which is more than
  the runners need, so a number over `MaxRunners` is a wrapped one.

`CHECK_DEADLOCK FALSE` is set in every configuration, as the system does stop: a
released object is never reconciled again, and a pool that is gone has no
runners.

### Fairness

- `WF(Work(p))`: a failed reconciliation is requeued with backoff, and the
  cache's SyncPeriod makes every object reconciled again and again
  (`cmd/main.go`); the worker of the work queue is never blocked for ever, since
  every call returns or fails.
- `WF(CacheSync(p))`: watch events are delivered.
- `WF(RunnerUp)`, `WF(RunnerGone)`, and in `RunnerScaling` `WF(InstanceCreated)`,
  `WF(InstanceGone)`, `WF(JobDone)`: garm finishes what it began and jobs end.
- `WF(RepositoryController)` and so on in `GitHubObjects`: each controller has a
  work queue and a worker of its own, so the progress of one kind does not
  starve another.
- `WF(Poll)`, `WF(Lead)` in `RunnerSync`: the ticker ticks for as long as the
  process lives, and some replica is elected. Of garm only that what is stopping will
  be gone.
- `WF(Start(p))`, `WF(Configure(p))`, `WF(Serve(p))` in `GarmSession`: the
  container is restarted after every exit, goroutines run, calls return.
  `WF(Resync(c))` is the SyncPeriod.
- In `Admission`, the operator's start and its own retried updates.
- Nothing is assumed of users, of faults and crashes, of the Image and scope
  objects (`EventuallySynced` says "once they are there for good"), or of garm
  wanting to create runners.

### What the runs say

Holding, in all the interleavings of the instances:

- `ReleaseOnlyAfterGarmDelete`. An object with an id disappears only when its
  garm pool is gone, though DeletePool and the removal of the finalizer are two
  calls with a crash, an edit, a second process or an old cache between them.
- `NoLostUserEdit`. `reconcileDelete` and `EnsureFinalizer` write whole objects.
  No edit is lost, since each such write carries the resourceVersion of what it
  was computed from.
- `PromiseKept`. Seen from outside, the controller does what `PoolBinding`
  says: an id in the status is that of a pool garm created, no step takes it
  away again, and the object goes while pending or after its pool. `bound` is
  `cr.id`, `released` the object's absence, `pools` the state of garm's pools;
  everything a process does in between is a stutter.
- `FinalizerGuardsID`, and with one process `NoCreateAfterRelease`: nothing is
  created for an object that is gone.
- `DrainedPoolStaysDisabled` (one process): between the drain and DeletePool
  garm never gets an enabled spec again. With two processes this fails: one that
  still reconciles an old version pushes its spec to garm after the
  other has drained the pool. No property claims it.
- `EventuallySynced`, `DeletionReachesGarm`, `SettledDeletionCompletes`.
- `SparesMinIdle`, `CountStaysSound`, `ScaleDownConverges`,
  `DeletionEmptiesPool`.
- For scopes and credentials: `ReleasedMeansGone`, `IDsNeverRegress` and
  `PromisesKept`, as for Pools; `EventuallySynced`, which includes the adoption of
  what a lost reply or a user left in garm; and `TeardownCompletes`: deleted in
  any order, even the one that is referred to first, both go away.
  `ReleasedMeansGone` covers what a lost reply left behind as well, for the kinds
  that garm does not delete without an id, and endpoints, which have none.

- `OnlyRequestedStops`: the operator deletes Runner objects by itself when the
  poller misses their instance, and a deleted Runner makes it delete the
  instance. It never does the one because of the other, since the reconciler asks garm
  again, for all instances. That is also why it does no harm that the
  poller may deliver names it listed before the process became the leader.
- `GuardedUntilStopped` and `RequestReachesGarm`: the deletion of a Runner
  that has its finalizer gets to garm, and the object stays until then.
- `EventuallyMirrored`, after any finite trouble, if all Pools keep their ids.
- `UsableTokenKept`, `CallsGetThrough`: the unlocked token does no harm. A goroutine
  may overwrite a newer token with an older one that has expired meanwhile; the
  next 401 repairs it.
- `EventuallyStarted`, `ConfigApplied`, `ConfiguredURLsKept`: a new garm, one
  that loses its database, and two replicas that start at once all end with
  running replicas and the configured URLs.
- `UsedImageKept`, `WishesSurvive`, `ValidDeletionCompletes`. The first is as
  good as the webhook's cache: a Pool written since it was current does not
  protect its Image, nor does one in a namespace the operator does not watch,
  as the webhook is called for Images of every namespace.

Found while modelling:

- *Deletion gets stuck* (`pool_controller.go:316`). After DeletePool took effect,
  the finalizer may not be removed in the same reconciliation: the reply was
  lost, the process died, or an edit made the worker's copy outdated, so that
  the Update is refused. Every later reconcileDelete calls UpdatePool first, for a pool that no
  longer exists, and returns its error. `SettledDeletionCompletes` is the part
  of `DeletionCompletes` that holds; it leaves out that garm pool is gone
  and the object is not.
- *Orphans of a deletion while creating* (`pool_controller.go:264`). An empty
  `status.id` does not mean that there is nothing in garm.
- *A second pool after an error* (`pool_controller.go:134`,
  `pkg/pools/pools.go:181`). Any error of GetPool counts as absence. The same
  happens without an error if a reconciliation begins before the id has reached
  the cache.
- *Scopes that cannot be deleted* (`repository_controller.go:240`, and the same
  in the other four controllers). `TeardownCompletes` has to assume that the
  entity is in garm under the id in the status. Without an id (the referenced
  credential never appeared, or the status update was refused), or once the
  entity is gone and the finalizer is not, DeleteRepository fails in every later
  reconciliation, unless garm forgives. An object that never became ready is
  thus stuck in deletion.
- *The count wraps* (`pool_controller.go:219`). With minIdleRunners 0 young idle
  runners are subtracted from a count that only has old ones.
- *Unusable runners are spared in place of usable ones* (`pool_controller.go:229`).
  AlignIdleRunners cuts the list before DeletableRunners drops runners that are
  still being created or already stopped. `SparesMinIdle` says what holds
  without such runners.
- *The sweep of a deletion takes busy runners too* (`pool_controller.go:297`);
  the comment above it speaks of idle ones. The model follows the code.

- *A Pool in deletion may stay for ever* (`api/v1beta1/pool_webhook.go:76`).
  "if the object is being deleted, skip validation", says the comment at line
  75, but nothing is skipped: `DeletionSkipsValidation` fails. ValidateUpdate
  calls its first parameter `obj` and the second `oldObj`, but is called with the
  old object first. An update to broken extraSpecs is accepted; every later one
  is refused, the repair and the removal of the finalizer included.
  `ValidDeletionCompletes` is what holds.
- *Absent extraSpecs count as broken* (`pool_webhook.go:122`): the field is
  optional, but the empty string is not JSON, so such a Pool cannot be created, and
  one that loses them is stuck as above. `pool_webhook_test.go:94` says of `{}` that
  "this is defined as default and is set by the API server"; neither the type nor the
  CRD has such a default.
- *A Runner may stay without its finalizer* (`runner_controller.go:140`).
  `UnprotectedOnlyIfDisturbed` says when. Deleting it then leaves the instance,
  and the poller creates the Runner again. The status that
  createRunnerCR sets is not stored either; the next reconciliation does it.
- *The first start on a new garm always fails* (`pkg/client/controller.go:55`):
  the conflict is returned although the initial URLs have been set; the
  process exits and gets through the next time.
- *A starting replica may put the initial URLs over configured ones*
  (`pkg/client/controller.go:43`), until the object is reconciled again. The
  leader never does, as `ConfiguredURLsKept` says.
- *Without a GarmServerConfig* a running operator never sets URLs again after
  garm lost its database: only GetControllerInfo does, which nobody calls.
- *GarmServerConfigs that disagree* overwrite each other in every sync period.
- *The pool balancer type is lost* when a v1alpha1 client writes a scope
  (`api/v1alpha1/enterprise_conversion.go:22` and its siblings), and the
  controller then pushes the empty one to garm.
- *Pools of other namespaces keep an Image* of the same name from being deleted
  (`api/v1beta1/image_webhook.go:72`).

## 4. The proofs

Every theorem is about `Spec`, without fairness, and holds for every value of
the constants that satisfies the assumptions below: any number of processes,
ids, runners, objects, specs and disturbances, infinitely many included where
the assumption does not say otherwise. The invariants were checked by TLC on the
instances of section 3 before they were proved.

Assumptions on constants, each evaluated by the runs of its module:

| assumption | what it says, and why the code justifies it |
|---|---|
| `PoolController!ConstantsAssumption` | ids are naturals other than the one that stands for *no id*; minIdleRunners are naturals (the field is a `uint`), and 0, which reconcileDelete writes, is one of them; budgets are naturals |
| `RunnerScaling!ScalingConstants` | the same of minIdleRunners and budgets; the number of runners is bounded; `uint` has at least one value |
| `GitHubObjects!GitHubConstants` | a user has a spec to write; garm's pool manager reports that it runs or an error; the kinds of which garm deletes successfully what is not there, and those users apply, are among the five; budgets are naturals |
| `RunnerSync!RunnerConstants` | finitely many names; each belongs to a Pool; budgets are naturals |
| `GarmSession!SessionConstants` | finitely many replicas and GarmServerConfigs; there is a GarmServerConfig to write; no spec is one of the three values that stand for URLs garm has without one, or for its absence; budgets are naturals |
| `Admission!AdmissionConstants` | finitely many Pools and Images; an Image can exist; namespace and name together identify an Image; the scopes are among the three kinds; budgets are naturals |

### PoolController

- `PoolController_proofs!TypeCorrectness`: `Spec => []TypeOK`. One step per
  action; the writes to the API server share lemmas about `Commit`, `UserWrite`,
  `WithStatusOf` and the workers' updates.
- `PoolControllerBinding_proofs!Binding`: `Spec => []BindingInvariant`, the
  inductive invariant. `ReleaseSafety`, `UserEditSafety` and `FinalizerSafety`
  follow from it.

Why the invariant is what it is. `ReleaseOnlyAfterGarmDelete` alone is not
inductive: the step that makes it false or true is `Unbind`, which writes the
worker's copy. To know that the id in the object is the one whose pool was
deleted, one needs

1. `FreshCopies`: a copy whose resourceVersion is current agrees with the API
   server in all but the status the worker is about to write;
2. `DeletionProgress`: a worker in reconcileDelete has not changed the id it
   read, and at `unbind` that pool is gone from garm;
3. `IssuedIDs`: ids in circulation were handed out by garm, so that no new pool
   gets the id of an object already released;
4. `FinalizerHeld`: every copy with an id or a deletionTimestamp has the
   finalizer, so that a user's delete does not remove the object by itself.

`NoLostUserEdit` needs 1 for the same reason, and 4 carries
`FinalizerGuardsID`. Garm's pools only go from *none* to *live* to *deleted*,
which keeps 2 and 3 through everything garm does.

- `PoolControllerRefinement_proofs!PromiseIsKept`: `Spec => PromiseKept`. Every
  step writes the object, or garm's pools, or neither (`ObjectWrite`,
  `GarmWrite`), and two lemmas map such steps to steps of `PoolBinding`. That a
  status update never clears an id needs one more invariant, `KeepsID`: a worker
  whose copy has no id read none. That the released object's pool is gone is
  `ReleaseOnlyAfterGarmDelete`, from `BindingInvariant`.

- `PoolControllerBinding_proofs!CreationSafety` and `DrainSafety`, which assume
  `OneProcess`: `NoCreateAfterRelease` and `DrainedPoolStaysDisabled` fail with
  two. The first needs `HeldWhileWorking`: only the process itself takes the
  finalizer away, at a point at which its worker, and so its cache for ever
  after, knows of the deletion; a worker in reconcileNormal therefore holds an
  object that exists, though its copy may be outdated. The second needs that a
  worker past `drain` carries a drained spec, and that nobody else
  writes specs to garm (`PoolsEmptied`).

### RunnerScaling

- `ScalingTypeCorrect`, and `ScaleDownSpares`: `Spec => []SparesMinIdle`. The
  invariant says that what is left to delete is part of the `Surplus` of the list
  in hand (`Chosen`), and that the points of reconcileDelete are not reached
  otherwise (`Branches`). The rest is about sets: every nonempty
  selection has a last runner (`LastRunner`, from the well-foundedness of the
  naturals), and after the last one that `AlignIdleRunners` selects there are
  minIdleRunners more (`AlignSpares`).
- `CountNeverWraps`: `Spec => CountStaysSound`, whatever the budgets. `Counted`
  compares the count, taken from the first evaluation of OldIdleRunners, with the
  list as it is now: the difference is at most `w.late`. What the second
  evaluation selects is at least minIdleRunners smaller (`AlignBounds`). The
  proviso of the property, at most minIdleRunners late runners in this
  reconciliation, is needed; the code does not ensure it, and with
  minIdleRunners 0 it is the finding.

### GitHubObjects

- `GitHubTypeCorrect`, `GitHubSound`, and from them `ReleasedIsGone`, `IDsOnlyAdvance`
  and `PromisesAreKept`.

A step of any controller, of a user or of garm concerns one kind (`About`) and
does to its entity one of three things (`IDStep`): nothing that its id shows, creation
under the next id, deletion. The invariant `GitHubInv` says of each kind that
ids in the object, its copies and its worker were issued, that an entity in garm
is the latest issued, that a current copy agrees with the API server, and that a
worker that can still write knows an id at least as new as the object's
(`ObjectSound`, `WorkerSound`). An object is released by a worker at `unbind` only,
and there its entity is gone; no new one follows, since nobody but a worker with
the object's finalizer creates. A second invariant, `OursInv`, does without ids:
what a controller created or found is gone once its object is, and at `unbind`
already (`OursSound`). For the refinement each step is
a move of the entity or of the object (`Moves`), and the two are mapped to steps of
`PoolBinding` (`EntityMaps`, `ObjectMaps`), for every kind.

### RunnerSync

- `RunnerTypeCorrect`, `RunnerInvariant`, and from it `StopsAreRequested`,
  `RunnersGuardInstances` and `RunnersAreProtected`.

What the poller and the reconciler know is always old. The invariant is what
remains true of it, for each name: an instance that was once seen is not unborn
again (`Born`), a worker that will delete an object or remove a finalizer acts on
something that cannot be undone (`Branched`: the instance is gone, or is stopping),
and a Runner in deletion is one a user deleted or one whose instance is gone
(`Requested`). With that, `stop` is reached only for a user's
request or for an instance that no longer exists.

### GarmSession

- `SessionTypeCorrect`, `SessionSound`, `TokensStayUsable` and `LeaderKeepsURLs`.

`ConfiguredURLsKept` rests on an argument across two calls: the
goroutine that sets the initial URLs was told before that garm has none, and
between the two calls somebody else may configure them. Within the leader
nobody can, as the GarmServerConfig controller is one goroutine and the leader is
one replica (`OneLeader`, `ThreadSound`). `TokensStayUsable` needs the
types and `StepOfSession`, which says what a step does to tokens: whichever order
concurrent logins store theirs in, a valid token is replaced only by one garm
has invalidated, or it is garm that invalidates it.

### Admission

- `AdmissionTypeCorrect`, `WishesAlwaysSurvive`, `UsedImagesAreKept`.

`WishesSurvive` is inductive together with the types and with the fact that only
Repositories have an owner: every write, including one that passes through two
conversions, keeps the owner and the credential's name, and what else is lost is
lost in one step, the first write of a v1alpha1 client.
`UsedImageKept` needs that a current copy of the webhook's cache agrees with
the stored Pool.

### Only model-checked

The liveness properties (`EventuallySynced`, `DeletionReachesGarm`,
`SettledDeletionCompletes`, `ScaleDownConverges`, `DeletionEmptiesPool`,
`TeardownCompletes`, `RequestReachesGarm`, `EventuallyMirrored`,
`EventuallyStarted`, `CallsGetThrough`, `ConfigApplied`,
`ValidDeletionCompletes`): they need fairness and ENABLED, which are out of the
prover's reach. The five findings are counterexamples, which only TLC gives.

## 5. Not modelled

- *Events and metrics*: output only.
- *Flags and configuration loading*: sequential, before anything runs. The flag
  `garm.init` is read nowhere.
- *Conditions*: no decision of the program reads one; the modules keep Ready, and the
  rest is sorting and wording.
- *Tags, filters, predicates, secrets*: pure selections. Those that matter are part of
  the definitions that use them; a Secret that cannot be read is a fault in
  `FetchRefs`.
- *Deepcopies, and the generated conversions of lists, metadata, statuses and
  Images*: field-by-field copies.
- *Namespaces*, except in `Admission`. Without `WatchNamespace`, which is the
  default and means all namespaces (`pkg/flags/flags.go:28`), the poller's events carry
  an empty namespace, under which no Runner can be created; `RunnerSync` is the
  operator with a namespace.
- *Owners of repositories* (`repository_controller.go:225`): a garm repository is
  recognised by its name alone. The model has one owner.
- *Runners, jobs and providers* beyond the steps that the operator can notice.
- The wording of messages, and the contents of specs beyond what the properties tell apart.

## 6. Running it

    tlc -workers 2 -config PoolSafety.cfg MCPoolController
    tlc -workers 2 -config PoolLive.cfg   MCPoolController
    tlc -workers 2 -config GitHub.cfg         MCGitHubObjects
    tlc -workers 2 -config Scaling.cfg    MCRunnerScaling
    tlc -workers 2 -config Runners.cfg    MCRunnerSync
    tlc -workers 2 -config Session.cfg    MCGarmSession
    tlc -workers 2 -config Admission.cfg  MCAdmission
    tlapm PoolController_proofs.tla
    tlapm PoolControllerBinding_proofs.tla
    tlapm PoolControllerRefinement_proofs.tla
    tlapm RunnerScaling_proofs.tla
    tlapm GitHubObjects_proofs.tla
    tlapm RunnerSync_proofs.tla
    tlapm GarmSession_proofs.tla
    tlapm Admission_proofs.tla
