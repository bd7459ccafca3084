---------------------------- MODULE GarmSession ----------------------------
(***************************************************************************)
(* How the operator gets hold of garm: start-up, the shared token, and the *)
(* GarmServerConfig objects that configure garm's URLs.                    *)
(*                                                                         *)
(* Every replica of the operator starts by creating garm's first user and  *)
(* logging in, and asks for the controller info.  The one that leads then  *)
(* runs the controllers.  All calls of a process share one token, and a    *)
(* call that is answered "401" creates the user, logs in and stores the    *)
(* token on its own, without a lock.  Until garm has its URLs, it answers  *)
(* "409" and GetControllerInfo sets initial ones.                          *)
(***************************************************************************)
EXTENDS FiniteSets, Integers

CONSTANTS
    Procs,      \* the replicas of the operator,
    Polling,    \* those set up to poll garm's runners, leading or not
    Configs,    \* the names of GarmServerConfig objects
    Specs,      \* the URLs they may ask for
    Budgets     \* how often each disturbance may happen: a behaviour stays
                \* within one of these budgets

(***************************************************************************)
(* What may happen besides the work of the operator:                       *)
(*   fault    a call to garm or the API server fails; also after it took   *)
(*            effect (the reply is lost)                                   *)
(*   crash    a replica dies                                               *)
(*   expire   the tokens issued so far expire                              *)
(*   reset    garm loses its database: its user, URLs and tokens           *)
(*   edit     a user creates, changes, pauses or deletes a GarmServerConfig*)
(***************************************************************************)
Disturbances == {"fault", "crash", "expire", "reset", "edit"}

ASSUME SessionConstants == /\ IsFiniteSet(Procs) /\ IsFiniteSet(Configs)
                           /\ Configs # {}
                           /\ Specs \cap {"none", "initial", "absent"} = {}
                           /\ Budgets \subseteq [Disturbances -> Nat]

VARIABLES
    garm,       \* [user, urls, old]: garm has a user, its URLs, and whether
                \* its version is too old for this operator
    proc,       \* the replicas: "down", "starting" or "running"
    leader,     \* the replicas that run the controllers, at most one
    token,      \* each replica's Client.token: is it valid?
    thread,     \* each replica's goroutines, one for each job
    conf,       \* the GarmServerConfigs in the API server
    seen,       \* the informer copies of them
    due,        \* those in the work queue
    owed,       \* another controller has to call garm
    spent       \* the disturbances so far

vars == <<garm, proc, leader, token, thread, conf, seen, due, owed, spent>>

-----------------------------------------------------------------------------
(***************************************************************************)
(* Data                                                                    *)
(***************************************************************************)

URLs == Specs \cup {"none", "initial"}

\* Start-up, the GarmServerConfig controller (it works on one object at a
\* time), and any reconciliation of another controller.
Jobs == {"start", "config", "work"}

\* garm's answers: 200, 409 and 401, and any other failure.
Answers == {"ok", "conflict", "unauth", "error"}

Confs == [spec : Specs \cup {"absent"}, paused : BOOLEAN,
          urls : URLs, ready : BOOLEAN]

NoConf == [spec |-> "absent", paused |-> FALSE, urls |-> "none",
           ready |-> FALSE]

\* boot: CreateInstance; info: GetControllerInfo; initial and set:
\* UpdateController with the initial URLs or those of an object; save: the
\* deferred status update; work: any other call.
Calls == {"none", "boot", "info", "initial", "set", "save", "work"}

Threads == [call    : Calls,
            at      : {"call", "init", "login", "store", "done"},
            answer  : Answers,
            again   : BOOLEAN,    \* EnsureAuth has logged in for this call,
            outer   : BOOLEAN,    \* or for the call it is nested in
            got     : BOOLEAN,    \* the token Login received is valid
            conf    : Configs,    \* the object being reconciled,
            obj     : Confs,      \* the copy it started from,
            fresh   : BOOLEAN,    \* whether that is still current,
            urls    : URLs,       \* and garm's URLs as far as known; in
            ready   : BOOLEAN]    \* "save" these two are the new status

SomeConf == CHOOSE c \in Configs : TRUE

Idle == [call |-> "none", at |-> "call", answer |-> "ok", again |-> FALSE,
         outer |-> FALSE, got |-> FALSE, conf |-> SomeConf, obj |-> NoConf,
         fresh |-> FALSE, urls |-> "none", ready |-> FALSE]

Resting == [j \in Jobs |-> Idle]

-----------------------------------------------------------------------------
(***************************************************************************)
(* Building blocks                                                         *)
(***************************************************************************)

Spend(d) == /\ spent' = [spent EXCEPT ![d] = @ + 1]
            /\ \E b \in Budgets : \A e \in Disturbances : spent'[e] <= b[e]

Becomes(p, j, t) == thread' = [thread EXCEPT ![p][j] = t]

Invoke(t, call) == [t EXCEPT !.call = call, !.at = "call", !.again = FALSE,
                             !.outer = FALSE]

\* A call is over.  UpdateController with the initial URLs is nested in
\* GetControllerInfo, which passes on its error, or else the conflict it was
\* called for.
Return(t, answer) ==
    [t EXCEPT !.at = "done", !.again = FALSE, !.outer = FALSE,
              !.call = IF @ = "initial" THEN "info" ELSE @,
              !.answer = IF t.call = "initial" /\ answer = "ok"
                         THEN "conflict" ELSE answer]

\* Mutant: a call that is refused logs in, but does not create the user.
EnsureAuthByLogin(t, answer) ==
    IF answer = "unauth" /\ ~t.again
    THEN [t EXCEPT !.at = "login", !.again = TRUE]
    ELSE IF t.call = "info" /\ answer = "conflict"
    THEN [t EXCEPT !.call = "initial", !.outer = t.again, !.again = FALSE]
    ELSE Return(t, answer)

\* Mutant: the initial URLs are set after any failure.
EnsureAuthInitialURLs(t, answer) ==
    IF answer = "unauth" /\ ~t.again
    THEN [t EXCEPT !.at = "init", !.again = TRUE]
    ELSE IF t.call = "info" /\ answer # "ok"
    THEN [t EXCEPT !.call = "initial", !.outer = t.again, !.again = FALSE]
    ELSE Return(t, answer)

\* What becomes of a call: a first "401" leads to Init and Login and a second
\* try; the conflict of GetControllerInfo to a call nested in it.  If that is
\* refused for good, it is GetControllerInfo's turn to log in.
EnsureAuth(t, answer) ==
    CASE answer = "unauth" /\ ~t.again ->
            [t EXCEPT !.at = "init", !.again = TRUE]
      [] answer = "unauth" /\ t.again /\ t.call = "initial" /\ ~t.outer ->
            [t EXCEPT !.call = "info", !.at = "init"]
      [] answer = "conflict" /\ t.call = "info" ->
            [t EXCEPT !.call = "initial", !.outer = t.again, !.again = FALSE]
      [] OTHER -> Return(t, answer)

\* Mutant: an initialised garm is an error.
FirstRunMustSucceed(p, j) ==
    LET t == thread[p][j] IN
    /\ t.at = "init"
    /\ \/ /\ ~garm.user
          /\ garm' = [garm EXCEPT !.user = TRUE]
          /\ Becomes(p, j, [t EXCEPT !.at = "login"])
          /\ UNCHANGED spent
       \/ /\ garm.user
          /\ Becomes(p, j, Return(t, "error"))
          /\ UNCHANGED <<garm, spent>>
    /\ UNCHANGED <<proc, leader, token, conf, seen, due, owed>>

\* Init: the first user is created; "409" tells that garm has one already.
FirstRun(p, j) ==
    LET t == thread[p][j] IN
    /\ t.at = "init"
    /\ \/ garm' = [garm EXCEPT !.user = TRUE]
       \/ UNCHANGED garm
    /\ \/ /\ garm'.user
          /\ Becomes(p, j, [t EXCEPT !.at = "login"])
          /\ UNCHANGED spent
       \/ /\ Spend("fault")
          /\ Becomes(p, j, Return(t, "error"))
    /\ UNCHANGED <<proc, leader, token, conf, seen, due, owed>>

\* Mutant: the shared token is cleared while a new one is fetched.
LoginClearsToken(p, j) ==
    LET t == thread[p][j] IN
    /\ t.at = "login"
    /\ token' = [token EXCEPT ![p] = FALSE]
    /\ Becomes(p, j, IF garm.user THEN [t EXCEPT !.at = "store", !.got = TRUE]
                     ELSE Return(t, "error"))
    /\ UNCHANGED <<garm, proc, leader, conf, seen, due, owed, spent>>

\* Login, part 1: newGarmClient fetches a token; not without the user, whose
\* "401" is for EnsureAuth as any other that comes after Init.
Login(p, j) ==
    LET t == thread[p][j] IN
    /\ t.at = "login"
    /\ \/ /\ garm.user
          /\ Becomes(p, j, [t EXCEPT !.at = "store", !.got = TRUE])
          /\ UNCHANGED spent
       \/ /\ ~garm.user
          /\ Becomes(p, j, EnsureAuth([t EXCEPT !.again = TRUE], "unauth"))
          /\ UNCHANGED spent
       \/ /\ Spend("fault")
          /\ Becomes(p, j, Return(t, "error"))
    /\ UNCHANGED <<garm, proc, leader, token, conf, seen, due, owed>>

\* Login, part 2: client and token are replaced, whatever another goroutine
\* has stored since.  All clients are alike, and so are the types of the
\* tokens, so that no reader gets a mixture.
StoreToken(p, j) ==
    LET t == thread[p][j] IN
    /\ t.at = "store"
    /\ token' = [token EXCEPT ![p] = t.got]
    /\ LET stored == [t EXCEPT !.got = FALSE] IN
       Becomes(p, j, IF t.call = "boot" THEN Invoke(stored, "info")
                     ELSE [stored EXCEPT !.at = "call"])
    /\ UNCHANGED <<garm, proc, leader, conf, seen, due, owed, spent>>

\* What garm answers to a call, and what it makes of its URLs.
Answer(p, call) ==
    CASE ~token[p]                                       -> "unauth"
      [] token[p] /\ garm.urls = "none" /\ call \in {"info", "work"}
                                                         -> "conflict"
      [] OTHER                                           -> "ok"

Effect(t) == CASE t.call = "initial" -> "initial"
               [] t.call = "set"     -> t.obj.spec
               [] OTHER              -> garm.urls

Request(p, j) ==
    LET t == thread[p][j]
        a == Answer(p, t.call)
    IN
    /\ t.call \in {"info", "initial", "set", "work"} /\ t.at = "call"
    /\ \/ /\ garm' = [garm EXCEPT !.urls = IF a = "ok" THEN Effect(t) ELSE @]
          /\ Becomes(p, j, EnsureAuth([t EXCEPT !.urls = garm'.urls], a))
          /\ UNCHANGED spent
       \/ /\ Spend("fault")
          /\ \/ a = "ok" /\ garm' = [garm EXCEPT !.urls = Effect(t)]
             \/ UNCHANGED garm
          /\ Becomes(p, j, EnsureAuth(t, "error"))
    /\ UNCHANGED <<proc, leader, token, conf, seen, due, owed>>

Connect(p, j) == \/ FirstRun(p, j) \/ Login(p, j) \/ StoreToken(p, j)
                 \/ Request(p, j)

-----------------------------------------------------------------------------
(***************************************************************************)
(* Start-up                                                                *)
(***************************************************************************)

\* run, up to CreateInstance; the container is restarted after every exit.
Boot(p) ==
    /\ proc[p] = "down"
    /\ proc' = [proc EXCEPT ![p] = "starting"]
    /\ Becomes(p, "start", [Idle EXCEPT !.call = "boot", !.at = "init"])
    /\ UNCHANGED <<garm, leader, token, conf, seen, due, owed, spent>>

Stop(p) == /\ proc' = [proc EXCEPT ![p] = "down"]
           /\ thread' = [thread EXCEPT ![p] = Resting]
           /\ token' = [token EXCEPT ![p] = FALSE]
           /\ leader' = leader \ {p}

\* run, after the controller info.  Any failure ends the process, and so does
\* the conflict of a garm that has just been given its initial URLs.
CheckVersion(p) ==
    LET t == thread[p]["start"] IN
    /\ t.call # "none" /\ t.at = "done"
    /\ \/ /\ t.call = "info" /\ t.answer = "ok" /\ ~garm.old
          /\ proc' = [proc EXCEPT ![p] = "running"]
          /\ Becomes(p, "start", Idle)
          /\ UNCHANGED <<leader, token>>
       \/ /\ t.call # "info" \/ t.answer # "ok" \/ garm.old
          /\ Stop(p)
    /\ UNCHANGED <<garm, conf, seen, due, owed, spent>>

\* Mutant: the controllers run in every replica.
LeadWithoutElection(p) ==
    /\ proc[p] = "running" /\ p \notin leader
    /\ leader' = leader \cup {p}
    /\ due' = {c \in Configs : seen[c].obj # NoConf}
    /\ UNCHANGED <<garm, proc, token, thread, conf, seen, owed, spent>>

\* mgr.Start: one of the replicas becomes the leader; its queue starts with
\* all objects in its cache.
Lead(p) ==
    /\ proc[p] = "running" /\ leader = {}
    /\ leader' = {p}
    /\ due' = {c \in Configs : seen[c].obj # NoConf}
    /\ UNCHANGED <<garm, proc, token, thread, conf, seen, owed, spent>>

Start(p) == \/ Boot(p) \/ CheckVersion(p) \/ Lead(p) \/ Connect(p, "start")

-----------------------------------------------------------------------------
(***************************************************************************)
(* The GarmServerConfig controller                                         *)
(***************************************************************************)

Reconcile(p, c) ==
    LET o == seen[c].obj IN
    /\ p \in leader /\ thread[p]["config"] = Idle
    /\ c \in due
    /\ due' = due \ {c}
    /\ IF o = NoConf \/ o.paused
       THEN UNCHANGED thread
       ELSE Becomes(p, "config", Invoke([Idle EXCEPT !.conf = c, !.obj = o,
                                            !.fresh = seen[c].fresh], "info"))
    /\ UNCHANGED <<garm, proc, leader, token, conf, seen, owed, spent>>

\* The status as it is at the end of reconcileNormal.
Save(t, urls, ready, answer) ==
    [t EXCEPT !.call = "save", !.at = "call", !.urls = urls, !.ready = ready,
              !.answer = answer]

\* Mutant: garm is called only if it has no URLs yet.
UpdateOnlyUnset(p) ==
    LET t == thread[p]["config"] IN
    /\ t.call = "info" /\ t.at = "done"
    /\ Becomes(p, "config",
               IF t.answer = "conflict" THEN Invoke(t, "set")
               ELSE Save(t, t.urls, TRUE, t.answer))
    /\ UNCHANGED <<garm, proc, leader, token, conf, seen, due, owed, spent>>

\* getControllerInfo takes a conflict for a garm without URLs;
\* updateControllerInfo calls garm if its URLs differ from the object's.
UpdateControllerInfo(p) ==
    LET t    == thread[p]["config"]
        urls == IF t.answer = "conflict" THEN "none" ELSE t.urls
    IN
    /\ t.call = "info" /\ t.at = "done"
    /\ Becomes(p, "config",
               IF t.answer \notin {"ok", "conflict"}
               THEN Save(t, t.obj.urls, t.obj.ready, "error")
               ELSE IF t.obj.spec = urls THEN Save(t, urls, TRUE, "ok")
               ELSE Invoke(t, "set"))
    /\ UNCHANGED <<garm, proc, leader, token, conf, seen, due, owed, spent>>

\* The reply to UpdateController holds the new controller info.
ControllerUpdated(p) ==
    LET t == thread[p]["config"] IN
    /\ t.call = "set" /\ t.at = "done"
    /\ Becomes(p, "config",
               IF t.answer = "ok" THEN Save(t, t.obj.spec, TRUE, "ok")
               ELSE Save(t, t.obj.urls, FALSE, "error"))
    /\ UNCHANGED <<garm, proc, leader, token, conf, seen, due, owed, spent>>

\* The deferred status update, if the status changed; any error queues the
\* object again.
UpdateStatus(p) ==
    LET t       == thread[p]["config"]
        c       == t.conf
        changed == t.urls # t.obj.urls \/ t.ready # t.obj.ready
        Written == /\ t.fresh
                   /\ conf' = [conf EXCEPT ![c].urls = t.urls,
                                           ![c].ready = t.ready]
                   /\ seen' = [seen EXCEPT ![c].fresh = FALSE]
    IN
    /\ t.call = "save"
    /\ Becomes(p, "config", Idle)
    /\ \/ /\ IF changed THEN Written ELSE UNCHANGED <<conf, seen>>
          /\ due' = IF t.answer = "ok" THEN due ELSE due \cup {c}
          /\ UNCHANGED spent
       \/ /\ changed /\ ~t.fresh
          /\ due' = due \cup {c}
          /\ UNCHANGED <<conf, seen, spent>>
       \/ /\ changed
          /\ Spend("fault")
          /\ due' = due \cup {c}
          /\ Written \/ UNCHANGED <<conf, seen>>
    /\ UNCHANGED <<garm, proc, leader, token, owed>>

Configure(p) == \/ \E c \in Configs : Reconcile(p, c)
                \/ UpdateControllerInfo(p) \/ ControllerUpdated(p)
                \/ UpdateStatus(p) \/ Connect(p, "config")

-----------------------------------------------------------------------------
(***************************************************************************)
(* Other controllers, users and garm                                       *)
(***************************************************************************)

\* A reconciliation of any other controller reaches a call to garm; in a
\* replica that does not lead, the poller of runners does.
Work(p) ==
    /\ proc[p] = "running" /\ p \in leader \cup Polling
    /\ thread[p]["work"] = Idle /\ owed
    /\ Becomes(p, "work", Invoke(Idle, "work"))
    /\ UNCHANGED <<garm, proc, leader, token, conf, seen, due, owed, spent>>

\* It is tried again until the leader succeeds.
Worked(p) ==
    LET t == thread[p]["work"] IN
    /\ t.call = "work" /\ t.at = "done"
    /\ Becomes(p, "work", Idle)
    /\ owed' = (owed /\ (p \notin leader \/ t.answer # "ok"))
    /\ UNCHANGED <<garm, proc, leader, token, conf, seen, due, spent>>

Serve(p) == Work(p) \/ Worked(p) \/ Connect(p, "work")

\* Something for the other controllers to do.
Owe == /\ ~owed
       /\ owed' = TRUE
       /\ UNCHANGED <<garm, proc, leader, token, thread, conf, seen, due, spent>>

\* The informers deliver changes, and all objects again in every sync period.
CacheSync(c) ==
    /\ ~seen[c].fresh
    /\ seen' = [seen EXCEPT ![c] = [obj |-> conf[c], fresh |-> TRUE]]
    /\ due' = due \cup {c}
    /\ UNCHANGED <<garm, proc, leader, token, thread, conf, owed, spent>>

Resync(c) ==
    /\ seen[c].obj # NoConf /\ c \notin due
    /\ due' = due \cup {c}
    /\ UNCHANGED <<garm, proc, leader, token, thread, conf, seen, owed, spent>>

\* A user applies, changes, pauses, resumes or deletes an object.
Edit(c) ==
    LET Changes == {[conf[c] EXCEPT !.spec = s] : s \in Specs}
                   \cup (IF conf[c] = NoConf THEN {}
                         ELSE {NoConf, [conf[c] EXCEPT !.paused = ~@]})
    IN
    /\ Spend("edit")
    /\ \E new \in Changes \ {conf[c]} : conf' = [conf EXCEPT ![c] = new]
    /\ seen' = [seen EXCEPT ![c].fresh = FALSE]
    /\ thread' = [p \in Procs |-> [j \in Jobs |->
                     IF thread[p][j] # Idle /\ j = "config"
                        /\ thread[p][j].conf = c
                     THEN [thread[p][j] EXCEPT !.fresh = FALSE]
                     ELSE thread[p][j]]]
    /\ UNCHANGED <<garm, proc, leader, token, due, owed>>

Crash(p) ==
    /\ proc[p] # "down"
    /\ Spend("crash")
    /\ Stop(p)
    /\ UNCHANGED <<garm, conf, seen, due, owed>>

\* All tokens become invalid, those on their way to be stored included.
Invalidate ==
    /\ token' = [p \in Procs |-> FALSE]
    /\ thread' = [p \in Procs |-> [j \in Jobs |->
                     [thread[p][j] EXCEPT !.got = FALSE]]]

Expire ==
    /\ Spend("expire")
    /\ Invalidate
    /\ UNCHANGED <<garm, proc, leader, conf, seen, due, owed>>

Reset ==
    /\ Spend("reset")
    /\ Invalidate
    /\ garm' = [garm EXCEPT !.user = FALSE, !.urls = "none"]
    /\ UNCHANGED <<proc, leader, conf, seen, due, owed>>

Upgrade ==
    /\ garm.old
    /\ garm' = [garm EXCEPT !.old = FALSE]
    /\ UNCHANGED <<proc, leader, token, thread, conf, seen, due, owed, spent>>

Environment == \/ Owe \/ Expire \/ Reset \/ Upgrade
               \/ \E p \in Procs : Crash(p)
               \/ \E c \in Configs : CacheSync(c) \/ Resync(c) \/ Edit(c)

-----------------------------------------------------------------------------

Init ==
    /\ garm \in [user : {FALSE}, urls : {"none"}, old : BOOLEAN]
    /\ proc = [p \in Procs |-> "down"]
    /\ leader = {}
    /\ token = [p \in Procs |-> FALSE]
    /\ thread = [p \in Procs |-> Resting]
    /\ conf \in [Configs -> {NoConf} \cup
                            {[NoConf EXCEPT !.spec = s] : s \in Specs}]
    /\ seen = [c \in Configs |-> [obj |-> NoConf, fresh |-> FALSE]]
    /\ due = {}
    /\ owed = FALSE
    /\ spent = [d \in Disturbances |-> 0]

Next == \/ \E p \in Procs : Start(p) \/ Configure(p) \/ Serve(p)
        \/ Environment

Spec == Init /\ [][Next]_vars

(***************************************************************************)
(* The container is restarted, one of the replicas is elected, goroutines  *)
(* run, watches are delivered and objects are reconciled again in every    *)
(* sync period.  Nobody has to upgrade garm.                               *)
(***************************************************************************)
Fairness ==
    /\ \A p \in Procs : /\ WF_vars(Start(p)) /\ WF_vars(Configure(p))
                        /\ WF_vars(Serve(p))
    /\ \A c \in Configs : WF_vars(CacheSync(c)) /\ WF_vars(Resync(c))

FairSpec == Spec /\ Fairness

-----------------------------------------------------------------------------
(***************************************************************************)
(* Properties                                                              *)
(***************************************************************************)

\* Every variable has its type, and at most one replica leads.
SessionTypeOK ==
    /\ garm \in [user : BOOLEAN, urls : URLs, old : BOOLEAN]
    /\ proc \in [Procs -> {"down", "starting", "running"}]
    /\ leader \in SUBSET {p \in Procs : proc[p] = "running"}
    /\ Cardinality(leader) <= 1
    /\ token \in [Procs -> BOOLEAN]
    /\ thread \in [Procs -> [Jobs -> Threads]]
    /\ conf \in [Configs -> Confs]
    /\ seen \in [Configs -> [obj : Confs, fresh : BOOLEAN]]
    /\ due \subseteq Configs
    /\ owed \in BOOLEAN
    /\ spent \in [Disturbances -> Nat]

(***************************************************************************)
(* A running process loses a valid token only when garm invalidates it, or *)
(* when a goroutine stores one that was invalidated on its way.  That many *)
(* goroutines log in at once and replace each other's tokens does no harm  *)
(* beyond that (client.go, Login and EnsureAuth).                          *)
(***************************************************************************)
TokenLost(p) ==
    /\ proc[p] = "running" /\ token[p] /\ ~token'[p]
    /\ proc'[p] = "running"

UsableTokenKept ==
    [][\A p \in Procs : TokenLost(p) =>
          \/ spent'["expire"] + spent'["reset"]
                > spent["expire"] + spent["reset"]
          \/ \E j \in Jobs : thread[p][j].at = "store"
                             /\ ~thread[p][j].got]_vars

(***************************************************************************)
(* Configured URLs are replaced by the initial ones only by a replica that *)
(* is starting: it has found garm without URLs before the leader set them. *)
(* The leader itself never does so (controller.go, GetControllerInfo).     *)
(***************************************************************************)
ConfiguredURLsKept ==
    [][garm.urls \in Specs /\ garm'.urls = "initial" =>
          \E p \in Procs : thread[p]["start"].call = "initial"]_vars

\* Replicas get through their start-up, whether garm is new, has been
\* initialised by another one or loses its database meanwhile (main.go, run).
EventuallyStarted ==
    <>[](~garm.old) => <>[](\A p \in Procs : proc[p] = "running")

(***************************************************************************)
(* Every controller gets its calls through to garm in the end: after       *)
(* expired tokens, concurrent logins, and after garm has lost its database *)
(* if there is a GarmServerConfig to give it URLs again (client.go,        *)
(* EnsureAuth).                                                            *)
(***************************************************************************)
Wanted(c, s) == conf[c].spec = s /\ ~conf[c].paused

CallsGetThrough ==
    <>[](~garm.old /\ \E c \in Configs : \E s \in Specs : Wanted(c, s))
        => []<>(~owed)

(***************************************************************************)
(* If all GarmServerConfigs ask for the same URLs, garm gets them and the  *)
(* objects say so, although start-up and every GetControllerInfo may put   *)
(* initial ones in their place (garmserverconfig_controller.go).           *)
(***************************************************************************)
ConfigApplied ==
    \A s \in Specs :
        <>[](/\ ~garm.old
             /\ \E c \in Configs : Wanted(c, s)
             /\ \A c \in Configs : conf[c] # NoConf => Wanted(c, s))
        => <>[](/\ garm.urls = s
                /\ \A c \in Configs : Wanted(c, s) =>
                      conf[c].urls = s /\ conf[c].ready)

=============================================================================
