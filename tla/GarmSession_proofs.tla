------------------------- MODULE GarmSession_proofs -------------------------
(***************************************************************************)
(* Theorems about GarmSession, for any number of replicas and objects, any *)
(* URLs they may ask for, and any budgets of disturbances.                 *)
(***************************************************************************)
EXTENDS GarmSession, FiniteSetTheorems, TLAPS

-----------------------------------------------------------------------------
(***************************************************************************)
(* The inductive invariant.  The leader never puts initial URLs in the     *)
(* place of configured ones because the one goroutine that configures URLs *)
(* is also the only one of the leader that puts initial ones there: it     *)
(* cannot set URLs between garm's answer that there are none and the call  *)
(* that sets the initial ones.                                             *)
(***************************************************************************)

\* The calls a goroutine makes.
CallsOf(j) == CASE j = "start"  -> {"none", "boot", "info", "initial"}
                [] j = "config" -> {"none", "info", "initial", "set", "save"}
                [] j = "work"   -> {"none", "work"}

OneLeader == \A p, q \in leader : p = q

\* An object that is there asks for URLs, and so does its copy.
ConfSound(c) == /\ conf[c] # NoConf => conf[c].spec \in Specs
                /\ seen[c].obj # NoConf => seen[c].obj.spec \in Specs
                /\ seen[c].fresh => seen[c].obj = conf[c]

\* What is being reconciled is an object, which is still there if the copy
\* is current; only the leader reconciles.
Reconciles(p, t) == /\ p \in leader
                    /\ t.obj.spec \in Specs
                    /\ t.fresh => conf[t.conf] # NoConf

ThreadSound(p, j) ==
    LET t == thread[p][j] IN
    /\ t.call \in CallsOf(j)
    /\ j = "config" /\ t.call # "none"    => Reconciles(p, t)
    /\ j = "config" /\ t.call = "initial" => garm.urls \notin Specs

SessionInv == /\ SessionTypeOK
              /\ OneLeader
              /\ \A c \in Configs : ConfSound(c)
              /\ \A p \in Procs : \A j \in Jobs : ThreadSound(p, j)

-----------------------------------------------------------------------------
(***************************************************************************)
(* What the building blocks do to the types.                               *)
(***************************************************************************)

LEMMA SessionConstantTypes ==
    /\ SomeConf \in Configs
    /\ NoConf \in Confs
    /\ Idle \in Threads
    /\ Idle.call = "none" /\ ~Idle.got
    /\ Resting \in [Jobs -> Threads]
<1>1. SomeConf \in Configs
  BY SessionConstants DEF SomeConf
<1>2. NoConf \in Confs
  BY DEF NoConf, Confs, URLs
<1>3. Idle \in Threads
  BY <1>1, <1>2 DEF Idle, Threads, Calls, Answers, URLs
<1> QED
  BY <1>1, <1>2, <1>3 DEF Resting, Idle

LEMMA SpendIs ==
    ASSUME spent \in [Disturbances -> Nat], NEW d \in Disturbances, Spend(d)
    PROVE  /\ spent' \in [Disturbances -> Nat]
           /\ spent'[d] = spent[d] + 1
           /\ \A e \in Disturbances \ {d} : spent'[e] = spent[e]
<1>1. spent' = [spent EXCEPT ![d] = spent[d] + 1]
  BY DEF Spend
<1> QED
  BY <1>1

\* The fields of a thread.
LEMMA ThreadType ==
    ASSUME NEW t \in Threads
    PROVE  /\ t.call \in Calls /\ t.answer \in Answers
           /\ t.at \in {"call", "init", "login", "store", "done"}
           /\ t.again \in BOOLEAN /\ t.outer \in BOOLEAN /\ t.got \in BOOLEAN
           /\ t.conf \in Configs /\ t.obj \in Confs /\ t.fresh \in BOOLEAN
           /\ t.urls \in URLs /\ t.ready \in BOOLEAN
BY DEF Threads

\* u works on the same object as t.
Alike(t, u) == u.conf = t.conf /\ u.obj = t.obj /\ u.fresh = t.fresh

\* What a call may turn into when garm has these URLs.
Goes(t, u, urls) == \/ u.call = t.call
                    \/ t.call \in {"boot", "initial"} /\ u.call = "info"
                    \/ t.call = "info" /\ u.call = "initial" /\ urls = "none"

LEMMA ReturnIs ==
    ASSUME NEW t \in Threads, NEW answer \in Answers
    PROVE  /\ Return(t, answer) \in Threads
           /\ Alike(t, Return(t, answer))
           /\ \A urls : Goes(t, Return(t, answer), urls)
<1> DEFINE call == IF t.call = "initial" THEN "info" ELSE t.call
           a == IF t.call = "initial" /\ answer = "ok"
                THEN "conflict" ELSE answer
<1>1. call \in Calls /\ a \in Answers
  BY ThreadType DEF Calls, Answers
<1>2. Return(t, answer) = [t EXCEPT !.at = "done", !.again = FALSE,
                                    !.outer = FALSE, !.call = call,
                                    !.answer = a]
  BY DEF Return
<1>3. call = t.call \/ (t.call = "initial" /\ call = "info")
  OBVIOUS
<1> HIDE DEF call, a
<1> QED
  BY <1>1, <1>2, <1>3 DEF Threads, Alike, Goes

LEMMA InvokeIs ==
    ASSUME NEW t \in Threads, NEW call \in Calls
    PROVE  /\ Invoke(t, call) \in Threads
           /\ Alike(t, Invoke(t, call))
           /\ Invoke(t, call).call = call
BY DEF Invoke, Threads, Alike

LEMMA EnsureAuthIs ==
    ASSUME NEW t \in Threads, NEW answer \in Answers, NEW urls,
           answer = "conflict" => urls = "none"
    PROVE  /\ EnsureAuth(t, answer) \in Threads
           /\ Alike(t, EnsureAuth(t, answer))
           /\ Goes(t, EnsureAuth(t, answer), urls)
<1>0. t.again \in BOOLEAN
  BY ThreadType
<1>1. CASE answer = "unauth" /\ ~t.again
  <2>1. EnsureAuth(t, answer) = [t EXCEPT !.at = "init", !.again = TRUE]
    BY <1>1 DEF EnsureAuth
  <2> QED
    BY <2>1 DEF Threads, Alike, Goes
<1>2. CASE answer = "unauth" /\ t.again /\ t.call = "initial" /\ ~t.outer
  <2>1. EnsureAuth(t, answer) = [t EXCEPT !.call = "info", !.at = "init"]
    BY <1>2 DEF EnsureAuth
  <2> QED
    BY <1>2, <2>1 DEF Threads, Alike, Goes, Calls
<1>3. CASE answer = "conflict" /\ t.call = "info"
  <2>1. EnsureAuth(t, answer) = [t EXCEPT !.call = "initial",
                                          !.outer = t.again, !.again = FALSE]
    BY <1>3 DEF EnsureAuth
  <2> QED
    BY <1>0, <1>3, <2>1 DEF Threads, Alike, Goes, Calls
<1>4. CASE /\ ~(answer = "unauth" /\ ~t.again)
           /\ ~(answer = "unauth" /\ t.again /\ t.call = "initial" /\ ~t.outer)
           /\ ~(answer = "conflict" /\ t.call = "info")
  <2>1. EnsureAuth(t, answer) = Return(t, answer)
    BY <1>4 DEF EnsureAuth
  <2> QED
    BY <2>1, ReturnIs
<1> QED
  BY <1>1, <1>2, <1>3, <1>4

LEMMA BecomesIs ==
    ASSUME SessionTypeOK, NEW p \in Procs, NEW j \in Jobs, NEW t \in Threads,
           Becomes(p, j, t)
    PROVE  /\ thread' \in [Procs -> [Jobs -> Threads]]
           /\ thread'[p][j] = t
           /\ \A q \in Procs, i \in Jobs :
                 q # p \/ i # j => thread'[q][i] = thread[q][i]
BY DEF SessionTypeOK, Becomes

LEMMA CurrentThread ==
    ASSUME SessionTypeOK, NEW p \in Procs, NEW j \in Jobs
    PROVE  thread[p][j] \in Threads
BY DEF SessionTypeOK

-----------------------------------------------------------------------------
(***************************************************************************)
(* A step of a call: its thread goes on, and it may set garm's URLs to the *)
(* initial ones or to those of the object it works on.                     *)
(***************************************************************************)

GarmType == [user : BOOLEAN, urls : URLs, old : BOOLEAN]

URLsFrom(t) == \/ garm'.urls = garm.urls
               \/ t.call = "initial" /\ garm'.urls = "initial"
               \/ t.call = "set" /\ garm'.urls = t.obj.spec

ConnectStep(p, j) ==
    /\ \E u \in Threads : /\ Becomes(p, j, u)
                          /\ Alike(thread[p][j], u)
                          /\ Goes(thread[p][j], u, garm'.urls)
    /\ garm' \in GarmType
    /\ URLsFrom(thread[p][j])
    /\ token' \in [Procs -> BOOLEAN]
    /\ spent' \in [Disturbances -> Nat]
    /\ UNCHANGED <<proc, leader, conf, seen, due, owed>>

LEMMA SpentType ==
    ASSUME SessionTypeOK, UNCHANGED spent \/ \E d \in Disturbances : Spend(d)
    PROVE  spent' \in [Disturbances -> Nat]
BY SpendIs DEF SessionTypeOK

LEMMA AnswerIs ==
    ASSUME NEW p, NEW call
    PROVE  /\ Answer(p, call) \in Answers
           /\ Answer(p, call) = "conflict" => garm.urls = "none"
<1>1. CASE ~token[p]
  BY <1>1 DEF Answer, Answers
<1>2. CASE /\ token[p] /\ garm.urls = "none" /\ call \in {"info", "work"}
  BY <1>2 DEF Answer, Answers
<1>3. CASE token[p] /\ ~(garm.urls = "none" /\ call \in {"info", "work"})
  BY <1>3 DEF Answer, Answers
<1> QED
  BY <1>1, <1>2, <1>3

LEMMA FirstRunSteps ==
    ASSUME SessionTypeOK, NEW p \in Procs, NEW j \in Jobs, FirstRun(p, j)
    PROVE  ConnectStep(p, j)
<1> DEFINE t == thread[p][j]
           u == [t EXCEPT !.at = "login"]
<1>1. t \in Threads
  BY CurrentThread
<1>2. u \in Threads /\ Alike(t, u) /\ Goes(t, u, garm'.urls)
  BY <1>1 DEF Threads, Alike, Goes
<1>3. /\ Return(t, "error") \in Threads /\ Alike(t, Return(t, "error"))
      /\ Goes(t, Return(t, "error"), garm'.urls)
  BY <1>1, ReturnIs DEF Answers
<1>4. garm' \in GarmType /\ garm'.urls = garm.urls
  BY DEF FirstRun, SessionTypeOK, GarmType
<1>5. /\ UNCHANGED <<proc, leader, token, conf, seen, due, owed>>
      /\ Becomes(p, j, u) \/ Becomes(p, j, Return(t, "error"))
      /\ spent' \in [Disturbances -> Nat]
  BY SpentType DEF FirstRun, Disturbances
<1> HIDE DEF u
<1> QED
  BY <1>2, <1>3, <1>4, <1>5 DEF ConnectStep, URLsFrom, SessionTypeOK

LEMMA LoginSteps ==
    ASSUME SessionTypeOK, NEW p \in Procs, NEW j \in Jobs, Login(p, j)
    PROVE  ConnectStep(p, j)
<1> DEFINE t == thread[p][j]
           u == [t EXCEPT !.at = "store", !.got = TRUE]
           refused == [t EXCEPT !.again = TRUE]
           v == EnsureAuth(refused, "unauth")
<1>1. t \in Threads
  BY CurrentThread
<1>2. u \in Threads /\ Alike(t, u) /\ Goes(t, u, garm'.urls)
  BY <1>1 DEF Threads, Alike, Goes
<1>3. /\ Return(t, "error") \in Threads /\ Alike(t, Return(t, "error"))
      /\ Goes(t, Return(t, "error"), garm'.urls)
  BY <1>1, ReturnIs DEF Answers
<1>4. v \in Threads /\ Alike(t, v) /\ Goes(t, v, garm'.urls)
  <2>1. /\ refused \in Threads /\ refused.call = t.call
        /\ Alike(t, refused)
    BY <1>1 DEF Threads, Alike
  <2> HIDE DEF refused
  <2>2. /\ v \in Threads /\ Alike(refused, v)
        /\ Goes(refused, v, garm'.urls)
    BY <2>1, EnsureAuthIs DEF Answers
  <2> HIDE DEF v
  <2> QED
    BY <2>1, <2>2 DEF Alike, Goes
<1>5. /\ UNCHANGED <<garm, proc, leader, token, conf, seen, due, owed>>
      /\ \/ Becomes(p, j, u) \/ Becomes(p, j, v)
         \/ Becomes(p, j, Return(t, "error"))
      /\ spent' \in [Disturbances -> Nat]
  BY SpentType DEF Login, Disturbances
<1> HIDE DEF u, v
<1> QED
  BY <1>2, <1>3, <1>4, <1>5 DEF ConnectStep, URLsFrom, GarmType, SessionTypeOK

LEMMA StoreTokenSteps ==
    ASSUME SessionTypeOK, NEW p \in Procs, NEW j \in Jobs, StoreToken(p, j)
    PROVE  ConnectStep(p, j)
<1> DEFINE t == thread[p][j]
           stored == [t EXCEPT !.got = FALSE]
           u == [stored EXCEPT !.at = "call"]
           v == Invoke(stored, "info")
<1>1. t \in Threads
  BY CurrentThread
<1>2. u \in Threads /\ Alike(t, u) /\ Goes(t, u, garm'.urls)
  BY <1>1 DEF Threads, Alike, Goes
<1>3. t.call = "boot" => v \in Threads /\ Alike(t, v) /\ Goes(t, v, garm'.urls)
  <2>1. stored \in Threads /\ Alike(t, stored)
    BY <1>1 DEF Threads, Alike
  <2> HIDE DEF stored
  <2>2. v \in Threads /\ Alike(stored, v) /\ v.call = "info"
    BY <2>1, InvokeIs DEF Calls
  <2> HIDE DEF v
  <2> QED
    BY <2>1, <2>2 DEF Alike, Goes
<1>4. /\ UNCHANGED <<garm, proc, leader, conf, seen, due, owed, spent>>
      /\ IF t.call = "boot" THEN Becomes(p, j, v) ELSE Becomes(p, j, u)
  BY DEF StoreToken
<1>5. token' \in [Procs -> BOOLEAN]
  BY <1>1, ThreadType DEF StoreToken, SessionTypeOK
<1> HIDE DEF u, v
<1> QED
  BY <1>2, <1>3, <1>4, <1>5 DEF ConnectStep, URLsFrom, GarmType, SessionTypeOK

LEMMA RequestSteps ==
    ASSUME SessionTypeOK, NEW p \in Procs, NEW j \in Jobs, Request(p, j),
           thread[p][j].call = "set" => thread[p][j].obj.spec \in Specs
    PROVE  ConnectStep(p, j)
<1> DEFINE t == thread[p][j]
           a == Answer(p, t.call)
           u == [t EXCEPT !.urls = garm'.urls]
<1>1. t \in Threads /\ garm.urls \in URLs
  BY CurrentThread DEF SessionTypeOK
<1>2. UNCHANGED <<proc, leader, token, conf, seen, due, owed>>
  BY DEF Request
<1>3. spent' \in [Disturbances -> Nat]
  BY SpentType DEF Request, Disturbances
<1>4. Effect(t) \in URLs
  BY <1>1 DEF Effect, URLs
<1>5. \/ UNCHANGED garm
      \/ a = "ok" /\ garm' = [garm EXCEPT !.urls = Effect(t)]
  BY DEF Request, SessionTypeOK
<1>6. garm' \in GarmType /\ (a # "ok" => garm' = garm)
      /\ (UNCHANGED garm \/ garm'.urls = Effect(t))
  BY <1>4, <1>5 DEF SessionTypeOK, GarmType
<1>7. URLsFrom(t)
  BY <1>6 DEF URLsFrom, Effect
<1>8. a \in Answers /\ (a = "conflict" => garm'.urls = "none")
  BY <1>6, AnswerIs
<1>9. u \in Threads /\ Alike(t, u) /\ u.call = t.call
  BY <1>1, <1>6 DEF Threads, Alike, GarmType
<1>10. \/ Becomes(p, j, EnsureAuth(u, a))
       \/ Becomes(p, j, EnsureAuth(t, "error"))
  BY DEF Request
<1>11. /\ EnsureAuth(t, "error") \in Threads
       /\ Alike(t, EnsureAuth(t, "error"))
       /\ Goes(t, EnsureAuth(t, "error"), garm'.urls)
  BY <1>1, EnsureAuthIs DEF Answers
<1> HIDE DEF u, a
<1>12. /\ EnsureAuth(u, a) \in Threads
       /\ Alike(t, EnsureAuth(u, a))
       /\ Goes(t, EnsureAuth(u, a), garm'.urls)
  <2>1. /\ EnsureAuth(u, a) \in Threads /\ Alike(u, EnsureAuth(u, a))
        /\ Goes(u, EnsureAuth(u, a), garm'.urls)
    BY <1>8, <1>9, EnsureAuthIs
  <2> QED
    BY <1>9, <2>1 DEF Alike, Goes
<1>13. token' \in [Procs -> BOOLEAN]
  BY <1>2 DEF SessionTypeOK
<1> QED
  BY <1>2, <1>3, <1>6, <1>7, <1>10, <1>11, <1>12, <1>13 DEF ConnectStep

LEMMA ConnectSteps ==
    ASSUME SessionInv, NEW p \in Procs, NEW j \in Jobs, Connect(p, j)
    PROVE  ConnectStep(p, j)
<1>1. SessionTypeOK /\ ThreadSound(p, j)
  BY DEF SessionInv
<1>2. thread[p][j].call = "set" => thread[p][j].obj.spec \in Specs
  BY <1>1 DEF ThreadSound, CallsOf, Jobs, Reconciles
<1> QED
  BY <1>1, <1>2, FirstRunSteps, LoginSteps, StoreTokenSteps, RequestSteps
     DEF Connect

LEMMA ConnectSound ==
    ASSUME SessionInv, NEW p \in Procs, NEW j \in Jobs, Connect(p, j)
    PROVE  SessionInv'
<1>0. SessionTypeOK
  BY DEF SessionInv
<1>1. ConnectStep(p, j)
  BY ConnectSteps
<1> DEFINE t == thread[p][j]
<1>2. PICK u \in Threads : /\ Becomes(p, j, u) /\ Alike(t, u)
                           /\ Goes(t, u, garm'.urls)
  BY <1>1 DEF ConnectStep
<1>3. /\ thread' \in [Procs -> [Jobs -> Threads]] /\ thread'[p][j] = u
      /\ \A q \in Procs, i \in Jobs :
            q # p \/ i # j => thread'[q][i] = thread[q][i]
  BY <1>0, <1>2, BecomesIs
<1>4. SessionTypeOK'
  BY <1>0, <1>1, <1>3 DEF ConnectStep, SessionTypeOK, GarmType
<1>5. OneLeader' /\ \A c \in Configs : ConfSound(c)'
  BY <1>1 DEF SessionInv, ConnectStep, OneLeader, ConfSound
<1>6. ThreadSound(p, j) /\ URLsFrom(t)
  BY <1>1 DEF SessionInv, ConnectStep
<1>7. "none" \notin Specs /\ "initial" \notin Specs
  BY SessionConstants
<1>8. ThreadSound(p, j)'
  <2>1. u.call \in CallsOf(j)
    BY <1>2, <1>6 DEF ThreadSound, CallsOf, Jobs, Goes
  <2>2. j = "config" /\ u.call # "none" => t.call # "none"
    BY <1>2 DEF Goes
  <2>3. j = "config" /\ u.call # "none" => Reconciles(p, u)'
    BY <1>1, <1>2, <1>6, <2>2
       DEF ThreadSound, Reconciles, Alike, ConnectStep
  <2>4. j = "config" /\ u.call = "initial" => garm'.urls \notin Specs
    BY <1>2, <1>6, <1>7 DEF ThreadSound, Goes, URLsFrom
  <2> QED
    BY <1>3, <2>1, <2>3, <2>4 DEF ThreadSound, Reconciles
<1>9. ASSUME NEW q \in Procs, NEW i \in Jobs, q # p \/ i # j
      PROVE  ThreadSound(q, i)'
  <2>1. thread'[q][i] = thread[q][i] /\ ThreadSound(q, i)
    BY <1>3, <1>9 DEF SessionInv
  <2>2. i = "config" /\ thread[q][i].call = "initial" =>
            garm'.urls \notin Specs
    <3> SUFFICES ASSUME i = "config", thread[q][i].call = "initial"
                 PROVE  garm'.urls \notin Specs
      OBVIOUS
    <3>1. garm.urls \notin Specs /\ q \in leader
      BY <2>1 DEF ThreadSound, Reconciles
    <3>2. t.call = "set" => j = "config" /\ p \in leader
      BY <1>6 DEF ThreadSound, CallsOf, Jobs, Reconciles
    <3>3. t.call # "set"
      BY <1>9, <3>1, <3>2 DEF SessionInv, OneLeader
    <3> QED
      BY <1>6, <1>7, <3>1, <3>3 DEF URLsFrom
  <2> QED
    BY <1>1, <2>1, <2>2 DEF ThreadSound, Reconciles, ConnectStep
<1> QED
  BY <1>4, <1>5, <1>8, <1>9 DEF SessionInv

-----------------------------------------------------------------------------
(***************************************************************************)
(* Start-up and the election                                               *)
(***************************************************************************)

LEMMA OneIsAtMostOne ==
    ASSUME NEW S, IsFiniteSet(S), \A x, y \in S : x = y
    PROVE  Cardinality(S) <= 1
<1>1. CASE S = {}
  BY <1>1, FS_EmptySet
<1>2. CASE S # {}
  <2>1. PICK x \in S : S = {x}
    BY <1>2
  <2> QED
    BY <2>1, FS_Singleton
<1> QED
  BY <1>1, <1>2

LEMMA LeaderType ==
    ASSUME OneLeader', leader' \subseteq Procs
    PROVE  Cardinality(leader') <= 1
BY FS_Subset, OneIsAtMostOne, SessionConstants DEF OneLeader

\* One thread turns to something that is not the initial URLs.
LEMMA OneThread ==
    ASSUME SessionInv, NEW p \in Procs, NEW j \in Jobs, NEW u \in Threads,
           Becomes(p, j, u), UNCHANGED <<garm, leader, conf>>,
           u.call \in CallsOf(j), u.call # "initial",
           j = "config" /\ u.call # "none" => Reconciles(p, u)
    PROVE  /\ thread' \in [Procs -> [Jobs -> Threads]]
           /\ \A q \in Procs : \A i \in Jobs : ThreadSound(q, i)'
<1>1. /\ thread' \in [Procs -> [Jobs -> Threads]] /\ thread'[p][j] = u
      /\ \A q \in Procs, i \in Jobs :
            q # p \/ i # j => thread'[q][i] = thread[q][i]
  BY BecomesIs DEF SessionInv
<1>2. ThreadSound(p, j)'
  BY <1>1 DEF ThreadSound, Reconciles
<1>3. ASSUME NEW q \in Procs, NEW i \in Jobs, q # p \/ i # j
      PROVE  ThreadSound(q, i)'
  BY <1>1, <1>3 DEF SessionInv, ThreadSound, Reconciles
<1> QED
  BY <1>1, <1>2, <1>3

LEMMA BootSound ==
    ASSUME SessionInv, NEW p \in Procs, Boot(p)
    PROVE  SessionInv'
<1> DEFINE u == [Idle EXCEPT !.call = "boot", !.at = "init"]
<1>1. u \in Threads /\ u.call = "boot"
  BY SessionConstantTypes DEF Threads, Calls
<1>2. /\ UNCHANGED <<garm, leader, token, conf, seen, due, owed, spent>>
      /\ Becomes(p, "start", u)
      /\ proc[p] = "down" /\ proc' = [proc EXCEPT ![p] = "starting"]
  BY DEF Boot
<1> HIDE DEF u
<1>3. /\ thread' \in [Procs -> [Jobs -> Threads]]
      /\ \A q \in Procs : \A i \in Jobs : ThreadSound(q, i)'
  BY <1>1, <1>2, OneThread DEF CallsOf, Jobs
<1>4. SessionTypeOK'
  BY <1>2, <1>3 DEF SessionInv, SessionTypeOK
<1> QED
  BY <1>2, <1>3, <1>4 DEF SessionInv, OneLeader, ConfSound

LEMMA StopSound ==
    ASSUME SessionInv, NEW p \in Procs, Stop(p),
           UNCHANGED <<garm, conf, seen, due, owed>>,
           spent' \in [Disturbances -> Nat]
    PROVE  SessionInv'
<1>1. /\ proc' = [proc EXCEPT ![p] = "down"]
      /\ thread' = [thread EXCEPT ![p] = Resting]
      /\ token' = [token EXCEPT ![p] = FALSE]
      /\ leader' = leader \ {p}
  BY DEF Stop
<1>2. OneLeader' /\ \A c \in Configs : ConfSound(c)'
  BY <1>1 DEF SessionInv, OneLeader, ConfSound
<1>3. leader' \subseteq Procs
  BY <1>1 DEF SessionInv, SessionTypeOK
<1>4. leader' \in SUBSET {q \in Procs : proc'[q] = "running"}
  BY <1>1 DEF SessionInv, SessionTypeOK
<1>5. thread' \in [Procs -> [Jobs -> Threads]]
  BY <1>1, SessionConstantTypes DEF SessionInv, SessionTypeOK
<1>6. SessionTypeOK'
  BY <1>1, <1>2, <1>3, <1>4, <1>5, LeaderType DEF SessionInv, SessionTypeOK
<1>7. ASSUME NEW q \in Procs, NEW i \in Jobs PROVE ThreadSound(q, i)'
  <2>1. CASE q = p
    <3>1. thread'[p][i] = Idle
      BY <1>1 DEF SessionInv, SessionTypeOK, Resting
    <3> QED
      BY <2>1, <3>1, SessionConstantTypes DEF ThreadSound, CallsOf, Jobs
  <2>2. CASE q # p
    <3>1. thread'[q][i] = thread[q][i] /\ (q \in leader => q \in leader')
      BY <1>1, <2>2 DEF SessionInv, SessionTypeOK
    <3> QED
      BY <3>1 DEF SessionInv, ThreadSound, Reconciles
  <2> QED
    BY <2>1, <2>2
<1> QED
  BY <1>2, <1>6, <1>7 DEF SessionInv

LEMMA CheckVersionSound ==
    ASSUME SessionInv, NEW p \in Procs, CheckVersion(p)
    PROVE  SessionInv'
<1>1. UNCHANGED <<garm, conf, seen, due, owed, spent>>
  BY DEF CheckVersion
<1>2. CASE Stop(p)
  BY <1>1, <1>2, StopSound DEF SessionInv, SessionTypeOK
<1>3. CASE /\ proc' = [proc EXCEPT ![p] = "running"]
           /\ Becomes(p, "start", Idle)
           /\ UNCHANGED <<leader, token>>
  <2>1. /\ thread' \in [Procs -> [Jobs -> Threads]]
        /\ \A q \in Procs : \A i \in Jobs : ThreadSound(q, i)'
    BY <1>1, <1>3, SessionConstantTypes, OneThread DEF CallsOf, Jobs
  <2>2. SessionTypeOK'
    BY <1>1, <1>3, <2>1 DEF SessionInv, SessionTypeOK
  <2> QED
    BY <1>1, <1>3, <2>1, <2>2 DEF SessionInv, OneLeader, ConfSound
<1> QED
  BY <1>2, <1>3 DEF CheckVersion

LEMMA LeadSound ==
    ASSUME SessionInv, NEW p \in Procs, Lead(p)
    PROVE  SessionInv'
<1>1. /\ proc[p] = "running" /\ leader = {} /\ leader' = {p}
      /\ due' \subseteq Configs
      /\ UNCHANGED <<garm, proc, token, thread, conf, seen, owed, spent>>
  BY DEF Lead
<1>2. OneLeader' /\ leader' \subseteq Procs
  BY <1>1 DEF OneLeader
<1>3. SessionTypeOK'
  BY <1>1, <1>2, LeaderType DEF SessionInv, SessionTypeOK
<1>4. ASSUME NEW q \in Procs, NEW i \in Jobs PROVE ThreadSound(q, i)'
  BY <1>1 DEF SessionInv, ThreadSound, Reconciles
<1> QED
  BY <1>1, <1>2, <1>3, <1>4 DEF SessionInv, ConfSound

-----------------------------------------------------------------------------
(***************************************************************************)
(* The controllers                                                         *)
(***************************************************************************)

LEMMA ReconcileSound ==
    ASSUME SessionInv, NEW p \in Procs, NEW c \in Configs, Reconcile(p, c)
    PROVE  SessionInv'
<1> DEFINE o == seen[c].obj
           t == [Idle EXCEPT !.conf = c, !.obj = o, !.fresh = seen[c].fresh]
           u == Invoke(t, "info")
<1>1. /\ UNCHANGED <<garm, proc, leader, token, conf, seen, owed, spent>>
      /\ due' = due \ {c} /\ p \in leader
      /\ UNCHANGED thread \/ (o # NoConf /\ Becomes(p, "config", u))
  BY DEF Reconcile
<1>2. ConfSound(c) /\ o \in Confs /\ seen[c].fresh \in BOOLEAN
  BY DEF SessionInv, SessionTypeOK
<1>3. /\ t \in Threads /\ t.obj = o /\ t.conf = c /\ t.fresh = seen[c].fresh
  BY <1>2, SessionConstantTypes DEF Threads
<1>4. u \in Threads /\ Alike(t, u) /\ u.call = "info"
  <2> HIDE DEF t
  <2> QED
    BY <1>3, InvokeIs DEF Calls
<1> HIDE DEF t, u
<1>5. o # NoConf => Reconciles(p, u)
  BY <1>1, <1>2, <1>3, <1>4 DEF Reconciles, Alike, ConfSound
<1>6. /\ thread' \in [Procs -> [Jobs -> Threads]]
      /\ \A q \in Procs : \A i \in Jobs : ThreadSound(q, i)'
  <2>1. CASE UNCHANGED thread
    BY <1>1, <2>1 DEF SessionInv, SessionTypeOK, ThreadSound, Reconciles
  <2>2. CASE o # NoConf /\ Becomes(p, "config", u)
    BY <1>1, <1>4, <1>5, <2>2, OneThread DEF CallsOf, Jobs
  <2> QED
    BY <1>1, <2>1, <2>2
<1>7. SessionTypeOK'
  BY <1>1, <1>6 DEF SessionInv, SessionTypeOK
<1> QED
  BY <1>1, <1>6, <1>7 DEF SessionInv, OneLeader, ConfSound

LEMMA SaveIs ==
    ASSUME NEW t \in Threads, NEW urls \in URLs, NEW ready \in BOOLEAN,
           NEW answer \in Answers
    PROVE  /\ Save(t, urls, ready, answer) \in Threads
           /\ Alike(t, Save(t, urls, ready, answer))
           /\ Save(t, urls, ready, answer).call = "save"
BY DEF Save, Threads, Alike, Calls

\* The reconciliation of an object goes on to its next call.
LEMMA GoesOn ==
    ASSUME SessionInv, NEW p \in Procs, NEW u \in Threads,
           thread[p]["config"].call # "none",
           Becomes(p, "config", u), Alike(thread[p]["config"], u),
           u.call \in {"set", "save"},
           UNCHANGED <<garm, proc, leader, token, conf, seen, due, owed, spent>>
    PROVE  SessionInv'
<1>1. ThreadSound(p, "config")
  BY DEF SessionInv, Jobs
<1>2. Reconciles(p, u)
  BY <1>1 DEF ThreadSound, Reconciles, Alike
<1>3. /\ thread' \in [Procs -> [Jobs -> Threads]]
      /\ \A q \in Procs : \A i \in Jobs : ThreadSound(q, i)'
  BY <1>2, OneThread DEF CallsOf, Jobs
<1>4. SessionTypeOK'
  BY <1>3 DEF SessionInv, SessionTypeOK
<1> QED
  BY <1>3, <1>4 DEF SessionInv, OneLeader, ConfSound

LEMMA UpdateControllerInfoSound ==
    ASSUME SessionInv, NEW p \in Procs, UpdateControllerInfo(p)
    PROVE  SessionInv'
<1> DEFINE t == thread[p]["config"]
           urls == IF t.answer = "conflict" THEN "none" ELSE t.urls
<1>1. t \in Threads
  BY CurrentThread DEF SessionInv, Jobs
<1>2. /\ urls \in URLs /\ t.obj.urls \in URLs /\ t.obj.ready \in BOOLEAN
  <2>1. t.obj \in Confs /\ t.urls \in URLs
    BY <1>1, ThreadType
  <2> QED
    BY <2>1 DEF Confs, URLs
<1>3. /\ t.call # "none"
      /\ UNCHANGED <<garm, proc, leader, token, conf, seen, due, owed, spent>>
      /\ \/ Becomes(p, "config", Save(t, t.obj.urls, t.obj.ready, "error"))
         \/ Becomes(p, "config", Save(t, urls, TRUE, "ok"))
         \/ Becomes(p, "config", Invoke(t, "set"))
  BY DEF UpdateControllerInfo
<1>4. \A u \in Threads : /\ Becomes(p, "config", u) /\ Alike(t, u)
                         /\ u.call \in {"set", "save"}
                         => SessionInv'
  BY <1>3, GoesOn
<1> HIDE DEF t, urls
<1>5. CASE Becomes(p, "config", Invoke(t, "set"))
  BY <1>1, <1>4, <1>5, InvokeIs DEF Calls
<1>6. CASE \/ Becomes(p, "config", Save(t, t.obj.urls, t.obj.ready, "error"))
           \/ Becomes(p, "config", Save(t, urls, TRUE, "ok"))
  BY <1>1, <1>2, <1>4, <1>6, SaveIs DEF Answers
<1> QED
  BY <1>3, <1>5, <1>6

LEMMA ControllerUpdatedSound ==
    ASSUME SessionInv, NEW p \in Procs, ControllerUpdated(p)
    PROVE  SessionInv'
<1> DEFINE t == thread[p]["config"]
<1>1. t \in Threads /\ ThreadSound(p, "config")
  BY CurrentThread DEF SessionInv, Jobs
<1>2. /\ t.call = "set"
      /\ UNCHANGED <<garm, proc, leader, token, conf, seen, due, owed, spent>>
      /\ \/ Becomes(p, "config", Save(t, t.obj.spec, TRUE, "ok"))
         \/ Becomes(p, "config", Save(t, t.obj.urls, FALSE, "error"))
  BY DEF ControllerUpdated
<1>3. t.obj.spec \in URLs
  BY <1>1, <1>2 DEF ThreadSound, Reconciles, URLs
<1>4. t.obj.urls \in URLs
  BY <1>1, ThreadType DEF Confs
<1> QED
  BY <1>1, <1>2, <1>3, <1>4, SaveIs, GoesOn DEF Answers

LEMMA UpdateStatusSound ==
    ASSUME SessionInv, NEW p \in Procs, UpdateStatus(p)
    PROVE  SessionInv'
<1> DEFINE t == thread[p]["config"]
           c == t.conf
<1>0. SessionTypeOK /\ t \in Threads /\ ThreadSound(p, "config")
  BY CurrentThread DEF SessionInv, Jobs
<1>1. c \in Configs /\ t.urls \in URLs /\ t.ready \in BOOLEAN
  BY <1>0, ThreadType
<1>2. /\ UNCHANGED <<garm, proc, leader, token, owed>>
      /\ Becomes(p, "config", Idle) /\ t.call = "save"
      /\ due' \in {due, due \cup {c}}
  BY DEF UpdateStatus
<1>3. \/ UNCHANGED <<conf, seen>>
      \/ /\ t.fresh
         /\ conf' = [conf EXCEPT ![c].urls = t.urls, ![c].ready = t.ready]
         /\ seen' = [seen EXCEPT ![c].fresh = FALSE]
  BY DEF UpdateStatus
<1>4. spent' \in [Disturbances -> Nat]
  BY <1>0, SpentType DEF UpdateStatus, Disturbances
<1>5. /\ conf' \in [Configs -> Confs]
      /\ seen' \in [Configs -> [obj : Confs, fresh : BOOLEAN]]
      /\ \A b \in Configs : ConfSound(b)'
      /\ \A b \in Configs : conf[b] # NoConf => conf'[b] # NoConf
  <2>1. CASE UNCHANGED <<conf, seen>>
    BY <2>1 DEF SessionInv, SessionTypeOK, ConfSound
  <2>2. CASE /\ t.fresh
             /\ conf' = [conf EXCEPT ![c].urls = t.urls, ![c].ready = t.ready]
             /\ seen' = [seen EXCEPT ![c].fresh = FALSE]
    <3> DEFINE new == [conf[c] EXCEPT !.urls = t.urls, !.ready = t.ready]
               cp == [seen[c] EXCEPT !.fresh = FALSE]
    <3>1. conf[c] \in Confs /\ seen[c] \in [obj : Confs, fresh : BOOLEAN]
      BY <1>0, <1>1 DEF SessionTypeOK
    <3>2. new \in Confs /\ new.spec = conf[c].spec
      BY <1>1, <3>1 DEF Confs
    <3>3. /\ cp \in [obj : Confs, fresh : BOOLEAN]
          /\ cp.obj = seen[c].obj /\ ~cp.fresh
      BY <3>1
    <3>4. conf' = [conf EXCEPT ![c] = new] /\ seen' = [seen EXCEPT ![c] = cp]
      <4> HIDE DEF c, t
      <4> QED
        BY <1>0, <1>1, <2>2, <3>1 DEF SessionTypeOK, Confs
    <3>5. conf[c] # NoConf /\ conf[c].spec \in Specs
      BY <1>0, <1>1, <1>2, <2>2
         DEF SessionInv, ThreadSound, Reconciles, ConfSound
    <3>6. new # NoConf /\ new.spec \in Specs
      BY <3>2, <3>5, SessionConstants DEF NoConf
    <3> HIDE DEF new, cp
    <3>7. /\ conf'[c] = new /\ seen'[c] = cp
          /\ \A b \in Configs \ {c} : conf'[b] = conf[b] /\ seen'[b] = seen[b]
      <4> HIDE DEF c, t
      <4> QED
        BY <1>0, <1>1, <3>4 DEF SessionTypeOK
    <3>8. ASSUME NEW b \in Configs, b = c PROVE ConfSound(b)'
      <4>1. ConfSound(b)
        BY DEF SessionInv
      <4> HIDE DEF c
      <4> QED
        BY <3>3, <3>6, <3>7, <3>8, <4>1 DEF ConfSound
    <3>9. ASSUME NEW b \in Configs, b # c PROVE ConfSound(b)'
      <4> HIDE DEF c
      <4> QED
        BY <3>7, <3>9 DEF SessionInv, ConfSound
    <3>10. /\ conf' \in [Configs -> Confs]
           /\ seen' \in [Configs -> [obj : Confs, fresh : BOOLEAN]]
      BY <1>0, <3>2, <3>3, <3>4 DEF SessionTypeOK
    <3>11. \A b \in Configs : conf[b] # NoConf => conf'[b] # NoConf
      BY <3>6, <3>7
    <3> QED
      BY <3>8, <3>9, <3>10, <3>11
  <2> QED
    BY <1>3, <2>1, <2>2
<1>6. /\ thread' \in [Procs -> [Jobs -> Threads]]
      /\ thread'[p]["config"] = Idle
      /\ \A q \in Procs, i \in Jobs :
            q # p \/ i # "config" => thread'[q][i] = thread[q][i]
  BY <1>0, <1>2, SessionConstantTypes, BecomesIs DEF Jobs
<1>7. SessionTypeOK'
  BY <1>0, <1>1, <1>2, <1>4, <1>5, <1>6 DEF SessionTypeOK
<1>8. ASSUME NEW q \in Procs, NEW i \in Jobs PROVE ThreadSound(q, i)'
  <2>1. CASE q = p /\ i = "config"
    BY <1>6, <2>1, SessionConstantTypes DEF ThreadSound, CallsOf, Jobs
  <2>2. CASE q # p \/ i # "config"
    <3>1. thread'[q][i] = thread[q][i] /\ thread[q][i].conf \in Configs
      BY <1>0, <1>6, <2>2, CurrentThread, ThreadType
    <3> QED
      BY <1>2, <1>5, <3>1 DEF SessionInv, ThreadSound, Reconciles
  <2> QED
    BY <2>1, <2>2
<1> QED
  BY <1>2, <1>5, <1>7, <1>8 DEF SessionInv, OneLeader

LEMMA WorkSound ==
    ASSUME SessionInv, NEW p \in Procs, Work(p) \/ Worked(p)
    PROVE  SessionInv'
<1>1. /\ UNCHANGED <<garm, proc, leader, token, conf, seen, due, spent>>
      /\ owed' \in BOOLEAN
  BY DEF Work, Worked, SessionInv, SessionTypeOK
<1>2. \E u \in Threads : Becomes(p, "work", u) /\ u.call \in {"none", "work"}
  <2>1. Invoke(Idle, "work") \in Threads /\ Invoke(Idle, "work").call = "work"
    BY SessionConstantTypes, InvokeIs DEF Calls
  <2> QED
    BY <2>1, SessionConstantTypes DEF Work, Worked
<1>3. /\ thread' \in [Procs -> [Jobs -> Threads]]
      /\ \A q \in Procs : \A i \in Jobs : ThreadSound(q, i)'
  BY <1>1, <1>2, OneThread DEF CallsOf, Jobs
<1>4. SessionTypeOK'
  BY <1>1, <1>3 DEF SessionInv, SessionTypeOK
<1> QED
  BY <1>1, <1>3, <1>4 DEF SessionInv, OneLeader, ConfSound

-----------------------------------------------------------------------------
(***************************************************************************)
(* Users, caches and garm                                                  *)
(***************************************************************************)

\* Nothing happens to the threads.
LEMMA ThreadsRest ==
    ASSUME SessionInv, UNCHANGED <<thread, leader, conf>>,
           garm'.urls \in {garm.urls, "none"}
    PROVE  \A p \in Procs : \A j \in Jobs : ThreadSound(p, j)'
<1>1. garm.urls \notin Specs => garm'.urls \notin Specs
  BY SessionConstants
<1> QED
  BY <1>1 DEF SessionInv, ThreadSound, Reconciles

LEMMA QueueSound ==
    ASSUME SessionInv, NEW c \in Configs, CacheSync(c) \/ Resync(c)
    PROVE  SessionInv'
<1>1. /\ UNCHANGED <<garm, proc, leader, token, thread, conf, owed, spent>>
      /\ due' = due \cup {c}
      /\ \/ UNCHANGED seen
         \/ seen' = [seen EXCEPT ![c] = [obj |-> conf[c], fresh |-> TRUE]]
  BY DEF CacheSync, Resync
<1>2. [obj |-> conf[c], fresh |-> TRUE] \in [obj : Confs, fresh : BOOLEAN]
  BY DEF SessionInv, SessionTypeOK
<1>3. SessionTypeOK'
  <2>1. seen' \in [Configs -> [obj : Confs, fresh : BOOLEAN]]
    BY <1>1, <1>2 DEF SessionInv, SessionTypeOK
  <2> QED
    BY <1>1, <2>1 DEF SessionInv, SessionTypeOK
<1>4. ASSUME NEW b \in Configs PROVE ConfSound(b)'
  <2>1. ConfSound(b)
    BY DEF SessionInv
  <2>2. seen'[b] = seen[b] \/ seen'[b] = [obj |-> conf[b], fresh |-> TRUE]
    BY <1>1 DEF SessionInv, SessionTypeOK
  <2> QED
    BY <1>1, <2>1, <2>2 DEF ConfSound
<1>5. \A p \in Procs : \A j \in Jobs : ThreadSound(p, j)'
  BY <1>1, ThreadsRest
<1> QED
  BY <1>1, <1>3, <1>4, <1>5 DEF SessionInv, OneLeader

LEMMA EditSound ==
    ASSUME SessionInv, NEW c \in Configs, Edit(c)
    PROVE  SessionInv'
<1> DEFINE Touched(p, j) == /\ thread[p][j] # Idle /\ j = "config"
                            /\ thread[p][j].conf = c
           Now(p, j) == IF Touched(p, j)
                        THEN [thread[p][j] EXCEPT !.fresh = FALSE]
                        ELSE thread[p][j]
           cp == [seen[c] EXCEPT !.fresh = FALSE]
<1>0. SessionTypeOK /\ ConfSound(c)
  BY DEF SessionInv
<1>1. /\ UNCHANGED <<garm, proc, leader, token, due, owed>>
      /\ seen' = [seen EXCEPT ![c] = cp]
      /\ thread' = [p \in Procs |-> [j \in Jobs |-> Now(p, j)]]
      /\ spent' \in [Disturbances -> Nat]
  BY <1>0, SpentType DEF Edit, Disturbances
<1>2. PICK new : /\ conf' = [conf EXCEPT ![c] = new]
                 /\ \/ new = NoConf
                    \/ \E s \in Specs : new = [conf[c] EXCEPT !.spec = s]
                    \/ /\ conf[c] # NoConf
                       /\ new = [conf[c] EXCEPT !.paused = ~conf[c].paused]
  BY DEF Edit
<1>3. new \in Confs /\ (new # NoConf => new.spec \in Specs)
  <2>1. conf[c] \in Confs
    BY <1>0 DEF SessionTypeOK
  <2>2. ASSUME NEW s \in Specs, new = [conf[c] EXCEPT !.spec = s]
        PROVE  new \in Confs /\ new.spec \in Specs
    BY <2>1, <2>2 DEF Confs
  <2>3. ASSUME conf[c] # NoConf,
               new = [conf[c] EXCEPT !.paused = ~conf[c].paused]
        PROVE  new \in Confs /\ new.spec \in Specs
    BY <1>0, <2>1, <2>3 DEF Confs, ConfSound
  <2> QED
    BY <1>2, <2>2, <2>3, SessionConstantTypes
<1>4. /\ cp \in [obj : Confs, fresh : BOOLEAN]
      /\ cp.obj = seen[c].obj /\ ~cp.fresh
  <2>1. seen[c] \in [obj : Confs, fresh : BOOLEAN]
    BY <1>0 DEF SessionTypeOK
  <2> QED
    BY <2>1
<1> HIDE DEF cp
<1>5. /\ conf' \in [Configs -> Confs] /\ conf'[c] = new
      /\ seen' \in [Configs -> [obj : Confs, fresh : BOOLEAN]]
      /\ seen'[c] = cp
      /\ \A b \in Configs \ {c} : conf'[b] = conf[b] /\ seen'[b] = seen[b]
  BY <1>0, <1>1, <1>2, <1>3, <1>4 DEF SessionTypeOK
<1>6. ASSUME NEW b \in Configs PROVE ConfSound(b)'
  <2>1. CASE b = c
    BY <1>0, <1>3, <1>4, <1>5, <2>1 DEF ConfSound
  <2>2. CASE b # c
    BY <1>5, <2>2 DEF SessionInv, ConfSound
  <2> QED
    BY <2>1, <2>2
<1>7. ASSUME NEW p \in Procs, NEW j \in Jobs
      PROVE  /\ Now(p, j) \in Threads
             /\ Now(p, j).call = thread[p][j].call
             /\ Now(p, j).obj = thread[p][j].obj
             /\ Now(p, j).conf = thread[p][j].conf
             /\ Now(p, j).fresh => thread[p][j].fresh /\ ~Touched(p, j)
  <2>1. thread[p][j] \in Threads
    BY <1>0, CurrentThread
  <2> QED
    BY <2>1 DEF Threads
<1>8. ASSUME NEW p \in Procs, NEW j \in Jobs PROVE ThreadSound(p, j)'
  <2>1. thread'[p][j] = Now(p, j)
    BY <1>1
  <2>2. ThreadSound(p, j) /\ thread[p][j].conf \in Configs
    BY <1>0, CurrentThread, ThreadType DEF SessionInv
  <2>3. ASSUME j = "config", thread[p][j].call # "none", Now(p, j).fresh
        PROVE  conf'[thread[p][j].conf] # NoConf
    <3>1. thread[p][j] # Idle
      BY <2>3, SessionConstantTypes
    <3>2. thread[p][j].conf # c /\ thread[p][j].fresh
      BY <1>7, <2>3, <3>1
    <3> QED
      BY <1>5, <2>2, <2>3, <3>2 DEF ThreadSound, Reconciles
  <2> HIDE DEF Now
  <2>4. j = "config" /\ thread[p][j].call # "none" =>
            Reconciles(p, thread[p][j])'
    BY <1>1, <1>7, <2>1, <2>2, <2>3 DEF ThreadSound, Reconciles
  <2> QED
    BY <1>1, <1>7, <2>1, <2>2, <2>4 DEF ThreadSound
<1>9. SessionTypeOK'
  <2> HIDE DEF Now
  <2> QED
    BY <1>0, <1>1, <1>5, <1>7 DEF SessionTypeOK
<1> QED
  BY <1>1, <1>6, <1>8, <1>9 DEF SessionInv, OneLeader

LEMMA EnvironmentSound ==
    ASSUME SessionInv, Environment
    PROVE  SessionInv'
<1>1. CASE Owe \/ Upgrade
  <2>1. /\ UNCHANGED <<proc, leader, token, thread, conf, seen, due, spent>>
        /\ owed' \in BOOLEAN /\ garm' \in GarmType /\ garm'.urls = garm.urls
    BY <1>1 DEF Owe, Upgrade, SessionInv, SessionTypeOK, GarmType
  <2>2. \A p \in Procs : \A j \in Jobs : ThreadSound(p, j)'
    BY <2>1, ThreadsRest
  <2>3. SessionTypeOK'
    BY <2>1 DEF SessionInv, SessionTypeOK, GarmType
  <2> QED
    BY <2>1, <2>2, <2>3 DEF SessionInv, OneLeader, ConfSound
<1>2. CASE Expire \/ Reset
  <2> DEFINE Now(p, j) == [thread[p][j] EXCEPT !.got = FALSE]
  <2>1. /\ UNCHANGED <<proc, leader, conf, seen, due, owed>>
        /\ token' = [p \in Procs |-> FALSE]
        /\ thread' = [p \in Procs |-> [j \in Jobs |-> Now(p, j)]]
        /\ spent' \in [Disturbances -> Nat]
    BY <1>2, SpentType
       DEF Expire, Reset, Invalidate, Disturbances, SessionInv
  <2>2. garm' \in GarmType /\ garm'.urls \in {garm.urls, "none"}
    BY <1>2 DEF Expire, Reset, SessionInv, SessionTypeOK, GarmType, URLs
  <2>3. ASSUME NEW p \in Procs, NEW j \in Jobs
        PROVE  /\ Now(p, j) \in Threads
               /\ Now(p, j).call = thread[p][j].call
               /\ Alike(thread[p][j], Now(p, j))
    <3>1. thread[p][j] \in Threads
      BY CurrentThread DEF SessionInv
    <3> QED
      BY <3>1 DEF Threads, Alike
  <2>4. ASSUME NEW p \in Procs, NEW j \in Jobs PROVE ThreadSound(p, j)'
    <3>1. thread'[p][j] = Now(p, j) /\ ThreadSound(p, j)
      BY <2>1 DEF SessionInv
    <3>2. garm.urls \notin Specs => garm'.urls \notin Specs
      BY <2>2, SessionConstants
    <3> HIDE DEF Now
    <3> QED
      BY <2>1, <2>3, <3>1, <3>2 DEF ThreadSound, Reconciles, Alike
  <2>5. SessionTypeOK'
    <3> HIDE DEF Now
    <3> QED
      BY <2>1, <2>2, <2>3 DEF SessionInv, SessionTypeOK, GarmType
  <2> QED
    BY <2>1, <2>4, <2>5 DEF SessionInv, OneLeader, ConfSound
<1>3. ASSUME NEW p \in Procs, Crash(p) PROVE SessionInv'
  BY <1>3, SpentType, StopSound DEF Crash, SessionInv, Disturbances
<1> QED
  BY <1>1, <1>2, <1>3, QueueSound, EditSound DEF Environment

LEMMA InitSessionInv == Init => SessionInv
<1> SUFFICES ASSUME Init PROVE SessionInv
  OBVIOUS
<1>1. Cardinality(leader) <= 1 /\ OneLeader
  BY FS_EmptySet DEF Init, OneLeader
<1>2. conf \in [Configs -> Confs]
      /\ \A c \in Configs : conf[c] # NoConf => conf[c].spec \in Specs
  <2>1. \A s \in Specs : /\ [NoConf EXCEPT !.spec = s] \in Confs
                         /\ [NoConf EXCEPT !.spec = s].spec = s
    BY SessionConstantTypes DEF Confs
  <2> DEFINE First == {NoConf} \cup {[NoConf EXCEPT !.spec = s] : s \in Specs}
  <2>2. ASSUME NEW o \in First PROVE o \in Confs /\ (o # NoConf => o.spec \in Specs)
    BY <2>1, SessionConstantTypes
  <2>3. conf \in [Configs -> First]
    BY DEF Init
  <2> HIDE DEF First
  <2> QED
    BY <2>2, <2>3
<1>3. [obj |-> NoConf, fresh |-> FALSE] \in [obj : Confs, fresh : BOOLEAN]
  BY SessionConstantTypes
<1>4. SessionTypeOK
  BY <1>1, <1>2, <1>3, SessionConstantTypes DEF Init, SessionTypeOK, URLs
<1>5. \A c \in Configs : ConfSound(c)
  BY <1>2 DEF Init, ConfSound
<1>6. ASSUME NEW p \in Procs, NEW j \in Jobs PROVE ThreadSound(p, j)
  <2>1. thread[p][j] = Idle
    BY DEF Init, Resting
  <2> QED
    BY <2>1, SessionConstantTypes DEF ThreadSound, CallsOf, Jobs
<1> QED
  BY <1>1, <1>4, <1>5, <1>6 DEF SessionInv

LEMMA SessionInvStep == SessionInv /\ [Next]_vars => SessionInv'
<1> SUFFICES ASSUME SessionInv, [Next]_vars PROVE SessionInv'
  OBVIOUS
<1>1. ASSUME NEW p \in Procs, Start(p) \/ Configure(p) \/ Serve(p)
      PROVE  SessionInv'
  BY <1>1, BootSound, CheckVersionSound, LeadSound, ReconcileSound,
     UpdateControllerInfoSound, ControllerUpdatedSound, UpdateStatusSound,
     WorkSound, ConnectSound DEF Start, Configure, Serve, Jobs
<1>2. CASE UNCHANGED vars
  BY <1>2 DEF vars, SessionInv, SessionTypeOK, OneLeader, ConfSound,
              ThreadSound, Reconciles
<1> QED
  BY <1>1, <1>2, EnvironmentSound DEF Next

-----------------------------------------------------------------------------
(***************************************************************************)
(* Theorems                                                                *)
(***************************************************************************)

\* The inductive invariant holds in every reachable state.
THEOREM SessionSound == Spec => []SessionInv
BY InitSessionInv, SessionInvStep, PTL DEF Spec

\* Every variable keeps its type, and there is never more than one leader.
THEOREM SessionTypeCorrect == Spec => []SessionTypeOK
<1>1. SessionInv => SessionTypeOK
  BY DEF SessionInv
<1> QED
  BY <1>1, SessionSound, PTL

\* What becomes of the tokens and of garm's URLs in a step.
LEMMA StepOfSession ==
    ASSUME SessionInv, [Next]_vars
    PROVE  \/ UNCHANGED <<garm, token>>
           \/ \E p \in Procs, j \in Jobs : Connect(p, j)
           \/ \E p \in Procs : Stop(p) /\ UNCHANGED garm
           \/ Expire \/ Reset \/ Upgrade
<1>1. ASSUME NEW p \in Procs, Start(p) \/ Configure(p) \/ Serve(p)
      PROVE  \/ UNCHANGED <<garm, token>>
             \/ \E j \in Jobs : Connect(p, j)
             \/ Stop(p) /\ UNCHANGED garm
  BY <1>1 DEF Start, Boot, CheckVersion, Lead, Configure, Reconcile,
              UpdateControllerInfo, ControllerUpdated, UpdateStatus, Serve,
              Work, Worked, Jobs
<1>2. CASE Environment
  BY <1>2 DEF Environment, Owe, Crash, CacheSync, Resync, Edit
<1> QED
  BY <1>1, <1>2 DEF Next, vars

\* Only garm, or a goroutine that stores a token garm has since invalidated,
\* takes a usable token from a running process (client.go, Login and
\* EnsureAuth).
THEOREM TokensStayUsable == Spec => UsableTokenKept
<1>1. SessionInv /\ [Next]_vars
      => [\A p \in Procs : TokenLost(p) =>
             \/ spent'["expire"] + spent'["reset"]
                   > spent["expire"] + spent["reset"]
             \/ \E j \in Jobs : thread[p][j].at = "store"
                                /\ ~thread[p][j].got]_vars
  <2> SUFFICES ASSUME SessionInv, [Next]_vars, NEW p \in Procs, TokenLost(p)
               PROVE  \/ spent'["expire"] + spent'["reset"]
                            > spent["expire"] + spent["reset"]
                      \/ \E j \in Jobs : thread[p][j].at = "store"
                                         /\ ~thread[p][j].got
    OBVIOUS
  <2>1. /\ SessionTypeOK
        /\ token[p] /\ ~token'[p] /\ proc'[p] = "running"
        /\ spent["expire"] \in Nat /\ spent["reset"] \in Nat
    BY DEF SessionInv, SessionTypeOK, TokenLost, Disturbances
  <2>2. ASSUME NEW q \in Procs, NEW j \in Jobs, Connect(q, j)
        PROVE  thread[p][j].at = "store" /\ ~thread[p][j].got
    <3>1. StoreToken(q, j)
      BY <2>1, <2>2 DEF Connect, FirstRun, Login, Request
    <3>2. /\ token' = [token EXCEPT ![q] = thread[q][j].got]
          /\ thread[q][j].at = "store"
      BY <3>1 DEF StoreToken
    <3>3. q = p /\ ~thread[q][j].got
      BY <2>1, <3>2 DEF SessionTypeOK
    <3> QED
      BY <3>2, <3>3
  <2>3. ASSUME NEW q \in Procs, Stop(q) PROVE FALSE
    BY <2>1, <2>3 DEF Stop, SessionTypeOK
  <2>4. ASSUME Expire \/ Reset
        PROVE  spent'["expire"] + spent'["reset"]
                  > spent["expire"] + spent["reset"]
    <3>1. CASE Expire
      <4>1. /\ spent'["expire"] = spent["expire"] + 1
            /\ spent'["reset"] = spent["reset"]
        BY <2>1, <3>1, SpendIs DEF Expire, SessionTypeOK, Disturbances
      <4> QED
        BY <2>1, <4>1
    <3>2. CASE Reset
      <4>1. /\ spent'["reset"] = spent["reset"] + 1
            /\ spent'["expire"] = spent["expire"]
        BY <2>1, <3>2, SpendIs DEF Reset, SessionTypeOK, Disturbances
      <4> QED
        BY <2>1, <4>1
    <3> QED
      BY <2>4, <3>1, <3>2
  <2> QED
    BY <2>1, <2>2, <2>3, <2>4, StepOfSession DEF Upgrade
<1> QED
  BY <1>1, SessionSound, PTL DEF Spec, UsableTokenKept

\* Only a replica that starts puts initial URLs in the place of configured
\* ones (controller.go, GetControllerInfo).
THEOREM LeaderKeepsURLs == Spec => ConfiguredURLsKept
<1>1. SessionInv /\ [Next]_vars
      => [garm.urls \in Specs /\ garm'.urls = "initial" =>
             \E p \in Procs : thread[p]["start"].call = "initial"]_vars
  <2> SUFFICES ASSUME SessionInv, [Next]_vars, garm.urls \in Specs,
                      garm'.urls = "initial"
               PROVE  \E p \in Procs : thread[p]["start"].call = "initial"
    OBVIOUS
  <2>1. garm'.urls # garm.urls
    BY SessionConstants
  <2>2. ASSUME NEW p \in Procs, NEW j \in Jobs, Connect(p, j)
        PROVE  thread[p]["start"].call = "initial"
    <3>1. ThreadSound(p, j) /\ URLsFrom(thread[p][j])
      BY <2>2, ConnectSteps DEF SessionInv, ConnectStep
    <3>2. thread[p][j].call = "initial"
      <4> SUFFICES ASSUME thread[p][j].call = "set",
                          thread[p][j].obj.spec = "initial"
                   PROVE  FALSE
        BY <2>1, <3>1 DEF URLsFrom
      <4>1. thread[p][j].obj.spec \in Specs
        BY <3>1 DEF ThreadSound, CallsOf, Jobs, Reconciles
      <4> QED
        BY <4>1, SessionConstants
    <3>3. j = "start"
      BY <3>1, <3>2 DEF ThreadSound, CallsOf, Jobs
    <3> QED
      BY <3>2, <3>3
  <2>3. ~Expire /\ ~Reset /\ ~Upgrade
    BY <2>1 DEF Expire, Reset, Upgrade, SessionInv, SessionTypeOK
  <2> QED
    BY <2>1, <2>2, <2>3, StepOfSession
<1> QED
  BY <1>1, SessionSound, PTL DEF Spec, ConfiguredURLsKept

=============================================================================
