----------------------------- MODULE Admission -----------------------------
(***************************************************************************)
(* What the API server lets through: the validating webhooks of Pools,     *)
(* Images and Repositories, and the conversion between the two versions of *)
(* the API.                                                                *)
(*                                                                         *)
(* Objects are stored as v1beta1; clients write v1beta1 or the deprecated  *)
(* v1alpha1.  Every write is converted to v1beta1 and then put before the  *)
(* webhook of its kind, if that has one for the operation: also those of   *)
(* the operator's own controllers.  The webhooks run in the operator; the  *)
(* Images' webhook lists the Pools in its cache.                           *)
(***************************************************************************)
EXTENDS FiniteSets, Integers

CONSTANTS
    Pools,      \* the Pool objects; they may be created again,
    Home,       \* the namespace of each,
    Images,     \* the Image objects,
    ImageHome,  \* their namespaces,
    ImageName,  \* and their names, unique within a namespace only
    Scopes,     \* the kinds of scopes, one object of each
    Watches,    \* the sets of namespaces an operator may be set up to watch
    Budgets     \* how often each client may act: a behaviour stays within
                \* one of these budgets

(***************************************************************************)
(*   create   a user creates or deletes a Pool                             *)
(*   edit     a user changes a Pool                                        *)
(*   scope    a user changes a scope, as v1beta1                           *)
(*   image    a user deletes an Image                                      *)
(*   rewrite  a client that knows only v1alpha1 changes a scope, or reads  *)
(*            a Pool or a scope and writes it back                         *)
(*   restart  the operator is restarted                                    *)
(***************************************************************************)
Clients == {"create", "edit", "scope", "image", "rewrite", "restart"}

ASSUME AdmissionConstants ==
    /\ IsFiniteSet(Pools) /\ IsFiniteSet(Images) /\ Images # {}
    /\ \A i, j \in Images : ImageHome[i] = ImageHome[j]
                            /\ ImageName[i] = ImageName[j] => i = j
    /\ Scopes \subseteq {"Repository", "Organization", "Enterprise"}
    /\ Budgets \subseteq [Clients -> Nat]

VARIABLES
    pool,       \* the Pools in the API server
    seen,       \* the copies of them in the cache, and whether they are fresh
    image,      \* the Images that exist
    scope,      \* the specs of the scopes
    wish,       \* the scopes' specs as users last wrote them (history), and
    downgraded, \* those a v1alpha1 client has written since (history)
    watched,    \* the namespaces this operator watches
    serving,    \* the cache of the operator has been filled
    spent       \* what the clients did so far

scopes == <<scope, wish, downgraded>>

vars == <<pool, seen, image, scopes, watched, serving, spent>>

-----------------------------------------------------------------------------
(***************************************************************************)
(* Data                                                                    *)
(***************************************************************************)

Names == {ImageName[i] : i \in Images}

\* extraSpecs is JSON or not; it may be missing as well.  What the reference
\* to the GitHub scope and the provider are called makes no difference.
PoolSpecs == [extra : {"json", "broken", "missing"}, provider : {"a", "b"},
              scopeName : {"a", "b"}, scopeKind : {"a", "b"}, image : Names]

FirstSpecs == {s \in PoolSpecs : s.provider = "a" /\ s.scopeName = "a"
                                 /\ s.scopeKind = "a"}

NoSpec == CHOOSE s \in FirstSpecs : s.extra = "missing"

PoolObjects == [present : BOOLEAN, fin : BOOLEAN, deleting : BOOLEAN,
                spec : PoolSpecs]

NoPool == [present |-> FALSE, fin |-> FALSE, deleting |-> FALSE,
           spec |-> NoSpec]

\* A scope's spec in the two versions.  Only Repositories have an owner.
CredentialKinds == {"", "GitHubCredential"}

BetaSpecs == [owner : {"", "a", "b"}, cred : {"", "a", "b"},
              credKind : CredentialKinds, balancer : {"", "pack"}]

AlphaSpecs == [owner : {"", "a", "b"}, credName : {"", "a", "b"}]

HasOwner(k, s) == s.owner # "" <=> k = "Repository"

-----------------------------------------------------------------------------
(***************************************************************************)
(* Conversion                                                              *)
(***************************************************************************)

\* Mutant: the reference to the credential is left to the generated function.
EnterpriseSpecWithoutHook(a) ==
    [owner |-> "", cred |-> "", credKind |-> "", balancer |-> ""]

\* Mutant: the name is written to the reference's kind as well.
EnterpriseSpecKindFromName(a) ==
    [owner |-> "", cred |-> a.credName, credKind |-> a.credName,
     balancer |-> ""]

\* The credential's name becomes a reference.
EnterpriseSpecToBeta(a) ==
    [owner |-> "", cred |-> a.credName, credKind |-> "GitHubCredential",
     balancer |-> ""]

OrganizationSpecToBeta(a) == EnterpriseSpecToBeta(a)

RepositorySpecToBeta(a) == [EnterpriseSpecToBeta(a) EXCEPT !.owner = a.owner]

\* Of the reference only the name is kept; there is no pool balancer.
EnterpriseSpecToAlpha(b) == [owner |-> "", credName |-> b.cred]

OrganizationSpecToAlpha(b) == EnterpriseSpecToAlpha(b)

RepositorySpecToAlpha(b) == [owner |-> b.owner, credName |-> b.cred]

ScopeToBeta(k, a) ==
    CASE k = "Repository"   -> RepositorySpecToBeta(a)
      [] k = "Organization" -> OrganizationSpecToBeta(a)
      [] k = "Enterprise"   -> EnterpriseSpecToBeta(a)

ScopeToAlpha(k, b) ==
    CASE k = "Repository"   -> RepositorySpecToAlpha(b)
      [] k = "Organization" -> OrganizationSpecToAlpha(b)
      [] k = "Enterprise"   -> EnterpriseSpecToAlpha(b)

\* Pools have the same fields in both versions.
PoolSpecToBeta(a) ==
    [extra |-> a.extra, provider |-> a.provider, scopeName |-> a.scopeName,
     scopeKind |-> a.scopeKind, image |-> a.image]

PoolSpecToAlpha(b) ==
    [extra |-> b.extra, provider |-> b.provider, scopeName |-> b.scopeName,
     scopeKind |-> b.scopeKind, image |-> b.image]

-----------------------------------------------------------------------------
(***************************************************************************)
(* Validation                                                              *)
(***************************************************************************)

ValidateGitHubScope(p, o) == p.scopeName = o.scopeName
                             /\ p.scopeKind = o.scopeKind

ValidateProviderName(p, o) == p.provider = o.provider

\* json.Unmarshal fails on an empty string as well.
ValidateExtraSpec(p) == p.extra = "json"

ValidateCreate(p) == ValidateExtraSpec(p)

\* The method calls its first parameter obj and the second one oldObj, but
\* is called with the old object first.
ValidateUpdate(old, new) ==
    LET obj    == old
        oldObj == new
    IN
    /\ ValidateExtraSpec(obj)
    /\ ValidateProviderName(obj, oldObj)
    /\ ValidateGitHubScope(obj, oldObj)

\* The cached Pools of every namespace (the cache holds the watched ones),
\* those in deletion excepted.
AttachedPools(i) ==
    {p \in Pools : /\ seen[p].obj.present /\ ~seen[p].obj.deleting
                   /\ seen[p].obj.spec.image = ImageName[i]}

\* Mutant: the cache may still be empty.
ValidateDeleteEarly(i) == AttachedPools(i) = {}

ValidateDelete(i) == serving /\ AttachedPools(i) = {}

ValidateRepoOwner(k, old, new) == k = "Repository" => old.owner = new.owner

-----------------------------------------------------------------------------
(***************************************************************************)
(* Pools                                                                   *)
(***************************************************************************)

Spend(c) == /\ spent' = [spent EXCEPT ![c] = @ + 1]
            /\ \E b \in Budgets : \A e \in Clients : spent'[e] <= b[e]

Stored(p, new) == /\ pool' = [pool EXCEPT ![p] = new]
                  /\ seen' = [seen EXCEPT ![p].fresh = @ /\ new = pool[p]]

CreatePool(p) ==
    /\ ~pool[p].present
    /\ Spend("create")
    /\ \E s \in FirstSpecs :
          /\ ValidateCreate(s)
          /\ Stored(p, [NoPool EXCEPT !.present = TRUE, !.spec = s])
    /\ UNCHANGED <<image, scopes, watched, serving>>

UpdatePool(p) ==
    /\ pool[p].present
    /\ Spend("edit")
    /\ \E s \in PoolSpecs :
          /\ ValidateUpdate(pool[p].spec, s)
          /\ Stored(p, [pool[p] EXCEPT !.spec = s])
    /\ UNCHANGED <<image, scopes, watched, serving>>

\* A v1alpha1 client reads the Pool and writes it back.
RewritePool(p) ==
    LET s == PoolSpecToBeta(PoolSpecToAlpha(pool[p].spec)) IN
    /\ pool[p].present
    /\ Spend("rewrite")
    /\ ValidateUpdate(pool[p].spec, s)
    /\ Stored(p, [pool[p] EXCEPT !.spec = s])
    /\ UNCHANGED <<image, scopes, watched, serving>>

\* No webhook is asked: ValidateDelete of Pools accepts all.
DeletePool(p) ==
    /\ pool[p].present /\ ~pool[p].deleting
    /\ Spend("create")
    /\ Stored(p, IF pool[p].fin THEN [pool[p] EXCEPT !.deleting = TRUE]
                 ELSE NoPool)
    /\ UNCHANGED <<image, scopes, watched, serving>>

\* The controllers see what their cache holds.
Reconciled(p) == serving /\ Home[p] \in watched

\* The Pool controller's own updates are validated like any other.
EnsureFinalizer(p) ==
    /\ Reconciled(p)
    /\ pool[p].present /\ ~pool[p].fin /\ ~pool[p].deleting
    /\ ValidateUpdate(pool[p].spec, pool[p].spec)
    /\ Stored(p, [pool[p] EXCEPT !.fin = TRUE])
    /\ UNCHANGED <<image, scopes, watched, serving, spent>>

\* Mutant: the Image is read first, as when the pool is updated.
RemoveFinalizerWithImage(p) ==
    /\ Reconciled(p)
    /\ pool[p].present /\ pool[p].deleting
    /\ \E i \in image : /\ ImageHome[i] = Home[p]
                        /\ ImageName[i] = pool[p].spec.image
    /\ ValidateUpdate(pool[p].spec, pool[p].spec)
    /\ Stored(p, NoPool)
    /\ UNCHANGED <<image, scopes, watched, serving, spent>>

RemoveFinalizer(p) ==
    /\ Reconciled(p)
    /\ pool[p].present /\ pool[p].deleting
    /\ ValidateUpdate(pool[p].spec, pool[p].spec)
    /\ Stored(p, NoPool)
    /\ UNCHANGED <<image, scopes, watched, serving, spent>>

-----------------------------------------------------------------------------
(***************************************************************************)
(* Images, scopes and the operator                                         *)
(***************************************************************************)

DeleteImage(i) ==
    /\ i \in image
    /\ Spend("image")
    /\ ValidateDelete(i)
    /\ image' = image \ {i}
    /\ UNCHANGED <<pool, seen, scopes, watched, serving>>

ScopeWrite(k, s) == /\ ValidateRepoOwner(k, scope[k], s)
                    /\ scope' = [scope EXCEPT ![k] = s]
                    /\ UNCHANGED <<pool, seen, image, watched, serving>>

\* A user writes a scope, as v1beta1.
UpdateScope(k) ==
    /\ Spend("scope")
    /\ \E s \in BetaSpecs :
          /\ s.cred # "" /\ HasOwner(k, s)
          /\ ScopeWrite(k, s)
          /\ wish' = [wish EXCEPT ![k] = s]
    /\ downgraded' = downgraded \ {k}

\* A user writes a scope, as v1alpha1.
UpdateScopeAlpha(k) ==
    /\ Spend("rewrite")
    /\ \E a \in AlphaSpecs :
          /\ a.credName # "" /\ HasOwner(k, a)
          /\ ScopeWrite(k, ScopeToBeta(k, a))
          /\ wish' = [wish EXCEPT ![k].owner = a.owner, ![k].cred = a.credName]
    /\ downgraded' = downgraded \cup {k}

\* A v1alpha1 client reads the scope and writes it back.
RewriteScope(k) ==
    /\ Spend("rewrite")
    /\ ScopeWrite(k, ScopeToBeta(k, ScopeToAlpha(k, scope[k])))
    /\ wish' = wish
    /\ downgraded' = downgraded \cup {k}

CacheSync(p) ==
    /\ Reconciled(p) /\ ~seen[p].fresh
    /\ seen' = [seen EXCEPT ![p] = [obj |-> pool[p], fresh |-> TRUE]]
    /\ UNCHANGED <<pool, image, scopes, watched, serving, spent>>

\* The webhooks are served before the cache is there to be read.
Restart ==
    /\ Spend("restart")
    /\ serving' = FALSE
    /\ seen' = [p \in Pools |-> [obj |-> NoPool, fresh |-> FALSE]]
    /\ UNCHANGED <<pool, image, scopes, watched>>

StartCache ==
    /\ ~serving
    /\ serving' = TRUE
    /\ seen' = [p \in Pools |->
                  IF Home[p] \in watched THEN [obj |-> pool[p], fresh |-> TRUE]
                  ELSE [obj |-> NoPool, fresh |-> FALSE]]
    /\ UNCHANGED <<pool, image, scopes, watched, spent>>

-----------------------------------------------------------------------------

FirstScope(k) == [owner |-> IF k = "Repository" THEN "a" ELSE "", cred |-> "a",
                  credKind |-> "GitHubCredential", balancer |-> "pack"]

Init ==
    /\ pool = [p \in Pools |-> NoPool]
    /\ seen = [p \in Pools |-> [obj |-> NoPool, fresh |-> FALSE]]
    /\ image = Images
    /\ scope = [k \in Scopes |-> FirstScope(k)]
    /\ wish = scope
    /\ downgraded = {}
    /\ watched \in Watches
    /\ serving = FALSE
    /\ spent = [c \in Clients |-> 0]

PoolWrite(p) == \/ CreatePool(p) \/ UpdatePool(p) \/ RewritePool(p)
                \/ DeletePool(p) \/ EnsureFinalizer(p) \/ RemoveFinalizer(p)

ScopeUpdate(k) == UpdateScope(k) \/ UpdateScopeAlpha(k) \/ RewriteScope(k)

Next == \/ \E p \in Pools : PoolWrite(p) \/ CacheSync(p)
        \/ \E i \in Images : DeleteImage(i)
        \/ \E k \in Scopes : ScopeUpdate(k)
        \/ Restart \/ StartCache

Spec == Init /\ [][Next]_vars

\* The operator starts, sees changes and retries its own updates.
Fairness ==
    /\ WF_vars(StartCache)
    /\ \A p \in Pools : /\ WF_vars(CacheSync(p)) /\ WF_vars(EnsureFinalizer(p))
                        /\ WF_vars(RemoveFinalizer(p))

FairSpec == Spec /\ Fairness

-----------------------------------------------------------------------------
(***************************************************************************)
(* Properties                                                              *)
(***************************************************************************)

\* Every variable has its type.
AdmissionTypeOK ==
    /\ pool \in [Pools -> PoolObjects]
    /\ seen \in [Pools -> [obj : PoolObjects, fresh : BOOLEAN]]
    /\ image \subseteq Images
    /\ scope \in [Scopes -> BetaSpecs] /\ wish \in [Scopes -> BetaSpecs]
    /\ downgraded \subseteq Scopes
    /\ watched \in Watches /\ serving \in BOOLEAN
    /\ spent \in [Clients -> Nat]

(***************************************************************************)
(* Deletion of a watched Pool whose extraSpecs are JSON completes: nothing *)
(* the webhook refuses stands in the controller's way (RemoveFinalizer in  *)
(* pool_controller.go, validated by pool_webhook.go).                      *)
(***************************************************************************)
ValidDeletionCompletes ==
    \A p \in Pools :
        <>[](Home[p] \in watched /\ pool[p].spec.extra = "json")
        => []<>(~pool[p].deleting)

(***************************************************************************)
(* "if the object is being deleted, skip validation" (pool_webhook.go,     *)
(* ValidateUpdate): whatever its spec, the deletion of a watched Pool      *)
(* completes.  It does not if the extraSpecs are not JSON: ValidateUpdate  *)
(* skips nothing and refuses the update that removes the finalizer.        *)
(***************************************************************************)
DeletionSkipsValidation ==
    \A p \in Pools :
        Home[p] \in watched /\ pool[p].deleting ~> ~pool[p].deleting

(***************************************************************************)
(* An Image goes only if no live Pool of its namespace uses it, as far as  *)
(* the operator's cache knows: one that does was written since the cache   *)
(* was last brought up to date, or the operator does not watch the         *)
(* namespace (image_webhook.go, attachedPools).                            *)
(***************************************************************************)
UsedImageKept ==
    [][\A i \in image \ image' : \A p \in Pools :
          /\ pool[p].present /\ ~pool[p].deleting
          /\ Home[p] = ImageHome[i] /\ pool[p].spec.image = ImageName[i]
          => serving /\ (Home[p] \in watched => ~seen[p].fresh)]_vars

(***************************************************************************)
(* The owner and the name of the credential a user gave a scope survive    *)
(* every conversion.  The credential's kind and the pool balancer do until *)
(* a v1alpha1 client writes the scope: then the kind is GitHubCredential   *)
(* and the balancer is unset (the conversion functions of api/v1alpha1).   *)
(***************************************************************************)
WishesSurvive ==
    \A k \in Scopes :
        /\ scope[k].cred = wish[k].cred /\ scope[k].owner = wish[k].owner
        /\ IF k \in downgraded
           THEN scope[k].credKind = "GitHubCredential" /\ scope[k].balancer = ""
           ELSE scope[k] = wish[k]

=============================================================================
