-------------------------- MODULE Admission_proofs --------------------------
(***************************************************************************)
(* Theorems about Admission, for any Pools, Images and budgets.            *)
(***************************************************************************)
EXTENDS Admission, TLAPS

(***************************************************************************)
(* What the conversions and the building blocks of the actions do.         *)
(***************************************************************************)

LEMMA SpecTypes ==
    /\ NoSpec \in PoolSpecs
    /\ NoPool \in PoolObjects
    /\ FirstSpecs \subseteq PoolSpecs
    /\ \A k \in Scopes : FirstScope(k) \in BetaSpecs
<1>1. PICK i \in Images : TRUE
  BY AdmissionConstants
<1> DEFINE s == [extra |-> "missing", provider |-> "a", scopeName |-> "a",
                 scopeKind |-> "a", image |-> ImageName[i]]
<1>2. s \in FirstSpecs /\ s.extra = "missing"
  BY DEF FirstSpecs, PoolSpecs, Names
<1>3. NoSpec \in FirstSpecs
  BY <1>2 DEF NoSpec
<1>4. FirstSpecs \subseteq PoolSpecs
  BY DEF FirstSpecs
<1>5. NoPool \in PoolObjects
  BY <1>3, <1>4 DEF NoPool, PoolObjects
<1> QED
  BY <1>3, <1>4, <1>5 DEF FirstScope, BetaSpecs, CredentialKinds

\* What a v1alpha1 client writes keeps the owner, where there is one, and the
\* name of the credential; the reference is one to a GitHubCredential and
\* there is no pool balancer.
LEMMA ToBetaIs ==
    ASSUME NEW k \in Scopes, NEW a \in AlphaSpecs, HasOwner(k, a)
    PROVE  /\ ScopeToBeta(k, a).owner = a.owner
           /\ ScopeToBeta(k, a).cred = a.credName
           /\ ScopeToBeta(k, a).credKind = "GitHubCredential"
           /\ ScopeToBeta(k, a).balancer = ""
           /\ ScopeToBeta(k, a) \in BetaSpecs
           /\ HasOwner(k, ScopeToBeta(k, a))
BY AdmissionConstants
   DEF HasOwner, ScopeToBeta, RepositorySpecToBeta, OrganizationSpecToBeta,
       EnterpriseSpecToBeta, AlphaSpecs, BetaSpecs, CredentialKinds

\* What a v1alpha1 client reads has the owner and the credential's name.
LEMMA ToAlphaIs ==
    ASSUME NEW k \in Scopes, NEW b \in BetaSpecs, HasOwner(k, b)
    PROVE  /\ ScopeToAlpha(k, b).owner = b.owner
           /\ ScopeToAlpha(k, b).credName = b.cred
           /\ ScopeToAlpha(k, b) \in AlphaSpecs
           /\ HasOwner(k, ScopeToAlpha(k, b))
BY AdmissionConstants
   DEF HasOwner, ScopeToAlpha, RepositorySpecToAlpha, OrganizationSpecToAlpha,
       EnterpriseSpecToAlpha, AlphaSpecs, BetaSpecs

LEMMA SpendType ==
    ASSUME AdmissionTypeOK, NEW c \in Clients, Spend(c)
    PROVE  spent' \in [Clients -> Nat]
BY DEF AdmissionTypeOK, Spend

LEMMA StoredType ==
    ASSUME AdmissionTypeOK, NEW p \in Pools, NEW new \in PoolObjects,
           Stored(p, new)
    PROVE  /\ pool' \in [Pools -> PoolObjects]
           /\ seen' \in [Pools -> [obj : PoolObjects, fresh : BOOLEAN]]
BY DEF AdmissionTypeOK, Stored

\* What a write may store is a Pool.
LEMMA StoredObjects ==
    ASSUME NEW o \in PoolObjects, NEW s \in PoolSpecs
    PROVE  /\ [o EXCEPT !.spec = s] \in PoolObjects
           /\ [o EXCEPT !.deleting = TRUE] \in PoolObjects
           /\ [o EXCEPT !.fin = TRUE] \in PoolObjects
           /\ [o EXCEPT !.present = TRUE, !.spec = s] \in PoolObjects
BY DEF PoolObjects

\* Pools survive the two conversions.
LEMMA PoolSpecsSurvive ==
    ASSUME NEW s \in PoolSpecs
    PROVE  PoolSpecToBeta(PoolSpecToAlpha(s)) = s
BY DEF PoolSpecToBeta, PoolSpecToAlpha, PoolSpecs

(***************************************************************************)
(* The writes of Pools share a shape: one object is stored, and Images and *)
(* scopes stay as they are.                                                *)
(***************************************************************************)
LEMMA PoolWriteIs ==
    ASSUME AdmissionTypeOK, NEW p \in Pools, PoolWrite(p)
    PROVE  /\ \E new \in PoolObjects : Stored(p, new)
           /\ UNCHANGED <<image, scopes, watched, serving>>
           /\ spent' = spent \/ \E c \in Clients : Spend(c)
<1>0. pool[p] \in PoolObjects /\ pool[p].spec \in PoolSpecs
  BY DEF AdmissionTypeOK, PoolObjects
<1>1. CASE CreatePool(p)
  <2>1. PICK s \in FirstSpecs :
              Stored(p, [NoPool EXCEPT !.present = TRUE, !.spec = s])
    BY <1>1 DEF CreatePool
  <2> QED
    BY <1>1, <2>1, SpecTypes, StoredObjects DEF CreatePool, Clients
<1>2. CASE UpdatePool(p)
  <2>1. PICK s \in PoolSpecs : Stored(p, [pool[p] EXCEPT !.spec = s])
    BY <1>2 DEF UpdatePool
  <2> QED
    BY <1>0, <1>2, <2>1, StoredObjects DEF UpdatePool, Clients
<1>3. CASE RewritePool(p)
  BY <1>0, <1>3, PoolSpecsSurvive, StoredObjects DEF RewritePool, Clients
<1>4. CASE DeletePool(p)
  BY <1>0, <1>4, SpecTypes, StoredObjects DEF DeletePool, Clients
<1>5. CASE EnsureFinalizer(p)
  BY <1>0, <1>5, StoredObjects DEF EnsureFinalizer
<1>6. CASE RemoveFinalizer(p)
  BY <1>6, SpecTypes DEF RemoveFinalizer
<1> QED
  BY <1>1, <1>2, <1>3, <1>4, <1>5, <1>6 DEF PoolWrite

(***************************************************************************)
(* The writes of scopes share a shape as well: what is stored, what the    *)
(* user is taken to wish, and whether the scope was downgraded.            *)
(***************************************************************************)

\* Only Repositories have an owner, also in what is stored.
Owned == \A k \in Scopes : HasOwner(k, scope[k])

\* s is stored while v is wished, as v1beta1 or as v1alpha1.
Upgrade(k, s, v) == downgraded' = downgraded \ {k} /\ v = s

Downgrade(k, s, v) ==
    /\ downgraded' = downgraded \cup {k}
    /\ s.credKind = "GitHubCredential" /\ s.balancer = ""
    /\ \/ v.owner = s.owner /\ v.cred = s.cred
       \/ v = wish[k] /\ s.owner = scope[k].owner /\ s.cred = scope[k].cred

Wished(k, v) == wish' = [wish EXCEPT ![k] = v]

LEMMA ScopeUpdateIs ==
    ASSUME AdmissionTypeOK, Owned, NEW k \in Scopes, ScopeUpdate(k)
    PROVE  \E s, v \in BetaSpecs :
              /\ ScopeWrite(k, s) /\ HasOwner(k, s) /\ Wished(k, v)
              /\ Upgrade(k, s, v) \/ Downgrade(k, s, v)
<1>0. scope[k] \in BetaSpecs /\ wish[k] \in BetaSpecs
  BY DEF AdmissionTypeOK
<1>1. CASE UpdateScope(k)
  BY <1>1 DEF UpdateScope, Upgrade, Wished
<1>2. CASE UpdateScopeAlpha(k)
  <2>1. PICK a \in AlphaSpecs :
              /\ HasOwner(k, a) /\ ScopeWrite(k, ScopeToBeta(k, a))
              /\ wish' = [wish EXCEPT ![k].owner = a.owner,
                                     ![k].cred = a.credName]
    BY <1>2 DEF UpdateScopeAlpha
  <2> DEFINE v == [wish[k] EXCEPT !.owner = a.owner, !.cred = a.credName]
             s == ScopeToBeta(k, a)
  <2>2. /\ v \in BetaSpecs /\ v.owner = a.owner /\ v.cred = a.credName
        /\ Wished(k, v)
    BY <1>0, <2>1 DEF BetaSpecs, AlphaSpecs, AdmissionTypeOK, Wished
  <2>3. /\ s \in BetaSpecs /\ HasOwner(k, s)
        /\ s.credKind = "GitHubCredential" /\ s.balancer = ""
        /\ s.owner = a.owner /\ s.cred = a.credName
    BY <2>1, ToBetaIs
  <2>4. downgraded' = downgraded \cup {k} /\ ScopeWrite(k, s)
    BY <1>2, <2>1 DEF UpdateScopeAlpha
  <2>5. Downgrade(k, s, v)
    BY <2>2, <2>3, <2>4 DEF Downgrade
  <2> HIDE DEF s, v
  <2> QED
    BY <2>2, <2>3, <2>4, <2>5
<1>3. CASE RewriteScope(k)
  <2> DEFINE a == ScopeToAlpha(k, scope[k])
             s == ScopeToBeta(k, a)
  <2>0. /\ a \in AlphaSpecs /\ HasOwner(k, a)
        /\ a.owner = scope[k].owner /\ a.credName = scope[k].cred
    BY <1>0, ToAlphaIs DEF Owned
  <2> HIDE DEF a
  <2>1. /\ s \in BetaSpecs /\ HasOwner(k, s)
        /\ s.credKind = "GitHubCredential" /\ s.balancer = ""
        /\ s.owner = scope[k].owner /\ s.cred = scope[k].cred
    BY <2>0, ToBetaIs
  <2> USE DEF a
  <2>2. downgraded' = downgraded \cup {k} /\ ScopeWrite(k, s)
    BY <1>3 DEF RewriteScope
  <2>3. Wished(k, wish[k])
    BY <1>3 DEF RewriteScope, AdmissionTypeOK, Wished
  <2> HIDE DEF s, a
  <2>4. Downgrade(k, s, wish[k])
    BY <2>1, <2>2 DEF Downgrade
  <2> QED
    BY <1>0, <2>1, <2>2, <2>3, <2>4
<1> QED
  BY <1>1, <1>2, <1>3 DEF ScopeUpdate

(***************************************************************************)
(* Type correctness.                                                       *)
(***************************************************************************)

TypedAndOwned == AdmissionTypeOK /\ Owned

LEMMA InitTypes == Init => TypedAndOwned
<1> SUFFICES ASSUME Init PROVE TypedAndOwned
  OBVIOUS
<1>1. pool \in [Pools -> PoolObjects]
  BY SpecTypes DEF Init
<1>2. seen \in [Pools -> [obj : PoolObjects, fresh : BOOLEAN]]
  BY SpecTypes DEF Init
<1>3. scope \in [Scopes -> BetaSpecs] /\ wish \in [Scopes -> BetaSpecs]
      /\ downgraded \subseteq Scopes
  BY SpecTypes DEF Init
<1>4. image \subseteq Images /\ serving \in BOOLEAN /\ watched \in Watches
      /\ spent \in [Clients -> Nat]
  BY DEF Init
<1>5. Owned
  BY DEF Init, Owned, HasOwner, FirstScope
<1> QED
  BY <1>1, <1>2, <1>3, <1>4, <1>5 DEF AdmissionTypeOK, TypedAndOwned

LEMMA StepTypes == TypedAndOwned /\ [Next]_vars => AdmissionTypeOK'
<1> SUFFICES ASSUME AdmissionTypeOK, Owned, [Next]_vars
             PROVE  AdmissionTypeOK'
  BY DEF TypedAndOwned
<1>1. ASSUME NEW p \in Pools, PoolWrite(p)
      PROVE  AdmissionTypeOK'
  BY <1>1, PoolWriteIs, StoredType, SpendType DEF AdmissionTypeOK, scopes
<1>2. ASSUME NEW p \in Pools, CacheSync(p)
      PROVE  AdmissionTypeOK'
  BY <1>2 DEF CacheSync, AdmissionTypeOK, scopes
<1>3. ASSUME NEW i \in Images, DeleteImage(i)
      PROVE  AdmissionTypeOK'
  BY <1>3, SpendType DEF DeleteImage, AdmissionTypeOK, Clients, scopes
<1>4. ASSUME NEW k \in Scopes, ScopeUpdate(k)
      PROVE  AdmissionTypeOK'
  <2>1. PICK s, v \in BetaSpecs : ScopeWrite(k, s) /\ Wished(k, v)
    BY <1>4, ScopeUpdateIs
  <2>2. spent' \in [Clients -> Nat] /\ downgraded' \subseteq Scopes
    BY <1>4, SpendType
       DEF ScopeUpdate, UpdateScope, UpdateScopeAlpha, RewriteScope, Clients,
           AdmissionTypeOK
  <2>3. /\ scope' \in [Scopes -> BetaSpecs]
        /\ UNCHANGED <<pool, seen, image, watched, serving>>
    BY <2>1 DEF ScopeWrite, AdmissionTypeOK
  <2>4. wish' \in [Scopes -> BetaSpecs]
    BY <2>1 DEF AdmissionTypeOK, Wished
  <2> QED
    BY <2>2, <2>3, <2>4 DEF AdmissionTypeOK
<1>6. CASE Restart
  BY <1>6, SpecTypes, SpendType DEF Restart, AdmissionTypeOK, Clients, scopes
<1>7. CASE StartCache
  BY <1>7, SpecTypes DEF StartCache, AdmissionTypeOK, scopes
<1>8. CASE UNCHANGED vars
  BY <1>8 DEF vars, scopes, AdmissionTypeOK
<1> QED
  BY <1>1, <1>2, <1>3, <1>4, <1>6, <1>7, <1>8 DEF Next

LEMMA StepOwned == TypedAndOwned /\ [Next]_vars => Owned'
<1> SUFFICES ASSUME AdmissionTypeOK, Owned, [Next]_vars
             PROVE  Owned'
  BY DEF TypedAndOwned
<1>1. ASSUME NEW k \in Scopes, ScopeUpdate(k)
      PROVE  Owned'
  <2>1. PICK s \in BetaSpecs : ScopeWrite(k, s) /\ HasOwner(k, s)
    BY <1>1, ScopeUpdateIs
  <2>2. scope'[k] = s /\ \A l \in Scopes \ {k} : scope'[l] = scope[l]
    BY <2>1 DEF ScopeWrite, AdmissionTypeOK
  <2>3. ASSUME NEW l \in Scopes
        PROVE  HasOwner(l, scope'[l])
    <3>1. CASE l = k
      BY <2>1, <2>2, <3>1
    <3>2. CASE l # k
      BY <2>2, <3>2 DEF Owned
    <3> QED
      BY <3>1, <3>2
  <2> QED
    BY <2>3 DEF Owned, HasOwner
<1>2. CASE UNCHANGED scope
  BY <1>2 DEF Owned, HasOwner
<1>3. \A p \in Pools : PoolWrite(p) => UNCHANGED scope
  BY PoolWriteIs DEF scopes
<1> QED
  BY <1>1, <1>2, <1>3
     DEF Next, CacheSync, DeleteImage, Restart, StartCache, vars, scopes

\* Every variable of Admission keeps its type, whatever is written.
THEOREM AdmissionTypeCorrect == Spec => []AdmissionTypeOK
<1>1. TypedAndOwned /\ [Next]_vars => TypedAndOwned'
  BY StepTypes, StepOwned DEF TypedAndOwned
<1>2. TypedAndOwned => AdmissionTypeOK
  BY DEF TypedAndOwned
<1> QED
  BY <1>1, <1>2, InitTypes, PTL DEF Spec

-----------------------------------------------------------------------------
(***************************************************************************)
(* What users give a scope survives.                                       *)
(***************************************************************************)

LEMMA WishesStep ==
    TypedAndOwned /\ WishesSurvive /\ [Next]_vars => WishesSurvive'
<1> SUFFICES ASSUME AdmissionTypeOK, Owned, WishesSurvive, [Next]_vars
             PROVE  WishesSurvive'
  BY DEF TypedAndOwned
<1>1. ASSUME NEW k \in Scopes, ScopeUpdate(k)
      PROVE  WishesSurvive'
  <2>1. PICK s, v \in BetaSpecs :
              /\ ScopeWrite(k, s) /\ Wished(k, v)
              /\ Upgrade(k, s, v) \/ Downgrade(k, s, v)
    BY <1>1, ScopeUpdateIs
  <2>2. scope'[k] = s /\ wish'[k] = v
    BY <2>1 DEF AdmissionTypeOK, ScopeWrite, Wished
  <2>3. ASSUME NEW l \in Scopes, l # k
        PROVE  /\ scope'[l] = scope[l] /\ wish'[l] = wish[l]
               /\ l \in downgraded' <=> l \in downgraded
    BY <2>1, <2>3
       DEF AdmissionTypeOK, ScopeWrite, Wished, Upgrade, Downgrade
  <2>4. s.cred = v.cred /\ s.owner = v.owner
    BY <2>1 DEF WishesSurvive, Upgrade, Downgrade
  <2>5. IF k \in downgraded'
        THEN s.credKind = "GitHubCredential" /\ s.balancer = "" ELSE s = v
    BY <2>1 DEF Upgrade, Downgrade
  <2> QED
    BY <2>2, <2>3, <2>4, <2>5 DEF WishesSurvive
<1>2. CASE UNCHANGED scopes
  BY <1>2 DEF WishesSurvive, scopes
<1>3. \A p \in Pools : PoolWrite(p) => UNCHANGED scopes
  BY PoolWriteIs
<1> QED
  BY <1>1, <1>2, <1>3
     DEF Next, CacheSync, DeleteImage, Restart, StartCache, vars

(***************************************************************************)
(* The owner and the credential's name a user last wrote are those of the  *)
(* scope, in whichever version they were written and however the writes of *)
(* users and of v1alpha1 clients alternate; the credential's kind and the  *)
(* pool balancer are until a v1alpha1 client writes the scope.             *)
(***************************************************************************)
THEOREM WishesAlwaysSurvive == Spec => []WishesSurvive
<1>1. Init => WishesSurvive
  BY DEF Init, WishesSurvive
<1>2. TypedAndOwned /\ [Next]_vars => TypedAndOwned'
  BY StepTypes, StepOwned DEF TypedAndOwned
<1> QED
  BY <1>1, <1>2, InitTypes, WishesStep, PTL DEF Spec

-----------------------------------------------------------------------------
(***************************************************************************)
(* The cache and the Images.                                               *)
(***************************************************************************)

\* A fresh copy in the cache is the Pool.
SeenAgrees == \A p \in Pools : seen[p].fresh => seen[p].obj = pool[p]

LEMMA SeenAgreesStep ==
    AdmissionTypeOK /\ SeenAgrees /\ [Next]_vars => SeenAgrees'
<1> SUFFICES ASSUME AdmissionTypeOK, SeenAgrees, [Next]_vars
             PROVE  SeenAgrees'
  OBVIOUS
<1>1. ASSUME NEW p \in Pools, PoolWrite(p)
      PROVE  SeenAgrees'
  <2>1. PICK new \in PoolObjects : Stored(p, new)
    BY <1>1, PoolWriteIs
  <2>2. ASSUME NEW q \in Pools, q # p
        PROVE  seen'[q] = seen[q] /\ pool'[q] = pool[q]
    BY <2>1, <2>2 DEF Stored, AdmissionTypeOK
  <2>3. /\ pool'[p] = new /\ seen'[p].obj = seen[p].obj
        /\ seen'[p].fresh => seen[p].fresh /\ new = pool[p]
    BY <2>1 DEF Stored, AdmissionTypeOK
  <2> QED
    BY <2>2, <2>3 DEF SeenAgrees
<1>2. ASSUME NEW p \in Pools, CacheSync(p)
      PROVE  SeenAgrees'
  BY <1>2 DEF CacheSync, SeenAgrees, AdmissionTypeOK
<1>3. CASE Restart \/ StartCache
  BY <1>3 DEF Restart, StartCache, SeenAgrees
<1>4. CASE UNCHANGED <<pool, seen>>
  BY <1>4 DEF SeenAgrees
<1> QED
  BY <1>1, <1>2, <1>3, <1>4
     DEF Next, DeleteImage, ScopeUpdate, UpdateScope, UpdateScopeAlpha,
         RewriteScope, ScopeWrite, vars

LEMMA ImagesStep ==
    ASSUME AdmissionTypeOK, SeenAgrees, [Next]_vars,
           NEW i \in image \ image', NEW p \in Pools,
           pool[p].present, ~pool[p].deleting,
           Home[p] = ImageHome[i], pool[p].spec.image = ImageName[i]
    PROVE  serving /\ (Home[p] \in watched => ~seen[p].fresh)
<1>1. \A q \in Pools : PoolWrite(q) => UNCHANGED image
  BY PoolWriteIs
<1>2. PICK j \in Images : DeleteImage(j)
  BY <1>1 DEF Next, CacheSync, ScopeUpdate, UpdateScope, UpdateScopeAlpha,
              RewriteScope, ScopeWrite, Restart, StartCache, vars
<1>3. i = j /\ serving /\ AttachedPools(i) = {}
  BY <1>2 DEF DeleteImage, ValidateDelete
<1>4. ~(seen[p].obj = pool[p])
  BY <1>3 DEF AttachedPools
<1> QED
  BY <1>3, <1>4 DEF SeenAgrees

(***************************************************************************)
(* An Image that a live Pool uses goes only while the cache lags behind    *)
(* that Pool, or because the operator does not watch the namespace.        *)
(***************************************************************************)
THEOREM UsedImagesAreKept == Spec => UsedImageKept
<1>1. Init => SeenAgrees
  BY DEF Init, SeenAgrees
<1>2. AdmissionTypeOK /\ SeenAgrees /\ [Next]_vars =>
        [\A i \in image \ image' : \A p \in Pools :
          /\ pool[p].present /\ ~pool[p].deleting
          /\ Home[p] = ImageHome[i] /\ pool[p].spec.image = ImageName[i]
          => serving /\ (Home[p] \in watched => ~seen[p].fresh)]_vars
  BY ImagesStep
<1> QED
  BY <1>1, <1>2, AdmissionTypeCorrect, SeenAgreesStep, PTL
     DEF Spec, UsedImageKept

=============================================================================
