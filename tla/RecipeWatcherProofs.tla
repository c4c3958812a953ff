-------------------------- MODULE RecipeWatcherProofs --------------------------
(***************************************************************************)
(* Proofs about RecipeWatcher, for every set of recipes, files and         *)
(* requests: the types of its variables, no hash is that of an older       *)
(* recipe graph, and no request sees two graphs.                           *)
(***************************************************************************)
EXTENDS RecipeWatcher, SequenceTheorems, FiniteSetTheorems, TLAPS

Reloading == watcher \in {"load", "rescan"}
Reading(q) == request[q] # "idle"

(***************************************************************************)
(* What reloadMu gives: the watcher wants the lock before it reloads, no   *)
(* request is inside then, and none came before the first graph was there. *)
(* A request that is inside has a recipe to hash, and a hash when it is    *)
(* about to store it.                                                      *)
(***************************************************************************)
LockInv ==
  /\ watcher \in {"lock", "load", "rescan"} => writing
  /\ \A q \in Requests : Reading(q) => ~Reloading /\ watcher # "boot"
  /\ \A q \in Requests : Reading(q) => wanted[q] # <<>>
  /\ \A q \in Requests : hash[q] # None => request[q] = "store"

IndInv == TypeOK /\ LockInv /\ HashIsCurrent

\* The pool is a function on the loaded files, and so is what a scan collects.
LEMMA OnFacts ==
  ASSUME NEW f \in [Files -> Nat]
  PROVE  On(Loaded, f) \in Pools /\ On(Watched, f) \in [Watched -> Nat]
BY DEF On, Pools, Files, Watched, Loaded

LEMMA InitInv == Init => IndInv
<1> SUFFICES ASSUME Init PROVE IndInv
  OBVIOUS
<1>1. Nothing \in [Files -> Nat]
  BY DEF Nothing
<1>2. pool \in Pools /\ fingerprint \in [Watched -> Nat]
  BY <1>1, OnFacts DEF Init
<1>3. <<>> \in Seq(Recipes) /\ Loaded \subseteq Files
  BY DEF Files
<1>4. TypeOK
  BY <1>1, <1>2, <1>3 DEF Init, TypeOK
<1> QED BY <1>4 DEF Init, IndInv, LockInv, HashIsCurrent, Reading, Reloading

\* The recipes of a request, in its order, are a sequence that is not empty.
LEMMA OrderFacts ==
  ASSUME NEW s \in Orders
  PROVE  s \in Seq(Recipes) /\ s # <<>>
<1>1. Cardinality(Recipes) \in Nat
  BY FS_CardinalityType, RecipeWatcherAssumption
<1>2. PICK m \in 0..Cardinality(Recipes) : s \in [1..m -> Recipes]
  BY DEF Orders, SeqOf
<1>3. m \in Nat
  BY <1>1, <1>2
<1>4. s \in Seq(Recipes)
  BY <1>2, <1>3
<1> QED BY <1>4 DEF Orders

\* A request that is inside keeps its graph, because no reload is under way.
LEMMA TypeInv == IndInv /\ [Next]_vars => TypeOK'
<1> SUFFICES ASSUME IndInv, [Next]_vars PROVE TypeOK'
  OBVIOUS
<1> USE DEF IndInv, TypeOK
<1>1. ASSUME NEW f \in Files, Edit(f) PROVE TypeOK'
  <2>1. disk' \in [Files -> Nat] /\ broken' \subseteq Loaded
    BY <1>1 DEF Edit
  <2> QED BY <1>1, <2>1 DEF Edit, watcherVars, requestVars
<1>2. ASSUME NEW f \in Files, ReadFile(f) \/ StatFile(f) PROVE TypeOK'
  BY <1>2 DEF ReadFile, StatFile, requestVars
<1>3. CASE LoadFails
  BY <1>3 DEF LoadFails, Nothing, requestVars
<1>4. CASE Install
  <2>1. pool' \in Pools
    BY <1>4, OnFacts DEF Install
  <2> QED BY <1>4, <2>1 DEF Install, Nothing, Files, Watched, Loaded, requestVars
<1>5. CASE Remember
  <2>1. fingerprint' \in [Watched -> Nat]
    BY <1>5, OnFacts DEF Remember
  <2> QED BY <1>5, <2>1 DEF Remember, Nothing, requestVars
<1>6. CASE Tick \/ Compare \/ Lock
  <2>1. /\ Nothing \in [Files -> Nat] /\ Watched \subseteq Files /\ Loaded \subseteq Files
    BY DEF Nothing, Files, Watched, Loaded
  <2>2. /\ watcher' \in {"sleep", "scan", "lock", "load"} /\ writing' \in BOOLEAN
        /\ todo' \in {todo, Watched, Loaded} /\ reading' \in {reading, Nothing}
        /\ UNCHANGED <<disk, broken, pool, fingerprint, hashCache, requestVars>>
    BY <1>6, Zenon DEF Tick, Compare, Lock
  <2> QED BY <2>1, <2>2 DEF requestVars
<1>7. ASSUME NEW q \in Requests, Begin(q) PROVE TypeOK'
  <2>1. PICK s \in Orders : wanted' = [wanted EXCEPT ![q] = s]
    BY <1>7 DEF Begin
  <2>2. s \in Seq(Recipes)
    BY OrderFacts
  <2> QED BY <1>7, <2>1, <2>2 DEF Begin, watcherVars
<1>8. ASSUME NEW q \in Requests, Handler(q) PROVE TypeOK'
  <2>1. wanted[q] # <<>>
    BY <1>8 DEF Handler, Lookup, Compute, Store, LockInv, Reading
  <2>2. Tail(wanted[q]) \in Seq(Recipes) /\ Head(wanted[q]) \in Recipes
    BY <2>1
  <2>3. Hashed(q) => /\ wanted' \in [Requests -> Seq(Recipes)]
                     /\ request' \in [Requests -> {"idle", "lookup", "compute", "store"}]
    BY <2>2 DEF Hashed
  <2>4. CASE Lookup(q)
    BY <2>3, <2>4 DEF Lookup, watcherVars
  <2>5. CASE Compute(q)
    BY <2>5 DEF Compute, watcherVars
  <2>6. CASE Store(q)
    BY <2>2, <2>3, <2>6 DEF Store, watcherVars
  <2> QED BY <1>8, <2>4, <2>5, <2>6 DEF Handler
<1>9. CASE UNCHANGED vars
  BY <1>9 DEF vars, watcherVars, requestVars
<1> QED
  BY <1>1, <1>2, <1>3, <1>4, <1>5, <1>6, <1>7, <1>8, <1>9 DEF Next, Watcher

LEMMA LockStays == IndInv /\ [Next]_vars => LockInv'
<1> SUFFICES ASSUME IndInv, [Next]_vars PROVE LockInv'
  OBVIOUS
<1> USE DEF IndInv, LockInv, Reading, Reloading
<1>1. ASSUME NEW f \in Files, Edit(f) PROVE LockInv'
  BY <1>1 DEF Edit, watcherVars, requestVars
<1>2. CASE Watcher
  <2>1. UNCHANGED requestVars
    BY <1>2 DEF Watcher, ReadFile, StatFile, LoadFails, Install, Remember, Tick, Compare, Lock
  <2>2. CASE \E f \in Files : ReadFile(f) \/ StatFile(f)
    BY <2>1, <2>2 DEF ReadFile, StatFile, requestVars
  <2>3. CASE LoadFails \/ Install \/ Remember
    BY <2>1, <2>3 DEF LoadFails, Install, Remember, requestVars
  <2>4. CASE Tick \/ Lock
    BY <2>1, <2>4 DEF Tick, Lock, requestVars
  <2>5. CASE Compare
    <3>1. watcher = "scan" /\ (watcher' = "sleep" \/ (watcher' = "lock" /\ writing'))
      BY <2>5, Zenon DEF Compare
    <3> QED BY <2>1, <3>1 DEF requestVars
  <2> QED BY <1>2, <2>2, <2>3, <2>4, <2>5 DEF Watcher
<1>3. ASSUME NEW q \in Requests, Begin(q) PROVE LockInv'
  <2>1. PICK s \in Orders : wanted' = [wanted EXCEPT ![q] = s]
    BY <1>3 DEF Begin
  <2> QED BY <1>3, <2>1, OrderFacts DEF Begin, watcherVars, TypeOK
<1>4. ASSUME NEW q \in Requests, Handler(q) PROVE LockInv'
  <2>1. wanted[q] \in Seq(Recipes) /\ wanted[q] # <<>> /\ request[q] # "idle"
    BY <1>4 DEF Handler, Lookup, Compute, Store, TypeOK
  <2>2. Len(wanted[q]) # 1 => Tail(wanted[q]) # <<>>
    <3>1. Len(wanted[q]) \in Nat /\ Len(wanted[q]) # 0
      BY <2>1, EmptySeq
    <3>2. Len(Tail(wanted[q])) = Len(wanted[q]) - 1
      BY <2>1, HeadTailProperties
    <3>3. Len(<<>>) = 0
      OBVIOUS
    <3> DEFINE t == Tail(wanted[q])
    <3>4. Len(wanted[q]) # 1 => Len(t) # 0
      BY <3>1, <3>2
    <3>5. t = <<>> => Len(t) = 0
      BY <3>3
    <3> HIDE DEF t
    <3>6. Len(wanted[q]) # 1 => t # <<>>
      BY <3>4, <3>5
    <3> QED BY <3>6 DEF t
  <2>3. CASE Lookup(q)
    <3>1. UNCHANGED <<watcherVars, hash>>
      BY <2>3 DEF Lookup
    <3>2. hash[q] = None
      BY <2>3 DEF Lookup, TypeOK
    <3>3. \/ Hashed(q)
          \/ request' = [request EXCEPT ![q] = "compute"] /\ UNCHANGED wanted
      BY <2>3 DEF Lookup
    <3> QED BY <2>1, <2>2, <3>1, <3>2, <3>3 DEF Hashed, watcherVars, TypeOK
  <2>4. CASE Compute(q)
    BY <2>1, <2>4 DEF Compute, watcherVars, TypeOK
  <2>5. CASE Store(q)
    BY <2>1, <2>2, <2>5 DEF Store, Hashed, watcherVars, TypeOK
  <2> QED BY <1>4, <2>3, <2>4, <2>5 DEF Handler
<1>5. CASE UNCHANGED vars
  BY <1>5 DEF vars, watcherVars, requestVars
<1> QED BY <1>1, <1>2, <1>3, <1>4, <1>5 DEF Next

\* The pool changes only where the cache is emptied and nobody is computing.
LEMMA CurrentStays == IndInv /\ [Next]_vars => HashIsCurrent'
<1> SUFFICES ASSUME IndInv, [Next]_vars PROVE HashIsCurrent'
  OBVIOUS
<1> USE DEF IndInv, HashIsCurrent
<1>1. ASSUME NEW f \in Files, Edit(f) PROVE HashIsCurrent'
  BY <1>1 DEF Edit, watcherVars, requestVars
<1>2. CASE Install
  <2>1. \A q \in Requests : request[q] = "idle" /\ hash[q] = None
    BY <1>2 DEF Install, LockInv, Reading, Reloading
  <2> QED BY <1>2, <2>1 DEF Install, requestVars
<1>3. CASE Watcher /\ ~Install
  <2>1. UNCHANGED <<pool, hashCache, hash>>
    BY <1>3 DEF Watcher, ReadFile, StatFile, LoadFails, Remember, Tick, Compare, Lock, requestVars
  <2> QED BY <2>1
<1>4. ASSUME NEW q \in Requests, Begin(q) PROVE HashIsCurrent'
  BY <1>4 DEF Begin, watcherVars
<1>5. ASSUME NEW q \in Requests, Handler(q) PROVE HashIsCurrent'
  <2>1. UNCHANGED pool
    BY <1>5 DEF Handler, Lookup, Compute, Store, watcherVars
  <2>2. CASE Lookup(q)
    BY <2>1, <2>2 DEF Lookup
  <2>3. CASE Compute(q)
    BY <2>1, <2>3 DEF Compute, TypeOK
  <2>4. CASE Store(q)
    BY <2>1, <2>4 DEF Store, TypeOK
  <2> QED BY <1>5, <2>2, <2>3, <2>4 DEF Handler
<1>6. CASE UNCHANGED vars
  BY <1>6 DEF vars, watcherVars, requestVars
<1> QED BY <1>1, <1>2, <1>3, <1>4, <1>5, <1>6 DEF Next

LEMMA Inductive == Spec => []IndInv
<1> QED BY InitInv, TypeInv, LockStays, CurrentStays, PTL DEF Spec, IndInv

\* The variables have their types: see TypeOK.
THEOREM TypeCorrect == Spec => []TypeOK
<1>1. IndInv => TypeOK
  BY DEF IndInv
<1> QED BY <1>1, Inductive, PTL

(***************************************************************************)
(* No hash the server has cached, or is about to cache, was computed from  *)
(* an older recipe graph than the one it has: for every set of recipes     *)
(* and any number of requests.                                             *)
(***************************************************************************)
THEOREM HashesAreCurrent == Spec => []HashIsCurrent
<1>1. IndInv => HashIsCurrent
  BY DEF IndInv
<1> QED BY <1>1, Inductive, PTL

(***************************************************************************)
(* A request works on one recipe graph: reloadRecipes does not replace it  *)
(* while a handler holds reloadMu.RLock.                                   *)
(***************************************************************************)
THEOREM GraphIsStable == Spec => StableDuringRequest
<1>1. IndInv /\ [Next]_vars => ((\E q \in Requests : request[q] # "idle") => pool' = pool)
  <2> SUFFICES ASSUME IndInv, [Next]_vars, NEW q \in Requests, request[q] # "idle"
               PROVE  pool' = pool
    OBVIOUS
  <2>1. ~Install
    BY DEF Install, IndInv, LockInv, Reading, Reloading
  <2>2. CASE Watcher
    BY <2>1, <2>2 DEF Watcher, ReadFile, StatFile, LoadFails, Remember, Tick, Compare, Lock
  <2>3. CASE ~Watcher
    BY <2>3 DEF Next, Edit, Begin, Handler, Lookup, Compute, Store, vars, watcherVars
  <2> QED BY <2>2, <2>3
<1> QED BY <1>1, Inductive, PTL DEF Spec, StableDuringRequest
=============================================================================
