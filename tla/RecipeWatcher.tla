---------------------------- MODULE RecipeWatcher ----------------------------
(***************************************************************************)
(* The recipe graph of a running `ignite server`: how it is loaded         *)
(* (Ignite.Load), how the watcher goroutine notices that files changed and *)
(* loads it again (watchRecipeLoop, reloadRecipes), and how HTTP handlers  *)
(* read it and fill the hash cache meanwhile (Ignite.Hash).                *)
(*                                                                         *)
(* Load reads the files one after the other while editors write them, and  *)
(* so does the scan of sizes and times (scanRecipeFingerprint): each read  *)
(* of a file is an action.  The content of a file is its version number.   *)
(***************************************************************************)
EXTENDS Naturals, Sequences, SequencesExt, FiniteSets

CONSTANTS Recipes,   \* elements/**/*.yml
          Includes,  \* files the recipes merge that are not .yml (elements/include/*.inc)
          LockFile,  \* checksum.lock
          Requests,  \* HTTP requests handled at the same time
          None,
          MaxEdits   \* bound: how often files change

ASSUME RecipeWatcherAssumption ==
  /\ IsFiniteSet(Recipes) /\ IsFiniteSet(Includes)
  /\ Recipes \cap Includes = {} /\ LockFile \notin Recipes \cup Includes
  /\ None \notin [Recipes \cup Includes -> Nat]
  /\ MaxEdits \in Nat

Loaded  == Recipes \cup Includes    \* what Load reads
Watched == Recipes \cup {LockFile}  \* what the fingerprint covers
Files   == Loaded \cup {LockFile}

VARIABLES
  disk,        \* version of each file
  broken,      \* files whose present text Load cannot parse
  watcher,     \* what the goroutine does: see TypeOK
  todo,        \* files its present pass has still to read
  reading,     \* the pool or fingerprint the pass collects
  pool,        \* i.pool: version of each file it was made from
  fingerprint, \* d.recipeFingerprint
  hashCache,   \* i.hashCache: the pool each cached hash was computed from
  writing,     \* reloadMu: the writer wants it (no new reader gets it)
  request,     \* what each handler does; all but "idle" hold reloadMu.RLock
  wanted,      \* the recipes it has still to hash, in order
  hash         \* the hash it has computed, as the pool that went into it

vars == <<disk, broken, watcher, todo, reading, pool, fingerprint, hashCache,
          writing, request, wanted, hash>>
watcherVars == <<watcher, todo, reading, pool, fingerprint, writing>>
requestVars == <<request, wanted, hash>>

Pools == [Loaded -> Nat]

TypeOK ==
  /\ disk \in [Files -> Nat]
  /\ broken \subseteq Loaded
  /\ watcher \in {"boot", "first", "sleep", "scan", "lock", "load", "rescan", "exit"}
  /\ todo \subseteq Files
  /\ reading \in [Files -> Nat]
  /\ pool \in Pools
  /\ fingerprint \in [Watched -> Nat]
  /\ hashCache \in [Recipes -> Pools \cup {None}]
  /\ writing \in BOOLEAN
  /\ request \in [Requests -> {"idle", "lookup", "compute", "store"}]
  /\ wanted \in [Requests -> Seq(Recipes)]
  /\ hash \in [Requests -> Pools \cup {None}]

Nothing == [f \in Files |-> 0]
On(S, f) == [x \in S |-> f[x]]

Init ==
  /\ disk = Nothing /\ broken = {}
  /\ watcher = "boot" /\ todo = Loaded /\ reading = Nothing
  /\ pool = On(Loaded, Nothing) /\ fingerprint = On(Watched, Nothing)
  /\ hashCache = [r \in Recipes |-> None]
  /\ writing = FALSE
  /\ request = [q \in Requests |-> "idle"]
  /\ wanted = [q \in Requests |-> <<>>]
  /\ hash = [q \in Requests |-> None]

-----------------------------------------------------------------------------
\* Somebody saves a file (or a job writes checksum.lock).
Edits == FoldFunction(+, 0, disk)

Edit(f) ==
  /\ Edits < MaxEdits
  /\ disk' = [disk EXCEPT ![f] = @ + 1]
  /\ broken' \in IF f \in Loaded THEN {broken \ {f}, broken \cup {f}} ELSE {broken}
  /\ UNCHANGED <<watcherVars, hashCache, requestVars>>

-----------------------------------------------------------------------------
(***************************************************************************)
(* The watcher.  main calls Load before the server runs ("boot"); then the *)
(* goroutine takes a first fingerprint, and at every tick a new one.       *)
(***************************************************************************)
ReadFile(f) ==
  /\ watcher \in {"boot", "load"}
  /\ f \in todo \ broken
  /\ reading' = [reading EXCEPT ![f] = disk[f]]
  /\ todo' = todo \ {f}
  /\ UNCHANGED <<disk, broken, watcher, pool, fingerprint, hashCache, writing, requestVars>>

StatFile(f) ==
  /\ watcher \in {"first", "scan", "rescan"}
  /\ f \in todo
  /\ reading' = [reading EXCEPT ![f] = disk[f]]
  /\ todo' = todo \ {f}
  /\ UNCHANGED <<disk, broken, watcher, pool, fingerprint, hashCache, writing, requestVars>>

\* Load returns an error: the server does not start; a running one keeps
\* its pool AND its old fingerprint.
\* Faulty variant: the fingerprint of what cannot be loaded is remembered.
LoadFailsOnce ==
  /\ todo \cap broken # {}
  /\ \/ watcher = "boot" /\ watcher' = "exit" /\ UNCHANGED <<writing, fingerprint>>
     \/ /\ watcher = "load" /\ watcher' = "sleep" /\ writing' = FALSE
        /\ fingerprint' = On(Watched, disk)
  /\ todo' = {} /\ reading' = Nothing
  /\ UNCHANGED <<disk, broken, pool, hashCache, requestVars>>
LoadFails ==
  /\ todo \cap broken # {}
  /\ \/ watcher = "boot" /\ watcher' = "exit" /\ UNCHANGED writing
     \/ watcher = "load" /\ watcher' = "sleep" /\ writing' = FALSE
  /\ todo' = {} /\ reading' = Nothing
  /\ UNCHANGED <<disk, broken, pool, fingerprint, hashCache, requestVars>>

\* Faulty variant: the hashes of the old pool survive.
InstallOnly ==
  /\ watcher \in {"boot", "load"} /\ todo = {}
  /\ pool' = On(Loaded, reading)
  /\ watcher' = IF watcher = "boot" THEN "first" ELSE "rescan"
  /\ todo' = Watched /\ reading' = Nothing
  /\ UNCHANGED <<disk, broken, fingerprint, hashCache, writing, requestVars>>

\* i.pool = nextPool, and the hashes of the old pool are forgotten.
Install ==
  /\ watcher \in {"boot", "load"} /\ todo = {}
  /\ pool' = On(Loaded, reading)
  /\ hashCache' = [r \in Recipes |-> None]
  /\ watcher' = IF watcher = "boot" THEN "first" ELSE "rescan"
  /\ todo' = Watched /\ reading' = Nothing
  /\ UNCHANGED <<disk, broken, fingerprint, writing, requestVars>>

\* Faulty variant: the fingerprint is taken at the start only.
RememberFirst ==
  /\ watcher \in {"first", "rescan"} /\ todo = {}
  /\ fingerprint' = IF watcher = "first" THEN On(Watched, reading) ELSE fingerprint
  /\ writing' = FALSE
  /\ watcher' = "sleep" /\ reading' = Nothing
  /\ UNCHANGED <<disk, broken, todo, pool, hashCache, requestVars>>

\* recipeFingerprint = scanRecipeFingerprint(), at the start or after a reload
Remember ==
  /\ watcher \in {"first", "rescan"} /\ todo = {}
  /\ fingerprint' = On(Watched, reading)
  /\ writing' = FALSE
  /\ watcher' = "sleep" /\ reading' = Nothing
  /\ UNCHANGED <<disk, broken, todo, pool, hashCache, requestVars>>

Tick ==
  /\ watcher = "sleep"
  /\ watcher' = "scan" /\ todo' = Watched
  /\ UNCHANGED <<disk, broken, reading, pool, fingerprint, hashCache, writing, requestVars>>

Compare ==
  /\ watcher = "scan" /\ todo = {}
  /\ IF On(Watched, reading) = fingerprint
     THEN watcher' = "sleep" /\ UNCHANGED writing
     ELSE watcher' = "lock" /\ writing' = TRUE
  /\ reading' = Nothing
  /\ UNCHANGED <<disk, broken, todo, pool, fingerprint, hashCache, requestVars>>

\* Faulty variant: the reload does not wait for the readers.
LockAtOnce ==
  /\ watcher = "lock"
  /\ watcher' = "load" /\ todo' = Loaded
  /\ UNCHANGED <<disk, broken, reading, pool, fingerprint, hashCache, writing, requestVars>>

\* reloadMu.Lock() returns when the last reader is gone.
Lock ==
  /\ watcher = "lock"
  /\ \A q \in Requests : request[q] = "idle"
  /\ watcher' = "load" /\ todo' = Loaded
  /\ UNCHANGED <<disk, broken, reading, pool, fingerprint, hashCache, writing, requestVars>>

Watcher == (\E f \in Files : ReadFile(f) \/ StatFile(f)) \/ LoadFails \/ Install
           \/ Remember \/ Tick \/ Compare \/ Lock

-----------------------------------------------------------------------------
(***************************************************************************)
(* A handler: reloadMu.RLock, a loop over recipes that calls Hash for each *)
(* (a map's order is any order), reloadMu.RUnlock.  Hash looks into        *)
(* hashCache and writes it under hashMu, but computes without.             *)
(***************************************************************************)
Orders == {s \in SeqOf(Recipes, Cardinality(Recipes)) : s # <<>> /\ IsInjective(s)}

\* Faulty variant: a lock that lets readers pass a waiting writer.
BeginAhead(q) ==
  /\ request[q] = "idle" /\ watcher \in {"first", "sleep", "scan", "lock"}
  /\ request' = [request EXCEPT ![q] = "lookup"]
  /\ \E s \in Orders : wanted' = [wanted EXCEPT ![q] = s]
  /\ UNCHANGED <<disk, broken, watcherVars, hashCache, hash>>

Begin(q) ==
  /\ request[q] = "idle" /\ ~writing /\ watcher \notin {"boot", "exit"}
  /\ request' = [request EXCEPT ![q] = "lookup"]
  /\ \E s \in Orders : wanted' = [wanted EXCEPT ![q] = s]
  /\ UNCHANGED <<disk, broken, watcherVars, hashCache, hash>>

\* The hash is there: on to the next recipe, or the end of the request.
Hashed(q) ==
  /\ wanted' = [wanted EXCEPT ![q] = Tail(@)]
  /\ request' = [request EXCEPT ![q] = IF Len(wanted[q]) = 1 THEN "idle" ELSE "lookup"]

Lookup(q) ==
  /\ request[q] = "lookup"
  /\ IF hashCache[Head(wanted[q])] # None
     THEN Hashed(q)
     ELSE request' = [request EXCEPT ![q] = "compute"] /\ UNCHANGED wanted
  /\ UNCHANGED <<disk, broken, watcherVars, hashCache, hash>>

Compute(q) ==
  /\ request[q] = "compute"
  /\ hash' = [hash EXCEPT ![q] = pool]
  /\ request' = [request EXCEPT ![q] = "store"]
  /\ UNCHANGED <<disk, broken, watcherVars, hashCache, wanted>>

Store(q) ==
  /\ request[q] = "store"
  /\ hashCache' = [hashCache EXCEPT ![Head(wanted[q])] = hash[q]]
  /\ hash' = [hash EXCEPT ![q] = None]
  /\ Hashed(q)
  /\ UNCHANGED <<disk, broken, watcherVars>>

Handler(q) == Lookup(q) \/ Compute(q) \/ Store(q)

Next == (\E f \in Files : Edit(f)) \/ Watcher \/ \E q \in Requests : Begin(q) \/ Handler(q)

Spec == Init /\ [][Next]_vars

\* The ticker ticks, goroutines are scheduled; nobody has to edit or ask.
Fairness == WF_vars(Watcher) /\ \A q \in Requests : WF_vars(Handler(q))

FairSpec == Spec /\ Fairness

-----------------------------------------------------------------------------
(***************************************************************************)
(* A hash is never that of an older recipe graph: what hashCache holds,    *)
(* and what a handler is about to put there, was computed from the pool    *)
(* the server has now.  Load replaces the pool and empties the cache in    *)
(* two steps, and Hash looks, computes and stores in three: the hash names *)
(* the artifact, so a stale one shows or builds the wrong package.         *)
(***************************************************************************)
HashIsCurrent ==
  /\ \A r \in Recipes : hashCache[r] \in {None, pool}
  /\ \A q \in Requests : hash[q] \in {None, pool}

(***************************************************************************)
(* A request sees one recipe graph from its beginning to its end.          *)
(***************************************************************************)
StableDuringRequest ==
  [][(\E q \in Requests : request[q] # "idle") => pool' = pool]_vars

(***************************************************************************)
(* A recipe that changes while the watcher sleeps is in the graph some     *)
(* time later, unless a file stays broken for ever.  A reload that failed  *)
(* is tried again at every tick until it succeeds, also when the repair is *)
(* in a file the fingerprint does not cover, and requests cannot starve it.*)
(***************************************************************************)
EditIsSeen ==
  \A r \in Recipes : \A v \in 1..MaxEdits :
    (watcher = "sleep" /\ disk[r] = v /\ fingerprint[r] # v)
      ~> (pool[r] >= v \/ [](broken # {}))

(***************************************************************************)
(* Once the files stay as they are and can be parsed, the watcher stops    *)
(* reloading.  While a file stays broken it reloads at every tick: nothing *)
(* is said of that here, EditIsSeen depends on it.                         *)
(***************************************************************************)
CalmsDown == <>[](watcher \in {"sleep", "scan", "exit"} \/ broken # {})
=============================================================================
