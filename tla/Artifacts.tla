----------------------------- MODULE Artifacts -----------------------------
(***************************************************************************)
(* Builds and the artifact cache (tools/ignite/ignite.go, SetupContainer    *)
(* .. Pack; main.go, build, buildOne, pull).  One command at a time runs,   *)
(* as the job server runs them, while people edit recipes and open and      *)
(* close workspaces.                                                        *)
(*                                                                         *)
(* The text of a recipe is a version number.  The hash of a recipe is the   *)
(* set of the texts it is computed from, its own and those below it: a hash *)
(* without collisions.  An artifact remembers its ingredients, which text   *)
(* of which recipe went into it and if with the sources of a workspace.     *)
(* Which sources checksum.lock pins is no part of a hash, and is left out;  *)
(* ccache is not counted as an ingredient.  The graph is fixed, without     *)
(* cycles and without missing recipes; what Resolve and Hash do with others *)
(* is the module Resolve, and what it shows of a plan is used here: a plan  *)
(* is a set that is gone through in any order in which a recipe comes after *)
(* those it needs.                                                          *)
(***************************************************************************)
EXTENDS Naturals

CONSTANTS
    Recipes,
    Below,          \* what each recipe needs to be built, directly or not
    RunsWith,       \* what each recipe needs to run, directly or not
    Contained,      \* the recipes that say `container: true'
    Published,      \* the recipes whose first version artifact-url offers
    Requests,       \* the sets of recipes a command may be called with
    Nothing,        \* no recipe, no file
    MaxEvents       \* bound on the edits, workspaces opened and closed, ...

ASSUME ArtifactsAssumption ==
    /\ Below \in [Recipes -> SUBSET Recipes]
    /\ \A r \in Recipes : r \notin Below[r] /\ \A q \in Below[r] : Below[q] \subseteq Below[r]
    /\ RunsWith \in [Recipes -> SUBSET Recipes]
    /\ Contained \subseteq Recipes /\ Published \subseteq Recipes
    /\ Requests \subseteq SUBSET Recipes
    /\ MaxEvents \in Nat /\ Nothing \notin Recipes

VARIABLES
    text,       \* the version of each recipe on disk
    open,       \* the recipes with a workspace
    cache,      \* the files of <cache>/cache
    proc,       \* the running command
    calm,       \* (history) no workspace came or went since it started
    events      \* bound: what people have done so far

vars == <<text, open, cache, proc, calm, events>>
outside == <<text, open, events>>

Needs(r) == {r} \cup Below[r]

\* Ignite.Hash in a process that has loaded the texts `pool'.
Hash(pool, r) == {<<q, pool[q]>> : q \in Needs(r)}

\* PackageName and workspacePackageName.
Package(pool, r) == [recipe |-> r, hash |-> Hash(pool, r), edited |-> FALSE]
WorkspacePackage(pool, r) == [recipe |-> r, hash |-> Hash(pool, r), edited |-> TRUE]
\* Faulty variant: workspaces have no package of their own.
PlainCacheFile(pool, r) == Package(pool, r)
CacheFile(pool, r) ==
    IF r \in open THEN WorkspacePackage(pool, r) ELSE Package(pool, r)

Source == {"locked", "workspace"}
Ingredient == [recipe : Recipes, text : Nat, source : Source]
Artifact == [made : SUBSET Ingredient, whole : BOOLEAN]
Name == [recipe : Recipes, hash : SUBSET (Recipes \X Nat), edited : BOOLEAN]
Texts(made) == {<<i.recipe, i.text>> : i \in made}

\* `pool': the texts the process has loaded; `plan': what is left to build or
\* pull, `now' of it under way; `todo': what is left to unpack into the build
\* root; `root': what is in it; `path': the file `now' is to be written to.
Steps == {"idle", "next", "integrate", "prepare", "compile", "pack",
          "download"}
Process == [cmd : {"none", "build", "build-one", "pull"}, step : Steps,
            pool : [Recipes -> Nat], goal : SUBSET Recipes,
            plan : SUBSET Recipes, now : Recipes \cup {Nothing},
            todo : SUBSET Recipes, root : SUBSET Ingredient,
            path : Name \cup {Nothing}]
Idle == [cmd |-> "none", step |-> "idle", pool |-> [r \in Recipes |-> 0],
         goal |-> {}, plan |-> {}, now |-> Nothing, todo |-> {}, root |-> {},
         path |-> Nothing]
Busy == proc.cmd # "none"

\* The types of the variables; a command that builds has a recipe to build.
TypeOK ==
    /\ text \in [Recipes -> Nat] /\ open \subseteq Recipes
    /\ \A n \in DOMAIN cache : n \in Name /\ cache[n] \in Artifact
    /\ proc \in Process
    /\ proc.step \notin {"idle", "next"} => proc.now \in proc.plan
    /\ proc.step \in {"idle", "next"} => proc.now = Nothing
    /\ calm \in BOOLEAN /\ events \in 0 .. MaxEvents

Init ==
    /\ text = [r \in Recipes |-> 0]
    /\ open = {} /\ cache = << >>
    /\ proc = Idle
    /\ calm = TRUE /\ events = 0

-----------------------------------------------------------------------------
(* What people do meanwhile. *)

Event == events < MaxEvents /\ events' = events + 1                   \* bound

EditRecipe(r) ==
    /\ Event
    /\ text' = [text EXCEPT ![r] = @ + 1]
    /\ UNCHANGED <<open, cache, proc, calm>>

OpenWorkspace(r) ==
    /\ Event /\ r \notin open
    /\ open' = open \cup {r} /\ calm' = FALSE
    /\ UNCHANGED <<text, cache, proc>>

CloseWorkspace(r) ==
    /\ Event /\ r \in open
    /\ open' = open \ {r} /\ calm' = FALSE
    /\ UNCHANGED <<text, cache, proc>>

-----------------------------------------------------------------------------
(* Planning: what Resolve returns for a graph without cycles. *)

\* Faulty variant: a workspace does not count.
AvailableAnyhow(pool, r) == Package(pool, r) \in DOMAIN cache
Available(pool, r) == r \notin open /\ Package(pool, r) \in DOMAIN cache
Cached(pool, r) == \A q \in Needs(r) : Available(pool, q)
Uncached(ids) == {r \in UNION {Needs(i) : i \in ids} : ~Cached(text, r)}

Start(cmd, ids, plan) ==
    /\ ~Busy
    /\ proc' = [Idle EXCEPT !.cmd = cmd, !.step = "next", !.pool = text,
                            !.goal = ids, !.plan = plan]
    /\ calm' = TRUE
    /\ UNCHANGED <<outside, cache>>

\* ignite build: one process loads the recipes, plans and builds.
StartBuild(ids) == Start("build", ids, Uncached(ids))
\* ignite build-one, which the job server runs for each recipe of a plan.
StartBuildOne(r) == Start("build-one", {r}, {r})
StartPull(ids) == Start("pull", ids, Uncached(ids))

\* The command ends without an error.
Succeed ==
    /\ proc.step = "next" /\ proc.plan = {}
    /\ proc' = Idle
    /\ UNCHANGED <<outside, cache, calm>>

-----------------------------------------------------------------------------
(* Build(recipe) for one recipe of the plan after the other *)

\* What may come next of the recipes that are left.
First(left) == {r \in left : Below[r] \cap left = {}}
Step(label) == proc' = [proc EXCEPT !.step = label]
Fail == proc' = Idle

NeedsContainer(r) == \E q \in {r} \cup RunsWith[r] : q \in Contained

\* SetupContainer: a fresh build root; with a container, what is to go into it.
Setup(r) ==
    /\ proc.step = "next" /\ proc.cmd # "pull" /\ r \in First(proc.plan)
    /\ proc' = [proc EXCEPT !.step = "integrate", !.now = r, !.root = {},
                            !.todo = IF NeedsContainer(r) THEN Below[r] ELSE {}]
    /\ UNCHANGED <<outside, cache, calm>>

Integratable(q) ==
    LET file == CacheFile(proc.pool, q)
    IN  file \in DOMAIN cache /\ cache[file].whole

\* Integrate: the artifact of one dependency is unpacked into the root.  tar
\* fails if there is none or only a part of one.
Integrate(q) ==
    /\ proc.step = "integrate" /\ q \in First(proc.todo)
    /\ IF Integratable(q)
       THEN proc' = [proc EXCEPT
                !.todo = @ \ {q},
                !.root = @ \cup cache[CacheFile(proc.pool, q)].made]
       ELSE Fail
    /\ UNCHANGED <<outside, cache, calm>>

\* packagePath := i.CacheFile(recipe)
Choose ==
    /\ proc.step = "integrate" /\ proc.todo = {}
    /\ proc' = [proc EXCEPT !.step = "prepare",
                            !.path = CacheFile(proc.pool, proc.now)]
    /\ UNCHANGED <<outside, cache, calm>>

Sources(r) == IF r \in open THEN "workspace" ELSE "locked"

\* The workspace is copied, or the sources are unpacked as the lock pins them.
\* The script and everything else of the text is what the process has loaded.
\* Faulty variant: the recipe is read from disk once more.
PrepareAgain ==
    /\ proc.step = "prepare"
    /\ proc' = [proc EXCEPT
            !.step = "compile",
            !.root = @ \cup {[recipe |-> proc.now, text |-> text[proc.now],
                              source |-> Sources(proc.now)]}]
    /\ UNCHANGED <<outside, cache, calm>>
Prepare ==
    /\ proc.step = "prepare"
    /\ proc' = [proc EXCEPT
            !.step = "compile",
            !.root = @ \cup {[recipe |-> proc.now, text |-> proc.pool[proc.now],
                              source |-> Sources(proc.now)]}]
    /\ UNCHANGED <<outside, cache, calm>>

Written(name, art) ==
    cache' = [n \in DOMAIN cache \cup {name} |-> IF n = name THEN art ELSE cache[n]]

\* CompileSource succeeded; Pack lets tar write the artifact under its name ...
BeginPack ==
    /\ proc.step = "compile"
    /\ Written(proc.path, [made |-> proc.root, whole |-> FALSE])
    /\ Step("pack")
    /\ UNCHANGED <<outside, calm>>

\* Faulty variant: stays where it is.
DoneHere == proc' = [proc EXCEPT !.plan = @ \ {proc.now}]
Done == proc' = [proc EXCEPT !.step = "next", !.plan = @ \ {proc.now},
                             !.now = Nothing, !.todo = {}, !.root = {},
                             !.path = Nothing]

\* ... and waits for it.
EndPack ==
    /\ proc.step = "pack"
    /\ Written(proc.path, [made |-> proc.root, whole |-> TRUE])
    /\ Done
    /\ UNCHANGED <<outside, calm>>

\* The build root cannot be cleaned, the sources do not unpack, a script or tar
\* fails; curl does not reach the server.
\* Faulty variant: goes on with the next recipe.
BuildSkips ==
    /\ proc.step \in {"integrate", "prepare", "compile", "pack"}
    /\ Done
    /\ UNCHANGED <<outside, cache, calm>>
BuildFails ==
    /\ proc.step \in {"next", "integrate", "prepare", "compile", "pack"}
    /\ proc.plan # {}
    /\ Fail
    /\ UNCHANGED <<outside, cache, calm>>

-----------------------------------------------------------------------------
(* pull *)

\* A recipe with a workspace is skipped.
SkipPull(r) ==
    /\ proc.step = "next" /\ proc.cmd = "pull" /\ r \in First(proc.plan)
    /\ r \in open
    /\ proc' = [proc EXCEPT !.plan = @ \ {r}]
    /\ UNCHANGED <<outside, cache, calm>>

\* curl -C - opens the file under its final name and goes on at its end.
BeginDownload(r) ==
    /\ proc.step = "next" /\ proc.cmd = "pull" /\ r \in First(proc.plan)
    /\ r \notin open
    /\ proc' = [proc EXCEPT !.step = "download", !.now = r,
                            !.path = Package(proc.pool, r)]
    /\ IF Package(proc.pool, r) \in DOMAIN cache THEN UNCHANGED cache
       ELSE Written(Package(proc.pool, r), [made |-> {}, whole |-> FALSE])
    /\ UNCHANGED <<outside, calm>>

Offered(name) == name.recipe \in Published /\ \A t \in name.hash : t[2] = 0
Upstream(name) == {[recipe |-> t[1], text |-> t[2], source |-> "locked"] : t \in name.hash}

\* What there is after a download that curl calls a success: the artifact, or
\* the page that says there is none.  After a complete file its tail is appended
\* unless it has the same length, and after a part of a local build it fits only
\* if the builds are equal.
Downloaded(name) ==
    LET old == cache[name]
        offered == [made |-> Upstream(name), whole |-> TRUE]
        mixed == [made |-> old.made \cup Upstream(name), whole |-> FALSE]
    IN  IF ~Offered(name) THEN {old}
        ELSE IF old.whole THEN {old, [made |-> old.made, whole |-> FALSE]}
        ELSE IF old.made = {} THEN {offered} ELSE {offered, mixed}

EndDownload ==
    /\ proc.step = "download"
    /\ \E art \in Downloaded(proc.path) : Written(proc.path, art)
    /\ Done
    /\ UNCHANGED <<outside, calm>>

DownloadFails ==
    /\ proc.step = "download" /\ Fail
    /\ UNCHANGED <<outside, cache, calm>>

\* The command is killed: a cancel, a power failure.
Killed ==
    /\ Busy /\ proc' = Idle
    /\ UNCHANGED <<outside, cache, calm>>

People == \E r \in Recipes :
    EditRecipe(r) \/ OpenWorkspace(r) \/ CloseWorkspace(r)
Command ==
    \/ \E ids \in Requests : StartBuild(ids) \/ StartPull(ids)
    \/ \E r \in Recipes :
        StartBuildOne(r) \/ Setup(r) \/ Integrate(r) \/ SkipPull(r) \/ BeginDownload(r)
    \/ Choose \/ Prepare \/ BeginPack \/ EndPack \/ BuildFails
    \/ EndDownload \/ DownloadFails \/ Succeed

Next == People \/ Command \/ Killed
Spec == Init /\ [][Next]_vars

-----------------------------------------------------------------------------
(* Properties *)

\* Every file of the cache was made from the texts its name is the hash of,
\* and an artifact built in a container from all of them: whatever is edited
\* between a plan and its builds, or between loading and packing.
NamesAreTrue ==
    \A n \in DOMAIN cache :
        /\ Texts(cache[n].made) \subseteq n.hash
        /\ cache[n].whole /\ NeedsContainer(n.recipe)
             => Texts(cache[n].made) = n.hash

\* `ignite build' never misses a dependency: if no workspace came or went, each
\* artifact it unpacks was in the cache when it planned or it has built it.
NothingMissing ==
    (proc.cmd = "build" /\ calm) =>
        \A q \in proc.todo : CacheFile(proc.pool, q) \in DOMAIN cache

\* A build that succeeds has left an artifact of everything it was asked for, so
\* that building it again has nothing to do.  This is about the files being there,
\* as the code looks at them; one it took as cached may be incomplete
\* (CachedIsWhole).
BuildDelivers ==
    [][(Succeed /\ proc.cmd = "build" /\ calm) =>
        \A i \in proc.goal : \A q \in Needs(i) :
            CacheFile(proc.pool, q) \in DOMAIN cache]_vars

\* What is built from a workspace is stored as the workspace's package, and what
\* is not is not: unless a workspace came or went between the two looks at it.
WorkspacesShow ==
    (proc.step \in {"compile", "pack"} /\ calm) =>
        (proc.path.edited <=> \E i \in proc.root : /\ i.recipe = proc.now
                                                  /\ i.source = "workspace")

\* "Print if artifact is cached or need to build": what counts as cached is a
\* complete artifact.
CachedIsWhole ==
    ~Busy => \A r \in Recipes : Cached(text, r) => cache[Package(text, r)].whole

=============================================================================
