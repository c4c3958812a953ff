# ignite in TLA+

This directory models and verifies `ignite`, the build system of the
distribution in this repository (`tools/ignite`): the job server behind
`ignite server`, the dependency resolution, the recipe watcher, the source cache
with `checksum.lock`, the source workspaces, builds with their artifact cache, the
recipe files, and the build server as a whole.  TLC checks the models on small
instances; TLAPS proves their safety properties for every size.

    tlasany M.tla
    tlc -workers 2 -config X.cfg MC_M.tla      (RecipeWatcher needs no MC module)
    tlapm RecipeFilesProofs.tla                (and the other *Proofs modules)

## 1. The system

The repository is a distribution: 1200 recipes (`elements/`), patches and
files, and the programs that turn them into packages, images and installed
machines.  The logic is in these parts.

| part | source | state | operations | talks to |
|---|---|---|---|---|
| job server | `tools/ignite/dashboard.go` | queue, active job, history, each job's state and pid; mutex + condition variable | enqueue (one job, or a build plan), cancel, worker loop, run of the child processes | HTTP clients; starts `ignite` processes, one at a time |
| dependency resolution | `ignite.go` `Resolve`, `Hash`, `NeedsContainer` | none of its own (visited, output, the recursion) | plan for a list of ids; cache decision; host or container | reads pool, artifact cache, workspaces; called by the job server and by every command |
| recipe store and watcher | `ignite.go` `Load`, `dashboard.go` `watchRecipeLoop` | pool, hash cache, fingerprint, `reloadMu`, `hashMu` | load, scan, reload, hash | reads `elements/`; read by the handlers |
| sources and lock | `ignite.go` `FetchSources` .. `prepareSources` | `<cache>/sources`, `checksum.lock` | fetch, verify, unpack | web, git, project files; used by builds |
| workspaces | `ignite.go` `WorkspaceInit` .. `WorkspaceFinishGit` | a directory per recipe, its git history | open, export patches or commits, close | edits recipes, patches and the lock |
| build and artifact cache | `ignite.go` `SetupContainer` .. `Pack`, `main.go` `pull` | `<cache>/cache`, build roots | integrate, compile, strip, pack, pull | reads artifacts of dependencies |
| recipe files | `config.go`, `recipe.go`, `appendSourcesToRecipeFile` | a document while it is loaded; the recipe's text | merge, substitute, add patches | reads and edits `elements/` |
| processes and containers | `executor.go` | none | run | everything |
| command line, client, web page | `main.go`, `client.go`, `dashboard/` | none | parse, post, render | job server |
| installer, first boot | `files/initial-setup/` | the disks | partition, install A/B images | |
| initramfs | `files/initramfs/init.in` | mounts | choose and mount the root image | |
| releases | `scripts/commit-ostree.sh`, `Makefile`, workflow | the ostree repository | commit, sign, publish | |
| reports, desktop, 2in1, data | `scripts/*.py`, `files/` | none | | |

What is hard in them, and what makes them correct:

* **Job server.**  Handlers and the worker share the jobs; the worker reads and
  writes `job.State` *without* the mutex, and cancel looks a job up and acts on
  it in two critical sections.  Correct when no job is lost, repeated or
  misreported, the jobs of a plan run in order, one build runs at a time, a
  cancel that reached the child sticks, and every job ends.
* **Resolution.**  A depth-first search with a visited set, decisions made from
  a mix of memo and disk, and a recursive hash without a visited set.  Correct
  when plans are complete and in order and a stale artifact is never reused.
* **Watcher.**  Files change while they are read; reloads race requests.
  Correct when hashes belong to the graph in service, a request sees one graph,
  and edits arrive.
* **Sources.**  Commands are killed anywhere, origins change under them.
  Correct when a build uses what the lock pins or fails.
* **Workspaces, artifacts.**  Several durable steps, each of which may be the
  last; artifacts written under their final names.
* **The server and its builds.**  A plan is made from one state of the recipes and
  run later, job by job, by processes that load them anew; nothing but the order
  of the queue tells a job that another comes first.  Correct when what the
  dashboard shows of the jobs explains what is in the cache.
* **Recipe files.**  Files merge files that merge files; variables are replaced by
  texts with variables; a text editor edits what a parser has read.  Correct when
  the recipe means what its files say and an edit changes nothing else.
* **Installer, initramfs, releases.**  Order of checks and irreversible steps, in
  scripts that run once from top to bottom.

`PROJECT.json` lists the hazards line by line.

## 2. The modules

| module | models | checked by |
|---|---|---|
| `JobQueue` | the abstract promise: a line of jobs, served one at a time in order, settled for good | |
| `JobServer` | `dashboard.go`: handlers, worker, child process, mutex sections | `JobServer`; `BuildFarmProofs` |
| `Resolve` | `Resolve` and what `Hash` contributes | `Resolve`; `ResolveProofs` |
| `RecipeWatcher` | `Load`, `watchRecipeLoop`, `reloadRecipes`, `Hash` and its cache | `RecipeWatcher`; `RecipeWatcherProofs` |
| `SourceStore` | `FetchSources`, `FetchSourceFile`, `FetchGitSource`, `prepareSources`, the lock | `SourceStore`; `SourceStoreProofs` |
| `Workspace` | `WorkspaceInit`, `WorkspaceFinish`, `RecordWorkspacePatches` and the patches of a project | `Workspace`; `WorkspaceProofs` |
| `GitWorkspace` | `WorkspaceFinishGit`, the repositories and branches it moves work between | `GitWorkspace`, `GitWorkspace_local`; `GitWorkspaceProofs` |
| `Artifacts` | `build`, `build-one`, `pull`, `SetupContainer` .. `Pack`, the artifact cache | `Artifacts`, `Artifacts_killed`; `ArtifactsProofs` |
| `BuildFarm` | `JobServer` and `Artifacts` composed: the jobs of build plans and the processes they run | `BuildFarm`; `BuildFarmProofs` |
| `RecipeFiles` | `UpdateFrom`, `mergeYAML`, `ResolveSources`, `RecordWorkspacePatches` with `appendSourcesToRecipeFile` | `RecipeFiles`, `RecipeFiles_inherited`; `RecipeFilesProofs` |

`MC_<M>` extends `<M>` with the constants and the symmetry TLC needs and nothing
else; the constants of `JobServer` and `RecipeWatcher` are all given in their cfgs.  A definition whose comment begins "Faulty variant" is not part of a
model: it is the definition below it with a bug somebody could write, and put
in its place it makes TLC find the property violated that is there to catch it.

### JobServer

`queue`, `history`, `active` are the fields of `Dashboard`; `state`, `pid` those
of a `BuildJob` (pid: is it set).  `commands[j]` is the number of `ignite`
processes a job runs one after the other (one for build, fetch and status, one
per recipe for workspace jobs); `passed[j]` counts those that exited with 0 and
is what the reported state is compared with.  `worker` and `handler[c]` say
which statement the goroutine runs next: one action per critical section of
`d.mu` and one per access to `job.State` outside it (`Judge`, `Verdict`,
`WriteState`, `OpenLog`), so that a cancel may fall between any two.  A build
request enqueues its plan job by job (`RequestPlan`, `EnqueueJob`, `Broadcast`),
any other request one job (`RequestJob`); which plan it is does not matter to
the server.  `FindJob` and `CancelJob` are the two critical sections of a
cancel.  A signal changes nothing for a child that has ended already; a
signalled child may still end with status 0.

Left out: log files and their stream, timestamps and exit codes, the reply of
`GET /api/builds`, `stopping` (set when `ListenAndServe` has returned and the
process is about to exit), a crash of the server, an HTTP client that goes away
(handlers do not look).

### Resolve

The recursion of `dfs` is an explicit stack of frames `[id, next]`.  `EnterTop`
is the loop over the requested ids (it does not ask `visited`), `Skip` and
`Descend` are the loop over the dependencies, `Emit` is everything after it,
`HashFails` the two ways `Hash` prevents a plan.  A hash is not computed: of
`Hash` the plan sees that it fails for a missing recipe anywhere below and that
it never returns on a cycle.  An artifact is the file named by the hash the
recipe has now; when an input changes, the recipe simply has no artifact.

### RecipeWatcher

The content of a file is its version number.  Loading and scanning read file by
file (`ReadFile`, `StatFile`); `Edit` changes any file between any two reads,
and may leave a text that does not parse.  A load that fails keeps the old fingerprint and
is tried again at every tick; `EditIsSeen` requires that this ends with the edit in the
graph, unless some file stays broken for ever, while `CalmsDown`, that reloading stops,
says nothing as long as a file is broken.  `Includes` are the files recipes
merge: `Load` reads them, the fingerprint does not cover them.  A request
(`Begin` .. `Store`) holds `reloadMu` for reading and hashes some recipes in
some order; the value of a hash stands for the pool it was computed from.
`writing` is the pending writer of a Go `RWMutex`, which keeps new readers out.
Abstracted: an include that several recipes merge is read once per load, and a
recipe's hash stands for the whole pool instead of the part below the recipe.

### SourceStore

One source of each kind: an archive from the web, a file of the project, a git
branch, a git clone without a ref.  A file's content is the set of origin
versions its bytes came from (a download resumed with `wget -c` may mix two)
and whether its writer got to the end; a checksum is that content.  `Killed`
ends the running command between any two steps and leaves the disk as it is.
`EmptyLock` and `WriteLock` are the two effects of `os.WriteFile`.  A git
operation is one step (git's own crash safety is taken for granted) and commits
do not vanish from remotes.  What `Expected`, `ObtainGit` and `Sum` do for git
follows `-force`, the map of the fetch and the lock as in the code.

### Workspace

A source tree is the set of its items; a patch adds some and removes some, and
applies to a tree that lacks the one and has the other, which is what `patch -N`
tells apart.  `listed` is the recipe's list of patches, `exported` the files in
`patches/<recipe>`, `pins` the entries of `checksum.lock`; `readable` is FALSE
between the two effects of `os.WriteFile` on the recipe.  `pc` walks through
`WorkspaceFinish`: a workspace with quilt patches goes through `Refresh` and one
`Export` per patch, one without through `Diff` and a single `Export`; then
`Record`, `Rewrite`, `Lock`, `Relock`, `Close`.  `Prepared` is `prepareSources`:
the tree the project unpacks to, or nothing if an entry is missing or a patch
does not apply.  `Killed` leaves at each step what the step leaves.

`owed`, `saved` and `damage` are history: the changes that were in the
directory when a finish of this workspace started, the tree the recipe was last written for, and whether a kill has emptied the lock
(until the next fetch) or a finish was started on a workspace whose patches an
earlier one had recorded.  `ClosedRebuilds` excludes the last case because the
code does not survive it: killed after `Rewrite` and started again,
`workspace-finish` exports and lists the same changes a second time, and the
second patch does not apply to the result of the first; killed during the removal
and started again, it exports the files that are already gone as deletions.  No
doc promises more.

`WorkIsSomewhere` excludes no kills and no retries.  It allows for one loss, which
is what the code does: a workspace with quilt patches exports those and nothing else,
so an edit of a file that no quilt patch tracks is deleted with the directory.
`beside`, history as well, collects those edits (`ws.plain`) from every finish that
goes through `Refresh`; `WorkIsSomewhere` says that they are all that can be lost.
(They are lost: without `beside`, TLC finds the property violated by opening a
workspace, editing one file, adding another to a new quilt patch, and finishing.)

The model leaves out patch names (a patch is its number, so two patches collide
only if their numbers do; the code also compares the rest of the name), fuzz, and
quilt pop.

### GitWorkspace

`commits` is every commit that was made, a commit its past and its tree;
repositories are the sets of commits they have (`remote`, `clone`, `ws.has`),
branches are commits (`main`, which the recipe follows, and `branch`, to which
workspaces push).  `kept` says which `.ignite-workspace/original` a commit has:
`git add -A` commits that directory, and `git status` (`Dirty`) lists it until
then.  `Push` is rejected unless it is a fast-forward; `PushFails` is also the
network.  Others commit upstream and to the workspace branch (`OthersPush`, after which
the pushes of a workspace without that commit are rejected), people commit by hand,
`fetch -force` clones again and pins the branch.  `forced` is history: that has happened
since the last finish started, and the pin is not the finish's any more.  Each git command is one step; the lock is emptied and
written in two.  The bound `MaxCommits` is in the guard of every commit.

### Artifacts

The text of a recipe is a version number; a hash is the set of the texts it
covers, so that two hashes are equal only if all those texts are; a package name is
recipe, hash and whether it has the `-workspace` suffix.  `cache` maps the names of
existing files to what is in them: the ingredients and whether the writer got to
its end.  `proc` is the running command: the texts it has loaded (`pool`), its plan,
the build in progress.  A plan is a set, gone through in any order in which a recipe
comes after those it needs; that `Resolve` delivers such an order is the subject of
the module `Resolve`.  `Setup` .. `EndPack` are the statements of `Build`, between any
two of which people may edit a recipe or open or close a workspace; `BeginPack` and
`EndPack` are the two ends of tar's write to the final name, `BeginDownload` and
`EndDownload` those of curl's.  `calm` is history: no workspace came or went since
the command started.

`checksum.lock` is no part of a hash (`Hash` covers texts), so the model leaves the
pins out.  That is a limit of the code worth knowing: after `workspace-finish` of a
git source, or `fetch -force`, the artifact of the old sources still counts as
cached.  So is this: a dependent that was built against the package of a workspace
is stored under its plain name and remains when the workspace is given up.

Left out: the `.dbg` package that Pack writes next to the package in either order,
packages copied into others (`include`, below the install root), `ccache` as an
ingredient, and two `ignite` processes at once (the job server runs one at a time;
what a person starts beside it is coordinated by nothing).  Commands end; `build`
plans and builds in one process, the job server plans in its own and starts one
`build-one` per recipe, which is `StartBuildOne` at any time and for any recipe:
plans gone stale, dependents of failed jobs and jobs in any order included.

### BuildFarm

`BuildFarm` extends `JobServer` and instantiates `Artifacts`; every action is one of
the first, one of the second, or one of each: the start, the exit and the death of a
child (`StartChild`, `ChildSucceeds`, `ChildFails`).  `served` is the pool the server
has loaded, which `Reload` brings up to date some time after an edit (why and when is
the subject of `RecipeWatcher`); `order[c]` is what is left of the plan of a request,
made by `Plan` and `Sorted` from that pool and from the cache as it is;
`recipe[j]` the recipe of a job.  `asked`, `planned`, `since` and `made` are history:
what a client asked for, what had happened when its plan was made, and which files
the child of a job chose to write.

A job is run whatever became of those before it; its process loads the recipes anew,
may be killed at any step, and leaves what it has written.  `BlameIsShown` says that
this cannot end in a mystery: if a build misses a dependency, a job on that very
dependency is shown as failed or cancelled, or somebody has edited something since.
`PlanDelivers` says what a green plan is worth, `SuccessLasts` what a green job is
worth later, when other plans have built the same recipe again.

Left out: commands from a terminal beside the server, its death (the child, in a
process group of its own, would go on and the queue be forgotten), and a recipe listed
twice in one request, of which `Resolve` makes two jobs.

### RecipeFiles

A document is a mapping from keys to scalars, lists and mappings; the recipe itself is
kept as lines (`key: value`, `key:`, `- item`, others), because `workspace-finish`
edits lines, and `Parse` is what the parser reads from them.  `stack` holds the calls
of `UpdateFrom` under way, each with the directory it looks in and the names it has
still to merge; a name is looked for beside the file that mentions it, in the project,
and among the files ignite makes up (`Found`).  A scalar is a list of words, variables
and parts of the version; `Replace` is one turn of the loop of `resolveTemplate`, which
replaces the leftmost variable and starts again.

The properties compare this with reference definitions that have neither stack nor
loop: `Visits` lists the files of a load, `Meaning` says where the value of a variable
is found, `Spelled` what one piece of a scalar becomes and `SpelledOut` what all of it
does.  `Spelled` is a function of the depth it goes to and is cut off at `MaxPieces`;
`WithinBound` says that no source of the recipe needs more, which is so in every state
of the run in which the sources are resolved.  `LoadsEnd` allows for circles of files or
variables: the code does not notice them, and goes on until the memory is used up.

`RecipeFilesAssumption` is what the code relies on without looking.  The texts are ones
that parse, with keys, items and other lines (`IsText`: a key with a value of its own
has no items below it).  The recipe is none of the files beside it, and the part of a
version has a number.  A patch has a name of plain words with one that is in nothing
else that was written (`IsNew`): `nextPatchPath` takes the name of no file there is,
so a recipe can at most list the patch itself.

Left out: YAML's other forms, `%{version:_}`, and the environment.  `%{version:n}`
with an empty version makes the code panic (`version[pos+1:]`).  The lock entries of
new patches are in `Workspace`.

## 3. The runs

| run | instance | states | shows |
|---|---|---|---|
| `JobServer` | 2 jobs, 2 requests at a time, plans of up to 2, up to 2 commands, history of 1, fair | 335 k | `OnePlace`, `PlanOrder`, `TrueOutcome`, `OneChild`, `ArchivedIsFinal`, `KilledStaysCancelled`, `EveryJobSettles`, `ImplementsQueue`, no deadlock |
| `BuildFarm` | a library and an application, 3 jobs, 1 client; symmetry | 845 k | `BlameIsShown`, `SuccessLasts`, `PlanDelivers`, no deadlock |
| `Resolve` | all acyclic graphs of 3 recipes with 3 kinds of edges, all states of artifacts and workspaces, one recipe missing, and all graphs of 2 recipes with cycles; 1 or 2 ids; the flags of the 4 callers | 621 k | `DepsFirst`, `PlanComplete`, `CachedIsTransitive`, `Returns` |
| `RecipeWatcher` | 1 recipe, 1 include, 2 requests, 3 edits, fair | 68 k | `HashIsCurrent`, `StableDuringRequest`, `EditIsSeen`, `CalmsDown` |
| `SourceStore` | 4 sources, 2 recipes that share the archive, each origin changes once | 3.1 M | `BuiltFromLock`, `DownloadsAreWhole`, `PinsKept`, `ForcedPinsMatchCache` |
| `Workspace` | 1 upstream item, 2 changes, 2 patches in the project; symmetry | 2.2 M | `ClosedRebuilds`, `WorkIsSomewhere`, `PatchFilesStay` |
| `GitWorkspace` | 2 changes, 5 commits, always with a push; symmetry | 1.3 M | `PinIsObtainable`, `WorkIsPublished`, `FinishedIsPinned` |
| `GitWorkspace_local` | 3 commits, never with a push | | `PinIsObtainable` is violated |
| `Artifacts` | a library, a tool built with it in a container, an application that runs with the library and is built with the tool; 2 requests, 2 events | 3.1 M | `NamesAreTrue`, `NothingMissing`, `WorkspacesShow`, `BuildDelivers`, no deadlock |
| `Artifacts_killed` | the same, 1 event | | `CachedIsWhole` is violated |
| `RecipeFiles` | all recipes made of an id with or without a version, 4 lists of merges, 5 of sources and 2 ends; two included files, in one directory or two, of 4 and 2 contents; patches one by one or two at a time; fair | 102 k | `LoadsInOrder`, `SourcesSpelled`, `AppliedOnce`, `OnlyAdds`, `LoadsEnd` |
| `RecipeFiles_inherited` | the same | | `PatchesComeLast` is violated |

Why the bounds are enough.  *JobServer*: the races are between the worker and a
cancel, between two cancels of one job, and between enqueues of two requests; a
second command is what the loop after a cancelled one needs, and a history of one is
trimmed at once.  (The same with three jobs, 3.0 M states, was checked without fairness
and found nothing more; the theorems below hold for any number.)  *BuildFarm*: two jobs
and one edit, or three jobs and none (`Small`): a plan of two overtaken by an edit, or
overlapped by a second build of one of its recipes.  One client issues the requests one
after the other, and their jobs overlap all the same.  *Resolve*: three recipes give chains, diamonds without
their tip and every mix of visited and unvisited dependencies; two suffice for
cycles.  *RecipeWatcher*: edits to be missed, seen and seen late; a recipe and
an include, of which one can be read before and one after an edit (the safety
properties also hold for two recipes with two edits, 353 k states up to symmetry).  *SourceStore*: one change
of each origin gives old, new and mixed contents; a shared source is fetched
twice.  *Workspace*: two patches are one from a first and one from a second
workspace, or two of one quilt series, or one that a kill left unlisted and its
repetition; a run with three (10 M states, before the history of edits beside quilt
patches was part of the model, not kept) found nothing more.
*GitWorkspace*: five commits are the first one, a workspace that pushes, a commit of
somebody else on the branch or upstream, a second workspace from there and one by hand.
*Artifacts*: three recipes have a direct and an indirect dependency of each kind;
two events are an edit and its revision, a workspace opened and closed, or one
edit below and one above.  *RecipeFiles*: files that merge one another in both orders,
in a circle, twice, and from two directories; one, two and three levels of variables
and some that use each other; every kind of `sources` an edit may meet.  `MaxDepth` and
`MaxPieces` only cut circles short: without one, a load is at most three files deep.

Deadlock is checked for the job server, which never stops.  It is not checked
for `Resolve`, which returns, and for the watcher, whose process exits when the
first load fails; `SourceStore` is idle at worst.  It is checked for
`Artifacts`, `BuildFarm` and `RecipeFiles`; not for `Workspace`, where a recipe that a kill has emptied stops
every command until somebody restores it, nor for `GitWorkspace`, where the bound
on commits does.

Fairness.  Goroutines are scheduled, so the worker and a handler inside a
request take their next step (`WF`), and so do the watcher and handlers that
hold `reloadMu`.  Clients need not send requests, nobody needs to edit, no
command needs to be killed.  That a child process ends (`WF(ChildExit)`) is an
assumption on the recipes' build scripts; without it only the safety properties
stand.  `Resolve` is a sequential function: `WF(Next)`; so is a load in `RecipeFiles`
(`WF(Goes)`), which people start, repeat and interrupt as they like.  `SourceStore`
claims no liveness, nor do the workspaces, `Artifacts` and `BuildFarm`.

### Disagreements found

* `GitWorkspace_local`: without a push, `workspace-finish` pins its commit, says
  that it "was committed locally only", and removes the only repository that has
  it.  Nobody can fetch the pin, and the work is gone.
* `Artifacts_killed`: a build or a pull that is killed while it writes leaves a
  partial file under the artifact's name; `status` then calls the recipe cached,
  and dependents fail to unpack it until somebody deletes it.
* `RecipeFiles_inherited`: a recipe that has its sources from a file it merges (79
  recipes have them from `elements/include/kf5.inc`) gets a `sources:` list of its
  own from `workspace-finish`.  The merge puts it before the inherited one, and the
  patch is applied before the archive is unpacked.

### Limits of the code

No run is there to show these, but they were met on the way:

* A workspace with a quilt series loses every edit no quilt patch tracks:
  `workspace-finish` exports the series (`ignite.go:1021-1036`), does not look at the rest
  of the directory, and removes it (`1040`) without a word, although the help says
  "Export patches or commit git workspace and close it" (`main.go:45`).
  `WorkIsSomewhere` has an exception for exactly these edits.
* `reloadRecipes` takes the fingerprint *after* `Load` has read the recipes
  (`dashboard.go:99`).  A recipe saved in between is in the fingerprint but not in the
  pool, and is not loaded before something else changes.  `EditIsSeen` is about edits
  made while the watcher sleeps.
* A copy of a project file that is killed half way, or a lock that is killed between
  being emptied and written, is not noticed by the next fetch, which pins what it finds
  (`ignite.go:662`, `1832`).  `BuiltFromLock` compares what a build uses with the lock as
  it is then, and does not see this.
* A build takes a file under the right name for a finished artifact.  So `BuildDelivers`
  and `PlanDelivers` say that the files are there, not that they are complete; what can
  be in them after a kill is the subject of `Artifacts_killed`.
* `fetch -force a` starts from an empty map and writes it over `checksum.lock`
  (`ignite.go:720`), so the pins of all sources `a` does not need are gone.  Later
  builds of other recipes fail with "no entry for source", except for git sources,
  which are then accepted at any commit: hence the exception in `BuiltFromLock`.
* A recipe named twice in a request is listed, and built, twice: the loop over the ids
  does not ask `visited`.
* `git status --porcelain` lists the untracked `.ignite-workspace`, so a git
  workspace nobody touched is committed, with that directory.
* `appendSourcesToRecipeText` replaces a flow-style `sources: [..]` by an empty list
  before it appends.
* Files that merge each other, and variables defined by each other, are not noticed.

## 4. The proofs

Every theorem holds for all values of the constants that satisfy the assumption of
the module (any sets of jobs, clients, recipes, sources, changes; any bounds): TLC
evaluates those assumptions for the instances above.  No proof takes anything
else on trust.

| module | theorem | states |
|---|---|---|
| `BuildFarmProofs` | `TypeCorrect`, `JobsInOnePlace`, `OverIsFinal` | of `JobServer`: `[]TypeOK`, `[]OnePlace`, `ArchivedIsFinal` |
| | `ImplementsSafeQueue` | `JobServer` implements the safety part of `JobQueue` |
| | `ChildIsOfActive`, `OutcomeIsTrue`, `PlansRunInOrder`, `KilledStays` | `[]OneChild`, `[]TrueOutcome`, `[]PlanOrder`, `KilledStaysCancelled` |
| | `FarmHasJobServer`, `FarmHasPipeline` | `FarmSpec` implements `JobServer` and `Artifacts` |
| | `FarmNamesTell`, `FarmSuccessLasts` | `[]NamesAreTrue` of its cache, `[]SuccessLasts` |
| | `FarmBlameIsShown`, `FarmPlanDelivers` | `[]BlameIsShown`, `[]PlanDelivers` |
| `ResolveProofs` | `TypeCorrect`, `PlansInBuildOrder`, `PlansAreComplete`, `StaleIsRebuilt` | `[]TypeOK`, `[]DepsFirst`, `[]PlanComplete`, `[]CachedIsTransitive` |
| `RecipeWatcherProofs` | `TypeCorrect`, `HashesAreCurrent`, `GraphIsStable` | `[]TypeOK`, `[]HashIsCurrent`, `StableDuringRequest` |
| `SourceStoreProofs` | `TypeCorrect`, `NoPartialDownload`, `BuildsFromLock`, `FetchKeepsPins`, `ForcedFetchPinsCache` | `[]TypeOK`, `[]DownloadsAreWhole`, `[]BuiltFromLock`, `[]PinsKept`, `[]ForcedPinsMatchCache` |
| `GitWorkspaceProofs` | `TypeCorrect`, `FinishedIsPublished`, `FinishedPinsItsWork`, `PinsExist` | `[]TypeOK`, `[]WorkIsPublished`, `[]FinishedIsPinned`, `[]PinIsObtainable` |
| `WorkspaceProofs` | `WorkspaceTypes`, `OnlyStrayWorkIsLost`, `PatchesRebuildTheTree`, `PatchesStay` | `[]TypeOK`, `[]WorkIsSomewhere`, `[]ClosedRebuilds`, `PatchFilesStay` |
| `ArtifactsProofs` | `TypeCorrect`, `NamesTell`, `BuildsMissNothing`, `BuildsDeliver`, `WorkspacesAreShown` | `[]TypeOK`, `[]NamesAreTrue`, `[]NothingMissing`, `BuildDelivers`, `[]WorkspacesShow` |
| `RecipeFilesProofs` | `TypeCorrect`, `FinishOnlyAdds`, `PatchesOnce` | `[]TypeOK`, `OnlyAdds`, `[]AppliedOnce` |
| | `OrderOfLoad`, `ResolvedAsSpelled` | `[]LoadsInOrder`, `[](WithinBound => SourcesSpelled)` |

Each rests on an inductive invariant, `IndInv` unless said otherwise; what the
invariant adds to the property is the argument.

*JobServer.*  `OnePlace` is not inductive.  A cancel acts on the job an earlier
`FindJob` returned, so one must know that this job exists (`HandlersReady`); the worker
writes the state of the active job without the mutex, so one must know that there is
an active job from `TakeJob` to `Archive`, with a state that is running or cancelled
until its outcome is written, and final when it is archived (`WorkerReady`).  Steps
that leave both lists alone are dealt with once (`QuietStep`); the lists need facts
about `Append`, `Tail`, `RemoveAt` and the trimmed history.  Under the refinement
`EnqueueJob` is `Submit`, cancelling a queued job is `Withdraw`, `TakeJob` is `Serve`,
`Archive` is `Settle`, and the rest stutters.

*Outcomes.*  `OneChild` needs to know at which statement of the worker there is a
child, a pid, both or neither; `TrueOutcome` what the worker has found out when it
judges, and that a state it overwrites is one of a job that is still active.
`PlanOrder` needs that of two jobs of a plan the earlier one does not stand behind the
later one in the queue, and is over when the worker takes the later one (`InOrder`).
`KilledStaysCancelled` needs that a cancelled job stays cancelled from the spawning of
its child to its end (`Stuck`), and that there is a pid only then (`ChildInv`).

*Resolve.*  The stack is a path (`Path`); whatever was visited is emitted or on the
stack (`Seen`); a frame has visited the dependencies it has passed (`Looked`).  When a
frame returns, a dependency that is not emitted would be on the stack, hence on a cycle
with the frame's recipe, and there `Hash` has no end (`DependsAreEmitted`).  What lies
below a recipe is defined as the least closed set, so that no induction is needed:
that a plan is no smaller than the closure holds because what is emitted is closed,
that it is no larger because what is visited is in it.  `CachedSeesAll` computes the
decision for one recipe from those for its dependencies, whose first entries in the
plan exist by `HasFirst`.

*RecipeWatcher.*  `LockInv` says who may be where under `reloadMu`: readers and a
reload exclude each other.  A hash is then computed from the pool in service, and
stored while the reader still holds the lock.

*SourceStore.*  `Working` places the command at a source of its first recipe, of the
kind that is obtained the way it is being obtained; when it renames a download, that
download has ended.

*Workspace* (`Inv`).  A finish has room for its patches and exports them under names
that no file has (`FinishInv`), whence `PatchFilesStay`: a free name is found because
the files are fewer than the names.  Whatever is in the directory came with the listed
patches, was made beside the quilt patches, or is in one of them (`TreeInv`).  So what
the finishes of a workspace found when they started is, at each statement, in the
directory, in the patches that are still to be exported, in listed ones, or among the
edits `Refresh` met beside the quilt patches (`OwedInv`); of those only the last are
gone when the directory is.  `ClosedRebuilds` is about the fold of `patch` along
the list, which is not defined by a recursion one could unfold: a fold of the community
modules is a chosen function on sets of positions.  `FoldExists` constructs that
function by the least-number principle, `UnpackGoes` and `AddGoes` read off what the
two folds of the module step through, and after that each step of an unpacking or a
rewrite is a step of a chain of trees (`Path`).  `SavedInv` says that the recipe unpacks
to the tree it was last written for, and that from there the patches being exported
form a chain to the tree the finish found; for quilt patches that needs to know that
they lie side by side (`SeriesInv`), an edit of a tracked file joining the top one.

*GitWorkspace.*  Histories are closed under the past (`Closed`), with which every
repository has the past of its commits; and what a finish has found, committed and
pinned is still there when it pushes (`Finishing`), because only edits touch the
workspace meanwhile.  That what it pinned is on the branch (`Pinned`) begins with the
accepted push, before the workspace is removed, and then no commit of others undoes it,
since the branch only gains history; a rejected push leaves the workspace, and with it
the next finish to pin what is in it.  `PinsExist` assumes `Pushes = {TRUE}`: without it, the run
`GitWorkspace_local` refutes it.

*Artifacts* (`Below` is transitive and irreflexive).  `NamesAreTrue` says nothing of
artifacts that were built on the host, but those are unpacked into containers as well,
and then it matters that each holds at least what its own recipe makes: `Fits` adds
that.  And it says nothing of a build under way: `RootReady` says that the build root
holds only texts of the loaded pool, that in a container it lacks no more than what is
still to be unpacked, and that the file to be written is named by that pool.

The other three properties are about one command and what people do meanwhile.
`WorkspacesShow` needs that all a recipe unpacks is unpacked before it makes anything
(`WorkspaceInv`); `NothingMissing` and `BuildDelivers` need that everything wanted is
still planned or in the cache, and that what a recipe needs is wanted if the recipe is
(`PlanInv`, `WantedIsClosed`).

*BuildFarm.*  That it implements both parts is shown action by action; what needs an
invariant is that a child is started and ended exactly when the pipeline starts and
ends a command.  All that is proved of the parts then holds of the whole
(`FarmNamesTell`).  `SuccessLasts` connects them: between the exit of the child and the
word "success" the artifact is there (`ChildKnows`, `WorkerKnows`), and later writes to
it are by jobs that are running or did not end well.

`BlameIsShown` and `PlanDelivers` follow a recipe from the plan to the cache
(`WorthInv`).  As long as nothing was edited since a plan was made (`Dates`), everything
it needs is in the cache, is a job of the plan, or is still to be enqueued, and before
what needs it (`RestPlanned`, `JobsPlanned`).  That last part meets the order of the
queue: by `InOrder` of the job server the job on a dependency is over when the worker
starts the one that needs it, and if it ended well its file is there (`FilesKnown`).

*RecipeFiles.*  The lines of a recipe come first.  `FlattenGoes` and its kin say of
`FlattenSeq`, which the provers cannot expand, that it is what the list before its last
element flattens to and then that element; induction along a list is the least-number
principle applied to a set of positions (`Induct`).  With these, what `Scan` reads from
an edited text is what it read before followed by what was added, and every other key
reads as before: that is `FinishOnlyAdds`.

`OrderOfLoad` (`InOrder`).  While files are being read, those read so far, followed by
what the open calls have still to bring, innermost call first (`Left`, `Rest`), are the
list `Visits`; and the configuration is what the files read so far say (`Says`).
A turn of a loop moves the next file from what is left to what is read, a return
moves nothing; that the merge of one more file then says what the longer list says is
shown for each kind of node.  When no call is open, nothing is left.  Both are bounded
by `MaxDepth`, in the guard of the model and in the depth of `Visits`.

`PatchesOnce` (`Clean`).  Each patch has a word of its own.  Nothing else that is
written in any file, merged, or put in place of a variable has that word, so the patch
is in the loaded list where the recipe lists it and nowhere else, and replacing
variables neither makes a second copy nor touches the first, which has no variables.
That the recipe lists it once holds of its lines, through `Scan`, whoever appends.

`ResolvedAsSpelled` (`SpelledLike`).  The loop replaces the leftmost variable of the
whole text, the reference spells out each piece on its own; what they have in common is
that spelling out the text as it is gives what spelling out the source as it was written
gives.  A replacement puts pieces one level deeper than the variable was, and there
they are spelled out to one level less; but what has no variable left at one depth
stays the same at all greater ones (`Stays`).  This is where `WithinBound` is needed: a
chain of variables longer than the bound is cut off in the reference and followed to its
end by the code.

Only model-checked: liveness (`EveryJobSettles`, the fairness of `ImplementsQueue`,
`Returns`, `EditIsSeen`, `CalmsDown`, `LoadsEnd`), which the prover does not handle;
and `ResolvedAsSpelled` for recipes beyond its bound, which no fixed depth of a
reference can cover.

## 5. Not modelled

In the modelled parts, with reasons:

* A crash of the job server: its state is in memory and gone; what matters is the
  orphaned child, and two commands on one cache at a time are coordinated by nothing
  in the code, so that there is no promise to check.
* The slice behind `d.queue` while the reply of `GET /api/builds` is encoded after the
  unlock (`dashboard.go:834`), and the pid between `Wait` and its reset
  (`dashboard.go:333`): races with what is not in the models, the encoder and the
  kernel's process ids.  No property is about them.
* Log files and their stream, `.dbg` packages, `ccache`, includes that are copied into
  a package, mirrors, `quilt pop` and `push`.
* `NeedsContainer` on projects with missing recipes (`Artifacts` has it for complete
  ones).

Parts without a model: executor and containers (argument lists and processes), command
line, client and web page (no state), installer, first boot, initramfs, releases and
make targets (scripts that run once from top to bottom; what they decide on is what
they find on the disk), reports, desktop, tablet switch, and data.
