------------------------------ MODULE BuildFarm ------------------------------
(***************************************************************************)
(* The build server as a whole: the job server (JobServer) runs the        *)
(* commands of the build pipeline (Artifacts) as its child processes.      *)
(*                                                                         *)
(* A build request is planned against the recipe graph the server has in   *)
(* memory, which RecipeWatcher shows to be behind the files at times; the  *)
(* plan becomes one job per recipe; each job runs `ignite build-one', a    *)
(* process that reads the recipe files anew and fails or is killed at any  *)
(* of its steps, leaving in the cache what it has written.  Nothing but    *)
(* the order of the queue tells one job that another has to come first:    *)
(* a job is run whatever became of those before it.                        *)
(*                                                                         *)
(* Every action is one of JobServer, one of Artifacts, or one of each: the *)
(* start, the exit and the death of a child.  No command is started from a *)
(* terminal beside the server, and the server does not die.                *)
(***************************************************************************)
EXTENDS JobServer

CONSTANTS Recipes, Below, RunsWith, Contained, Published, Requests, Nothing,
          MaxEvents

VARIABLES
    text, open, cache, proc, calm, events,    \* of Artifacts
    served,     \* the texts of the pool the server has loaded
    order,      \* the recipes each request has still to enqueue a job for
    recipe,     \* job.Recipes
    asked,      \* (history) the recipes the last build request of a client named
    planned,    \* (history) what had happened when it was planned, as in `Current'
    since,      \* (history) the same of the plan each job belongs to
    made        \* (history) the files the child of each job chose to write

A == INSTANCE Artifacts

pipelineVars == <<text, open, cache, proc, calm, events>>
planVars == <<order, recipe, asked, planned, since>>
farmVars == <<vars, pipelineVars, served, planVars, made>>

ASSUME BuildFarmAssumption == A!ArtifactsAssumption /\ IsFiniteSet(Recipes)

FarmInit ==
    /\ Init /\ A!Init
    /\ served = text
    /\ order = [c \in Clients |-> <<>>]
    /\ recipe = [j \in Jobs |-> Nothing]
    /\ asked = [c \in Clients |-> {}] /\ planned = [c \in Clients |-> 0]
    /\ since = [j \in Jobs |-> 0]
    /\ made = [j \in Jobs |-> {}]

-----------------------------------------------------------------------------
(* Requests *)

\* A plan made now knows the recipes as they are: how many events there have
\* been, in which case nothing has changed as long as there are no more of them.
Outdated == MaxEvents + 1
Current == IF served = text THEN events ELSE Outdated

\* What Resolve finds to be built, or everything it goes through with force.
Plan(ids, force) ==
    {r \in UNION {A!Needs(i) : i \in ids} : force \/ ~A!Cached(served, r)}

\* Faulty variant: in any order.
Lists(rs) == {s \in [1 .. Cardinality(rs) -> rs] : IsInjective(s)}
\* The lists of a set of recipes in which each comes after those it needs.
Sorted(rs) ==
    {s \in [1 .. Cardinality(rs) -> rs] :
        IsInjective(s) /\ \A i, k \in DOMAIN s : s[i] \in Below[s[k]] => i < k}

\* enqueueBuildPlan, under reloadMu
RequestBuild(c, ids, force) ==
    /\ \E s \in Sorted(Plan(ids, force)) :
        /\ Len(s) <= MaxPlan                                          \* bound
        /\ Receive(c, [i \in 1 .. Len(s) |-> 1])
        /\ order' = [order EXCEPT ![c] = s]
    /\ asked' = [asked EXCEPT ![c] = ids]
    /\ planned' = [planned EXCEPT ![c] = Current]
    /\ UNCHANGED <<pipelineVars, served, recipe, since, made>>

\* enqueueResolvedBuildPlan: the next job of the plan
EnqueueBuild(c) ==
    /\ EnqueueJob(c)
    /\ LET j == Last(plan'[c])
       IN  /\ recipe' = [recipe EXCEPT ![j] = Head(order[c])]
           /\ since' = [since EXCEPT ![j] = planned[c]]
    /\ order' = [order EXCEPT ![c] = Tail(@)]
    /\ UNCHANGED <<pipelineVars, served, asked, planned, made>>

\* The pipeline does not notice.
ServerOnly(c) ==
    /\ Broadcast(c) \/ FindJob(c) \/ CancelJob(c)
    /\ UNCHANGED <<pipelineVars, served, planVars, made>>

\* The watcher reloads the recipes.
Reload ==
    /\ served' = text
    /\ UNCHANGED <<vars, pipelineVars, planVars, made>>

-----------------------------------------------------------------------------
(* The worker and its child *)

WorkerOnly ==
    /\ \/ Sleep \/ TakeJob \/ OpenLog \/ RecordPid \/ Reap \/ ClearPid
       \/ Judge \/ Verdict \/ WriteState \/ Archive
       \/ UNCHANGED child /\ Spawn                             \* cmd.Start failed
    /\ UNCHANGED <<pipelineVars, served, planVars, made>>

StartChild ==
    /\ Spawn /\ child' = "alive"
    /\ A!StartBuildOne(recipe[active])
    /\ UNCHANGED <<served, planVars, made>>

\* The child goes on, until it ends; SIGTERM takes a while to reach it.
ChildStep ==
    /\ \/ \E r \in Recipes : A!Setup(r) \/ A!Integrate(r)
       \/ A!Choose \/ A!Prepare \/ A!BeginPack \/ A!EndPack
    /\ A!Busy'
    /\ made' = IF A!Choose THEN [made EXCEPT ![active] = @ \cup {proc'.path}] ELSE made
    /\ UNCHANGED <<vars, served, planVars>>

ChildSucceeds ==
    /\ ChildExit /\ child' = "ok"
    /\ A!Succeed
    /\ UNCHANGED <<served, planVars, made>>

ChildFails ==
    /\ ChildExit /\ child' = "fail"
    /\ \/ A!BuildFails
       \/ (\E q \in Recipes : A!Integrate(q)) /\ ~A!Busy'
       \/ child = "signalled" /\ A!Killed
    /\ UNCHANGED <<served, planVars, made>>

-----------------------------------------------------------------------------
People ==
    /\ A!People
    /\ UNCHANGED <<vars, served, planVars, made>>

FarmNext ==
    \/ \E c \in Clients :
        \/ \E ids \in Requests, force \in BOOLEAN : RequestBuild(c, ids, force)
        \/ EnqueueBuild(c) \/ ServerOnly(c)
    \/ WorkerOnly \/ StartChild \/ ChildStep \/ ChildSucceeds \/ ChildFails
    \/ Reload \/ People

FarmSpec == FarmInit /\ [][FarmNext]_farmVars

-----------------------------------------------------------------------------
(* Properties *)

Whole(name) == name \in DOMAIN cache /\ cache[name].whole
Unhappy(j) == state[j] \in {"failed", "cancelled"}

(***************************************************************************)
(* A build that misses a dependency is explained by what the dashboard     *)
(* shows.  If nobody has touched recipes and workspaces since the plan was *)
(* made, then a job finds the artifacts of all it unpacks, unless a job on *)
(* that very dependency failed or was cancelled: however the plans of      *)
(* several clients overlap, and whatever is cancelled between them.        *)
(***************************************************************************)
BlameIsShown ==
    (A!Busy /\ since[active] = events) =>
        \A q \in proc.todo :
            A!Integratable(q) \/ \E k \in Jobs : recipe[k] = q /\ Unhappy(k)

(***************************************************************************)
(* A job shown as success has left its artifact, complete, under the name  *)
(* it chose: until another job on the same artifact writes it again, which *)
(* is running or did not end well.                                         *)
(***************************************************************************)
SuccessLasts ==
    \A j \in Jobs : state[j] = "success" => \E f \in made[j] :
        \/ Whole(f)
        \/ \E k \in Jobs : f \in made[k] /\ (Unhappy(k) \/ state[k] = "running")

(***************************************************************************)
(* When all jobs of a build plan are shown as success and nobody has       *)
(* touched recipes and workspaces since it was made, what was asked for    *)
(* and all it needs is in the cache, as built from the workspaces there    *)
(* are.  The files are there; that a kill may have left one incomplete is  *)
(* CachedIsWhole in Artifacts.                                             *)
(***************************************************************************)
PlanDelivers ==
    \A c \in Clients :
        /\ todo[c] = <<>> /\ planned[c] = events
        /\ \A i \in DOMAIN plan[c] : state[plan[c][i]] = "success"
        => \A i \in asked[c] : \A q \in A!Needs(i) :
               A!CacheFile(text, q) \in DOMAIN cache
=============================================================================
