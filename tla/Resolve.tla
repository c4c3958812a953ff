------------------------------- MODULE Resolve -------------------------------
(***************************************************************************)
(* Ignite.Resolve (tools/ignite/ignite.go): the depth-first search that    *)
(* turns the recipes somebody asked for into a build plan, and decides for *)
(* each recipe of the plan whether its cached artifact can be used.        *)
(*                                                                         *)
(* The recursion is an explicit stack of frames, so that every state of    *)
(* the search can be examined.  A project is what Resolve reads and never  *)
(* writes: the recipe pool, its three kinds of edges, the artifacts in the *)
(* cache and the recipes somebody edits in a workspace.                    *)
(***************************************************************************)
EXTENDS Naturals, Sequences, SequencesExt, FiniteSets

CONSTANTS Recipes,   \* every element id a recipe file may mention
          Projects,  \* the projects to resolve in
          Calls      \* the calls to resolve

Lists == [Recipes -> Seq(Recipes)]

ProjectType ==
  [pool : SUBSET Recipes,         \* recipe files that exist
   depends : Lists, buildTimeDepends : Lists, include : Lists,
   artifacts : SUBSET Recipes,    \* CacheFile of the current hash exists
   workspaces : SUBSET Recipes]   \* WorkspaceAvailable

CallType ==
  [ids : Seq(Recipes), devel : BOOLEAN, includeDepends : BOOLEAN, includeExtra : BOOLEAN]

ASSUME ResolveAssumption ==
  /\ Projects \subseteq ProjectType
  /\ Calls \subseteq CallType

VARIABLES
  project, call,  \* the inputs
  visited,        \* visited
  output,         \* output: a sequence of [id, cached]
  stack,          \* the calls of dfs under way: [id, next], next dependency to look at
  nextId,         \* position in ids of the next top-level call of dfs
  result          \* "running", "ok", or why there is no plan

vars == <<project, call, visited, output, stack, nextId, result>>

-----------------------------------------------------------------------------
\* The list `depends` that dfs builds from the flags.
Depends(id) ==
  project.depends[id]
    \o (IF call.devel THEN project.buildTimeDepends[id] ELSE <<>>)
    \o (IF call.includeExtra THEN project.include[id] ELSE <<>>)

\* Hash follows all three lists, whatever the flags.
HashDepends(id) ==
  project.depends[id] \o project.buildTimeDepends[id] \o project.include[id]

\* Everything reachable from the set S along the edges succ.
Closure(S, succ(_)) ==
  {x \in Recipes : \A C \in SUBSET Recipes :
     (S \subseteq C /\ \A y \in C : Range(succ(y)) \subseteq C) => x \in C}

\* What Hash and dfs read below a recipe; a missing recipe has no edges.
HashEdges(id) == IF id \in project.pool THEN HashDepends(id) ELSE <<>>
HashBelow(id) == Closure(Range(HashEdges(id)), HashEdges)
HashMisses(id) == ~(HashBelow(id) \subseteq project.pool)

\* Faulty variant: a Hash that survives cycles, and so lets them through.
NeverOverflows(id) == FALSE

\* Hash calls itself without a visited set: it never ends on a cycle.
HashOverflows(id) == \E x \in HashBelow(id) \cup {id} : x \in HashBelow(x)

\* !WorkspaceAvailable(r) && exists(CacheFile(r))
Available(id) == id \in project.artifacts \ project.workspaces

Emitted == {output[k].id : k \in DOMAIN output}
FirstState(id) == output[CHOOSE k \in DOMAIN output :
  output[k].id = id /\ \A m \in 1..(k-1) : output[m].id # id]

\* Faulty variant: a dependency counts as cached by its own artifact alone.
CachedAlone(id) == Available(id) /\ \A dep \in Range(Depends(id)) : Available(dep)

Cached(id) ==
  /\ Available(id)
  /\ \A dep \in Range(Depends(id)) :
       IF dep \in Emitted THEN FirstState(dep).cached ELSE Available(dep)

-----------------------------------------------------------------------------
Init ==
  /\ project \in Projects /\ call \in Calls
  /\ visited = {} /\ output = <<>> /\ stack = <<>>
  /\ nextId = 1 /\ result = "running"

\* Faulty variant: a recipe without a file is passed over.
EnterIfThere(id, callers) ==
  /\ visited' = visited \cup {id}
  /\ stack' = IF id \in project.pool THEN Append(callers, [id |-> id, next |-> 1]) ELSE callers
  /\ UNCHANGED result

\* The call of dfs(id), up to the point where it knows its dependencies.
Enter(id, callers) ==
  /\ visited' = visited \cup {id}
  /\ IF id \in project.pool
     THEN stack' = Append(callers, [id |-> id, next |-> 1]) /\ UNCHANGED result
     ELSE result' = "missing" /\ stack' = callers

EnterTop ==
  /\ result = "running" /\ stack = <<>> /\ nextId <= Len(call.ids)
  /\ Enter(call.ids[nextId], <<>>)
  /\ nextId' = nextId + 1
  /\ UNCHANGED <<project, call, output>>

Top == Last(stack)
Looking == result = "running" /\ stack # <<>> /\ call.includeDepends
             /\ Top.next <= Len(Depends(Top.id))
Advanced == Append(Front(stack), [Top EXCEPT !.next = @ + 1])

\* Faulty variant: a visited dependency is looked at again and again.
SkipNowhere ==
  /\ Looking
  /\ Depends(Top.id)[Top.next] \in visited
  /\ UNCHANGED vars

Skip ==
  /\ Looking
  /\ Depends(Top.id)[Top.next] \in visited
  /\ stack' = Advanced
  /\ UNCHANGED <<project, call, visited, output, nextId, result>>

Descend ==
  /\ Looking
  /\ Depends(Top.id)[Top.next] \notin visited
  /\ Enter(Depends(Top.id)[Top.next], Advanced)
  /\ UNCHANGED <<project, call, output, nextId>>

\* All dependencies are looked at: hash, decide, append, return.
Returning == result = "running" /\ stack # <<>> /\ ~Looking

Emit ==
  /\ Returning /\ ~HashMisses(Top.id) /\ ~HashOverflows(Top.id)
  /\ output' = Append(output, [id |-> Top.id, cached |-> Cached(Top.id)])
  /\ stack' = Front(stack)
  /\ UNCHANGED <<project, call, visited, nextId, result>>

\* With both a cycle and a missing recipe below, the order of the lists
\* decides which one Hash meets first.
HashFails ==
  /\ Returning
  /\ \/ HashMisses(Top.id) /\ result' = "missing"
     \/ HashOverflows(Top.id) /\ result' = "overflow"
  /\ UNCHANGED <<project, call, visited, output, stack, nextId>>

Finish ==
  /\ result = "running" /\ stack = <<>> /\ nextId > Len(call.ids)
  /\ result' = "ok"
  /\ UNCHANGED <<project, call, visited, output, stack, nextId>>

Next == EnterTop \/ Skip \/ Descend \/ Emit \/ HashFails \/ Finish

Spec == Init /\ [][Next]_vars
FairSpec == Spec /\ WF_vars(Next)

-----------------------------------------------------------------------------
TypeOK ==
  /\ project \in ProjectType /\ call \in CallType
  /\ visited \in SUBSET Recipes
  /\ output \in Seq([id : Recipes, cached : BOOLEAN])
  /\ stack \in Seq([id : Recipes, next : Nat \ {0}])
  /\ nextId \in Nat \ {0}
  /\ result \in {"running", "ok", "missing", "overflow"}

(***************************************************************************)
(* The plan is in build order: a recipe comes after everything it depends  *)
(* on, so that the jobs of enqueueResolvedBuildPlan, run one after the     *)
(* other, find the artifacts they integrate.  This includes projects with  *)
(* cycles: no plan is made of them, not a plan in a wrong order.           *)
(***************************************************************************)
DepsFirst ==
  call.includeDepends =>
    \A k \in DOMAIN output : \A dep \in Range(Depends(output[k].id)) :
      \E m \in 1..(k-1) : output[m].id = dep

\* What a call asks for: the closure along the edges its flags select.
Edges(id) == IF id \in project.pool /\ call.includeDepends THEN Depends(id) ELSE <<>>
Wanted(S) == Closure(S, Edges)

(***************************************************************************)
(* A plan holds everything the recipes need and nothing else, and a recipe *)
(* file is reported missing only when the plan, or a hash in it, needs it. *)
(***************************************************************************)
PlanComplete ==
  /\ result = "ok" => Emitted = Wanted(Range(call.ids)) /\ Emitted \subseteq project.pool
  /\ result = "missing" =>
       \E x \in Wanted(Range(call.ids)) : x \notin project.pool \/ HashMisses(x)

(***************************************************************************)
(* A recipe of the plan counts as cached exactly when its own artifact and *)
(* that of everything below it can be used: one missing artifact, or one   *)
(* recipe edited in a workspace, makes everything above it be built again, *)
(* however far away and along whichever path it is.                        *)
(***************************************************************************)
CachedIsTransitive ==
  call.includeDepends =>
    \A k \in DOMAIN output :
      output[k].cached <=> \A x \in Wanted({output[k].id}) : Available(x)

(***************************************************************************)
(* Resolve returns: with a plan when no recipe file is missing and there   *)
(* is no cycle, otherwise with an error (or the stack overflow of Hash).   *)
(***************************************************************************)
Below == UNION {HashBelow(x) \cup {x} : x \in Range(call.ids)}
Returns ==
  <>(IF Below \subseteq project.pool /\ ~\E x \in Below : HashOverflows(x)
     THEN result = "ok" ELSE result # "running")
=============================================================================
