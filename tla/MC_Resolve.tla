----------------------------- MODULE MC_Resolve ------------------------------
(***************************************************************************)
(* Resolve on every project of a few recipes.  Any finite acyclic graph    *)
(* can be numbered so that edges go down; each edge is of one of the three *)
(* kinds.  Two-recipe graphs with cycles and self-loops are added.         *)
(***************************************************************************)
EXTENDS Resolve, TLC

CONSTANT N  \* the recipes are 1..N

MCRecipes == 1..N

\* the lists of one kind, largest id first
Listed(edges, kind) ==
  [r \in MCRecipes |-> SelectSeq(Reverse([i \in 1..N |-> i]), LAMBDA d : edges[r, d] = kind)]

Pairs == MCRecipes \X MCRecipes
Kinds == {"depends", "build", "include", "none"}
Dags == {[p \in Pairs |-> IF p \in DOMAIN f THEN f[p] ELSE "none"] :
           f \in [{p \in Pairs : p[2] < p[1]} -> Kinds]}
Tangles == {[p \in Pairs |-> IF p \in DOMAIN f THEN f[p] ELSE "none"] :
              f \in [(1..2) \X (1..2) -> {"depends", "build", "none"}]}

\* every recipe is built, edited in a workspace, or neither
Disks == [MCRecipes -> {"artifact", "workspace", "nothing"}]

ProjectsOn(graphs, pools, disks) ==
  {[pool |-> pool,
    depends |-> Listed(g, "depends"),
    buildTimeDepends |-> Listed(g, "build"),
    include |-> Listed(g, "include"),
    artifacts |-> {r \in MCRecipes : disk[r] = "artifact"},
    workspaces |-> {r \in MCRecipes : disk[r] = "workspace"}] :
   g \in graphs, pool \in pools, disk \in disks}

Built == [r \in MCRecipes |-> "artifact"]
OneMissing == {MCRecipes \ {r} : r \in MCRecipes}

MCProjects ==
  ProjectsOn(Dags, {MCRecipes}, Disks)
    \cup ProjectsOn(Dags, OneMissing, {Built})
    \cup ProjectsOn(Tangles, {MCRecipes, MCRecipes \ {1}}, {Built})

\* the flags of the callers: a build plan, the container's dependencies, the
\* includes of an image with and without include-depends
Flags == {<<TRUE, TRUE, TRUE>>, <<TRUE, TRUE, FALSE>>,
          <<FALSE, TRUE, FALSE>>, <<FALSE, FALSE, FALSE>>}
Ids == {<<r>> : r \in MCRecipes} \cup {<<r, s>> : r, s \in MCRecipes}

MCCalls ==
  {[ids |-> ids, devel |-> f[1], includeDepends |-> f[2], includeExtra |-> f[3]] :
     ids \in Ids, f \in Flags}
=============================================================================
