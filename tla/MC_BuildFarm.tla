---------------------------- MODULE MC_BuildFarm ----------------------------
(* The build server and a small project: a library, and an application that
   runs with it and is built in a container. *)
EXTENDS BuildFarm, TLC

CONSTANTS lib, app
MCRecipes == {lib, app}
MCBelow == lib :> {} @@ app :> {lib}
MCRunsWith == lib :> {} @@ app :> {lib}
MCContained == {app}
MCRequests == {{app}, {lib}}

\* Job ids and clients are interchangeable.
Symmetry == Permutations(Jobs) \cup Permutations(Clients)

\* Bound: two jobs and one event, or three jobs and none.
Small == Cardinality(Jobs) - Cardinality(Unissued) + events <= 3
=============================================================================
