---------------------------- MODULE MC_Artifacts ----------------------------
(* Artifacts of a small project: an application that runs with a library and
   is built with a tool, which also needs the library.  The tool is built in a
   container and brings the application into one; the library is built on the
   host. *)
EXTENDS Artifacts, TLC

CONSTANTS lib, tool, app
MCRecipes == {lib, tool, app}
MCBelow == lib :> {} @@ tool :> {lib} @@ app :> {lib, tool}
MCRunsWith == lib :> {} @@ tool :> {lib} @@ app :> {lib, tool}
MCContained == {tool}
MCPublished == {lib, tool}
MCRequests == {{app}, {lib, tool}}
=============================================================================
