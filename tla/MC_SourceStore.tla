--------------------------- MODULE MC_SourceStore ----------------------------
(***************************************************************************)
(* SourceStore with one source of each kind and two recipes: both use the  *)
(* archive, the first also a patch of the project and a git branch, the    *)
(* second a git clone without a ref.                                       *)
(***************************************************************************)
EXTENDS SourceStore, TLC

CONSTANTS archive, patch, branch, clone, app, lib

MCRemote == {archive}
MCLocal == {patch}
MCGit == {branch, clone}
MCWithRef == {branch}
MCRecipes == {app, lib}
MCSourcesOf == app :> <<archive, patch, branch>> @@ lib :> <<archive, clone>>
=============================================================================
