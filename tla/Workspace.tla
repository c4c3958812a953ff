----------------------------- MODULE Workspace -----------------------------
(***************************************************************************)
(* An editable source workspace of one recipe (tools/ignite/ignite.go,     *)
(* WorkspaceInit, WorkspaceFinish, RecordWorkspacePatches).  The sources    *)
(* are unpacked and patched into a directory, somebody edits it, and        *)
(* `workspace-finish' turns the edits into patches of the project: it       *)
(* exports patch files, lists them in the recipe, pins them in              *)
(* checksum.lock, and removes the directory.  The command may be killed     *)
(* anywhere between, and the directory is edited at any time.               *)
(*                                                                         *)
(* A source tree is the set of the items it holds: those of the upstream    *)
(* source and the changes people made.  A patch adds and removes items; it  *)
(* applies to a tree that lacks what it adds and holds what it removes.     *)
(* The name of a patch is its number.  Recipes with a single git source     *)
(* are closed differently as long as no quilt patch exists: GitWorkspace.   *)
(***************************************************************************)
EXTENDS Naturals, Sequences, SequencesExt, FiniteSetsExt

CONSTANTS
    Upstream,       \* the items of the recipe's own source
    Changes,        \* the items somebody may add
    MaxPatches      \* bound: how many patch files the project can hold

ASSUME WorkspaceAssumption ==
    /\ Upstream \cap Changes = {}
    /\ MaxPatches \in Nat \ {0}

Items == Upstream \cup Changes
Names == 1 .. MaxPatches
Source == 0         \* the upstream source's entry in checksum.lock
Patch == [plus : SUBSET Items, minus : SUBSET Items]

VARIABLES
    listed,     \* the patches the recipe lists, in order
    readable,   \* FALSE while the recipe file is empty
    pins,       \* the sources with an entry in checksum.lock
    exported,   \* the patch files in patches/<recipe>
    patch,      \* what is in each of them
    ws,         \* the workspace directory
    pc, job,    \* the running workspace-finish: next statement, variables
    owed,       \* (history) the changes a finish of this workspace started on
    beside,     \* (history) those it met outside the quilt patches
    saved,      \* (history) the tree the recipe was last written for
    damage      \* (history) what kills have led to

vars == <<listed, readable, pins, exported, patch, ws, pc, job, owed, beside,
          saved, damage>>
project == <<listed, readable, pins, exported, patch>>
history == <<owed, beside, saved>>

\* `known': .ignite-workspace/metadata and patches/series exist; `original':
\* the copy of the tree as it was opened, if `pristine' says it exists;
\* `series': the quilt patches; `tracked': edits of files of the top quilt
\* patch since its last refresh; `plain' (history): edits no quilt patch will
\* take in; `used' (history): a finish has recorded the patches of this
\* workspace or begun to remove it.
NoWorkspace == [there |-> FALSE, known |-> FALSE, tree |-> {}, original |-> {},
                pristine |-> FALSE, series |-> <<>>, tracked |-> {}, plain |-> {},
                used |-> FALSE]
NoJob == [n |-> 0, found |-> {}, todo |-> <<>>, out |-> <<>>, pins |-> {}]

WorkspaceType ==
    [there : BOOLEAN, known : BOOLEAN, tree : SUBSET Items,
     original : SUBSET Items, pristine : BOOLEAN,
     series : Seq(SUBSET Changes), tracked : SUBSET Changes,
     plain : SUBSET Changes, used : BOOLEAN]
JobType ==
    [n : Nat, found : SUBSET Items, todo : Seq(Patch), out : Seq(Names),
     pins : SUBSET (Names \cup {Source})]

\* The types of the variables (ws stands for a directory); no
\* two patches of a recipe share a file, and a workspace that is not there
\* holds nothing.
TypeOK ==
    /\ listed \in Seq(Names) /\ IsInjective(listed)
    /\ readable \in BOOLEAN
    /\ pins \subseteq Names \cup {Source}
    /\ exported \subseteq Names /\ Range(listed) \subseteq exported
    /\ patch \in [Names -> Patch]
    /\ ws \in WorkspaceType /\ (~ws.there => ws = NoWorkspace)
    /\ pc \in {"idle", "refresh", "diff", "export", "record", "rewrite",
               "lock", "relock", "remove"}
    /\ job \in JobType
    /\ owed \subseteq Changes /\ beside \subseteq Changes /\ saved \subseteq Items
    /\ damage \subseteq {"pins", "retried"}

Init ==
    /\ listed = <<>> /\ readable = TRUE /\ pins = {Source}
    /\ exported = {} /\ patch = [n \in Names |-> [plus |-> {}, minus |-> {}]]
    /\ ws = NoWorkspace
    /\ pc = "idle" /\ job = NoJob
    /\ owed = {} /\ beside = {} /\ saved = Upstream /\ damage = {}

-----------------------------------------------------------------------------
(* Unpacking the sources. *)

\* One patch on a tree: the set of possible results, empty if `patch -N' fails.
Applied(p, tree) ==
    IF p.plus \cap tree = {} /\ p.minus \subseteq tree
    THEN {(tree \ p.minus) \cup p.plus} ELSE {}

\* prepareSources: every source must have an entry in checksum.lock and every
\* patch must apply.  The result is a set with the tree, or {} for an error.
Prepared ==
    IF {Source} \cup Range(listed) \subseteq pins
    THEN FoldLeft(LAMBDA trees, n : UNION {Applied(patch[n], t) : t \in trees},
                  {Upstream}, listed)
    ELSE {}

\* `ignite workspace': prepared in a temporary directory and renamed, so that
\* it is there at once or not at all; refuses if the directory exists.
Open ==
    /\ pc = "idle" /\ readable /\ ~ws.there
    /\ \E tree \in Prepared :
        ws' = [NoWorkspace EXCEPT !.there = TRUE, !.known = TRUE,
                                  !.tree = tree, !.original = tree,
                                  !.pristine = TRUE]
    /\ owed' = {} /\ beside' = {}
    /\ UNCHANGED <<project, pc, job, saved, damage>>

-----------------------------------------------------------------------------
(* What people do with the directory. *)

\* An edit of a file that quilt was not told of.
Edit(c) ==
    /\ ws.known /\ c \notin ws.tree
    /\ ws' = [ws EXCEPT !.tree = @ \cup {c}, !.plain = @ \cup {c}]
    /\ UNCHANGED <<project, pc, job, history, damage>>

Delete(i) ==
    /\ ws.known /\ i \in ws.tree /\ ws.series = <<>>
    /\ ws' = [ws EXCEPT !.tree = @ \ {i}, !.plain = @ \ {i}]
    /\ owed' = owed \ {i}
    /\ UNCHANGED <<project, pc, job, beside, saved, damage>>

\* quilt new, quilt add, an edit, quilt refresh.  Edits the patch below was not
\* refreshed with are in no patch: the next refresh is one of the new patch.
QuiltNew(c) ==
    /\ ws.known /\ c \notin ws.tree \cup ws.original
    /\ ws' = [ws EXCEPT !.tree = @ \cup {c}, !.series = Append(@, {c}),
                        !.plain = @ \cup ws.tracked, !.tracked = {}]
    /\ UNCHANGED <<project, pc, job, history, damage>>

\* An edit of a file of the top patch; the next refresh adds it to the patch.
QuiltEdit(c) ==
    /\ ws.known /\ ws.series # <<>> /\ c \notin ws.tree \cup ws.original
    /\ ws' = [ws EXCEPT !.tree = @ \cup {c}, !.tracked = @ \cup {c}]
    /\ UNCHANGED <<project, pc, job, history, damage>>

\* rm -rf of the directory: the work in it is given up.
Discard ==
    /\ pc = "idle" /\ ws.there
    /\ ws' = NoWorkspace /\ owed' = {} /\ beside' = {}
    /\ UNCHANGED <<project, pc, job, saved, damage>>

\* `ignite fetch' pins the sources that have no entry (module SourceStore).
Fetch ==
    /\ pc = "idle" /\ readable
    /\ pins' = pins \cup {Source} \cup Range(listed)
    /\ damage' = damage \ {"pins"}
    /\ UNCHANGED <<listed, readable, exported, patch, ws, pc, job, history>>

-----------------------------------------------------------------------------
(* workspace-finish *)

Goto(label) == pc' = label
Finished == pc' = "idle" /\ job' = NoJob

\* WorkspaceAvailable; readQuiltSeries fails without a series file.
StartFinish ==
    /\ pc = "idle" /\ readable /\ ws.there /\ ws.known
    /\ Cardinality(exported) + Max({1, Len(ws.series)}) <= MaxPatches   \* bound
    /\ job' = [NoJob EXCEPT !.n = Len(ws.series)]
    /\ IF ws.series = <<>> THEN Goto("diff") ELSE Goto("refresh")
    /\ damage' = IF ws.used THEN damage \cup {"retried"} ELSE damage
    /\ owed' = owed \cup (ws.tree \cap Changes)
    /\ UNCHANGED <<project, ws, beside, saved>>

\* quilt refresh: the edits of tracked files join the top patch.  What is in no
\* quilt patch will not be exported.
Refresh ==
    /\ pc = "refresh"
    /\ LET top == Len(ws.series)
           series == [ws.series EXCEPT ![top] = @ \cup ws.tracked]
       IN /\ ws' = [ws EXCEPT !.series = series, !.tracked = {}]
          /\ job' = [job EXCEPT
                !.todo = [k \in 1 .. job.n |->
                            [plus |-> series[k], minus |-> {}]],
                !.found = ws.original \cup UNION {series[k] : k \in 1 .. job.n}]
    /\ beside' = beside \cup ws.plain
    /\ Goto("export")
    /\ UNCHANGED <<project, owed, saved, damage>>

\* The tree the diff starts from: the copy kept when the workspace was opened,
\* or the sources unpacked once more.
DiffBase == IF ws.pristine THEN {ws.original} ELSE Prepared

\* diff -Naur a b: an empty diff closes the workspace at once.
Diff ==
    /\ pc = "diff"
    /\ \E base \in DiffBase :
        IF base = ws.tree
        THEN /\ Goto("remove")
             /\ job' = [job EXCEPT !.found = ws.tree]
             /\ ws' = [ws EXCEPT !.used = TRUE]
        ELSE /\ Goto("export")
             /\ job' = [job EXCEPT !.found = ws.tree,
                                   !.todo = <<[plus |-> ws.tree \ base,
                                               minus |-> base \ ws.tree]>>]
             /\ UNCHANGED ws
    /\ UNCHANGED <<project, history, damage>>

\* The sources do not unpack any more: workspace-finish returns an error.
DiffFails ==
    /\ pc = "diff" /\ DiffBase = {}
    /\ Finished
    /\ UNCHANGED <<project, ws, history, damage>>

\* nextPatchPath: the preferred number, or the next one that is not taken.
\* Faulty variant: takes the preferred name whether or not the file exists.
PreferredPatchPath(preferred) == preferred
NextPatchPath(preferred) ==
    Min({n \in Names : n >= preferred /\ n \notin exported})

\* One patch file is created and written.
\* Faulty variant: closes the workspace as soon as the patches are exported.
ExportAndClose ==
    /\ pc = "export"
    /\ LET k == Len(job.out) + 1
           n == NextPatchPath(k)
       IN /\ exported' = exported \cup {n}
          /\ patch' = [patch EXCEPT ![n] = job.todo[k]]
          /\ job' = [job EXCEPT !.out = Append(@, n)]
    /\ IF Len(job.out) + 1 = Len(job.todo)
       THEN Goto("record") /\ ws' = NoWorkspace
       ELSE UNCHANGED <<pc, ws>>
    /\ UNCHANGED <<listed, readable, pins, history, damage>>
\* Faulty variant: lists a patch it has not copied.
ExportNothing ==
    /\ pc = "export" /\ Goto("record")
    /\ job' = [job EXCEPT !.out = Append(@, NextPatchPath(Len(job.out) + 1))]
    /\ UNCHANGED <<project, ws, history, damage>>
Export ==
    /\ pc = "export"
    /\ LET k == Len(job.out) + 1
           n == NextPatchPath(k)
       IN /\ exported' = exported \cup {n}
          /\ patch' = [patch EXCEPT ![n] = job.todo[k]]
          /\ job' = [job EXCEPT !.out = Append(@, n)]
    /\ IF Len(job.out) + 1 = Len(job.todo) THEN Goto("record") ELSE UNCHANGED pc
    /\ UNCHANGED <<listed, readable, pins, ws, history, damage>>

\* appendSourcesToRecipeFile, whose os.WriteFile empties the recipe first ...
Record ==
    /\ pc = "record"
    /\ readable' = FALSE
    /\ Goto("rewrite")
    /\ UNCHANGED <<listed, pins, exported, patch, ws, job, history, damage>>

\* ... and then writes it with the patches it did not list yet.
AddSource(list, n) == IF n \in Range(list) THEN list ELSE Append(list, n)
Rewrite ==
    /\ pc = "rewrite"
    /\ readable' = TRUE
    /\ listed' = FoldLeft(AddSource, listed, job.out)
    /\ ws' = [ws EXCEPT !.used = TRUE]
    /\ saved' = job.found
    /\ Goto("lock")
    /\ UNCHANGED <<pins, exported, patch, job, owed, beside, damage>>

\* UpdateChecksumLockEntries: reads the lock, empties the file ...
Lock ==
    /\ pc = "lock"
    /\ job' = [job EXCEPT !.pins = pins]
    /\ pins' = {}
    /\ Goto("relock")
    /\ UNCHANGED <<listed, readable, exported, patch, ws, history, damage>>

\* ... and writes the old entries and the new ones.
\* Faulty variant: writes the entries of the new patches only.
RelockAfresh ==
    /\ pc = "relock"
    /\ pins' = Range(job.out)
    /\ Goto("remove")
    /\ UNCHANGED <<listed, readable, exported, patch, ws, job, history, damage>>
Relock ==
    /\ pc = "relock"
    /\ pins' = job.pins \cup Range(job.out)
    /\ Goto("remove")
    /\ UNCHANGED <<listed, readable, exported, patch, ws, job, history, damage>>

\* os.RemoveAll of the workspace.
Close ==
    /\ pc = "remove"
    /\ ws' = NoWorkspace
    /\ Finished
    /\ UNCHANGED <<project, history, damage>>

\* What a removal that is cut short leaves: any part of the directory.  (A
\* series whose patch files are gone fails like a missing series file, after
\* exporting the ones before, which nothing lists.  Without metadata or series
\* no command looks at the rest.)
Remains ==
    {[ws EXCEPT !.tree = r.tree, !.original = r.original, !.pristine = r.pristine] :
        r \in [tree : SUBSET ws.tree, original : SUBSET ws.original,
              pristine : BOOLEAN]}
    \cup {[NoWorkspace EXCEPT !.there = TRUE, !.used = TRUE]}

\* The command is killed (cancel, power failure): before an export that leaves
\* nothing or an empty patch file, between any two steps, during the removal.
Killed ==
    /\ pc # "idle" /\ Finished
    /\ IF pc = "export"
       THEN LET n == NextPatchPath(Len(job.out) + 1)
            IN exported' \in {exported, exported \cup {n}}
       ELSE UNCHANGED exported
    /\ IF pc = "remove" THEN ws' \in Remains ELSE UNCHANGED ws
    /\ damage' = IF pc \in {"lock", "relock"} THEN damage \cup {"pins"} ELSE damage
    /\ UNCHANGED <<listed, readable, pins, patch, history>>

People == Discard \/ \E c \in Items :
    Delete(c) \/ (c \in Changes /\ (Edit(c) \/ QuiltNew(c) \/ QuiltEdit(c)))
Command == Open \/ Fetch \/ StartFinish \/ Refresh \/ Diff \/ DiffFails
           \/ Export \/ Record \/ Rewrite \/ Lock \/ Relock \/ Close

Next == People \/ Command \/ Killed
Spec == Init /\ [][Next]_vars

-----------------------------------------------------------------------------
(* Properties *)

\* When no workspace is open and none was closed by a finish that had to be
\* started again after it had written the recipe, the project unpacks to
\* exactly the tree the last finish found; with quilt patches that is what was
\* opened and the quilt patches on it, whatever else was in the directory.
\* Over any number of workspaces the exported patches apply one on the other,
\* whatever was killed before the recipe was written, and after a kill later
\* `ignite fetch' is enough.
ClosedRebuilds ==
    (pc = "idle" /\ ~ws.there /\ readable /\ damage = {}) => Prepared = {saved}

\* Whatever is killed and started again, every change that was in the directory
\* when a finish started is, once the directory is gone, in a patch the recipe
\* lists, unless it had been made outside the quilt patches of a workspace that
\* has some: those changes workspace-finish deletes with the workspace, and it
\* deletes no other work.  Without quilt patches every change is kept.
InPatches == UNION {patch[n].plus : n \in Range(listed)}
WorkIsSomewhere == ~ws.there => owed \subseteq InPatches \cup beside

\* workspace-finish never writes over a patch of the project.
PatchFilesStay ==
    [][\A n \in exported : n \in exported' /\ patch'[n] = patch[n]]_vars

=============================================================================
