--------------------------- MODULE GitWorkspace ---------------------------
(***************************************************************************)
(* The workspace of a recipe whose only source is a git repository          *)
(* (tools/ignite/ignite.go, WorkspaceInit and WorkspaceFinishGit).  The     *)
(* workspace is a copy of the cached clone with a branch of its own.  To     *)
(* finish is to commit what is in it, to pin the commit in checksum.lock,    *)
(* to push if asked, and to remove the workspace.                           *)
(*                                                                         *)
(* Commits are numbered in the order they are made.  The tree of a commit   *)
(* is the set of changes it holds, and `kept' what .ignite-workspace/        *)
(* original in it is a copy of, if it has that directory.  The git commands  *)
(* are steps of their own; git is trusted to survive being killed.           *)
(***************************************************************************)
EXTENDS Naturals, Sequences

CONSTANTS
    Changes,        \* the changes people may make
    Pushes,         \* the values -workspace-push may have
    MaxCommits      \* bound on the commits anybody makes

ASSUME GitWorkspaceAssumption ==
    /\ Pushes \in (SUBSET BOOLEAN) \ {{}}
    /\ MaxCommits \in Nat \ {0}

Ids == 1 .. MaxCommits
NoCommit == 0
Trees == SUBSET Changes
\* `past' is the commit and everything before it.
Commit == [past : SUBSET Ids, tree : Trees, kept : SUBSET Trees]

VARIABLES
    commits,    \* every commit that was ever made
    remote,     \* those origin has
    main,       \* the branch the recipe names (its ref), at origin
    branch,     \* the branch workspaces are pushed to, at origin
    clone,      \* the commits of the clone in <cache>/sources
    pin,        \* the source's entry in checksum.lock
    ws,         \* the workspace: its files, HEAD and commits
    pc,         \* the next statement of the running workspace-finish
    push,       \* its -workspace-push
    owed,       \* (history) the changes the last finish found
    forced      \* (history) `fetch -force' has pinned anew since it started

vars == <<commits, remote, main, branch, clone, pin, ws, pc, push, owed, forced>>
origin == <<remote, main, branch>>

\* `original' is the copy of the tree kept when the workspace was opened.
NoWorkspace == [there |-> FALSE, known |-> FALSE, tree |-> {}, original |-> {},
                head |-> NoCommit, has |-> {}]

\* The types of the variables; what a branch, HEAD or the lock names was
\* committed once, and a repository with a commit has its past.
TypeOK ==
    LET Made == 1 .. Len(commits)
        Complete(ids) == \A i \in ids : commits[i].past \subseteq ids
    IN  /\ commits \in Seq(Commit) /\ Len(commits) \in Ids
        /\ remote \subseteq Made /\ clone \subseteq Made
        /\ Complete(remote) /\ Complete(clone)
        /\ main \in remote /\ branch \in remote \cup {NoCommit}
        /\ pin \in Made \cup {NoCommit}
        /\ ws.there \in BOOLEAN /\ ws.known \in BOOLEAN
        /\ ws.tree \subseteq Changes /\ ws.original \subseteq Changes
        /\ ws.has \subseteq Made /\ Complete(ws.has)
        /\ ws.known => ws.head \in ws.has
        /\ pc \in {"idle", "status", "commit", "lock", "relock", "push", "close"}
        /\ push \in BOOLEAN /\ owed \subseteq Changes /\ forced \in BOOLEAN

Init ==
    /\ commits = <<[past |-> {1}, tree |-> {}, kept |-> {}]>>
    /\ remote = {1} /\ main = 1 /\ branch = NoCommit
    /\ clone = {} /\ pin = 1
    /\ ws = NoWorkspace
    /\ pc = "idle" /\ push = FALSE /\ owed = {} /\ forced = FALSE

Newest == Len(commits) + 1
Made(parent, tree, kept) ==
    /\ Newest \in Ids                                                 \* bound
    /\ commits' = Append(commits, [past |-> commits[parent].past \cup {Newest},
                                   tree |-> tree, kept |-> kept])

-----------------------------------------------------------------------------
(* The rest of the world. *)

\* Somebody commits to the branch the recipe follows.
UpstreamCommits(c) ==
    /\ c \notin commits[main].tree
    /\ Made(main, commits[main].tree \cup {c}, commits[main].kept)
    /\ remote' = remote \cup {Newest} /\ main' = Newest
    /\ UNCHANGED <<branch, clone, pin, ws, pc, push, owed, forced>>

\* Somebody else commits to the branch workspaces are pushed to, and starts it
\* if need be.
OthersPush(c) ==
    LET base == IF branch = NoCommit THEN main ELSE branch
    IN  /\ c \notin commits[base].tree
        /\ Made(base, commits[base].tree \cup {c}, commits[base].kept)
        /\ remote' = remote \cup {Newest} /\ branch' = Newest
        /\ UNCHANGED <<main, clone, pin, ws, pc, push, owed, forced>>

Edit(c) ==
    /\ ws.known /\ c \notin ws.tree
    /\ ws' = [ws EXCEPT !.tree = @ \cup {c}]
    /\ UNCHANGED <<commits, origin, clone, pin, pc, push, owed, forced>>

\* A commit of the edits made by hand; it leaves .ignite-workspace alone.
CommitByHand ==
    /\ pc = "idle" /\ ws.known /\ ws.tree # commits[ws.head].tree
    /\ Made(ws.head, ws.tree, commits[ws.head].kept)
    /\ ws' = [ws EXCEPT !.head = Newest, !.has = @ \cup {Newest}]
    /\ UNCHANGED <<origin, clone, pin, pc, push, owed, forced>>

\* `ignite fetch -force': a new clone, pinned at the recipe's branch.
FetchForce ==
    /\ pc = "idle"
    /\ clone' = remote /\ pin' = main /\ forced' = TRUE
    /\ UNCHANGED <<commits, origin, ws, pc, push, owed>>

-----------------------------------------------------------------------------
(* ignite workspace *)

\* FetchGitSource: the pinned commit, after a fetch if the clone lacks it;
\* without an entry the recipe's branch.
Wanted == IF pin = NoCommit THEN main ELSE pin
Fetched == clone \cup
    IF clone = {} THEN remote
    ELSE IF pin = NoCommit THEN commits[main].past
    ELSE IF pin \in clone THEN {} ELSE remote

\* The clone is copied with its history, the branch set to the commit, the
\* tree copied to .ignite-workspace/original, everything renamed into place.
Open ==
    /\ pc = "idle" /\ ~ws.there
    /\ clone' = Fetched
    /\ IF Wanted \in Fetched
       THEN ws' = [there |-> TRUE, known |-> TRUE,
                   tree |-> commits[Wanted].tree,
                   original |-> commits[Wanted].tree,
                   head |-> Wanted, has |-> Fetched]
       ELSE UNCHANGED ws
    /\ UNCHANGED <<commits, origin, pin, pc, push, owed, forced>>

-----------------------------------------------------------------------------
(* ignite workspace-finish *)

StartFinish ==
    /\ pc = "idle" /\ ws.known
    /\ push' \in Pushes /\ forced' = FALSE
    /\ pc' = "status"
    /\ UNCHANGED <<commits, origin, clone, pin, ws, owed>>

\* git status --porcelain: edits, and .ignite-workspace unless HEAD has the
\* same one.
Dirty ==
    \/ ws.tree # commits[ws.head].tree
    \/ commits[ws.head].kept # {ws.original}

\* Faulty variant: a workspace with nothing to commit is not pinned either.
StatusClean ==
    /\ pc = "status"
    /\ pc' = IF Dirty THEN "commit" ELSE IF push THEN "push" ELSE "close"
    /\ owed' = ws.tree
    /\ UNCHANGED <<commits, origin, clone, pin, ws, push, forced>>
Status ==
    /\ pc = "status"
    /\ pc' = IF Dirty THEN "commit" ELSE "lock"
    /\ owed' = ws.tree
    /\ UNCHANGED <<commits, origin, clone, pin, ws, push, forced>>

\* git add -A and git commit.
\* Faulty variant: commits without adding the edits.
CommitNothing ==
    /\ pc = "commit"
    /\ Made(ws.head, commits[ws.head].tree, {ws.original})
    /\ ws' = [ws EXCEPT !.head = Newest, !.has = @ \cup {Newest}]
    /\ pc' = "lock"
    /\ UNCHANGED <<origin, clone, pin, push, owed, forced>>
CommitAll ==
    /\ pc = "commit"
    /\ Made(ws.head, ws.tree, {ws.original})
    /\ ws' = [ws EXCEPT !.head = Newest, !.has = @ \cup {Newest}]
    /\ pc' = "lock"
    /\ UNCHANGED <<origin, clone, pin, push, owed, forced>>

\* UpdateChecksumLockEntries: os.WriteFile empties the lock and writes it.
Lock ==
    /\ pc = "lock"
    /\ pin' = NoCommit
    /\ pc' = "relock"
    /\ UNCHANGED <<commits, origin, clone, ws, push, owed, forced>>
\* Faulty variant: pins a commit it has not made yet.
RelockNext ==
    /\ pc = "relock"
    /\ pin' = Newest
    /\ pc' = IF push THEN "push" ELSE "close"
    /\ UNCHANGED <<commits, origin, clone, ws, push, owed, forced>>
Relock ==
    /\ pc = "relock"
    /\ pin' = ws.head
    /\ pc' = IF push THEN "push" ELSE "close"
    /\ UNCHANGED <<commits, origin, clone, ws, push, owed, forced>>

\* git push origin HEAD:refs/heads/<branch>: origin takes fast-forwards only.
Push ==
    /\ pc = "push"
    /\ branch \in commits[ws.head].past \cup {NoCommit}
    /\ remote' = remote \cup commits[ws.head].past /\ branch' = ws.head
    /\ pc' = "close"
    /\ UNCHANGED <<commits, main, clone, pin, ws, push, owed, forced>>

\* The push is rejected or origin cannot be reached: an error, and the
\* workspace stays.
\* Faulty variant: a failed push is ignored.
PushIgnored ==
    /\ pc = "push" /\ pc' = "close"
    /\ UNCHANGED <<commits, origin, clone, pin, ws, push, owed, forced>>
PushFails ==
    /\ pc = "push" /\ pc' = "idle"
    /\ UNCHANGED <<commits, origin, clone, pin, ws, push, owed, forced>>

Close ==
    /\ pc = "close" /\ pc' = "idle"
    /\ ws' = NoWorkspace
    /\ UNCHANGED <<commits, origin, clone, pin, push, owed, forced>>

\* The command is killed.  A removal cut short leaves a directory without
\* metadata, which no command looks at, or one with a part of the files.
Killed ==
    /\ pc # "idle" /\ pc' = "idle"
    /\ IF pc = "close"
       THEN ws' \in {[ws EXCEPT !.tree = t] : t \in SUBSET ws.tree}
                    \cup {[NoWorkspace EXCEPT !.there = TRUE]}
       ELSE UNCHANGED ws
    /\ UNCHANGED <<commits, origin, clone, pin, push, owed, forced>>

Command == Open \/ StartFinish \/ Status \/ CommitAll \/ Lock \/ Relock
           \/ Push \/ PushFails \/ Close
People == FetchForce \/ CommitByHand \/ \E c \in Changes :
            UpstreamCommits(c) \/ OthersPush(c) \/ Edit(c)

Next == People \/ Command \/ Killed
Spec == Init /\ [][Next]_vars

-----------------------------------------------------------------------------
(* Properties *)

\* The commit checksum.lock pins exists: at origin, in the cached clone, or in
\* the open workspace.  (It does not, if workspaces are closed without a push.)
PinIsObtainable ==
    pin \in remote \cup clone \cup ws.has \cup {NoCommit}

\* Once a finish with -workspace-push has removed the workspace, the changes it
\* found are in a commit of the branch at origin.
WorkIsPublished ==
    push /\ ~ws.there => branch # NoCommit /\ \E i \in commits[branch].past :
        owed \subseteq commits[i].tree

\* After a finish with -workspace-push has removed the workspace, and until
\* `fetch -force' chooses another one, checksum.lock pins a commit that is on
\* the branch at origin and holds all the changes the finish found, whoever else
\* commits to the branch and however often the finish was killed, rejected and
\* started again: the recipe builds what was in the workspace, everywhere.
FinishedIsPinned ==
    push /\ ~ws.there /\ ~forced =>
        /\ branch # NoCommit /\ pin \in commits[branch].past
        /\ owed \subseteq commits[pin].tree

=============================================================================
