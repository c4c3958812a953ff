----------------------------- MODULE SourceStore -----------------------------
(***************************************************************************)
(* The source cache (<cache>/sources) and checksum.lock, as `ignite fetch` *)
(* fills them (FetchSources) and a build uses them (prepareSources).       *)
(*                                                                         *)
(* One command runs at a time: the job server sees to that (JobServer,     *)
(* OneChild).  It may be killed between any two steps (a cancelled job, a  *)
(* crash, ^C), and what the sources come from (web sites, git remotes,     *)
(* patch files of the project) may change at any moment.                   *)
(***************************************************************************)
EXTENDS Naturals, Sequences, SequencesExt, FiniteSets

CONSTANTS Remote,    \* names of sources with an http(s) url
          Local,     \* names of sources that are files of the project
          Git,       \* names of git sources
          WithRef,   \* the git sources with a ref, branch or commit
          Recipes,
          SourcesOf, \* recipe.sources, by name
          None,
          MaxVersion \* bound: changes of each origin

Names == Remote \cup Local \cup Git
Versions == 0..MaxVersion

\* A file: the versions its bytes came from, and whether its writer ended.
Contents == [of : (SUBSET Versions) \ {{}}, whole : BOOLEAN]
Entries == [Names -> Contents \cup {None}]  \* a checksum stands for the content

ASSUME SourceStoreAssumption ==
  /\ Remote \cap Local = {} /\ Remote \cap Git = {} /\ Local \cap Git = {}
  /\ WithRef \subseteq Git
  /\ SourcesOf \in [Recipes -> Seq(Names)]
  /\ None \notin Contents
  /\ MaxVersion \in Nat

VARIABLES
  \* outside
  origin,  \* the version each source has where it comes from
  \* on disk
  cache,   \* sources/<name>, for git the commit checked out
  tmp,     \* sources/<name>.tmp
  lock,    \* checksum.lock: is there a file, and what it says
  \* the running command
  command, \* "idle", "fetch" or "build"
  force,   \* -force
  recipes, \* the recipes of the fetch (Resolve), or the one to build, not yet done
  nth,     \* source of Head(recipes) it works on
  step,    \* what it does with this source
  sums,    \* checksums, the map a fetch will write
  used     \* what the build has unpacked

diskVars == <<cache, tmp, lock>>
vars == <<origin, diskVars, command, force, recipes, nth, step, sums, used>>

NoEntries == [s \in Names |-> None]
Whole(v) == [of |-> {v}, whole |-> TRUE]

TypeOK ==
  /\ origin \in [Names -> Versions]
  /\ cache \in Entries /\ tmp \in Entries
  /\ lock \in [there : BOOLEAN, entries : Entries]
  /\ command \in {"idle", "fetch", "build"}
  /\ force \in BOOLEAN
  /\ recipes \in Seq(Recipes)
  /\ nth \in Nat \ {0}
  /\ step \in {"next", "remove", "removeTmp", "obtain", "download", "rename",
               "copy", "got", "write"}
  /\ sums \in Entries /\ used \in Entries

Init ==
  /\ origin = [s \in Names |-> 0]
  /\ cache = NoEntries /\ tmp = NoEntries
  /\ lock \in {[there |-> FALSE, entries |-> NoEntries],
               [there |-> TRUE, entries |-> [s \in Names |-> Whole(0)]]}
  /\ command = "idle" /\ force = FALSE
  /\ recipes = <<>> /\ nth = 1 /\ step = "next"
  /\ sums = NoEntries /\ used = NoEntries

-----------------------------------------------------------------------------
OriginChanges(s) ==
  /\ origin[s] < MaxVersion
  /\ origin' = [origin EXCEPT ![s] = @ + 1]
  /\ UNCHANGED <<diskVars, command, force, recipes, nth, step, sums, used>>

Start(c, rs, f) ==
  /\ command = "idle"
  /\ command' = c /\ force' = f /\ recipes' = rs
  /\ UNCHANGED <<origin, diskVars, nth, step>>

\* Faulty variant: every fetch starts from an empty map.
StartFetchAfresh(rs, f) ==
  /\ Start("fetch", rs, f)
  /\ sums' = NoEntries
  /\ UNCHANGED used

\* The lock is read once, at the start, and not at all with -force.
StartFetch(rs, f) ==
  /\ Start("fetch", rs, f)
  /\ sums' = IF f \/ ~lock.there THEN NoEntries ELSE lock.entries
  /\ UNCHANGED used

StartBuild(r) ==
  /\ Start("build", <<r>>, FALSE)
  /\ used' = NoEntries
  /\ UNCHANGED sums

\* The command ends, or dies: what it had in memory is gone.
Stop ==
  /\ command' = "idle" /\ force' = FALSE
  /\ recipes' = <<>> /\ nth' = 1 /\ step' = "next"
  /\ sums' = NoEntries /\ used' = NoEntries

Killed == command # "idle" /\ Stop /\ UNCHANGED <<origin, diskVars>>

Source == SourcesOf[Head(recipes)][nth]
Active == UNCHANGED <<origin, command, force>>
At(p) == command # "idle" /\ step = p

NextSource ==
  /\ At("next") /\ recipes # <<>> /\ nth <= Len(SourcesOf[Head(recipes)])
  /\ step' = IF force THEN "remove" ELSE "obtain"
  /\ Active /\ UNCHANGED <<diskVars, recipes, nth, sums, used>>

\* os.WriteFile empties checksum.lock, then fills it: the checkpoint a fetch
\* makes after each recipe.
EmptyLock ==
  /\ At("next") /\ command = "fetch"
  /\ recipes # <<>> /\ nth > Len(SourcesOf[Head(recipes)])
  /\ lock' = [there |-> TRUE, entries |-> NoEntries]
  /\ step' = "write"
  /\ Active /\ UNCHANGED <<cache, tmp, recipes, nth, sums, used>>

WriteLock ==
  /\ At("write")
  /\ lock' = [there |-> TRUE, entries |-> sums]
  /\ recipes' = Tail(recipes) /\ nth' = 1 /\ step' = "next"
  /\ Active /\ UNCHANGED <<cache, tmp, sums, used>>

Complete ==
  /\ At("next")
  /\ \/ recipes = <<>>
     \/ command = "build" /\ nth > Len(SourcesOf[Head(recipes)])
  /\ Stop
  /\ UNCHANGED <<origin, diskVars>>

-----------------------------------------------------------------------------
(***************************************************************************)
(* FetchSourceFile and FetchGitSource.                                     *)
(***************************************************************************)
RemoveFile ==
  /\ At("remove")
  /\ cache' = [cache EXCEPT ![Source] = None]
  /\ step' = IF Source \in Git THEN "obtain" ELSE "removeTmp"
  /\ Active /\ UNCHANGED <<tmp, lock, recipes, nth, sums, used>>

RemoveTmp ==
  /\ At("removeTmp")
  /\ tmp' = [tmp EXCEPT ![Source] = None]
  /\ step' = "obtain"
  /\ Active /\ UNCHANGED <<cache, lock, recipes, nth, sums, used>>

\* The locked commit; a fetch looks in the map it read, a build in the lock.
Expected ==
  IF command = "build" THEN IF lock.there THEN lock.entries[Source] ELSE None
  ELSE IF force THEN None ELSE sums[Source]

\* git clone, fetch, checkout.  (Commits do not vanish from the remotes.)
ObtainGit ==
  /\ At("obtain") /\ Source \in Git
  /\ cache' = [cache EXCEPT ![Source] =
       IF Expected # None THEN Expected
       ELSE IF force \/ @ = None \/ Source \in WithRef THEN Whole(origin[Source])
       ELSE @]
  /\ step' = "got"
  /\ Active /\ UNCHANGED <<tmp, lock, recipes, nth, sums, used>>

FoundFile ==
  /\ At("obtain") /\ Source \notin Git /\ cache[Source] # None
  /\ step' = "got"
  /\ Active /\ UNCHANGED <<diskVars, recipes, nth, sums, used>>

\* wget -c goes on where a killed download stopped, whatever is there now.
Download ==
  /\ At("obtain") /\ Source \in Remote /\ cache[Source] = None
  /\ tmp' = [tmp EXCEPT ![Source] =
       [of |-> {origin[Source]} \cup (IF @ = None THEN {} ELSE @.of), whole |-> FALSE]]
  /\ step' = "download"
  /\ Active /\ UNCHANGED <<cache, lock, recipes, nth, sums, used>>

Downloaded ==
  /\ At("download")
  /\ tmp' = [tmp EXCEPT ![Source].whole = TRUE]
  /\ step' = "rename"
  /\ Active /\ UNCHANGED <<cache, lock, recipes, nth, sums, used>>

\* Faulty variant: the file is renamed before wget has ended.
RenameEarly ==
  /\ At("download") \/ At("rename")
  /\ cache' = [cache EXCEPT ![Source] = tmp[Source]]
  /\ tmp' = [tmp EXCEPT ![Source] = None]
  /\ step' = "got"
  /\ Active /\ UNCHANGED <<lock, recipes, nth, sums, used>>

Rename ==
  /\ At("rename")
  /\ cache' = [cache EXCEPT ![Source] = tmp[Source]]
  /\ tmp' = [tmp EXCEPT ![Source] = None]
  /\ step' = "got"
  /\ Active /\ UNCHANGED <<lock, recipes, nth, sums, used>>

\* copyFile writes to the final name.
Copy ==
  /\ At("obtain") /\ Source \in Local /\ cache[Source] = None
  /\ cache' = [cache EXCEPT ![Source] = [of |-> {origin[Source]}, whole |-> FALSE]]
  /\ step' = "copy"
  /\ Active /\ UNCHANGED <<tmp, lock, recipes, nth, sums, used>>

Copied ==
  /\ At("copy")
  /\ cache' = [cache EXCEPT ![Source].whole = TRUE]
  /\ step' = "got"
  /\ Active /\ UNCHANGED <<tmp, lock, recipes, nth, sums, used>>

-----------------------------------------------------------------------------
(***************************************************************************)
(* What is done with the source.  A fetch adds it to its map unless it is  *)
(* there; a build checks it (VerifySourceFile, or the comparison of the    *)
(* commit) and unpacks it, or gives up.                                    *)
(***************************************************************************)
\* Faulty variant: a checksum the map has is kept, also with -force.
SumOnce ==
  /\ At("got") /\ command = "fetch"
  /\ sums' = IF sums[Source] # None THEN sums
             ELSE [sums EXCEPT ![Source] = cache[Source]]
  /\ step' = "next" /\ nth' = nth + 1
  /\ Active /\ UNCHANGED <<diskVars, recipes, used>>

Sum ==
  /\ At("got") /\ command = "fetch"
  /\ sums' = IF ~force /\ sums[Source] # None THEN sums
             ELSE [sums EXCEPT ![Source] = cache[Source]]
  /\ step' = "next" /\ nth' = nth + 1
  /\ Active /\ UNCHANGED <<diskVars, recipes, used>>

\* Faulty variant: nothing is verified.
AcceptedAlways == TRUE

Accepted ==
  \/ ~lock.there
  \/ lock.entries[Source] = cache[Source]
  \/ Source \in Git /\ lock.entries[Source] = None

Unpack ==
  /\ At("got") /\ command = "build" /\ Accepted
  /\ used' = [used EXCEPT ![Source] = cache[Source]]
  /\ step' = "next" /\ nth' = nth + 1
  /\ Active /\ UNCHANGED <<diskVars, recipes, sums>>

Refuse ==
  /\ At("got") /\ command = "build" /\ ~Accepted
  /\ Stop /\ UNCHANGED <<origin, diskVars>>

Work == NextSource \/ EmptyLock \/ WriteLock \/ Complete \/ RemoveFile \/ RemoveTmp
        \/ ObtainGit \/ FoundFile \/ Download \/ Downloaded \/ Rename \/ Copy
        \/ Copied \/ Sum \/ Unpack \/ Refuse

\* Plans of one or two recipes; a fetch without arguments takes all of them.
Plans == {<<r>> : r \in Recipes} \cup {<<r, q>> : r, q \in Recipes}

Next ==
  \/ \E s \in Names : OriginChanges(s)
  \/ \E rs \in Plans, f \in BOOLEAN : StartFetch(rs, f)
  \/ \E r \in Recipes : StartBuild(r)
  \/ Work
  \/ Killed

Spec == Init /\ [][Next]_vars

-----------------------------------------------------------------------------
(***************************************************************************)
(* Once there is a checksum.lock, a build unpacks exactly what it pins by  *)
(* then, no matter which fetches and builds were killed where and how the  *)
(* origins changed: a file that was pinned and is another one now makes    *)
(* the build fail.  (A git source the lock does not name is let through.)  *)
(* What fetch pins is not looked at here: after a killed copy it pins the  *)
(* partial file, and after a half-written lock whatever it finds.          *)
(***************************************************************************)
BuiltFromLock ==
  command = "build" /\ lock.there =>
    \A s \in Names : used[s] # None =>
      lock.entries[s] \in {used[s]} \cup (IF s \in Git THEN {None} ELSE {})

(***************************************************************************)
(* What is found under the final name of a downloaded source was written   *)
(* to its end: a killed download leaves only the .tmp file.                *)
(***************************************************************************)
DownloadsAreWhole == \A s \in Remote : cache[s] # None => cache[s].whole

(***************************************************************************)
(* A fetch without -force changes no pin: whatever the lock says when the  *)
(* fetch is about to rewrite it, the new text says too.                    *)
(***************************************************************************)
PinsKept ==
  command = "fetch" /\ ~force /\ step # "write" /\ lock.there =>
    \A s \in Names : lock.entries[s] # None => sums[s] = lock.entries[s]

(***************************************************************************)
(* What a fetch -force pins is what it leaves in the cache, also for a     *)
(* source that several of its recipes use and that is fetched again for    *)
(* each: the build that follows accepts it.                                *)
(***************************************************************************)
ForcedPinsMatchCache ==
  command = "fetch" /\ force =>
    \A s \in Names : sums[s] # None =>
      \/ sums[s] = cache[s]
      \/ step \notin {"next", "remove", "write"} /\ s = Source
=============================================================================
