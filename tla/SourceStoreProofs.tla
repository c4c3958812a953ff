-------------------------- MODULE SourceStoreProofs --------------------------
(***************************************************************************)
(* Proofs about SourceStore, for all sources and recipes and any number of *)
(* changes of the origins: types, what a build unpacks is what the lock    *)
(* pins, downloads are whole, and what a fetch does to the pins.           *)
(***************************************************************************)
EXTENDS SourceStore, SequenceTheorems, TLAPS

OnSource == {"remove", "removeTmp", "obtain", "download", "rename", "copy", "got"}

(***************************************************************************)
(* Where the running command is: at a source of its first recipe, of the   *)
(* kind that is obtained this way, whose file it has begun to write; when  *)
(* it renames a download, the download has ended.                          *)
(***************************************************************************)
Working ==
  /\ step \in OnSource =>
       /\ command # "idle" /\ recipes # <<>>
       /\ nth <= Len(SourcesOf[Head(recipes)])
  /\ step = "write" => command = "fetch" /\ recipes # <<>>
  /\ step \in {"download", "rename"} => Source \in Remote /\ tmp[Source] # None
  /\ step = "rename" => tmp[Source].whole
  /\ step = "copy" => Source \in Local /\ cache[Source] # None

IndInv == TypeOK /\ Working /\ DownloadsAreWhole

-----------------------------------------------------------------------------
LEMMA SourceFacts ==
  ASSUME TypeOK, Working, step \in OnSource
  PROVE  Source \in Names
<1>1. Head(recipes) \in Recipes /\ nth \in 1 .. Len(SourcesOf[Head(recipes)])
  BY DEF TypeOK, Working
<1>2. SourcesOf[Head(recipes)] \in Seq(Names)
  BY <1>1, SourceStoreAssumption
<1> QED BY <1>1, <1>2 DEF Source

\* What can be in a file is of the right kind.
LEMMA ContentFacts ==
  /\ \A v \in Versions : Whole(v) \in Contents
  /\ \A v \in Versions, w \in BOOLEAN : [of |-> {v}, whole |-> w] \in Contents
  /\ NoEntries \in Entries
  /\ None \notin Contents
BY SourceStoreAssumption DEF Whole, Contents, NoEntries, Entries

\* Between two commands nothing is under way.
LEMMA IdleWorking == step = "next" => Working
BY Zenon DEF Working, OnSource

LEMMA InitInv == Init => IndInv
<1> SUFFICES ASSUME Init PROVE IndInv
  OBVIOUS
<1>1. 0 \in Versions /\ <<>> \in Seq(Recipes)
  BY SourceStoreAssumption DEF Versions
<1>2. [s \in Names |-> Whole(0)] \in Entries
  BY <1>1, ContentFacts DEF Entries
<1>3. TypeOK
  <2>1. lock \in [there : BOOLEAN, entries : Entries]
    <3>1. CASE lock = [there |-> FALSE, entries |-> NoEntries]
      BY <3>1, ContentFacts
    <3>2. CASE lock = [there |-> TRUE, entries |-> [s \in Names |-> Whole(0)]]
      BY <1>2, <3>2
    <3> QED BY <3>1, <3>2 DEF Init
  <2>2. recipes \in Seq(Recipes) /\ nth \in Nat \ {0} /\ origin \in [Names -> Versions]
    BY <1>1 DEF Init
  <2> QED BY <2>1, <2>2, ContentFacts DEF Init, TypeOK
<1>4. DownloadsAreWhole
  BY DEF Init, DownloadsAreWhole, NoEntries, Names
<1>5. Working
  BY IdleWorking DEF Init
<1> QED BY <1>3, <1>4, <1>5 DEF IndInv

\* A command that ends, and one that is killed, leaves the files as they are.
LEMMA StopStep ==
  ASSUME IndInv, Stop, UNCHANGED <<origin, diskVars>>
  PROVE  IndInv'
<1>1. <<>> \in Seq(Recipes)
  OBVIOUS
<1>2. TypeOK'
  <2>1. recipes' \in Seq(Recipes) /\ nth' \in Nat \ {0}
    BY <1>1 DEF Stop
  <2> QED BY <2>1, ContentFacts DEF IndInv, TypeOK, Stop, diskVars
<1>3. Working'
  BY DEF Stop, Working, OnSource
<1>4. DownloadsAreWhole'
  BY DEF IndInv, DownloadsAreWhole, diskVars
<1> QED BY <1>2, <1>3, <1>4 DEF IndInv

LEMMA StartStep ==
  ASSUME IndInv,
         \/ \E rs \in Plans, f \in BOOLEAN : StartFetch(rs, f)
         \/ \E r \in Recipes : StartBuild(r)
  PROVE  IndInv'
<1>1. step = "next" \/ step = "write"
  BY DEF IndInv, TypeOK, Working, OnSource, StartFetch, StartBuild, Start
<1>2. step = "next"
  BY <1>1 DEF IndInv, Working, StartFetch, StartBuild, Start
<1>3. /\ recipes' \in Seq(Recipes) /\ command' \in {"fetch", "build"} /\ force' \in BOOLEAN
      /\ UNCHANGED <<origin, diskVars, nth, step>>
  <2>1. ASSUME NEW rs \in Plans PROVE rs \in Seq(Recipes)
    <3>1. CASE \E r \in Recipes : rs = <<r>>
      BY <3>1
    <3>2. CASE \E r, q \in Recipes : rs = <<r, q>>
      BY <3>2
    <3> QED BY <3>1, <3>2 DEF Plans
  <2>2. \A r \in Recipes : <<r>> \in Seq(Recipes)
    OBVIOUS
  <2> QED BY <2>1, <2>2 DEF StartFetch, StartBuild, Start
<1>4. sums' \in Entries /\ used' \in Entries
  BY ContentFacts DEF StartFetch, StartBuild, IndInv, TypeOK
<1>5. TypeOK'
  BY <1>3, <1>4 DEF IndInv, TypeOK, diskVars
<1> QED BY <1>2, <1>3, <1>5 DEF IndInv, Working, OnSource, DownloadsAreWhole, diskVars


\* Going from one source, and from one recipe, to the next.
LEMMA MoveStep ==
  ASSUME IndInv, NextSource \/ EmptyLock \/ WriteLock
  PROVE  IndInv'
<1> USE DEF IndInv
<1>1. CASE NextSource
  <2>1. TypeOK' /\ DownloadsAreWhole'
    BY <1>1 DEF NextSource, Active, At, TypeOK, DownloadsAreWhole, diskVars
  <2>2. Working'
    BY <1>1 DEF NextSource, Active, At, Working, OnSource
  <2> QED BY <2>1, <2>2
<1>2. CASE EmptyLock
  <2>1. TypeOK' /\ DownloadsAreWhole'
    BY <1>2, ContentFacts DEF EmptyLock, Active, At, TypeOK, DownloadsAreWhole
  <2>2. Working'
    BY <1>2 DEF EmptyLock, Active, At, Working, OnSource
  <2> QED BY <2>1, <2>2
<1>3. CASE WriteLock
  <2>1. recipes \in Seq(Recipes) /\ recipes # <<>>
    BY <1>3 DEF WriteLock, At, TypeOK, Working
  <2>2. recipes' \in Seq(Recipes)
    BY <1>3, <2>1 DEF WriteLock
  <2>3. TypeOK' /\ DownloadsAreWhole'
    BY <1>3, <2>2 DEF WriteLock, Active, At, TypeOK, DownloadsAreWhole
  <2>4. Working'
    BY <1>3, Zenon DEF WriteLock, Working, OnSource
  <2> QED BY <2>3, <2>4
<1> QED BY <1>1, <1>2, <1>3

\* What a source may need before it is there: the parts common to all steps.
Obtaining ==
  /\ UNCHANGED <<origin, lock, command, force, recipes, nth, sums, used>>
  /\ step' \in OnSource

LEMMA ObtainingStep ==
  ASSUME IndInv, Obtaining, step \in OnSource, cache' \in Entries, tmp' \in Entries,
         step' \in {"download", "rename"} => Source \in Remote /\ tmp'[Source] # None,
         step' = "rename" => tmp'[Source].whole,
         step' = "copy" => Source \in Local /\ cache'[Source] # None,
         DownloadsAreWhole'
  PROVE  IndInv'
<1>1. Source' = Source
  BY DEF Source, Obtaining
<1>2. TypeOK'
  BY DEF IndInv, TypeOK, Obtaining, OnSource
<1>3. Working'
  BY <1>1 DEF IndInv, Working, Obtaining, OnSource
<1> QED BY <1>2, <1>3 DEF IndInv

\* FetchSourceFile and FetchGitSource.
LEMMA ObtainStep ==
  ASSUME IndInv, \/ RemoveFile \/ RemoveTmp \/ ObtainGit \/ FoundFile \/ Download
                 \/ Downloaded \/ Rename \/ Copy \/ Copied
  PROVE  IndInv'
<1> USE DEF IndInv
<1>1. /\ step \in OnSource /\ Source \in Names
      /\ Obtaining
  <2>1. step \in OnSource
    BY DEF RemoveFile, RemoveTmp, ObtainGit, FoundFile, Download, Downloaded, Rename, Copy,
           Copied, At, OnSource
  <2>2. Obtaining
    BY DEF RemoveFile, RemoveTmp, ObtainGit, FoundFile, Download, Downloaded, Rename, Copy,
           Copied, At, Active, Obtaining, OnSource, diskVars
  <2> QED BY <2>1, <2>2, SourceFacts
<1>2. /\ cache \in Entries /\ tmp \in Entries /\ origin[Source] \in Versions
      /\ \A s \in Names : cache[s] \in Contents \cup {None} /\ tmp[s] \in Contents \cup {None}
  BY <1>1 DEF TypeOK, Entries
<1>3. /\ Remote \cap Local = {} /\ Remote \cap Git = {} /\ Remote \subseteq Names
  BY SourceStoreAssumption DEF Names
<1>4. \A f, e : f \in Entries /\ e \in Contents \cup {None} => [f EXCEPT ![Source] = e] \in Entries
  BY <1>1 DEF Entries
<1>5. CASE RemoveFile \/ RemoveTmp
  <2>1. cache' \in Entries /\ tmp' \in Entries
    BY <1>2, <1>4, <1>5 DEF RemoveFile, RemoveTmp
  <2>2. step' \in {"obtain", "removeTmp"}
    BY <1>5 DEF RemoveFile, RemoveTmp
  <2>3. DownloadsAreWhole'
    BY <1>1, <1>2, <1>3, <1>5 DEF RemoveFile, RemoveTmp, DownloadsAreWhole, Entries
  <2> QED BY <1>1, <2>1, <2>2, <2>3, ObtainingStep
<1>6. CASE ObtainGit
  <2>1. Source \in Git /\ step' = "got" /\ UNCHANGED tmp
    BY <1>6 DEF ObtainGit
  <2>2. Expected \in Contents \cup {None}
    BY <1>1 DEF Expected, TypeOK, Entries
  <2>3. PICK e \in Contents \cup {None} : cache' = [cache EXCEPT ![Source] = e]
    BY <1>2, <1>6, <2>2, ContentFacts DEF ObtainGit, Entries
  <2>4. DownloadsAreWhole'
    BY <1>1, <1>2, <1>3, <2>1, <2>3 DEF DownloadsAreWhole, Entries
  <2> QED BY <1>1, <1>2, <1>4, <2>1, <2>3, <2>4, ObtainingStep
<1>7. CASE FoundFile
  BY <1>1, <1>2, <1>7, ObtainingStep DEF FoundFile, diskVars, DownloadsAreWhole
<1>8. CASE Download
  <2>1. /\ Source \in Remote /\ UNCHANGED cache /\ step' = "download"
        /\ tmp' = [tmp EXCEPT ![Source] = [of |-> {origin[Source]} \cup
                     (IF tmp[Source] = None THEN {} ELSE tmp[Source].of), whole |-> FALSE]]
    BY <1>1, <1>2, <1>8, Zenon DEF Download, Entries
  <2>2. PICK e \in Contents : tmp' = [tmp EXCEPT ![Source] = e]
    <3> DEFINE of == {origin[Source]} \cup (IF tmp[Source] = None THEN {} ELSE tmp[Source].of)
    <3>1. of \in (SUBSET Versions) \ {{}}
      BY <1>1, <1>2 DEF Contents
    <3>2. [of |-> of, whole |-> FALSE] \in Contents
      BY <3>1 DEF Contents
    <3> QED BY <2>1, <3>2
  <2>3. tmp'[Source] # None /\ tmp' \in Entries /\ cache' \in Entries
    BY <1>1, <1>2, <1>4, <2>1, <2>2, ContentFacts DEF Entries
  <2>4. DownloadsAreWhole'
    BY <2>1 DEF DownloadsAreWhole
  <2>5. Source \in Remote /\ step' = "download"
    BY <2>1
  <2> QED BY <1>1, <2>3, <2>4, <2>5, ObtainingStep
<1>9. CASE Downloaded
  <2>1. Source \in Remote /\ tmp[Source] \in Contents /\ step' = "rename" /\ UNCHANGED cache
    BY <1>1, <1>2, <1>9 DEF Downloaded, At, Working
  <2>2. PICK e \in Contents : e.whole /\ tmp' = [tmp EXCEPT ![Source] = e]
    <3>1. [tmp[Source] EXCEPT !.whole = TRUE] \in Contents
      BY <2>1 DEF Contents
    <3>2. [tmp[Source] EXCEPT !.whole = TRUE].whole
      BY <2>1 DEF Contents
    <3> QED BY <1>9, <3>1, <3>2 DEF Downloaded
  <2>3. tmp'[Source] # None /\ tmp'[Source].whole
    BY <1>1, <1>2, <2>2, ContentFacts DEF Entries
  <2>4. DownloadsAreWhole'
    BY <2>1 DEF DownloadsAreWhole
  <2> QED BY <1>1, <1>2, <1>4, <2>1, <2>2, <2>3, <2>4, ObtainingStep
<1>10. CASE Rename
  <2>1. /\ Source \in Remote /\ tmp[Source].whole /\ step' = "got"
        /\ cache' = [cache EXCEPT ![Source] = tmp[Source]]
        /\ tmp' = [tmp EXCEPT ![Source] = None]
    BY <1>10 DEF Rename, At, Working
  <2>2. cache' \in Entries /\ tmp' \in Entries
    BY <1>1, <1>2, <1>4, <2>1
  <2>3. DownloadsAreWhole'
    BY <1>1, <1>2, <1>3, <2>1 DEF DownloadsAreWhole, Entries
  <2> QED BY <1>1, <2>1, <2>2, <2>3, ObtainingStep
<1>11. CASE Copy
  <2>1. /\ Source \in Local /\ UNCHANGED tmp /\ step' = "copy"
        /\ cache' = [cache EXCEPT ![Source] = [of |-> {origin[Source]}, whole |-> FALSE]]
    BY <1>11 DEF Copy
  <2>2. [of |-> {origin[Source]}, whole |-> FALSE] \in Contents
    BY <1>2, ContentFacts
  <2>3. cache' \in Entries
    BY <1>2, <1>4, <2>1, <2>2
  <2>4. cache'[Source] # None /\ DownloadsAreWhole'
    BY <1>1, <1>2, <1>3, <2>1, <2>2, ContentFacts DEF DownloadsAreWhole, Entries
  <2> QED BY <1>1, <1>2, <2>1, <2>3, <2>4, ObtainingStep
<1>12. CASE Copied
  <2>1. Source \in Local /\ cache[Source] \in Contents /\ step' = "got" /\ UNCHANGED tmp
    BY <1>1, <1>2, <1>12 DEF Copied, At, Working
  <2>2. PICK e \in Contents : cache' = [cache EXCEPT ![Source] = e]
    <3>1. [cache[Source] EXCEPT !.whole = TRUE] \in Contents
      BY <2>1 DEF Contents
    <3> QED BY <1>12, <3>1 DEF Copied
  <2>3. DownloadsAreWhole'
    BY <1>1, <1>2, <1>3, <2>1, <2>2 DEF DownloadsAreWhole, Entries
  <2> QED BY <1>1, <1>2, <1>4, <2>1, <2>2, <2>3, ObtainingStep
<1> QED BY <1>5, <1>6, <1>7, <1>8, <1>9, <1>10, <1>11, <1>12


\* The checksum is taken, or compared and the source unpacked.
LEMMA UseStep ==
  ASSUME IndInv, Sum \/ Unpack
  PROVE  IndInv'
<1> USE DEF IndInv
<1>1. step = "got" /\ step' = "next" /\ nth' = nth + 1 /\ UNCHANGED <<diskVars, origin, command, force, recipes>>
  BY DEF Sum, Unpack, At, Active
<1>2. Source \in Names
  BY <1>1, SourceFacts DEF OnSource
<1>3. cache[Source] \in Contents \cup {None}
  BY <1>2 DEF TypeOK, Entries
<1>4. sums' \in Entries /\ used' \in Entries
  <2>1. \A f \in Entries : [f EXCEPT ![Source] = cache[Source]] \in Entries
    BY <1>2, <1>3 DEF Entries
  <2> QED BY <2>1 DEF Sum, Unpack, TypeOK
<1>5. TypeOK' /\ DownloadsAreWhole'
  BY <1>1, <1>4 DEF TypeOK, DownloadsAreWhole, diskVars
<1>6. Working'
  BY <1>1 DEF Working, OnSource
<1> QED BY <1>5, <1>6

LEMMA NextInv == IndInv /\ [Next]_vars => IndInv'
<1> SUFFICES ASSUME IndInv, [Next]_vars PROVE IndInv'
  OBVIOUS
<1>1. ASSUME NEW s \in Names, OriginChanges(s) PROVE IndInv'
  <2>1. origin' \in [Names -> Versions]
    BY <1>1, SourceStoreAssumption DEF OriginChanges, IndInv, TypeOK, Versions
  <2>2. TypeOK' /\ DownloadsAreWhole'
    BY <1>1, <2>1 DEF OriginChanges, IndInv, TypeOK, DownloadsAreWhole, diskVars
  <2>3. Working'
    BY <1>1 DEF OriginChanges, IndInv, Working, Source, diskVars
  <2> QED BY <2>2, <2>3 DEF IndInv
<1>2. CASE Complete \/ Refuse \/ Killed
  BY <1>2, StopStep DEF Complete, Refuse, Killed
<1>3. CASE UNCHANGED vars
  BY <1>3 DEF vars, diskVars, IndInv, TypeOK, Working, Source, DownloadsAreWhole
<1> QED BY <1>1, <1>2, <1>3, StartStep, MoveStep, ObtainStep, UseStep DEF Next, Work

LEMMA Inductive == Spec => []IndInv
<1> QED BY InitInv, NextInv, PTL DEF Spec

-----------------------------------------------------------------------------
\* The variables have their types: see TypeOK.
THEOREM TypeCorrect == Spec => []TypeOK
<1>1. IndInv => TypeOK
  BY DEF IndInv
<1> QED BY <1>1, Inductive, PTL

(***************************************************************************)
(* Under the final name of a downloaded source is a file whose download    *)
(* has ended, wherever fetches were killed: a partial one stays in .tmp.   *)
(***************************************************************************)
THEOREM NoPartialDownload == Spec => []DownloadsAreWhole
<1>1. IndInv => DownloadsAreWhole
  BY DEF IndInv
<1> QED BY <1>1, Inductive, PTL

(***************************************************************************)
(* If there is a checksum.lock, a build unpacks what it pins and nothing   *)
(* else: VerifySourceFile and the comparison of commits see the very files *)
(* that are unpacked, and no fetch writes the lock meanwhile.              *)
(***************************************************************************)
THEOREM BuildsFromLock == Spec => []BuiltFromLock
<1>1. Init => BuiltFromLock
  BY DEF Init, BuiltFromLock
<1>2. IndInv /\ BuiltFromLock /\ [Next]_vars => BuiltFromLock'
  <2> SUFFICES ASSUME IndInv, BuiltFromLock, [Next]_vars PROVE BuiltFromLock'
    OBVIOUS
  <2>1. CASE Unpack
    <3>1. Source \in Names /\ used \in Entries
      BY <2>1, SourceFacts DEF IndInv, TypeOK, Unpack, At, OnSource
    <3>2. used' = [used EXCEPT ![Source] = cache[Source]] /\ UNCHANGED <<lock, command>>
      BY <2>1 DEF Unpack, Active, diskVars
    <3>3. lock.there => \/ lock.entries[Source] = cache[Source]
                        \/ Source \in Git /\ lock.entries[Source] = None
      BY <2>1 DEF Unpack, Accepted
    <3> QED BY <3>1, <3>2, <3>3 DEF BuiltFromLock, Entries
  <2>2. CASE command' # "build"
    BY <2>2 DEF BuiltFromLock
  <2>3. CASE used' = NoEntries
    BY <2>3 DEF BuiltFromLock, NoEntries
  <2>4. CASE UNCHANGED <<command, lock, used>>
    BY <2>4 DEF BuiltFromLock
  <2>5. CASE EmptyLock \/ WriteLock
    <3>1. command = "fetch" /\ UNCHANGED command
      BY <2>5 DEF EmptyLock, WriteLock, At, Active, IndInv, Working
    <3> QED BY <2>2, <3>1
  <2>6. CASE Work /\ ~Unpack /\ ~EmptyLock /\ ~WriteLock
    BY <2>3, <2>4, <2>6 DEF Work, NextSource, Complete, Stop, RemoveFile, RemoveTmp, ObtainGit,
       FoundFile, Download, Downloaded, Rename, Copy, Copied, Sum, Refuse, Active, diskVars
  <2>7. CASE ~Work
    BY <2>2, <2>3, <2>4, <2>7 DEF Next, OriginChanges, StartFetch, StartBuild, Start, Killed, Stop,
       vars, diskVars
  <2> QED BY <2>1, <2>5, <2>6, <2>7
<1> QED BY <1>1, <1>2, Inductive, PTL DEF Spec

(***************************************************************************)
(* A fetch without -force changes no pin: the map it writes after each     *)
(* recipe says of every source what the lock says.                         *)
(***************************************************************************)
THEOREM FetchKeepsPins == Spec => []PinsKept
<1>1. Init => PinsKept
  BY DEF Init, PinsKept
<1>2. IndInv /\ PinsKept /\ [Next]_vars => PinsKept'
  <2> SUFFICES ASSUME IndInv, PinsKept, [Next]_vars PROVE PinsKept'
    OBVIOUS
  <2>1. CASE Sum
    <3>1. Source \in Names /\ sums \in Entries /\ step = "got"
      BY <2>1, SourceFacts DEF IndInv, TypeOK, Sum, At, OnSource
    <3>2. UNCHANGED <<lock, command, force>>
      BY <2>1 DEF Sum, Active, diskVars
    <3>3. /\ sums[Source] # None /\ ~force => sums' = sums
          /\ sums' = sums \/ sums' = [sums EXCEPT ![Source] = cache[Source]]
      BY <2>1, Zenon DEF Sum
    <3> QED BY <3>1, <3>2, <3>3 DEF PinsKept, Entries
  <2>2. CASE EmptyLock
    BY <2>2 DEF EmptyLock, PinsKept
  <2>3. CASE WriteLock
    <3>1. lock' = [there |-> TRUE, entries |-> sums] /\ UNCHANGED sums
      BY <2>3 DEF WriteLock
    <3> QED BY <3>1 DEF PinsKept
  <2>4. CASE \E rs \in Plans, f \in BOOLEAN : StartFetch(rs, f)
    <3>1. PICK rs \in Plans, f \in BOOLEAN : StartFetch(rs, f)
      BY <2>4
    <3>2. force' = f /\ UNCHANGED lock /\ sums' = IF f \/ ~lock.there THEN NoEntries ELSE lock.entries
      BY <3>1 DEF StartFetch, Start, diskVars
    <3> QED BY <3>2 DEF PinsKept
  <2>5. CASE command' # "fetch"
    BY <2>5 DEF PinsKept
  <2>6. CASE UNCHANGED <<command, force, lock, sums>> /\ step # "write"
    BY <2>6 DEF PinsKept
  <2>7. CASE Work /\ ~Sum /\ ~EmptyLock /\ ~WriteLock
    BY <2>5, <2>6, <2>7 DEF Work, NextSource, Complete, Stop, RemoveFile, RemoveTmp, ObtainGit,
       FoundFile, Download, Downloaded, Rename, Copy, Copied, Unpack, Refuse, Active, At, diskVars
  <2>8. CASE \/ \E s \in Names : OriginChanges(s)
             \/ UNCHANGED vars
    BY <2>8 DEF OriginChanges, vars, diskVars, PinsKept
  <2>9. CASE Killed \/ \E r \in Recipes : StartBuild(r)
    BY <2>5, <2>9 DEF Killed, Stop, StartBuild, Start
  <2> QED BY <2>1, <2>2, <2>3, <2>4, <2>7, <2>8, <2>9 DEF Next
<1> QED BY <1>1, <1>2, Inductive, PTL DEF Spec

(***************************************************************************)
(* What a fetch -force will pin is what it leaves in the cache, also when  *)
(* it removes and fetches the same source again for another recipe.        *)
(***************************************************************************)
THEOREM ForcedFetchPinsCache == Spec => []ForcedPinsMatchCache
<1>1. Init => ForcedPinsMatchCache
  BY DEF Init, ForcedPinsMatchCache
<1>2. IndInv /\ ForcedPinsMatchCache /\ [Next]_vars => ForcedPinsMatchCache'
  <2> SUFFICES ASSUME IndInv, ForcedPinsMatchCache, [Next]_vars PROVE ForcedPinsMatchCache'
    OBVIOUS
  <2>1. cache \in Entries /\ tmp \in Entries /\ sums \in Entries
    BY DEF IndInv, TypeOK
  <2>2. CASE Sum
    <3>1. Source \in Names /\ step = "got" /\ UNCHANGED <<cache, command, force>>
      BY <2>2, SourceFacts DEF IndInv, Sum, At, OnSource, Active, diskVars
    <3>2. force => sums' = [sums EXCEPT ![Source] = cache[Source]]
      BY <2>2 DEF Sum
    <3> QED BY <2>1, <3>1, <3>2 DEF ForcedPinsMatchCache, Entries
  <2>3. CASE \/ RemoveFile \/ RemoveTmp \/ ObtainGit \/ FoundFile \/ Download
             \/ Downloaded \/ Rename \/ Copy \/ Copied
    <3>1. step \in OnSource /\ Obtaining /\ step' # "remove"
      BY <2>3 DEF RemoveFile, RemoveTmp, ObtainGit, FoundFile, Download, Downloaded, Rename, Copy,
                  Copied, At, Active, Obtaining, OnSource, diskVars
    <3>2. Source' = Source /\ UNCHANGED <<sums, command, force>>
      BY <3>1 DEF Source, Obtaining
    <3>3. PICK e : cache' = cache \/ cache' = [cache EXCEPT ![Source] = e]
      BY <2>3, Zenon DEF RemoveFile, RemoveTmp, ObtainGit, FoundFile, Download, Downloaded, Rename,
                  Copy, Copied, diskVars
    <3> QED BY <2>1, <3>1, <3>2, <3>3 DEF ForcedPinsMatchCache, Entries, Obtaining, OnSource
  <2>4. CASE NextSource
    BY <2>4 DEF NextSource, At, Active, diskVars, ForcedPinsMatchCache
  <2>5. CASE EmptyLock \/ WriteLock
    BY <2>5 DEF EmptyLock, WriteLock, At, Active, ForcedPinsMatchCache
  <2>6. CASE \E rs \in Plans, f \in BOOLEAN : StartFetch(rs, f)
    <3>1. force' => sums' = NoEntries
      BY <2>6 DEF StartFetch, Start
    <3> QED BY <3>1 DEF ForcedPinsMatchCache, NoEntries
  <2>7. CASE command' # "fetch"
    BY <2>7 DEF ForcedPinsMatchCache
  <2>8. CASE Complete \/ Refuse \/ Unpack \/ Killed \/ \E r \in Recipes : StartBuild(r)
    BY <2>7, <2>8 DEF Complete, Refuse, Unpack, Active, Killed, Stop, StartBuild, Start
  <2>9. CASE \/ \E s \in Names : OriginChanges(s)
             \/ UNCHANGED vars
    BY <2>9 DEF OriginChanges, vars, diskVars, ForcedPinsMatchCache, Source
  <2> QED BY <2>2, <2>3, <2>4, <2>5, <2>6, <2>8, <2>9 DEF Next, Work
<1> QED BY <1>1, <1>2, Inductive, PTL DEF Spec
=============================================================================
