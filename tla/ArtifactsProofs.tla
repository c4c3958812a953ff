-------------------------- MODULE ArtifactsProofs --------------------------
(***************************************************************************)
(* Proofs about Artifacts: that every file of the cache holds what its name *)
(* says, that what is built from a workspace is stored as such, and that a  *)
(* build finds and leaves all it needs; for every graph of recipes, every   *)
(* choice of containers and any number of edits.                           *)
(***************************************************************************)
EXTENDS Artifacts, TLAPS

(* What the cache and the build root hold between two steps. *)

\* The file `name' may hold `art': every ingredient is of a text the name is
\* computed from, a complete artifact has what the recipe itself makes, and one
\* that was built in a container has all.
Fits(name, art) ==
    /\ art \in Artifact
    /\ Texts(art.made) \subseteq name.hash
    /\ art.whole => \E i \in art.made : i.recipe = name.recipe
    /\ art.whole /\ NeedsContainer(name.recipe) => Texts(art.made) = name.hash

CacheFits == \A n \in DOMAIN cache : n \in Name /\ Fits(n, cache[n])

\* A build root holds texts the process has loaded, of what the recipe needs;
\* in a container it lacks no more than is still to be unpacked.
RootReady ==
    /\ proc.step \in {"idle", "next", "download"} => proc.root = {}
    /\ proc.step = "download" => proc.path \in DOMAIN cache
    /\ proc.step \in {"integrate", "prepare", "compile", "pack"} =>
         /\ Texts(proc.root) \subseteq Hash(proc.pool, proc.now)
         /\ proc.todo \subseteq Below[proc.now]
         /\ NeedsContainer(proc.now) =>
              \A q \in Below[proc.now] \ proc.todo :
                  <<q, proc.pool[q]>> \in Texts(proc.root)
    /\ proc.step \in {"prepare", "compile", "pack"} => proc.todo = {}
    /\ proc.step \in {"prepare", "compile", "pack", "download"} =>
         /\ proc.path \in Name /\ proc.path.recipe = proc.now
         /\ proc.path.hash = Hash(proc.pool, proc.now)
    /\ proc.step \in {"compile", "pack"} =>
         \E i \in proc.root : i.recipe = proc.now

IndInv == TypeOK /\ CacheFits /\ RootReady


-----------------------------------------------------------------------------
(* Names *)

\* Package names are names, and tell the recipe and its hash.
LEMMA PackageIsName ==
    ASSUME NEW r \in Recipes, NEW pool \in [Recipes -> Nat]
    PROVE  /\ Package(pool, r) \in Name /\ WorkspacePackage(pool, r) \in Name
           /\ Package(pool, r).recipe = r /\ WorkspacePackage(pool, r).recipe = r
           /\ Package(pool, r).hash = Hash(pool, r)
           /\ WorkspacePackage(pool, r).hash = Hash(pool, r)
<1>1. Needs(r) \subseteq Recipes
  BY ArtifactsAssumption DEF Needs, ArtifactsAssumption
<1>2. Hash(pool, r) \in SUBSET (Recipes \X Nat)
  BY <1>1 DEF Hash
<1>3. ASSUME NEW e \in BOOLEAN
      PROVE  [recipe |-> r, hash |-> Hash(pool, r), edited |-> e] \in Name
  BY <1>2 DEF Name
<1>4. Package(pool, r) \in Name /\ WorkspacePackage(pool, r) \in Name
  BY <1>3 DEF Package, WorkspacePackage
<1> QED
  BY <1>4 DEF Package, WorkspacePackage

\* What a recipe needs needs nothing else.
LEMMA NeedsOfNeeds ==
    ASSUME NEW r \in Recipes, NEW q \in Below[r]
    PROVE  q \in Recipes /\ Needs(q) \subseteq Needs(r)
  BY ArtifactsAssumption DEF Needs, ArtifactsAssumption

\* A file that fits its name, written under it, leaves a cache in which all do.
LEMMA WrittenFits ==
    ASSUME CacheFits, NEW name, name \in Name, NEW art, Fits(name, art),
           Written(name, art)
    PROVE  CacheFits' /\ name \in DOMAIN cache'
<1>1. /\ DOMAIN cache' = DOMAIN cache \cup {name}
      /\ \A n \in DOMAIN cache' : cache'[n] = IF n = name THEN art ELSE cache[n]
  BY DEF Written
<1>2. \A n \in DOMAIN cache' : n \in Name /\ Fits(n, cache'[n])
  BY <1>1 DEF CacheFits
<1> QED
  BY <1>1, <1>2 DEF CacheFits, Fits

\* The file of a recipe in a process that has loaded `pool'.
LEMMA CacheFileFacts ==
    ASSUME NEW r \in Recipes, NEW pool \in [Recipes -> Nat]
    PROVE  /\ CacheFile(pool, r) \in Name
           /\ CacheFile(pool, r).recipe = r
           /\ CacheFile(pool, r).hash = Hash(pool, r)
  BY PackageIsName DEF CacheFile

\* A hash has one text of each recipe it covers.
LEMMA HashFacts ==
    ASSUME NEW r \in Recipes, NEW pool \in [Recipes -> Nat]
    PROVE  /\ \A q \in Needs(r) : <<q, pool[q]>> \in Hash(pool, r)
           /\ \A t \in Hash(pool, r) : t[1] \in Needs(r) /\ t = <<t[1], pool[t[1]]>>
  BY DEF Hash

\* The artifact of a recipe below adds nothing foreign to a build root, and what
\* that recipe itself makes.
LEMMA UnpackedFits ==
    ASSUME TypeOK, CacheFits, NEW r \in Recipes, NEW q \in Below[r], Integratable(q)
    PROVE  LET made == cache[CacheFile(proc.pool, q)].made
           IN  /\ made \in SUBSET Ingredient
               /\ Texts(made) \subseteq Hash(proc.pool, r)
               /\ <<q, proc.pool[q]>> \in Texts(made)
<1> DEFINE file == CacheFile(proc.pool, q)
           made == cache[file].made
<1>1. proc.pool \in [Recipes -> Nat]
  BY DEF TypeOK, Process
<1>2. q \in Recipes /\ Needs(q) \subseteq Needs(r)
  BY NeedsOfNeeds
<1>3. file.recipe = q /\ file.hash = Hash(proc.pool, q)
  BY <1>1, <1>2, CacheFileFacts
<1>4. Fits(file, cache[file]) /\ cache[file].whole
  BY DEF CacheFits, Integratable
<1>5. made \in SUBSET Ingredient /\ Texts(made) \subseteq Hash(proc.pool, q)
  BY <1>3, <1>4 DEF Fits, Artifact
<1>6. Hash(proc.pool, q) \subseteq Hash(proc.pool, r)
  BY <1>2 DEF Hash
<1>7. PICK i \in made : i.recipe = q
  BY <1>3, <1>4 DEF Fits
<1>8. <<i.recipe, i.text>> \in Texts(made)
  BY DEF Texts
<1>9. <<q, i.text>> = <<q, proc.pool[q]>>
  <2>1. <<q, i.text>> \in Hash(proc.pool, q)
    BY <1>5, <1>7, <1>8
  <2> QED
    BY <2>1 DEF Hash
<1> QED
  BY <1>5, <1>6, <1>7, <1>8, <1>9

\* Texts of a union.
LEMMA TextsOfUnion ==
    ASSUME NEW S, NEW T
    PROVE  Texts(S \cup T) = Texts(S) \cup Texts(T)
  BY DEF Texts

-----------------------------------------------------------------------------
(* Artifacts that fit *)

\* A part of an artifact has no more than the right texts.
LEMMA PartFits ==
    ASSUME NEW name, NEW made \in SUBSET Ingredient, Texts(made) \subseteq name.hash
    PROVE  Fits(name, [made |-> made, whole |-> FALSE])
<1> DEFINE art == [made |-> made, whole |-> FALSE]
<1>1. art \in Artifact /\ art.made = made /\ art.whole = FALSE
  BY DEF Artifact
<1>2. Texts(art.made) \subseteq name.hash
  BY <1>1
<1>3. Fits(name, art)
  <2> HIDE DEF art
  <2> QED
    BY <1>1, <1>2 DEF Fits
<1> QED
  BY <1>3

\* A complete artifact with all texts of its name fits it.
LEMMA AllFits ==
    ASSUME NEW name, NEW made \in SUBSET Ingredient, Texts(made) \subseteq name.hash,
           NEW i \in made, i.recipe = name.recipe,
           NeedsContainer(name.recipe) => Texts(made) = name.hash
    PROVE  Fits(name, [made |-> made, whole |-> TRUE])
<1> DEFINE art == [made |-> made, whole |-> TRUE]
<1>1. art \in Artifact /\ art.made = made
  BY DEF Artifact
<1>2. /\ Texts(art.made) \subseteq name.hash
      /\ NeedsContainer(name.recipe) => Texts(art.made) = name.hash
      /\ i \in art.made
  BY <1>1
<1>3. Fits(name, art)
  <2> HIDE DEF art
  <2> QED
    BY <1>1, <1>2 DEF Fits
<1> QED
  BY <1>3

\* What a build that has compiled may pack.
LEMMA PackedFits ==
    ASSUME IndInv, proc.step \in {"compile", "pack"}
    PROVE  /\ proc.path \in Name
           /\ Fits(proc.path, [made |-> proc.root, whole |-> FALSE])
           /\ Fits(proc.path, [made |-> proc.root, whole |-> TRUE])
<1>1. /\ proc.pool \in [Recipes -> Nat] /\ proc.root \in SUBSET Ingredient
      /\ proc.now \in Recipes
  BY DEF IndInv, TypeOK, Process
<1>2. /\ proc.path \in Name /\ proc.path.recipe = proc.now
      /\ proc.path.hash = Hash(proc.pool, proc.now)
      /\ proc.todo = {}
      /\ Texts(proc.root) \subseteq proc.path.hash
  BY DEF IndInv, RootReady
<1>3. PICK i \in proc.root : i.recipe = proc.now
  BY DEF IndInv, RootReady
<1>4. <<proc.now, proc.pool[proc.now]>> \in Texts(proc.root)
  <2>1. <<proc.now, i.text>> \in Texts(proc.root)
    BY <1>3 DEF Texts
  <2>2. <<proc.now, i.text>> \in Hash(proc.pool, proc.now)
    BY <1>2, <2>1
  <2>3. i.text = proc.pool[proc.now]
    BY <2>2 DEF Hash
  <2> QED
    BY <2>1, <2>3
<1>5. ASSUME NeedsContainer(proc.now)
      PROVE  Texts(proc.root) = proc.path.hash
  <2>1. \A q \in Below[proc.now] : <<q, proc.pool[q]>> \in Texts(proc.root)
    BY <1>2, <1>5 DEF IndInv, RootReady
  <2>2. Hash(proc.pool, proc.now) \subseteq Texts(proc.root)
    BY <1>4, <2>1 DEF Hash, Needs
  <2> QED
    BY <1>2, <2>2
<1>6. Fits(proc.path, [made |-> proc.root, whole |-> FALSE])
  BY <1>1, <1>2, PartFits
<1>7. Fits(proc.path, [made |-> proc.root, whole |-> TRUE])
  BY <1>1, <1>2, <1>3, <1>5, AllFits
<1> QED
  BY <1>2, <1>6, <1>7

\* What the server offers under a name has all its texts.
LEMMA OfferedFits ==
    ASSUME NEW name \in Name, <<name.recipe, 0>> \in name.hash, Offered(name)
    PROVE  /\ Upstream(name) \in SUBSET Ingredient
           /\ Texts(Upstream(name)) = name.hash
           /\ Fits(name, [made |-> Upstream(name), whole |-> TRUE])
<1>1. name.hash \in SUBSET (Recipes \X Nat)
  BY DEF Name
<1>2. \A t \in name.hash : t = <<t[1], t[2]>> /\ t[1] \in Recipes /\ t[2] \in Nat
  BY <1>1
<1>3. Upstream(name) \in SUBSET Ingredient
  BY <1>2 DEF Upstream, Ingredient, Source
<1>4. Texts(Upstream(name)) \subseteq name.hash
  BY <1>2 DEF Texts, Upstream
<1>5. ASSUME NEW t \in name.hash
      PROVE  \E i \in Upstream(name) : i.recipe = t[1] /\ <<i.recipe, i.text>> = t
  <2> DEFINE i == [recipe |-> t[1], text |-> t[2], source |-> "locked"]
  <2>1. i \in Upstream(name)
    BY DEF Upstream
  <2>2. i.recipe = t[1] /\ <<i.recipe, i.text>> = t
    BY <1>2
  <2> QED
    BY <2>1, <2>2
<1>6. name.hash \subseteq Texts(Upstream(name))
  BY <1>5 DEF Texts
<1>7. PICK i \in Upstream(name) : i.recipe = name.recipe
  BY <1>5
<1> QED
  BY <1>3, <1>4, <1>6, <1>7, AllFits

\* Whatever a download leaves fits.
LEMMA DownloadedFits ==
    ASSUME IndInv, proc.step = "download", NEW art \in Downloaded(proc.path)
    PROVE  proc.path \in Name /\ Fits(proc.path, art)
<1> DEFINE name == proc.path
           old == cache[name]
           offered == [made |-> Upstream(name), whole |-> TRUE]
           part == [made |-> old.made, whole |-> FALSE]
           mixed == [made |-> old.made \cup Upstream(name), whole |-> FALSE]
<1>1. /\ name \in Name /\ name.recipe = proc.now
      /\ name.hash = Hash(proc.pool, proc.now)
      /\ name \in DOMAIN cache
  BY DEF IndInv, RootReady
<1>2. Fits(name, old)
  BY <1>1 DEF IndInv, CacheFits
<1>3. old.made \in SUBSET Ingredient /\ Texts(old.made) \subseteq name.hash
  BY <1>2 DEF Fits, Artifact
<1>4. Fits(name, part)
  BY <1>3, PartFits
<1>5. ASSUME Offered(name)
      PROVE  Fits(name, offered) /\ Fits(name, mixed)
  <2>1. <<proc.now, proc.pool[proc.now]>> \in name.hash
    BY <1>1 DEF Hash, Needs
  <2>2. <<name.recipe, 0>> \in name.hash
    BY <2>1, <1>1, <1>5 DEF Offered
  <2>3. /\ Upstream(name) \in SUBSET Ingredient
        /\ Texts(Upstream(name)) = name.hash
        /\ Fits(name, offered)
    BY <1>1, <1>5, <2>2, OfferedFits
  <2>4. /\ old.made \cup Upstream(name) \in SUBSET Ingredient
        /\ Texts(old.made \cup Upstream(name)) \subseteq name.hash
    BY <1>3, <2>3, TextsOfUnion
  <2> QED
    BY <2>3, <2>4, PartFits
<1>6. art = old \/ art = part \/ (Offered(name) /\ (art = offered \/ art = mixed))
  BY DEF Downloaded
<1> HIDE DEF offered, part, mixed, old, name
<1>7. Fits(name, art)
  BY <1>2, <1>4, <1>5, <1>6
<1> QED
  BY <1>1, <1>7 DEF name

\* Every file of the cache fits its name, before and after every step.
LEMMA CacheInv ==
    ASSUME IndInv, [Next]_vars
    PROVE  CacheFits'
<1>1. CacheFits
  BY DEF IndInv
<1>2. CASE BeginPack
  <2>1. proc.step = "compile" /\ Written(proc.path, [made |-> proc.root, whole |-> FALSE])
    BY <1>2 DEF BeginPack
  <2> QED
    BY <1>1, <2>1, PackedFits, WrittenFits
<1>3. CASE EndPack
  <2>1. proc.step = "pack" /\ Written(proc.path, [made |-> proc.root, whole |-> TRUE])
    BY <1>3 DEF EndPack
  <2> QED
    BY <1>1, <2>1, PackedFits, WrittenFits
<1>4. ASSUME NEW r \in Recipes, BeginDownload(r)
      PROVE  CacheFits'
  <2> DEFINE name == Package(proc.pool, r)
             art == [made |-> {}, whole |-> FALSE]
  <2>1. CASE UNCHANGED cache
    BY <1>1, <2>1 DEF CacheFits, Fits
  <2>2. CASE Written(name, art)
    <3>1. name \in Name
      BY PackageIsName DEF IndInv, TypeOK, Process
    <3>2. Texts({}) \subseteq name.hash
      BY DEF Texts
    <3>3. Fits(name, art)
      BY <3>2, PartFits
    <3> QED
      BY <1>1, <2>2, <3>1, <3>3, WrittenFits
  <2> QED
    BY <1>4, <2>1, <2>2 DEF BeginDownload
<1>5. CASE EndDownload
  <2>1. PICK art \in Downloaded(proc.path) : Written(proc.path, art)
    BY <1>5 DEF EndDownload
  <2>2. proc.step = "download"
    BY <1>5 DEF EndDownload
  <2> QED
    BY <1>1, <2>1, <2>2, DownloadedFits, WrittenFits
<1>6. CASE UNCHANGED cache
  BY <1>1, <1>6 DEF CacheFits, Fits
<1>7. BeginPack \/ EndPack \/ (\E r \in Recipes : BeginDownload(r)) \/ EndDownload
      \/ UNCHANGED cache
  BY DEF Next, vars, outside, People, EditRecipe, OpenWorkspace, CloseWorkspace,
         Command, Start, StartBuild, StartBuildOne, StartPull, Setup, Integrate, SkipPull,
         Choose, Prepare, BuildFails, DownloadFails, Succeed, Killed
<1> QED
  BY <1>2, <1>3, <1>4, <1>5, <1>6, <1>7

-----------------------------------------------------------------------------
(* Types and build roots *)

\* No command is a command.
LEMMA IdleType == Idle \in Process
  BY DEF Idle, Process, Steps

\* Every step keeps the types.
LEMMA TypeInv ==
    ASSUME IndInv, [Next]_vars
    PROVE  TypeOK'
<1>1. /\ text \in [Recipes -> Nat] /\ open \subseteq Recipes /\ proc \in Process
      /\ calm \in BOOLEAN /\ events \in 0 .. MaxEvents
  BY DEF IndInv, TypeOK
<1>2. /\ proc.step \notin {"idle", "next"} => proc.now \in proc.plan
      /\ proc.step \in {"idle", "next"} => proc.now = Nothing
  BY DEF IndInv, TypeOK
<1>3. \A n \in DOMAIN cache' : n \in Name /\ cache'[n] \in Artifact
  BY CacheInv DEF CacheFits, Fits
<1> DEFINE Rest == text' \in [Recipes -> Nat] /\ open' \subseteq Recipes
                   /\ events' \in 0 .. MaxEvents
           Proc == /\ proc' \in Process
                   /\ proc'.step \notin {"idle", "next"} => proc'.now \in proc'.plan
                   /\ proc'.step \in {"idle", "next"} => proc'.now = Nothing
<1>4. Rest
  <2>1. CASE UNCHANGED outside
    BY <1>1, <2>1 DEF outside
  <2>2. ASSUME NEW r \in Recipes, EditRecipe(r)
        PROVE  Rest
    BY <1>1, <2>2, ArtifactsAssumption DEF EditRecipe, Event, ArtifactsAssumption
  <2>3. ASSUME NEW r \in Recipes, OpenWorkspace(r) \/ CloseWorkspace(r)
        PROVE  Rest
    BY <1>1, <2>3, ArtifactsAssumption
    DEF OpenWorkspace, CloseWorkspace, Event, ArtifactsAssumption
  <2> QED
    BY <2>1, <2>2, <2>3
    DEF Next, vars, outside, People, Command, Start, StartBuild, StartBuildOne,
        StartPull, Setup, Integrate, SkipPull, BeginDownload, EndDownload, Choose,
        Prepare, BeginPack, EndPack, BuildFails, DownloadFails, Succeed, Killed
<1>5. calm' \in BOOLEAN
  BY <1>1 DEF Next, vars, outside, People, EditRecipe, OpenWorkspace, CloseWorkspace,
        Command, Start, StartBuild, StartBuildOne, StartPull, Setup, Integrate,
        SkipPull, BeginDownload, EndDownload, Choose, Prepare, BeginPack, EndPack,
        BuildFails, DownloadFails, Succeed, Killed
<1>6. Proc
  <2>1. CASE UNCHANGED proc
    BY <1>1, <1>2, <2>1
  <2>2. CASE proc' = Idle
    BY <2>2, IdleType DEF Idle
  <2>3. ASSUME NEW cmd \in {"build", "build-one", "pull"}, NEW ids \in SUBSET Recipes,
               NEW plan \in SUBSET Recipes, Start(cmd, ids, plan)
        PROVE  Proc
    BY <1>1, <2>3, IdleType DEF Start, Idle, Process, Steps
  <2>4. ASSUME NEW r \in Recipes, Setup(r)
        PROVE  Proc
    <3>1. Below[r] \subseteq Recipes /\ r \in proc.plan
      BY <2>4, ArtifactsAssumption DEF Setup, First, ArtifactsAssumption
    <3> QED
      BY <1>1, <2>4, <3>1 DEF Setup, Process, Steps
  <2>5. ASSUME NEW q \in Recipes, Integrate(q), proc' # Idle
        PROVE  Proc
    <3> DEFINE made == cache[CacheFile(proc.pool, q)].made
    <3>1. /\ proc.step = "integrate"
          /\ proc' = [proc EXCEPT !.todo = @ \ {q}, !.root = @ \cup made]
      BY <2>5 DEF Integrate, Fail
    <3>2. made \in SUBSET Ingredient
      BY <2>5 DEF Integrate, Integratable, Fail, IndInv, CacheFits, Fits, Artifact
    <3> HIDE DEF made
    <3> QED
      BY <1>1, <1>2, <3>1, <3>2 DEF Process
  <2>6. CASE Choose
    <3>1. proc.now \in Recipes
      BY <1>1, <1>2, <2>6 DEF Choose, Process
    <3>2. CacheFile(proc.pool, proc.now) \in Name
      BY <1>1, <3>1, CacheFileFacts DEF Process
    <3> QED
      BY <1>1, <1>2, <2>6, <3>2 DEF Choose, Process, Steps
  <2>7. CASE Prepare
    <3>1. proc.now \in Recipes
      BY <1>1, <1>2, <2>7 DEF Prepare, Process
    <3>2. [recipe |-> proc.now, text |-> proc.pool[proc.now],
           source |-> Sources(proc.now)] \in Ingredient
      BY <1>1, <3>1 DEF Ingredient, Source, Sources, Process
    <3> QED
      BY <1>1, <1>2, <2>7, <3>2 DEF Prepare, Process, Steps
  <2>8. CASE BeginPack
    BY <1>1, <1>2, <2>8 DEF BeginPack, Step, Process, Steps
  <2>9. CASE Done
    BY <1>1, <2>9 DEF Done, Process, Steps
  <2>10. ASSUME NEW r \in Recipes, SkipPull(r)
         PROVE  Proc
    BY <1>1, <1>2, <2>10 DEF SkipPull, Process, Steps
  <2>11. ASSUME NEW r \in Recipes, BeginDownload(r)
         PROVE  Proc
    <3>1. Package(proc.pool, r) \in Name
      BY <1>1, PackageIsName DEF Process
    <3> QED
      BY <1>1, <2>11, <3>1 DEF BeginDownload, First, Process, Steps
  <2>12. ASSUME NEW ids \in Requests
         PROVE  ids \in SUBSET Recipes /\ Uncached(ids) \in SUBSET Recipes
    BY ArtifactsAssumption DEF ArtifactsAssumption, Uncached, Needs
  <2>13. ASSUME NEW ids \in Requests, StartBuild(ids) \/ StartPull(ids)
         PROVE  Proc
    BY <2>3, <2>12, <2>13 DEF StartBuild, StartPull
  <2>14. ASSUME NEW r \in Recipes, StartBuildOne(r)
         PROVE  Proc
    BY <2>3, <2>14 DEF StartBuildOne
  <2> QED
    BY <2>1, <2>2, <2>4, <2>5, <2>6, <2>7, <2>8, <2>9, <2>10, <2>11, <2>13, <2>14
    DEF Next, vars, People, EditRecipe, OpenWorkspace, CloseWorkspace, Command,
        EndPack, EndDownload, BuildFails, DownloadFails, Succeed, Killed, Fail
<1> QED
  BY <1>3, <1>4, <1>5, <1>6 DEF TypeOK

\* A build root lacks nothing and holds nothing foreign, before and after every
\* step.
LEMMA RootInv ==
    ASSUME IndInv, [Next]_vars
    PROVE  RootReady'
<1>1. TypeOK /\ RootReady /\ CacheFits /\ proc \in Process
  BY DEF IndInv, TypeOK
<1>2. DOMAIN cache \subseteq DOMAIN cache'
  BY DEF Next, vars, outside, People, EditRecipe, OpenWorkspace, CloseWorkspace,
         Command, Start, StartBuild, StartBuildOne, StartPull, Setup, Integrate,
         SkipPull, BeginDownload, EndDownload, Choose, Prepare, BeginPack, EndPack,
         BuildFails, DownloadFails, Succeed, Killed, Written
<1>3. CASE UNCHANGED proc
  BY <1>1, <1>2, <1>3 DEF RootReady, Package
<1>4. CASE proc'.step \in {"idle", "next"} /\ proc'.root = {}
  BY <1>4 DEF RootReady
<1>5. proc.step \in {"idle", "next", "download"} => proc.root = {}
  BY <1>1 DEF RootReady
<1>6. CASE proc' = Idle
  BY <1>4, <1>6 DEF Idle
<1>7. ASSUME NEW r \in Recipes, Setup(r)
      PROVE  RootReady'
  <2>1. /\ proc'.step = "integrate" /\ proc'.now = r /\ proc'.root = {}
        /\ proc'.todo = IF NeedsContainer(r) THEN Below[r] ELSE {}
    BY <1>1, <1>7 DEF Setup, Process
  <2>2. Texts({}) = {}
    BY DEF Texts
  <2> QED
    BY <2>1, <2>2 DEF RootReady
<1>8. ASSUME NEW q \in Recipes, Integrate(q), proc' # Idle
      PROVE  RootReady'
  <2> DEFINE made == cache[CacheFile(proc.pool, q)].made
             r == proc.now
  <2>1. /\ proc.step = "integrate" /\ Integratable(q) /\ q \in proc.todo
        /\ proc' = [proc EXCEPT !.todo = @ \ {q}, !.root = @ \cup made]
    BY <1>8 DEF Integrate, Fail, First
  <2>2. r \in Recipes /\ q \in Below[r]
    BY <1>1, <2>1, ArtifactsAssumption DEF TypeOK, RootReady, Process
  <2>3. /\ Texts(made) \subseteq Hash(proc.pool, r)
        /\ <<q, proc.pool[q]>> \in Texts(made)
    BY <1>1, <2>1, <2>2, UnpackedFits
  <2>4. Texts(proc.root \cup made) = Texts(proc.root) \cup Texts(made)
    BY TextsOfUnion
  <2> HIDE DEF made
  <2>5. /\ proc'.step = "integrate" /\ proc'.now = r /\ proc'.pool = proc.pool
        /\ proc'.todo = proc.todo \ {q} /\ proc'.root = proc.root \cup made
    BY <1>1, <2>1 DEF Process
  <2>6. Texts(proc'.root) \subseteq Hash(proc.pool, r)
    BY <1>1, <2>1, <2>3, <2>4, <2>5 DEF RootReady
  <2>7. ASSUME NeedsContainer(r), NEW p \in Below[r] \ (proc.todo \ {q})
        PROVE  <<p, proc.pool[p]>> \in Texts(proc'.root)
    BY <1>1, <2>1, <2>3, <2>4, <2>5, <2>7 DEF RootReady
  <2> QED
    BY <1>1, <2>1, <2>5, <2>6, <2>7 DEF RootReady
<1>9. CASE Choose
  <2>1. proc.now \in Recipes /\ proc.pool \in [Recipes -> Nat]
    BY <1>1, <1>9 DEF Choose, TypeOK, Process
  <2>2. /\ proc.step = "integrate" /\ proc.todo = {}
        /\ proc' = [proc EXCEPT !.step = "prepare",
                                !.path = CacheFile(proc.pool, proc.now)]
    BY <1>9 DEF Choose
  <2>3. /\ proc'.step = "prepare" /\ proc'.now = proc.now /\ proc'.pool = proc.pool
        /\ proc'.todo = {} /\ proc'.root = proc.root
        /\ proc'.path = CacheFile(proc.pool, proc.now)
    BY <1>1, <2>2 DEF Process
  <2> QED
    BY <1>1, <2>1, <2>2, <2>3, CacheFileFacts DEF RootReady
<1>10. CASE Prepare
  <2> DEFINE own == [recipe |-> proc.now, text |-> proc.pool[proc.now],
                     source |-> Sources(proc.now)]
  <2>1. /\ proc.step = "prepare"
        /\ proc' = [proc EXCEPT !.step = "compile", !.root = @ \cup {own}]
    BY <1>10 DEF Prepare
  <2>2. own.recipe = proc.now /\ Texts({own}) = {<<proc.now, proc.pool[proc.now]>>}
    BY DEF Texts
  <2>3. Texts(proc.root \cup {own}) = Texts(proc.root) \cup Texts({own})
    BY TextsOfUnion
  <2> HIDE DEF own
  <2>4. /\ proc'.step = "compile" /\ proc'.now = proc.now /\ proc'.pool = proc.pool
        /\ proc'.todo = proc.todo /\ proc'.root = proc.root \cup {own}
        /\ proc'.path = proc.path
    BY <1>1, <2>1 DEF Process
  <2>5. <<proc.now, proc.pool[proc.now]>> \in Hash(proc.pool, proc.now)
    BY DEF Hash, Needs
  <2>6. Texts(proc'.root) \subseteq Hash(proc.pool, proc.now)
    BY <1>1, <2>1, <2>2, <2>3, <2>4, <2>5 DEF RootReady
  <2> QED
    BY <1>1, <2>1, <2>2, <2>3, <2>4, <2>6 DEF RootReady
<1>11. CASE BeginPack
  <2>1. /\ proc.step = "compile" /\ proc'.step = "pack" /\ proc'.now = proc.now
        /\ proc'.pool = proc.pool /\ proc'.todo = proc.todo /\ proc'.root = proc.root
        /\ proc'.path = proc.path
    BY <1>1, <1>11 DEF BeginPack, Step, Process
  <2> QED
    BY <1>1, <2>1 DEF RootReady
<1>12. CASE Done
  BY <1>1, <1>4, <1>12 DEF Done, Process
<1>13. ASSUME NEW r \in Recipes, SkipPull(r)
       PROVE  RootReady'
  BY <1>1, <1>4, <1>5, <1>13 DEF SkipPull, Process
<1>14. ASSUME NEW r \in Recipes, BeginDownload(r)
       PROVE  RootReady'
  <2> DEFINE name == Package(proc.pool, r)
  <2>1. /\ proc.step = "next" /\ proc'.step = "download" /\ proc'.now = r
        /\ proc'.pool = proc.pool /\ proc'.root = proc.root /\ proc'.path = name
    BY <1>1, <1>14 DEF BeginDownload, Process
  <2>2. name \in DOMAIN cache'
    BY <1>14 DEF BeginDownload, Written
  <2>3. name \in Name /\ name.recipe = r /\ name.hash = Hash(proc.pool, r)
    BY <1>1, PackageIsName DEF Process
  <2> HIDE DEF name
  <2> QED
    BY <1>5, <2>1, <2>2, <2>3 DEF RootReady
<1>15. ASSUME NEW cmd, NEW ids, NEW plan, Start(cmd, ids, plan)
       PROVE  RootReady'
  BY <1>4, <1>15 DEF Start, Idle
<1> QED
  BY <1>3, <1>6, <1>7, <1>8, <1>9, <1>10, <1>11, <1>12, <1>13, <1>14, <1>15
  DEF Next, vars, People, EditRecipe, OpenWorkspace, CloseWorkspace, Command,
      StartBuild, StartBuildOne, StartPull, EndPack, EndDownload, BuildFails,
      DownloadFails, Succeed, Killed, Fail

-----------------------------------------------------------------------------
(* Plans and workspaces *)

\* The dependencies of a recipe are unpacked before it makes anything itself.
\* While no workspace comes or goes, the file to be written and the source of
\* what the recipe makes are those of the workspace, if there is one.
WorkspaceInv ==
    /\ proc.step \in {"integrate", "prepare"} =>
         \A i \in proc.root : i.recipe # proc.now
    /\ calm /\ proc.step \in {"prepare", "compile", "pack"} =>
         proc.path = CacheFile(proc.pool, proc.now)
    /\ calm /\ proc.step \in {"compile", "pack"} =>
         \A i \in proc.root :
            i.recipe = proc.now => (i.source = "workspace" <=> proc.now \in open)

\* What `ignite build' has to deliver is in the cache or still planned; what is
\* being unpacked is needed and no longer planned.
Wanted == UNION {Needs(i) : i \in proc.goal}
PlanInv ==
    proc.cmd = "build" =>
        /\ proc.step \notin {"idle", "download"} /\ proc.plan \subseteq Wanted
        /\ proc.step = "next" => proc.todo = {}
        /\ proc.step # "next" => proc.todo \cap proc.plan = {}
        /\ calm => \A q \in Wanted \ proc.plan : CacheFile(proc.pool, q) \in DOMAIN cache

\* What a recipe needs is among what is wanted if it is.
LEMMA WantedIsClosed ==
    ASSUME TypeOK, NEW r \in Wanted
    PROVE  r \in Recipes /\ Below[r] \subseteq Wanted
<1>1. PICK i \in proc.goal : r \in Needs(i)
  BY DEF Wanted
<1>2. i \in Recipes /\ Needs(i) \subseteq Recipes
  BY ArtifactsAssumption DEF TypeOK, Process, Needs, ArtifactsAssumption
<1>3. Below[r] \subseteq Needs(i)
  BY <1>1, <1>2, NeedsOfNeeds DEF Needs
<1> QED
  BY <1>1, <1>2, <1>3 DEF Wanted

\* Outside the two, workspaces stay; and no file ever leaves the cache.
LEMMA CalmStep ==
    ASSUME [Next]_vars, calm'
    PROVE  UNCHANGED open /\ (calm \/ \E cmd, ids, plan : Start(cmd, ids, plan))
BY DEF Next, vars, outside, People, EditRecipe, OpenWorkspace, CloseWorkspace,
       Command, StartBuild, StartBuildOne, StartPull, Start, Setup, Integrate,
       SkipPull, BeginDownload, EndDownload, Choose, Prepare, BeginPack, EndPack,
       BuildFails, DownloadFails, Succeed, Killed

LEMMA FilesStay ==
    ASSUME [Next]_vars
    PROVE  DOMAIN cache \subseteq DOMAIN cache'
BY DEF Next, vars, outside, People, EditRecipe, OpenWorkspace, CloseWorkspace,
       Command, Start, StartBuild, StartBuildOne, StartPull, Setup, Integrate,
       SkipPull, BeginDownload, EndDownload, Choose, Prepare, BeginPack, EndPack,
       BuildFails, DownloadFails, Succeed, Killed, Written

\* A start, an end or a failure leaves no build root.
LEMMA NoRootNoClaim ==
    ASSUME proc'.step \in {"idle", "next", "download"}
    PROVE  WorkspaceInv'
BY DEF WorkspaceInv

LEMMA WorkspaceStays ==
    ASSUME IndInv, WorkspaceInv, [Next]_vars
    PROVE  WorkspaceInv'
<1>1. proc \in Process /\ RootReady /\ CacheFits /\ TypeOK
  BY DEF IndInv, TypeOK
<1>2. CASE UNCHANGED proc
  <2>1. ASSUME NEW cmd, NEW ids, NEW plan, Start(cmd, ids, plan) PROVE WorkspaceInv'
    BY <2>1, NoRootNoClaim DEF Start, Idle
  <2>2. (calm' => calm /\ UNCHANGED open) \/ WorkspaceInv'
    BY <2>1, CalmStep
  <2> QED BY <1>2, <2>2 DEF WorkspaceInv, CacheFile, Package, WorkspacePackage, Hash
<1>3. ASSUME NEW r \in Recipes, Setup(r) PROVE WorkspaceInv'
  <2>1. proc'.step = "integrate" /\ proc'.root = {}
    BY <1>1, <1>3 DEF Setup, Process
  <2> QED BY <2>1 DEF WorkspaceInv
<1>4. ASSUME NEW q \in Recipes, Integrate(q), proc' # Idle PROVE WorkspaceInv'
  <2> DEFINE made == cache[CacheFile(proc.pool, q)].made
  <2>1. /\ proc.step = "integrate" /\ Integratable(q) /\ q \in proc.todo
        /\ proc' = [proc EXCEPT !.todo = @ \ {q}, !.root = @ \cup made]
    BY <1>4 DEF Integrate, Fail, First
  <2>2. proc.now \in Recipes /\ q \in Below[proc.now] /\ proc.now \notin Below[proc.now]
    BY <1>1, <2>1, ArtifactsAssumption DEF TypeOK, RootReady, Process, ArtifactsAssumption
  <2>3. Texts(made) \subseteq Hash(proc.pool, q)
    <3>1. Fits(CacheFile(proc.pool, q), cache[CacheFile(proc.pool, q)])
      BY <1>1, <2>1 DEF CacheFits, Integratable
    <3>2. CacheFile(proc.pool, q).hash = Hash(proc.pool, q)
      BY <1>1, CacheFileFacts DEF Process
    <3> QED BY <3>1, <3>2 DEF Fits
  <2>4. proc.now \notin Needs(q)
    BY <2>2, ArtifactsAssumption DEF Needs, ArtifactsAssumption
  <2>5. ASSUME NEW i \in made PROVE i.recipe # proc.now
    <3>1. <<i.recipe, i.text>> \in Hash(proc.pool, q)
      BY <2>3 DEF Texts
    <3> QED BY <2>4, <3>1 DEF Hash
  <2> HIDE DEF made
  <2>6. /\ proc'.step = "integrate" /\ proc'.now = proc.now
        /\ proc'.root = proc.root \cup made
    BY <1>1, <2>1 DEF Process
  <2> QED BY <2>1, <2>5, <2>6 DEF WorkspaceInv
<1>5. CASE Choose
  <2>1. /\ proc.step = "integrate" /\ proc'.step = "prepare" /\ proc'.now = proc.now
        /\ proc'.root = proc.root /\ proc'.pool = proc.pool /\ UNCHANGED <<open, calm>>
        /\ proc'.path = CacheFile(proc.pool, proc.now)
    BY <1>1, <1>5 DEF Choose, Process, outside
  <2> QED BY <2>1 DEF WorkspaceInv, CacheFile
<1>6. CASE Prepare
  <2> DEFINE own == [recipe |-> proc.now, text |-> proc.pool[proc.now],
                     source |-> Sources(proc.now)]
  <2>1. /\ proc.step = "prepare" /\ proc'.step = "compile" /\ proc'.now = proc.now
        /\ proc'.root = proc.root \cup {own} /\ proc'.pool = proc.pool
        /\ proc'.path = proc.path /\ UNCHANGED <<open, calm>>
    BY <1>1, <1>6 DEF Prepare, Process, outside
  <2>2. own.source = "workspace" <=> proc.now \in open
    BY DEF Sources
  <2> HIDE DEF own
  <2> QED BY <2>1, <2>2 DEF WorkspaceInv, CacheFile
<1>7. CASE BeginPack
  <2>1. /\ proc.step = "compile" /\ proc'.step = "pack" /\ proc'.now = proc.now
        /\ proc'.root = proc.root /\ proc'.pool = proc.pool /\ proc'.path = proc.path
        /\ UNCHANGED <<open, calm>>
    BY <1>1, <1>7 DEF BeginPack, Step, Process, outside
  <2> QED BY <2>1 DEF WorkspaceInv, CacheFile
<1>8. CASE Done
  <2>1. proc'.step = "next"
    BY <1>1, <1>8 DEF Done, Process
  <2> QED BY <2>1, NoRootNoClaim
<1>9. ASSUME NEW r \in Recipes, SkipPull(r) \/ BeginDownload(r) PROVE WorkspaceInv'
  BY <1>1, <1>9, NoRootNoClaim DEF SkipPull, BeginDownload, Process
<1>10. ASSUME NEW cmd, NEW ids, NEW plan, Start(cmd, ids, plan) PROVE WorkspaceInv'
  BY <1>10, NoRootNoClaim DEF Start, Idle
<1>11. CASE proc' = Idle
  BY <1>11, NoRootNoClaim DEF Idle
<1> QED
  BY <1>2, <1>3, <1>4, <1>5, <1>6, <1>7, <1>8, <1>9, <1>10, <1>11
  DEF Next, vars, People, EditRecipe, OpenWorkspace, CloseWorkspace, Command,
      StartBuild, StartBuildOne, StartPull, EndPack, EndDownload, BuildFails,
      DownloadFails, Succeed, Killed, Fail


\* A recipe that is planned next, and all below it, are wanted, and all below it
\* is no longer planned.
LEMMA FirstFacts ==
    ASSUME TypeOK, PlanInv, proc.cmd = "build", NEW r \in First(proc.plan)
    PROVE  /\ r \in Recipes /\ r \in proc.plan /\ Below[r] \subseteq Wanted
           /\ Below[r] \cap proc.plan = {}
<1>1. r \in Wanted /\ r \in proc.plan /\ Below[r] \cap proc.plan = {}
  BY DEF First, PlanInv
<1> QED BY <1>1, WantedIsClosed

LEMMA PlanStays ==
    ASSUME IndInv, WorkspaceInv, PlanInv, [Next]_vars
    PROVE  PlanInv'
<1>1. proc \in Process /\ RootReady /\ TypeOK
  BY DEF IndInv, TypeOK
<1>2. DOMAIN cache \subseteq DOMAIN cache'
  BY FilesStay
\* A step that keeps the plan, and the pool it is for.
<1>3. ASSUME proc'.cmd = proc.cmd, proc'.pool = proc.pool, proc'.goal = proc.goal,
             proc'.plan = proc.plan, proc.cmd = "build" => proc'.step \notin {"idle", "download"},
             proc.cmd = "build" /\ proc'.step = "next" => proc'.todo = {},
             proc.cmd = "build" /\ proc'.step # "next" => proc'.todo \cap proc.plan = {},
             calm' => calm /\ UNCHANGED open
      PROVE  PlanInv'
  BY <1>2, <1>3 DEF PlanInv, Wanted, CacheFile
<1>4. CASE proc' = Idle
  BY <1>4 DEF PlanInv, Idle
<1>5. ASSUME NEW r \in Recipes, Setup(r) PROVE PlanInv'
  <2>1. /\ proc.step = "next" /\ proc'.step = "integrate" /\ proc'.todo \subseteq Below[r]
        /\ proc'.cmd = proc.cmd /\ proc'.pool = proc.pool /\ proc'.goal = proc.goal
        /\ proc'.plan = proc.plan /\ r \in First(proc.plan) /\ UNCHANGED <<calm, open>>
    BY <1>1, <1>5 DEF Setup, Process, outside
  <2>2. proc.cmd = "build" => proc'.todo \cap proc.plan = {}
    BY <1>1, <2>1, FirstFacts
  <2> QED BY <1>3, <2>1, <2>2
<1>6. ASSUME NEW q \in Recipes, Integrate(q), proc' # Idle PROVE PlanInv'
  <2> DEFINE made == cache[CacheFile(proc.pool, q)].made
  <2>1. /\ proc.step = "integrate" /\ UNCHANGED <<calm, open>>
        /\ proc' = [proc EXCEPT !.todo = @ \ {q}, !.root = @ \cup made]
    BY <1>6 DEF Integrate, Fail, outside
  <2> HIDE DEF made
  <2>2. /\ proc'.step = "integrate" /\ proc'.todo = proc.todo \ {q}
        /\ proc'.cmd = proc.cmd /\ proc'.pool = proc.pool /\ proc'.goal = proc.goal
        /\ proc'.plan = proc.plan
    BY <1>1, <2>1 DEF Process
  <2> QED BY <1>3, <2>1, <2>2 DEF PlanInv
<1>7. CASE Choose \/ Prepare \/ BeginPack
  <2>1. /\ proc.step \in {"integrate", "prepare", "compile"}
        /\ proc'.step \in {"prepare", "compile", "pack"} /\ proc'.todo = proc.todo
        /\ proc'.cmd = proc.cmd /\ proc'.pool = proc.pool /\ proc'.goal = proc.goal
        /\ proc'.plan = proc.plan /\ UNCHANGED <<calm, open>>
    <3>1. CASE Choose
      BY <1>1, <3>1 DEF Choose, Process, outside
    <3>2. CASE Prepare
      BY <1>1, <3>2 DEF Prepare, Process, outside
    <3>3. CASE BeginPack
      BY <1>1, <3>3 DEF BeginPack, Step, Process, outside
    <3> QED BY <1>7, <3>1, <3>2, <3>3
  <2> QED BY <1>3, <2>1 DEF PlanInv
<1>8. CASE EndPack
  <2>1. /\ proc.step = "pack" /\ proc'.step = "next" /\ proc'.todo = {}
        /\ proc'.cmd = proc.cmd /\ proc'.pool = proc.pool /\ proc'.goal = proc.goal
        /\ proc'.plan = proc.plan \ {proc.now} /\ UNCHANGED <<calm, open>>
    BY <1>1, <1>8 DEF EndPack, Done, Process, outside
  <2>2. calm => CacheFile(proc.pool, proc.now) \in DOMAIN cache'
    BY <1>8, <2>1 DEF EndPack, Written, WorkspaceInv
  <2> QED BY <1>2, <2>1, <2>2 DEF PlanInv, Wanted, CacheFile
<1>9. CASE EndDownload \/ \E r \in Recipes : SkipPull(r) \/ BeginDownload(r)
  <2>1. proc'.cmd = proc.cmd
    BY <1>1, <1>9, Zenon DEF EndDownload, Done, SkipPull, BeginDownload, Process
  <2>2. proc.cmd # "build"
    BY <1>9 DEF EndDownload, SkipPull, BeginDownload, PlanInv
  <2> QED BY <2>1, <2>2 DEF PlanInv
<1>10. ASSUME NEW ids \in Requests, StartBuild(ids) PROVE PlanInv'
  <2>1. /\ proc'.step = "next" /\ proc'.todo = {} /\ proc'.goal = ids
        /\ proc'.plan = Uncached(ids) /\ proc'.pool = text /\ UNCHANGED <<open, cache>>
    BY <1>10 DEF StartBuild, Start, Idle, outside
  <2>2. Wanted' = UNION {Needs(i) : i \in ids}
    BY <2>1 DEF Wanted
  <2>3. ASSUME NEW q \in Wanted' \ Uncached(ids)
        PROVE  CacheFile(text, q) \in DOMAIN cache
    <3>1. Cached(text, q)
      BY <2>2, <2>3 DEF Uncached
    <3>2. q \notin open /\ Package(text, q) \in DOMAIN cache
      BY <3>1 DEF Cached, Available, Needs
    <3> QED BY <3>2 DEF CacheFile
  <2>4. Uncached(ids) \subseteq Wanted'
    BY <2>2 DEF Uncached
  <2> QED BY <2>1, <2>3, <2>4 DEF PlanInv, CacheFile
<1>11. ASSUME NEW ids, NEW plan, Start("pull", ids, plan) \/ Start("build-one", ids, plan)
       PROVE  PlanInv'
  BY <1>11 DEF Start, Idle, PlanInv
<1>12. ASSUME NEW r \in Recipes, EditRecipe(r) \/ OpenWorkspace(r) \/ CloseWorkspace(r)
       PROVE  PlanInv'
  <2>1. UNCHANGED proc /\ (calm' => calm /\ UNCHANGED open)
    BY <1>12 DEF EditRecipe, OpenWorkspace, CloseWorkspace
  <2> QED BY <1>2, <2>1 DEF PlanInv, Wanted, CacheFile
<1>13. CASE UNCHANGED vars
  BY <1>2, <1>13 DEF PlanInv, Wanted, CacheFile, vars
<1> QED
  BY <1>4, <1>5, <1>6, <1>7, <1>8, <1>9, <1>10, <1>11, <1>12, <1>13
  DEF Next, People, Command, StartBuildOne, StartPull, BuildFails,
      DownloadFails, Succeed, Killed, Fail

-----------------------------------------------------------------------------
(* Theorems *)

\* The invariant holds at first ...
LEMMA InitInv == Init => IndInv
<1> SUFFICES ASSUME Init
             PROVE  IndInv
  OBVIOUS
<1>1. TypeOK
  BY IdleType, ArtifactsAssumption DEF Init, TypeOK, Idle, ArtifactsAssumption
<1>2. CacheFits
  BY DEF Init, CacheFits
<1>3. RootReady
  BY DEF Init, RootReady, Idle
<1> QED
  BY <1>1, <1>2, <1>3 DEF IndInv

\* ... and every step keeps it.
LEMMA IndInvHolds == Spec => []IndInv
<1>1. ASSUME IndInv, [Next]_vars
      PROVE  IndInv'
  BY <1>1, TypeInv, CacheInv, RootInv DEF IndInv
<1> QED
  BY InitInv, <1>1, PTL DEF Spec

\* The types, for every graph of recipes and any number of edits.
THEOREM TypeCorrect == Spec => []TypeOK
<1>1. IndInv => TypeOK
  BY DEF IndInv
<1> QED
  BY IndInvHolds, <1>1, PTL

\* Whatever is edited, opened, closed or killed, and for every graph of recipes:
\* a file of the cache holds texts its name is the hash of, and one that was
\* completed in a container holds all of them.
THEOREM NamesTell == Spec => []NamesAreTrue
<1>1. IndInv => NamesAreTrue
  BY DEF IndInv, CacheFits, Fits, NamesAreTrue
<1> QED
  BY IndInvHolds, <1>1, PTL

LEMMA PlanInvariant == Spec => [](WorkspaceInv /\ PlanInv)
<1>1. Init => WorkspaceInv /\ PlanInv
  BY DEF Init, Idle, WorkspaceInv, PlanInv
<1>2. ASSUME IndInv, WorkspaceInv, PlanInv, [Next]_vars
      PROVE  WorkspaceInv' /\ PlanInv'
  BY <1>2, WorkspaceStays, PlanStays
<1> QED
  BY <1>1, <1>2, IndInvHolds, PTL DEF Spec

\* What is built from a workspace, and only that, is stored as the workspace's
\* package, as long as no workspace came or went: for every graph and every way
\* the texts change meanwhile.
THEOREM WorkspacesAreShown == Spec => []WorkspacesShow
<1>1. IndInv /\ WorkspaceInv => WorkspacesShow
  <2> SUFFICES ASSUME IndInv, WorkspaceInv, proc.step \in {"compile", "pack"}, calm
               PROVE  proc.path.edited <=> \E i \in proc.root : /\ i.recipe = proc.now
                                                                /\ i.source = "workspace"
    BY DEF WorkspacesShow
  <2>1. proc.path.edited <=> proc.now \in open
    BY DEF WorkspaceInv, CacheFile, Package, WorkspacePackage
  <2>2. \E i \in proc.root : i.recipe = proc.now
    BY DEF IndInv, RootReady
  <2> QED
    BY <2>1, <2>2 DEF WorkspaceInv
<1> QED
  BY <1>1, IndInvHolds, PlanInvariant, PTL

\* `ignite build' never comes to a dependency without an artifact: its plan is
\* complete and in order, whatever it was asked for and whatever was cached.
THEOREM BuildsMissNothing == Spec => []NothingMissing
<1>1. IndInv /\ PlanInv => NothingMissing
  <2> SUFFICES ASSUME IndInv, PlanInv, proc.cmd = "build", calm, NEW q \in proc.todo
               PROVE  CacheFile(proc.pool, q) \in DOMAIN cache
    BY DEF NothingMissing
  <2>1. proc.step \in Steps \ {"idle", "next", "download"}
    BY DEF PlanInv, IndInv, TypeOK, Process
  <2>2. proc.now \in Wanted /\ q \in Below[proc.now]
    BY <2>1 DEF PlanInv, IndInv, TypeOK, RootReady, Steps
  <2>3. q \in Wanted /\ q \notin proc.plan
    BY <2>1, <2>2, WantedIsClosed DEF PlanInv, IndInv
  <2> QED
    BY <2>3 DEF PlanInv
<1> QED
  BY <1>1, IndInvHolds, PlanInvariant, PTL

\* A build that ends without an error has left an artifact of everything it was
\* asked for, and of everything that needs.
THEOREM BuildsDeliver == Spec => BuildDelivers
<1>1. ASSUME PlanInv, Succeed, proc.cmd = "build", calm,
             NEW i \in proc.goal, NEW q \in Needs(i)
      PROVE  CacheFile(proc.pool, q) \in DOMAIN cache
  BY <1>1 DEF Succeed, PlanInv, Wanted
<1>2. PlanInv => (Succeed /\ proc.cmd = "build" /\ calm =>
                    \A i \in proc.goal : \A q \in Needs(i) :
                        CacheFile(proc.pool, q) \in DOMAIN cache)
  BY <1>1
<1> QED
  BY <1>2, PlanInvariant, PTL DEF BuildDelivers

=============================================================================
