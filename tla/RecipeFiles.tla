---------------------------- MODULE RecipeFiles ----------------------------
(***************************************************************************)
(* A recipe file: how it is loaded with the files it merges (config.go,     *)
(* LoadRecipe), how the %{variables} in its sources are replaced (recipe.go, *)
(* ResolveSources), and how workspace-finish adds patches to its list of    *)
(* sources by editing its lines (ignite.go, RecordWorkspacePatches).        *)
(*                                                                         *)
(* A scalar is a list of words, of variables as in %{prefix} and of parts   *)
(* as in %{version:2}, and so is a source; the words of a version are what  *)
(* its dots separate.  Two ways to write one source are one source          *)
(* (normalizeSourceRef).  Names to merge are scalars without a directory:   *)
(* joined to one they stay in it.  Nested mappings and lists hold scalars.  *)
(***************************************************************************)
EXTENDS Naturals, Sequences, FiniteSets, SequencesExt

CONSTANTS
    Piece,          \* the words, variables and parts that scalars are made of
    Texts,          \* the recipe as its author writes it, see `Line'
    Layouts,        \* the other files: what may be at [Places -> documents]
    Home, Project,  \* the directory of the recipe, that of the project
    Virtual,        \* where version.yml and channel.yml are: in no directory
    Globals,        \* `variables' of the configuration of ignite
    Patches,        \* what workspace-finish may export
    MaxDepth,       \* bound: merges within merges
    MaxPieces       \* bound: the length of a source

VARIABLES
    text,       \* the lines of the recipe
    files,      \* the other files
    phase,      \* what the process does
    stack,      \* the calls of UpdateFrom: directory, and names still to merge
    config,     \* c.node, the top-level mapping
    sources,    \* recipe.sources
    at,         \* ResolveSources: how many sources are resolved
    recorded    \* (history) the patches workspace-finish has put on record

vars == <<text, files, phase, stack, config, sources, at, recorded>>

-----------------------------------------------------------------------------
(* YAML documents: mappings from keys to nodes. *)

Word(w) == [word |-> w]
Variable(name) == [name |-> name]
Part(n) == [part |-> n]
IsWord(piece) == "word" \in DOMAIN piece

Scalar(v) == [kind |-> "scalar", value |-> v]
List(s) == [kind |-> "list", value |-> s]
Map(f) == [kind |-> "map", value |-> f]

\* f, and what only g has.
Over(f, g) == [x \in DOMAIN f \cup DOMAIN g |-> IF x \in DOMAIN f THEN f[x] ELSE g[x]]

\* mergeYAML.
MergeNode(a, b) ==
    [a EXCEPT !.value = CASE a.kind = "scalar" -> a.value
                          [] a.kind = "list"   -> a.value \o b.value
                          [] a.kind = "map"    -> Over(a.value, b.value)]
Both(a, b) == DOMAIN a \cap DOMAIN b
Clash(a, b) == \E k \in Both(a, b) : a[k].kind # b[k].kind
Merge(a, b) == Over([k \in Both(a, b) |-> MergeNode(a[k], b[k])], Over(a, b))

\* Config.StringSlice
StringSlice(doc, key) ==
    IF key \in DOMAIN doc /\ doc[key].kind = "list" THEN doc[key].value ELSE <<>>

-----------------------------------------------------------------------------
(* The lines of a recipe: `key: value', `key:' alone, `- item', others. *)

Block == [kind |-> "block"]
KeyLine(k, node) == [key |-> k, node |-> node]
ItemLine(s) == [item |-> s]
Other == [other |-> TRUE]           \* empty, a comment, indented text
IsKey(line) == "key" \in DOMAIN line
IsItem(line) == "item" \in DOMAIN line

\* The place of the line `key:', or 0.
KeyAt(lines, key) ==
    LET places == {n \in DOMAIN lines : IsKey(lines[n]) /\ lines[n].key = key}
    IN  IF places = {} THEN 0 ELSE Min(places)
\* The lines after the one at n up to the next key.
BlockOf(lines, n) ==
    {k \in DOMAIN lines : k > n /\ \A m \in n + 1 .. k : ~IsKey(lines[m])}
ItemPlaces(lines, n) == {k \in BlockOf(lines, n) : IsItem(lines[k])}
Items(lines, n) ==
    FlattenSeq([k \in DOMAIN lines |->
        IF k \in ItemPlaces(lines, n) THEN <<lines[k].item>> ELSE <<>>])

\* What yaml.v3 reads from them.  A key without anything is a scalar.
Parse(lines) ==
    [key \in {lines[n].key : n \in {m \in DOMAIN lines : IsKey(lines[m])}} |->
        LET n == KeyAt(lines, key)
        IN  IF lines[n].node # Block THEN lines[n].node
            ELSE IF ItemPlaces(lines, n) = {} THEN Scalar(<<>>) ELSE List(Items(lines, n))]

\* scanRecipeSourceLines
Scan(lines) ==
    LET n == KeyAt(lines, "sources")
    IN  IF n = 0 THEN <<>> ELSE Items(lines, n)

\* appendSourcesToRecipeText: a new block at the end, or new lines after the
\* last item there is.  Whatever follows `sources:' in its own line is lost.
ItemLines(new) == [k \in DOMAIN new |-> ItemLine(new[k])]
Insert(lines, n, i, new) ==
    LET up == [lines EXCEPT ![n] = KeyLine("sources", Block)]
    IN  SubSeq(up, 1, i) \o ItemLines(new) \o SubSeq(up, i + 1, Len(lines))
NewBlock(lines, new) ==
    lines \o <<Other, KeyLine("sources", Block)>> \o ItemLines(new)
\* Faulty variant: the items are put right after `sources:'.
AppendFirst(lines, new) ==
    LET n == KeyAt(lines, "sources")
    IN  IF n = 0 THEN NewBlock(lines, new) ELSE Insert(lines, n, n, new)
AppendSources(lines, new) ==
    LET n == KeyAt(lines, "sources")
    IN  IF n = 0 THEN NewBlock(lines, new)
        ELSE Insert(lines, n, Max({n} \cup ItemPlaces(lines, n)), new)

-----------------------------------------------------------------------------
(* What the files are made of.  S and L are sets of scalars: those that are   *)
(* values, and those that are items of a block.                              *)

Scalars == Seq(Piece)
IsNode(node, S, L) ==
    /\ node = [kind |-> node.kind, value |-> node.value]
    /\ \/ node.kind = "scalar" /\ node.value \in S
       \/ node.kind = "list" /\ node.value \in Seq(L)
       \/ node.kind = "map" /\ \A x \in DOMAIN node.value : node.value[x] \in S
IsDocument(doc, S, L) == \A key \in DOMAIN doc : IsNode(doc[key], S, L)
IsLine(line, S, L) ==
    \/ IsKey(line) /\ ~IsItem(line) /\ (line.node = Block \/ IsNode(line.node, S, S))
    \/ IsItem(line) /\ ~IsKey(line) /\ line.item \in L
    \/ line = Other
IsText(lines, S, L) ==
    /\ lines \in Seq(Range(lines))
    /\ \A n \in DOMAIN lines : IsLine(lines[n], S, L)
    \* A key with a value of its own has no items.
    /\ \A n \in DOMAIN lines :
          IsKey(lines[n]) /\ lines[n].node # Block => ItemPlaces(lines, n) = {}

Recipe == <<Home, <<>>>>
AllPatches == UNION {Range(new) : new \in Patches}

\* A patch has a name with a word w that is nowhere else: nextPatchPath takes
\* the name of no file there is.  The recipe may list it, once and in a block.
IsNew(patch, w) ==
    LET G == {s \in Scalars : w \notin Range(s)}
    IN  /\ \A n \in DOMAIN patch : IsWord(patch[n])
        /\ w \in Range(patch)
        /\ AllPatches \ {patch} \subseteq G
        /\ {<<Word("none")>>, <<Word("_pkgupd_build_dir")>>} \subseteq G
        /\ \A name \in DOMAIN Globals : Globals[name] \in G
        /\ \A t \in Texts :
              /\ IsText(t, G, G \cup {patch})
              /\ \A i, j \in {n \in DOMAIN t : IsItem(t[n]) /\ t[n].item = patch} : i = j
        /\ \A layout \in Layouts : \A p \in DOMAIN layout : IsDocument(layout[p], G, G)

ASSUME RecipeFilesAssumption ==
    /\ MaxDepth \in Nat /\ MaxPieces \in Nat
    /\ \A piece \in Piece : IsWord(piece) \/ "name" \in DOMAIN piece \/ piece.part \in Nat
    /\ {<<Word("none")>>, <<Word("_pkgupd_build_dir")>>} \subseteq Scalars
    /\ \A name \in DOMAIN Globals : Globals[name] \in Scalars
    /\ \A t \in Texts : IsText(t, Scalars, Scalars)
    /\ \A layout \in Layouts :
          /\ Recipe \notin DOMAIN layout
          /\ \A p \in DOMAIN layout : IsDocument(layout[p], Scalars, Scalars)
    /\ Patches \subseteq Seq(Scalars)
    /\ \A patch \in AllPatches : \E w \in Piece : IsNew(patch, w)

-----------------------------------------------------------------------------
(* Loading *)

Init ==
    /\ text \in Texts /\ files \in Layouts
    /\ phase = "idle" /\ stack = <<>> /\ config = << >>
    /\ sources = <<>> /\ at = 0
    /\ recorded = {}

End(how) == phase' = how /\ stack' = <<>>

\* UpdateFrom: merges a document into c.node, then turns to its own merges.
\* `below' are the calls that wait for this one.
\* Faulty variant: it turns to all merges read so far.
UpdateFromAll(document, dir, node, below) ==
    IF Clash(node, document)
    THEN End("failed") /\ UNCHANGED config
    ELSE /\ config' = Merge(node, document)
         /\ stack' = Append(below, [dir |-> dir, names |-> StringSlice(config', "merge")])
         /\ phase' = "load"
UpdateFrom(document, dir, node, below) ==
    IF Clash(node, document)
    THEN End("failed") /\ UNCHANGED config
    ELSE /\ config' = Merge(node, document)
         /\ stack' = Append(below, [dir |-> dir, names |-> StringSlice(document, "merge")])
         /\ phase' = "load"

\* LoadRecipe, in a new process
LoadRecipe ==
    /\ phase \in {"idle", "ready", "failed"}
    /\ UpdateFrom(Parse(text), Home, [cache |-> Scalar(<<Word("none")>>)], <<>>)
    /\ sources' = <<>> /\ at' = 0
    /\ UNCHANGED <<text, files, recorded>>

\* Where a name is looked for: beside the file that has it in its `merge', in
\* the project, and among the files ignite makes up.
Found(dir, name) ==
    LET places == <<<<dir, name>>, <<Project, name>>, <<Virtual, name>>>>
        there == {n \in DOMAIN places : places[n] \in DOMAIN files}
    IN  IF there = {} THEN <<>> ELSE places[Min(there)]

\* The next turn of the loop over the `merge' of the file on top.
MergeNext ==
    /\ phase = "load" /\ stack # <<>> /\ Last(stack).names # <<>>
    /\ Len(stack) <= MaxDepth                                         \* bound
    /\ LET top == Last(stack)
           found == Found(top.dir, Head(top.names))
           below == Append(Front(stack), [top EXCEPT !.names = Tail(@)])
       IN  IF found = <<>> THEN End("failed") /\ UNCHANGED config
           ELSE UpdateFrom(files[found], found[1], config, below)
    /\ UNCHANGED <<text, files, sources, at, recorded>>

\* It has no more of them.
\* Faulty variant: the files still to be merged are forgotten.
ReturnToCaller ==
    /\ phase = "load" /\ stack # <<>> /\ Last(stack).names = <<>>
    /\ stack' = <<>>
    /\ UNCHANGED <<text, files, phase, config, sources, at, recorded>>
Return ==
    /\ phase = "load" /\ stack # <<>> /\ Last(stack).names = <<>>
    /\ stack' = Front(stack)
    /\ UNCHANGED <<text, files, phase, config, sources, at, recorded>>

\* UpdateFromData: id and version are needed.
Loaded ==
    /\ phase = "load" /\ stack = <<>>
    /\ IF {"id", "version"} \subseteq DOMAIN config
       THEN phase' = "loaded" /\ sources' = StringSlice(config, "sources")
       ELSE phase' = "failed" /\ UNCHANGED sources
    /\ UNCHANGED <<text, files, stack, config, at, recorded>>

-----------------------------------------------------------------------------
(* ResolveSources *)

TopScalars(doc) ==
    [k \in {key \in DOMAIN doc : doc[key].kind = "scalar"} |-> doc[k].value]
ScalarMap(doc, key) ==
    IF key \in DOMAIN doc /\ doc[key].kind = "map" THEN doc[key].value ELSE << >>

\* ResolveValue, without extra variables.
\* Faulty variant: what ignite is configured with wins.
GlobalsWin ==
    Over(Globals, Over(ScalarMap(config, "variables"), TopScalars(config)))
Variables ==
    LET buildDir == [k \in {"build-dir"} |-> <<Word("_pkgupd_build_dir")>>]
    IN  Over(buildDir, Over(ScalarMap(config, "variables"),
                            Over(TopScalars(config), Globals)))

\* A part is what comes before the n-th dot of the version: there has to be one.
Defined(piece) ==
    IF "name" \in DOMAIN piece THEN piece.name \in DOMAIN Variables
    ELSE "version" \in DOMAIN Variables /\ piece.part < Len(Variables["version"])
Value(piece) ==
    IF "name" \in DOMAIN piece THEN Variables[piece.name]
    ELSE SubSeq(Variables["version"], 1, piece.part)

\* resolveTemplate: the leftmost variable is replaced, then again from the start.
Open(s) == {n \in DOMAIN s : ~IsWord(s[n])}
Replace ==
    /\ phase = "loaded" /\ at < Len(sources)
    /\ \E n \in Open(sources[at + 1]) :
        LET s == sources[at + 1]
        IN  /\ \A k \in Open(s) : n <= k
            /\ Len(s) <= MaxPieces                                    \* bound
            /\ IF Defined(s[n])
               THEN /\ sources' = [sources EXCEPT ![at + 1] =
                        SubSeq(s, 1, n - 1) \o Value(s[n]) \o SubSeq(s, n + 1, Len(s))]
                    /\ UNCHANGED phase
               ELSE phase' = "failed" /\ UNCHANGED sources
    /\ UNCHANGED <<text, files, stack, config, at, recorded>>

NextSource ==
    /\ phase = "loaded" /\ at < Len(sources)
    /\ Open(sources[at + 1]) = {}
    /\ at' = at + 1
    /\ UNCHANGED <<text, files, phase, stack, config, sources, recorded>>

Resolved ==
    /\ phase = "loaded" /\ at = Len(sources)
    /\ phase' = "ready"
    /\ UNCHANGED <<text, files, stack, config, sources, at, recorded>>

-----------------------------------------------------------------------------
(* RecordWorkspacePatches *)

\* Those that are not known, each once.
Unknown(new, known) ==
    FlattenSeq([n \in DOMAIN new |->
        IF new[n] \in known \/ \E m \in 1 .. n - 1 : new[m] = new[n]
        THEN <<>> ELSE <<new[n]>>])
\* Faulty variant: only what the loaded recipe lists is known.
AddUnlisted(new) == Unknown(new, Range(StringSlice(config, "sources")))
Add(new) == Unknown(new, Range(StringSlice(config, "sources")) \cup Range(Scan(text)))

\* A workspace was opened and is finished: new patches, or, after a finish that
\* was killed, the same once more.
RecordWorkspacePatches(new) ==
    /\ phase = "ready"
    /\ LET add == Add(new)
       IN  text' = IF add = <<>> THEN text ELSE AppendSources(text, add)
    /\ recorded' = recorded \cup Range(new)
    /\ phase' = "idle"
    /\ UNCHANGED <<files, stack, config, sources, at>>

\* Somebody lists a patch by hand, in a recipe that has its own list.
ListByHand(patch) ==
    /\ phase = "ready" /\ KeyAt(text, "sources") # 0
    /\ text[KeyAt(text, "sources")].node = Block
    /\ patch \notin Range(Scan(text))
    /\ text' = AppendSources(text, <<patch>>)
    /\ UNCHANGED <<files, phase, stack, config, sources, at, recorded>>

\* The process is interrupted; without end in sight it runs out of memory.
Interrupt ==
    /\ phase \in {"load", "loaded"}
    /\ End("idle")
    /\ UNCHANGED <<text, files, config, sources, at, recorded>>

Goes == MergeNext \/ Return \/ Loaded \/ Replace \/ NextSource \/ Resolved
People ==
    \/ LoadRecipe \/ Interrupt
    \/ \E new \in Patches :
        RecordWorkspacePatches(new) \/ \E n \in DOMAIN new : ListByHand(new[n])
Next == Goes \/ People
Spec == Init /\ [][Next]_vars

\* A process that was started goes on.
FairSpec == Spec /\ WF_vars(Goes)

-----------------------------------------------------------------------------
(* Properties *)

Dirs == {Home} \cup {p[1] : p \in UNION {DOMAIN layout : layout \in Layouts}}
TypeOK ==
    /\ IsText(text, Scalars, Scalars)
    /\ files \in Layouts
    /\ phase \in {"idle", "load", "loaded", "ready", "failed"}
    /\ stack \in Seq([dir : Dirs, names : Seq(Scalars)])
    /\ IsDocument(config, Scalars, Scalars)
    /\ sources \in Seq(Scalars) /\ at \in 0 .. Len(sources)
    /\ recorded \subseteq AllPatches

\* The files of a load, each followed by those it merges.
Document(p) == IF p = Recipe THEN Parse(text) ELSE files[p]
Merges(p) == LET names == StringSlice(Document(p), "merge")
             IN  [n \in DOMAIN names |-> Found(p[1], names[n])]
Visits[n \in 0 .. MaxDepth] ==
    [p \in {Recipe} \cup DOMAIN files |->
        IF n = 0 THEN <<p>>
        ELSE <<p>> \o FlattenSeq([k \in DOMAIN Merges(p) |->
                IF Merges(p)[k] = <<>> THEN <<>> ELSE Visits[n - 1][Merges(p)[k]]])]

\* The value of a key is the first of several scalars, all lists one after the
\* other, or a mapping of the first value for each name.
Reads(all, key, node) ==
    LET having == {n \in DOMAIN all : key \in DOMAIN Document(all[n])}
        ValueIn(n) == Document(all[n])[key].value
    IN  CASE node.kind = "scalar" -> node.value = ValueIn(Min(having))
          [] node.kind = "list" ->
               node.value = FlattenSeq([n \in DOMAIN all |->
                                          IF n \in having THEN ValueIn(n) ELSE <<>>])
          [] node.kind = "map" ->
               /\ DOMAIN node.value = UNION {DOMAIN ValueIn(n) : n \in having}
               /\ \A x \in DOMAIN node.value :
                     node.value[x] = ValueIn(Min({n \in having : x \in DOMAIN ValueIn(n)}))[x]

\* What is loaded is what the files say in the order they are read, the recipe
\* first and each file before those it merges: no key more and no key less, and
\* every list in full, as often as its file is merged.
LoadsInOrder ==
    phase = "loaded" =>
        LET all == Visits[MaxDepth][Recipe]
        IN  /\ DOMAIN config = {"cache"} \cup UNION {DOMAIN Document(p) : p \in Range(all)}
            /\ \A key \in DOMAIN config \ {"cache"} : Reads(all, key, config[key])

\* A load comes to an end, with or without an error, unless files merge each
\* other in a circle; and so does the replacing in what it has loaded, unless
\* variables are defined by each other.
Circle(S, After(_)) == \E T \in SUBSET S : T # {} /\ \A x \in T : After(x) \cap T # {}
Merging(p) == Range(Merges(p)) \ {<<>>}
Using(name) ==
    {IF "part" \in DOMAIN piece THEN "version" ELSE piece.name :
        piece \in {Variables[name][n] : n \in Open(Variables[name])}}
LoadsEnd ==
    /\ phase = "load"
         ~> phase # "load" \/ Circle({Recipe} \cup DOMAIN files, Merging)
    /\ phase = "loaded"
         ~> phase # "loaded" \/ Circle(DOMAIN Variables, Using)

\* What a source becomes: for a variable what the recipe says under `variables',
\* its top-level value or what ignite is configured with, in this order, all the
\* way down; `build-dir' is what it always is.
Meaning(name) ==
    LET given == <<[n \in {"build-dir"} |-> <<Word("_pkgupd_build_dir")>>],
                   ScalarMap(config, "variables"), TopScalars(config), Globals>>
        has == {k \in DOMAIN given : name \in DOMAIN given[k]}
    IN  IF has = {} THEN <<>> ELSE given[Min(has)][name]
Means(piece) ==
    IF "name" \in DOMAIN piece THEN Meaning(piece.name)
    ELSE LET version == Meaning("version")
         IN  SubSeq(version, 1, Min({piece.part, Len(version)}))
Spelled[n \in 0 .. MaxPieces] ==
    [piece \in Piece |->
        IF IsWord(piece) \/ n = 0 THEN <<piece>>
        ELSE FlattenSeq([k \in DOMAIN Means(piece) |-> Spelled[n - 1][Means(piece)[k]]])]
SpelledOut(s) == FlattenSeq([k \in DOMAIN s |-> Spelled[MaxPieces][s[k]]])
SourcesSpelled ==
    phase = "ready" =>
        LET raw == StringSlice(config, "sources")
        IN  sources = [n \in DOMAIN raw |-> SpelledOut(raw[n])]

\* No variable stands for one that stands for another ... beyond the bound.
WithinBound ==
    LET raw == StringSlice(config, "sources")
    IN  \A n \in DOMAIN raw : Open(SpelledOut(raw[n])) = {}

\* workspace-finish only adds to a recipe: every key reads as before, and the
\* list of sources begins as before.  (A list in brackets is lost.)
Adds ==
    LET old == Parse(text)
        new == Parse(text')
    IN  /\ DOMAIN new = DOMAIN old \cup (IF text' = text THEN {} ELSE {"sources"})
        /\ \A key \in DOMAIN old \ {"sources"} : new[key] = old[key]
        /\ \/ KeyAt(text, "sources") # 0 /\ text[KeyAt(text, "sources")].node # Block
           \/ IsPrefix(StringSlice(old, "sources"), StringSlice(new, "sources"))
OnlyAdds == [][Adds]_vars

\* However often a workspace is finished, and whoever lists its patches by hand
\* meanwhile, a patch is applied once, before and after variables are replaced.
AppliedOnce ==
    phase \in {"loaded", "ready"} =>
        \A patch \in recorded :
            Cardinality({n \in DOMAIN sources : sources[n] = patch}) = 1

\* The patches come after the sources that they are patches to.
PatchesComeLast ==
    (phase = "loaded" /\ at = 0) =>
        \A n, k \in DOMAIN sources :
            sources[n] \in recorded /\ sources[k] \notin UNION {Range(new) : new \in Patches}
              => k < n
=============================================================================
