--------------------------- MODULE MC_RecipeFiles ---------------------------
(* RecipeFiles for the recipes one can put together from these blocks, in a
   directory of their own beside the project. *)
EXTENDS RecipeFiles, TLC

aInc == <<Word("a.inc")>>
bInc == <<Word("b.inc")>>
versionYml == <<Word("version.yml")>>
archive == <<Word("release"), Part(1), Variable("type")>>
fix == <<Word("fix")>>
next == <<Word("next")>>

Heads ==
    {<<KeyLine("id", Scalar(<<Word("pkg")>>))>>,
     <<KeyLine("id", Scalar(<<Word("pkg")>>)),
       KeyLine("version", Scalar(<<Word("1"), Word("2")>>))>>}
Merged == {<<>>} \cup
    {<<KeyLine("merge", List(names))>> :
        names \in {<<aInc>>, <<versionYml>>, <<bInc, aInc>>}}
Listed ==
    {<<>>,
     <<KeyLine("sources", Block)>>,
     <<KeyLine("sources", Block), ItemLine(archive), Other>>,
     <<KeyLine("sources", Block), Other, ItemLine(archive), ItemLine(fix)>>,
     <<KeyLine("sources", List(<<archive>>))>>}
Rest == {<<>>, <<KeyLine("script", Scalar(<<Word("make")>>)), Other>>}

MCTexts == {h \o m \o l \o r : h \in Heads, m \in Merged, l \in Listed, r \in Rest}

Type(v) == Map([k \in {"type"} |-> v])
AInc == {[variables |-> Type(<<Word("zip")>>), sources |-> List(<<archive>>)],
         [variables |-> Type(<<Variable("end")>>), merge |-> List(<<bInc>>)],
         [variables |-> Scalar(<<Variable("type")>>), version |-> Scalar(<<Word("9")>>)],
         [type |-> Scalar(<<Variable("type")>>), merge |-> List(<<versionYml>>)]}
BInc == {[version |-> Scalar(<<Word("3"), Word("4"), Word("5")>>)],
         [variables |-> Type(<<Word("xz")>>), merge |-> List(<<aInc>>)]}
VersionYml == [version |-> Scalar(<<Word("7"), Word("8")>>),
               variables |-> Map([k \in {"end"} |-> <<Word("bz")>>])]

MCLayouts ==
    {<<Project, aInc>> :> a @@ <<Virtual, versionYml>> :> VersionYml : a \in AInc}
    \cup {<<Project, aInc>> :> a @@ <<p, bInc>> :> b @@
           <<Virtual, versionYml>> :> VersionYml :
             a \in AInc, b \in BInc, p \in {Home, Project}}
MCGlobals == [k \in {"type"} |-> <<Word("gz")>>]
MCPiece ==
    {Word(w) : w \in {"a.inc", "b.inc", "version.yml", "release", "fix", "next", "pkg",
                      "make", "none", "_pkgupd_build_dir", "zip", "xz", "gz", "bz",
                      "1", "2", "3", "4", "5", "7", "8", "9"}}
    \cup {Variable("type"), Variable("end"), Part(1)}
MCPatches == {<<fix>>, <<fix, next>>}
=============================================================================
