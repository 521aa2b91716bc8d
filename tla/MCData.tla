------------------------------- MODULE MCData -------------------------------
(***************************************************************************)
(* What is kept in the shards of a project and computed from it: the       *)
(* search index, the step ledger, the graph queries, and the algorithms of *)
(* the brain, of the live bus and of the prompt hook (communities,         *)
(* retrieval, conventions, similar files, topics, skills).  They share no  *)
(* variable, so a behaviour is one of one of them, the one in focus, and   *)
(* the others stay in one of their initial states.                         *)
(***************************************************************************)
EXTENDS NodeSearch, StepLedger, GraphQueries, Clustering, Retrieval,
        Conventions, Federated, PromptHook, TopicMatch

VARIABLE focus          \* the part whose behaviour this is
dataVars == <<focus, searchVars, ledgerVars, graphVars, clusterVars,
              retrievalVars, conventionVars, federatedVars, hookVars, vars>>

\* "a" is the qualified name of one node and the bare name of two others; each
\* name and the file match more rows than StartLimit.
MCBare == [q \in QNames |-> IF q \in {"b", "c"} THEN "a" ELSE q]
MCFileOf == [q \in QNames |-> "f"]

\* A star with a heavy ray, a path, a graph of two loose pairs, a triangle with a tail.
Weighted(es, n) ==
    [u \in 1 .. n |-> [v \in 1 .. n |->
        IF \E e \in es : {e[1], e[2]} = {u, v}
        THEN (CHOOSE e \in es : {e[1], e[2]} = {u, v})[3] ELSE 0]]
Path == Weighted({<<1, 2, 1>>, <<2, 3, 1>>, <<3, 4, 1>>}, 4)
MCGraphs ==
    {Weighted({<<1, 2, 1>>, <<1, 3, 1>>, <<1, 4, 3>>}, 4),
     Path,
     Weighted({<<1, 2, 2>>, <<3, 4, 1>>, <<2, 3, 1>>, <<1, 3, 1>>}, 4),
     Weighted({<<1, 2, 1>>, <<2, 3, 1>>, <<1, 3, 1>>, <<3, 4, 1>>, <<4, 5, 1>>}, 5)}

\* "e" is only known to the vector index; node 9 has no label, node 3 no text.
MCLens == [l \in {"a", "b", "c", "d", "e"} |-> 3]
MCDocs == [l \in {"a", "b"} |-> IF l = "a" THEN 9 ELSE 8]
MCGraphTexts == [l \in {"a", "b", "c", "d"} |-> IF l = "d" THEN 0 ELSE 4]
MCNodeLabel == [n \in 1 .. 4 |-> <<"a", "a", "e", "c">>[n]]
MCNodeText == [n \in {1, 2, 4} |-> 5]
MCRankings == {<<>>, <<"a", "b">>, <<"b", "a">>, <<"b">>}
MCVectors == {<<>>, <<1, 2, 4>>, <<3, 9, 1>>, <<4, 3>>}
MCEdges == {<<"a", "b">>, <<"b", "c">>, <<"c", "d">>, <<"a", "c">>}
MCAnchors == {<<>>, <<"a">>, <<"b", "a">>, <<"a", "b">>, <<"c", "c">>, <<"x", "d", "c">>}

\* Source files with functions in every style, types, tests and imports.
Declares(form, name) == [form |-> form, name |-> name]
SourceFile(ext, decls) ==
    [ext |-> ext, decls |-> decls, test |-> "none", shape |-> 1, exports |-> {}, components |-> {},
     imports |-> <<>>, results |-> 0, raises |-> {}]
MCFiles ==
    [snake |-> [SourceFile("rs", <<Declares("fn", <<"l", "_", "l">>), Declares("fn", <<"l">>),
                                   Declares("struct", <<"U", "l">>), Declares("const", <<"U", "U">>)>>)
                EXCEPT !.results = 2],
     camel |-> [SourceFile("ts", <<Declares("arrow", <<"l", "U">>), Declares("function", <<"l", "U", "l">>),
                                   Declares("class", <<"U", "l">>)>>)
                EXCEPT !.exports = {"named"}, !.raises = {"throw"},
                       !.imports = <<"other", "external", "external", "blank", "relative", "other", "scoped">>],
     one |-> [SourceFile("py", <<Declares("def", <<"_", "l">>), Declares("def", <<"d", "l">>),
                                 Declares("class", <<"U", "l">>)>>)
              EXCEPT !.test = "separate", !.shape = 5],
     mixed |-> [SourceFile("tsx", <<Declares("arrow", <<"U", "_", "l">>), Declares("const", <<"U", "U", "_", "U">>)>>)
                EXCEPT !.exports = {"named", "default"}, !.components = {"functional"}, !.imports = <<"external">>,
                       !.test = "colocated", !.shape = 2, !.raises = {"try"}],
     go |-> [SourceFile("go", <<Declares("func", <<"l", "U">>)>> \o [i \in 1 .. 4 |-> Declares("type", <<"U", "l">>)])
             EXCEPT !.test = "separate", !.shape = 3]]

MCKinds == [p |-> "rs", q |-> "rs", r |-> "skip"]
MCTexts == {[len |-> 2, tokens |-> <<"x">>], [len |-> 4, tokens |-> <<"x", "y", "y">>]}
MCBits == [x |-> <<0, 1>>, y |-> <<1, 1>>]
MCSalted == [x |-> <<3, 1>>, y |-> <<2, 4>>]

\* Skills.  Words is the ways a line may carry a text, quoted or not; the files of
\* the first kind are all short ones below a name, the others meet in pairs.
Plain(w) == [quoted |-> FALSE, text |-> w]
Quoted(w) == [quoted |-> TRUE, text |-> w]
KeyLine(key, form, ws) == [kind |-> "key", key |-> key, form |-> form, words |-> ws]
ItemLine(w) == [kind |-> "item", words |-> <<w>>]
TextLine(w) == [kind |-> "text", words |-> <<w>>]
Bare0(kind) == [kind |-> kind]
SkillEntry(lines) == [kind |-> "dir", skill |-> TRUE, readable |-> TRUE, lines |-> lines]
Fenced(lines) == SkillEntry(<<Bare0("fence")>> \o lines \o <<Bare0("fence")>>)
Skill(name, triggers, tags) ==
    Fenced(<<KeyLine("name", "scalar", <<Plain(name)>>), KeyLine("triggers", "inline", triggers),
             KeyLine("tags", "inline", tags)>>)
MCLines ==
    {KeyLine("triggers", "open", <<>>), KeyLine("triggers", "scalar", <<Quoted(<<"fix", "bug">>)>>),
     KeyLine("tags", "open", <<>>), ItemLine(Plain(<<"Bug">>)), ItemLine(Plain(<<>>)),
     TextLine(Plain(<<"fix">>)), TextLine(Plain(<<"bug">>)), Bare0("blank"), Bare0("comment")}
MCShort ==
    {Fenced(<<KeyLine("name", "scalar", <<Plain(<<"s">>)>>)>> \o l) : l \in UNION {[1 .. n -> MCLines] : n \in 1 .. 4}}
MCSkills ==
    {Skill(<<"s">>, <<Plain(<<"bug">>), Quoted(<<"fix", "bug">>)>>, <<Plain(<<"bug">>), Plain(<<"c++">>)>>),
     Skill(<<"s">>, <<Plain(<<"the">>)>>, <<Plain(<<"fix">>)>>),
     Skill(<<"t">>, <<Plain(<<"fix">>)>>, <<Plain(<<"bug">>)>>),
     Skill(<<"codewords">>, <<Plain(<<"c++">>)>>, <<>>),
     Fenced(<<KeyLine("triggers", "inline", <<Plain(<<"bug">>)>>)>>),
     SkillEntry(<<Bare0("fence"), KeyLine("name", "scalar", <<Plain(<<"u">>)>>)>>),
     [Skill(<<"u">>, <<Plain(<<"bug">>)>>, <<>>) EXCEPT !.readable = FALSE],
     [Skill(<<"v">>, <<Plain(<<"bug">>)>>, <<>>) EXCEPT !.kind = "link"]}
MCPrompts ==
    {<<"Fix", "the", "bug">>, <<"fix", "bug">>, <<"bug">>, <<"modern-c++">>, <<"hotstart">>, <<"hotstart", "fix">>}
RunOf(p, roots) ==
    [cli |-> {}, stdin |-> {p}, hint |-> TRUE, roots |-> roots, age |-> -1, config |-> 0]
RootOf(dir, es) == [path |-> dir, entries |-> es]
PlainRun == RunOf(<<"bug">>, <<>>)
MCHookInputs ==
    {RunOf(<<"fix", "bug">>, <<RootOf("home", {e})>>) : e \in MCShort}
    \cup {RunOf(p, <<RootOf("home", {d, e}), RootOf("repo", {f}), RootOf("home", {d, e})>>) :
              p \in MCPrompts, d \in MCSkills, e \in MCSkills, f \in MCSkills}
    \cup [cli : {{}, {<<"bug">>}}, stdin : {{}, {<<>>}, {<<"fix">>}}, hint : BOOLEAN,
          roots : {<<>>, <<RootOf("home", MCSkills)>>}, age : {-1, 7, 8, 9}, config : {-2, 0, 8}]
MCLower ==
    [w \in {"Fix", "fix", "the", "Bug", "bug", "c++", "modern-c++", "hotstart", "s", "t", "u", "v", "codewords"} |->
        CASE w = "Fix" -> "fix" [] w = "Bug" -> "bug" [] OTHER -> w]
MCSpelled == {<<"c++", "modern-c++">>}
MCNudge == <<"codewords">>

-----------------------------------------------------------------------------
\* A part with many initial states starts in one of them while another part is
\* in focus.
ASearch == schema = "none" /\ nodeRows = <<>> /\ lastId = 0 /\ postings = {} /\ opener = "idle" /\ unseeded = FALSE
AGraph ==
    /\ graph = {} /\ query = [op |-> "cycles", target |-> NoNode, depth |-> 0]
    /\ walk = NoWalk /\ tarjan = NoTarjan
ARequest ==
    /\ request = [words |-> <<>>, vectors |-> <<>>, anchors |-> <<>>, budget |-> 0]
    /\ near = <<>> /\ ranked = <<>> /\ score = <<>> /\ pack = NoPack
AScan ==
    /\ onDisk = [p \in ScanPaths |-> CHOOSE t \in FileTexts : TRUE] /\ FederatedInit
ARun ==
    /\ given = PlainRun /\ stage = "start" /\ prompt = <<>>
    /\ dirs = <<>> /\ skills = <<>> /\ context = <<>>
AnEvent == pattern = <<"#">> /\ topic = <<"">>

DataInit ==
    /\ focus \in {"search", "ledger", "graph", "clusters", "retrieval", "conventions", "federated", "hook", "topics"}
    /\ LedgerInit /\ ConventionInit
    /\ IF focus = "search" THEN SearchInit ELSE ASearch
    /\ IF focus = "graph" THEN GraphInit ELSE AGraph
    /\ IF focus = "clusters" THEN ClusterInit ELSE weight = Path /\ ClusterInit
    /\ IF focus = "retrieval" THEN RetrievalInit ELSE ARequest
    /\ IF focus = "federated" THEN FederatedInit ELSE AScan
    /\ IF focus = "hook" THEN HookInit ELSE ARun
    /\ IF focus = "topics" THEN Init ELSE AnEvent

DataNext ==
    \/ /\ focus = "search" /\ SearchNext
       /\ UNCHANGED <<focus, ledgerVars, graphVars, clusterVars, retrievalVars,
                       conventionVars, federatedVars, hookVars, vars>>
    \/ /\ focus = "ledger" /\ LedgerNext
       /\ UNCHANGED <<focus, searchVars, graphVars, clusterVars, retrievalVars,
                       conventionVars, federatedVars, hookVars, vars>>
    \/ /\ focus = "graph" /\ GraphNext
       /\ UNCHANGED <<focus, searchVars, ledgerVars, clusterVars, retrievalVars,
                       conventionVars, federatedVars, hookVars, vars>>
    \/ /\ focus = "clusters" /\ ClusterNext
       /\ UNCHANGED <<focus, searchVars, ledgerVars, graphVars, retrievalVars,
                       conventionVars, federatedVars, hookVars, vars>>
    \/ /\ focus = "retrieval" /\ RetrievalNext
       /\ UNCHANGED <<focus, searchVars, ledgerVars, graphVars, clusterVars,
                       conventionVars, federatedVars, hookVars, vars>>
    \/ /\ focus = "conventions" /\ ConventionNext
       /\ UNCHANGED <<focus, searchVars, ledgerVars, graphVars, clusterVars,
                       retrievalVars, federatedVars, hookVars, vars>>
    \/ /\ focus = "federated" /\ FederatedNext
       /\ UNCHANGED <<focus, searchVars, ledgerVars, graphVars, clusterVars,
                       retrievalVars, conventionVars, hookVars, vars>>
    \/ /\ focus = "topics" /\ Next
       /\ UNCHANGED <<focus, searchVars, ledgerVars, graphVars, clusterVars,
                       retrievalVars, conventionVars, federatedVars, hookVars>>
    \/ /\ focus = "hook" /\ HookNext
       /\ UNCHANGED <<focus, searchVars, ledgerVars, graphVars, clusterVars,
                       retrievalVars, conventionVars, federatedVars, vars>>

DataSpec == DataInit /\ [][DataNext]_dataVars
=============================================================================
