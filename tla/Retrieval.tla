----------------------------- MODULE Retrieval -----------------------------
(***************************************************************************)
(* Hybrid retrieval (brain/src/retrieve.rs): three rankings of labels, by  *)
(* words, by vectors and by the graph around some anchors, are fused by    *)
(* reciprocal ranks, and the best labels are packed into a budget of       *)
(* tokens.                                                                 *)
(*                                                                         *)
(* What the word index and the vector index answer is any ranking; two     *)
(* nodes may carry one label, so a label may come up twice in the second.  *)
(* Scores are integers: Unit is a common multiple of the denominators.     *)
(* Labels with the same score come in any order, and a text is its length. *)
(* Left out: the formula of BM25, the cut at fifty hits, the reranker,     *)
(* which is compiled in by a feature only.                                 *)
(***************************************************************************)
EXTENDS Naturals, Sequences, FiniteSets

CONSTANTS
    LabelLen,       \* [label -> length of the label itself]
    DocText,        \* [id of a document -> length of its text]
    GraphText,      \* [label of a node of the graph -> length of its text]
    NodeLabel,      \* [node of the vector index -> label]: node_labels
    NodeText,       \* [node of the vector index -> length of its text]: node_text
    WordRankings,   \* what scoring may make of the documents
    VectorRankings, \* answers of the vector index, as sequences of nodes
    LabelEdges,     \* edges of the graph, as pairs
    AnchorLists,    \* anchors a caller may name
    Budgets,        \* budget_tokens
    CharsPerToken,  \* CHARS_PER_TOKEN (4 in the code)
    RrfK            \* RRF_K (60 in the code)

Labels == DOMAIN LabelLen
GraphLabels == DOMAIN GraphText

ASSUME RetrievalAssumption ==
    /\ DOMAIN DocText \cup GraphLabels \subseteq Labels
    /\ \A n \in DOMAIN NodeLabel : NodeLabel[n] \in Labels
    /\ LabelEdges \subseteq GraphLabels \X GraphLabels
    /\ Budgets \subseteq Nat /\ RrfK \in Nat /\ CharsPerToken \in Nat \ {0}
    /\ \A lens \in {LabelLen, DocText, GraphText, NodeText} : \A l \in DOMAIN lens : lens[l] \in Nat
    /\ \A s \in AnchorLists : Len(s) \in Nat /\ DOMAIN s = 1 .. Len(s)

VARIABLES
    request,      \* the rankings, the anchors and the budget of a request
    near,       \* two_hop's map: [label -> depth]
    ranked,     \* the graph's ranking
    score,      \* fused scores
    pack        \* the request: pc, candidates left, labels taken, tokens used

retrievalVars == <<request, near, ranked, score, pack>>

\* BM25Index::search: documents only, the best one first, none without a score.
Bm25Search(ranking) == SelectSeq(ranking, LAMBDA id : id \in DOMAIN DocText)

\* Without an embedder there is no hit; a hit on a node without a label is skipped.
SemanticSearch(hits, embedder) ==
    LET known == SelectSeq(hits, LAMBDA n : embedder /\ n \in DOMAIN NodeLabel)
    IN  [i \in DOMAIN known |-> NodeLabel[known[i]]]

\* The text of a hit: of the document, of the graph's node, of one indexed
\* node that carries the label, if that has one, or else the label.
TextFor(l) ==
    LET nodes == {n \in DOMAIN NodeLabel : NodeLabel[n] = l}
        node == CHOOSE n \in nodes : TRUE
    IN  IF l \in DOMAIN DocText THEN DocText[l]
        ELSE IF l \in GraphLabels THEN GraphText[l]
        ELSE IF nodes # {} /\ node \in DOMAIN NodeText THEN NodeText[node]
        ELSE LabelLen[l]

EstimateTokens(len) == (len + CharsPerToken - 1) \div CharsPerToken
TokensOf(l) == EstimateTokens(TextFor(l))

Next1(l) == {e[2] : e \in {x \in LabelEdges : x[1] = l}}
Next2(l) == UNION {Next1(m) : m \in Next1(l)}
NoPack == [pc |-> "walk", at |-> 1, left |-> {}, taken |-> <<>>, used |-> 0]

RetrievalInit ==
    /\ \E w \in WordRankings, v \in VectorRankings, e \in BOOLEAN, as \in AnchorLists, b \in Budgets :
         request = [words |-> Bm25Search(w), vectors |-> SemanticSearch(v, e), anchors |-> as, budget |-> b]
    /\ near = <<>> /\ ranked = <<>> /\ score = <<>> /\ pack = NoPack

\* entry(..).and_modify(min).or_insert
AtMost_Inserts(m, S, d) == [l \in DOMAIN m \cup S |-> IF l \in S THEN d ELSE m[l]]

AtMost(m, S, d) ==
    [l \in DOMAIN m \cup S |-> IF l \in DOMAIN m /\ (l \notin S \/ m[l] <= d) THEN m[l] ELSE d]

\* two_hop, one anchor; one the graph does not know is skipped, and a label that is
\* already there keeps its depth when it comes up as an anchor.
WalkAnchor ==
    /\ pack.pc = "walk" /\ pack.at <= Len(request.anchors)
    /\ LET a == request.anchors[pack.at]
           start == IF a \in DOMAIN near THEN near ELSE AtMost(near, {a}, 0)
       IN  near' = IF a \in GraphLabels THEN AtMost(AtMost(start, Next1(a), 1), Next2(a), 2) ELSE near
    /\ pack' = [pack EXCEPT !.at = @ + 1]
    /\ UNCHANGED <<request, ranked, score>>

\* sort_by_key on the depth.
Sorted(s) == \A i, j \in DOMAIN s : i < j => near[s[i]] <= near[s[j]]
Permutation(s, S) == \A l \in S : \E i \in DOMAIN s : s[i] = l
RankGraph(s) ==
    /\ pack.pc = "walk" /\ pack.at > Len(request.anchors)
    /\ Permutation(s, DOMAIN near) /\ Sorted(s)
    /\ ranked' = s /\ pack' = [pack EXCEPT !.pc = "fuse"]
    /\ UNCHANGED <<request, near, score>>

\* 1 / (k + rank), the first rank being 1, times Unit.
Unit ==
    LET u[n \in Nat] == IF n = 0 THEN 2 ELSE u[n - 1] * (RrfK + n)
        ranks == {Cardinality(GraphLabels)} \cup {Len(s) : s \in WordRankings} \cup {Len(s) : s \in VectorRankings}
    IN  u[CHOOSE n \in ranks : \A k \in ranks : k <= n]
Points(s, l) ==
    LET p[n \in Nat] == IF n = 0 THEN 0
                        ELSE p[n - 1] + IF s[n] = l THEN Unit \div (RrfK + n) ELSE 0
    IN  p[Len(s)]

RangeOf(s) == {s[i] : i \in DOMAIN s}
Fuse ==
    /\ pack.pc = "fuse"
    /\ LET all == RangeOf(request.words) \cup RangeOf(request.vectors) \cup RangeOf(ranked)
       IN  /\ score' = [l \in all |-> Points(request.words, l) + Points(request.vectors, l)
                                      + Points(ranked, l) \div 2]
           /\ pack' = [pack EXCEPT !.pc = "pack", !.left = all]
    /\ UNCHANGED <<request, near, ranked>>

\* The greedy packer, one candidate: one that does not fit is passed over.
PackNext_Stops(l) ==
    LET fits == pack.used + TokensOf(l) <= request.budget
    IN  [pack EXCEPT !.left = @ \ {l}, !.taken = IF fits THEN Append(@, l) ELSE @,
                     !.used = IF fits THEN @ + TokensOf(l) ELSE @,
                     !.pc = IF ~fits \/ pack.used + TokensOf(l) >= request.budget THEN "done" ELSE "pack"]

PackNext(l) ==
    LET fits == pack.used + TokensOf(l) <= request.budget
    IN  [pack EXCEPT !.left = @ \ {l}, !.taken = IF fits THEN Append(@, l) ELSE @,
                     !.used = IF fits THEN @ + TokensOf(l) ELSE @,
                     !.pc = IF fits /\ pack.used + TokensOf(l) >= request.budget THEN "done" ELSE "pack"]

PackHit(l) ==
    /\ pack.pc = "pack" /\ l \in pack.left
    /\ \A m \in pack.left : score[m] <= score[l]
    /\ pack' = PackNext(l)
    /\ UNCHANGED <<request, near, ranked, score>>

EndPack ==
    /\ pack.pc = "pack" /\ pack.left = {}
    /\ pack' = [pack EXCEPT !.pc = "done"]
    /\ UNCHANGED <<request, near, ranked, score>>

RetrievalNext ==
    \/ WalkAnchor \/ Fuse \/ EndPack
    \/ /\ pack.pc = "walk"
       /\ \E s \in [1 .. Cardinality(DOMAIN near) -> DOMAIN near] : RankGraph(s)
    \/ \E l \in Labels : PackHit(l)

RetrievalSpec == RetrievalInit /\ [][RetrievalNext]_retrievalVars

-----------------------------------------------------------------------------
\* The context pack is within the budget, a candidate was left out only because
\* it no longer fits (or no token is left), and none that was left out for a
\* worse one would have fitted at its place.
PackIsMaximal ==
    pack.pc = "done" =>
        /\ pack.used <= request.budget
        /\ \A l \in DOMAIN score \ RangeOf(pack.taken) :
             \/ pack.used + TokensOf(l) > request.budget
             \/ pack.used = request.budget
        /\ \A i, j \in DOMAIN pack.taken : i < j => score[pack.taken[j]] <= score[pack.taken[i]]

Around(d) ==
    LET A == RangeOf(request.anchors) \cap GraphLabels
    IN  IF d = 0 THEN A ELSE IF d = 1 THEN UNION {Next1(a) : a \in A} ELSE UNION {Next2(a) : a \in A}

\* two_hop finds what is within two hops of an anchor, at its shortest
\* distance, whatever the order of the anchors; only an anchor that another one
\* leads to may be listed further away than it is.
TwoHopIsShortest ==
    pack.pc = "fuse" =>
        /\ DOMAIN near = Around(0) \cup Around(1) \cup Around(2)
        /\ \A l \in DOMAIN near \ Around(0) : near[l] = IF l \in Around(1) THEN 1 ELSE 2

\* What a caller may rely on in the context pack, together.
RetrievalIsSound == PackIsMaximal /\ TwoHopIsShortest

\* The inductive strengthening of RetrievalIsSound: the walk has the shortest
\* distances from the anchors it has seen, and the packer has taken no candidate
\* before a better one that is left.
PackShape ==
    /\ request.anchors \in AnchorLists /\ request.budget \in Budgets
    /\ pack = [pc |-> pack.pc, at |-> pack.at, left |-> pack.left, taken |-> pack.taken, used |-> pack.used]
    /\ pack.pc \in {"walk", "fuse", "pack", "done"} /\ pack.at \in 1 .. Len(request.anchors) + 1
    /\ pack.taken \in Seq(Labels) /\ pack.used \in Nat
    /\ pack.pc = "fuse" => pack.at = Len(request.anchors) + 1
    /\ pack.pc \in {"walk", "fuse"} => pack.taken = <<>> /\ pack.used = 0

Seen == {request.anchors[i] : i \in 1 .. pack.at - 1} \cap GraphLabels
OneHop == UNION {Next1(a) : a \in Seen}

NearSoFar ==
    pack.pc \in {"walk", "fuse"} =>
        /\ near \in [Seen \cup OneHop \cup UNION {Next2(a) : a \in Seen} -> 0 .. 2]
        /\ \A l \in DOMAIN near \ Seen : near[l] = IF l \in OneHop THEN 1 ELSE 2

PackedSoFar ==
    pack.pc \in {"pack", "done"} =>
        /\ pack.used <= request.budget /\ pack.left \subseteq DOMAIN score
        /\ \A l \in DOMAIN score \ (RangeOf(pack.taken) \cup pack.left) :
             l \in Labels /\ pack.used + TokensOf(l) > request.budget
        /\ \A i, j \in DOMAIN pack.taken : i < j => score[pack.taken[j]] <= score[pack.taken[i]]
        /\ \A i \in DOMAIN pack.taken, l \in pack.left : score[l] <= score[pack.taken[i]]
        /\ pack.pc = "done" => pack.left = {} \/ pack.used = request.budget

PackInv == PackShape /\ NearSoFar /\ PackedSoFar
=============================================================================
