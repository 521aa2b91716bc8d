----------------------------- MODULE DataProofs -----------------------------
(***************************************************************************)
(* Proofs about parts of what MCData runs: topic_matches for patterns and  *)
(* topics of any length, recall for any nodes, names and row ids, the      *)
(* resume bundle for any limits, the fingerprints of a scan for any paths, *)
(* texts, hashes and window, the context pack of a retrieval for any       *)
(* graph, rankings, anchors and budgets, the convention learner for any    *)
(* files and thresholds, the graph commands for any graph, names and order *)
(* of rows, and the moves of the clustering for any weighted graph.        *)
(***************************************************************************)
EXTENDS TopicMatch, NodeSearch, StepLedger, Federated, Retrieval, Conventions, GraphQueries,
        Clustering, FiniteSetTheorems, SequenceTheorems, WellFoundedInduction, TLAPS

-----------------------------------------------------------------------------
(* TopicMatch: the documented pattern language. *)

\* topic_matches agrees with the documented meaning of * and # on every
\* non-empty pattern and every valid topic.
LEMMA MatchesAccept ==
    ASSUME NEW S, NEW T, NEW pat \in Seq(S), NEW t \in Seq(T),
           Len(pat) >= 1, Len(t) >= 1, ValidTopic(t)
    PROVE  TopicMatches(pat, t) <=> Accepts(pat, t)
<1> DEFINE n == Len(pat)
<1>1. n \in Nat /\ Len(t) \in Nat /\ n >= 1 /\ Len(t) >= 1
  OBVIOUS
<1>2. CASE pat[n] = "#" /\ n >= 2
  <2> DEFINE prefix == SubSeq(pat, 1, n - 1)
  <2>1. Len(prefix) = n - 1 /\ \A i \in 1 .. n - 1 : prefix[i] = pat[i]
    BY <1>1, <1>2
  <2>2. TopicMatches(pat, t) <=> Len(t) >= n /\ ZipAgrees(prefix, t)
    <3>1. n # 1 /\ pat[Len(pat)] = "#" /\ Len(pat) >= 2
      BY <1>1, <1>2
    <3>. QED BY <3>1, Zenon DEF TopicMatches
  <2>3. Len(t) >= n =>
          (ZipAgrees(prefix, t) <=> \A i \in 1 .. n - 1 : pat[i] = "*" \/ pat[i] = t[i])
    BY <1>1, <2>1 DEF ZipAgrees
  <2>4. Accepts(pat, t) <=>
          Len(t) >= n /\ \A i \in 1 .. n - 1 : pat[i] = "*" \/ pat[i] = t[i]
    BY <1>1, <1>2 DEF Accepts
  <2>. QED BY <2>2, <2>3, <2>4
<1>3. CASE pat[n] = "#" /\ n = 1
  <2>1. TopicMatches(pat, t) <=> t # <<"">>
    BY <1>3 DEF TopicMatches
  <2>2. t # <<"">>
    <3>1. SUFFICES ASSUME t = <<"">> PROVE FALSE
      OBVIOUS
    <3>2. 1 \in 1 .. Len(t)
      BY <1>1
    <3>3. t[1] = ""
      BY <3>1
    <3>. QED BY <3>2, <3>3 DEF ValidTopic
  <2>3. Accepts(pat, t)
    BY <1>1, <1>3 DEF Accepts
  <2>. QED BY <2>1, <2>2, <2>3
<1>4. CASE pat[n] # "#"
  <2>1. TopicMatches(pat, t) <=> Len(t) = n /\ ZipAgrees(pat, t)
    BY <1>1, <1>4 DEF TopicMatches
  <2>2. Accepts(pat, t) <=>
          Len(t) = n /\ \A i \in 1 .. Len(t) : pat[i] = "*" \/ pat[i] = t[i]
    BY <1>1, <1>4 DEF Accepts
  <2>. QED BY <1>1, <2>1, <2>2 DEF ZipAgrees
<1>5. n >= 2 \/ n = 1
  <2>1. \A k \in Nat : k >= 1 => k >= 2 \/ k = 1
    OBVIOUS
  <2>. QED BY <1>1, <2>1, Zenon
<1>. QED BY <1>2, <1>3, <1>4, <1>5, Zenon

\* The inductive invariant: both are non-empty sequences of segments.
Grown == /\ pattern \in Seq(Segments) /\ Len(pattern) >= 1
         /\ topic \in Seq(TopicSegments) /\ Len(topic) >= 1

\* Patterns and topics stay sequences of segments as they are typed.
LEMMA GrownInvariant == Spec => []Grown
<1>1. Init => Grown
  BY DEF Init, Grown
<1>2. Grown /\ [Next]_vars => Grown'
  <2> SUFFICES ASSUME Grown, [Next]_vars PROVE Grown'
    OBVIOUS
  <2>1. ASSUME NEW s \in Segments, LongerPattern(s) PROVE Grown'
    BY <2>1 DEF Grown, LongerPattern
  <2>2. ASSUME NEW s \in TopicSegments, LongerTopic(s) PROVE Grown'
    BY <2>2 DEF Grown, LongerTopic
  <2>3. CASE UNCHANGED vars
    BY <2>3 DEF Grown, vars
  <2>. QED BY <2>1, <2>2, <2>3 DEF Next
<1>. QED BY <1>1, <1>2, PTL DEF Spec

\* topic_matches decides the documented language on all the pairs the
\* specification grows, without a bound on their length or on the alphabet.
THEOREM MatchCorrect == Spec => []MatchIsDocumented
<1>1. Grown => MatchIsDocumented
  BY MatchesAccept DEF Grown, MatchIsDocumented
<1>. QED BY <1>1, GrownInvariant, PTL

-----------------------------------------------------------------------------
(* NodeSearch: recall tells the truth. *)

\* A new shard, or an old one of one row and no index.
LEMMA SearchInitially == SearchInit => IndexInv
<1> SUFFICES ASSUME SearchInit PROVE IndexInv
  OBVIOUS
<1>1. CASE schema = "none" /\ nodeRows = <<>> /\ lastId = 0
  BY <1>1 DEF SearchInit, IndexInv, SearchTypeOK, NothingFalse, Ids
<1>2. ASSUME NEW q \in SearchNodes, NEW n \in SearchNames,
             schema = "legacy", nodeRows = <<[q |-> q, name |-> n]>>, lastId = 1
      PROVE  IndexInv
  <2>1. Ids = 1 .. 1 /\ nodeRows[1] = [q |-> q, name |-> n]
    BY <1>2 DEF Ids
  <2>. QED BY <1>2, <2>1 DEF SearchInit, IndexInv, SearchTypeOK, NothingFalse
<1>. QED BY <1>1, <1>2 DEF SearchInit

\* What is posted for a row is pairs of its id and its words.
LEMMA PostedFacts ==
    ASSUME NEW id, NEW r
    PROVE  \A p : p \in Posted(id, r) <=> \E w \in RowWords(r) : p = <<id, w>>
BY DEF Posted

\* Replacing or inserting a node keeps the index right: the triggers follow the
\* row the statement really touched.
LEMMA ReplaceKeepsIndex ==
    ASSUME IndexInv, NEW q \in SearchNodes, NEW name \in SearchNames, ReplaceNode(q, name)
    PROVE  IndexInv'
<1> DEFINE id == lastId + 1
           row == [q |-> q, name |-> name]
           kept == {i \in Ids : nodeRows[i].q # q}
<1>1. /\ schema # "none" /\ lastId' = id
      /\ nodeRows' = [i \in kept \cup {id} |-> IF i = id THEN row ELSE nodeRows[i]]
      /\ postings' = IF schema = "triggers" THEN postings \cup Posted(id, row) ELSE postings
      /\ unseeded' = (unseeded \/ (opener = "seed" /\ Ids # {}))
      /\ schema' = schema /\ opener' = opener
  BY DEF ReplaceNode, NextRowId, IndexInv, SearchTypeOK
<1>2. /\ Ids' = kept \cup {id} /\ id \notin Ids /\ nodeRows'[id] = row
      /\ \A i \in kept : i \in Ids /\ nodeRows'[i] = nodeRows[i]
  BY <1>1 DEF IndexInv, SearchTypeOK, Ids
<1>3. RowWords(row) \subseteq SearchNames \cup {"src"}
  BY DEF RowWords
<1>4. SearchTypeOK'
  <2>1. id \in Nat /\ 1 .. lastId \subseteq 1 .. id /\ id \in 1 .. id
    BY DEF IndexInv, SearchTypeOK
  <2>2. postings \subseteq (1 .. id) \X (SearchNames \cup {"src"})
    BY <2>1 DEF IndexInv, SearchTypeOK
  <2>3. Posted(id, row) \subseteq (1 .. id) \X (SearchNames \cup {"src"})
    BY <1>3, <2>1, PostedFacts
  <2>4. postings' \subseteq (1 .. id) \X (SearchNames \cup {"src"})
    BY <1>1, <2>2, <2>3
  <2>5. Ids' \subseteq 1 .. id
    BY <1>2, <2>1 DEF IndexInv, SearchTypeOK
  <2>6. \A i \in Ids' : nodeRows'[i] \in [q : SearchNodes, name : SearchNames]
    BY <1>2 DEF IndexInv, SearchTypeOK
  <2>. QED BY <1>1, <2>1, <2>4, <2>5, <2>6 DEF IndexInv, SearchTypeOK
<1>5. NothingFalse'
  <2> SUFFICES ASSUME NEW p \in postings', p[1] \in Ids'
               PROVE  p[2] \in RowWords(nodeRows'[p[1]])
    BY DEF NothingFalse, RowWords
  <2>1. CASE p \in postings
    <3>1. p[1] \in 1 .. lastId
      BY <2>1 DEF IndexInv, SearchTypeOK
    <3>. QED BY <1>2, <2>1, <3>1 DEF IndexInv, NothingFalse, SearchTypeOK
  <2>2. CASE p \in Posted(id, row)
    BY <1>2, <2>2, PostedFacts
  <2>. QED BY <1>1, <2>1, <2>2
<1>6. (schema = "triggers" /\ Covered) => Covered'
  <2> SUFFICES ASSUME schema = "triggers", Covered, NEW i \in Ids'
               PROVE  Posted(i, nodeRows'[i]) \subseteq postings'
    BY DEF Covered, Posted, RowWords
  <2>. QED BY <1>1, <1>2 DEF Covered
<1>7. Ids = {} => Covered
  BY DEF Covered
<1>. QED BY <1>1, <1>4, <1>5, <1>6, <1>7 DEF IndexInv

\* Deleting the nodes of a file removes their index rows with them.
LEMMA DeleteKeepsIndex ==
    ASSUME IndexInv, NEW q \in SearchNodes, DeleteFileRows(q)
    PROVE  IndexInv'
<1> DEFINE gone == {i \in Ids : nodeRows[i].q = q}
<1>1. /\ nodeRows' = [i \in Ids \ gone |-> nodeRows[i]]
      /\ postings' = IF schema = "triggers"
                     THEN postings \ UNION {Posted(i, nodeRows[i]) : i \in gone}
                     ELSE postings
      /\ lastId' = lastId /\ schema' = schema /\ opener' = opener /\ unseeded' = unseeded
  BY DEF DeleteFileRows
<1>2. Ids' = Ids \ gone /\ \A i \in Ids' : nodeRows'[i] = nodeRows[i]
  BY <1>1 DEF Ids
<1>3. SearchTypeOK'
  BY <1>1, <1>2 DEF IndexInv, SearchTypeOK
<1>4. NothingFalse'
  BY <1>1, <1>2 DEF IndexInv, NothingFalse, RowWords
<1>5. (schema = "triggers" /\ Covered) => Covered'
  <2> SUFFICES ASSUME schema = "triggers", Covered, NEW i \in Ids',
                      NEW p \in Posted(i, nodeRows'[i])
               PROVE  p \in postings'
    BY DEF Covered, Posted, RowWords
  <2>1. p \in postings /\ p[1] = i
    BY <1>2, PostedFacts DEF Covered
  <2>2. ASSUME NEW g \in gone, p \in Posted(g, nodeRows[g]) PROVE FALSE
    BY <1>2, <2>1, <2>2, PostedFacts
  <2>. QED BY <1>1, <2>1, <2>2
<1>. QED BY <1>1, <1>3, <1>4, <1>5 DEF IndexInv

\* After seed_nodes_fts ran for an old shard the index has its rows and no others.
LEMMA SeedKeepsIndex == IndexInv /\ SeedNodesFts => IndexInv'
<1> SUFFICES ASSUME IndexInv, SeedNodesFts PROVE IndexInv'
  OBVIOUS
<1>1. /\ opener' = "idle" /\ nodeRows' = nodeRows /\ lastId' = lastId
      /\ schema' = schema /\ unseeded' = unseeded /\ schema = "triggers" /\ Ids' = Ids
  BY DEF SeedNodesFts, IndexInv, Ids
<1>2. CASE Ids # {} /\ \A p \in postings : p[2] # "src"
  <2>1. postings' = UNION {Posted(i, nodeRows[i]) : i \in Ids}
    BY <1>2 DEF SeedNodesFts
  <2>2. \A p : p \in postings' <=> \E i \in Ids : \E w \in RowWords(nodeRows[i]) : p = <<i, w>>
    BY <2>1, PostedFacts
  <2>3. SearchTypeOK'
    <3>1. \A i \in Ids : RowWords(nodeRows[i]) \subseteq SearchNames \cup {"src"}
      BY DEF RowWords, IndexInv, SearchTypeOK
    <3>2. \A i \in Ids : \A w \in RowWords(nodeRows[i]) :
            <<i, w>> \in (1 .. lastId) \X (SearchNames \cup {"src"})
      BY <3>1 DEF IndexInv, SearchTypeOK
    <3>3. postings' \subseteq (1 .. lastId) \X (SearchNames \cup {"src"})
      BY <2>2, <3>2
    <3>. QED BY <1>1, <3>3 DEF IndexInv, SearchTypeOK
  <2>4. NothingFalse' /\ Covered'
    BY <1>1, <2>1, <2>2 DEF NothingFalse, Covered, RowWords, Posted
  <2>. QED BY <1>1, <2>3, <2>4 DEF IndexInv
<1>3. CASE ~(Ids # {} /\ \A p \in postings : p[2] # "src")
  <2>1. postings' = postings
    BY <1>3 DEF SeedNodesFts
  <2>2. SearchTypeOK' /\ NothingFalse'
    BY <1>1, <2>1 DEF IndexInv, SearchTypeOK, NothingFalse, RowWords
  <2>3. postings = {} => Ids = {}
    BY <1>3
  <2>4. (Covered \/ postings = {}) => Covered'
    BY <1>1, <2>1, <2>3 DEF Covered, Posted, RowWords
  <2>. QED BY <1>1, <2>2, <2>4 DEF IndexInv
<1>. QED BY <1>2, <1>3

\* Every step of the store keeps the index right.
LEMMA IndexKept == IndexInv /\ [SearchNext]_searchVars => IndexInv'
<1> SUFFICES ASSUME IndexInv, [SearchNext]_searchVars PROVE IndexInv'
  OBVIOUS
<1> USE DEF IndexInv, SearchTypeOK, NothingFalse, Covered, Ids, Posted, RowWords
<1>1. CASE ApplySchema
  BY <1>1 DEF ApplySchema
<1>2. CASE OpenerDies
  BY <1>2 DEF OpenerDies
<1>3. CASE RemoveShard
  BY <1>3 DEF RemoveShard
<1>4. CASE UNCHANGED searchVars
  BY <1>4 DEF searchVars
<1>. QED BY <1>1, <1>2, <1>3, <1>4, ReplaceKeepsIndex, DeleteKeepsIndex, SeedKeepsIndex
         DEF SearchNext

\* A selection of up to n of finitely many rows is all of them, or n.
LEMMA SelectionFacts ==
    ASSUME NEW S, IsFiniteSet(S), NEW n \in Nat, NEW A \in UpTo(S, n)
    PROVE  A \subseteq S /\ (Cardinality(A) < n => A = S)
<1>1. A \subseteq S /\ Cardinality(A) = IF n < Cardinality(S) THEN n ELSE Cardinality(S)
  BY DEF UpTo
<1>2. Cardinality(S) \in Nat /\ (Cardinality(S) = Cardinality(A) => S = A)
  BY <1>1, FS_CardinalityType, FS_Subset
<1>. QED BY <1>1, <1>2

\* For any names, limits, row ids, openings of the shard and rewrites of its
\* rows: what recall returns from a seeded shard has the word now, and a row
\* that has it is left out only by the limit.
THEOREM RecallsAreExact == SearchSpec => []RecallIsExact
<1>1. IndexInv => RecallIsExact
  <2> SUFFICES ASSUME IndexInv, schema = "triggers", opener = "idle", ~unseeded,
                      NEW w \in SearchNames \cup {"src"}, NEW f \in BOOLEAN,
                      NEW n \in RecallLimits, NEW r \in Replies, f => w # "src",
                      NEW A \in RunRecall(w, f, n, r)
               PROVE  /\ \A i \in A : w \in RowWords(nodeRows[i])
                      /\ Cardinality(A) < n => A = {i \in Ids : w \in RowWords(nodeRows[i])}
    BY DEF RecallIsExact
  <2> DEFINE hits == IF f THEN {} ELSE {i \in Ids : <<i, w>> \in postings}
             named == {i \in Ids : nodeRows[i].name = w}
             with == {i \in Ids : w \in RowWords(nodeRows[i])}
  <2>1. A \in IF hits = {} \/ n = 0 THEN UpTo(named, n) ELSE UpTo(hits, n)
    BY DEF RunRecall, QueryRunner, RecallFts, RecallLike
  <2>2. IsFiniteSet(named) /\ IsFiniteSet(hits) /\ IsFiniteSet(with)
    <3>1. IsFiniteSet(Ids)
      <4>1. 1 \in Int /\ lastId \in Int /\ Ids \in SUBSET (1 .. lastId)
        BY DEF IndexInv, SearchTypeOK
      <4>. QED BY <4>1, FS_Interval, FS_Subset
    <3>. QED BY <3>1, FS_Subset
  <2>3. n \in Nat
    BY SearchAssumption
  <2>4. named \subseteq with /\ (w # "src" => named = with)
    BY DEF RowWords
  <2>5. ~f => hits = with
    <3>1. Covered /\ NothingFalse
      BY DEF IndexInv
    <3>2. \A i \in Ids : w \in RowWords(nodeRows[i]) => <<i, w>> \in postings
      BY <3>1, PostedFacts DEF Covered
    <3>3. \A i \in Ids : <<i, w>> \in postings => w \in RowWords(nodeRows[i])
      BY <3>1 DEF NothingFalse
    <3>. QED BY <3>2, <3>3
  <2>6. CASE hits = {} \/ n = 0
    <3>1. A \subseteq named /\ (Cardinality(A) < n => A = named)
      BY <2>1, <2>2, <2>3, <2>6, SelectionFacts
    <3>2. hits = {} => named = with
      BY <2>4, <2>5
    <3>3. Cardinality(A) < n => n # 0
      <4>1. Cardinality(A) \in Nat
        BY <2>2, <3>1, FS_Subset, FS_CardinalityType
      <4>. QED BY <4>1
    <3>. QED BY <2>4, <2>6, <3>1, <3>2, <3>3
  <2>7. CASE ~(hits = {} \/ n = 0)
    <3>1. ~f /\ hits = with
      BY <2>5, <2>7
    <3>2. A \in UpTo(with, n)
      BY <2>1, <2>7, <3>1
    <3>3. A \subseteq with /\ (Cardinality(A) < n => A = with)
      BY <2>2, <2>3, <3>2, SelectionFacts
    <3>. QED BY <3>3
  <2>. QED BY <2>6, <2>7
<1>. QED BY <1>1, SearchInitially, IndexKept, PTL DEF SearchSpec

-----------------------------------------------------------------------------
(* StepLedger: the lists of a bundle hang together. *)

\* The n newest of finitely many rows are rows of them; when there are fewer
\* than n, they are all of them.
LEMMA NewestFacts ==
    ASSUME NEW R, IsFiniteSet(R), NEW n \in Nat, NEW P \in Newest(R, n)
    PROVE  /\ P \subseteq R /\ IsFiniteSet(P) /\ Cardinality(P) \in Nat
           /\ Cardinality(P) < n => P = R
           /\ Cardinality(R) <= n => P = R
           /\ Cardinality(P) <= n
<1>1. P \subseteq R /\ Cardinality(P) = Smaller(n, Cardinality(R))
  BY DEF Newest
<1>2. /\ Cardinality(R) \in Nat /\ IsFiniteSet(P) /\ Cardinality(P) \in Nat
      /\ (Cardinality(R) = Cardinality(P) => R = P)
  BY <1>1, FS_CardinalityType, FS_Subset
<1>. QED BY <1>1, <1>2 DEF Smaller

\* A recall without words returns rows of the kinds and time asked for: as many
\* as the limit, or all there are.
LEMMA RecallFacts ==
    ASSUME IsFiniteSet(Rows), NEW kinds, NEW since, NEW limit \in Nat,
           NEW T \in Recall(FALSE, kinds, since, limit)
    PROVE  /\ T \subseteq Rows /\ \A r \in T : entries[r].kind \in kinds /\ entries[r].ts >= since
           /\ \/ \A r \in Rows : entries[r].kind \in kinds /\ entries[r].ts >= since => r \in T
              \/ Cardinality(T) = limit
<1> DEFINE match == {r \in Rows : entries[r].kind \in kinds /\ entries[r].ts >= since}
           pool == Larger(4 * limit, MinPool)
<1>1. PICK P \in Newest(match, pool) : T \in Newest(P, limit)
  BY DEF Recall
<1>2. IsFiniteSet(match)
  BY FS_Subset
<1>3. pool \in Nat /\ limit <= pool
  BY LedgerAssumption DEF Larger
<1>. HIDE DEF match, pool
<1>4. P \subseteq match /\ IsFiniteSet(P) /\ (Cardinality(P) < pool => P = match)
  BY <1>2, <1>3, NewestFacts
<1>5. /\ T \subseteq P /\ Cardinality(T) \in Nat /\ Cardinality(T) <= limit
      /\ (Cardinality(T) < limit => T = P)
  BY <1>1, <1>4, NewestFacts
<1>6. CASE Cardinality(T) < limit
  <2>1. P = match
    BY <1>3, <1>4, <1>5, <1>6
  <2>. QED BY <1>5, <1>6, <2>1 DEF match
<1>7. CASE Cardinality(T) = limit
  BY <1>4, <1>5, <1>7 DEF match
<1>. QED BY <1>5, <1>6, <1>7

\* The rows of the ledger are the row numbers given out so far, finitely many.
LEMMA RowsAreFinite == ASSUME BundleShape PROVE IsFiniteSet(Rows) /\ Rows = 1 .. Len(entries)
<1>1. Len(entries) \in Nat /\ Rows = 1 .. Len(entries)
  BY DEF BundleShape, Rows
<1>. QED BY <1>1, FS_Interval

\* An empty ledger with no bundle under way.
LEMMA BundleInitially == LedgerInit => BundleInv
BY DEF LedgerInit, BundleInv, BundleShape, NoBundle, Rows, StepKinds

\* Entries that come while a bundle is put together change nothing of the rows
\* it has, and can only fill the list of questions.
LEMMA AppendKeepsBundle ==
    ASSUME BundleInv, NEW k \in StepKinds, NEW t \in 1 .. MaxMoment, NEW b \in BOOLEAN,
           AppendEntry(k, t, b)
    PROVE  BundleInv'
<1> DEFINE entry == [kind |-> k, ts |-> t, resolved |-> b]
<1>1. /\ entries' = Append(entries, entry) /\ bundle' = bundle
      /\ inFts' \in {inFts, inFts \cup {Len(entries) + 1}}
  BY DEF AppendEntry
<1>2. /\ entries' \in Seq([kind : StepKinds, ts : Nat, resolved : BOOLEAN])
      /\ Len(entries') = Len(entries) + 1
      /\ Rows = 1 .. Len(entries) /\ Rows' = 1 .. (Len(entries) + 1)
      /\ \A r \in Rows : entries'[r] = entries[r]
  BY <1>1 DEF BundleInv, BundleShape, Rows
<1>3. Rows \subseteq Rows' /\ Len(entries) + 1 \in Rows'
  BY <1>2 DEF BundleInv, BundleShape
<1>4. bundle.timeline \cup bundle.decisions \cup bundle.impls \subseteq Rows
  BY DEF BundleInv, BundleShape
<1>5. BundleShape'
  <2>1. inFts' \subseteq Rows'
    BY <1>1, <1>3 DEF BundleInv, BundleShape
  <2>2. \A r \in bundle.timeline \cup bundle.decisions \cup bundle.impls :
          entries'[r].ts >= bundle.since
    BY <1>2, <1>4 DEF BundleInv, BundleShape
  <2>3. bundle \in [pc : {"idle", "decisions", "impls", "questions", "done", "found"}, since : Nat,
                    timeline : SUBSET Rows', decisions : SUBSET Rows', impls : SUBSET Rows',
                    questions : SUBSET Rows']
    BY <1>3 DEF BundleInv, BundleShape
  <2>. QED BY <1>1, <1>2, <2>1, <2>2, <2>3 DEF BundleShape
<1>6. \A kinds : Missing(kinds)' = Missing(kinds)
  BY <1>1, <1>2, <1>4 DEF Missing
<1>7. /\ Holds(bundle.decisions, {"decision"}, RecentLimit) => Holds(bundle.decisions, {"decision"}, RecentLimit)'
      /\ Holds(bundle.impls, {"impl", "refactor"}, RecentLimit) => Holds(bundle.impls, {"impl", "refactor"}, RecentLimit)'
  BY <1>1, <1>6 DEF Holds, Missing
<1>8. {r \in Missing({"open_question"}) : ~entries[r].resolved}'
        = {r \in Missing({"open_question"}) : ~entries[r].resolved}
  BY <1>2, <1>4, <1>6 DEF Missing
<1>9. Cardinality({r \in Rows : entries[r].kind = "open_question"}) > QuestionLimit
         => Cardinality({r \in Rows : entries[r].kind = "open_question"})' > QuestionLimit
  <2> DEFINE before == {r \in Rows : entries[r].kind = "open_question"}
             after == {r \in Rows' : entries'[r].kind = "open_question"}
  <2>1. before \subseteq after /\ IsFiniteSet(after)
    <3>1. IsFiniteSet(Rows')
      BY <1>2, FS_Interval DEF BundleInv, BundleShape
    <3>. QED BY <1>2, <1>3, <3>1, FS_Subset
  <2>2. /\ Cardinality(before) \in Nat /\ Cardinality(after) \in Nat
        /\ Cardinality(before) <= Cardinality(after)
    BY <2>1, FS_Subset, FS_CardinalityType
  <2>3. QuestionLimit \in Nat
    BY LedgerAssumption
  <2>. QED BY <2>2, <2>3
<1>. QED BY <1>1, <1>5, <1>7, <1>8, <1>9 DEF BundleInv

\* A query changes nothing but the bundle.
LEMMA QueryFrame ==
    ASSUME UNCHANGED <<entries, inFts>>
    PROVE  Rows' = Rows /\ entries' = entries /\ inFts' = inFts
BY DEF Rows

\* The first query of resume takes the newest rows there are.
LEMMA TimelineKeepsBundle ==
    ASSUME BundleInv, NEW since \in 1 .. MaxMoment, ReadTimeline(since)
    PROVE  BundleInv'
<1>1. PICK T \in Recall(FALSE, StepKinds, since, TimelineLimit) :
        bundle' = [NoBundle EXCEPT !.pc = "decisions", !.since = since, !.timeline = T]
  BY DEF ReadTimeline
<1>2. Rows' = Rows /\ entries' = entries /\ inFts' = inFts
  BY QueryFrame DEF ReadTimeline
<1>3. T \subseteq Rows /\ \A r \in T : entries[r].ts >= since
  BY RecallFacts, RowsAreFinite, LedgerAssumption DEF BundleInv
<1>4. bundle' = [pc |-> "decisions", since |-> since, timeline |-> T, decisions |-> {},
                 impls |-> {}, questions |-> {}]
  BY <1>1 DEF NoBundle
<1>. QED BY <1>2, <1>3, <1>4 DEF BundleInv, BundleShape

\* A search of the mirror reads rows of the table and starts no bundle.
LEMMA SearchKeepsBundle ==
    ASSUME BundleInv, NEW kinds, NEW since \in 1 .. MaxMoment, Search(kinds, since)
    PROVE  BundleInv'
<1>1. PICK T \in Recall(TRUE, kinds, since, RecentLimit) :
        bundle' = [NoBundle EXCEPT !.pc = "found", !.since = since, !.timeline = T]
  BY DEF Search
<1>2. Rows' = Rows /\ entries' = entries /\ inFts' = inFts
  BY QueryFrame DEF Search
<1>3. T \subseteq Rows /\ \A r \in T : entries[r].ts >= since
  <2>1. inFts \subseteq Rows
    BY DEF BundleInv, BundleShape
  <2>. QED BY <2>1 DEF Recall, Newest
<1>4. bundle' = [pc |-> "found", since |-> since, timeline |-> T, decisions |-> {},
                 impls |-> {}, questions |-> {}]
  BY <1>1 DEF NoBundle
<1>. QED BY <1>2, <1>3, <1>4 DEF BundleInv, BundleShape

\* What a list that was just read lacks of the timeline, it lacks because it is full.
LEMMA ListHolds ==
    ASSUME BundleShape, NEW kinds, NEW limit \in Nat,
           NEW T \in Recall(FALSE, kinds, bundle.since, limit)
    PROVE  /\ T \subseteq Rows /\ \A r \in T : entries[r].ts >= bundle.since
           /\ Holds(T, kinds, limit)
<1>1. IsFiniteSet(Rows)
  BY RowsAreFinite
<1>2. /\ T \subseteq Rows /\ \A r \in T : entries[r].kind \in kinds /\ entries[r].ts >= bundle.since
      /\ \/ \A r \in Rows : entries[r].kind \in kinds /\ entries[r].ts >= bundle.since => r \in T
         \/ Cardinality(T) = limit
  BY <1>1, RecallFacts
<1>3. \A r \in Missing(kinds) : r \in Rows /\ entries[r].kind \in kinds /\ entries[r].ts >= bundle.since
  BY DEF Missing, BundleShape
<1>. QED BY <1>2, <1>3 DEF Holds

\* The query for decisions reads a ledger at least as long as the timeline did.
LEMMA DecisionsKeepBundle == ASSUME BundleInv, ReadDecisions PROVE BundleInv'
<1>1. PICK T \in Recall(FALSE, {"decision"}, bundle.since, RecentLimit) :
        bundle' = [bundle EXCEPT !.pc = "impls", !.decisions = T]
  BY DEF ReadDecisions
<1>2. Rows' = Rows /\ entries' = entries /\ inFts' = inFts
  BY QueryFrame DEF ReadDecisions
<1>3. /\ T \subseteq Rows /\ \A r \in T : entries[r].ts >= bundle.since
      /\ Holds(T, {"decision"}, RecentLimit)
  BY ListHolds, LedgerAssumption DEF BundleInv
<1>4. /\ bundle'.pc = "impls" /\ bundle'.decisions = T /\ bundle'.since = bundle.since
      /\ bundle'.timeline = bundle.timeline /\ bundle'.impls = bundle.impls
  BY <1>1 DEF BundleInv, BundleShape
<1>5. BundleShape'
  BY <1>1, <1>2, <1>3 DEF BundleInv, BundleShape
<1>6. Missing({"decision"})' = Missing({"decision"})
  BY <1>2, <1>4 DEF Missing
<1>. QED BY <1>3, <1>4, <1>5, <1>6 DEF BundleInv, Holds

\* The query for implementations, in turn, reads one as long as the decisions did.
LEMMA ImplementationsKeepBundle == ASSUME BundleInv, ReadImplementations PROVE BundleInv'
<1>1. PICK T \in Recall(FALSE, {"impl", "refactor"}, bundle.since, RecentLimit) :
        bundle' = [bundle EXCEPT !.pc = "questions", !.impls = T]
  BY DEF ReadImplementations
<1>2. Rows' = Rows /\ entries' = entries /\ inFts' = inFts /\ bundle.pc = "impls"
  BY QueryFrame DEF ReadImplementations
<1>3. /\ T \subseteq Rows /\ \A r \in T : entries[r].ts >= bundle.since
      /\ Holds(T, {"impl", "refactor"}, RecentLimit)
  BY ListHolds, LedgerAssumption DEF BundleInv
<1>4. /\ bundle'.pc = "questions" /\ bundle'.impls = T /\ bundle'.since = bundle.since
      /\ bundle'.timeline = bundle.timeline /\ bundle'.decisions = bundle.decisions
  BY <1>1 DEF BundleInv, BundleShape
<1>5. BundleShape'
  BY <1>1, <1>2, <1>3 DEF BundleInv, BundleShape
<1>6. /\ Missing({"decision"})' = Missing({"decision"})
      /\ Missing({"impl", "refactor"})' = Missing({"impl", "refactor"})
  BY <1>2, <1>4 DEF Missing
<1>. QED BY <1>2, <1>3, <1>4, <1>5, <1>6 DEF BundleInv, Holds

\* The open questions are read last and close the bundle.
LEMMA QuestionsKeepBundle == ASSUME BundleInv, ReadQuestions PROVE BundleInv'
<1> DEFINE Q == {r \in Rows : entries[r].kind = "open_question"}
<1>1. PICK T \in OpenQuestions : bundle' = [bundle EXCEPT !.pc = "done", !.questions = T]
  BY DEF ReadQuestions
<1>2. Rows' = Rows /\ entries' = entries /\ inFts' = inFts /\ bundle.pc = "questions"
  BY QueryFrame DEF ReadQuestions
<1>3. PICK P \in Newest(Q, QuestionLimit) : T = {r \in P : ~entries[r].resolved}
  BY DEF OpenQuestions
<1>4. IsFiniteSet(Q) /\ QuestionLimit \in Nat /\ Cardinality(Q) \in Nat
  BY RowsAreFinite, FS_Subset, FS_CardinalityType, LedgerAssumption DEF BundleInv
<1>5. P \subseteq Q /\ (Cardinality(Q) <= QuestionLimit => P = Q)
  BY <1>4, NewestFacts
<1>6. Missing({"open_question"}) \subseteq Q
  BY DEF Missing, BundleInv, BundleShape
<1>7. \/ {r \in Missing({"open_question"}) : ~entries[r].resolved} \subseteq T
      \/ Cardinality(Q) > QuestionLimit
  BY <1>3, <1>4, <1>5, <1>6
<1>8. /\ bundle'.pc = "done" /\ bundle'.questions = T /\ bundle'.since = bundle.since
      /\ bundle'.timeline = bundle.timeline /\ bundle'.decisions = bundle.decisions
      /\ bundle'.impls = bundle.impls
  BY <1>1 DEF BundleInv, BundleShape
<1>9. BundleShape'
  <2>1. T \subseteq Rows
    BY <1>3, <1>5
  <2>. QED BY <1>1, <1>2, <2>1 DEF BundleInv, BundleShape
<1>10. \A kinds : Missing(kinds)' = Missing(kinds)
  BY <1>2, <1>8 DEF Missing
<1>. QED BY <1>2, <1>7, <1>8, <1>9, <1>10 DEF BundleInv, Holds

\* Every step, of resume or of an append between two of its queries.
LEMMA BundleKept == BundleInv /\ [LedgerNext]_ledgerVars => BundleInv'
<1> SUFFICES ASSUME BundleInv, [LedgerNext]_ledgerVars PROVE BundleInv'
  OBVIOUS
<1>1. CASE UseBundle
  BY <1>1, QueryFrame DEF UseBundle, NoBundle, BundleInv, BundleShape
<1>2. CASE UNCHANGED ledgerVars
  BY <1>2 DEF ledgerVars, BundleInv, BundleShape, Holds, Missing, Rows
<1>. QED BY <1>1, <1>2, AppendKeepsBundle, TimelineKeepsBundle, SearchKeepsBundle,
            DecisionsKeepBundle, ImplementationsKeepBundle, QuestionsKeepBundle DEF LedgerNext

\* For any limits, times and number of entries, and any entries that other
\* processes append between the four queries of a resume bundle.
THEOREM BundlesHangTogether == LedgerSpec => []BundleHangsTogether
<1>1. BundleInv => BundleHangsTogether
  BY DEF BundleInv, BundleShape, BundleHangsTogether, Holds
<1>. QED BY <1>1, BundleInitially, BundleKept, PTL DEF LedgerSpec

-----------------------------------------------------------------------------
(* Federated: what a scan indexed is found again. *)

\* No similarity is above Full, and a fingerprint has it with itself.
LEMMA SimilarityFacts ==
    /\ \A p, q : Similarity(p, q) \in Int /\ Similarity(p, q) <= Full
    /\ \A p : Similarity(p, p) = Full
<1>1. HashWidth \in Nat /\ SketchSize \in Nat
  BY FederatedAssumption
<1>2. /\ IsFiniteSet(1 .. HashWidth) /\ Cardinality(1 .. HashWidth) = HashWidth
      /\ IsFiniteSet(1 .. SketchSize) /\ Cardinality(1 .. SketchSize) = SketchSize
  BY <1>1, FS_Interval
<1>3. \A a, b, c \in Nat : a <= b => a * c <= b * c /\ a * c \in Nat /\ b * c \in Nat
  OBVIOUS
<1>4. Full = HashWidth * SketchSize + SketchSize * HashWidth
  BY <1>1 DEF Full
<1>5. \A p, q : Similarity(p, q) \in Int /\ Similarity(p, q) <= Full
  <2> TAKE p, q
  <2>1. /\ Jaccard(p, q) \in Nat /\ Jaccard(p, q) <= SketchSize
        /\ Hamming(p, q) \in Nat /\ Hamming(p, q) <= HashWidth
    BY <1>2, FS_Subset, FS_CardinalityType DEF Jaccard, Hamming
  <2>2. HashWidth - Hamming(p, q) \in Nat /\ HashWidth - Hamming(p, q) <= HashWidth
    BY <1>1, <2>1
  <2>3. /\ (HashWidth - Hamming(p, q)) * SketchSize <= HashWidth * SketchSize
        /\ Jaccard(p, q) * HashWidth <= SketchSize * HashWidth
        /\ (HashWidth - Hamming(p, q)) * SketchSize \in Nat /\ Jaccard(p, q) * HashWidth \in Nat
        /\ HashWidth * SketchSize \in Nat /\ SketchSize * HashWidth \in Nat
    BY <1>1, <1>3, <2>1, <2>2
  <2>. QED BY <1>4, <2>3 DEF Similarity
<1>6. \A p : Similarity(p, p) = Full
  <2> TAKE p
  <2>1. Jaccard(p, p) = SketchSize
    <3>1. {k \in 1 .. SketchSize : p.minhash[k] = p.minhash[k]} = 1 .. SketchSize
      OBVIOUS
    <3>. QED BY <1>2, <3>1 DEF Jaccard
  <2>2. Hamming(p, p) = 0
    <3>1. {b \in 1 .. HashWidth : p.simhash[b] # p.simhash[b]} = {}
      OBVIOUS
    <3>. QED BY <3>1, FS_EmptySet DEF Hamming
  <2>. QED BY <1>1, <1>4, <2>1, <2>2 DEF Similarity
<1>. QED BY <1>5, <1>6

\* A row is among the candidates of its kind when the rows as new as it fit the window.
LEMMA CandidateFacts ==
    ASSUME ScanShape, NEW kind, NEW i \in DOMAIN prints, prints[i].print.kind = kind,
           Cardinality({j \in DOMAIN prints : /\ prints[j].print.kind = kind
                                              /\ prints[j].at >= prints[i].at}) <= Window,
           NEW C \in Candidates(kind)
    PROVE  i \in C /\ IsFiniteSet(C)
<1> DEFINE R == {j \in DOMAIN prints : prints[j].print.kind = kind}
           asNew == {j \in DOMAIN prints : /\ prints[j].print.kind = kind
                                           /\ prints[j].at >= prints[i].at}
<1>1. /\ C \subseteq R /\ Cardinality(C) = Fewer(Window, Cardinality(R))
      /\ \A c \in C, r \in R \ C : prints[c].at >= prints[r].at
  BY DEF Candidates
<1>2. IsFiniteSet(R) /\ IsFiniteSet(C) /\ IsFiniteSet(asNew) /\ Window \in Nat
  <2>1. DOMAIN prints = 1 .. Len(prints) /\ Len(prints) \in Nat
    BY DEF ScanShape
  <2>2. IsFiniteSet(DOMAIN prints)
    BY <2>1, FS_Interval
  <2>. QED BY <1>1, <2>2, FS_Subset, FederatedAssumption
<1>3. SUFFICES ASSUME i \notin C PROVE FALSE
  BY <1>2
<1>4. C \cup {i} \subseteq asNew
  <2>1. prints[i] \in [print : Prints, at : Nat, source : ScanPaths]
    <3>1. prints \in Seq([print : Prints, at : Nat, source : ScanPaths])
      BY DEF ScanShape
    <3>2. i \in 1 .. Len(prints)
      BY <3>1
    <3>. QED BY <3>1, <3>2, ElementOfSeq
  <2>2. prints[i].at \in Nat
    BY <2>1
  <2>. QED BY <1>1, <1>3, <2>2
<1>5. /\ Cardinality(C) \in Nat /\ Cardinality(R) \in Nat /\ Cardinality(asNew) \in Nat
      /\ Cardinality(C \cup {i}) = Cardinality(C) + 1
      /\ Cardinality(C \cup {i}) <= Cardinality(asNew)
  BY <1>2, <1>3, <1>4, FS_AddElement, FS_Subset, FS_CardinalityType
<1>6. Cardinality(C) < Window
  BY <1>2, <1>5
<1>7. Cardinality(C) = Cardinality(R)
  BY <1>1, <1>2, <1>5, <1>6 DEF Fewer
<1>8. C = R
  BY <1>1, <1>2, <1>7, FS_Subset
<1>. QED BY <1>3, <1>8

\* The best match of a query for a row's own fingerprint is a perfect one.
LEMMA BestIsPerfect ==
    ASSUME ScanShape, NEW p, NEW i \in RowsFor(p),
           Cardinality({j \in DOMAIN prints : /\ prints[j].print.kind = KindOf[p]
                                              /\ prints[j].at >= prints[i].at}) <= Window,
           NEW H \in QuerySimilar(Fingerprint(onDisk[p].tokens, KindOf[p]), 1)
    PROVE  \E h \in H : Similarity(Fingerprint(onDisk[p].tokens, KindOf[p]), prints[h].print) = Full
<1> DEFINE print == Fingerprint(onDisk[p].tokens, KindOf[p])
<1>1. i \in DOMAIN prints /\ prints[i].print = print /\ print.kind = KindOf[p]
  BY DEF RowsFor, Fingerprint
<1>2. PICK C \in Candidates(KindOf[p]) :
        /\ H \subseteq C /\ Cardinality(H) = Fewer(1, Cardinality(C))
        /\ \A h \in H, c \in C \ H :
             Similarity(print, prints[h].print) >= Similarity(print, prints[c].print)
  BY <1>1 DEF QuerySimilar
<1>3. i \in C /\ IsFiniteSet(C)
  BY <1>1, CandidateFacts
<1>4. H # {}
  <2>1. Cardinality(C) \in Nat /\ Cardinality(C) # 0
    BY <1>3, FS_CardinalityType, FS_EmptySet
  <2>2. Cardinality(H) # 0
    BY <1>2, <2>1 DEF Fewer
  <2>. QED BY <2>2, FS_EmptySet
<1>. HIDE DEF print
<1>5. Similarity(print, prints[i].print) = Full
  BY <1>1, SimilarityFacts
<1>6. CASE i \in H
  BY <1>5, <1>6 DEF print
<1>7. CASE i \notin H
  <2>1. PICK h \in H : TRUE
    BY <1>4
  <2>2. Similarity(print, prints[h].print) >= Full
    BY <1>2, <1>3, <1>5, <1>7
  <2>3. Similarity(print, prints[h].print) \in Int /\ Similarity(print, prints[h].print) <= Full
    BY SimilarityFacts
  <2>4. Full \in Int
    BY <1>5, SimilarityFacts
  <2>. QED BY <2>2, <2>3, <2>4 DEF print
<1>. QED BY <1>6, <1>7

\* Nothing scanned and nothing indexed.
LEMMA ScanInitially == FederatedInit => ScanInv
BY DEF FederatedInit, ScanInv, ScanShape, NoScan

\* A scanned file leaves the paths with a row of its own or without one, and the
\* rows of the others stay.
LEMMA ScanFileKeeps ==
    ASSUME ScanInv, NEW p \in ScanPaths, NEW readable \in BOOLEAN, ScanFile(p, readable)
    PROVE  ScanInv'
<1> DEFINE print == Fingerprint(onDisk[p].tokens, KindOf[p])
           row == [print |-> print, at |-> millis, source |-> p]
<1>1. /\ scan.on /\ onDisk' = onDisk /\ millis' = millis
      /\ touched' = IF readable THEN touched ELSE touched \cup {p}
  BY DEF ScanFile
<1>2. print \in Prints
  BY DEF Prints, ScanInv, ScanShape
<1>. HIDE DEF print
<1>3. CASE Skips(p, readable)
  <2>1. prints' = prints /\ scan' = [scan EXCEPT !.left = @ \ {p}, !.skipped = @ + 1]
    BY <1>3 DEF ScanFile
  <2>2. /\ scan'.left = scan.left \ {p}
        /\ scan' \in [on : BOOLEAN, left : SUBSET ScanPaths, indexed : Nat, skipped : Nat]
    <3>1. scan.left \in SUBSET ScanPaths /\ scan.on \in BOOLEAN /\ scan.indexed \in Nat /\ scan.skipped \in Nat
      BY DEF ScanInv, ScanShape
    <3>2. scan' = [on |-> scan.on, left |-> scan.left \ {p},
                 indexed |-> scan.indexed, skipped |-> scan.skipped + 1]
      BY <2>1 DEF ScanInv, ScanShape
    <3>. QED BY <3>1, <3>2
  <2>3. ScanShape'
    BY <1>1, <2>1, <2>2 DEF ScanInv, ScanShape
  <2>4. ASSUME NEW q \in (ScanPaths \ touched') \ scan'.left
        PROVE  Skips(q, TRUE)' \/ RowsFor(q)' # {}
    <3>1. Skips(q, TRUE)' = Skips(q, TRUE) /\ RowsFor(q)' = RowsFor(q)
      BY <1>1, <2>1 DEF Skips, RowsFor
    <3>2. CASE q = p
      <4>1. readable
        BY <1>1, <3>2, <2>4
      <4>. QED BY <1>3, <3>1, <3>2, <4>1 DEF Skips
    <3>3. CASE q # p
      BY <1>1, <2>2, <3>1, <3>3 DEF ScanInv
    <3>. QED BY <3>2, <3>3
  <2>. QED BY <2>3, <2>4 DEF ScanInv
<1>4. CASE ~Skips(p, readable)
  <2>1. prints' = Append(prints, row) /\ scan' = [scan EXCEPT !.left = @ \ {p}, !.indexed = @ + 1]
    BY <1>4 DEF ScanFile, IndexLocal, print
  <2>2. /\ ScanShape'
        /\ scan'.left = scan.left \ {p}
        /\ DOMAIN prints' = DOMAIN prints \cup {Len(prints) + 1}
        /\ prints'[Len(prints) + 1] = row
        /\ \A i \in DOMAIN prints : prints'[i] = prints[i]
    <3> DEFINE RowSet == [print : Prints, at : Nat, source : ScanPaths]
    <3>1. prints \in Seq(RowSet) /\ row \in RowSet
      BY <1>2 DEF ScanInv, ScanShape
    <3>. HIDE DEF RowSet
    <3>2. /\ prints' \in Seq(RowSet) /\ Len(prints) \in Nat
          /\ DOMAIN prints = 1 .. Len(prints) /\ DOMAIN prints' = 1 .. (Len(prints) + 1)
          /\ prints'[Len(prints) + 1] = row
          /\ \A i \in 1 .. Len(prints) : prints'[i] = prints[i]
      BY <2>1, <3>1
    <3>3. scan.left \in SUBSET ScanPaths /\ scan.on \in BOOLEAN /\ scan.indexed \in Nat /\ scan.skipped \in Nat
      BY DEF ScanInv, ScanShape
    <3>4. scan' = [on |-> scan.on, left |-> scan.left \ {p},
                 indexed |-> scan.indexed + 1, skipped |-> scan.skipped]
      BY <2>1 DEF ScanInv, ScanShape
    <3>5. /\ scan'.left = scan.left \ {p}
          /\ scan' \in [on : BOOLEAN, left : SUBSET ScanPaths, indexed : Nat, skipped : Nat]
      BY <3>3, <3>4
    <3>6. ScanShape'
      BY <1>1, <3>2, <3>5 DEF ScanInv, ScanShape, RowSet
    <3>. QED BY <3>2, <3>5, <3>6
  <2>3. ASSUME NEW q \in (ScanPaths \ touched') \ scan'.left
        PROVE  Skips(q, TRUE)' \/ RowsFor(q)' # {}
    <3>1. Skips(q, TRUE)' = Skips(q, TRUE) /\ RowsFor(q) \subseteq RowsFor(q)'
      BY <1>1, <2>2 DEF Skips, RowsFor
    <3>2. CASE q = p
      <4>1. Len(prints) + 1 \in RowsFor(p)'
        BY <1>1, <2>2 DEF RowsFor, print
      <4>. QED BY <3>2, <4>1
    <3>3. CASE q # p
      BY <1>1, <2>2, <3>1, <3>3 DEF ScanInv
    <3>. QED BY <3>2, <3>3
  <2>. QED BY <2>2, <2>3 DEF ScanInv
<1>. QED BY <1>3, <1>4

\* Editing a file touches no fingerprint that is stored.
LEMMA EditKeepsScan ==
    ASSUME ScanInv, NEW p \in ScanPaths, NEW t \in FileTexts, EditText(p, t)
    PROVE  ScanInv'
<1>1. /\ onDisk' = [onDisk EXCEPT ![p] = t] /\ touched' = touched \cup {p}
      /\ prints' = prints /\ scan' = scan /\ millis' = millis
  BY DEF EditText
<1>2. ScanShape'
  BY <1>1 DEF ScanInv, ScanShape
<1>3. ASSUME NEW q \in (ScanPaths \ touched') \ scan'.left
      PROVE  q \in (ScanPaths \ touched) \ scan.left /\ Skips(q, TRUE)' = Skips(q, TRUE)
             /\ RowsFor(q)' = RowsFor(q)
  <2>1. q # p /\ onDisk'[q] = onDisk[q]
    BY <1>1, <1>3 DEF ScanInv, ScanShape
  <2>. QED BY <1>1, <1>3, <2>1 DEF Skips, RowsFor
<1>. QED BY <1>1, <1>2, <1>3 DEF ScanInv

\* Every step of scans, upserts and edits.
LEMMA ScanKept == ScanInv /\ [FederatedNext]_federatedVars => ScanInv'
<1> SUFFICES ASSUME ScanInv, [FederatedNext]_federatedVars PROVE ScanInv'
  OBVIOUS
<1> USE DEF ScanInv, ScanShape
<1>1. CASE StartScan
  BY <1>1 DEF StartScan, NoScan
<1>2. CASE ScanFails
  BY <1>2 DEF ScanFails, NoScan
<1>3. CASE EndScan
  <2>1. /\ scan.on /\ scan' = [scan EXCEPT !.on = FALSE] /\ scan'.left = scan.left
        /\ scan' \in [on : BOOLEAN, left : SUBSET ScanPaths, indexed : Nat, skipped : Nat]
    BY <1>3 DEF EndScan
  <2>. QED BY <1>3, <2>1 DEF EndScan, Skips, RowsFor
<1>4. CASE OptIn \/ OptOut
  BY <1>4 DEF OptIn, OptOut, Skips, RowsFor
<1>5. CASE PassMillis
  BY <1>5 DEF PassMillis, Skips, RowsFor
<1>6. CASE UNCHANGED federatedVars
  BY <1>6 DEF federatedVars, Skips, RowsFor
<1>. QED BY <1>1, <1>2, <1>3, <1>4, <1>5, <1>6, ScanFileKeeps, EditKeepsScan DEF FederatedNext

\* For any paths, texts, hashes, window and number of scans, edits and failing
\* inserts: a query for the text of a scanned file finds a perfect match.
THEOREM ScansAreFound == FederatedSpec => []ScannedIsFound
<1>1. ScanInv => ScannedIsFound
  <2> SUFFICES ASSUME ScanInv, ~scan.on, scan.indexed + scan.skipped > 0,
                      NEW p \in (ScanPaths \ touched) \ scan.left, ~Skips(p, TRUE)
               PROVE  \E i \in RowsFor(p) :
                        (Cardinality({j \in DOMAIN prints : /\ prints[j].print.kind = KindOf[p]
                                                            /\ prints[j].at >= prints[i].at}) <= Window)
                        => \A H \in QuerySimilar(Fingerprint(onDisk[p].tokens, KindOf[p]), 1) :
                             \E h \in H : Similarity(Fingerprint(onDisk[p].tokens, KindOf[p]),
                                                     prints[h].print) = Full
    BY DEF ScannedIsFound, RowsFor
  <2>1. PICK i \in RowsFor(p) : TRUE
    BY DEF ScanInv
  <2>. QED BY <2>1, BestIsPerfect DEF ScanInv
<1>. QED BY <1>1, ScanInitially, ScanKept, PTL DEF FederatedSpec

-----------------------------------------------------------------------------
(* Retrieval: the hops of the graph and the context pack. *)

\* Every candidate costs a natural number of tokens.
LEMMA TokensAreNatural == \A l \in Labels : TokensOf(l) \in Nat
<1> SUFFICES ASSUME NEW l \in Labels PROVE TokensOf(l) \in Nat
  OBVIOUS
<1>1. /\ \A x \in DOMAIN LabelLen : LabelLen[x] \in Nat
      /\ \A x \in DOMAIN DocText : DocText[x] \in Nat
      /\ \A x \in DOMAIN GraphText : GraphText[x] \in Nat
      /\ \A x \in DOMAIN NodeText : NodeText[x] \in Nat
      /\ CharsPerToken \in Nat \ {0}
  BY RetrievalAssumption
<1>2. TextFor(l) \in Nat
  BY <1>1 DEF TextFor, Labels, GraphLabels
<1>3. \A n \in Nat, d \in Nat \ {0} : (n + d - 1) \div d \in Nat
  OBVIOUS
<1>. QED BY <1>1, <1>2, <1>3 DEF TokensOf, EstimateTokens

\* Before the first ranking nothing is near and nothing is packed.
LEMMA PackInitially == RetrievalInit => PackInv
<1> SUFFICES ASSUME RetrievalInit PROVE PackInv
  OBVIOUS
<1>1. PICK w \in WordRankings, v \in VectorRankings, e \in BOOLEAN, as \in AnchorLists, b \in Budgets :
        request = [words |-> Bm25Search(w), vectors |-> SemanticSearch(v, e), anchors |-> as, budget |-> b]
  BY DEF RetrievalInit
<1>2. request.anchors = as /\ request.budget = b /\ Len(as) \in Nat
  BY <1>1, RetrievalAssumption
<1>3. pack = NoPack /\ near = <<>>
  BY DEF RetrievalInit
<1>4. PackShape
  <2>1. pack = [pc |-> "walk", at |-> 1, left |-> {}, taken |-> <<>>, used |-> 0]
    BY <1>3 DEF NoPack
  <2>2. Len(request.anchors) \in Nat /\ 1 \in 1 .. Len(request.anchors) + 1
    <3>1. Len(request.anchors) \in Nat
      BY <1>2
    <3>. QED BY <3>1
  <2>3. <<>> \in Seq(Labels)
    OBVIOUS
  <2>. QED BY <1>2, <2>1, <2>2, <2>3 DEF PackShape
<1>5. Seen = {}
  BY <1>3 DEF Seen, NoPack
<1>6. NearSoFar
  BY <1>3, <1>5 DEF NearSoFar, OneHop
<1>. QED BY <1>3, <1>4, <1>6 DEF PackInv, PackedSoFar, NoPack

\* Walking from one more anchor keeps the near nodes those within the hops.
LEMMA WalkKeepsPack == PackInv /\ WalkAnchor => PackInv'
<1> SUFFICES ASSUME PackInv, WalkAnchor PROVE PackInv'
  OBVIOUS
<1> DEFINE a == request.anchors[pack.at]
           start == IF a \in DOMAIN near THEN near ELSE AtMost(near, {a}, 0)
           after == AtMost(AtMost(start, Next1(a), 1), Next2(a), 2)
<1>1. /\ pack.pc = "walk" /\ pack.at <= Len(request.anchors) /\ request' = request
      /\ near' = IF a \in GraphLabels THEN after ELSE near
      /\ pack' = [pack EXCEPT !.at = @ + 1]
  BY DEF WalkAnchor
<1>2. request.anchors \in AnchorLists /\ Len(request.anchors) \in Nat /\ pack.at \in Nat
  BY RetrievalAssumption DEF PackInv, PackShape
<1>3. /\ pack'.at = pack.at + 1 /\ pack'.pc = "walk" /\ pack'.taken = <<>> /\ pack'.used = 0
      /\ pack' = [pc |-> pack'.pc, at |-> pack'.at, left |-> pack'.left, taken |-> pack'.taken,
                  used |-> pack'.used]
  BY <1>1 DEF PackInv, PackShape
<1>4. PackShape'
  BY <1>1, <1>2, <1>3 DEF PackInv, PackShape
<1>5. Seen' = Seen \cup ({a} \cap GraphLabels)
  <2>1. 1 .. pack'.at - 1 = (1 .. pack.at - 1) \cup {pack.at}
    BY <1>2, <1>3 DEF PackInv, PackShape
  <2>. QED BY <1>1, <2>1 DEF Seen
<1>6. /\ near \in [Seen \cup OneHop \cup UNION {Next2(b) : b \in Seen} -> 0 .. 2]
      /\ \A l \in DOMAIN near \ Seen : near[l] = IF l \in OneHop THEN 1 ELSE 2
  BY <1>1 DEF PackInv, NearSoFar
<1>7. CASE a \notin GraphLabels
  <2>1. Seen' = Seen /\ near' = near /\ OneHop' = OneHop
    BY <1>1, <1>5, <1>7 DEF OneHop
  <2>. QED BY <1>3, <1>4, <1>6, <2>1 DEF PackInv, NearSoFar, PackedSoFar
<1>8. CASE a \in GraphLabels
  <2>1. Seen' = Seen \cup {a} /\ near' = after
    BY <1>1, <1>5, <1>8
  <2>2. OneHop' = OneHop \cup Next1(a)
    BY <2>1 DEF OneHop
  <2>3. \A l \in DOMAIN near : near[l] \in 0 .. 2
    BY <1>6
  <2>4. /\ DOMAIN after = DOMAIN near \cup {a} \cup Next1(a) \cup Next2(a)
        /\ \A l \in DOMAIN after : after[l] \in 0 .. 2
        /\ \A l \in DOMAIN after \ {a} :
             /\ l \in Next1(a) /\ (l \in DOMAIN near => near[l] # 0) => after[l] = 1
             /\ l \notin Next1(a) /\ l \in DOMAIN near => after[l] = near[l]
             /\ l \notin Next1(a) /\ l \notin DOMAIN near => after[l] = 2
    <3> DEFINE mid == AtMost(start, Next1(a), 1)
    <3>1. /\ DOMAIN start = DOMAIN near \cup {a}
          /\ \A l \in DOMAIN start : start[l] \in 0 .. 2
          /\ \A l \in DOMAIN start \ {a} : l \in DOMAIN near /\ start[l] = near[l]
      <4>1. CASE a \in DOMAIN near
        BY <2>3, <4>1
      <4>2. CASE a \notin DOMAIN near
        <5>1. start = AtMost(near, {a}, 0)
          BY <4>2
        <5>2. /\ DOMAIN start = DOMAIN near \cup {a}
              /\ \A l \in DOMAIN near \cup {a} : start[l] = IF l = a THEN 0 ELSE near[l]
          BY <4>2, <5>1 DEF AtMost
        <5>. QED BY <2>3, <5>2
      <4>. QED BY <4>1, <4>2
    <3>2. /\ DOMAIN mid = DOMAIN start \cup Next1(a)
          /\ \A l \in DOMAIN mid : mid[l] = IF l \in DOMAIN start /\ (l \notin Next1(a) \/ start[l] <= 1) THEN start[l] ELSE 1
      BY DEF AtMost
    <3>3. after = AtMost(mid, Next2(a), 2)
      OBVIOUS
    <3>. HIDE DEF after, mid
    <3>4. /\ DOMAIN after = DOMAIN mid \cup Next2(a)
          /\ \A l \in DOMAIN after : after[l] = IF l \in DOMAIN mid /\ (l \notin Next2(a) \/ mid[l] <= 2) THEN mid[l] ELSE 2
      BY <3>3 DEF AtMost
    <3>5. \A l \in DOMAIN mid : mid[l] \in 0 .. 2
      BY <3>1, <3>2
    <3>6. \A l \in DOMAIN after : after[l] \in 0 .. 2 /\ (l \in DOMAIN mid => after[l] = mid[l])
      BY <3>4, <3>5
    <3>7. ASSUME NEW l \in DOMAIN after \ {a}
          PROVE  /\ l \in Next1(a) /\ (l \in DOMAIN near => near[l] # 0) => after[l] = 1
                 /\ l \notin Next1(a) /\ l \in DOMAIN near => after[l] = near[l]
                 /\ l \notin Next1(a) /\ l \notin DOMAIN near => after[l] = 2
      <4>1. CASE l \in Next1(a)
        <5>1. l \in DOMAIN mid /\ after[l] = mid[l]
          BY <3>2, <3>6, <4>1
        <5>2. CASE l \in DOMAIN near /\ near[l] # 0
          <6>1. l \in DOMAIN start /\ start[l] = near[l] /\ start[l] \in 1 .. 2
            BY <3>1, <5>2
          <6>. QED BY <3>2, <4>1, <5>1, <5>2, <6>1
        <5>3. CASE l \notin DOMAIN near
          BY <3>1, <3>2, <4>1, <5>1, <5>3
        <5>. QED BY <4>1, <5>2, <5>3
      <4>2. CASE l \notin Next1(a) /\ l \in DOMAIN near
        BY <3>1, <3>2, <3>6, <4>2
      <4>3. CASE l \notin Next1(a) /\ l \notin DOMAIN near
        BY <3>1, <3>2, <3>4, <4>3
      <4>. QED BY <4>1, <4>2, <4>3
    <3>. QED BY <3>1, <3>2, <3>4, <3>6, <3>7
  <2>5. after = [l \in DOMAIN after |-> after[l]]
    <3> DEFINE mid == AtMost(start, Next1(a), 1)
    <3>1. after = AtMost(mid, Next2(a), 2)
      OBVIOUS
    <3>. HIDE DEF after, mid
    <3>. QED BY <3>1 DEF AtMost
  <2>. HIDE DEF after
  <2>6. DOMAIN near' = Seen' \cup OneHop' \cup UNION {Next2(b) : b \in Seen'}
    BY <1>6, <2>1, <2>2, <2>4
  <2>7. near' \in [DOMAIN near' -> 0 .. 2]
    BY <2>1, <2>4, <2>5
  <2>8. ASSUME NEW l \in DOMAIN near' \ Seen'
        PROVE  near'[l] = IF l \in OneHop' THEN 1 ELSE 2
    <3>1. l \in DOMAIN after \ {a} /\ l \notin Seen /\ near'[l] = after[l]
      BY <2>1, <2>8
    <3>2. l \in DOMAIN near => near[l] = (IF l \in OneHop THEN 1 ELSE 2)
      BY <1>6, <3>1
    <3>3. l \in OneHop => l \in DOMAIN near
      BY <1>6
    <3>. QED BY <2>2, <2>4, <3>1, <3>2, <3>3
  <2>9. NearSoFar'
    BY <2>6, <2>7, <2>8 DEF NearSoFar
  <2>. QED BY <1>3, <1>4, <2>9 DEF PackInv, PackedSoFar
<1>. QED BY <1>7, <1>8

\* Ranking the near nodes adds a ranking and changes no score yet.
LEMMA RankKeepsPack == ASSUME PackInv, NEW s, RankGraph(s) PROVE PackInv'
<1>1. /\ pack.pc = "walk" /\ pack.at > Len(request.anchors)
      /\ pack' = [pack EXCEPT !.pc = "fuse"] /\ request' = request /\ near' = near
  BY DEF RankGraph
<1>2. Len(request.anchors) \in Nat
  BY RetrievalAssumption DEF PackInv, PackShape
<1>3. /\ pack'.pc = "fuse" /\ pack'.at = pack.at /\ pack'.taken = pack.taken /\ pack'.used = pack.used
      /\ pack' = [pc |-> pack'.pc, at |-> pack'.at, left |-> pack'.left, taken |-> pack'.taken,
                  used |-> pack'.used]
  BY <1>1 DEF PackInv, PackShape
<1>4. PackShape'
  BY <1>1, <1>2, <1>3 DEF PackInv, PackShape
<1>5. Seen' = Seen
  BY <1>1, <1>3 DEF Seen
<1>6. NearSoFar'
  BY <1>1, <1>5 DEF PackInv, NearSoFar, OneHop
<1>. QED BY <1>3, <1>4, <1>6 DEF PackInv, PackedSoFar

\* Fusing makes every ranked or near label a candidate, and packs none yet.
LEMMA FuseKeepsPack == PackInv /\ Fuse => PackInv'
<1> SUFFICES ASSUME PackInv, Fuse PROVE PackInv'
  OBVIOUS
<1> DEFINE all == RangeOf(request.words) \cup RangeOf(request.vectors) \cup RangeOf(ranked)
<1>1. /\ pack.pc = "fuse" /\ request' = request /\ DOMAIN score' = all
      /\ pack' = [pack EXCEPT !.pc = "pack", !.left = all]
  BY DEF Fuse
<1>. HIDE DEF all
<1>2. /\ pack'.pc = "pack" /\ pack'.at = pack.at /\ pack'.taken = <<>> /\ pack'.used = 0
      /\ pack'.left = all
      /\ pack' = [pc |-> pack'.pc, at |-> pack'.at, left |-> pack'.left, taken |-> pack'.taken,
                  used |-> pack'.used]
  BY <1>1 DEF PackInv, PackShape
<1>3. PackShape'
  BY <1>1, <1>2 DEF PackInv, PackShape
<1>4. request.budget \in Nat
  BY RetrievalAssumption DEF PackInv, PackShape
<1>5. PackedSoFar'
  BY <1>1, <1>2, <1>4 DEF PackedSoFar
<1>. QED BY <1>2, <1>3, <1>5 DEF PackInv, NearSoFar

\* A candidate that fits is taken after those at least as good; one that does not
\* fit now never will, since the tokens used only grow.
LEMMA HitKeepsPack == ASSUME PackInv, NEW l \in Labels, PackHit(l) PROVE PackInv'
<1> DEFINE fits == pack.used + TokensOf(l) <= request.budget
<1>1. /\ pack.pc = "pack" /\ l \in pack.left /\ request' = request /\ score' = score
      /\ \A m \in pack.left : score[m] <= score[l]
      /\ pack' = PackNext(l)
  BY DEF PackHit
<1>2. TokensOf(l) \in Nat /\ request.budget \in Nat /\ pack.used \in Nat /\ pack.taken \in Seq(Labels)
  BY TokensAreNatural, RetrievalAssumption DEF PackInv, PackShape
<1>3. /\ pack'.pc = IF fits /\ pack.used + TokensOf(l) >= request.budget THEN "done" ELSE "pack"
      /\ pack'.at = pack.at /\ pack'.left = pack.left \ {l}
      /\ pack'.taken = IF fits THEN Append(pack.taken, l) ELSE pack.taken
      /\ pack'.used = IF fits THEN pack.used + TokensOf(l) ELSE pack.used
      /\ pack' = [pc |-> pack'.pc, at |-> pack'.at, left |-> pack'.left, taken |-> pack'.taken,
                  used |-> pack'.used]
  BY <1>1 DEF PackNext, PackInv, PackShape
<1>4. pack'.taken \in Seq(Labels) /\ pack'.used \in Nat /\ pack.used <= pack'.used
  BY <1>2, <1>3
<1>5. PackShape'
  BY <1>1, <1>3, <1>4 DEF PackInv, PackShape
<1>6. /\ pack.used <= request.budget /\ pack.left \subseteq DOMAIN score
      /\ \A m \in DOMAIN score \ (RangeOf(pack.taken) \cup pack.left) :
           m \in Labels /\ pack.used + TokensOf(m) > request.budget
      /\ \A i, j \in DOMAIN pack.taken : i < j => score[pack.taken[j]] <= score[pack.taken[i]]
      /\ \A i \in DOMAIN pack.taken, m \in pack.left : score[m] <= score[pack.taken[i]]
  BY <1>1 DEF PackInv, PackedSoFar
<1>7. CASE fits
  <2>1. /\ pack'.taken = Append(pack.taken, l) /\ pack'.used = pack.used + TokensOf(l)
        /\ Len(pack.taken) \in Nat
    BY <1>2, <1>3, <1>7
  <2>2. /\ DOMAIN pack'.taken = 1 .. Len(pack.taken) + 1 /\ DOMAIN pack.taken = 1 .. Len(pack.taken)
        /\ pack'.taken[Len(pack.taken) + 1] = l
        /\ \A i \in 1 .. Len(pack.taken) : pack'.taken[i] = pack.taken[i]
    BY <1>2, <2>1
  <2>3. RangeOf(pack'.taken) = RangeOf(pack.taken) \cup {l}
    BY <2>1, <2>2 DEF RangeOf
  <2>4. ASSUME NEW m \in DOMAIN score \ (RangeOf(pack'.taken) \cup pack'.left)
        PROVE  m \in Labels /\ pack'.used + TokensOf(m) > request.budget
    <3>1. m \in DOMAIN score \ (RangeOf(pack.taken) \cup pack.left)
      BY <1>3, <2>3, <2>4
    <3>2. m \in Labels /\ pack.used + TokensOf(m) > request.budget /\ TokensOf(m) \in Nat
      BY <1>6, <3>1, TokensAreNatural
    <3>. QED BY <1>2, <2>1, <3>2
  <2>5. ASSUME NEW i \in DOMAIN pack'.taken, NEW j \in DOMAIN pack'.taken, i < j
        PROVE  score[pack'.taken[j]] <= score[pack'.taken[i]]
    BY <1>1, <1>6, <2>1, <2>2, <2>5
  <2>6. ASSUME NEW i \in DOMAIN pack'.taken, NEW m \in pack'.left
        PROVE  score[m] <= score[pack'.taken[i]]
    BY <1>1, <1>3, <1>6, <2>1, <2>2, <2>6
  <2>7. pack'.used <= request'.budget /\ pack'.left \subseteq DOMAIN score'
    BY <1>1, <1>3, <1>6, <1>7, <2>1
  <2>8. pack'.pc = "done" => pack'.used = request'.budget
    <3>1. pack'.pc = "done" => pack.used + TokensOf(l) >= request.budget
      BY <1>3
    <3>2. pack.used + TokensOf(l) \in Nat /\ pack.used + TokensOf(l) <= request.budget
      BY <1>2, <1>7
    <3>. QED BY <1>1, <1>2, <2>1, <3>1, <3>2
  <2>9. \A m \in DOMAIN score' \ (RangeOf(pack'.taken) \cup pack'.left) :
          m \in Labels /\ pack'.used + TokensOf(m) > request'.budget
    BY <1>1, <2>4
  <2>10. \A i, j \in DOMAIN pack'.taken : i < j => score'[pack'.taken[j]] <= score'[pack'.taken[i]]
    BY <1>1, <2>5
  <2>11. \A i \in DOMAIN pack'.taken, m \in pack'.left : score'[m] <= score'[pack'.taken[i]]
    BY <1>1, <2>6
  <2>12. PackedSoFar'
    BY <2>7, <2>8, <2>9, <2>10, <2>11 DEF PackedSoFar
  <2>. QED BY <1>3, <1>5, <2>12 DEF PackInv, NearSoFar
<1>8. CASE ~fits
  <2>1. pack'.taken = pack.taken /\ pack'.used = pack.used /\ pack'.pc = "pack"
    BY <1>3, <1>8
  <2>2. pack.used + TokensOf(l) > request.budget
    BY <1>2, <1>8
  <2>3. PackedSoFar'
    BY <1>1, <1>3, <1>6, <2>1, <2>2 DEF PackedSoFar
  <2>. QED BY <1>3, <1>5, <2>1, <2>3 DEF PackInv, NearSoFar
<1>. QED BY <1>7, <1>8

\* Every step of a retrieval.
LEMMA PackKept == PackInv /\ [RetrievalNext]_retrievalVars => PackInv'
<1> SUFFICES ASSUME PackInv, [RetrievalNext]_retrievalVars PROVE PackInv'
  OBVIOUS
<1>1. CASE EndPack
  <2>1. /\ pack.pc = "pack" /\ pack.left = {} /\ pack' = [pack EXCEPT !.pc = "done"]
        /\ request' = request /\ score' = score
    BY <1>1 DEF EndPack
  <2>2. /\ pack'.pc = "done" /\ pack'.at = pack.at /\ pack'.taken = pack.taken
        /\ pack'.used = pack.used /\ pack'.left = pack.left
        /\ pack' = [pc |-> pack'.pc, at |-> pack'.at, left |-> pack'.left, taken |-> pack'.taken,
                    used |-> pack'.used]
    BY <2>1 DEF PackInv, PackShape
  <2>3. PackShape'
    BY <2>1, <2>2 DEF PackInv, PackShape
  <2>4. PackedSoFar'
    BY <2>1, <2>2 DEF PackInv, PackedSoFar
  <2>. QED BY <2>2, <2>3, <2>4 DEF PackInv, NearSoFar
<1>2. CASE UNCHANGED retrievalVars
  BY <1>2 DEF retrievalVars, PackInv, PackShape, NearSoFar, PackedSoFar, Seen, OneHop
<1>. QED BY <1>1, <1>2, WalkKeepsPack, RankKeepsPack, FuseKeepsPack, HitKeepsPack DEF RetrievalNext

\* For any labels, texts, rankings, anchors, edges and budget: the context pack
\* keeps to the budget and passes over no candidate that fits, and the graph's
\* ranking has the labels within two hops at their shortest distance.
THEOREM RetrievalsAreSound == RetrievalSpec => []RetrievalIsSound
<1>1. PackInv => PackIsMaximal
  <2> SUFFICES ASSUME PackInv, pack.pc = "done"
               PROVE  /\ pack.used <= request.budget
                      /\ \A l \in DOMAIN score \ RangeOf(pack.taken) :
                           \/ pack.used + TokensOf(l) > request.budget
                           \/ pack.used = request.budget
                      /\ \A i, j \in DOMAIN pack.taken : i < j => score[pack.taken[j]] <= score[pack.taken[i]]
    BY DEF PackIsMaximal
  <2>. QED BY DEF PackInv, PackedSoFar
<1>2. PackInv => TwoHopIsShortest
  <2> SUFFICES ASSUME PackInv, pack.pc = "fuse"
               PROVE  /\ DOMAIN near = Around(0) \cup Around(1) \cup Around(2)
                      /\ \A l \in DOMAIN near \ Around(0) : near[l] = IF l \in Around(1) THEN 1 ELSE 2
    BY DEF TwoHopIsShortest
  <2>1. Len(request.anchors) \in Nat /\ DOMAIN request.anchors = 1 .. Len(request.anchors)
    BY RetrievalAssumption DEF PackInv, PackShape
  <2>2. pack.at - 1 = Len(request.anchors)
    BY <2>1 DEF PackInv, PackShape
  <2>3. Seen = Around(0)
    BY <2>1, <2>2 DEF Seen, Around, RangeOf
  <2>4. OneHop = Around(1) /\ UNION {Next2(a) : a \in Seen} = Around(2)
    BY <2>3 DEF OneHop, Around
  <2>. QED BY <2>3, <2>4 DEF PackInv, NearSoFar
<1>. QED BY <1>1, <1>2, PackInitially, PackKept, PTL DEF RetrievalSpec, RetrievalIsSound

-----------------------------------------------------------------------------
(* Numbers and finite sets. *)

\* A set of numbers that is not empty has a least one.
LEMMA LeastNumber ==
    ASSUME NEW T, T \subseteq Nat, T # {} PROVE \E x \in T : \A y \in T : x <= y
<1>1. PICK x \in T : \A y \in T : <<y, x>> \notin OpToRel(<, Nat)
    BY WFMin, NatLessThanWellFounded, Zenon
<1>2. \A y \in T : <<y, x>> \in Nat \X Nat => ~ (y < x)
    BY <1>1, Zenon DEF OpToRel
<1>3. \A y \in T : x \in Nat /\ y \in Nat /\ ~ (y < x)
    BY <1>2
<1> QED
    BY <1>3

\* A set without one of its elements.
LEMMA OneLess ==
    ASSUME NEW S, IsFiniteSet(S), NEW x \in S
    PROVE  /\ IsFiniteSet(S \ {x}) /\ Cardinality(S) \in Nat \ {0}
           /\ Cardinality(S \ {x}) = Cardinality(S) - 1
<1>1. IsFiniteSet(S \ {x}) /\ Cardinality(S \ {x}) = Cardinality(S) - 1
    BY FS_RemoveElement
<1>2. Cardinality(S) \in Nat /\ (Cardinality(S) = 0 <=> S = {})
    BY FS_CardinalityType, FS_EmptySet
<1> QED
    BY <1>1, <1>2

-----------------------------------------------------------------------------
(* Conventions: the sums over files and styles. *)

\* g sums the numbers of c over every part of D.
Sums(g, D, c) ==
    /\ g \in [SUBSET D -> Nat] /\ g[{}] = 0 /\ Total(c) = g[D]
    /\ \A S \in SUBSET D : \A x \in S : g[S] = c[x] + g[S \ {x}]

\* Total adds the numbers up in one order; any element may be the next one.
LEMMA TotalSteps ==
    ASSUME NEW D, IsFiniteSet(D), NEW c \in [D -> Nat]
    PROVE  \E g : Sums(g, D, c)
<1> DEFINE Summed(g, S) == IF S = {} THEN 0
                         ELSE LET x == CHOOSE x \in S : TRUE IN c[x] + g[S \ {x}]
           Small(n) == {S \in SUBSET D : Cardinality(S) <= n}
           Unfolds(g, n) == \A S \in Small(n) : g[S] = Summed(g, S)
           T == {n \in Nat : ~\E g \in [Small(n) -> Nat] : Unfolds(g, n)}
<1>1. \A S \in SUBSET D : IsFiniteSet(S) /\ Cardinality(S) \in Nat
    BY FS_Subset, FS_CardinalityType
<1>2. \A S \in SUBSET D : \A x \in S :
        S \ {x} \in SUBSET D /\ Cardinality(S) \in Nat \ {0} /\ Cardinality(S \ {x}) = Cardinality(S) - 1
    BY <1>1, OneLess
<1>3. Cardinality({}) = 0 /\ {} \in SUBSET D /\ \A S \in SUBSET D : Cardinality(S) = 0 => S = {}
    BY <1>1, FS_EmptySet
<1>4. ASSUME NEW n \in T PROVE n # 0 /\ n - 1 \in Nat /\ n - 1 \in T
  <2>1. n # 0
    <3> SUFFICES ASSUME n = 0 PROVE FALSE
        OBVIOUS
    <3>1. \A S \in Small(0) : S = {}
        BY <1>1, <1>3
    <3>2. [S \in Small(0) |-> 0] \in [Small(0) -> Nat] /\ Unfolds([S \in Small(0) |-> 0], 0)
        BY <3>1
    <3> QED
        BY <3>2
  <2>2. n - 1 \in Nat
      BY <2>1
  <2>3. SUFFICES ASSUME NEW g \in [Small(n - 1) -> Nat], Unfolds(g, n - 1)
                 PROVE  FALSE
    <3> HIDE DEF Small, Unfolds
    <3> QED
        BY <2>1, <2>2
  <2> DEFINE h == [S \in Small(n) |-> IF S \in Small(n - 1) THEN g[S] ELSE Summed(g, S)]
  <2>4. \A S \in Small(n) : h[S] = Summed(g, S)
      BY <2>3
  <2>5. ASSUME NEW S \in Small(n), S # {}
        PROVE  LET x == CHOOSE x \in S : TRUE
               IN x \in S /\ S \ {x} \in Small(n - 1) /\ S \ {x} \in Small(n)
    <3> DEFINE x == CHOOSE x \in S : TRUE
    <3>1. x \in S
        BY <2>5
    <3>2. Cardinality(S \ {x}) = Cardinality(S) - 1 /\ S \ {x} \in SUBSET D /\ Cardinality(S) \in Nat /\ Cardinality(S) <= n
        BY <1>2, <3>1
    <3> HIDE DEF x
    <3>3. Cardinality(S \ {x}) <= n - 1 /\ Cardinality(S \ {x}) <= n
        BY <3>2, <2>2
    <3> QED
        BY <3>1, <3>2, <3>3 DEF x
  <2>6. h \in [Small(n) -> Nat]
    <3>1. ASSUME NEW S \in Small(n) PROVE h[S] \in Nat
      <4>1. CASE S = {}
          BY <2>4, <4>1
      <4>2. CASE S # {}
        <5> DEFINE x == CHOOSE x \in S : TRUE
        <5>1. x \in S /\ S \ {x} \in Small(n - 1)
            BY <2>5, <4>2
        <5>2. h[S] = c[x] + g[S \ {x}]
            BY <2>4, <4>2
        <5> HIDE DEF x, h
        <5>3. c[x] \in Nat /\ g[S \ {x}] \in Nat
            BY <5>1
        <5> QED
            BY <5>2, <5>3
      <4> QED
          BY <4>1, <4>2
    <3> QED
        BY <3>1
  <2>7. Unfolds(h, n)
    <3> SUFFICES ASSUME NEW S \in Small(n) PROVE h[S] = Summed(h, S)
        OBVIOUS
    <3>1. CASE S = {}
        BY <2>4, <3>1
    <3>2. CASE S # {}
      <4> DEFINE x == CHOOSE x \in S : TRUE
      <4>1. x \in S /\ S \ {x} \in Small(n - 1) /\ S \ {x} \in Small(n)
          BY <2>5, <3>2
      <4>2. h[S \ {x}] = g[S \ {x}]
          BY <4>1
      <4> QED
          BY <2>4, <3>2, <4>2
    <3> QED
        BY <3>1, <3>2
  <2> HIDE DEF h
  <2> QED
      BY <2>6, <2>7
<1>5. T = {}
  <2> SUFFICES ASSUME T # {} PROVE FALSE
      OBVIOUS
  <2>1. T \subseteq Nat
      OBVIOUS
  <2>2. PICK n \in T : \A y \in T : n <= y
    <3> HIDE DEF T
    <3> QED
        BY <2>1, LeastNumber
  <2>3. n \in Nat /\ n - 1 \in T
      BY <1>4
  <2> HIDE DEF T
  <2> QED
      BY <2>2, <2>3
<1> DEFINE body(f) == [S \in SUBSET D |-> Summed(f, S)]
           fl == CHOOSE f : f = body(f)
<1>6. \E g : g = body(g)
  <2>1. Small(Cardinality(D)) = SUBSET D
      BY FS_Subset
  <2>2. Cardinality(D) \in Nat
      BY FS_CardinalityType
  <2>3. PICK g \in [Small(Cardinality(D)) -> Nat] : Unfolds(g, Cardinality(D))
    <3>1. Cardinality(D) \notin T
        BY <1>5
    <3>2. Cardinality(D) \in Nat /\ ~(\E g \in [Small(Cardinality(D)) -> Nat] : Unfolds(g, Cardinality(D))) =>
            Cardinality(D) \in T
        OBVIOUS
    <3> HIDE DEF Small, Unfolds, T
    <3> QED
        BY <2>2, <3>1, <3>2
  <2>4. g \in [SUBSET D -> Nat] /\ \A S \in SUBSET D : g[S] = Summed(g, S)
      BY <2>1, <2>3
  <2>5. DOMAIN g = SUBSET D /\ g = [S \in SUBSET D |-> g[S]]
      BY <2>4
  <2> HIDE DEF Next
  <2>6. g = body(g)
      BY <2>4, <2>5
  <2> QED
      BY <2>6
<1>7. fl = body(fl)
    BY <1>6
<1>8. Total(c) = fl[D]
    BY DEF Total
<1> HIDE DEF fl
<1>9. \A S \in SUBSET D : fl[S] = Summed(fl, S)
    BY <1>7
<1>10. fl[{}] = 0
    BY <1>3, <1>9
<1> DEFINE Good(S) == fl[S] \in Nat /\ \A x \in S : fl[S] = c[x] + fl[S \ {x}]
           U == {n \in Nat : \E S \in SUBSET D : Cardinality(S) = n /\ ~Good(S)}
<1>11. ASSUME NEW S \in SUBSET D, \A R \in SUBSET D : Cardinality(R) < Cardinality(S) => Good(R)
       PROVE  Good(S)
  <2>1. CASE S = {}
      BY <1>10, <2>1
  <2>2. CASE S # {}
    <3> DEFINE y == CHOOSE x \in S : TRUE
    <3>1. y \in S
        BY <2>2
    <3>2. fl[S] = c[y] + fl[S \ {y}]
        BY <1>9, <2>2
    <3> HIDE DEF y
    <3>3. ASSUME NEW x \in S PROVE S \ {x} \in SUBSET D /\ Good(S \ {x})
        BY <1>2, <1>11
    <3> HIDE DEF U
    <3>4. fl[S] \in Nat
      <4>1. fl[S \ {y}] \in Nat /\ c[y] \in Nat
          BY <3>1, <3>3
      <4> QED
          BY <3>2, <4>1
    <3>5. ASSUME NEW x \in S, x # y PROVE fl[S] = c[x] + fl[S \ {x}]
      <4>1. x \in S \ {y} /\ y \in S \ {x} /\ (S \ {y}) \ {x} = (S \ {x}) \ {y}
          BY <3>1, <3>5
      <4>2. fl[S \ {y}] = c[x] + fl[(S \ {y}) \ {x}] /\ fl[S \ {x}] = c[y] + fl[(S \ {x}) \ {y}]
          BY <3>1, <3>3, <4>1
      <4>3. Good((S \ {y}) \ {x})
        <5>1. (S \ {y}) \ {x} \in SUBSET D
            OBVIOUS
        <5>2. /\ Cardinality(S \ {y}) = Cardinality(S) - 1 /\ Cardinality(S) \in Nat
              /\ Cardinality((S \ {y}) \ {x}) = Cardinality(S \ {y}) - 1
            BY <1>2, <3>1, <3>3, <4>1
        <5>3. Cardinality((S \ {y}) \ {x}) < Cardinality(S)
            BY <5>2
        <5> QED
            BY <1>11, <5>1, <5>3
      <4>4. fl[(S \ {y}) \ {x}] \in Nat /\ c[x] \in Nat /\ c[y] \in Nat
          BY <3>1, <4>3
      <4> DEFINE r == fl[(S \ {y}) \ {x}]
      <4>5. fl[S] = c[y] + (c[x] + r) /\ fl[S \ {x}] = c[y] + r /\ r \in Nat
          BY <3>2, <4>1, <4>2, <4>4
      <4> HIDE DEF r
      <4> QED
          BY <4>4, <4>5
    <3> QED
        BY <3>2, <3>4, <3>5
  <2> QED
      BY <2>1, <2>2
<1>12. U = {}
  <2> SUFFICES ASSUME U # {} PROVE FALSE
      OBVIOUS
  <2>1. U \subseteq Nat
      OBVIOUS
  <2>2. PICK n \in U : \A y \in U : n <= y
    <3> HIDE DEF U
    <3> QED
        BY <2>1, LeastNumber
  <2>3. PICK S \in SUBSET D : Cardinality(S) = n /\ ~Good(S)
      BY <2>2
  <2>4. PICK R \in SUBSET D : Cardinality(R) < Cardinality(S) /\ ~Good(R)
    <3> HIDE DEF Good
    <3> QED
        BY <1>11, <2>3
  <2>5. Cardinality(R) \in U /\ Cardinality(R) \in Nat /\ n \in Nat
      BY <1>1, <2>4
  <2> HIDE DEF U
  <2> QED
      BY <2>2, <2>3, <2>4, <2>5
<1>13. \A S \in SUBSET D : Good(S)
    BY <1>1, <1>12
<1>14. DOMAIN fl = SUBSET D /\ fl = [S \in SUBSET D |-> fl[S]]
    BY <1>7
<1>15. fl \in [SUBSET D -> Nat]
    BY <1>13, <1>14
<1> QED
    BY <1>8, <1>10, <1>13, <1>15 DEF Sums

\* Sums that are equal element by element.
LEMMA TotalAdds ==
    ASSUME NEW D, IsFiniteSet(D), NEW a \in [D -> Nat], NEW b \in [D -> Nat], NEW c \in [D -> Nat],
           \A x \in D : a[x] + b[x] = c[x]
    PROVE  /\ Total(a) \in Nat /\ Total(b) \in Nat /\ Total(c) \in Nat
           /\ Total(a) + Total(b) = Total(c)
<1>1. PICK g : Sums(g, D, a)
    BY TotalSteps, Zenon
<1>2. PICK h : Sums(h, D, b)
    BY TotalSteps, Zenon
<1>3. PICK k : Sums(k, D, c)
    BY TotalSteps, Zenon
<1> DEFINE U == {n \in Nat : \E S \in SUBSET D : Cardinality(S) = n /\ g[S] + h[S] # k[S]}
<1>4. U = {}
  <2> SUFFICES ASSUME U # {} PROVE FALSE
      OBVIOUS
  <2>1. U \subseteq Nat
      OBVIOUS
  <2>2. PICK n \in U : \A y \in U : n <= y
    <3> HIDE DEF U
    <3> QED
        BY <2>1, LeastNumber
  <2>3. PICK S \in SUBSET D : Cardinality(S) = n /\ g[S] + h[S] # k[S]
      BY <2>2
  <2>4. PICK x \in S : TRUE
    <3>1. g[{}] = 0 /\ h[{}] = 0 /\ k[{}] = 0
        BY <1>1, <1>2, <1>3, Zenon DEF Sums
    <3>2. S # {}
        BY <2>3, <3>1
    <3> QED
        BY <3>2
  <2>5. S \ {x} \in SUBSET D /\ IsFiniteSet(S)
    <3>1. S \subseteq D
        OBVIOUS
    <3> QED
        BY <3>1, FS_Subset
  <2>6. Cardinality(S \ {x}) = n - 1 /\ n - 1 \in Nat /\ n \in Nat
      BY <2>3, <2>4, <2>5, OneLess
  <2>7. g[S \ {x}] + h[S \ {x}] = k[S \ {x}]
    <3>1. n - 1 \notin U
      <4> HIDE DEF U
      <4> QED
          BY <2>2, <2>6
    <3> QED
        BY <2>5, <2>6, <3>1
  <2>8. /\ g[S] = a[x] + g[S \ {x}] /\ h[S] = b[x] + h[S \ {x}] /\ k[S] = c[x] + k[S \ {x}]
        /\ x \in D
      BY <1>1, <1>2, <1>3, <2>4 DEF Sums
  <2>9. g[S \ {x}] \in Nat /\ h[S \ {x}] \in Nat /\ k[S \ {x}] \in Nat
      BY <1>1, <1>2, <1>3, <2>5 DEF Sums
  <2>10. a[x] \in Nat /\ b[x] \in Nat /\ a[x] + b[x] = c[x]
      BY <2>8
  <2> HIDE DEF U
  <2> QED
      BY <2>3, <2>7, <2>8, <2>9, <2>10
<1>5. Cardinality(D) \in Nat /\ D \in SUBSET D
    BY FS_CardinalityType
<1>6. g[D] + h[D] = k[D] /\ g[D] \in Nat /\ h[D] \in Nat /\ k[D] \in Nat
    BY <1>1, <1>2, <1>3, <1>4, <1>5 DEF Sums
<1> QED
    BY <1>1, <1>2, <1>3, <1>6 DEF Sums

\* A sum of numbers that are not greater is not greater.
LEMMA TotalMonotone ==
    ASSUME NEW D, IsFiniteSet(D), NEW a \in [D -> Nat], NEW b \in [D -> Nat],
           \A x \in D : a[x] <= b[x]
    PROVE  Total(a) \in Nat /\ Total(b) \in Nat /\ Total(a) <= Total(b)
<1> DEFINE d == [x \in D |-> b[x] - a[x]]
<1>1. ASSUME NEW x \in D PROVE d[x] \in Nat /\ a[x] + d[x] = b[x]
    BY <1>1
<1>2. d \in [D -> Nat]
    BY <1>1
<1> HIDE DEF d
<1>3. Total(a) \in Nat /\ Total(d) \in Nat /\ Total(b) \in Nat /\ Total(a) + Total(d) = Total(b)
    BY <1>1, <1>2, TotalAdds
<1> QED
    BY <1>3

\* The sum of zeros.
LEMMA TotalOfZeros ==
    ASSUME NEW D, IsFiniteSet(D), NEW a \in [D -> Nat], \A x \in D : a[x] = 0
    PROVE  Total(a) = 0
<1> DEFINE b == [x \in D |-> 0]
<1>1. b \in [D -> Nat] /\ a = b /\ \A x \in D : a[x] + b[x] = a[x]
    OBVIOUS
<1> HIDE DEF b
<1>2. /\ Total(a) \in Nat /\ Total(b) \in Nat /\ Total(a) \in Nat
      /\ Total(a) + Total(b) = Total(a)
    BY <1>1, TotalAdds
<1>3. Total(b) = 0
    BY <1>2
<1> QED
    BY <1>1, <1>3, Zenon

\* A sum one of whose numbers grows.
LEMMA TotalGrows ==
    ASSUME NEW D, IsFiniteSet(D), NEW a \in [D -> Nat], NEW b \in [D -> Nat], NEW f \in D, NEW k \in Nat,
           b[f] = a[f] + k, \A x \in D : x # f => b[x] = a[x]
    PROVE  Total(a) \in Nat /\ Total(b) = Total(a) + k
<1> DEFINE z == [x \in D |-> IF x = f THEN 0 ELSE a[x]]
<1>1. z \in [D -> Nat]
    OBVIOUS
<1> DEFINE Rest(w) == \A x \in D : x # f => w[x] = z[x]
<1>2. ASSUME NEW w \in [D -> Nat], Rest(w) PROVE Total(w) = w[f] + Total(z) /\ Total(z) \in Nat
  <2> DEFINE o == [x \in D |-> IF x = f THEN w[f] ELSE 0]
  <2>1. o \in [D -> Nat] /\ \A x \in D : o[x] + z[x] = w[x]
      BY <1>1, <1>2
  <2>2. PICK g : Sums(g, D, o)
    <3> HIDE DEF o
    <3> QED
        BY <2>1, TotalSteps, Zenon
  <2> DEFINE U == {n \in Nat : \E S \in SUBSET D : Cardinality(S) = n /\ f \notin S /\ g[S] # 0}
  <2>3. U = {}
    <3> SUFFICES ASSUME U # {} PROVE FALSE
        OBVIOUS
    <3>1. U \subseteq Nat
        OBVIOUS
    <3>2. PICK n \in U : \A y \in U : n <= y
      <4> HIDE DEF U
      <4> QED
          BY <3>1, LeastNumber
    <3>3. PICK S \in SUBSET D : Cardinality(S) = n /\ f \notin S /\ g[S] # 0
        BY <3>2
    <3>4. PICK x \in S : TRUE
        BY <2>2, <3>3 DEF Sums
    <3>5. S \ {x} \in SUBSET D /\ IsFiniteSet(S)
        BY FS_Subset
    <3>6. Cardinality(S \ {x}) = n - 1 /\ n - 1 \in Nat /\ n \in Nat
        BY <3>3, <3>4, <3>5, OneLess
    <3>7. n - 1 \notin U
      <4> HIDE DEF U
      <4> QED
          BY <3>2, <3>6
    <3>8. g[S \ {x}] = 0
        BY <3>3, <3>5, <3>6, <3>7
    <3>9. g[S] = o[x] + g[S \ {x}] /\ o[x] = 0
        BY <2>2, <3>3, <3>4 DEF Sums
    <3> HIDE DEF U
    <3> QED
        BY <3>3, <3>8, <3>9
  <2>4. D \ {f} \in SUBSET D /\ IsFiniteSet(D \ {f})
      BY FS_Subset
  <2>5. Cardinality(D \ {f}) \in Nat
      BY <2>4, FS_CardinalityType
  <2>6. g[D \ {f}] = 0
      BY <2>3, <2>4, <2>5
  <2>7. g[D] = o[f] + g[D \ {f}]
      BY <2>2 DEF Sums
  <2>8. Total(o) = w[f]
    <3>1. o[f] = w[f] /\ w[f] \in Nat
        OBVIOUS
    <3> HIDE DEF o
    <3> QED
        BY <2>2, <2>6, <2>7, <3>1 DEF Sums
  <2> HIDE DEF o, z
  <2>9. /\ Total(o) \in Nat /\ Total(z) \in Nat /\ Total(w) \in Nat
        /\ Total(o) + Total(z) = Total(w)
      BY <1>1, <2>1, TotalAdds
  <2> QED
      BY <2>8, <2>9
<1>3. Rest(a) /\ Rest(b) /\ b[f] = a[f] + k
    OBVIOUS
<1> HIDE DEF z
<1>4. Total(a) = a[f] + Total(z) /\ Total(b) = b[f] + Total(z) /\ Total(z) \in Nat
    BY <1>1, <1>2, <1>3
<1>5. a[f] \in Nat
    OBVIOUS
<1> QED
    BY <1>3, <1>4, <1>5

\* The five styles one by one.
LEMMA TotalOfStyles ==
    ASSUME NEW c \in [NamingStyles -> Nat]
    PROVE  Total(c) = c["camelCase"] + c["snake_case"] + c["PascalCase"] + c["SCREAMING_SNAKE"] + c["mixed"]
<1> DEFINE s1 == {"mixed"}  s2 == {"mixed", "SCREAMING_SNAKE"}
           s3 == {"mixed", "SCREAMING_SNAKE", "PascalCase"}
           s4 == {"mixed", "SCREAMING_SNAKE", "PascalCase", "snake_case"}
<1>1. IsFiniteSet(NamingStyles)
  <2>1. IsFiniteSet({"camelCase"})
      BY FS_Singleton
  <2>2. IsFiniteSet({"camelCase", "snake_case"})
      BY <2>1, FS_AddElement
  <2>3. IsFiniteSet({"camelCase", "snake_case", "PascalCase"})
      BY <2>2, FS_AddElement
  <2>4. IsFiniteSet({"camelCase", "snake_case", "PascalCase", "SCREAMING_SNAKE"})
      BY <2>3, FS_AddElement
  <2>5. IsFiniteSet({"camelCase", "snake_case", "PascalCase", "SCREAMING_SNAKE", "mixed"})
      BY <2>4, FS_AddElement
  <2> QED
      BY <2>5 DEF NamingStyles
<1>2. PICK g : Sums(g, NamingStyles, c)
    BY <1>1, TotalSteps, Zenon
<1>3. /\ NamingStyles \ {"camelCase"} = s4 /\ s4 \ {"snake_case"} = s3
      /\ s3 \ {"PascalCase"} = s2 /\ s2 \ {"SCREAMING_SNAKE"} = s1 /\ s1 \ {"mixed"} = {}
    BY DEF NamingStyles
<1>4. /\ s4 \in SUBSET NamingStyles /\ s3 \in SUBSET NamingStyles
      /\ s2 \in SUBSET NamingStyles /\ s1 \in SUBSET NamingStyles /\ NamingStyles \in SUBSET NamingStyles
    BY DEF NamingStyles
<1>5. /\ "camelCase" \in NamingStyles /\ "snake_case" \in s4
      /\ "PascalCase" \in s3 /\ "SCREAMING_SNAKE" \in s2 /\ "mixed" \in s1
    BY DEF NamingStyles
<1>6. \A y \in {"camelCase", "snake_case", "PascalCase", "SCREAMING_SNAKE", "mixed"} : c[y] \in Nat
    BY DEF NamingStyles
<1> HIDE DEF s1, s2, s3, s4
<1>7. g[NamingStyles] = c["camelCase"] + g[s4]
    BY <1>2, <1>3, <1>4, <1>5, Zenon DEF Sums
<1>8. g[s4] = c["snake_case"] + g[s3]
    BY <1>2, <1>3, <1>4, <1>5, Zenon DEF Sums
<1>9. g[s3] = c["PascalCase"] + g[s2]
    BY <1>2, <1>3, <1>4, <1>5, Zenon DEF Sums
<1>10. g[s2] = c["SCREAMING_SNAKE"] + g[s1]
    BY <1>2, <1>3, <1>4, <1>5, Zenon DEF Sums
<1>11. g[s1] = c["mixed"] + g[{}]
  <2>1. g[s1] = c["mixed"] + g[s1 \ {"mixed"}]
      BY <1>2, <1>4, <1>5 DEF Sums
  <2> QED
      BY <1>3, <2>1
<1>12. g[{}] = 0 /\ Total(c) = g[NamingStyles]
    BY <1>2 DEF Sums
<1> QED
    BY <1>6, <1>7, <1>8, <1>9, <1>10, <1>11, <1>12

-----------------------------------------------------------------------------
(* Conventions: learning and checking. *)

\* A name is of one of the five styles.
LEMMA StyleIsOne ==
    ASSUME NEW name PROVE ClassifyName(name) \in NamingStyles
BY DEF ClassifyName, NamingStyles

\* The functions of a file are finitely many.
LEMMA FunctionsFinite ==
    ASSUME NEW f \in DOMAIN SourceFiles, NEW s \in NamingScopes
    PROVE  /\ IsFiniteSet(NamesIn(SourceFiles[f], s))
           /\ \A P \in SUBSET NamesIn(SourceFiles[f], s) : IsFiniteSet(P) /\ Cardinality(P) \in Nat
<1>1. IsFiniteSet(DOMAIN SourceFiles[f].decls)
    BY ConventionAssumption
<1>2. NamesIn(SourceFiles[f], s) \subseteq DOMAIN SourceFiles[f].decls
    BY DEF NamesIn
<1>3. IsFiniteSet(NamesIn(SourceFiles[f], s))
    BY <1>1, <1>2, FS_Subset
<1> QED
    BY <1>3, FS_Subset, FS_CardinalityType

\* Each of its names is of one style.
LEMMA NamesByStyle ==
    ASSUME NEW f \in DOMAIN SourceFiles, NEW s \in NamingScopes
    PROVE  LET n(y) == NumberOf(SourceFiles[f], s, y)
           IN  /\ \A y \in NamingStyles : n(y) \in Nat
               /\ Cardinality(NamesIn(SourceFiles[f], s)) =
                    n("camelCase") + n("snake_case") + n("PascalCase") + n("SCREAMING_SNAKE") + n("mixed")
<1> DEFINE N == NamesIn(SourceFiles[f], s)
           Of(y) == {i \in N : StyleAt(SourceFiles[f], i) = y}
           Rest(Y) == {i \in N : StyleAt(SourceFiles[f], i) \notin Y}
<1>1. \A P \in SUBSET N : IsFiniteSet(P) /\ Cardinality(P) \in Nat
    BY FunctionsFinite
<1>2. \A y \in NamingStyles : NumberOf(SourceFiles[f], s, y) = Cardinality(Of(y))
    BY DEF NumberOf
<1>3. ASSUME NEW Y, NEW y, y \notin Y
      PROVE  Cardinality(Rest(Y)) = Cardinality(Of(y)) + Cardinality(Rest(Y \cup {y}))
  <2>1. Rest(Y) = Of(y) \cup Rest(Y \cup {y}) /\ Of(y) \cap Rest(Y \cup {y}) = {}
      BY <1>3
  <2>2. IsFiniteSet(Of(y)) /\ IsFiniteSet(Rest(Y \cup {y}))
      BY <1>1
  <2> HIDE DEF Of, Rest
  <2>3. Cardinality(Of(y) \cup Rest(Y \cup {y})) =
          Cardinality(Of(y)) + Cardinality(Rest(Y \cup {y})) - Cardinality(Of(y) \cap Rest(Y \cup {y}))
      BY <2>2, FS_Union
  <2>4. Cardinality({}) = 0 /\ Cardinality(Of(y)) \in Nat /\ Cardinality(Rest(Y \cup {y})) \in Nat
      BY <2>2, FS_EmptySet, FS_CardinalityType
  <2>5. Cardinality(Of(y) \cap Rest(Y \cup {y})) = 0
      BY <2>1, <2>4
  <2>6. Cardinality(Rest(Y)) = Cardinality(Of(y) \cup Rest(Y \cup {y}))
      BY <2>1, Zenon
  <2> QED
      BY <2>3, <2>4, <2>5, <2>6
<1> DEFINE Y1 == {"camelCase"}  Y2 == Y1 \cup {"snake_case"}  Y3 == Y2 \cup {"PascalCase"}
           Y4 == Y3 \cup {"SCREAMING_SNAKE"}  Y5 == Y4 \cup {"mixed"}
<1>4. /\ "camelCase" \notin {} /\ {} \cup {"camelCase"} = Y1 /\ "snake_case" \notin Y1
      /\ "PascalCase" \notin Y2 /\ "SCREAMING_SNAKE" \notin Y3 /\ "mixed" \notin Y4
    OBVIOUS
<1>5. Rest({}) = N
    OBVIOUS
<1>6. Rest(Y5) = {}
    BY StyleIsOne DEF StyleAt, NamingStyles
<1>7. Cardinality({}) = 0
    BY FS_EmptySet
<1>8. \A y \in NamingStyles : Cardinality(Of(y)) \in Nat
    BY <1>1
<1> HIDE DEF Of, Rest, N, Y1, Y2, Y3, Y4, Y5
<1>9. Cardinality(N) = Cardinality(Of("camelCase")) + Cardinality(Rest(Y1))
    BY <1>3, <1>4, <1>5
<1>10. Cardinality(Rest(Y1)) = Cardinality(Of("snake_case")) + Cardinality(Rest(Y2))
    BY <1>3, <1>4 DEF Y2
<1>11. Cardinality(Rest(Y2)) = Cardinality(Of("PascalCase")) + Cardinality(Rest(Y3))
    BY <1>3, <1>4 DEF Y3
<1>12. Cardinality(Rest(Y3)) = Cardinality(Of("SCREAMING_SNAKE")) + Cardinality(Rest(Y4))
    BY <1>3, <1>4 DEF Y4
<1>13. Cardinality(Rest(Y4)) = Cardinality(Of("mixed")) + Cardinality(Rest(Y5))
    BY <1>3, <1>4 DEF Y5
<1>14. {"camelCase", "snake_case", "PascalCase", "SCREAMING_SNAKE", "mixed"} = NamingStyles
    BY DEF NamingStyles
<1>15. /\ Cardinality(Of("camelCase")) \in Nat /\ Cardinality(Of("snake_case")) \in Nat
       /\ Cardinality(Of("PascalCase")) \in Nat /\ Cardinality(Of("SCREAMING_SNAKE")) \in Nat
       /\ Cardinality(Of("mixed")) \in Nat
    BY <1>8, <1>14
<1>16. Cardinality(Rest(Y5)) = 0
    BY <1>6, <1>7
<1>17. Cardinality(N) = Cardinality(Of("camelCase")) + Cardinality(Of("snake_case"))
         + Cardinality(Of("PascalCase")) + Cardinality(Of("SCREAMING_SNAKE")) + Cardinality(Of("mixed"))
    BY <1>9, <1>10, <1>11, <1>12, <1>13, <1>15, <1>16
<1>18. /\ NumberOf(SourceFiles[f], s, "camelCase") = Cardinality(Of("camelCase"))
       /\ NumberOf(SourceFiles[f], s, "snake_case") = Cardinality(Of("snake_case"))
       /\ NumberOf(SourceFiles[f], s, "PascalCase") = Cardinality(Of("PascalCase"))
       /\ NumberOf(SourceFiles[f], s, "SCREAMING_SNAKE") = Cardinality(Of("SCREAMING_SNAKE"))
       /\ NumberOf(SourceFiles[f], s, "mixed") = Cardinality(Of("mixed"))
    BY <1>2, <1>14
<1> QED
    BY <1>2, <1>8, <1>17, <1>18 DEF N

\* Observing a file adds its names to the counters and leaves the shape of them.
LEMMA ObserveCounts ==
    ASSUME NEW l, NEW file, "naming" \in DOMAIN l
    PROVE  "naming" \in DOMAIN Observe(l, file) /\ Observe(l, file).naming = ObserveNaming(l.naming, file)
<1> DEFINE l1 == [l EXCEPT !.naming = ObserveNaming(@, file)]
           l2 == ObserveTests(l1, file)
           l3 == ObserveScript(l2, file)
<1>1. "naming" \in DOMAIN l1 /\ l1.naming = ObserveNaming(l.naming, file)
    OBVIOUS
<1> HIDE DEF l1
<1>2. "naming" \in DOMAIN l2 /\ l2.naming = l1.naming
    BY <1>1 DEF ObserveTests
<1> HIDE DEF l2
<1>3. "naming" \in DOMAIN l3 /\ l3.naming = l2.naming
    BY <1>2 DEF ObserveScript
<1> HIDE DEF l3
<1>4. "naming" \in DOMAIN ObserveErrors(l3, file) /\ ObserveErrors(l3, file).naming = l3.naming
    BY <1>3 DEF ObserveErrors
<1> QED
    BY <1>1, <1>2, <1>3, <1>4 DEF Observe, l1, l2, l3

\* A number of times a sum.
LEMMA TimesBoth ==
    ASSUME NEW k \in Nat, NEW a \in Nat, NEW b \in Nat
    PROVE  /\ k * a \in Nat /\ k * (a + b) = k * a + k * b /\ (k + 1) * a = k * a + a
           /\ (a <= b => k * a <= k * b)
<1>1. k * a \in Nat /\ k * (a + b) = k * a + k * b /\ (k + 1) * a = k * a + a
    OBVIOUS
<1>2. ASSUME a <= b PROVE k * a <= k * b
  <2>1. b - a \in Nat /\ b = a + (b - a)
      BY <1>2
  <2>2. k * (a + (b - a)) = k * a + k * (b - a)
      BY <2>1
  <2>3. k * (b - a) \in Nat /\ k * a \in Nat
      BY <2>1
  <2> QED
      BY <2>1, <2>2, <2>3
<1> QED
    BY <1>1, <1>2

\* What the counters sum up are numbers.
LEMMA TimesIsNumbers ==
    ASSUME NEW o \in [DOMAIN SourceFiles -> Nat], NEW y \in NamingStyles
    PROVE  /\ Shown(y) \in [DOMAIN SourceFiles -> Nat]
           /\ [f \in DOMAIN SourceFiles |-> o[f] * Shown(y)[f]] \in [DOMAIN SourceFiles -> Nat]
<1>1. ASSUME NEW f \in DOMAIN SourceFiles PROVE Shown(y)[f] \in Nat /\ o[f] * Shown(y)[f] \in Nat
  <2>1. "function" \in NamingScopes
      BY DEF NamingScopes
  <2>2. NumberOf(SourceFiles[f], "function", y) \in Nat
      BY <2>1, NamesByStyle
  <2>3. Shown(y)[f] = NumberOf(SourceFiles[f], "function", y) /\ o[f] \in Nat
      BY DEF Shown
  <2> QED
      BY <2>2, <2>3, TimesBoth
<1>2. Shown(y) = [f \in DOMAIN SourceFiles |-> Shown(y)[f]]
    BY DEF Shown
<1> QED
    BY <1>1, <1>2

\* All names of a style, when every file was observed as often as o says.
AllShown(o, y) == Total([x \in DOMAIN SourceFiles |-> o[x] * Shown(y)[x]])

\* A file that is observed once more adds its names.
LEMMA OnceMore ==
    ASSUME NEW o \in [DOMAIN SourceFiles -> Nat], NEW f \in DOMAIN SourceFiles, NEW y \in NamingStyles,
           NEW p, p = [o EXCEPT ![f] = @ + 1]
    PROVE  AllShown(p, y) = AllShown(o, y) + NumberOf(SourceFiles[f], "function", y)
<1> DEFINE D == DOMAIN SourceFiles
           k == Shown(y)[f]
           a == [x \in D |-> o[x] * Shown(y)[x]]
           b == [x \in D |-> p[x] * Shown(y)[x]]
<1>1. k = NumberOf(SourceFiles[f], "function", y)
    BY DEF Shown
<1>2. p \in [D -> Nat] /\ IsFiniteSet(D)
    BY ConventionAssumption
<1>3. Shown(y) \in [D -> Nat] /\ a \in [D -> Nat] /\ b \in [D -> Nat]
    BY <1>2, TimesIsNumbers
<1>4. k \in Nat
    BY <1>3
<1>5. ASSUME NEW x \in D PROVE b[x] = a[x] + IF x = f THEN k ELSE 0
  <2> DEFINE s == Shown(y)[x]  n == o[x]
  <2>1. n \in Nat /\ s \in Nat /\ a[x] = n * s /\ b[x] = p[x] * s
      BY <1>3
  <2>2. p[x] = IF x = f THEN n + 1 ELSE n
      OBVIOUS
  <2>3. x = f => k = s
      OBVIOUS
  <2> HIDE DEF a, b, s, n, k
  <2>4. (n + 1) * s = n * s + s /\ n * s \in Nat
      BY <2>1, TimesBoth
  <2>5. CASE x = f
      BY <2>1, <2>2, <2>3, <2>4, <2>5
  <2>6. CASE x # f
      BY <2>1, <2>2, <2>4, <2>6
  <2> QED
      BY <2>5, <2>6
<1> HIDE DEF a, b, k, D
<1>6. f \in D /\ b[f] = a[f] + k /\ \A x \in D : x # f => b[x] = a[x]
  <2>1. f \in D /\ a \in [D -> Nat] /\ k \in Nat
      BY <1>3, <1>4 DEF D
  <2> QED
      BY <1>5, <2>1
<1>7. Total(a) \in Nat /\ Total(b) = Total(a) + k
    BY <1>2, <1>3, <1>4, <1>6, TotalGrows
<1> QED
    BY <1>1, <1>7 DEF a, b, D, AllShown

\* The counters are the sums of what was observed.
LEMMA CountersAreSums == ConventionSpec => []ConventionInv
<1>1. ConventionInit => ConventionInv
  <2> SUFFICES ASSUME ConventionInit PROVE ConventionInv
      OBVIOUS
  <2>1. /\ learner.naming = [s \in NamingScopes |-> Zero(NamingStyles)] /\ "naming" \in DOMAIN learner
        /\ observed = Zero(DOMAIN SourceFiles)
      BY DEF ConventionInit
  <2>2. observed \in [DOMAIN SourceFiles -> Nat] /\ learner.naming \in [NamingScopes -> [NamingStyles -> Nat]]
      BY <2>1 DEF Zero
  <2>3. ASSUME NEW y \in NamingStyles PROVE learner.naming["function"][y] = Total(Times(Shown(y)))
    <3>1. learner.naming["function"][y] = 0
        BY <2>1 DEF Zero, NamingScopes
    <3>2. Shown(y) \in [DOMAIN SourceFiles -> Nat] /\ Times(Shown(y)) \in [DOMAIN SourceFiles -> Nat]
        BY <2>2, TimesIsNumbers DEF Times
    <3>3. \A f \in DOMAIN SourceFiles : Times(Shown(y))[f] = 0
      <4>1. \A f \in DOMAIN SourceFiles : observed[f] = 0 /\ Shown(y)[f] \in Nat
          BY <2>1, <3>2 DEF Zero
      <4> QED
          BY <4>1 DEF Times
    <3>4. Total(Times(Shown(y))) = 0
        BY <3>2, <3>3, ConventionAssumption, TotalOfZeros
    <3> QED
        BY <3>1, <3>4
  <2> QED
      BY <2>1, <2>2, <2>3 DEF ConventionInv
<1>2. ConventionInv /\ [ConventionNext]_conventionVars => ConventionInv'
  <2> SUFFICES ASSUME ConventionInv, [ConventionNext]_conventionVars PROVE ConventionInv'
      OBVIOUS
  <2>1. ASSUME NEW f \in DOMAIN SourceFiles, ObserveFile(f) PROVE ConventionInv'
    <3> DEFINE file == SourceFiles[f]
    <3>1. learner' = Observe(learner, file) /\ observed' = [observed EXCEPT ![f] = @ + 1]
        BY <2>1 DEF ObserveFile
    <3>2. "naming" \in DOMAIN learner' /\ learner'.naming = ObserveNaming(learner.naming, file)
        BY <3>1, ObserveCounts DEF ConventionInv
    <3>3. observed' \in [DOMAIN SourceFiles -> Nat] /\ observed \in [DOMAIN SourceFiles -> Nat]
        BY <3>1 DEF ConventionInv
    <3>4. ASSUME NEW s \in NamingScopes, NEW y \in NamingStyles
          PROVE  /\ learner'.naming[s][y] = learner.naming[s][y] + NumberOf(file, s, y)
                 /\ learner.naming[s][y] \in Nat /\ NumberOf(file, s, y) \in Nat
      <4>1. learner'.naming[s][y] = learner.naming[s][y] + NumberOf(file, s, y)
          BY <3>2 DEF ObserveNaming
      <4>2. learner.naming[s][y] \in Nat
          BY DEF ConventionInv
      <4>3. NumberOf(file, s, y) \in Nat
          BY NamesByStyle
      <4> QED
          BY <4>1, <4>2, <4>3
    <3>5. learner'.naming \in [NamingScopes -> [NamingStyles -> Nat]]
      <4>1. learner'.naming = [s \in NamingScopes |-> [y \in NamingStyles |-> learner.naming[s][y] + NumberOf(file, s, y)]]
          BY <3>2 DEF ObserveNaming
      <4>2. \A s \in NamingScopes, y \in NamingStyles : learner.naming[s][y] + NumberOf(file, s, y) \in Nat
          BY <3>4
      <4> QED
          BY <4>1, <4>2
    <3>6. ASSUME NEW y \in NamingStyles PROVE learner'.naming["function"][y] = Total(Times(Shown(y)))'
      <4>1. "function" \in NamingScopes
          BY DEF NamingScopes
      <4>2. learner'.naming["function"][y] = learner.naming["function"][y] + NumberOf(file, "function", y)
          BY <3>4, <4>1
      <4>3. learner.naming["function"][y] = AllShown(observed, y)
          BY DEF ConventionInv, Times, AllShown
      <4>4. Total(Times(Shown(y)))' = AllShown(observed', y)
          BY DEF Times, Shown, AllShown
      <4>5. AllShown(observed', y) = AllShown(observed, y) + NumberOf(file, "function", y)
        <5>1. observed' = [observed EXCEPT ![f] = @ + 1] /\ observed \in [DOMAIN SourceFiles -> Nat]
            BY <3>1, <3>3
        <5> QED
            BY <5>1, OnceMore, Zenon
      <4> QED
          BY <4>2, <4>3, <4>4, <4>5, Zenon
    <3> QED
        BY <3>2, <3>3, <3>5, <3>6 DEF ConventionInv
  <2>2. CASE UNCHANGED conventionVars
      BY <2>2 DEF conventionVars, ConventionInv, Times, Shown
  <2> QED
      BY <2>1, <2>2 DEF ConventionNext
<1> QED
    BY <1>1, <1>2, PTL DEF ConventionSpec

\* The style of functions is the strong one among its counters.
LEMMA StylesAreStrong ==
    ASSUME NEW l PROVE FunctionStyles(l) = Strong(l.naming["function"])
<1>1. ASSUME NEW x \in InferConventions(l), x.kind = "naming", x.scope = "function"
      PROVE  x.prefers \in Strong(l.naming["function"])
  <2>1. x \in InferNaming(l)
    <3>1. x \notin InferTests(l)
      <4> SUFFICES ASSUME x \in InferTests(l) PROVE FALSE
          OBVIOUS
      <4>1. PICK u, t : x = [kind |-> "test_layout", scope |-> u, prefers |-> t]
          BY Zenon DEF InferTests
      <4> QED
          BY <1>1, <4>1
    <3>2. x \notin InferShapes(l)
      <4> SUFFICES ASSUME x \in InferShapes(l) PROVE FALSE
          OBVIOUS
      <4>1. PICK u, t : x = [kind |-> "component_shape", scope |-> u, prefers |-> t]
          BY Zenon DEF InferShapes
      <4> QED
          BY <1>1, <4>1
    <3>3. x \notin InferImports(l)
      <4> SUFFICES ASSUME x \in InferImports(l) PROVE FALSE
          OBVIOUS
      <4>1. PICK u, t : x = [kind |-> "import_order", scope |-> u, prefers |-> t]
          BY Zenon DEF InferImports
      <4> QED
          BY <1>1, <4>1
    <3>4. x \notin InferErrors(l)
      <4> SUFFICES ASSUME x \in InferErrors(l) PROVE FALSE
          OBVIOUS
      <4>1. PICK u, t : x = [kind |-> "error_handling", scope |-> u, prefers |-> t]
          BY Zenon DEF InferErrors
      <4> QED
          BY <1>1, <4>1
    <3> QED
        BY <1>1, <3>1, <3>2, <3>3, <3>4 DEF InferConventions
  <2>2. PICK s \in NamingScopes :
          x \in {[kind |-> "naming", scope |-> s, prefers |-> y] : y \in Strong(l.naming[s])}
      BY <2>1, Zenon DEF InferNaming
  <2>3. PICK y \in Strong(l.naming[s]) : x = [kind |-> "naming", scope |-> s, prefers |-> y]
      BY <2>2
  <2>4. s = "function" /\ x.prefers = y
      BY <1>1, <2>3
  <2> QED
      BY <2>3, <2>4
<1>2. ASSUME NEW y \in Strong(l.naming["function"]) PROVE y \in FunctionStyles(l)
  <2> DEFINE x == [kind |-> "naming", scope |-> "function", prefers |-> y]
  <2>1. x \in InferNaming(l)
      BY DEF InferNaming, NamingScopes
  <2>2. x \in InferConventions(l) /\ x.kind = "naming" /\ x.scope = "function" /\ x.prefers = y
      BY <2>1 DEF InferConventions
  <2> HIDE DEF x
  <2> QED
      BY <2>2 DEF FunctionStyles
<1>3. ASSUME NEW y \in FunctionStyles(l) PROVE y \in Strong(l.naming["function"])
    BY <1>1 DEF FunctionStyles
<1> QED
    BY <1>2, <1>3

\* At most one style is strong.
LEMMA OneStrongStyle ==
    ASSUME NEW c \in [NamingStyles -> Nat], NEW x \in Strong(c), NEW y \in Strong(c)
    PROVE  x = y
<1>1. DOMAIN c = NamingStyles /\ MinEvidence \in Nat \ {0}
    BY ConventionAssumption
<1> DEFINE t == Total(c)
<1>2. t = c["camelCase"] + c["snake_case"] + c["PascalCase"] + c["SCREAMING_SNAKE"] + c["mixed"]
    BY TotalOfStyles
<1>3. /\ x \in NamingStyles /\ y \in NamingStyles /\ t >= MinEvidence
      /\ 5 * c[x] >= 4 * t /\ 5 * c[y] >= 4 * t
    BY <1>1 DEF Strong
<1>4. /\ c["camelCase"] \in Nat /\ c["snake_case"] \in Nat /\ c["PascalCase"] \in Nat
      /\ c["SCREAMING_SNAKE"] \in Nat /\ c["mixed"] \in Nat
    BY DEF NamingStyles
<1> HIDE DEF t
<1>5. t \in Nat
    BY <1>2, <1>4
<1>6. ASSUME x # y PROVE c[x] + c[y] <= t /\ c[x] \in Nat /\ c[y] \in Nat
  <2>1. x \in {"camelCase", "snake_case", "PascalCase", "SCREAMING_SNAKE", "mixed"}
        /\ y \in {"camelCase", "snake_case", "PascalCase", "SCREAMING_SNAKE", "mixed"}
      BY <1>3 DEF NamingStyles
  <2>2. CASE x = "camelCase"
      BY <2>1, <2>2, <1>6, <1>2, <1>4
  <2>3. CASE x = "snake_case"
      BY <2>1, <2>3, <1>6, <1>2, <1>4
  <2>4. CASE x = "PascalCase"
      BY <2>1, <2>4, <1>6, <1>2, <1>4
  <2>5. CASE x = "SCREAMING_SNAKE"
      BY <2>1, <2>5, <1>6, <1>2, <1>4
  <2>6. CASE x = "mixed"
      BY <2>1, <2>6, <1>6, <1>2, <1>4
  <2> QED
      BY <2>1, <2>2, <2>3, <2>4, <2>5, <2>6
<1> QED
  <2> SUFFICES ASSUME x # y PROVE FALSE
      OBVIOUS
  <2>1. c[x] + c[y] <= t /\ c[x] \in Nat /\ c[y] \in Nat
      BY <1>6
  <2>2. 5 * (c[x] + c[y]) >= 8 * t
      BY <1>3, <1>5, <2>1
  <2> QED
      BY <1>1, <1>3, <1>5, <2>1, <2>2

\* All the names seen, summed over the files or over the styles.
LEMMA NamesSeen ==
    ASSUME ConventionInv
    PROVE  LET len == [f \in DOMAIN SourceFiles |-> Cardinality(NamesIn(SourceFiles[f], "function"))]
           IN  /\ Times(len) \in [DOMAIN SourceFiles -> Nat]
               /\ Total(Times(len)) = Total(learner.naming["function"])
<1> DEFINE D == DOMAIN SourceFiles
           len == [f \in D |-> Cardinality(NamesIn(SourceFiles[f], "function"))]
           w(y) == Times(Shown(y))
           a == w("camelCase")  b == w("snake_case")  c == w("PascalCase")
           d == w("SCREAMING_SNAKE")  e == w("mixed")
           ab == [f \in D |-> a[f] + b[f]]  abc == [f \in D |-> ab[f] + c[f]]
           abcd == [f \in D |-> abc[f] + d[f]]  all == [f \in D |-> abcd[f] + e[f]]
<1>1. IsFiniteSet(D) /\ observed \in [D -> Nat] /\ "function" \in NamingScopes
    BY ConventionAssumption DEF ConventionInv, NamingScopes
<1>2. \A y \in NamingStyles : w(y) \in [D -> Nat]
    BY <1>1, TimesIsNumbers DEF Times
<1>3. {"camelCase", "snake_case", "PascalCase", "SCREAMING_SNAKE", "mixed"} = NamingStyles
    BY DEF NamingStyles
<1>4. a \in [D -> Nat] /\ b \in [D -> Nat] /\ c \in [D -> Nat] /\ d \in [D -> Nat] /\ e \in [D -> Nat]
    BY <1>2, <1>3
<1>5. ASSUME NEW f \in D
      PROVE  /\ Times(len)[f] = a[f] + b[f] + c[f] + d[f] + e[f]
             /\ a[f] \in Nat /\ b[f] \in Nat /\ c[f] \in Nat /\ d[f] \in Nat /\ e[f] \in Nat
  <2> DEFINE n(y) == NumberOf(SourceFiles[f], "function", y)
             o == observed[f]
  <2>1. n("camelCase") \in Nat /\ n("snake_case") \in Nat /\ n("PascalCase") \in Nat
        /\ n("SCREAMING_SNAKE") \in Nat /\ n("mixed") \in Nat
    <3>1. \A y \in NamingStyles : n(y) \in Nat
        BY <1>1, NamesByStyle
    <3> QED
        BY <1>3, <3>1
  <2>2. Times(len)[f] = o * (n("camelCase") + n("snake_case") + n("PascalCase") + n("SCREAMING_SNAKE") + n("mixed"))
    <3>1. len[f] = n("camelCase") + n("snake_case") + n("PascalCase") + n("SCREAMING_SNAKE") + n("mixed")
        BY <1>1, NamesByStyle
    <3>2. Times(len)[f] = o * len[f]
        BY DEF Times
    <3> QED
        BY <3>1, <3>2
  <2>3. /\ a[f] = o * n("camelCase") /\ b[f] = o * n("snake_case") /\ c[f] = o * n("PascalCase")
        /\ d[f] = o * n("SCREAMING_SNAKE") /\ e[f] = o * n("mixed")
      BY DEF Times, Shown
  <2>4. o \in Nat
      BY <1>1
  <2> HIDE DEF a, b, c, d, e, n, o
  <2>5. ASSUME NEW u \in Nat, NEW v \in Nat PROVE o * (u + v) = o * u + o * v /\ o * u \in Nat
      BY <2>4, TimesBoth
  <2>6. o * (n("camelCase") + n("snake_case") + n("PascalCase") + n("SCREAMING_SNAKE") + n("mixed"))
          = o * n("camelCase") + o * n("snake_case") + o * n("PascalCase") + o * n("SCREAMING_SNAKE") + o * n("mixed")
    <3> DEFINE p == n("camelCase")  q == n("snake_case")  r == n("PascalCase")
               s == n("SCREAMING_SNAKE")  t == n("mixed")
    <3>1. p \in Nat /\ q \in Nat /\ r \in Nat /\ s \in Nat /\ t \in Nat
        BY <2>1
    <3> HIDE DEF p, q, r, s, t
    <3>2. p + q \in Nat /\ p + q + r \in Nat /\ p + q + r + s \in Nat
        BY <3>1
    <3>3. o * (p + q + r + s + t) = o * (p + q + r + s) + o * t
        BY <2>5, <3>1, <3>2
    <3>4. o * (p + q + r + s) = o * (p + q + r) + o * s
        BY <2>5, <3>1, <3>2
    <3>5. o * (p + q + r) = o * (p + q) + o * r
        BY <2>5, <3>1, <3>2
    <3>6. o * (p + q) = o * p + o * q
        BY <2>5, <3>1
    <3>7. o * (p + q + r + s + t) = o * p + o * q + o * r + o * s + o * t
        BY <3>3, <3>4, <3>5, <3>6
    <3> QED
        BY <3>7 DEF p, q, r, s, t
  <2>7. o * n("camelCase") \in Nat /\ o * n("snake_case") \in Nat /\ o * n("PascalCase") \in Nat
        /\ o * n("SCREAMING_SNAKE") \in Nat /\ o * n("mixed") \in Nat
      BY <2>1, <2>5
  <2> QED
      BY <2>2, <2>3, <2>6, <2>7
<1> HIDE DEF a, b, c, d, e
<1>6. /\ ab \in [D -> Nat] /\ \A f \in D : a[f] + b[f] = ab[f]
    BY <1>4
<1> HIDE DEF ab
<1>7. /\ abc \in [D -> Nat] /\ \A f \in D : ab[f] + c[f] = abc[f]
    BY <1>4, <1>6
<1> HIDE DEF abc
<1>8. /\ abcd \in [D -> Nat] /\ \A f \in D : abc[f] + d[f] = abcd[f]
    BY <1>4, <1>7
<1> HIDE DEF abcd
<1>9. /\ all \in [D -> Nat] /\ \A f \in D : abcd[f] + e[f] = all[f]
    BY <1>4, <1>8
<1> HIDE DEF all
<1>10. Times(len) = all
  <2>1. ASSUME NEW f \in D PROVE Times(len)[f] = all[f]
    <3>1. /\ all[f] = abcd[f] + e[f] /\ abcd[f] = abc[f] + d[f] /\ abc[f] = ab[f] + c[f]
          /\ ab[f] = a[f] + b[f]
        BY <1>6, <1>7, <1>8, <1>9
    <3> QED
        BY <1>5, <3>1
  <2>2. Times(len) = [f \in D |-> Times(len)[f]] /\ all = [f \in D |-> all[f]]
      BY <1>9 DEF Times
  <2> QED
      BY <2>1, <2>2
<1> HIDE DEF D
<1>11. /\ Total(a) \in Nat /\ Total(b) \in Nat /\ Total(ab) \in Nat /\ Total(a) + Total(b) = Total(ab)
  <2>1. /\ IsFiniteSet(D) /\ a \in [D -> Nat] /\ b \in [D -> Nat] /\ ab \in [D -> Nat]
        /\ \A f \in D : a[f] + b[f] = ab[f]
      BY <1>1, <1>4, <1>6
  <2> QED
      BY <2>1, TotalAdds
<1>12. /\ Total(ab) \in Nat /\ Total(c) \in Nat /\ Total(abc) \in Nat /\ Total(ab) + Total(c) = Total(abc)
  <2>1. /\ IsFiniteSet(D) /\ ab \in [D -> Nat] /\ c \in [D -> Nat] /\ abc \in [D -> Nat]
        /\ \A f \in D : ab[f] + c[f] = abc[f]
      BY <1>1, <1>4, <1>6, <1>7
  <2> QED
      BY <2>1, TotalAdds
<1>13. /\ Total(abc) \in Nat /\ Total(d) \in Nat /\ Total(abcd) \in Nat /\ Total(abc) + Total(d) = Total(abcd)
  <2>1. /\ IsFiniteSet(D) /\ abc \in [D -> Nat] /\ d \in [D -> Nat] /\ abcd \in [D -> Nat]
        /\ \A f \in D : abc[f] + d[f] = abcd[f]
      BY <1>1, <1>4, <1>7, <1>8
  <2> QED
      BY <2>1, TotalAdds
<1>14. /\ Total(abcd) \in Nat /\ Total(e) \in Nat /\ Total(all) \in Nat /\ Total(abcd) + Total(e) = Total(all)
  <2>1. /\ IsFiniteSet(D) /\ abcd \in [D -> Nat] /\ e \in [D -> Nat] /\ all \in [D -> Nat]
        /\ \A f \in D : abcd[f] + e[f] = all[f]
      BY <1>1, <1>4, <1>8, <1>9
  <2> QED
      BY <2>1, TotalAdds
<1> DEFINE k == learner.naming["function"]
<1>15. /\ k \in [NamingStyles -> Nat] /\ k["camelCase"] = Total(a) /\ k["snake_case"] = Total(b)
       /\ k["PascalCase"] = Total(c) /\ k["SCREAMING_SNAKE"] = Total(d) /\ k["mixed"] = Total(e)
    BY <1>1, <1>3 DEF ConventionInv, a, b, c, d, e
<1> HIDE DEF k
<1>16. Total(k) = k["camelCase"] + k["snake_case"] + k["PascalCase"] + k["SCREAMING_SNAKE"] + k["mixed"]
    BY <1>15, TotalOfStyles
<1>17. Total(all) = Total(k)
    BY <1>11, <1>12, <1>13, <1>14, <1>15, <1>16
<1>18. Times(len) \in [D -> Nat] /\ Total(Times(len)) = Total(k)
    BY <1>9, <1>10, <1>17, Zenon
<1> QED
    BY <1>18 DEF D, k

\* What was reported and what is of the preferred style are different names.
LEMMA ReportedNames ==
    ASSUME ConventionInv, NEW f \in DOMAIN SourceFiles
    PROVE  LET file == SourceFiles[f]
           IN  /\ Cardinality(Check(learner, file)) \in Nat
               /\ FunctionStyles(learner) = {} => Check(learner, file) = {}
               /\ \A y \in FunctionStyles(learner) :
                    Cardinality(Check(learner, file)) + NumberOf(file, "function", y)
                      <= Cardinality(NamesIn(file, "function"))
<1> DEFINE file == SourceFiles[f]
           N == NamesIn(file, "function")
           R == Check(learner, file)
<1>1. "function" \in NamingScopes /\ R \subseteq N
    BY DEF Check, NamingScopes
<1>2. \A P \in SUBSET N : IsFiniteSet(P) /\ Cardinality(P) \in Nat
    BY <1>1, FunctionsFinite
<1>3. Cardinality(R) \in Nat
    BY <1>1, <1>2
<1>4. FunctionStyles(learner) = {} => R = {}
    BY DEF Check
<1>5. ASSUME NEW y \in FunctionStyles(learner)
      PROVE  Cardinality(R) + NumberOf(file, "function", y) <= Cardinality(N)
  <2> DEFINE Of == {i \in N : StyleAt(file, i) = y}
  <2>1. NumberOf(file, "function", y) = Cardinality(Of)
      BY DEF NumberOf
  <2>2. learner.naming["function"] \in [NamingStyles -> Nat]
      BY <1>1 DEF ConventionInv
  <2>3. \A z \in FunctionStyles(learner) : z = y
      BY <1>5, <2>2, StylesAreStrong, OneStrongStyle
  <2>4. Of \cap R = {}
      BY <2>3 DEF Check
  <2>5. Of \cup R \in SUBSET N /\ Of \in SUBSET N
      BY <1>1
  <2>6. IsFiniteSet(Of) /\ IsFiniteSet(R) /\ IsFiniteSet(N) /\ Cardinality(Of) \in Nat /\ Cardinality(N) \in Nat
      BY <1>1, <1>2, <2>5
  <2> HIDE DEF Of, R, N
  <2>7. Cardinality(Of \cup R) = Cardinality(Of) + Cardinality(R) - Cardinality(Of \cap R)
      BY <2>6, FS_Union
  <2>8. Cardinality(Of \cap R) = 0
      BY <2>4, FS_EmptySet
  <2>9. Cardinality(Of \cup R) <= Cardinality(N) /\ Cardinality(Of \cup R) \in Nat
      BY <2>5, <2>6, FS_Subset, FS_CardinalityType
  <2> QED
      BY <1>3, <2>1, <2>6, <2>7, <2>8, <2>9
<1> QED
    BY <1>3, <1>4, <1>5

\* At most a fifth of the names seen is reported.
LEMMA FewReported ==
    ASSUME ConventionInv
    PROVE  LET len == [f \in DOMAIN SourceFiles |-> observed[f] * Cardinality(NamesIn(SourceFiles[f], "function"))]
               rep == [f \in DOMAIN SourceFiles |-> observed[f] * Cardinality(Check(learner, SourceFiles[f]))]
           IN  5 * Total(rep) <= Total(len)
<1> DEFINE D == DOMAIN SourceFiles
           n == [f \in D |-> Cardinality(NamesIn(SourceFiles[f], "function"))]
           r == [f \in D |-> Cardinality(Check(learner, SourceFiles[f]))]
           len == [f \in D |-> observed[f] * Cardinality(NamesIn(SourceFiles[f], "function"))]
           rep == [f \in D |-> observed[f] * Cardinality(Check(learner, SourceFiles[f]))]
           c == learner.naming["function"]
<1>1. IsFiniteSet(D) /\ observed \in [D -> Nat] /\ "function" \in NamingScopes
    BY ConventionAssumption DEF ConventionInv, NamingScopes
<1>2. len = Times(n) /\ \A f \in D : len[f] = observed[f] * n[f]
    BY DEF Times
<1>3. len \in [D -> Nat] /\ Total(len) = Total(c)
    BY <1>2, NamesSeen, Zenon
<1>4. ASSUME NEW f \in D PROVE rep[f] \in Nat /\ observed[f] \in Nat /\ r[f] \in Nat
  <2>1. observed[f] \in Nat /\ r[f] \in Nat
      BY <1>1, ReportedNames
  <2>2. observed[f] * r[f] \in Nat
      BY <2>1, TimesBoth
  <2> QED
      BY <2>1, <2>2
<1>5. rep \in [D -> Nat]
    BY <1>4
<1>6. c \in [NamingStyles -> Nat]
    BY <1>1 DEF ConventionInv
<1>7. CASE FunctionStyles(learner) = {}
  <2>1. \A f \in D : rep[f] = 0
    <3> SUFFICES ASSUME NEW f \in D PROVE rep[f] = 0
        OBVIOUS
    <3>1. Check(learner, SourceFiles[f]) = {}
        BY <1>7, ReportedNames
    <3>2. Cardinality(Check(learner, SourceFiles[f])) = 0
        BY <3>1, FS_EmptySet
    <3>3. rep[f] = observed[f] * 0 /\ observed[f] \in Nat
        BY <1>4, <3>2
    <3> QED
        BY <3>3
  <2>2. Total(rep) = 0
    <3> HIDE DEF rep
    <3> QED
        BY <1>1, <1>5, <2>1, TotalOfZeros
  <2>3. Total(len) \in Nat
    <3>1. \A f \in D : len[f] <= len[f]
        BY <1>3
    <3> HIDE DEF len
    <3> QED
        BY <1>1, <1>3, <3>1, TotalMonotone
  <2> HIDE DEF rep, len
  <2>4. 5 * Total(rep) <= Total(len)
      BY <2>2, <2>3
  <2> QED
      BY <2>4 DEF rep, len
<1>8. CASE FunctionStyles(learner) # {}
  <2>1. PICK y : y \in FunctionStyles(learner)
      BY <1>8
  <2>2. y \in Strong(c)
      BY <2>1, StylesAreStrong
  <2>3. y \in NamingStyles /\ 5 * c[y] >= 4 * Total(c)
      BY <1>6, <2>2 DEF Strong
  <2> DEFINE w == Times(Shown(y))
             both == [f \in D |-> rep[f] + w[f]]
  <2>4. w \in [D -> Nat] /\ c[y] = Total(w)
      BY <1>1, <2>3, TimesIsNumbers DEF Times, ConventionInv
  <2>5. both \in [D -> Nat] /\ \A f \in D : rep[f] + w[f] = both[f]
    <3> HIDE DEF rep, w
    <3> QED
        BY <1>5, <2>4
  <2>6. ASSUME NEW f \in D PROVE both[f] <= len[f]
    <3> DEFINE o == observed[f]  m == Shown(y)[f]
    <3>1. m = NumberOf(SourceFiles[f], "function", y)
        BY DEF Shown
    <3>2. r[f] + m <= n[f]
        BY <2>1, <3>1, ReportedNames
    <3>3. m \in Nat /\ n[f] \in Nat
        BY <1>1, <2>3, <3>1, NamesByStyle, FunctionsFinite
    <3>4. rep[f] = o * r[f] /\ w[f] = o * m /\ len[f] = o * n[f]
        BY DEF Times
    <3>5. both[f] = rep[f] + w[f]
        BY <2>5
    <3>6. o \in Nat /\ r[f] \in Nat
        BY <1>4
    <3> DEFINE rf == r[f]  nf == n[f]
    <3>7. rf \in Nat /\ nf \in Nat /\ rf + m <= nf
        BY <3>2, <3>3, <3>6
    <3>8. both[f] = o * rf + o * m /\ len[f] = o * nf
        BY <3>4, <3>5
    <3> HIDE DEF o, m, rf, nf, both, len
    <3>9. o * (rf + m) = o * rf + o * m
        BY <3>3, <3>6, <3>7, TimesBoth
    <3>10. rf + m \in Nat
        BY <3>3, <3>7
    <3>11. o * (rf + m) <= o * nf
        BY <3>6, <3>7, <3>10, TimesBoth
    <3> QED
        BY <3>8, <3>9, <3>11
  <2> HIDE DEF rep, w, both, len, c, D
  <2>7. /\ Total(rep) \in Nat /\ Total(w) \in Nat /\ Total(both) \in Nat
        /\ Total(rep) + Total(w) = Total(both)
      BY <1>1, <1>5, <2>4, <2>5, TotalAdds
  <2>8. Total(both) \in Nat /\ Total(len) \in Nat /\ Total(both) <= Total(len)
      BY <1>1, <1>3, <2>5, <2>6, TotalMonotone
  <2>9. 5 * Total(rep) <= Total(len)
      BY <1>3, <2>3, <2>4, <2>7, <2>8
  <2> QED
      BY <2>9 DEF rep, len, D
<1> QED
    BY <1>7, <1>8

\* A file whose names are all as they should be confirms the style.
LEMMA CleanFileConfirms ==
    ASSUME ConventionInv, NEW f \in DOMAIN SourceFiles,
           Check(learner, SourceFiles[f]) = {},
           \A i \in NamesIn(SourceFiles[f], "function") : StyleAt(SourceFiles[f], i) # "mixed",
           NEW y \in FunctionStyles(learner)
    PROVE  y \in FunctionStyles(Observe(learner, SourceFiles[f]))
<1> DEFINE file == SourceFiles[f]
           n(z) == NumberOf(file, "function", z)
           c == learner.naming["function"]
           d == Observe(learner, file).naming["function"]
<1>1. "function" \in NamingScopes /\ c \in [NamingStyles -> Nat] /\ MinEvidence \in Nat
    BY ConventionAssumption DEF ConventionInv, NamingScopes
<1>2. \A z \in NamingStyles : n(z) \in Nat
    BY <1>1, NamesByStyle
<1>3. d = [z \in NamingStyles |-> c[z] + n(z)]
  <2>1. Observe(learner, file).naming = ObserveNaming(learner.naming, file)
      BY ObserveCounts DEF ConventionInv
  <2> QED
      BY <1>1, <2>1 DEF ObserveNaming
<1>4. d \in [NamingStyles -> Nat]
    BY <1>1, <1>2, <1>3
<1>5. y \in NamingStyles /\ Total(c) >= MinEvidence /\ 5 * c[y] >= 4 * Total(c)
    BY <1>1, StylesAreStrong DEF Strong
<1>6. ASSUME NEW z \in NamingStyles, z # y PROVE n(z) = 0
  <2>1. \A i \in NamesIn(file, "function") : StyleAt(file, i) = y
      BY DEF Check
  <2>2. {i \in NamesIn(file, "function") : StyleAt(file, i) = z} = {}
      BY <1>6, <2>1
  <2> QED
      BY <2>2, FS_EmptySet DEF NumberOf
<1>7. y \in {"camelCase", "snake_case", "PascalCase", "SCREAMING_SNAKE", "mixed"}
    BY <1>5 DEF NamingStyles
<1>8. \A z \in {"camelCase", "snake_case", "PascalCase", "SCREAMING_SNAKE", "mixed"} :
        /\ c[z] \in Nat /\ n(z) \in Nat /\ d[z] = c[z] + n(z) /\ (z # y => n(z) = 0)
    BY <1>1, <1>2, <1>3, <1>6 DEF NamingStyles
<1> HIDE DEF c, d, n
<1>9. /\ Total(c) = c["camelCase"] + c["snake_case"] + c["PascalCase"] + c["SCREAMING_SNAKE"] + c["mixed"]
      /\ Total(d) = d["camelCase"] + d["snake_case"] + d["PascalCase"] + d["SCREAMING_SNAKE"] + d["mixed"]
    BY <1>1, <1>4, TotalOfStyles
<1>10. Total(d) = Total(c) + n(y) /\ Total(c) \in Nat
  <2>1. CASE y = "camelCase"
      BY <2>1, <1>8, <1>9
  <2>2. CASE y = "snake_case"
      BY <2>2, <1>8, <1>9
  <2>3. CASE y = "PascalCase"
      BY <2>3, <1>8, <1>9
  <2>4. CASE y = "SCREAMING_SNAKE"
      BY <2>4, <1>8, <1>9
  <2>5. CASE y = "mixed"
      BY <2>5, <1>8, <1>9
  <2> QED
      BY <1>7, <2>1, <2>2, <2>3, <2>4, <2>5
<1>11. Total(d) >= MinEvidence /\ 5 * d[y] >= 4 * Total(d)
    BY <1>1, <1>5, <1>7, <1>8, <1>10
<1>12. y \in Strong(d)
    BY <1>4, <1>5, <1>11 DEF Strong
<1> QED
    BY <1>12, StylesAreStrong DEF d

\* At most a fifth of all function names seen is reported by check, and a file
\* check passes, none of whose names is mixed, confirms the convention, for any
\* files in any order and number.
THEOREM LearnerAgrees == ConventionSpec => []CheckAgreesWithLearning
<1>1. ConventionInv => CheckAgreesWithLearning
    BY FewReported, CleanFileConfirms DEF CheckAgreesWithLearning
<1> QED
    BY <1>1, CountersAreSums, PTL

-----------------------------------------------------------------------------
(* GraphQueries: levels of a walk. *)

\* g climbs from x0 by the steps of F.
Climbs(g, X, x0, F, D) ==
    g \in [0 .. D -> X] /\ \A d \in 0 .. D : g[d] = IF d = 0 THEN x0 ELSE F[g[d - 1]]

\* A function on 0..n given by its first value and a step: there is one.
LEMMA LevelsExist ==
    ASSUME NEW X, NEW x0 \in X, NEW F \in [X -> X], NEW D \in Nat
    PROVE  \E g : Climbs(g, X, x0, F, D)
<1> DEFINE Unfolds(g, n) == \A d \in 0 .. n : g[d] = IF d = 0 THEN x0 ELSE F[g[d - 1]]
           T == {n \in Nat : ~\E g \in [0 .. n -> X] : Unfolds(g, n)}
<1>1. ASSUME NEW n \in T PROVE n \in Nat \ {0} /\ n - 1 \in T
  <2>1. n # 0
    <3> SUFFICES ASSUME n = 0 PROVE FALSE
        OBVIOUS
    <3>1. [d \in 0 .. 0 |-> x0] \in [0 .. 0 -> X] /\ Unfolds([d \in 0 .. 0 |-> x0], 0)
        OBVIOUS
    <3> QED
        BY <3>1
  <2>2. n \in Nat /\ n - 1 \in Nat
      BY <2>1
  <2>3. SUFFICES ASSUME NEW g \in [0 .. n - 1 -> X], Unfolds(g, n - 1)
                 PROVE  FALSE
    <3> HIDE DEF Unfolds
    <3> QED
        BY <2>1, <2>2
  <2> DEFINE h == [d \in 0 .. n |-> IF d < n THEN g[d] ELSE F[g[n - 1]]]
  <2>4. g[n - 1] \in X
      BY <2>2, <2>1
  <2>5. h \in [0 .. n -> X]
    <3>1. ASSUME NEW d \in 0 .. n PROVE h[d] \in X
        BY <2>2, <2>4
    <3> QED
        BY <3>1
  <2>6. Unfolds(h, n)
    <3> SUFFICES ASSUME NEW d \in 0 .. n PROVE h[d] = IF d = 0 THEN x0 ELSE F[h[d - 1]]
        OBVIOUS
    <3>1. CASE d < n
      <4>1. d \in 0 .. n - 1 /\ h[d] = g[d]
          BY <2>2, <3>1
      <4>2. d # 0 => h[d - 1] = g[d - 1]
          BY <2>2, <3>1
      <4>3. g[d] = IF d = 0 THEN x0 ELSE F[g[d - 1]]
          BY <2>3, <4>1
      <4> HIDE DEF h
      <4> QED
          BY <4>1, <4>2, <4>3
    <3>2. CASE d = n
      <4>1. h[d] = F[g[n - 1]] /\ h[n - 1] = g[n - 1] /\ d # 0
          BY <2>1, <2>2, <3>2
      <4> HIDE DEF h
      <4> QED
          BY <3>2, <4>1
    <3> QED
        BY <2>2, <3>1, <3>2
  <2> HIDE DEF h
  <2> QED
      BY <2>2, <2>5, <2>6
<1>2. T = {}
  <2> SUFFICES ASSUME T # {} PROVE FALSE
      OBVIOUS
  <2>1. T \subseteq Nat
      OBVIOUS
  <2>2. PICK n \in T : \A y \in T : n <= y
    <3> HIDE DEF T
    <3> QED
        BY <2>1, LeastNumber
  <2>3. n \in Nat /\ n - 1 \in T
    <3> HIDE DEF T
    <3> QED
        BY <1>1
  <2> HIDE DEF T
  <2> QED
      BY <2>2, <2>3
<1>3. D \notin T
  <2> HIDE DEF T
  <2> QED
      BY <1>2
<1> QED
    BY <1>3 DEF Climbs

\* g is what a reaches in so many calls.
Called(g, a, D) ==
    /\ g \in [0 .. D -> SUBSET QNames] /\ g[0] = {a} /\ CallGraph(a, "callees", D) = g[D]
    /\ \A d \in 1 .. D : g[d] = g[d - 1] \cup UNION {Succ(n) : n \in g[d - 1]}

\* What a function calls, level by level.
LEMMA CallLevels ==
    ASSUME graph \subseteq QNames \X QNames, NEW a \in QNames, NEW D \in Nat
    PROVE  \E g : Called(g, a, D)
<1> DEFINE X == SUBSET QNames
           F == [S \in X |-> S \cup UNION {NextOf("callees", n) : n \in S}]
           body(f) == [d \in 0 .. D |-> IF d = 0 THEN {a} ELSE f[d - 1] \cup UNION {NextOf("callees", n) : n \in f[d - 1]}]
           fl == CHOOSE f : f = body(f)
<1>1. \A n : NextOf("callees", n) = Succ(n) /\ NextOf("callees", n) \subseteq QNames
    BY DEF NextOf, Succ
<1>2. F \in [X -> X] /\ {a} \in X
    BY <1>1
<1>3. PICK g : g \in [0 .. D -> X] /\ \A d \in 0 .. D : g[d] = IF d = 0 THEN {a} ELSE F[g[d - 1]]
  <2> HIDE DEF F, X
  <2>1. \E g : Climbs(g, X, {a}, F, D)
      BY <1>2, LevelsExist, Zenon
  <2> QED
      BY <2>1, Zenon DEF Climbs
<1>4. \A d \in 1 .. D : g[d - 1] \in X /\ g[d] = g[d - 1] \cup UNION {NextOf("callees", n) : n \in g[d - 1]}
  <2> SUFFICES ASSUME NEW d \in 1 .. D
               PROVE  g[d - 1] \in X /\ g[d] = g[d - 1] \cup UNION {NextOf("callees", n) : n \in g[d - 1]}
      OBVIOUS
  <2>1. d \in 0 .. D /\ d - 1 \in 0 .. D /\ d # 0
      OBVIOUS
  <2>2. g[d - 1] \in X /\ g[d] = F[g[d - 1]]
      BY <1>3, <2>1
  <2> QED
      BY <2>2
<1>5. g = body(g)
  <2>1. g[0] = {a}
    <3>1. 0 \in 0 .. D
        OBVIOUS
    <3> QED
        BY <1>3, <3>1
  <2>2. \A d \in 0 .. D : d = 0 \/ d \in 1 .. D
      OBVIOUS
  <2>3. \A d \in 0 .. D : g[d] = IF d = 0 THEN {a} ELSE g[d - 1] \cup UNION {NextOf("callees", n) : n \in g[d - 1]}
      BY <1>4, <2>1, <2>2
  <2>4. g = [d \in 0 .. D |-> g[d]]
      BY <1>3
  <2> QED
      BY <2>3, <2>4
<1>6. fl = body(fl)
    BY <1>5
<1>7. CallGraph(a, "callees", D) = fl[D]
    BY DEF CallGraph
<1> HIDE DEF fl
<1>8. /\ DOMAIN fl = 0 .. D /\ fl[0] = {a}
      /\ \A d \in 1 .. D : fl[d] = fl[d - 1] \cup UNION {NextOf("callees", n) : n \in fl[d - 1]}
  <2>1. DOMAIN fl = 0 .. D /\ fl[0] = {a}
      BY <1>6
  <2>2. ASSUME NEW d \in 1 .. D
        PROVE  fl[d] = fl[d - 1] \cup UNION {NextOf("callees", n) : n \in fl[d - 1]}
    <3>1. d \in 0 .. D /\ d # 0
        OBVIOUS
    <3> QED
        BY <1>6, <3>1
  <2> QED
      BY <2>1, <2>2
<1> DEFINE U == {n \in Nat : n \in 0 .. D /\ fl[n] # g[n]}
<1>9. U = {}
  <2> SUFFICES ASSUME U # {} PROVE FALSE
      OBVIOUS
  <2>1. U \subseteq Nat
      OBVIOUS
  <2>2. PICK n \in U : \A y \in U : n <= y
    <3> HIDE DEF U
    <3> QED
        BY <2>1, LeastNumber
  <2>3. n # 0
      BY <1>3, <1>8
  <2>4. n \in 1 .. D /\ n - 1 \in 0 .. D /\ n - 1 \notin U
      BY <2>2, <2>3
  <2>5. fl[n - 1] = g[n - 1]
      BY <2>4
  <2> QED
      BY <1>4, <1>8, <2>4, <2>5
<1>10. fl = g
  <2>1. \A d \in 0 .. D : fl[d] = g[d]
      BY <1>9
  <2>2. fl = [d \in 0 .. D |-> fl[d]] /\ g = [d \in 0 .. D |-> g[d]]
      BY <1>3, <1>6
  <2> QED
      BY <2>1, <2>2
<1>11. /\ g \in [0 .. D -> SUBSET QNames] /\ g[0] = {a} /\ CallGraph(a, "callees", D) = g[D]
       /\ \A d \in 1 .. D : g[d] = g[d - 1] \cup UNION {Succ(n) : n \in g[d - 1]}
    BY <1>1, <1>3, <1>4, <1>7, <1>8, <1>10
<1> QED
    BY <1>11, Zenon DEF Called

\* Nodes to start from.
AreNames(starts) == starts \subseteq QNames

\* The nodes within some distance of what is asked for.
LEMMA BallLevels ==
    ASSUME graph \subseteq QNames \X QNames, NEW starts, AreNames(starts), NEW D \in Nat
    PROVE  LET ball == Ball(starts, D)
           IN  /\ ball \in [0 .. D -> SUBSET QNames] /\ ball[0] = starts
               /\ \A d \in 1 .. D : ball[d] = ball[d - 1] \cup UNION {Consumers(n) : n \in ball[d - 1]}
<1> DEFINE X == SUBSET QNames
           F == [S \in X |-> S \cup UNION {Consumers(n) : n \in S}]
           body(f) == [d \in 0 .. D |-> IF d = 0 THEN starts ELSE f[d - 1] \cup UNION {Consumers(n) : n \in f[d - 1]}]
           fl == CHOOSE f : f = body(f)
<1>1. \A n : Consumers(n) \subseteq QNames
    BY DEF Consumers
<1>2. F \in [X -> X] /\ starts \in X
    BY <1>1 DEF AreNames
<1>3. PICK g : g \in [0 .. D -> X] /\ \A d \in 0 .. D : g[d] = IF d = 0 THEN starts ELSE F[g[d - 1]]
  <2> HIDE DEF F, X
  <2>1. \E g : Climbs(g, X, starts, F, D)
      BY <1>2, LevelsExist, Zenon
  <2> QED
      BY <2>1, Zenon DEF Climbs
<1>4. \A d \in 1 .. D : g[d - 1] \in X /\ g[d] = g[d - 1] \cup UNION {Consumers(n) : n \in g[d - 1]}
  <2> SUFFICES ASSUME NEW d \in 1 .. D
               PROVE  g[d - 1] \in X /\ g[d] = g[d - 1] \cup UNION {Consumers(n) : n \in g[d - 1]}
      OBVIOUS
  <2>1. d \in 0 .. D /\ d - 1 \in 0 .. D /\ d # 0
      OBVIOUS
  <2>2. g[d - 1] \in X /\ g[d] = F[g[d - 1]]
      BY <1>3, <2>1
  <2> QED
      BY <2>2
<1>5. g = body(g)
  <2>1. g[0] = starts
    <3>1. 0 \in 0 .. D
        OBVIOUS
    <3> QED
        BY <1>3, <3>1
  <2>2. \A d \in 0 .. D : d = 0 \/ d \in 1 .. D
      OBVIOUS
  <2>3. \A d \in 0 .. D : g[d] = IF d = 0 THEN starts ELSE g[d - 1] \cup UNION {Consumers(n) : n \in g[d - 1]}
      BY <1>4, <2>1, <2>2
  <2>4. g = [d \in 0 .. D |-> g[d]]
      BY <1>3
  <2> QED
      BY <2>3, <2>4
<1>6. fl = body(fl)
    BY <1>5
<1>7. Ball(starts, D) = fl
    BY DEF Ball
<1> HIDE DEF fl
<1>8. /\ DOMAIN fl = 0 .. D /\ fl[0] = starts
      /\ \A d \in 1 .. D : fl[d] = fl[d - 1] \cup UNION {Consumers(n) : n \in fl[d - 1]}
  <2>1. DOMAIN fl = 0 .. D /\ fl[0] = starts
      BY <1>6
  <2>2. ASSUME NEW d \in 1 .. D
        PROVE  fl[d] = fl[d - 1] \cup UNION {Consumers(n) : n \in fl[d - 1]}
    <3>1. d \in 0 .. D /\ d # 0
        OBVIOUS
    <3> QED
        BY <1>6, <3>1
  <2> QED
      BY <2>1, <2>2
<1> DEFINE U == {n \in Nat : n \in 0 .. D /\ fl[n] # g[n]}
<1>9. U = {}
  <2> SUFFICES ASSUME U # {} PROVE FALSE
      OBVIOUS
  <2>1. U \subseteq Nat
      OBVIOUS
  <2>2. PICK n \in U : \A y \in U : n <= y
    <3> HIDE DEF U
    <3> QED
        BY <2>1, LeastNumber
  <2>3. n # 0
      BY <1>3, <1>8
  <2>4. n \in 1 .. D /\ n - 1 \in 0 .. D /\ n - 1 \notin U
      BY <2>2, <2>3
  <2>5. fl[n - 1] = g[n - 1]
      BY <2>4
  <2> QED
      BY <1>4, <1>8, <2>4, <2>5
<1>10. fl = g
  <2>1. \A d \in 0 .. D : fl[d] = g[d]
      BY <1>9
  <2>2. fl = [d \in 0 .. D |-> fl[d]] /\ g = [d \in 0 .. D |-> g[d]]
      BY <1>3, <1>6
  <2> QED
      BY <2>1, <2>2
<1>11. /\ fl \in [0 .. D -> SUBSET QNames] /\ fl[0] = starts
       /\ \A d \in 1 .. D : fl[d] = fl[d - 1] \cup UNION {Consumers(n) : n \in fl[d - 1]}
    BY <1>3, <1>8, <1>10
<1> QED
    BY <1>7, <1>11, Zenon

-----------------------------------------------------------------------------
(* GraphQueries: what reaches what. *)

\* A set no edge leads out of.
ClosedSet(X) == \A n \in X : Succ(n) \subseteq X

\* Going on for as many steps as there are nodes visits all that can be.
LEMMA ReachIsClosure ==
    ASSUME graph \subseteq QNames \X QNames, NEW a \in QNames
    PROVE  LET R == {b \in QNames : Reaches(a, b)}
           IN  /\ a \in R /\ ClosedSet(R)
               /\ \A X \in SUBSET QNames : a \in X /\ ClosedSet(X) => R \subseteq X
<1> DEFINE N == Cardinality(QNames)
           R == {b \in QNames : Reaches(a, b)}
<1>1. IsFiniteSet(QNames) /\ N \in Nat
    BY GraphAssumption, FS_CardinalityType
<1>2. PICK g :
        /\ g \in [0 .. N -> SUBSET QNames] /\ g[0] = {a} /\ CallGraph(a, "callees", N) = g[N]
        /\ \A d \in 1 .. N : g[d] = g[d - 1] \cup UNION {Succ(n) : n \in g[d - 1]}
  <2>1. PICK g : Called(g, a, N)
    <3> HIDE DEF N
    <3> QED
        BY <1>1, CallLevels, Zenon
  <2> QED
      BY <2>1, Zenon DEF Called
<1>3. R = g[N] /\ \A d \in 0 .. N : g[d] \in SUBSET QNames
    BY <1>1, <1>2 DEF Reaches
<1>4. \A d \in 0 .. N : IsFiniteSet(g[d]) /\ Cardinality(g[d]) \in Nat /\ Cardinality(g[d]) <= N
  <2>1. \A P \in SUBSET QNames : IsFiniteSet(P) /\ Cardinality(P) \in Nat /\ Cardinality(P) <= N
      BY <1>1, FS_Subset, FS_CardinalityType
  <2> QED
      BY <1>3, <2>1
<1> DEFINE U == {n \in Nat : n \in 0 .. N /\ ~(a \in g[n] /\ (ClosedSet(g[n]) \/ Cardinality(g[n]) >= n + 1))}
<1>5. U = {}
  <2> SUFFICES ASSUME U # {} PROVE FALSE
      OBVIOUS
  <2>1. U \subseteq Nat
      OBVIOUS
  <2>2. PICK n \in U : \A y \in U : n <= y
    <3> HIDE DEF U
    <3> QED
        BY <2>1, LeastNumber
  <2>3. n # 0
    <3>1. Cardinality({a}) = 1
        BY FS_Singleton
    <3>2. a \in g[0] /\ Cardinality(g[0]) = 1
        BY <1>2, <3>1
    <3>3. 0 \notin U
        BY <3>2
    <3> HIDE DEF U
    <3> QED
        BY <2>2, <3>3
  <2>4. n \in 1 .. N /\ n - 1 \in 0 .. N /\ n \in 0 .. N /\ n - 1 \notin U
    <3>1. n \in Nat /\ n \in 0 .. N
        BY <2>2
    <3> HIDE DEF U
    <3> QED
        BY <1>1, <2>2, <2>3, <3>1
  <2> DEFINE P == g[n - 1]
             S == g[n]
  <2>5. a \in P /\ (ClosedSet(P) \/ Cardinality(P) >= n)
      BY <2>4
  <2>6. S = P \cup UNION {Succ(x) : x \in P}
      BY <1>2, <2>4
  <2>7. CASE ClosedSet(P)
    <3>1. S = P
        BY <2>6, <2>7 DEF ClosedSet
    <3> QED
        BY <2>2, <2>5, <2>7, <3>1
  <2>8. CASE ~ClosedSet(P)
    <3>1. P \subseteq S /\ P # S
        BY <2>6, <2>8 DEF ClosedSet
    <3>2. IsFiniteSet(S) /\ Cardinality(S) \in Nat /\ Cardinality(P) \in Nat
        BY <1>4, <2>4
    <3> HIDE DEF P, S
    <3>3. Cardinality(P) < Cardinality(S)
        BY <3>1, <3>2, FS_Subset
    <3>4. Cardinality(S) >= n + 1 /\ a \in S
        BY <2>4, <2>5, <2>8, <3>1, <3>2, <3>3
    <3> QED
        BY <2>2, <3>4 DEF S
  <2> QED
      BY <2>7, <2>8
<1>6. a \in g[N] /\ ClosedSet(g[N])
  <2>1. N \notin U /\ N \in 0 .. N
      BY <1>1, <1>5
  <2>2. a \in g[N] /\ (ClosedSet(g[N]) \/ Cardinality(g[N]) >= N + 1)
      BY <1>1, <2>1
  <2>3. Cardinality(g[N]) \in Nat /\ Cardinality(g[N]) <= N
      BY <1>4, <2>1
  <2> QED
      BY <1>1, <2>2, <2>3
<1>7. ASSUME NEW X \in SUBSET QNames, a \in X, ClosedSet(X)
      PROVE  g[N] \subseteq X
  <2> DEFINE V == {n \in Nat : n \in 0 .. N /\ ~(g[n] \subseteq X)}
  <2>1. V = {}
    <3> SUFFICES ASSUME V # {} PROVE FALSE
        OBVIOUS
    <3>1. V \subseteq Nat
        OBVIOUS
    <3>2. PICK n \in V : \A y \in V : n <= y
      <4> HIDE DEF V
      <4> QED
          BY <3>1, LeastNumber
    <3>3. n # 0
        BY <1>2, <1>7, <3>2
    <3>4. n \in 1 .. N /\ n - 1 \in 0 .. N /\ n - 1 \notin V
      <4>1. n \in Nat /\ n \in 0 .. N
          BY <3>2
      <4> HIDE DEF V
      <4> QED
          BY <1>1, <3>2, <3>3, <4>1
    <3>5. g[n - 1] \subseteq X
        BY <3>4
    <3>6. g[n] = g[n - 1] \cup UNION {Succ(x) : x \in g[n - 1]}
        BY <1>2, <3>4
    <3>7. g[n] \subseteq X
        BY <1>7, <3>5, <3>6 DEF ClosedSet
    <3> QED
        BY <3>2, <3>7
  <2> QED
      BY <1>1, <2>1
<1> QED
    BY <1>3, <1>6, <1>7

\* What is reached reaches on.
LEMMA ReachLaws ==
    ASSUME graph \subseteq QNames \X QNames
    PROVE  /\ \A a \in QNames : Reaches(a, a)
           /\ \A a \in QNames, b \in QNames : b \in Succ(a) => Reaches(a, b)
           /\ \A a \in QNames, b \in QNames, c \in QNames : Reaches(a, b) /\ Reaches(b, c) => Reaches(a, c)
           /\ \A X \in SUBSET QNames : ClosedSet(X) =>
                \A a \in X, b \in QNames : Reaches(a, b) => b \in X
<1> DEFINE R(a) == {b \in QNames : Reaches(a, b)}
<1>1. ASSUME NEW a \in QNames
      PROVE  /\ a \in R(a) /\ ClosedSet(R(a))
             /\ \A X \in SUBSET QNames : a \in X /\ ClosedSet(X) => R(a) \subseteq X
    BY ReachIsClosure
<1>2. \A a \in QNames : Reaches(a, a)
    BY <1>1
<1>3. ASSUME NEW a \in QNames, NEW b \in QNames, b \in Succ(a) PROVE Reaches(a, b)
    BY <1>1, <1>3 DEF ClosedSet
<1>4. ASSUME NEW a \in QNames, NEW b \in QNames, NEW c \in QNames, Reaches(a, b), Reaches(b, c)
      PROVE  Reaches(a, c)
  <2>1. b \in R(a) /\ ClosedSet(R(a)) /\ R(a) \in SUBSET QNames
      BY <1>1, <1>4
  <2>2. R(b) \subseteq R(a)
    <3> HIDE DEF R
    <3> QED
        BY <1>1, <2>1
  <2>3. c \in R(b)
      BY <1>4
  <2> QED
      BY <2>2, <2>3
<1>5. ASSUME NEW X \in SUBSET QNames, ClosedSet(X), NEW a \in X, NEW b \in QNames, Reaches(a, b)
      PROVE  b \in X
  <2>1. a \in QNames /\ b \in R(a)
      BY <1>5
  <2> HIDE DEF R
  <2>2. R(a) \subseteq X
      BY <1>1, <1>5, <2>1
  <2> QED
      BY <2>1, <2>2
<1> QED
    BY <1>2, <1>3, <1>4, <1>5

-----------------------------------------------------------------------------
(* GraphQueries: what a LIMIT leaves, and nodes with most edges. *)

\* A statement that finds rows and may return one returns one that goes before
\* all others.
LEMMA FirstIsLeft ==
    ASSUME NEW rows, IsFiniteSet(rows), NEW n \in Nat \ {0}, NEW S \in SUBSET rows,
           Cardinality(S) = (IF Cardinality(rows) < n THEN Cardinality(rows) ELSE n), NEW first \in rows,
           \A p \in S : first \notin S => p = first
    PROVE  first \in S
<1>1. Cardinality(rows) \in Nat /\ Cardinality(rows) # 0
    BY FS_CardinalityType, FS_EmptySet
<1>2. Cardinality(S) # 0
    BY <1>1
<1>3. S # {}
    BY <1>2, FS_EmptySet
<1> QED
    BY <1>3

\* What a target resolves to are names of rows.
LEMMA ResolvedAreNames ==
    ASSUME NEW t, NEW S \in ResolveTarget(t) PROVE AreNames(S) /\ IsFiniteSet(S)
<1>1. S \subseteq QNames
    BY DEF ResolveTarget, Limited, Matching, Listed
<1> QED
    BY <1>1, GraphAssumption, FS_Subset DEF AreNames

\* A node with a row is the first that its own name resolves to.
LEMMA GodsAreAsked == GodsCanBeAsked
<1> SUFFICES ASSUME NEW n \in 1 .. Cardinality(QNames), NEW S \in GodNodes(n), NEW q \in S,
                    NEW starts \in ResolveTarget(q)
             PROVE  q \in starts
    BY DEF GodsCanBeAsked
<1>1. q \in Listed
    BY DEF GodNodes, Limited
<1>2. q \in Matching(q)
    BY <1>1 DEF Matching
<1>3. IsFiniteSet(Matching(q)) /\ StartLimit \in Nat \ {0}
    BY GraphAssumption, FS_Subset DEF Matching, Listed
<1>4. \A p \in Matching(q) : MatchRank(q, q) < MatchRank(p, q) \/ p = q
    BY DEF MatchRank
<1>5. starts \in SUBSET Matching(q)
      /\ Cardinality(starts) = (IF Cardinality(Matching(q)) < StartLimit THEN Cardinality(Matching(q)) ELSE StartLimit)
      /\ \A p \in starts, r \in Matching(q) \ starts : ~(MatchRank(r, q) < MatchRank(p, q))
    BY DEF ResolveTarget, Limited
<1>6. \A p \in starts : q \notin starts => p = q
    BY <1>2, <1>4, <1>5
<1> QED
    BY <1>2, <1>3, <1>5, <1>6, FirstIsLeft

-----------------------------------------------------------------------------
(* GraphQueries: the blast walk. *)

\* An order of a set holds all of it.
LEMMA OrderCovers ==
    ASSUME NEW S, IsFiniteSet(S), NEW s \in Orders(S)
    PROVE  s \in Seq(S) /\ {s[i] : i \in DOMAIN s} = S
<1> DEFINE n == Cardinality(S)
           T == {s[i] : i \in DOMAIN s}
<1>1. n \in Nat /\ s \in [1 .. n -> S] /\ \A i, j \in 1 .. n : s[i] = s[j] => i = j
    BY FS_CardinalityType DEF Orders
<1>2. s \in Seq(S) /\ T \subseteq S /\ DOMAIN s = 1 .. n
    BY <1>1
<1>3. IsFiniteSet(1 .. n) /\ Cardinality(1 .. n) = n
    BY <1>1, FS_Interval
<1>4. s \in Bijection(1 .. n, T)
    BY <1>1, <1>2 DEF Bijection, Injection, Surjection, IsInjective
<1>5. Cardinality(T) = n /\ IsFiniteSet(T)
  <2> HIDE DEF T, n
  <2> QED
      BY <1>3, <1>4, FS_Bijection DEF ExistsBijection
<1>6. T = S
  <2> HIDE DEF T
  <2> QED
      BY <1>2, <1>5, FS_Subset
<1> QED
    BY <1>2, <1>6

\* A larger distance takes in more.
LEMMA BallGrows ==
    ASSUME graph \subseteq QNames \X QNames, NEW starts, AreNames(starts), NEW D \in Nat, NEW i \in 0 .. D, NEW j \in 0 .. D, i <= j
    PROVE  Ball(starts, D)[i] \subseteq Ball(starts, D)[j]
<1> DEFINE ball == Ball(starts, D)
           T == {n \in Nat : n \in i .. D /\ ~(ball[i] \subseteq ball[n])}
<1>1. \A d \in 1 .. D : ball[d - 1] \subseteq ball[d]
  <2> HIDE DEF ball
  <2>1. \A d \in 1 .. D : ball[d] = ball[d - 1] \cup UNION {Consumers(n) : n \in ball[d - 1]}
      BY BallLevels DEF ball
  <2> QED
      BY <2>1
<1> HIDE DEF ball
<1>2. T = {}
  <2> SUFFICES ASSUME T # {} PROVE FALSE
      OBVIOUS
  <2>1. T \subseteq Nat
      OBVIOUS
  <2>2. PICK n \in T : \A y \in T : n <= y
    <3> HIDE DEF T
    <3> QED
        BY <2>1, LeastNumber
  <2>3. n # i /\ n \in Nat /\ n \in i .. D /\ ~(ball[i] \subseteq ball[n])
      BY <2>2
  <2>4. n - 1 \in Nat /\ n - 1 \in i .. D /\ n \in 1 .. D
      BY <2>3
  <2>5. n - 1 \notin T
    <3> HIDE DEF T
    <3> QED
        BY <2>2, <2>3, <2>4
  <2>6. ball[i] \subseteq ball[n - 1]
      BY <2>4, <2>5
  <2> QED
      BY <1>1, <2>3, <2>4, <2>6
<1>3. ball[i] \subseteq ball[j]
    BY <1>2
<1> QED
    BY <1>3 DEF ball

\* Who has the nearer ones worked off has met all that is near.
LEMMA Explored ==
    ASSUME graph \subseteq QNames \X QNames, NEW starts, AreNames(starts), NEW D \in Nat, NEW K \in 0 .. D, NEW far,
           far \in [DOMAIN far -> 0 .. D], starts \subseteq DOMAIN far,
           \A n \in DOMAIN far : n \in Ball(starts, D)[far[n]] /\ (far[n] > 0 => n \notin Ball(starts, D)[far[n] - 1]),
           \A n \in DOMAIN far : far[n] < K => Consumers(n) \subseteq DOMAIN far
    PROVE  \A k \in 0 .. K : \A n \in Ball(starts, D)[k] : n \in DOMAIN far /\ far[n] <= k
<1> DEFINE ball == Ball(starts, D)
           T == {k \in Nat : k \in 0 .. K /\ ~(\A n \in ball[k] : n \in DOMAIN far)}
<1>1. /\ ball[0] = starts
      /\ \A d \in 1 .. D : ball[d] = ball[d - 1] \cup UNION {Consumers(n) : n \in ball[d - 1]}
    BY BallLevels
<1>2. ASSUME NEW k \in 0 .. D, NEW n \in ball[k], n \in DOMAIN far PROVE far[n] <= k
  <2> SUFFICES ASSUME far[n] > k PROVE FALSE
      BY <1>2
  <2>1. far[n] \in 0 .. D /\ far[n] - 1 \in 0 .. D /\ k <= far[n] - 1 /\ n \notin ball[far[n] - 1]
      BY <1>2
  <2>2. ball[k] \subseteq ball[far[n] - 1]
      BY <2>1, BallGrows
  <2> QED
      BY <2>1, <2>2
<1> HIDE DEF ball
<1>3. T = {}
  <2> SUFFICES ASSUME T # {} PROVE FALSE
      OBVIOUS
  <2>1. T \subseteq Nat
      OBVIOUS
  <2>2. PICK k \in T : \A y \in T : k <= y
    <3> HIDE DEF T
    <3> QED
        BY <2>1, LeastNumber
  <2>3. k # 0 /\ k \in Nat /\ k \in 0 .. K
      BY <1>1, <2>2
  <2>4. k - 1 \in Nat /\ k - 1 \in 0 .. K /\ k \in 1 .. D /\ k - 1 \in 0 .. D
      BY <2>3
  <2>5. k - 1 \notin T
    <3> HIDE DEF T
    <3> QED
        BY <2>2, <2>3, <2>4
  <2>6. \A n \in ball[k - 1] : n \in DOMAIN far
      BY <2>4, <2>5
  <2>7. ASSUME NEW m \in ball[k - 1] PROVE Consumers(m) \subseteq DOMAIN far
    <3>1. m \in DOMAIN far /\ far[m] <= k - 1 /\ far[m] \in 0 .. D
        BY <1>2, <2>4, <2>6
    <3> QED
        BY <2>3, <3>1
  <2>8. ball[k] = ball[k - 1] \cup UNION {Consumers(n) : n \in ball[k - 1]}
      BY <1>1, <2>4
  <2>9. \A n \in ball[k] : n \in DOMAIN far
      BY <2>6, <2>7, <2>8
  <2> QED
      BY <2>2, <2>9
<1>4. \A k \in 0 .. K : \A n \in ball[k] : n \in DOMAIN far /\ far[n] <= k
  <2>1. \A k \in 0 .. K : \A n \in ball[k] : n \in DOMAIN far
      BY <1>3
  <2>2. \A k \in 0 .. K : k \in 0 .. D
      OBVIOUS
  <2> QED
      BY <1>2, <2>1, <2>2
<1> QED
    BY <1>4 DEF ball

\* A walk begins with what the question names.
LEMMA BlastStarted ==
    ASSUME graph \subseteq QNames \X QNames, query.depth \in Nat, NEW S \in ResolveTarget(query.target), NEW s \in Orders(S)
    PROVE  Walked([q \in S |-> 0], s)
<1> DEFINE far == [q \in S |-> 0]
           ball == Ball(S, query.depth)
<1>1. AreNames(S) /\ IsFiniteSet(S)
    BY ResolvedAreNames
<1>2. s \in Seq(S) /\ {s[i] : i \in DOMAIN s} = S
    BY <1>1, OrderCovers
<1>3. ball[0] = S
    BY <1>1, BallLevels
<1>s. Starts(far) = S
    BY DEF Starts
<1> HIDE DEF ball
<1>4. \A i \in DOMAIN s : s[i] \in S
    BY <1>2
<1>5. Walked(far, s)
  <2>1. far \in [DOMAIN far -> 0..query.depth] /\ s \in Seq(DOMAIN far) /\ Starts(far) \in ResolveTarget(query.target)
      BY <1>2, <1>s
  <2>2. \A n \in DOMAIN far : n \in ball[far[n]] /\ (far[n] > 0 => n \notin ball[far[n] - 1])
      BY <1>3
  <2>3. \A i, j \in DOMAIN s : i < j => far[s[i]] <= far[s[j]] /\ far[s[j]] <= far[s[i]] + 1
      BY <1>4
  <2>4. DOMAIN far \ {s[i] : i \in DOMAIN s} = {}
      BY <1>2
  <2> HIDE DEF far
  <2> QED
      BY <1>s, <2>1, <2>2, <2>3, <2>4 DEF Walked, ball
<1> QED
    BY <1>5

\* The distances, once the head of the queue has met the nodes `new`.
Met(far, queue, new) == [q \in DOMAIN far \cup new |-> IF q \in new THEN far[Head(queue)] + 1 ELSE far[q]]

\* Every turn of the walk keeps what was found so far exact.
LEMMA BlastPopped ==
    ASSUME graph \subseteq QNames \X QNames, query.depth \in Nat, NEW far, NEW queue, Walked(far, queue), queue # <<>>,
           NEW new, new = IF far[Head(queue)] >= query.depth THEN {} ELSE Consumers(Head(queue)) \ DOMAIN far,
           NEW s \in Orders(new)
    PROVE  Walked(Met(far, queue, new), Tail(queue) \o s)
<1> SUFFICES Walked([q \in DOMAIN far \cup new |-> IF q \in new THEN far[Head(queue)] + 1 ELSE far[q]], Tail(queue) \o s)
    BY DEF Met
<1> DEFINE D == query.depth
           node == Head(queue)
           K == far[node]
           starts == Starts(far)
           ball == Ball(starts, D)
           far2 == [q \in DOMAIN far \cup new |-> IF q \in new THEN far[node] + 1 ELSE far[q]]
           queue2 == Tail(queue) \o s
           queued == {queue[i] : i \in DOMAIN queue}
           queued2 == {queue2[i] : i \in DOMAIN queue2}
<1>1. /\ far \in [DOMAIN far -> 0 .. D] /\ queue \in Seq(DOMAIN far)
      /\ starts \in ResolveTarget(query.target) /\ starts \subseteq DOMAIN far
    BY DEF Walked, Starts
<1>2. \A n \in DOMAIN far : n \in ball[far[n]] /\ (far[n] > 0 => n \notin ball[far[n] - 1])
    BY DEF Walked
<1>3. \A i, j \in DOMAIN queue : i < j => far[queue[i]] <= far[queue[j]] /\ far[queue[j]] <= far[queue[i]] + 1
    BY DEF Walked
<1>4. \A n \in DOMAIN far \ queued :
         (\A q \in queued : far[n] <= far[q]) /\ (far[n] < D => Consumers(n) \subseteq DOMAIN far)
    BY DEF Walked
<1>r. AreNames(starts)
    BY <1>1, ResolvedAreNames
<1>5. ball \in [0 .. D -> SUBSET QNames] /\ \A d \in 1 .. D : ball[d] = ball[d - 1] \cup UNION {Consumers(n) : n \in ball[d - 1]}
    BY <1>r, BallLevels
<1>6. IsFiniteSet(new) /\ new \subseteq QNames
  <2>1. \A n : Consumers(n) \subseteq QNames
      BY DEF Consumers
  <2>2. new \subseteq QNames
      BY <2>1
  <2> QED
      BY <2>2, GraphAssumption, FS_Subset
<1>7. s \in Seq(new) /\ {s[i] : i \in DOMAIN s} = new
    BY <1>6, OrderCovers
<1>8. Len(queue) \in Nat /\ Len(queue) >= 1 /\ node = queue[1] /\ node \in DOMAIN far /\ K \in 0 .. D
      /\ DOMAIN queue = 1 .. Len(queue) /\ DOMAIN s = 1 .. Len(s) /\ Len(s) \in Nat
  <2>1. Len(queue) \in Nat /\ Len(queue) >= 1 /\ node = queue[1] /\ DOMAIN queue = 1 .. Len(queue)
      BY <1>1
  <2>2. node \in DOMAIN far
      BY <1>1, <2>1
  <2> QED
      BY <1>1, <1>7, <2>1, <2>2
<1>9. /\ DOMAIN queue2 = 1 .. Len(queue) - 1 + Len(s)
      /\ \A i \in DOMAIN queue2 : queue2[i] = IF i <= Len(queue) - 1 THEN queue[i + 1] ELSE s[i - (Len(queue) - 1)]
  <2>1. Tail(queue) \in Seq(DOMAIN far) /\ Len(Tail(queue)) = Len(queue) - 1
        /\ \A i \in 1 .. Len(queue) - 1 : Tail(queue)[i] = queue[i + 1]
      BY <1>1, <1>8
  <2> DEFINE tl == Tail(queue)
  <2> HIDE DEF tl
  <2>2. tl \in Seq(DOMAIN far) /\ Len(tl) = Len(queue) - 1
        /\ \A i \in 1 .. Len(queue) - 1 : tl[i] = queue[i + 1]
      BY <2>1 DEF tl
  <2>3. /\ DOMAIN (tl \o s) = 1 .. Len(queue) - 1 + Len(s)
        /\ \A i \in DOMAIN (tl \o s) : (tl \o s)[i] = IF i <= Len(queue) - 1 THEN queue[i + 1] ELSE s[i - (Len(queue) - 1)]
    <3>1. tl \in Seq(DOMAIN far \cup new) /\ s \in Seq(DOMAIN far \cup new)
        BY <1>7, <2>2
    <3>2. /\ Len(tl \o s) = Len(tl) + Len(s) /\ tl \o s \in Seq(DOMAIN far \cup new)
          /\ \A i \in 1 .. Len(tl) + Len(s) : (tl \o s)[i] = IF i <= Len(tl) THEN tl[i] ELSE s[i - Len(tl)]
        BY <3>1, ConcatProperties
    <3>3. DOMAIN (tl \o s) = 1 .. Len(queue) - 1 + Len(s)
        BY <2>2, <3>2
    <3>4. ASSUME NEW i \in 1 .. Len(queue) - 1 + Len(s)
          PROVE  (tl \o s)[i] = IF i <= Len(queue) - 1 THEN queue[i + 1] ELSE s[i - (Len(queue) - 1)]
      <4>1. i \in 1 .. Len(tl) + Len(s) /\ (i <= Len(queue) - 1 => i \in 1 .. Len(queue) - 1)
          BY <1>8, <2>2
      <4>2. (tl \o s)[i] = IF i <= Len(tl) THEN tl[i] ELSE s[i - Len(tl)]
          BY <3>2, <4>1
      <4> QED
          BY <2>2, <4>1, <4>2
    <3> QED
        BY <3>3, <3>4
  <2> QED
      BY <2>3 DEF tl
<1>10. new # {} => K < D /\ new = Consumers(node) \ DOMAIN far
    BY <1>8
<1>11. \A i \in DOMAIN queue : queue[i] \in DOMAIN far /\ K <= far[queue[i]] /\ far[queue[i]] <= K + 1
  <2> SUFFICES ASSUME NEW i \in DOMAIN queue
               PROVE  queue[i] \in DOMAIN far /\ K <= far[queue[i]] /\ far[queue[i]] <= K + 1
      OBVIOUS
  <2>1. queue[i] \in DOMAIN far
      BY <1>1
  <2>2. CASE i = 1
      BY <1>8, <2>1, <2>2
  <2>3. CASE i # 1
      BY <1>3, <1>8, <2>1, <2>3
  <2> QED
      BY <2>2, <2>3
<1>12. \A n \in DOMAIN far : far[n] < K => Consumers(n) \subseteq DOMAIN far
  <2> SUFFICES ASSUME NEW n \in DOMAIN far, far[n] < K PROVE Consumers(n) \subseteq DOMAIN far
      OBVIOUS
  <2>1. far[n] \in 0 .. D
      BY <1>1
  <2>2. n \notin queued
      BY <1>8, <1>11, <2>1
  <2> QED
      BY <1>4, <1>8, <2>1, <2>2
<1>13. \A n \in ball[K] : n \in DOMAIN far
  <2>1. \A k \in 0 .. K : \A n \in ball[k] : n \in DOMAIN far /\ far[n] <= k
      BY <1>1, <1>2, <1>8, <1>12, <1>r, Explored
  <2> QED
      BY <1>8, <2>1
<1>14. ASSUME NEW c \in new PROVE K + 1 \in 0 .. D /\ c \in ball[K + 1] /\ c \notin ball[K] /\ c \notin DOMAIN far
  <2>1. K < D /\ c \in Consumers(node) /\ c \notin DOMAIN far
      BY <1>10
  <2>2. node \in ball[K]
      BY <1>2, <1>8
  <2>3. K + 1 \in 1 .. D /\ (K + 1) - 1 = K
      BY <1>8, <2>1
  <2>4. ball[K + 1] = ball[(K + 1) - 1] \cup UNION {Consumers(n) : n \in ball[(K + 1) - 1]}
      BY <1>5, <2>3
  <2>5. ball[K + 1] = ball[K] \cup UNION {Consumers(n) : n \in ball[K]}
      BY <2>3, <2>4
  <2> QED
      BY <1>13, <2>1, <2>2, <2>3, <2>5
<1> HIDE DEF ball, queue2, starts
<1>15. \A n \in DOMAIN far : n \notin new /\ far2[n] = far[n] /\ far[n] \in 0 .. D
    BY <1>1, <1>14
<1>16. \A n \in new : far2[n] = K + 1
    OBVIOUS
<1>17. DOMAIN far2 = DOMAIN far \cup new
    OBVIOUS
<1> HIDE DEF far2, node, K
<1>18. far2 \in [DOMAIN far2 -> 0 .. D]
  <2>1. \A n \in DOMAIN far2 : far2[n] \in 0 .. D
      BY <1>14, <1>15, <1>16, <1>17
  <2>2. far2 = [n \in DOMAIN far2 |-> far2[n]]
      BY DEF far2
  <2> QED
      BY <2>1, <2>2
<1>19. \A i \in DOMAIN queue2 :
          \/ /\ i <= Len(queue) - 1 /\ i + 1 \in DOMAIN queue /\ queue2[i] = queue[i + 1]
             /\ queue2[i] \in DOMAIN far /\ far2[queue2[i]] = far[queue[i + 1]]
          \/ i > Len(queue) - 1 /\ queue2[i] \in new /\ far2[queue2[i]] = K + 1
  <2> SUFFICES ASSUME NEW i \in DOMAIN queue2
               PROVE  \/ /\ i <= Len(queue) - 1 /\ i + 1 \in DOMAIN queue /\ queue2[i] = queue[i + 1]
                         /\ queue2[i] \in DOMAIN far /\ far2[queue2[i]] = far[queue[i + 1]]
                      \/ i > Len(queue) - 1 /\ queue2[i] \in new /\ far2[queue2[i]] = K + 1
      OBVIOUS
  <2>1. CASE i <= Len(queue) - 1
    <3>1. i + 1 \in DOMAIN queue /\ queue2[i] = queue[i + 1]
        BY <1>8, <1>9, <2>1
    <3> QED
        BY <1>11, <1>15, <2>1, <3>1
  <2>2. CASE i > Len(queue) - 1
    <3>1. i - (Len(queue) - 1) \in DOMAIN s /\ queue2[i] = s[i - (Len(queue) - 1)]
        BY <1>8, <1>9, <2>2
    <3> QED
        BY <1>7, <1>16, <2>2, <3>1
  <2> QED
      BY <1>8, <1>9, <2>1, <2>2
<1>20. queue2 \in Seq(DOMAIN far2)
  <2>1. Tail(queue) \in Seq(DOMAIN far \cup new) /\ s \in Seq(DOMAIN far \cup new)
      BY <1>1, <1>7, <1>8
  <2>2. queue2 \in Seq(DOMAIN far \cup new)
      BY <2>1, ConcatProperties DEF queue2
  <2> QED
      BY <1>17, <2>2
<1>21. \A n \in DOMAIN far2 : n \in ball[far2[n]] /\ (far2[n] > 0 => n \notin ball[far2[n] - 1])
  <2> SUFFICES ASSUME NEW n \in DOMAIN far2 PROVE n \in ball[far2[n]] /\ (far2[n] > 0 => n \notin ball[far2[n] - 1])
      OBVIOUS
  <2>1. CASE n \in new
    <3>1. (K + 1) - 1 = K
        BY <1>8 DEF K
    <3> QED
        BY <1>14, <1>16, <2>1, <3>1
  <2>2. CASE n \in DOMAIN far
      BY <1>2, <1>15, <2>2
  <2> QED
      BY <1>17, <2>1, <2>2
<1>22. ASSUME NEW i \in DOMAIN queue2, NEW j \in DOMAIN queue2, i < j
       PROVE  far2[queue2[i]] <= far2[queue2[j]] /\ far2[queue2[j]] <= far2[queue2[i]] + 1
  <2>1. K \in 0 .. D
      BY <1>8 DEF K
  <2>2. CASE j <= Len(queue) - 1
    <3>1. i + 1 \in DOMAIN queue /\ j + 1 \in DOMAIN queue /\ i + 1 < j + 1
          /\ far2[queue2[i]] = far[queue[i + 1]] /\ far2[queue2[j]] = far[queue[j + 1]]
        BY <1>8, <1>9, <1>19, <1>22, <2>2
    <3> QED
        BY <1>3, <3>1
  <2>3. CASE j > Len(queue) - 1 /\ i <= Len(queue) - 1
    <3>1. far2[queue2[j]] = K + 1 /\ i + 1 \in DOMAIN queue /\ far2[queue2[i]] = far[queue[i + 1]]
        BY <1>8, <1>9, <1>19, <2>3
    <3>2. queue[i + 1] \in DOMAIN far /\ K <= far[queue[i + 1]] /\ far[queue[i + 1]] <= K + 1 /\ far[queue[i + 1]] \in 0 .. D
        BY <1>11, <1>15, <3>1
    <3> QED
        BY <2>1, <3>1, <3>2
  <2>4. CASE i > Len(queue) - 1
    <3>1. far2[queue2[j]] = K + 1 /\ far2[queue2[i]] = K + 1
        BY <1>8, <1>9, <1>19, <1>22, <2>4
    <3> QED
        BY <2>1, <3>1
  <2> QED
      BY <1>8, <1>9, <2>2, <2>3, <2>4
<1>23. ASSUME NEW n \in DOMAIN far2 \ queued2
       PROVE  (\A q \in queued2 : far2[n] <= far2[q]) /\ (far2[n] < D => Consumers(n) \subseteq DOMAIN far2)
  <2>1. K \in 0 .. D
      BY <1>8 DEF K
  <2>2. new \subseteq queued2
    <3> SUFFICES ASSUME NEW c \in new PROVE c \in queued2
        OBVIOUS
    <3>1. PICK k \in DOMAIN s : s[k] = c
        BY <1>7
    <3>2. k + (Len(queue) - 1) \in DOMAIN queue2 /\ queue2[k + (Len(queue) - 1)] = c
        BY <1>8, <1>9, <3>1
    <3> QED
        BY <3>2
  <2>3. \A i \in DOMAIN queue : i # 1 => queue[i] \in queued2
    <3> SUFFICES ASSUME NEW i \in DOMAIN queue, i # 1 PROVE queue[i] \in queued2
        OBVIOUS
    <3>1. i - 1 \in DOMAIN queue2 /\ queue2[i - 1] = queue[i]
        BY <1>8, <1>9
    <3> QED
        BY <3>1
  <2>4. n \in DOMAIN far /\ far2[n] = far[n] /\ far[n] \in 0 .. D /\ (n \in queued => n = node)
    <3>1. n \in DOMAIN far
        BY <1>17, <2>2
    <3>2. n \in queued => n = node
        BY <1>8, <2>3
    <3> QED
        BY <1>15, <3>1, <3>2
  <2>5. far[n] <= K
      BY <1>4, <1>8, <2>1, <2>4 DEF K
  <2>6. ASSUME NEW i \in DOMAIN queue2 PROVE far2[n] <= far2[queue2[i]]
    <3>1. CASE i > Len(queue) - 1
        BY <1>8, <1>9, <1>19, <2>1, <2>4, <2>5, <3>1
    <3>2. CASE i <= Len(queue) - 1
      <4>1. i + 1 \in DOMAIN queue /\ far2[queue2[i]] = far[queue[i + 1]]
          BY <1>8, <1>9, <1>19, <3>2
      <4>2. queue[i + 1] \in DOMAIN far /\ K <= far[queue[i + 1]] /\ far[queue[i + 1]] \in 0 .. D
          BY <1>11, <1>15, <4>1
      <4> QED
          BY <2>1, <2>4, <2>5, <4>1, <4>2
    <3> QED
        BY <1>8, <1>9, <3>1, <3>2
  <2>7. far2[n] < D => Consumers(n) \subseteq DOMAIN far2
    <3>1. CASE n \in queued
      <4>1. K < D => new = Consumers(node) \ DOMAIN far
          BY <1>8, <2>1 DEF K, node
      <4> QED
          BY <1>17, <2>4, <3>1, <4>1 DEF K
    <3>2. CASE n \notin queued
        BY <1>4, <1>17, <2>4, <3>2
    <3> QED
        BY <3>1, <3>2
  <2> QED
      BY <2>6, <2>7
<1>24. Starts(far2) = starts
  <2>1. K + 1 # 0
      BY <1>8 DEF K
  <2> QED
      BY <1>15, <1>16, <1>17, <2>1 DEF Starts, starts
<1> HIDE DEF queued2
<1>25. Walked(far2, queue2)
  <2>1. \A i, j \in DOMAIN queue2 : i < j => far2[queue2[i]] <= far2[queue2[j]] /\ far2[queue2[j]] <= far2[queue2[i]] + 1
      BY <1>22
  <2>2. \A n \in DOMAIN far2 \ queued2 :
          (\A q \in queued2 : far2[n] <= far2[q]) /\ (far2[n] < D => Consumers(n) \subseteq DOMAIN far2)
      BY <1>23
  <2> QED
      BY <1>1, <1>18, <1>20, <1>21, <1>24, <2>1, <2>2, Zenon DEF Walked, ball, queued2
<1> QED
    BY <1>25 DEF far2, queue2, node

\* A walk that is over found all within its depth.
LEMMA BlastEnds ==
    ASSUME graph \subseteq QNames \X QNames, query.depth \in Nat, NEW far, Walked(far, <<>>)
    PROVE  LET ball == Ball(Starts(far), query.depth)
           IN /\ Starts(far) \in ResolveTarget(query.target) /\ DOMAIN far = ball[query.depth]
              /\ \A n \in DOMAIN far : n \in ball[far[n]] /\ (far[n] > 0 => n \notin ball[far[n] - 1])
<1> DEFINE D == query.depth
           starts == Starts(far)
           ball == Ball(starts, D)
<1>1. /\ far \in [DOMAIN far -> 0 .. D] /\ starts \in ResolveTarget(query.target) /\ starts \subseteq DOMAIN far
      /\ \A n \in DOMAIN far : n \in ball[far[n]] /\ (far[n] > 0 => n \notin ball[far[n] - 1])
    BY DEF Walked, Starts
<1>r. AreNames(starts)
    BY <1>1, ResolvedAreNames
<1> HIDE DEF starts
<1>2. \A n \in DOMAIN far : far[n] < D => Consumers(n) \subseteq DOMAIN far
    BY DEF Walked
<1>3. \A n \in ball[D] : n \in DOMAIN far
  <2>1. D \in 0 .. D
      OBVIOUS
  <2>2. \A k \in 0 .. D : \A n \in ball[k] : n \in DOMAIN far /\ far[n] <= k
      BY <1>1, <1>2, <1>r, <2>1, Explored
  <2> QED
      BY <2>1, <2>2
<1>4. \A n \in DOMAIN far : n \in ball[D]
  <2> SUFFICES ASSUME NEW n \in DOMAIN far PROVE n \in ball[D]
      OBVIOUS
  <2>1. far[n] \in 0 .. D /\ D \in 0 .. D /\ far[n] <= D
      BY <1>1
  <2>2. ball[far[n]] \subseteq ball[D]
      BY <1>r, <2>1, BallGrows
  <2> QED
      BY <1>1, <2>2
<1> QED
    BY <1>1, <1>3, <1>4 DEF starts

-----------------------------------------------------------------------------
(* GraphQueries: Tarjan's algorithm. *)

\* What the graph alone decides does not change.
LEMMA EdgesStay ==
    ASSUME graph' = graph
    PROVE  /\ AllNodes' = AllNodes
           /\ \A a : Succ(a)' = Succ(a)
           /\ \A a, b : Reaches(a, b)' = Reaches(a, b)
           /\ \A C : Component(C)' = Component(C)
<1>1. AllNodes' = AllNodes
    BY DEF AllNodes
<1>2. ASSUME NEW a PROVE Succ(a)' = Succ(a)
    BY DEF Succ
<1>3. ASSUME NEW a, NEW b PROVE Reaches(a, b)' = Reaches(a, b)
    BY DEF Reaches, CallGraph, NextOf
<1>4. ASSUME NEW C PROVE Component(C)' = Component(C)
    BY <1>1, <1>3 DEF Component
<1> QED
    BY <1>1, <1>2, <1>3, <1>4

\* The parts of the state.
LEMMA TarjanShape ==
    ASSUME TarjanTypeOK
    PROVE  /\ tarjan = [index |-> tarjan.index, indices |-> tarjan.indices, low |-> tarjan.low,
                        stack |-> tarjan.stack, work |-> tarjan.work, out |-> tarjan.out]
           /\ tarjan.index \in Nat /\ tarjan.indices \in [DOMAIN tarjan.indices -> Nat]
           /\ tarjan.low \in [DOMAIN tarjan.indices -> Nat]
           /\ tarjan.stack \in Seq(DOMAIN tarjan.indices) /\ tarjan.out \in SUBSET SUBSET AllNodes
           /\ tarjan.work \in Seq([v : DOMAIN tarjan.indices, left : SUBSET AllNodes])
           /\ DOMAIN tarjan.indices \subseteq AllNodes
           /\ \A x \in DOMAIN tarjan.indices : tarjan.indices[x] < tarjan.index
           /\ Stacked \subseteq DOMAIN tarjan.indices
           /\ Len(tarjan.work) \in Nat /\ DOMAIN tarjan.work = 1 .. Len(tarjan.work)
           /\ Len(tarjan.stack) \in Nat /\ DOMAIN tarjan.stack = 1 .. Len(tarjan.stack)
           /\ \A i \in DOMAIN tarjan.work : /\ FrameAt(i) \in DOMAIN tarjan.indices
                                            /\ tarjan.work[i] = [v |-> FrameAt(i), left |-> tarjan.work[i].left]
                                            /\ tarjan.work[i] \in [v : DOMAIN tarjan.indices, left : SUBSET AllNodes]
<1>1. /\ tarjan = [index |-> tarjan.index, indices |-> tarjan.indices, low |-> tarjan.low,
                   stack |-> tarjan.stack, work |-> tarjan.work, out |-> tarjan.out]
      /\ tarjan.index \in Nat /\ tarjan.indices \in [DOMAIN tarjan.indices -> Nat]
      /\ tarjan.low \in [DOMAIN tarjan.indices -> Nat]
      /\ tarjan.stack \in Seq(DOMAIN tarjan.indices) /\ tarjan.out \in SUBSET SUBSET AllNodes
      /\ tarjan.work \in Seq([v : DOMAIN tarjan.indices, left : SUBSET AllNodes])
    BY DEF TarjanTypeOK
<1>2. /\ DOMAIN tarjan.indices \subseteq AllNodes
      /\ \A x \in DOMAIN tarjan.indices : tarjan.indices[x] < tarjan.index
    BY DEF TarjanTypeOK
<1>3. Stacked \subseteq DOMAIN tarjan.indices
    BY <1>1 DEF Stacked
<1>4. /\ Len(tarjan.work) \in Nat /\ DOMAIN tarjan.work = 1 .. Len(tarjan.work)
      /\ Len(tarjan.stack) \in Nat /\ DOMAIN tarjan.stack = 1 .. Len(tarjan.stack)
    BY <1>1
<1>5. ASSUME NEW i \in DOMAIN tarjan.work
      PROVE  /\ FrameAt(i) \in DOMAIN tarjan.indices
             /\ tarjan.work[i] = [v |-> FrameAt(i), left |-> tarjan.work[i].left]
             /\ tarjan.work[i] \in [v : DOMAIN tarjan.indices, left : SUBSET AllNodes]
  <2> DEFINE S == [v : DOMAIN tarjan.indices, left : SUBSET AllNodes]
  <2>1. tarjan.work[i] \in S
    <3> HIDE DEF S
    <3>1. tarjan.work \in Seq(S) /\ i \in 1 .. Len(tarjan.work)
        BY <1>1, <1>4 DEF S
    <3> QED
        BY <3>1
  <2> QED
      BY <2>1 DEF FrameAt
<1> QED
    BY <1>1, <1>2, <1>3, <1>4, <1>5

\* With no work left the stack is empty.
LEMMA IdleStack ==
    ASSUME TarjanInv, tarjan.work = <<>>
    PROVE  Stacked = {} /\ tarjan.stack = <<>>
<1>1. Stacked = {}
    BY DEF TarjanInv, InOrder
<1>2. tarjan.stack \in Seq(DOMAIN tarjan.indices)
    BY TarjanShape DEF TarjanInv
<1>3. DOMAIN tarjan.stack = {}
    BY <1>1 DEF Stacked
<1>4. Len(tarjan.stack) = 0
  <2>1. Len(tarjan.stack) \in Nat /\ DOMAIN tarjan.stack = 1 .. Len(tarjan.stack)
      BY TarjanShape DEF TarjanInv
  <2>2. Len(tarjan.stack) # 0 => 1 \in DOMAIN tarjan.stack
      BY <2>1
  <2> QED
      BY <1>3, <2>2
<1> QED
    BY <1>1, <1>2, <1>4, EmptySeq

\* A new root.
LEMMA RootBegins ==
    ASSUME graph \subseteq QNames \X QNames, TarjanInv, NEW v, StrongConnect(v)
    PROVE  TarjanInv'
<1>1. /\ tarjan.work = <<>> /\ v \in AllNodes /\ v \notin DOMAIN tarjan.indices /\ graph' = graph
      /\ tarjan' = [Visit(v) EXCEPT !.work = <<[v |-> v, left |-> Succ(v)]>>]
    BY DEF StrongConnect
<1>2. Stacked = {} /\ tarjan.stack = <<>>
    BY <1>1, IdleStack
<1>3. TarjanTypeOK
    BY DEF TarjanInv
<1>4. /\ tarjan'.index = tarjan.index + 1 /\ tarjan'.indices = Put(tarjan.indices, v, tarjan.index)
      /\ tarjan'.low = Put(tarjan.low, v, tarjan.index) /\ tarjan'.stack = <<v>>
      /\ tarjan'.work = <<[v |-> v, left |-> Succ(v)]>> /\ tarjan'.out = tarjan.out
      /\ tarjan' = [index |-> tarjan'.index, indices |-> tarjan'.indices, low |-> tarjan'.low,
                    stack |-> tarjan'.stack, work |-> tarjan'.work, out |-> tarjan'.out]
  <2>1. Append(tarjan.stack, v) = <<v>>
      BY <1>2
  <2> QED
      BY <1>1, <1>3, <2>1, TarjanShape DEF Visit
<1> DEFINE D == DOMAIN tarjan.indices
           I2 == tarjan'.indices
<1>5. /\ tarjan.index \in Nat /\ tarjan.indices \in [D -> Nat] /\ tarjan.low \in [D -> Nat]
      /\ D \subseteq AllNodes /\ \A x \in D : tarjan.indices[x] < tarjan.index
    BY <1>3, TarjanShape
<1>6. /\ I2 \in [D \cup {v} -> Nat] /\ I2[v] = tarjan.index /\ \A x \in D : x # v /\ I2[x] = tarjan.indices[x]
      /\ tarjan'.low \in [D \cup {v} -> Nat] /\ tarjan'.low[v] = tarjan.index
  <2> HIDE DEF D
  <2>1. v \notin D
      BY <1>1 DEF D
  <2>2. /\ Put(tarjan.indices, v, tarjan.index) \in [D \cup {v} -> Nat]
        /\ Put(tarjan.indices, v, tarjan.index)[v] = tarjan.index
        /\ \A x \in D : x # v /\ Put(tarjan.indices, v, tarjan.index)[x] = tarjan.indices[x]
      BY <1>5, <2>1 DEF Put
  <2>3. /\ Put(tarjan.low, v, tarjan.index) \in [D \cup {v} -> Nat]
        /\ Put(tarjan.low, v, tarjan.index)[v] = tarjan.index
      BY <1>5, <2>1 DEF Put
  <2> QED
      BY <1>4, <2>2, <2>3
<1>7. Succ(v) \subseteq AllNodes
    BY DEF Succ, AllNodes
<1>8. Stacked' = {v} /\ Settled' = Settled
  <2>1. Stacked' = {v}
      BY <1>4 DEF Stacked
  <2>2. DOMAIN I2 = D \cup {v}
      BY <1>6
  <2> QED
      BY <1>1, <1>2, <2>1, <2>2 DEF Settled
<1>9. Len(tarjan'.work) = 1 /\ tarjan'.work[1].v = v /\ tarjan'.work[1].left = Succ(v) /\ DOMAIN tarjan'.work = {1}
      /\ DOMAIN tarjan'.stack = {1}
    BY <1>4
<1>10. AllNodes' = AllNodes /\ (\A a : Succ(a)' = Succ(a)) /\ (\A a, b : Reaches(a, b)' = Reaches(a, b))
       /\ \A C : Component(C)' = Component(C)
    BY <1>1, EdgesStay
<1>11. TarjanTypeOK'
  <2>1. DOMAIN I2 = D \cup {v}
      BY <1>6
  <2>2. tarjan'.stack \in Seq(DOMAIN I2) /\ tarjan'.work \in Seq([v : DOMAIN I2, left : SUBSET AllNodes])
      BY <1>4, <1>7, <2>1
  <2>3. I2 \in [DOMAIN I2 -> Nat] /\ tarjan'.low \in [DOMAIN I2 -> Nat] /\ DOMAIN I2 \subseteq AllNodes
        /\ tarjan'.index \in Nat /\ tarjan'.out \in SUBSET SUBSET AllNodes
      BY <1>1, <1>3, <1>4, <1>5, <1>6, <2>1, TarjanShape
  <2>4. \A x \in DOMAIN I2 : I2[x] < tarjan'.index
      BY <1>4, <1>5, <1>6, <2>1
  <2>5. tarjan' \in [index : Nat, indices : [DOMAIN I2 -> Nat], low : [DOMAIN I2 -> Nat],
                     stack : Seq(DOMAIN I2), out : SUBSET SUBSET AllNodes,
                     work : Seq([v : DOMAIN I2, left : SUBSET AllNodes])]
      BY <1>4, <2>2, <2>3
  <2> QED
      BY <1>10, <2>3, <2>4, <2>5 DEF TarjanTypeOK
<1>12. InOrder'
    BY <1>4, <1>6, <1>8, <1>9, <1>10 DEF InOrder, FrameAt
<1>13. StackConnected'
  <2>1. Reaches(v, v)
    <3>1. v \in QNames
        BY <1>1 DEF AllNodes
    <3> QED
        BY <3>1, ReachLaws
  <2> QED
      BY <1>8, <1>9, <1>10, <2>1 DEF StackConnected, FrameAt
<1>14. LowIsLeast'
  <2>1. Pending(v)' = Succ(v)
      BY <1>9 DEF Pending, FrameAt
  <2>2. Reaches(v, v)
    <3>1. v \in QNames
        BY <1>1 DEF AllNodes
    <3> QED
        BY <3>1, ReachLaws
  <2>3. tarjan'.low[v] = I2[v] /\ I2[v] \in Nat /\ FrameAt(1)' = v /\ Succ(v) \ Succ(v) = {}
      BY <1>5, <1>6, <1>9 DEF FrameAt
  <2> SUFFICES ASSUME NEW i, i \in DOMAIN tarjan'.work
               PROVE  /\ tarjan'.low[FrameAt(i)'] <= I2[FrameAt(i)']
                      /\ \E u \in Stacked' : I2[u] = tarjan'.low[FrameAt(i)'] /\ Reaches(FrameAt(i), u)'
                      /\ \A x : x \in Stacked' /\ I2[FrameAt(i)'] <= I2[x] /\ Before(x, i)' =>
                           \A w : w \in Succ(x)' /\ w \notin Pending(x)' =>
                              w \in DOMAIN I2 /\ (w \in Stacked' => tarjan'.low[FrameAt(i)'] <= I2[w])
      BY DEF LowIsLeast
  <2>4. FrameAt(i)' = v
      BY <1>9 DEF FrameAt
  <2>5. \A u : Reaches(FrameAt(i), u)' = Reaches(v, u)
      BY <1>1, <2>4 DEF Reaches, CallGraph, NextOf
  <2> QED
      BY <1>8, <1>10, <2>1, <2>2, <2>3, <2>4, <2>5
<1>15. \A x \in Settled' : Succ(x)' \subseteq Settled'
    BY <1>8, <1>10 DEF TarjanInv
<1>16. tarjan'.out = {C \in SUBSET Settled' : Component(C)'}
    BY <1>4, <1>8, <1>10 DEF TarjanInv
<1> QED
    BY <1>11, <1>12, <1>13, <1>14, <1>15, <1>16 DEF TarjanInv

\* What is left of a list without its top, and with another one in its place.
Retopped(S, s, e) ==
    /\ Len(s) \in Nat \ {0} /\ Top(s) = s[Len(s)] /\ Top(s) \in S
    /\ Front1(s) \in Seq(S) /\ Len(Front1(s)) = Len(s) - 1
    /\ \A i \in 1 .. Len(s) - 1 : Front1(s)[i] = s[i]
    /\ Append(Front1(s), e) \in Seq(S) /\ Len(Append(Front1(s), e)) = Len(s)
    /\ Append(Front1(s), e)[Len(s)] = e
    /\ \A i \in 1 .. Len(s) - 1 : Append(Front1(s), e)[i] = s[i]

\* The top of the work list taken off, or another frame in its place.
LEMMA TopFrame ==
    ASSUME NEW S, NEW s \in Seq(S), s # <<>>, NEW e \in S
    PROVE  Retopped(S, s, e)
<1>1. Len(s) \in Nat \ {0} /\ Top(s) = s[Len(s)] /\ Top(s) \in S
    BY EmptySeq DEF Top
<1> DEFINE f == Front1(s)
<1>2. f \in Seq(S) /\ Len(f) = Len(s) - 1 /\ \A i \in 1 .. Len(s) - 1 : f[i] = s[i]
  <2> DEFINE n == Len(s) - 1
  <2>1. 1 \in 1 .. Len(s) + 1 /\ n \in 1 - 1 .. Len(s) /\ n - 1 + 1 = n
      BY <1>1
  <2> HIDE DEF n
  <2>2. SubSeq(s, 1, n) \in Seq(S) /\ Len(SubSeq(s, 1, n)) = n - 1 + 1
        /\ \A i \in 1 .. n - 1 + 1 : SubSeq(s, 1, n)[i] = s[1 + i - 1]
      BY <2>1, SubSeqProperties
  <2>3. f = SubSeq(s, 1, n)
      BY DEF Front1, n
  <2>4. \A i \in 1 .. n : 1 + i - 1 = i
      OBVIOUS
  <2> HIDE DEF f
  <2>5. f \in Seq(S) /\ Len(f) = n /\ \A i \in 1 .. n : f[i] = s[i]
      BY <2>1, <2>2, <2>3, <2>4
  <2> QED
      BY <2>5 DEF n
<1> HIDE DEF f
<1>3. /\ Append(f, e) \in Seq(S) /\ Len(Append(f, e)) = Len(s)
      /\ Append(f, e)[Len(s)] = e
      /\ \A i \in 1 .. Len(s) - 1 : Append(f, e)[i] = s[i]
    BY <1>1, <1>2
<1> QED
    BY <1>1, <1>2, <1>3 DEF f, Retopped

\* Where the frames lead after a step that leaves the graph alone.
LEMMA FramesReach ==
    ASSUME graph' = graph, NEW i, NEW x
    PROVE  Reaches(FrameAt(i), x)' = Reaches(FrameAt(i)', x) /\ Reaches(x, FrameAt(i))' = Reaches(x, FrameAt(i)')
<1>1. Reaches(FrameAt(i), x)' = Reaches(FrameAt(i)', x)
    BY DEF Reaches, CallGraph, NextOf
<1>2. Reaches(x, FrameAt(i))' = Reaches(x, FrameAt(i)')
    BY DEF Reaches, CallGraph, NextOf
<1> QED
    BY <1>1, <1>2

\* What is left to show of the stack and of the low links.
LEMMA ConnectedNext ==
    ASSUME graph' = graph,
           \A i, x : i \in DOMAIN tarjan'.work /\ x \in Stacked' =>
              /\ tarjan'.indices[FrameAt(i)'] <= tarjan'.indices[x] => Reaches(FrameAt(i)', x)
              /\ Before(x, i)' => Reaches(x, FrameAt(i)')
    PROVE  StackConnected'
<1> SUFFICES ASSUME NEW i, i \in DOMAIN tarjan'.work, NEW x, x \in Stacked'
             PROVE  /\ tarjan'.indices[FrameAt(i)'] <= tarjan'.indices[x] => Reaches(FrameAt(i), x)'
                    /\ Before(x, i)' => Reaches(x, FrameAt(i))'
    BY DEF StackConnected
<1>1. Reaches(FrameAt(i), x)' = Reaches(FrameAt(i)', x) /\ Reaches(x, FrameAt(i))' = Reaches(x, FrameAt(i)')
    BY FramesReach
<1> QED
    BY <1>1

\* The same for the low links.
LEMMA LowNext ==
    ASSUME graph' = graph,
           \A i : i \in DOMAIN tarjan'.work =>
              /\ tarjan'.low[FrameAt(i)'] <= tarjan'.indices[FrameAt(i)']
              /\ \E u : u \in Stacked' /\ tarjan'.indices[u] = tarjan'.low[FrameAt(i)'] /\ Reaches(FrameAt(i)', u)
              /\ \A x : x \in Stacked' /\ tarjan'.indices[FrameAt(i)'] <= tarjan'.indices[x] /\ Before(x, i)' =>
                   \A w : w \in Succ(x) /\ w \notin Pending(x)' =>
                      /\ w \in DOMAIN tarjan'.indices
                      /\ w \in Stacked' => tarjan'.low[FrameAt(i)'] <= tarjan'.indices[w]
    PROVE  LowIsLeast'
<1> SUFFICES ASSUME NEW i, i \in DOMAIN tarjan'.work
             PROVE  /\ tarjan'.low[FrameAt(i)'] <= tarjan'.indices[FrameAt(i)']
                    /\ \E u : u \in Stacked' /\ tarjan'.indices[u] = tarjan'.low[FrameAt(i)'] /\ Reaches(FrameAt(i), u)'
                    /\ \A x : x \in Stacked' /\ tarjan'.indices[FrameAt(i)'] <= tarjan'.indices[x] /\ Before(x, i)' =>
                         \A w : w \in Succ(x)' /\ w \notin Pending(x)' =>
                            /\ w \in DOMAIN tarjan'.indices
                            /\ w \in Stacked' => tarjan'.low[FrameAt(i)'] <= tarjan'.indices[w]
    BY DEF LowIsLeast
<1>1. \A u : Reaches(FrameAt(i), u)' = Reaches(FrameAt(i)', u)
    BY FramesReach
<1>2. \A x : Succ(x)' = Succ(x)
    BY EdgesStay
<1> QED
    BY <1>1, <1>2

\* What TarjanInv says of one frame.
LEMMA AtFrame ==
    ASSUME graph \subseteq QNames \X QNames, TarjanInv, NEW i \in DOMAIN tarjan.work
    PROVE  /\ FrameAt(i) \in Stacked /\ FrameAt(i) \in QNames /\ tarjan.work[i].left \subseteq Succ(FrameAt(i))
           /\ tarjan.low[FrameAt(i)] <= tarjan.indices[FrameAt(i)]
           /\ \E u : u \in Stacked /\ tarjan.indices[u] = tarjan.low[FrameAt(i)] /\ Reaches(FrameAt(i), u)
           /\ \A x : x \in Stacked /\ tarjan.indices[FrameAt(i)] <= tarjan.indices[x] /\ Before(x, i) =>
                \A w : w \in Succ(x) /\ w \notin Pending(x) =>
                   w \in DOMAIN tarjan.indices /\ (w \in Stacked => tarjan.low[FrameAt(i)] <= tarjan.indices[w])
           /\ \A x \in Stacked : /\ tarjan.indices[FrameAt(i)] <= tarjan.indices[x] => Reaches(FrameAt(i), x)
                                 /\ Before(x, i) => Reaches(x, FrameAt(i))
<1>1. FrameAt(i) \in Stacked /\ tarjan.work[i].left \subseteq Succ(FrameAt(i))
    BY DEF TarjanInv, InOrder
<1>2. FrameAt(i) \in QNames
  <2>1. FrameAt(i) \in AllNodes
      BY TarjanShape DEF TarjanInv
  <2> QED
      BY <2>1 DEF AllNodes
<1>3. /\ tarjan.low[FrameAt(i)] <= tarjan.indices[FrameAt(i)]
      /\ \E u : u \in Stacked /\ tarjan.indices[u] = tarjan.low[FrameAt(i)] /\ Reaches(FrameAt(i), u)
      /\ \A x : x \in Stacked /\ tarjan.indices[FrameAt(i)] <= tarjan.indices[x] /\ Before(x, i) =>
           \A w : w \in Succ(x) /\ w \notin Pending(x) =>
              w \in DOMAIN tarjan.indices /\ (w \in Stacked => tarjan.low[FrameAt(i)] <= tarjan.indices[w])
    BY DEF TarjanInv, LowIsLeast
<1>4. \A x \in Stacked : /\ tarjan.indices[FrameAt(i)] <= tarjan.indices[x] => Reaches(FrameAt(i), x)
                         /\ Before(x, i) => Reaches(x, FrameAt(i))
    BY DEF TarjanInv, StackConnected
<1> QED
    BY <1>1, <1>2, <1>3, <1>4

\* A frame with one successor fewer.
LEMMA LessLeft ==
    ASSUME NEW A, NEW B, NEW f \in [v : A, left : SUBSET B], NEW w
    PROVE  /\ [f EXCEPT !.left = @ \ {w}] = [v |-> f.v, left |-> f.left \ {w}]
           /\ [f EXCEPT !.left = @ \ {w}] \in [v : A, left : SUBSET B]
OBVIOUS

\* A successor met for the first time.
LEMMA SuccessorIsNew ==
    ASSUME graph \subseteq QNames \X QNames, TarjanInv, NEW w, tarjan.work # <<>>, w \in Top(tarjan.work).left,
           w \notin DOMAIN tarjan.indices, graph' = graph,
           tarjan' = [Visit(w) EXCEPT !.work = Append(Append(Front1(tarjan.work), [Top(tarjan.work) EXCEPT !.left = @ \ {w}]),
                                                      [v |-> w, left |-> Succ(w)])]
    PROVE  TarjanInv'
<1>0. PICK m : m = Len(tarjan.work)
    OBVIOUS
<1> DEFINE D == DOMAIN tarjan.indices
           I == tarjan.indices
           I2 == tarjan'.indices
           frame == [Top(tarjan.work) EXCEPT !.left = @ \ {w}]
           rest == Append(Front1(tarjan.work), frame)
           S == [v : D, left : SUBSET AllNodes]
<1>1. TarjanTypeOK /\ InOrder
    BY DEF TarjanInv
<1>2. /\ tarjan.index \in Nat /\ I \in [D -> Nat] /\ tarjan.low \in [D -> Nat] /\ tarjan.stack \in Seq(D)
      /\ D \subseteq AllNodes /\ \A x \in D : I[x] < tarjan.index
      /\ tarjan.work \in Seq(S) /\ m \in Nat /\ DOMAIN tarjan.work = 1 .. m /\ Stacked \subseteq D
    BY <1>0, <1>1, TarjanShape
<1>3. m \in Nat \ {0} /\ m \in DOMAIN tarjan.work /\ Top(tarjan.work) = tarjan.work[m]
  <2>1. m # 0
      BY <1>0, <1>2, EmptySeq
  <2> QED
      BY <1>0, <1>2, <2>1 DEF Top
<1>4. /\ FrameAt(m) \in Stacked /\ FrameAt(m) \in D /\ tarjan.work[m] = [v |-> FrameAt(m), left |-> tarjan.work[m].left]
      /\ tarjan.work[m].left \subseteq AllNodes /\ tarjan.work[m].left \subseteq Succ(FrameAt(m))
  <2>1. FrameAt(m) \in Stacked /\ tarjan.work[m].left \subseteq Succ(FrameAt(m))
      BY <1>3, AtFrame
  <2> QED
      BY <1>1, <1>2, <1>3, <2>1, TarjanShape
<1>5. w \in tarjan.work[m].left /\ w \in Succ(FrameAt(m)) /\ w \in AllNodes /\ w \in QNames /\ AllNodes \subseteq QNames
    BY <1>3, <1>4 DEF AllNodes
<1>6. frame = [v |-> FrameAt(m), left |-> tarjan.work[m].left \ {w}] /\ frame \in S
  <2>1. tarjan.work[m] \in S
      BY <1>1, <1>3, TarjanShape
  <2>4. PICK top : top = tarjan.work[m]
      OBVIOUS
  <2> DEFINE less == [top EXCEPT !.left = @ \ {w}]
  <2>2. less = [v |-> top.v, left |-> top.left \ {w}] /\ less \in S
    <3>1. top \in S
        BY <2>1, <2>4
    <3> HIDE DEF D
    <3> QED
        BY <3>1, LessLeft
  <2>3. frame = less
      BY <1>3, <2>4
  <2> HIDE DEF S, frame
  <2> QED
      BY <2>2, <2>3, <2>4 DEF FrameAt
<1> HIDE DEF frame, S
<1>7. /\ rest \in Seq(S) /\ Len(rest) = m /\ rest[m] = frame /\ \A i \in 1 .. m - 1 : rest[i] = tarjan.work[i]
  <2>1. tarjan.work # <<>> /\ tarjan.work \in Seq(S) /\ frame \in S
      BY <1>2, <1>6
  <2>2. /\ rest \in Seq(S) /\ Len(rest) = Len(tarjan.work) /\ rest[Len(tarjan.work)] = frame
        /\ \A i \in 1 .. Len(tarjan.work) - 1 : rest[i] = tarjan.work[i]
    <3>1. Retopped(S, tarjan.work, frame)
        BY <2>1, TopFrame, Zenon
    <3> QED
        BY <3>1 DEF Retopped
  <2> QED
      BY <1>0, <2>2
<1> DEFINE last == [v |-> w, left |-> Succ(w)]
           S2 == [v : D \cup {w}, left : SUBSET AllNodes]
<1>8. /\ tarjan'.index = tarjan.index + 1 /\ I2 = Put(I, w, tarjan.index)
      /\ tarjan'.low = Put(tarjan.low, w, tarjan.index) /\ tarjan'.stack = Append(tarjan.stack, w)
      /\ tarjan'.work = Append(rest, last) /\ tarjan'.out = tarjan.out
      /\ tarjan' = [index |-> tarjan'.index, indices |-> I2, low |-> tarjan'.low,
                    stack |-> tarjan'.stack, work |-> tarjan'.work, out |-> tarjan'.out]
    BY <1>1, TarjanShape DEF Visit, frame
<1>9. /\ I2 \in [D \cup {w} -> Nat] /\ I2[w] = tarjan.index /\ \A x \in D : x # w /\ I2[x] = I[x]
      /\ tarjan'.low \in [D \cup {w} -> Nat] /\ tarjan'.low[w] = tarjan.index
      /\ \A x \in D : tarjan'.low[x] = tarjan.low[x]
  <2> HIDE DEF D, I
  <2>1. w \notin D
      BY DEF D
  <2>2. /\ Put(I, w, tarjan.index) \in [D \cup {w} -> Nat] /\ Put(I, w, tarjan.index)[w] = tarjan.index
        /\ \A x \in D : x # w /\ Put(I, w, tarjan.index)[x] = I[x]
      BY <1>2, <2>1 DEF Put
  <2>3. /\ Put(tarjan.low, w, tarjan.index) \in [D \cup {w} -> Nat]
        /\ Put(tarjan.low, w, tarjan.index)[w] = tarjan.index
        /\ \A x \in D : Put(tarjan.low, w, tarjan.index)[x] = tarjan.low[x]
      BY <1>2, <2>1 DEF Put
  <2> QED
      BY <1>8, <2>2, <2>3
<1>10. last \in S2 /\ S \subseteq S2
  <2>1. Succ(w) \subseteq AllNodes
      BY DEF Succ, AllNodes
  <2> QED
      BY <2>1 DEF S
<1> HIDE DEF rest, last, S2
<1>11. /\ tarjan'.work \in Seq(S2) /\ Len(tarjan'.work) = m + 1 /\ tarjan'.work[m + 1] = last
       /\ tarjan'.work[m] = frame /\ \A i \in 1 .. m - 1 : tarjan'.work[i] = tarjan.work[i]
  <2>1. rest \in Seq(S2)
      BY <1>7, <1>10
  <2>2. /\ Append(rest, last) \in Seq(S2) /\ Len(Append(rest, last)) = Len(rest) + 1
        /\ \A i \in 1 .. Len(rest) : Append(rest, last)[i] = rest[i]
        /\ Append(rest, last)[Len(rest) + 1] = last
      BY <1>10, <2>1, AppendProperties
  <2>3. tarjan'.work = Append(rest, last)
      BY <1>8
  <2>4. /\ tarjan'.work \in Seq(S2) /\ Len(tarjan'.work) = m + 1 /\ tarjan'.work[m + 1] = last
        /\ \A i \in 1 .. m : tarjan'.work[i] = rest[i]
      BY <1>7, <2>2, <2>3
  <2> QED
      BY <1>3, <1>7, <2>4
<1>12. DOMAIN tarjan'.work = 1 .. m + 1
    BY <1>11
<1>13. /\ FrameAt(m + 1)' = w
       /\ \A i : i \in 1 .. m => FrameAt(i)' = FrameAt(i) /\ FrameAt(i) \in Stacked /\ FrameAt(i) \in D
                                  /\ I2[FrameAt(i)] = I[FrameAt(i)] /\ i \in DOMAIN tarjan.work
  <2>1. FrameAt(m + 1)' = w
      BY <1>11 DEF FrameAt, last
  <2>2. ASSUME NEW i, i \in 1 .. m PROVE FrameAt(i)' = FrameAt(i)
    <3>1. CASE i = m
      <4>1. tarjan'.work[m].v = FrameAt(m)
        <5>1. frame.v = FrameAt(m)
            BY <1>6
        <5>2. tarjan'.work[m] = frame
            BY <1>11
        <5> QED
            BY <5>1, <5>2
      <4> QED
          BY <3>1, <4>1 DEF FrameAt
    <3>2. CASE i # m
        BY <1>3, <1>11, <2>2, <3>2 DEF FrameAt
    <3> QED
        BY <3>1, <3>2
  <2>3. ASSUME NEW i, i \in 1 .. m PROVE FrameAt(i) \in Stacked /\ FrameAt(i) \in D /\ I2[FrameAt(i)] = I[FrameAt(i)] /\ i \in DOMAIN tarjan.work
    <3>1. i \in DOMAIN tarjan.work
        BY <1>2, <2>3
    <3>2. FrameAt(i) \in Stacked
        BY <3>1, AtFrame
    <3> QED
        BY <1>2, <1>9, <3>1, <3>2
  <2> QED
      BY <2>1, <2>2, <2>3
<1>14. /\ DOMAIN tarjan.stack = 1 .. Len(tarjan.stack) /\ Len(tarjan.stack) \in Nat
       /\ DOMAIN tarjan'.stack = 1 .. Len(tarjan.stack) + 1
       /\ tarjan'.stack[Len(tarjan.stack) + 1] = w /\ tarjan'.stack \in Seq(D \cup {w})
       /\ \A i \in DOMAIN tarjan.stack : tarjan'.stack[i] = tarjan.stack[i] /\ tarjan.stack[i] \in Stacked
  <2>1. tarjan.stack \in Seq(D \cup {w}) /\ w \in D \cup {w}
      BY <1>2
  <2>2. /\ DOMAIN tarjan.stack = 1 .. Len(tarjan.stack) /\ Len(tarjan.stack) \in Nat
        /\ DOMAIN tarjan'.stack = 1 .. Len(tarjan.stack) + 1
        /\ tarjan'.stack[Len(tarjan.stack) + 1] = w /\ tarjan'.stack \in Seq(D \cup {w})
        /\ \A i \in DOMAIN tarjan.stack : tarjan'.stack[i] = tarjan.stack[i]
    <3>1. /\ Append(tarjan.stack, w) \in Seq(D \cup {w}) /\ Len(Append(tarjan.stack, w)) = Len(tarjan.stack) + 1
          /\ \A i \in 1 .. Len(tarjan.stack) : Append(tarjan.stack, w)[i] = tarjan.stack[i]
          /\ Append(tarjan.stack, w)[Len(tarjan.stack) + 1] = w
        BY <2>1, AppendProperties
    <3>2. DOMAIN tarjan.stack = 1 .. Len(tarjan.stack) /\ Len(tarjan.stack) \in Nat
          /\ DOMAIN Append(tarjan.stack, w) = 1 .. Len(Append(tarjan.stack, w))
        BY <2>1, <3>1
    <3>3. tarjan'.stack = Append(tarjan.stack, w)
        BY <1>8
    <3> QED
        BY <3>1, <3>2, <3>3
  <2> QED
      BY <2>2 DEF Stacked
<1>15. Stacked' = Stacked \cup {w} /\ Settled' = Settled
  <2>1. Stacked' = Stacked \cup {w}
    <3>1. Stacked' = {tarjan'.stack[i] : i \in 1 .. Len(tarjan.stack) + 1}
        BY <1>14 DEF Stacked
    <3>2. \A i \in 1 .. Len(tarjan.stack) + 1 : i \in DOMAIN tarjan.stack \/ i = Len(tarjan.stack) + 1
        BY <1>14
    <3>3. ASSUME NEW x \in Stacked PROVE x \in Stacked'
      <4>1. PICK i \in DOMAIN tarjan.stack : x = tarjan.stack[i]
          BY DEF Stacked
      <4>2. i \in 1 .. Len(tarjan.stack) + 1 /\ tarjan'.stack[i] = x
          BY <1>14, <4>1
      <4> QED
          BY <3>1, <4>2
    <3>4. w \in Stacked'
      <4>1. Len(tarjan.stack) + 1 \in 1 .. Len(tarjan.stack) + 1
          BY <1>14
      <4> QED
          BY <1>14, <3>1, <4>1
    <3>5. \A x : x \in Stacked' => x \in Stacked \cup {w}
        BY <1>14, <3>1, <3>2
    <3> QED
        BY <3>3, <3>4, <3>5
  <2>2. DOMAIN I2 = D \cup {w}
      BY <1>9
  <2> QED
      BY <1>2, <2>1, <2>2 DEF Settled
<1>16. \A x, u : u \in Pending(x) /\ u \notin Pending(x)' => u = w /\ x = FrameAt(m)
  <2> SUFFICES ASSUME NEW x, NEW u, u \in Pending(x), u \notin Pending(x)' PROVE u = w /\ x = FrameAt(m)
      OBVIOUS
  <2>1. PICK j : j \in 1 .. m /\ FrameAt(j) = x /\ u \in tarjan.work[j].left
      BY <1>2 DEF Pending
  <2>2. FrameAt(j)' = x
      BY <1>13, <2>1
  <2>3. j \in DOMAIN tarjan'.work
      BY <1>3, <1>12, <2>1
  <2>4. u \notin tarjan'.work[j].left
      BY <2>2, <2>3 DEF Pending
  <2>5. CASE j = m
      BY <1>6, <1>11, <2>1, <2>4, <2>5
  <2>6. CASE j # m
      BY <1>3, <1>11, <2>1, <2>4, <2>6
  <2> QED
      BY <2>5, <2>6
<1>17. Succ(w) \subseteq Pending(w)'
  <2>1. FrameAt(m + 1)' = w /\ m + 1 \in DOMAIN tarjan'.work /\ tarjan'.work[m + 1].left = Succ(w)
      BY <1>3, <1>11, <1>12, <1>13 DEF last
  <2> QED
      BY <2>1 DEF Pending
<1>18. \A i, x : i \in 1 .. m /\ x \in Stacked /\ Before(x, i)' => Before(x, i)
  <2> SUFFICES ASSUME NEW i, NEW x, i \in 1 .. m, x \in Stacked, Before(x, i)' PROVE Before(x, i)
      OBVIOUS
  <2>1. CASE i = m
      BY <1>0, <2>1 DEF Before
  <2>2. CASE i # m
    <3>1. i + 1 \in 1 .. m /\ i # m + 1
        BY <1>3, <2>2
    <3>2. I2[x] < I2[FrameAt(i + 1)']
        BY <1>11, <3>1 DEF Before
    <3>3. x \in D /\ I2[x] = I[x]
        BY <1>2, <1>9
    <3> QED
        BY <1>13, <3>1, <3>2, <3>3 DEF Before
  <2> QED
      BY <2>1, <2>2
<1>19. \A i : i \in 1 .. m => ~ Before(w, i)'
  <2> SUFFICES ASSUME NEW i, i \in 1 .. m, Before(w, i)' PROVE FALSE
      OBVIOUS
  <2>1. I2[w] < I2[FrameAt(i + 1)'] /\ i + 1 \in 1 .. m + 1
      BY <1>3, <1>11 DEF Before
  <2>2. CASE i = m
      BY <1>2, <1>9, <1>13, <2>1, <2>2
  <2>3. CASE i # m
    <3>1. i + 1 \in 1 .. m
        BY <1>3, <2>3
    <3> QED
        BY <1>2, <1>9, <1>13, <2>1, <3>1
  <2> QED
      BY <2>2, <2>3
<1>20. AllNodes' = AllNodes /\ (\A a : Succ(a)' = Succ(a)) /\ \A C : Component(C)' = Component(C)
    BY EdgesStay
<1>21. TarjanTypeOK'
  <2>1. DOMAIN I2 = D \cup {w}
      BY <1>9
  <2>2. /\ tarjan'.stack \in Seq(DOMAIN I2) /\ tarjan'.work \in Seq([v : DOMAIN I2, left : SUBSET AllNodes])
      BY <1>11, <1>14, <2>1 DEF S2
  <2>3. I2 \in [DOMAIN I2 -> Nat] /\ tarjan'.low \in [DOMAIN I2 -> Nat] /\ DOMAIN I2 \subseteq AllNodes
        /\ tarjan'.index \in Nat /\ tarjan'.out \in SUBSET SUBSET AllNodes
    <3>1. D \cup {w} \subseteq AllNodes /\ tarjan.out \in SUBSET SUBSET AllNodes
        BY <1>1, <1>2, <1>5, TarjanShape
    <3>2. tarjan'.index \in Nat /\ tarjan'.out \in SUBSET SUBSET AllNodes
        BY <1>2, <1>8, <3>1
    <3> HIDE DEF D, I, I2
    <3>3. I2 \in [DOMAIN I2 -> Nat] /\ tarjan'.low \in [DOMAIN I2 -> Nat]
        BY <1>9, <2>1
    <3> QED
        BY <2>1, <3>1, <3>2, <3>3
  <2>4. \A x \in DOMAIN I2 : I2[x] < tarjan'.index
      BY <1>2, <1>8, <1>9, <2>1
  <2>5. tarjan' \in [index : Nat, indices : [DOMAIN I2 -> Nat], low : [DOMAIN I2 -> Nat],
                     stack : Seq(DOMAIN I2), out : SUBSET SUBSET AllNodes,
                     work : Seq([v : DOMAIN I2, left : SUBSET AllNodes])]
      BY <1>8, <2>2, <2>3
  <2> QED
      BY <1>20, <2>3, <2>4, <2>5 DEF TarjanTypeOK
<1>22. InOrder'
  <2>1. ASSUME NEW i, NEW j, i \in DOMAIN tarjan'.stack, j \in DOMAIN tarjan'.stack, i < j
        PROVE  I2[tarjan'.stack[i]] < I2[tarjan'.stack[j]]
    <3>1. i \in DOMAIN tarjan.stack /\ tarjan'.stack[i] = tarjan.stack[i] /\ tarjan.stack[i] \in D
          /\ I2[tarjan.stack[i]] = I[tarjan.stack[i]]
      <4>1. i \in DOMAIN tarjan.stack
          BY <1>14, <2>1
      <4> QED
          BY <1>2, <1>9, <1>14, <4>1
    <3>2. CASE j \in DOMAIN tarjan.stack
      <4>1. tarjan'.stack[j] = tarjan.stack[j] /\ tarjan.stack[j] \in D /\ I2[tarjan.stack[j]] = I[tarjan.stack[j]]
          BY <1>2, <1>9, <1>14, <3>2
      <4> QED
          BY <1>1, <2>1, <3>1, <3>2, <4>1 DEF InOrder
    <3>3. CASE j = Len(tarjan.stack) + 1
        BY <1>2, <1>9, <1>14, <3>1, <3>3
    <3> QED
        BY <1>14, <2>1, <3>2, <3>3
  <2>2. ASSUME NEW i, NEW j, i \in DOMAIN tarjan'.work, j \in DOMAIN tarjan'.work, i < j
        PROVE  I2[FrameAt(i)'] < I2[FrameAt(j)']
    <3>1. i \in 1 .. m
        BY <1>12, <1>3, <2>2
    <3>2. CASE j \in 1 .. m
        BY <1>1, <1>2, <1>13, <2>2, <3>1, <3>2 DEF InOrder
    <3>3. CASE j = m + 1
        BY <1>2, <1>9, <1>13, <3>1, <3>3
    <3> QED
        BY <1>3, <1>12, <2>2, <3>2, <3>3
  <2>3. ASSUME NEW i, i \in DOMAIN tarjan'.work
        PROVE  FrameAt(i)' \in Stacked' /\ tarjan'.work[i].left \subseteq Succ(FrameAt(i)')
    <3>1. CASE i = m + 1
        BY <1>11, <1>13, <1>15, <3>1 DEF last
    <3>2. CASE i = m
        BY <1>3, <1>4, <1>6, <1>11, <1>13, <1>15, <3>2
    <3>3. CASE i \in 1 .. m - 1
      <4>1. i \in 1 .. m
          BY <1>3, <3>3
      <4>2. tarjan.work[i].left \subseteq Succ(FrameAt(i))
          BY <1>13, <4>1, AtFrame
      <4> QED
          BY <1>11, <1>13, <1>15, <3>3, <4>1, <4>2
    <3> QED
        BY <1>3, <1>12, <2>3, <3>1, <3>2, <3>3
  <2>4. ASSUME NEW x, x \in Stacked' PROVE tarjan'.work # <<>> /\ I2[FrameAt(1)'] <= I2[x]
    <3>1. tarjan'.work # <<>> /\ 1 \in 1 .. m
        BY <1>3, <1>11
    <3>2. FrameAt(1)' = FrameAt(1) /\ FrameAt(1) \in D /\ I2[FrameAt(1)] = I[FrameAt(1)]
        BY <1>13, <3>1
    <3>3. CASE x = w
        BY <1>2, <1>9, <3>1, <3>2, <3>3
    <3>4. CASE x \in Stacked
      <4>1. I[FrameAt(1)] <= I[x] /\ I2[x] = I[x]
          BY <1>1, <1>2, <1>9, <3>4 DEF InOrder
      <4> QED
          BY <3>1, <3>2, <4>1
    <3> QED
        BY <1>15, <2>4, <3>3, <3>4
  <2>5. \A i : Succ(FrameAt(i))' = Succ(FrameAt(i)')
      BY DEF Succ
  <2> QED
      BY <2>1, <2>2, <2>3, <2>4, <2>5 DEF InOrder
<1>23. Reaches(FrameAt(m), w) /\ Reaches(w, w)
  <2>1. FrameAt(m) \in QNames
      BY <1>3, AtFrame
  <2> QED
      BY <1>5, <2>1, ReachLaws
<1>24. \A x, y : Reaches(x, FrameAt(m)) /\ x \in Stacked => Reaches(x, w)
  <2>1. FrameAt(m) \in QNames /\ Stacked \subseteq QNames
      BY <1>2, <1>3, <1>5, AtFrame
  <2> QED
      BY <1>5, <1>23, <2>1, ReachLaws
<1>25. StackConnected'
  <2> SUFFICES ASSUME NEW i, NEW x, i \in DOMAIN tarjan'.work, x \in Stacked'
               PROVE  /\ I2[FrameAt(i)'] <= I2[x] => Reaches(FrameAt(i)', x)
                      /\ Before(x, i)' => Reaches(x, FrameAt(i)')
      BY ConnectedNext
  <2>1. CASE i \in 1 .. m /\ x \in Stacked
    <3>1. /\ I[FrameAt(i)] <= I[x] => Reaches(FrameAt(i), x)
          /\ Before(x, i) => Reaches(x, FrameAt(i))
        BY <1>13, <2>1, AtFrame
    <3>2. I2[x] = I[x]
        BY <1>2, <1>9, <2>1
    <3> QED
        BY <1>13, <1>18, <2>1, <3>1, <3>2
  <2>2. CASE i \in 1 .. m /\ x = w
    <3>1. I[FrameAt(i)] <= I[FrameAt(m)]
      <4>1. CASE i = m
          BY <1>2, <1>4, <4>1
      <4>2. CASE i # m
        <5>1. i < m /\ i \in DOMAIN tarjan.work
            BY <1>2, <1>3, <2>2, <4>2
        <5>2. I[FrameAt(i)] < I[FrameAt(m)] /\ I[FrameAt(i)] \in Nat /\ I[FrameAt(m)] \in Nat
            BY <1>1, <1>2, <1>3, <1>4, <1>13, <2>2, <5>1 DEF InOrder
        <5> QED
            BY <5>2
      <4> QED
          BY <4>1, <4>2
    <3>2. Reaches(FrameAt(i), FrameAt(m))
        BY <1>4, <1>13, <2>2, <3>1, AtFrame
    <3> QED
        BY <1>13, <1>19, <1>24, <2>2, <3>2
  <2>3. CASE i = m + 1 /\ x \in Stacked
    <3>1. ~ (I2[FrameAt(i)'] <= I2[x])
        BY <1>2, <1>9, <1>13, <2>3
    <3>2. Before(x, m)
        BY <1>0 DEF Before
    <3>3. Reaches(x, FrameAt(m))
        BY <1>3, <2>3, <3>2, AtFrame
    <3> QED
        BY <1>13, <1>24, <2>3, <3>1, <3>3
  <2>4. CASE i = m + 1 /\ x = w
      BY <1>13, <1>23, <2>4
  <2> QED
      BY <1>3, <1>12, <1>15, <2>1, <2>2, <2>3, <2>4
<1>26. LowIsLeast'
  <2> SUFFICES ASSUME NEW i, i \in DOMAIN tarjan'.work
               PROVE  /\ tarjan'.low[FrameAt(i)'] <= I2[FrameAt(i)']
                      /\ \E u : u \in Stacked' /\ I2[u] = tarjan'.low[FrameAt(i)'] /\ Reaches(FrameAt(i)', u)
                      /\ \A x : x \in Stacked' /\ I2[FrameAt(i)'] <= I2[x] /\ Before(x, i)' =>
                           \A u : u \in Succ(x) /\ u \notin Pending(x)' =>
                              /\ u \in DOMAIN I2
                              /\ u \in Stacked' => tarjan'.low[FrameAt(i)'] <= I2[u]
      BY LowNext
  <2>1. CASE i \in 1 .. m
    <3> DEFINE n == FrameAt(i)
    <3>1. n = FrameAt(i)' /\ n \in D /\ I2[n] = I[n] /\ tarjan'.low[n] = tarjan.low[n] /\ i \in DOMAIN tarjan.work
        BY <1>9, <1>13, <2>1
    <3>2. tarjan.low[n] <= I[n] /\ \E u : u \in Stacked /\ I[u] = tarjan.low[n] /\ Reaches(n, u)
        BY <3>1, AtFrame
    <3>3. \E u : u \in Stacked' /\ I2[u] = tarjan'.low[n] /\ Reaches(n, u)
        BY <1>2, <1>9, <1>15, <3>1, <3>2
    <3>4. ASSUME NEW x, x \in Stacked', I2[n] <= I2[x], Before(x, i)',
                 NEW u, u \in Succ(x), u \notin Pending(x)'
          PROVE  u \in DOMAIN I2 /\ (u \in Stacked' => tarjan'.low[n] <= I2[u])
      <4>1. x \in Stacked /\ I2[x] = I[x] /\ Before(x, i)
          BY <1>2, <1>9, <1>15, <1>18, <1>19, <2>1, <3>4
      <4>2. DOMAIN I2 = D \cup {w}
          BY <1>9
      <4>3. CASE u = w
        <5>1. tarjan.low[n] \in Nat /\ I[n] \in Nat /\ I[n] < tarjan.index
            BY <1>2, <3>1
        <5> QED
            BY <1>2, <1>9, <3>1, <3>2, <4>2, <4>3, <5>1
      <4>4. CASE u # w
        <5>1. u \notin Pending(x)
            BY <1>16, <3>4, <4>4
        <5>2. u \in D /\ (u \in Stacked => tarjan.low[n] <= I[u])
            BY <3>1, <3>4, <4>1, <5>1, AtFrame
        <5> QED
            BY <1>9, <1>15, <3>1, <4>2, <4>4, <5>2
      <4> QED
          BY <4>3, <4>4
    <3> HIDE DEF n
    <3> QED
        BY <3>1, <3>2, <3>3, <3>4
  <2>2. CASE i = m + 1
    <3>1. FrameAt(i)' = w /\ tarjan'.low[w] = I2[w] /\ I2[w] \in Nat
        BY <1>2, <1>9, <1>13, <2>2
    <3>2. \A x : x \in Stacked' /\ I2[w] <= I2[x] => x = w
        BY <1>2, <1>9, <1>15
    <3> QED
        BY <1>15, <1>17, <1>23, <3>1, <3>2
  <2> QED
      BY <1>3, <1>12, <2>1, <2>2
<1>27. \A x \in Settled' : Succ(x)' \subseteq Settled'
    BY <1>15, <1>20 DEF TarjanInv
<1>28. tarjan'.out = {C \in SUBSET Settled' : Component(C)'}
    BY <1>8, <1>15, <1>20 DEF TarjanInv
<1> QED
    BY <1>21, <1>22, <1>25, <1>26, <1>27, <1>28 DEF TarjanInv

\* The frame on top, and those below it.
LEMMA TopAt ==
    ASSUME graph \subseteq QNames \X QNames, TarjanInv, tarjan.work # <<>>, NEW m, m = Len(tarjan.work)
    PROVE  /\ m \in Nat \ {0} /\ m \in DOMAIN tarjan.work /\ DOMAIN tarjan.work = 1 .. m /\ Top(tarjan.work) = tarjan.work[m]
           /\ FrameAt(m) \in Stacked /\ tarjan.work[m].left \subseteq Succ(FrameAt(m))
           /\ Stacked \subseteq DOMAIN tarjan.indices /\ DOMAIN tarjan.indices \subseteq AllNodes /\ AllNodes \subseteq QNames
           /\ \A i \in 1 .. m : FrameAt(i) \in Stacked /\ FrameAt(i) \in DOMAIN tarjan.indices
           /\ \A i, j \in 1 .. m : i < j => tarjan.indices[FrameAt(i)] < tarjan.indices[FrameAt(j)]
<1>1. TarjanTypeOK /\ InOrder
    BY DEF TarjanInv
<1>2. /\ tarjan.work \in Seq([v : DOMAIN tarjan.indices, left : SUBSET AllNodes])
      /\ m \in Nat /\ DOMAIN tarjan.work = 1 .. m
      /\ Stacked \subseteq DOMAIN tarjan.indices /\ DOMAIN tarjan.indices \subseteq AllNodes
    BY <1>1, TarjanShape
<1>3. m \in Nat \ {0} /\ m \in DOMAIN tarjan.work /\ Top(tarjan.work) = tarjan.work[m]
  <2>1. m # 0
      BY <1>2, EmptySeq
  <2> QED
      BY <1>2, <2>1 DEF Top
<1>4. \A i \in 1 .. m : FrameAt(i) \in Stacked /\ FrameAt(i) \in DOMAIN tarjan.indices
    BY <1>2, AtFrame
<1>5. FrameAt(m) \in Stacked /\ tarjan.work[m].left \subseteq Succ(FrameAt(m))
    BY <1>3, AtFrame
<1>6. \A i, j \in 1 .. m : i < j => tarjan.indices[FrameAt(i)] < tarjan.indices[FrameAt(j)]
    BY <1>1, <1>2 DEF InOrder
<1>7. AllNodes \subseteq QNames
    BY DEF AllNodes
<1> QED
    BY <1>2, <1>3, <1>4, <1>5, <1>6, <1>7

\* A successor met before: the low link takes it in while it is on the stack.
LEMMA SuccessorIsKnown ==
    ASSUME graph \subseteq QNames \X QNames, TarjanInv, NEW w, Successor(w), w \in DOMAIN tarjan.indices
    PROVE  TarjanInv'
<1>0. PICK m : m = Len(tarjan.work)
    OBVIOUS
<1>a. PICK rest : rest = Append(Front1(tarjan.work), [Top(tarjan.work) EXCEPT !.left = @ \ {w}])
    OBVIOUS
<1>b. tarjan.work # <<>> /\ w \in Top(tarjan.work).left /\ graph' = graph
    BY DEF Successor
<1>c. tarjan' = IF OnStack(w)
                THEN [tarjan EXCEPT !.work = rest, !.low[Top(tarjan.work).v] = Least(@, tarjan.indices[w])]
                ELSE [tarjan EXCEPT !.work = rest]
    BY <1>a DEF Successor
<1> DEFINE D == DOMAIN tarjan.indices
           I == tarjan.indices
           S == [v : D, left : SUBSET AllNodes]
<1>1. TarjanTypeOK /\ InOrder
    BY DEF TarjanInv
<1>2. /\ tarjan.index \in Nat /\ I \in [D -> Nat] /\ tarjan.low \in [D -> Nat] /\ tarjan.stack \in Seq(D)
      /\ tarjan.work \in Seq(S) /\ tarjan.out \in SUBSET SUBSET AllNodes
      /\ tarjan = [index |-> tarjan.index, indices |-> tarjan.indices, low |-> tarjan.low,
                   stack |-> tarjan.stack, work |-> tarjan.work, out |-> tarjan.out]
    BY <1>1, TarjanShape
<1>3. /\ m \in Nat \ {0} /\ m \in DOMAIN tarjan.work /\ DOMAIN tarjan.work = 1 .. m /\ Top(tarjan.work) = tarjan.work[m]
      /\ FrameAt(m) \in Stacked /\ tarjan.work[m].left \subseteq Succ(FrameAt(m))
      /\ Stacked \subseteq D /\ D \subseteq AllNodes /\ AllNodes \subseteq QNames
      /\ \A i \in 1 .. m : FrameAt(i) \in Stacked /\ FrameAt(i) \in D
      /\ \A i, j \in 1 .. m : i < j => I[FrameAt(i)] < I[FrameAt(j)]
    BY <1>0, <1>b, TopAt
<1>4. w \in tarjan.work[m].left /\ w \in Succ(FrameAt(m)) /\ FrameAt(m) \in D /\ Top(tarjan.work).v = FrameAt(m)
      /\ FrameAt(m) \in QNames /\ w \in QNames
    BY <1>3, <1>b DEF FrameAt
<1>5. PICK top : top = tarjan.work[m] /\ top \in S /\ top.v = FrameAt(m) /\ top.left = tarjan.work[m].left
    BY <1>1, <1>3, TarjanShape DEF FrameAt
<1>6. PICK less : less = [top EXCEPT !.left = @ \ {w}] /\ less \in S /\ less.v = FrameAt(m) /\ less.left = tarjan.work[m].left \ {w}
  <2> DEFINE l == [top EXCEPT !.left = @ \ {w}]
  <2>1. l = [v |-> top.v, left |-> top.left \ {w}] /\ l \in S
    <3>1. top \in S
        BY <1>5
    <3> HIDE DEF D
    <3> QED
        BY <3>1, LessLeft
  <2> QED
      BY <1>5, <2>1
<1>7. rest = Append(Front1(tarjan.work), less)
    BY <1>3, <1>5, <1>6, <1>a
<1> HIDE DEF S
<1>8. rest \in Seq(S) /\ Len(rest) = m /\ rest[m] = less /\ \A i \in 1 .. m - 1 : rest[i] = tarjan.work[i]
  <2>1. Retopped(S, tarjan.work, less)
      BY <1>2, <1>6, <1>b, TopFrame, Zenon
  <2> QED
      BY <1>0, <1>7, <2>1 DEF Retopped
<1>9. OnStack(w) <=> w \in Stacked
    BY DEF OnStack, Stacked
<1>10. /\ tarjan'.index = tarjan.index /\ tarjan'.indices = I /\ tarjan'.stack = tarjan.stack
       /\ tarjan'.work = rest /\ tarjan'.out = tarjan.out
       /\ tarjan'.low = IF w \in Stacked THEN [tarjan.low EXCEPT ![FrameAt(m)] = Least(@, I[w])] ELSE tarjan.low
       /\ tarjan' = [index |-> tarjan'.index, indices |-> tarjan'.indices, low |-> tarjan'.low,
                     stack |-> tarjan'.stack, work |-> tarjan'.work, out |-> tarjan'.out]
  <2>1. CASE w \in Stacked
    <3>1. tarjan' = [tarjan EXCEPT !.work = rest, !.low[FrameAt(m)] = Least(@, tarjan.indices[w])]
        BY <1>4, <1>9, <1>c, <2>1
    <3> QED
        BY <1>2, <2>1, <3>1
  <2>2. CASE w \notin Stacked
    <3>1. tarjan' = [tarjan EXCEPT !.work = rest]
        BY <1>9, <1>c, <2>2
    <3> QED
        BY <1>2, <2>2, <3>1
  <2> QED
      BY <2>1, <2>2
<1>11. /\ tarjan'.low \in [D -> Nat] /\ \A x \in D : x # FrameAt(m) => tarjan'.low[x] = tarjan.low[x]
       /\ tarjan'.low[FrameAt(m)] <= tarjan.low[FrameAt(m)]
       /\ tarjan'.low[FrameAt(m)] = tarjan.low[FrameAt(m)] \/ (w \in Stacked /\ tarjan'.low[FrameAt(m)] = I[w])
       /\ w \in Stacked => tarjan'.low[FrameAt(m)] <= I[w]
  <2>1. PICK k : k = FrameAt(m)
      OBVIOUS
  <2>2. k \in D /\ w \in D /\ I[w] \in Nat /\ tarjan.low[k] \in Nat
      BY <1>2, <1>4, <2>1
  <2>3. CASE w \in Stacked
    <3>1. tarjan'.low = [tarjan.low EXCEPT ![k] = Least(tarjan.low[k], I[w])]
        BY <1>10, <2>1, <2>3
    <3>2. Least(tarjan.low[k], I[w]) \in Nat /\ Least(tarjan.low[k], I[w]) <= tarjan.low[k] /\ Least(tarjan.low[k], I[w]) <= I[w]
          /\ (Least(tarjan.low[k], I[w]) = tarjan.low[k] \/ Least(tarjan.low[k], I[w]) = I[w])
        BY <2>2 DEF Least
    <3>3. tarjan'.low[k] = Least(tarjan.low[k], I[w]) /\ tarjan'.low \in [D -> Nat]
          /\ \A x \in D : x # k => tarjan'.low[x] = tarjan.low[x]
        BY <1>2, <2>2, <3>1, <3>2
    <3> QED
        BY <2>1, <2>3, <3>2, <3>3
  <2>4. CASE w \notin Stacked
    <3>1. tarjan'.low = tarjan.low
        BY <1>10, <2>4
    <3>2. tarjan'.low[k] = tarjan.low[k] /\ tarjan'.low \in [D -> Nat] /\ tarjan'.low[k] <= tarjan.low[k]
          /\ \A x \in D : x # k => tarjan'.low[x] = tarjan.low[x]
        BY <1>2, <2>2, <3>1
    <3> QED
        BY <2>1, <2>4, <3>2
  <2> QED
      BY <2>3, <2>4
<1>12. Stacked' = Stacked /\ Settled' = Settled
    BY <1>10 DEF Stacked, Settled
<1>13. Len(tarjan'.work) = m /\ DOMAIN tarjan'.work = 1 .. m /\ tarjan'.work # <<>>
    BY <1>3, <1>8, <1>10
<1>14. \A i : i \in 1 .. m => FrameAt(i)' = FrameAt(i) /\ tarjan'.work[i].left \subseteq tarjan.work[i].left
  <2> SUFFICES ASSUME NEW i, i \in 1 .. m
               PROVE  FrameAt(i)' = FrameAt(i) /\ tarjan'.work[i].left \subseteq tarjan.work[i].left
      OBVIOUS
  <2>1. CASE i = m
    <3>1. tarjan'.work[m] = less
        BY <1>8, <1>10
    <3> QED
        BY <1>6, <2>1, <3>1 DEF FrameAt
  <2>2. CASE i # m
    <3>1. tarjan'.work[i] = tarjan.work[i]
        BY <1>3, <1>8, <1>10, <2>2
    <3> QED
        BY <3>1 DEF FrameAt
  <2> QED
      BY <2>1, <2>2
<1>15. \A i, x : i \in 1 .. m /\ Before(x, i)' => Before(x, i)
  <2> SUFFICES ASSUME NEW i, NEW x, i \in 1 .. m, Before(x, i)' PROVE Before(x, i)
      OBVIOUS
  <2>1. CASE i = m
      BY <1>0, <2>1 DEF Before
  <2>2. CASE i # m
    <3>1. i + 1 \in 1 .. m
        BY <1>3, <2>2
    <3>2. I[x] < I[FrameAt(i + 1)']
        BY <1>10, <1>13, <2>2 DEF Before
    <3> QED
        BY <1>14, <3>1, <3>2 DEF Before
  <2> QED
      BY <2>1, <2>2
<1>16. \A x, u : u \in Pending(x) /\ u \notin Pending(x)' => u = w /\ x = FrameAt(m)
  <2> SUFFICES ASSUME NEW x, NEW u, u \in Pending(x), u \notin Pending(x)' PROVE u = w /\ x = FrameAt(m)
      OBVIOUS
  <2>1. PICK j : j \in 1 .. m /\ FrameAt(j) = x /\ u \in tarjan.work[j].left
      BY <1>3 DEF Pending
  <2>2. u \notin tarjan'.work[j].left
      BY <1>13, <1>14, <2>1 DEF Pending
  <2>3. CASE j = m
      BY <1>6, <1>8, <1>10, <2>1, <2>2, <2>3
  <2>4. CASE j # m
      BY <1>3, <1>8, <1>10, <2>1, <2>2, <2>4
  <2> QED
      BY <2>3, <2>4
<1>17. AllNodes' = AllNodes /\ (\A a : Succ(a)' = Succ(a)) /\ \A C : Component(C)' = Component(C)
    BY <1>b, EdgesStay
<1>18. TarjanTypeOK'
  <2>1. tarjan'.work \in Seq([v : D, left : SUBSET AllNodes])
      BY <1>8, <1>10 DEF S
  <2>2. D \subseteq AllNodes /\ \A x \in D : I[x] < tarjan.index
      BY <1>1, TarjanShape
  <2>3. tarjan' \in [index : Nat, indices : [D -> Nat], low : [D -> Nat],
                     stack : Seq(D), out : SUBSET SUBSET AllNodes,
                     work : Seq([v : D, left : SUBSET AllNodes])]
      BY <1>2, <1>10, <1>11, <2>1
  <2> QED
      BY <1>10, <1>17, <2>2, <2>3 DEF TarjanTypeOK
<1>19. InOrder'
  <2>1. \A i, j \in DOMAIN tarjan.stack : i < j => I[tarjan.stack[i]] < I[tarjan.stack[j]]
      BY <1>1 DEF InOrder
  <2>2. ASSUME NEW i, NEW j, i \in DOMAIN tarjan'.work, j \in DOMAIN tarjan'.work, i < j
        PROVE  I[FrameAt(i)'] < I[FrameAt(j)']
      BY <1>3, <1>13, <1>14, <2>2
  <2>3. ASSUME NEW i, i \in DOMAIN tarjan'.work
        PROVE  FrameAt(i)' \in Stacked' /\ tarjan'.work[i].left \subseteq Succ(FrameAt(i)')
    <3>1. i \in 1 .. m /\ i \in DOMAIN tarjan.work
        BY <1>3, <1>13, <2>3
    <3>2. FrameAt(i) \in Stacked /\ tarjan.work[i].left \subseteq Succ(FrameAt(i))
        BY <3>1, AtFrame
    <3> QED
        BY <1>12, <1>14, <3>1, <3>2
  <2>4. ASSUME NEW x, x \in Stacked' PROVE tarjan'.work # <<>> /\ I[FrameAt(1)'] <= I[x]
    <3>1. 1 \in 1 .. m
        BY <1>3
    <3>2. I[FrameAt(1)] <= I[x]
        BY <1>1, <1>12, <2>4 DEF InOrder
    <3> QED
        BY <1>13, <1>14, <3>1, <3>2
  <2>5. \A i : Succ(FrameAt(i))' = Succ(FrameAt(i)')
      BY <1>b DEF Succ
  <2>6. tarjan'.indices = I /\ tarjan'.stack = tarjan.stack
      BY <1>10
  <2>7. \A i, j \in DOMAIN tarjan'.stack : i < j => tarjan'.indices[tarjan'.stack[i]] < tarjan'.indices[tarjan'.stack[j]]
      BY <2>1, <2>6
  <2>8. \A i, j \in DOMAIN tarjan'.work : i < j => tarjan'.indices[tarjan'.work[i].v] < tarjan'.indices[tarjan'.work[j].v]
      BY <2>2, <2>6 DEF FrameAt
  <2>9. \A x \in Stacked' : tarjan'.work # <<>> /\ tarjan'.indices[FrameAt(1)'] <= tarjan'.indices[x]
      BY <2>4, <2>6
  <2> QED
      BY <2>3, <2>5, <2>7, <2>8, <2>9 DEF InOrder, FrameAt
<1>20. StackConnected'
  <2> SUFFICES ASSUME NEW i, NEW x, i \in DOMAIN tarjan'.work, x \in Stacked'
               PROVE  /\ tarjan'.indices[FrameAt(i)'] <= tarjan'.indices[x] => Reaches(FrameAt(i)', x)
                      /\ Before(x, i)' => Reaches(x, FrameAt(i)')
      BY <1>b, ConnectedNext
  <2>1. i \in 1 .. m /\ i \in DOMAIN tarjan.work /\ x \in Stacked
      BY <1>3, <1>12, <1>13
  <2>2. (I[FrameAt(i)] <= I[x] => Reaches(FrameAt(i), x)) /\ (Before(x, i) => Reaches(x, FrameAt(i)))
      BY <2>1, AtFrame
  <2> QED
      BY <1>10, <1>14, <1>15, <2>1, <2>2
<1>21. LowIsLeast'
  <2> SUFFICES ASSUME NEW i, i \in DOMAIN tarjan'.work
               PROVE  /\ tarjan'.low[FrameAt(i)'] <= tarjan'.indices[FrameAt(i)']
                      /\ \E u : u \in Stacked' /\ tarjan'.indices[u] = tarjan'.low[FrameAt(i)'] /\ Reaches(FrameAt(i)', u)
                      /\ \A x : x \in Stacked' /\ tarjan'.indices[FrameAt(i)'] <= tarjan'.indices[x] /\ Before(x, i)' =>
                           \A u : u \in Succ(x) /\ u \notin Pending(x)' =>
                              /\ u \in DOMAIN tarjan'.indices
                              /\ u \in Stacked' => tarjan'.low[FrameAt(i)'] <= tarjan'.indices[u]
      BY <1>b, LowNext
  <2>1. PICK n : n = FrameAt(i)
      OBVIOUS
  <2>2. i \in 1 .. m /\ i \in DOMAIN tarjan.work /\ FrameAt(i)' = n /\ n \in D /\ n \in Stacked
      BY <1>3, <1>13, <1>14, <2>1
  <2>3. n = FrameAt(m) => i = m
    <3> SUFFICES ASSUME n = FrameAt(m), i # m PROVE FALSE
        OBVIOUS
    <3>1. i < m /\ m \in 1 .. m
        BY <1>3, <2>2
    <3>2. I[FrameAt(i)] < I[FrameAt(m)] /\ I[n] \in Nat
        BY <1>2, <1>3, <2>2, <3>1
    <3> QED
        BY <2>1, <3>2
  <2>4. /\ tarjan.low[n] <= I[n] /\ \E u : u \in Stacked /\ I[u] = tarjan.low[n] /\ Reaches(n, u)
        /\ \A x : x \in Stacked /\ I[n] <= I[x] /\ Before(x, i) =>
             \A u : u \in Succ(x) /\ u \notin Pending(x) => u \in D /\ (u \in Stacked => tarjan.low[n] <= I[u])
      BY <2>1, <2>2, AtFrame
  <2>5. /\ tarjan'.low[n] \in Nat /\ tarjan.low[n] \in Nat /\ tarjan'.low[n] <= tarjan.low[n]
        /\ tarjan'.low[n] = tarjan.low[n] \/ (n = FrameAt(m) /\ w \in Stacked /\ tarjan'.low[n] = I[w])
        /\ n = FrameAt(m) /\ w \in Stacked => tarjan'.low[n] <= I[w]
      BY <1>2, <1>11, <2>2
  <2>6. tarjan'.low[n] <= I[n] /\ I[n] \in Nat
      BY <1>2, <2>2, <2>4, <2>5
  <2>7. \E u : u \in Stacked /\ I[u] = tarjan'.low[n] /\ Reaches(n, u)
    <3>1. Reaches(FrameAt(m), w)
        BY <1>4, ReachLaws
    <3> QED
        BY <2>4, <2>5, <3>1
  <2>8. ASSUME NEW x, x \in Stacked, I[n] <= I[x], Before(x, i)', NEW u, u \in Succ(x), u \notin Pending(x)'
        PROVE  u \in D /\ (u \in Stacked => tarjan'.low[n] <= I[u])
    <3>1. Before(x, i)
        BY <1>15, <2>2, <2>8
    <3>2. CASE u \notin Pending(x)
      <4>1. u \in D /\ (u \in Stacked => tarjan.low[n] <= I[u])
          BY <2>4, <2>8, <3>1, <3>2
      <4>2. u \in D => I[u] \in Nat
          BY <1>2
      <4> QED
          BY <2>5, <4>1, <4>2
    <3>3. CASE u \in Pending(x)
      <4>1. u = w /\ x = FrameAt(m)
          BY <1>16, <2>8, <3>3
      <4>2. i = m
        <5> SUFFICES ASSUME i # m PROVE FALSE
            OBVIOUS
        <5>1. i + 1 \in 1 .. m /\ I[x] < I[FrameAt(i + 1)]
            BY <1>0, <1>3, <2>2, <3>1 DEF Before
        <5>2. I[x] \in Nat /\ I[FrameAt(i + 1)] \in Nat
            BY <1>2, <1>3, <4>1, <5>1
        <5>3. i + 1 = m \/ I[FrameAt(i + 1)] < I[FrameAt(m)]
            BY <1>3, <2>2, <5>1
        <5> QED
            BY <4>1, <5>1, <5>2, <5>3
      <4> QED
          BY <2>1, <2>5, <4>1, <4>2
    <3> QED
        BY <3>2, <3>3
  <2> QED
      BY <1>10, <1>12, <2>2, <2>6, <2>7, <2>8
<1>22. \A x \in Settled' : Succ(x)' \subseteq Settled'
    BY <1>12, <1>17 DEF TarjanInv
<1>23. tarjan'.out = {C \in SUBSET Settled' : Component(C)'}
    BY <1>10, <1>12, <1>17 DEF TarjanInv
<1> QED
    BY <1>18, <1>19, <1>20, <1>21, <1>22, <1>23 DEF TarjanInv

\* The last but one.
LEMMA OneBelow == ASSUME NEW n \in Nat \ {0}, n # 1 PROVE n - 1 \in 1 .. n - 1 /\ 1 \in 1 .. n - 1
OBVIOUS

\* What finishing a frame does to the state.
LEMMA DoneShape ==
    ASSUME graph \subseteq QNames \X QNames, TarjanInv, FrameDone, NEW m, m = Len(tarjan.work)
    PROVE  /\ graph' = graph /\ tarjan.work # <<>> /\ tarjan.work[m].left = {}
           /\ tarjan'.index = tarjan.index /\ tarjan'.indices = tarjan.indices
           /\ tarjan'.work \in Seq([v : DOMAIN tarjan.indices, left : SUBSET AllNodes])
           /\ DOMAIN tarjan'.work = 1 .. m - 1 /\ Len(tarjan'.work) = m - 1 /\ (m # 1 => tarjan'.work # <<>>)
           /\ \A i : i \in 1 .. m - 1 => FrameAt(i)' = FrameAt(i) /\ tarjan'.work[i] = tarjan.work[i]
           /\ tarjan' = [index |-> tarjan'.index, indices |-> tarjan'.indices, low |-> tarjan'.low,
                         stack |-> tarjan'.stack, work |-> tarjan'.work, out |-> tarjan'.out]
           /\ tarjan'.low = IF m = 1 THEN tarjan.low
                            ELSE [tarjan.low EXCEPT ![FrameAt(m - 1)] = Least(@, tarjan.low[FrameAt(m)])]
           /\ \E at : /\ at \in DOMAIN tarjan.stack /\ tarjan.stack[at] = FrameAt(m)
                      /\ tarjan'.stack = IF tarjan.low[FrameAt(m)] = tarjan.indices[FrameAt(m)]
                                         THEN SubSeq(tarjan.stack, 1, at - 1) ELSE tarjan.stack
                      /\ tarjan'.out = IF /\ tarjan.low[FrameAt(m)] = tarjan.indices[FrameAt(m)]
                                          /\ Cardinality({tarjan.stack[i] : i \in at .. Len(tarjan.stack)}) >= 2
                                       THEN tarjan.out \cup {{tarjan.stack[i] : i \in at .. Len(tarjan.stack)}}
                                       ELSE tarjan.out
           /\ \A x : Pending(x) \subseteq Pending(x)'
           /\ \A i, x : i \in 1 .. m - 1 /\ i # m - 1 /\ Before(x, i)' => Before(x, i)
<1> DEFINE S == [v : DOMAIN tarjan.indices, left : SUBSET AllNodes]
           v == Top(tarjan.work).v
           at == CHOOSE i \in DOMAIN tarjan.stack : tarjan.stack[i] = v
           comp == {tarjan.stack[i] : i \in at .. Len(tarjan.stack)}
           root == tarjan.low[v] = tarjan.indices[v]
           rest == Front1(tarjan.work)
<1>1. TarjanTypeOK
    BY DEF TarjanInv
<1>2. /\ tarjan = [index |-> tarjan.index, indices |-> tarjan.indices, low |-> tarjan.low,
                   stack |-> tarjan.stack, work |-> tarjan.work, out |-> tarjan.out]
      /\ tarjan.work \in Seq(S)
    BY <1>1, TarjanShape
<1>3. graph' = graph /\ tarjan.work # <<>> /\ Top(tarjan.work).left = {}
    BY DEF FrameDone
<1>4. m \in Nat \ {0} /\ DOMAIN tarjan.work = 1 .. m /\ Top(tarjan.work) = tarjan.work[m]
    BY <1>3, TopAt
<1>5. v = FrameAt(m) /\ tarjan.work[m] \in S /\ FrameAt(m) \in Stacked
  <2>1. m \in DOMAIN tarjan.work
      BY <1>4
  <2> QED
      BY <1>1, <1>3, <1>4, <2>1, TarjanShape, TopAt DEF FrameAt
<1> HIDE DEF S
<1>6. rest \in Seq(S) /\ Len(rest) = m - 1 /\ \A i \in 1 .. m - 1 : rest[i] = tarjan.work[i]
  <2>1. Retopped(S, tarjan.work, tarjan.work[m])
      BY <1>2, <1>3, <1>5, TopFrame, Zenon
  <2> QED
      BY <2>1 DEF Retopped
<1>7. DOMAIN rest = 1 .. m - 1 /\ (rest = <<>> <=> m = 1) /\ (m # 1 => Top(rest).v = FrameAt(m - 1))
  <2> HIDE DEF rest
  <2>1. DOMAIN rest = 1 .. m - 1 /\ (rest = <<>> <=> m = 1)
    <3>1. DOMAIN rest = 1 .. m - 1
        BY <1>6
    <3>2. m = 1 => rest = <<>>
        BY <1>6, EmptySeq
    <3>3. Len(<<>>) = 0
        OBVIOUS
    <3>4. rest = <<>> => m = 1
        BY <1>4, <1>6, <3>3
    <3> QED
        BY <3>1, <3>2, <3>4
  <2>2. m # 1 => Top(rest) = tarjan.work[m - 1]
    <3> SUFFICES ASSUME m # 1 PROVE Top(rest) = tarjan.work[m - 1]
        OBVIOUS
    <3>0. m \in Nat \ {0}
        BY <1>4
    <3>1. m - 1 \in 1 .. m - 1
        BY <3>0, OneBelow
    <3>2. Len(rest) = m - 1 /\ rest[m - 1] = tarjan.work[m - 1]
        BY <1>6, <3>1
    <3> QED
        BY <3>2 DEF Top
  <2> QED
      BY <2>1, <2>2 DEF FrameAt
<1> DEFINE stack2 == IF root THEN SubSeq(tarjan.stack, 1, at - 1) ELSE tarjan.stack
           out2 == IF root /\ Cardinality(comp) >= 2 THEN tarjan.out \cup {comp} ELSE tarjan.out
           low2 == IF rest = <<>> THEN tarjan.low ELSE [tarjan.low EXCEPT ![Top(rest).v] = Least(@, tarjan.low[v])]
<1>9. tarjan' = [tarjan EXCEPT !.work = rest, !.stack = stack2, !.out = out2, !.low = low2]
    BY Zenon DEF FrameDone
<1> HIDE DEF stack2, out2, low2, rest, v
<1>10. /\ tarjan'.index = tarjan.index /\ tarjan'.indices = tarjan.indices /\ tarjan'.work = rest
       /\ tarjan'.stack = stack2 /\ tarjan'.out = out2 /\ tarjan'.low = low2
       /\ tarjan' = [index |-> tarjan'.index, indices |-> tarjan'.indices, low |-> tarjan'.low,
                     stack |-> tarjan'.stack, work |-> tarjan'.work, out |-> tarjan'.out]
    BY <1>2, <1>9
<1>11. tarjan'.low = IF m = 1 THEN tarjan.low
                     ELSE [tarjan.low EXCEPT ![FrameAt(m - 1)] = Least(@, tarjan.low[FrameAt(m)])]
    BY <1>5, <1>7, <1>10 DEF low2
<1>12. \A i : i \in 1 .. m - 1 => FrameAt(i)' = FrameAt(i) /\ tarjan'.work[i] = tarjan.work[i]
    BY <1>6, <1>10 DEF FrameAt
<1>13. /\ tarjan'.work \in Seq(S) /\ DOMAIN tarjan'.work = 1 .. m - 1 /\ Len(tarjan'.work) = m - 1
       /\ (m # 1 => tarjan'.work # <<>>)
    BY <1>6, <1>7, <1>10
<1>14. ASSUME NEW x PROVE Pending(x) \subseteq Pending(x)'
  <2> SUFFICES ASSUME NEW u \in Pending(x) PROVE u \in Pending(x)'
      OBVIOUS
  <2>1. PICK j : j \in 1 .. m /\ FrameAt(j) = x /\ u \in tarjan.work[j].left
      BY <1>4 DEF Pending
  <2>2. j # m
      BY <1>3, <1>4, <2>1
  <2>3. j \in 1 .. m - 1
      BY <1>4, <2>1, <2>2
  <2> QED
      BY <1>12, <1>13, <2>1, <2>3 DEF Pending
<1>15. ASSUME NEW i, NEW x, i \in 1 .. m - 1, i # m - 1, Before(x, i)' PROVE Before(x, i)
  <2>1. i + 1 \in 1 .. m - 1
      BY <1>4, <1>15
  <2>2. tarjan.indices[x] < tarjan.indices[FrameAt(i + 1)']
      BY <1>10, <1>13, <1>15 DEF Before
  <2> QED
      BY <1>12, <2>1, <2>2 DEF Before
<1>8. at \in DOMAIN tarjan.stack /\ tarjan.stack[at] = FrameAt(m)
    BY <1>5 DEF Stacked
<1> HIDE DEF at
<1>16. \E a : /\ a \in DOMAIN tarjan.stack /\ tarjan.stack[a] = FrameAt(m)
              /\ tarjan'.stack = IF tarjan.low[FrameAt(m)] = tarjan.indices[FrameAt(m)]
                                 THEN SubSeq(tarjan.stack, 1, a - 1) ELSE tarjan.stack
              /\ tarjan'.out = IF /\ tarjan.low[FrameAt(m)] = tarjan.indices[FrameAt(m)]
                                  /\ Cardinality({tarjan.stack[i] : i \in a .. Len(tarjan.stack)}) >= 2
                               THEN tarjan.out \cup {{tarjan.stack[i] : i \in a .. Len(tarjan.stack)}}
                               ELSE tarjan.out
    BY <1>5, <1>8, <1>10, Zenon DEF stack2, out2
<1> QED
    BY <1>3, <1>4, <1>10, <1>11, <1>12, <1>13, <1>14, <1>15, <1>16 DEF S

\* A frame that is no root hands its low link to the one below it.
LEMMA InnerFrameDone ==
    ASSUME graph \subseteq QNames \X QNames, TarjanInv, FrameDone, NEW m, m = Len(tarjan.work),
           tarjan.low[FrameAt(m)] # tarjan.indices[FrameAt(m)]
    PROVE  TarjanInv'
<1> DEFINE D == DOMAIN tarjan.indices
           I == tarjan.indices
<1>1. TarjanTypeOK /\ InOrder
    BY DEF TarjanInv
<1>2. /\ tarjan.index \in Nat /\ I \in [D -> Nat] /\ tarjan.low \in [D -> Nat] /\ tarjan.stack \in Seq(D)
      /\ tarjan.out \in SUBSET SUBSET AllNodes /\ \A x \in D : I[x] < tarjan.index
    BY <1>1, TarjanShape
<1>3. /\ graph' = graph /\ tarjan.work # <<>> /\ tarjan.work[m].left = {}
      /\ tarjan'.index = tarjan.index /\ tarjan'.indices = I
      /\ tarjan'.work \in Seq([v : D, left : SUBSET AllNodes])
      /\ DOMAIN tarjan'.work = 1 .. m - 1 /\ Len(tarjan'.work) = m - 1 /\ (m # 1 => tarjan'.work # <<>>)
      /\ \A i : i \in 1 .. m - 1 => FrameAt(i)' = FrameAt(i) /\ tarjan'.work[i] = tarjan.work[i]
      /\ tarjan' = [index |-> tarjan'.index, indices |-> tarjan'.indices, low |-> tarjan'.low,
                    stack |-> tarjan'.stack, work |-> tarjan'.work, out |-> tarjan'.out]
      /\ tarjan'.low = IF m = 1 THEN tarjan.low
                       ELSE [tarjan.low EXCEPT ![FrameAt(m - 1)] = Least(@, tarjan.low[FrameAt(m)])]
      /\ tarjan'.stack = tarjan.stack /\ tarjan'.out = tarjan.out
      /\ \A x : Pending(x) \subseteq Pending(x)'
      /\ \A i, x : i \in 1 .. m - 1 /\ i # m - 1 /\ Before(x, i)' => Before(x, i)
    BY DoneShape
<1>4. /\ m \in Nat \ {0} /\ m \in DOMAIN tarjan.work /\ DOMAIN tarjan.work = 1 .. m
      /\ Stacked \subseteq D /\ D \subseteq AllNodes /\ AllNodes \subseteq QNames
      /\ FrameAt(m) \in Stacked /\ FrameAt(m) \in D /\ FrameAt(m) \in QNames
    BY <1>3, TopAt
<1>5. /\ \A i \in 1 .. m : FrameAt(i) \in Stacked /\ FrameAt(i) \in D
      /\ \A i, j \in 1 .. m : i < j => I[FrameAt(i)] < I[FrameAt(j)]
    BY <1>3, TopAt
<1>6. /\ tarjan.low[FrameAt(m)] < I[FrameAt(m)] /\ I[FrameAt(m)] \in Nat /\ tarjan.low[FrameAt(m)] \in Nat
  <2>1. tarjan.low[FrameAt(m)] <= I[FrameAt(m)]
      BY <1>4, AtFrame
  <2> QED
      BY <1>2, <1>4, <2>1
<1>7. PICK u : u \in Stacked /\ I[u] = tarjan.low[FrameAt(m)] /\ Reaches(FrameAt(m), u)
    BY <1>4, AtFrame
<1>8. m # 1
  <2>1. I[FrameAt(1)] <= I[u] /\ I[u] \in Nat
      BY <1>1, <1>2, <1>4, <1>7 DEF InOrder
  <2>2. m = 1 => FrameAt(m) = FrameAt(1)
      OBVIOUS
  <2>3. ~ (I[FrameAt(m)] <= I[u])
      BY <1>6, <1>7, <2>1
  <2> QED
      BY <2>1, <2>2, <2>3
<1>9. m - 1 \in 1 .. m - 1 /\ m - 1 \in 1 .. m /\ m - 1 < m /\ m \in 1 .. m /\ m - 1 \in DOMAIN tarjan.work
  <2>1. m - 1 \in 1 .. m - 1
      BY <1>4, <1>8, OneBelow
  <2> QED
      BY <1>4, <2>1
<1>10. PICK p : p = FrameAt(m - 1)
    OBVIOUS
<1>11. p \in Stacked /\ p \in D /\ p \in QNames /\ I[p] < I[FrameAt(m)] /\ I[p] \in Nat
    BY <1>2, <1>4, <1>5, <1>9, <1>10
<1>12. \A x \in Stacked : I[x] >= I[FrameAt(m)] \/ Before(x, m - 1)
  <2>1. \A x \in Stacked : I[x] < I[FrameAt(m)] => Before(x, m - 1)
    <3>1. (m - 1) + 1 = m
        BY <1>4
    <3> QED
        BY <3>1 DEF Before
  <2> QED
      BY <1>2, <1>4, <2>1
<1>13. \A x \in Stacked : Before(x, m)
    BY DEF Before
<1>14. Reaches(FrameAt(m), p)
  <2>1. Before(u, m - 1)
      BY <1>2, <1>4, <1>6, <1>7, <1>12
  <2>2. Reaches(u, p)
      BY <1>7, <1>9, <1>10, <2>1, AtFrame
  <2> QED
      BY <1>4, <1>7, <1>11, <2>2, ReachLaws
<1>15. \A x \in Stacked : Reaches(x, p)
  <2> SUFFICES ASSUME NEW x \in Stacked PROVE Reaches(x, p)
      OBVIOUS
  <2>1. CASE Before(x, m - 1)
      BY <1>9, <1>10, <2>1, AtFrame
  <2>2. CASE ~Before(x, m - 1)
    <3>1. Reaches(x, FrameAt(m))
        BY <1>4, <1>13, AtFrame
    <3>2. x \in QNames
        BY <1>4
    <3> QED
        BY <1>4, <1>11, <1>14, <3>1, <3>2, ReachLaws
  <2> QED
      BY <2>1, <2>2
<1>16. /\ tarjan'.low \in [D -> Nat] /\ \A x \in D : x # p => tarjan'.low[x] = tarjan.low[x]
       /\ tarjan'.low[p] <= tarjan.low[p] /\ tarjan'.low[p] <= tarjan.low[FrameAt(m)]
       /\ tarjan'.low[p] = tarjan.low[p] \/ tarjan'.low[p] = tarjan.low[FrameAt(m)]
       /\ tarjan.low[p] \in Nat /\ tarjan'.low[p] \in Nat
  <2>1. PICK k : k = tarjan.low[FrameAt(m)]
      OBVIOUS
  <2>2. k \in Nat /\ tarjan.low[p] \in Nat
      BY <1>2, <1>6, <1>11, <2>1
  <2>3. tarjan'.low = [tarjan.low EXCEPT ![p] = Least(tarjan.low[p], k)]
      BY <1>3, <1>8, <1>10, <2>1
  <2>4. /\ Least(tarjan.low[p], k) \in Nat /\ Least(tarjan.low[p], k) <= tarjan.low[p] /\ Least(tarjan.low[p], k) <= k
        /\ Least(tarjan.low[p], k) = tarjan.low[p] \/ Least(tarjan.low[p], k) = k
      BY <2>2 DEF Least
  <2>5. /\ tarjan'.low \in [D -> Nat] /\ tarjan'.low[p] = Least(tarjan.low[p], k)
        /\ \A x \in D : x # p => tarjan'.low[x] = tarjan.low[x]
      BY <1>2, <1>11, <2>3, <2>4
  <2> QED
      BY <2>1, <2>2, <2>4, <2>5
<1>17. Stacked' = Stacked /\ Settled' = Settled
    BY <1>3 DEF Stacked, Settled
<1>18. AllNodes' = AllNodes /\ (\A a : Succ(a)' = Succ(a)) /\ \A C : Component(C)' = Component(C)
    BY <1>3, EdgesStay
<1>19. TarjanTypeOK'
  <2>1. tarjan' \in [index : Nat, indices : [D -> Nat], low : [D -> Nat],
                     stack : Seq(D), out : SUBSET SUBSET AllNodes,
                     work : Seq([v : D, left : SUBSET AllNodes])]
      BY <1>2, <1>3, <1>16
  <2> QED
      BY <1>2, <1>3, <1>4, <1>18, <2>1 DEF TarjanTypeOK
<1>20. InOrder'
  <2>1. \A i, j \in DOMAIN tarjan'.stack : i < j => tarjan'.indices[tarjan'.stack[i]] < tarjan'.indices[tarjan'.stack[j]]
      BY <1>1, <1>3 DEF InOrder
  <2>2. ASSUME NEW i, NEW j, i \in DOMAIN tarjan'.work, j \in DOMAIN tarjan'.work, i < j
        PROVE  tarjan'.indices[FrameAt(i)'] < tarjan'.indices[FrameAt(j)']
    <3>1. i \in 1 .. m - 1 /\ j \in 1 .. m - 1 /\ i \in 1 .. m /\ j \in 1 .. m
        BY <1>3, <1>4, <2>2
    <3> QED
        BY <1>3, <1>5, <2>2, <3>1
  <2>3. ASSUME NEW i, i \in DOMAIN tarjan'.work
        PROVE  FrameAt(i)' \in Stacked' /\ tarjan'.work[i].left \subseteq Succ(FrameAt(i)')
    <3>1. i \in 1 .. m - 1 /\ i \in DOMAIN tarjan.work
        BY <1>3, <1>4, <2>3
    <3>2. FrameAt(i) \in Stacked /\ tarjan.work[i].left \subseteq Succ(FrameAt(i))
        BY <3>1, AtFrame
    <3> QED
        BY <1>3, <1>17, <3>1, <3>2
  <2>4. ASSUME NEW x, x \in Stacked' PROVE tarjan'.work # <<>> /\ tarjan'.indices[FrameAt(1)'] <= tarjan'.indices[x]
    <3>1. 1 \in 1 .. m - 1
        BY <1>4, <1>8, OneBelow
    <3>2. I[FrameAt(1)] <= I[x]
        BY <1>1, <1>17, <2>4 DEF InOrder
    <3> QED
        BY <1>3, <1>8, <3>1, <3>2
  <2>5. \A i : Succ(FrameAt(i))' = Succ(FrameAt(i)')
      BY <1>3 DEF Succ
  <2>6. \A i, j \in DOMAIN tarjan'.work : i < j => tarjan'.indices[tarjan'.work[i].v] < tarjan'.indices[tarjan'.work[j].v]
      BY <2>2 DEF FrameAt
  <2>7. \A x \in Stacked' : tarjan'.work # <<>> /\ tarjan'.indices[FrameAt(1)'] <= tarjan'.indices[x]
      BY <2>4
  <2> QED
      BY <2>1, <2>3, <2>5, <2>6, <2>7 DEF InOrder, FrameAt
<1>21. StackConnected'
  <2> SUFFICES ASSUME NEW i, NEW x, i \in DOMAIN tarjan'.work, x \in Stacked'
               PROVE  /\ tarjan'.indices[FrameAt(i)'] <= tarjan'.indices[x] => Reaches(FrameAt(i)', x)
                      /\ Before(x, i)' => Reaches(x, FrameAt(i)')
      BY <1>3, ConnectedNext
  <2>1. i \in 1 .. m - 1 /\ i \in DOMAIN tarjan.work /\ x \in Stacked /\ FrameAt(i)' = FrameAt(i)
      BY <1>3, <1>4, <1>17
  <2>2. (I[FrameAt(i)] <= I[x] => Reaches(FrameAt(i), x)) /\ (Before(x, i) => Reaches(x, FrameAt(i)))
      BY <2>1, AtFrame
  <2>3. i = m - 1 => FrameAt(i) = p
      BY <1>10
  <2> QED
      BY <1>3, <1>15, <2>1, <2>2, <2>3
<1>22. LowIsLeast'
  <2> SUFFICES ASSUME NEW i, i \in DOMAIN tarjan'.work
               PROVE  /\ tarjan'.low[FrameAt(i)'] <= tarjan'.indices[FrameAt(i)']
                      /\ \E w : w \in Stacked' /\ tarjan'.indices[w] = tarjan'.low[FrameAt(i)'] /\ Reaches(FrameAt(i)', w)
                      /\ \A x : x \in Stacked' /\ tarjan'.indices[FrameAt(i)'] <= tarjan'.indices[x] /\ Before(x, i)' =>
                           \A w : w \in Succ(x) /\ w \notin Pending(x)' =>
                              /\ w \in DOMAIN tarjan'.indices
                              /\ w \in Stacked' => tarjan'.low[FrameAt(i)'] <= tarjan'.indices[w]
      BY <1>3, LowNext
  <2>1. PICK n : n = FrameAt(i)
      OBVIOUS
  <2>2. i \in 1 .. m - 1 /\ i \in DOMAIN tarjan.work /\ FrameAt(i)' = n /\ n \in D /\ n \in Stacked
      BY <1>3, <1>4, <1>5, <2>1
  <2>3. IF i = m - 1 THEN n = p ELSE n # p
    <3>1. i # m - 1 => i < m - 1 /\ i \in 1 .. m
        BY <1>4, <2>2
    <3>2. i # m - 1 => I[n] < I[p]
        BY <1>5, <1>9, <1>10, <2>1, <3>1
    <3> QED
        BY <1>10, <1>11, <2>1, <3>2
  <2>4. /\ tarjan.low[n] <= I[n] /\ \E w : w \in Stacked /\ I[w] = tarjan.low[n] /\ Reaches(n, w)
        /\ \A x : x \in Stacked /\ I[n] <= I[x] /\ Before(x, i) =>
             \A w : w \in Succ(x) /\ w \notin Pending(x) => w \in D /\ (w \in Stacked => tarjan.low[n] <= I[w])
      BY <2>1, <2>2, AtFrame
  <2>5. /\ tarjan'.low[n] \in Nat /\ tarjan.low[n] \in Nat /\ tarjan'.low[n] <= tarjan.low[n] /\ I[n] \in Nat
        /\ n # p => tarjan'.low[n] = tarjan.low[n]
      BY <1>2, <1>16, <2>2
  <2>6. tarjan'.low[n] <= I[n]
      BY <2>4, <2>5
  <2>7. \E w : w \in Stacked /\ I[w] = tarjan'.low[n] /\ Reaches(n, w)
    <3>1. CASE tarjan'.low[n] = tarjan.low[n]
        BY <2>4, <3>1
    <3>2. CASE n = p /\ tarjan'.low[p] = tarjan.low[FrameAt(m)]
      <4>1. Reaches(p, FrameAt(m))
        <5>1. I[p] <= I[FrameAt(m)]
            BY <1>6, <1>11
        <5> QED
            BY <1>4, <1>9, <1>10, <5>1, AtFrame
      <4>2. u \in QNames
          BY <1>4, <1>7
      <4>3. Reaches(p, u)
          BY <1>4, <1>7, <1>11, <4>1, <4>2, ReachLaws
      <4> QED
          BY <1>7, <3>2, <4>3
    <3> QED
        BY <1>16, <2>5, <3>1, <3>2
  <2>8. ASSUME NEW x, x \in Stacked, I[n] <= I[x], Before(x, i)', NEW w, w \in Succ(x), w \notin Pending(x)'
        PROVE  w \in D /\ (w \in Stacked => tarjan'.low[n] <= I[w])
    <3>1. w \notin Pending(x) /\ (w \in D => I[w] \in Nat)
        BY <1>2, <1>3, <2>8
    <3>2. CASE Before(x, i)
      <4>1. w \in D /\ (w \in Stacked => tarjan.low[n] <= I[w])
          BY <2>4, <2>8, <3>1, <3>2
      <4> QED
          BY <2>5, <3>1, <4>1
    <3>3. CASE ~Before(x, i)
      <4>1. i = m - 1 /\ n = p
          BY <1>3, <2>2, <2>3, <2>8, <3>3
      <4>2. I[FrameAt(m)] <= I[x]
          BY <1>2, <1>4, <1>6, <1>12, <2>8, <3>3, <4>1
      <4>3. w \in D /\ (w \in Stacked => tarjan.low[FrameAt(m)] <= I[w])
          BY <1>4, <1>13, <2>8, <3>1, <4>2, AtFrame
      <4> QED
          BY <1>6, <1>16, <3>1, <4>1, <4>3
    <3> QED
        BY <3>2, <3>3
  <2> QED
      BY <1>3, <1>17, <2>2, <2>6, <2>7, <2>8
<1>23. \A x \in Settled' : Succ(x)' \subseteq Settled'
    BY <1>17, <1>18 DEF TarjanInv
<1>24. tarjan'.out = {C \in SUBSET Settled' : Component(C)'}
    BY <1>3, <1>17, <1>18 DEF TarjanInv
<1> QED
    BY <1>19, <1>20, <1>21, <1>22, <1>23, <1>24 DEF TarjanInv

\* The stack without what was met since v, which is at position at.
Popped(low, at, v) ==
    /\ low \in Seq(DOMAIN tarjan.indices) /\ DOMAIN low = 1 .. at - 1
    /\ \A i \in 1 .. at - 1 : i \in DOMAIN tarjan.stack /\ low[i] = tarjan.stack[i]
    /\ {low[i] : i \in DOMAIN low} = {x \in Stacked : tarjan.indices[x] < tarjan.indices[v]}
    /\ {tarjan.stack[i] : i \in at .. Len(tarjan.stack)} = {x \in Stacked : tarjan.indices[x] >= tarjan.indices[v]}

\* What is popped is all that was met since the root, and no more.
LEMMA PoppedStack ==
    ASSUME TarjanTypeOK, InOrder, NEW at \in DOMAIN tarjan.stack, NEW v, v = tarjan.stack[at], NEW low,
           low = SubSeq(tarjan.stack, 1, at - 1)
    PROVE  Popped(low, at, v)
<1> DEFINE D == DOMAIN tarjan.indices
           I == tarjan.indices
           n == Len(tarjan.stack)
<1>1. /\ I \in [D -> Nat] /\ tarjan.stack \in Seq(D) /\ n \in Nat /\ DOMAIN tarjan.stack = 1 .. n /\ Stacked \subseteq D
    BY TarjanShape
<1>2. at \in Nat /\ at >= 1 /\ at <= n /\ \A i \in 1 .. at - 1 : i \in DOMAIN tarjan.stack /\ tarjan.stack[i] \in D
  <2>1. at \in Nat /\ at >= 1 /\ at <= n
      BY <1>1
  <2>2. \A i \in 1 .. at - 1 : i \in 1 .. n
      BY <1>1, <2>1
  <2>3. \A i \in 1 .. n : tarjan.stack[i] \in D
      BY <1>1
  <2> QED
      BY <1>1, <2>1, <2>2, <2>3
<1>3. /\ low \in Seq(D) /\ Len(low) = at - 1 /\ \A i \in 1 .. at - 1 : low[i] = tarjan.stack[i]
  <2>1. PICK k : k = at - 1 /\ k \in Nat /\ k \in Int /\ 1 \in Int
      BY <1>2
  <2>2. \A i \in 1 .. k : tarjan.stack[i] \in D
      BY <1>2, <2>1
  <2>3. PICK s : s = tarjan.stack
      OBVIOUS
  <2>4. /\ SubSeq(s, 1, k) \in Seq(D) /\ Len(SubSeq(s, 1, k)) = (IF 1 <= k THEN k - 1 + 1 ELSE 0)
        /\ \A i \in 1 .. k - 1 + 1 : SubSeq(s, 1, k)[i] = s[1 + i - 1]
    <3>1. \A i \in 1 .. k : s[i] \in D
        BY <2>2, <2>3
    <3> HIDE DEF D
    <3> QED
        BY <2>1, <3>1, SubSeqProperties
  <2>5. low = SubSeq(s, 1, k)
      BY <2>1, <2>3
  <2>6. k - 1 + 1 = k /\ \A i \in 1 .. k : 1 + i - 1 = i
      BY <2>1
  <2>7. low \in Seq(D) /\ Len(low) = k /\ \A i \in 1 .. k : low[i] = s[i]
    <3>1. PICK r : r = SubSeq(s, 1, k)
        OBVIOUS
    <3> HIDE DEF D
    <3>2. r \in Seq(D) /\ Len(r) = (IF 1 <= k THEN k - 1 + 1 ELSE 0) /\ \A i \in 1 .. k : r[i] = s[1 + i - 1]
        BY <2>4, <2>6, <3>1
    <3>3. Len(r) = k
        BY <2>1, <2>6, <3>2
    <3>4. \A i \in 1 .. k : r[i] = s[i]
        BY <2>6, <3>2
    <3> QED
        BY <2>5, <3>1, <3>2, <3>3, <3>4
  <2> QED
      BY <2>1, <2>3, <2>7
<1>4. DOMAIN low = 1 .. at - 1
  <2> HIDE DEF D
  <2>1. low \in Seq(D) /\ Len(low) = at - 1
      BY <1>3
  <2> QED
      BY <2>1
<1>5. \A i, j \in 1 .. n : i < j => I[tarjan.stack[i]] < I[tarjan.stack[j]]
    BY <1>1 DEF InOrder
<1>6. \A i \in 1 .. n : I[tarjan.stack[i]] \in Nat /\ tarjan.stack[i] \in Stacked
    BY <1>1 DEF Stacked
<1>7. \A i \in 1 .. n : I[tarjan.stack[i]] < I[v] <=> i < at
  <2> SUFFICES ASSUME NEW i \in 1 .. n PROVE I[tarjan.stack[i]] < I[v] <=> i < at
      OBVIOUS
  <2>1. at \in 1 .. n /\ I[v] \in Nat /\ I[tarjan.stack[i]] \in Nat
      BY <1>1, <1>6
  <2>2. i < at => I[tarjan.stack[i]] < I[v]
      BY <1>5, <2>1
  <2>3. i > at => I[v] < I[tarjan.stack[i]]
      BY <1>5, <2>1
  <2>4. i = at => I[tarjan.stack[i]] = I[v]
      OBVIOUS
  <2> QED
      BY <1>2, <2>1, <2>2, <2>3, <2>4
<1>8. \A x : x \in Stacked <=> \E i \in 1 .. n : x = tarjan.stack[i]
    BY <1>1 DEF Stacked
<1>9. {low[i] : i \in DOMAIN low} = {x \in Stacked : I[x] < I[v]}
  <2>1. ASSUME NEW x, x \in {low[i] : i \in DOMAIN low} PROVE x \in Stacked /\ I[x] < I[v]
    <3>1. PICK i \in 1 .. at - 1 : x = low[i]
        BY <1>4, <2>1
    <3>2. i \in 1 .. n /\ x = tarjan.stack[i] /\ i < at
      <4>1. i < at /\ i \in 1 .. n
          BY <1>2, <3>1
      <4>2. x = tarjan.stack[i]
          BY <1>3, <3>1
      <4> QED
          BY <4>1, <4>2
    <3> QED
        BY <1>6, <1>7, <3>2
  <2>2. ASSUME NEW x, x \in Stacked, I[x] < I[v] PROVE x \in {low[i] : i \in DOMAIN low}
    <3>1. PICK i \in 1 .. n : x = tarjan.stack[i]
        BY <1>8, <2>2
    <3>2. i < at
        BY <1>7, <2>2, <3>1
    <3>3. at \in Nat
        BY <1>2
    <3>4. i \in 1 .. at - 1
        BY <3>2, <3>3
    <3>5. low[i] = x
        BY <1>3, <3>1, <3>4
    <3> QED
        BY <1>4, <3>4, <3>5
  <2> QED
      BY <2>1, <2>2
<1>10. {tarjan.stack[i] : i \in at .. n} = {x \in Stacked : I[x] >= I[v]}
  <2>1. I[v] \in Nat
      BY <1>1, <1>6
  <2>2. ASSUME NEW x, x \in {tarjan.stack[i] : i \in at .. n} PROVE x \in Stacked /\ I[x] >= I[v]
    <3>1. PICK i \in at .. n : x = tarjan.stack[i]
        BY <2>2
    <3>2. i \in 1 .. n /\ ~ (i < at)
        BY <1>1, <1>2, <3>1
    <3> QED
        BY <1>6, <1>7, <2>1, <3>1, <3>2
  <2>3. ASSUME NEW x, x \in Stacked, I[x] >= I[v] PROVE x \in {tarjan.stack[i] : i \in at .. n}
    <3>1. PICK i \in 1 .. n : x = tarjan.stack[i]
        BY <1>8, <2>3
    <3>2. I[x] \in Nat
        BY <1>6, <3>1
    <3>3. ~ (i < at)
        BY <1>7, <2>1, <2>3, <3>1, <3>2
    <3>4. i \in at .. n
        BY <1>1, <1>2, <3>3
    <3> QED
        BY <3>1, <3>4
  <2> QED
      BY <2>2, <2>3
<1> QED
    BY <1>2, <1>3, <1>4, <1>9, <1>10 DEF Popped

\* No edge leads from comp to a node still open, and its nodes are those that
\* reach one another.
Sealed(comp) ==
    /\ \A x \in comp : Succ(x) \subseteq Settled \cup comp
    /\ \A a \in comp, b \in AllNodes : b \in comp <=> Reaches(a, b) /\ Reaches(b, a)

\* What is popped is a component: nothing leads out of it and the settled nodes.
LEMMA PoppedIsComponent ==
    ASSUME graph \subseteq QNames \X QNames, TarjanInv, NEW m, m = Len(tarjan.work), tarjan.work # <<>>,
           tarjan.work[m].left = {}, tarjan.low[FrameAt(m)] = tarjan.indices[FrameAt(m)], NEW comp,
           comp = {x \in Stacked : tarjan.indices[x] >= tarjan.indices[FrameAt(m)]}
    PROVE  Sealed(comp)
<1> DEFINE D == DOMAIN tarjan.indices
           I == tarjan.indices
<1>1. /\ m \in Nat \ {0} /\ m \in DOMAIN tarjan.work /\ DOMAIN tarjan.work = 1 .. m
      /\ Stacked \subseteq D /\ D \subseteq AllNodes /\ AllNodes \subseteq QNames
      /\ FrameAt(m) \in Stacked /\ FrameAt(m) \in D /\ FrameAt(m) \in QNames
    BY TopAt
<1>2. /\ \A i \in 1 .. m : FrameAt(i) \in Stacked /\ FrameAt(i) \in D
      /\ \A i, j \in 1 .. m : i < j => I[FrameAt(i)] < I[FrameAt(j)]
    BY TopAt
<1>3. I \in [D -> Nat]
    BY TarjanShape DEF TarjanInv
<1>4. \A x \in Stacked : Before(x, m)
    BY DEF Before
<1>5. \A x \in comp : x \in Stacked /\ x \in QNames /\ I[FrameAt(m)] <= I[x] /\ I[x] \in Nat
    BY <1>1, <1>3
<1>6. ASSUME NEW x \in comp PROVE Pending(x) = {}
  <2> SUFFICES ASSUME NEW u \in Pending(x) PROVE FALSE
      OBVIOUS
  <2>1. PICK j : j \in 1 .. m /\ FrameAt(j) = x /\ u \in tarjan.work[j].left
      BY <1>1 DEF Pending
  <2>2. j # m
      BY <2>1
  <2>3. j < m /\ m \in 1 .. m
      BY <1>1, <2>1, <2>2
  <2>4. I[x] < I[FrameAt(m)] /\ I[FrameAt(m)] \in Nat
      BY <1>1, <1>2, <1>3, <2>1, <2>3
  <2> QED
      BY <1>5, <2>4
<1>7. \A x \in comp : Succ(x) \subseteq Settled \cup comp
  <2> SUFFICES ASSUME NEW x \in comp, NEW w \in Succ(x) PROVE w \in Settled \cup comp
      OBVIOUS
  <2>1. w \notin Pending(x)
      BY <1>6
  <2>2. w \in D /\ (w \in Stacked => tarjan.low[FrameAt(m)] <= I[w])
      BY <1>1, <1>4, <1>5, <2>1, AtFrame
  <2>3. w \in Stacked => I[w] >= I[FrameAt(m)]
      BY <1>1, <1>3, <2>2
  <2> QED
      BY <2>2, <2>3 DEF Settled
<1>8. \A x \in comp : Reaches(FrameAt(m), x) /\ Reaches(x, FrameAt(m))
    BY <1>1, <1>4, <1>5, AtFrame
<1>9. /\ ClosedSet(Settled) /\ ClosedSet(Settled \cup comp)
      /\ Settled \in SUBSET QNames /\ (Settled \cup comp) \in SUBSET QNames /\ Settled \cap comp = {}
  <2>1. \A x \in Settled : Succ(x) \subseteq Settled
      BY DEF TarjanInv
  <2>2. Settled \subseteq QNames /\ Settled \cap comp = {}
      BY <1>1, <1>5 DEF Settled
  <2> QED
      BY <1>5, <1>7, <2>1, <2>2 DEF ClosedSet
<1>10. ASSUME NEW a \in comp, NEW b \in AllNodes, b \in comp PROVE Reaches(a, b) /\ Reaches(b, a)
    BY <1>1, <1>5, <1>8, <1>10, ReachLaws
<1>11. ASSUME NEW a \in comp, NEW b \in AllNodes, Reaches(a, b), Reaches(b, a) PROVE b \in comp
  <2>1. b \in QNames /\ a \in QNames
      BY <1>1, <1>5
  <2>2. b \in Settled \cup comp
      BY <1>9, <1>11, <2>1, ReachLaws
  <2>3. b \in Settled => a \in Settled
      BY <1>9, <1>11, <2>1, ReachLaws
  <2> QED
      BY <1>9, <2>2, <2>3
<1> QED
    BY <1>7, <1>10, <1>11 DEF Sealed

\* A root takes its component off the stack.
LEMMA RootFrameDone ==
    ASSUME graph \subseteq QNames \X QNames, TarjanInv, FrameDone, NEW m, m = Len(tarjan.work),
           tarjan.low[FrameAt(m)] = tarjan.indices[FrameAt(m)]
    PROVE  TarjanInv'
<1> DEFINE D == DOMAIN tarjan.indices
           I == tarjan.indices
<1>1. TarjanTypeOK /\ InOrder
    BY DEF TarjanInv
<1>2. /\ tarjan.index \in Nat /\ I \in [D -> Nat] /\ tarjan.low \in [D -> Nat]
      /\ tarjan.out \in SUBSET SUBSET AllNodes /\ \A x \in D : I[x] < tarjan.index
    BY <1>1, TarjanShape
<1>3. /\ graph' = graph /\ tarjan.work # <<>> /\ tarjan.work[m].left = {}
      /\ tarjan'.index = tarjan.index /\ tarjan'.indices = I
      /\ tarjan'.work \in Seq([v : D, left : SUBSET AllNodes])
      /\ DOMAIN tarjan'.work = 1 .. m - 1 /\ Len(tarjan'.work) = m - 1 /\ (m # 1 => tarjan'.work # <<>>)
      /\ \A i : i \in 1 .. m - 1 => FrameAt(i)' = FrameAt(i) /\ tarjan'.work[i] = tarjan.work[i]
      /\ tarjan' = [index |-> tarjan'.index, indices |-> tarjan'.indices, low |-> tarjan'.low,
                    stack |-> tarjan'.stack, work |-> tarjan'.work, out |-> tarjan'.out]
      /\ tarjan'.low = IF m = 1 THEN tarjan.low
                       ELSE [tarjan.low EXCEPT ![FrameAt(m - 1)] = Least(@, tarjan.low[FrameAt(m)])]
      /\ \A x : Pending(x) \subseteq Pending(x)'
      /\ \A i, x : i \in 1 .. m - 1 /\ i # m - 1 /\ Before(x, i)' => Before(x, i)
    BY DoneShape
<1>4. PICK at : /\ at \in DOMAIN tarjan.stack /\ tarjan.stack[at] = FrameAt(m)
                /\ tarjan'.stack = SubSeq(tarjan.stack, 1, at - 1)
                /\ tarjan'.out = IF Cardinality({tarjan.stack[i] : i \in at .. Len(tarjan.stack)}) >= 2
                                 THEN tarjan.out \cup {{tarjan.stack[i] : i \in at .. Len(tarjan.stack)}}
                                 ELSE tarjan.out
    BY DoneShape
<1>5. /\ m \in Nat \ {0} /\ m \in DOMAIN tarjan.work /\ DOMAIN tarjan.work = 1 .. m
      /\ Stacked \subseteq D /\ D \subseteq AllNodes /\ AllNodes \subseteq QNames
      /\ FrameAt(m) \in Stacked /\ FrameAt(m) \in D
    BY <1>3, TopAt
<1>6. /\ \A i \in 1 .. m : FrameAt(i) \in Stacked /\ FrameAt(i) \in D
      /\ \A i, j \in 1 .. m : i < j => I[FrameAt(i)] < I[FrameAt(j)]
    BY <1>3, TopAt
<1>7. PICK comp : comp = {x \in Stacked : I[x] >= I[FrameAt(m)]}
    OBVIOUS
<1>8. /\ tarjan'.stack \in Seq(D) /\ DOMAIN tarjan'.stack = 1 .. at - 1
      /\ \A i \in 1 .. at - 1 : i \in DOMAIN tarjan.stack /\ tarjan'.stack[i] = tarjan.stack[i]
      /\ {tarjan'.stack[i] : i \in DOMAIN tarjan'.stack} = {x \in Stacked : I[x] < I[FrameAt(m)]}
      /\ {tarjan.stack[i] : i \in at .. Len(tarjan.stack)} = comp
  <2>1. PICK low : low = tarjan'.stack
      OBVIOUS
  <2>2. /\ low \in Seq(D) /\ DOMAIN low = 1 .. at - 1
        /\ \A i \in 1 .. at - 1 : i \in DOMAIN tarjan.stack /\ low[i] = tarjan.stack[i]
        /\ {low[i] : i \in DOMAIN low} = {x \in Stacked : I[x] < I[FrameAt(m)]}
        /\ {tarjan.stack[i] : i \in at .. Len(tarjan.stack)} = {x \in Stacked : I[x] >= I[FrameAt(m)]}
    <3>1. low = SubSeq(tarjan.stack, 1, at - 1) /\ at \in DOMAIN tarjan.stack /\ FrameAt(m) = tarjan.stack[at]
        BY <1>4, <2>1
    <3>2. Popped(low, at, FrameAt(m))
        BY <1>1, <3>1, PoppedStack, Zenon
    <3> QED
        BY <3>2 DEF Popped
  <2> QED
      BY <1>7, <2>1, <2>2
<1>9. Stacked' = {x \in Stacked : I[x] < I[FrameAt(m)]}
    BY <1>8 DEF Stacked
<1>10. Settled' = Settled \cup comp
    BY <1>2, <1>3, <1>5, <1>7, <1>9 DEF Settled
<1>11. /\ \A x \in comp : Succ(x) \subseteq Settled \cup comp
       /\ \A a \in comp, b \in AllNodes : b \in comp <=> Reaches(a, b) /\ Reaches(b, a)
  <2>1. tarjan.work # <<>> /\ tarjan.work[m].left = {}
      BY <1>3
  <2>2. Sealed(comp)
      BY <1>7, <2>1, PoppedIsComponent, Zenon
  <2> QED
      BY <2>2 DEF Sealed
<1>12. m # 1 => m - 1 \in 1 .. m - 1 /\ 1 \in 1 .. m - 1
    BY <1>5, OneBelow
<1>13. \A i \in 1 .. m - 1 : i \in 1 .. m /\ i < m /\ m \in 1 .. m /\ i \in DOMAIN tarjan.work
    BY <1>5
<1>14. \A i \in 1 .. m - 1 : I[FrameAt(i)] < I[FrameAt(m)] /\ I[FrameAt(i)] \in Nat /\ I[FrameAt(m)] \in Nat
    BY <1>2, <1>5, <1>6, <1>13
<1>15. tarjan'.low = tarjan.low
  <2>1. CASE m = 1
      BY <1>3, <2>1
  <2>2. CASE m # 1
    <3>1. PICK p : p = FrameAt(m - 1)
        OBVIOUS
    <3>2. p \in D /\ I[p] < I[FrameAt(m)] /\ I[p] \in Nat /\ I[FrameAt(m)] \in Nat
        BY <1>6, <1>12, <1>13, <1>14, <2>2, <3>1
    <3>3. tarjan.low[p] <= I[p] /\ tarjan.low[p] \in Nat
      <4>1. m - 1 \in DOMAIN tarjan.work
          BY <1>12, <1>13, <2>2
      <4>2. tarjan.low[FrameAt(m - 1)] <= I[FrameAt(m - 1)]
          BY <4>1, AtFrame
      <4> QED
          BY <1>2, <3>1, <3>2, <4>2
    <3>4. PICK k : k = tarjan.low[FrameAt(m)]
        OBVIOUS
    <3>5. tarjan'.low = [tarjan.low EXCEPT ![p] = Least(tarjan.low[p], k)]
        BY <1>3, <2>2, <3>1, <3>4
    <3>6. Least(tarjan.low[p], k) = tarjan.low[p]
        BY <3>2, <3>3, <3>4 DEF Least
    <3> QED
        BY <1>2, <3>2, <3>5, <3>6
  <2> QED
      BY <2>1, <2>2
<1>16. AllNodes' = AllNodes /\ (\A a : Succ(a)' = Succ(a)) /\ \A C : Component(C)' = Component(C)
    BY <1>3, EdgesStay
<1>17. comp \subseteq AllNodes /\ Settled \subseteq AllNodes /\ comp \cap Settled = {}
    BY <1>5, <1>7 DEF Settled
<1>18. TarjanTypeOK'
  <2>1. tarjan'.out \in SUBSET SUBSET AllNodes
    <3>1. tarjan'.out = IF Cardinality(comp) >= 2 THEN tarjan.out \cup {comp} ELSE tarjan.out
        BY <1>4, <1>8
    <3> QED
        BY <1>2, <1>17, <3>1
  <2>2. tarjan' \in [index : Nat, indices : [D -> Nat], low : [D -> Nat],
                     stack : Seq(D), out : SUBSET SUBSET AllNodes,
                     work : Seq([v : D, left : SUBSET AllNodes])]
      BY <1>2, <1>3, <1>8, <1>15, <2>1
  <2> QED
      BY <1>2, <1>3, <1>5, <1>16, <2>2 DEF TarjanTypeOK
<1>19. \A x, i : x \in Stacked' /\ i \in 1 .. m - 1 /\ Before(x, i)' => Before(x, i)
  <2> SUFFICES ASSUME NEW x, NEW i, x \in Stacked', i \in 1 .. m - 1, Before(x, i)' PROVE Before(x, i)
      OBVIOUS
  <2>1. CASE i # m - 1
      BY <1>3, <2>1
  <2>2. CASE i = m - 1
    <3>1. i + 1 = m /\ I[x] < I[FrameAt(m)]
        BY <1>5, <1>9, <2>2
    <3> QED
        BY <3>1 DEF Before
  <2> QED
      BY <2>1, <2>2
<1>20. \A i \in 1 .. m - 1 : FrameAt(i) \in Stacked'
    BY <1>6, <1>9, <1>13, <1>14
<1>21. InOrder'
  <2>1. \A i, j \in DOMAIN tarjan'.stack : i < j => tarjan'.indices[tarjan'.stack[i]] < tarjan'.indices[tarjan'.stack[j]]
      BY <1>1, <1>3, <1>8 DEF InOrder
  <2>2. ASSUME NEW i, NEW j, i \in DOMAIN tarjan'.work, j \in DOMAIN tarjan'.work, i < j
        PROVE  tarjan'.indices[FrameAt(i)'] < tarjan'.indices[FrameAt(j)']
    <3>1. i \in 1 .. m - 1 /\ j \in 1 .. m - 1 /\ i \in 1 .. m /\ j \in 1 .. m
        BY <1>3, <1>13, <2>2
    <3> QED
        BY <1>3, <1>6, <2>2, <3>1
  <2>3. ASSUME NEW i, i \in DOMAIN tarjan'.work
        PROVE  FrameAt(i)' \in Stacked' /\ tarjan'.work[i].left \subseteq Succ(FrameAt(i)')
    <3>1. i \in 1 .. m - 1 /\ i \in DOMAIN tarjan.work
        BY <1>3, <1>13, <2>3
    <3>2. tarjan.work[i].left \subseteq Succ(FrameAt(i))
        BY <3>1, AtFrame
    <3> QED
        BY <1>3, <1>20, <3>1, <3>2
  <2>4. ASSUME NEW x, x \in Stacked' PROVE tarjan'.work # <<>> /\ tarjan'.indices[FrameAt(1)'] <= tarjan'.indices[x]
    <3>1. x \in Stacked /\ I[x] < I[FrameAt(m)] /\ I[FrameAt(1)] <= I[x] /\ I[x] \in Nat /\ I[FrameAt(m)] \in Nat
        BY <1>1, <1>2, <1>5, <1>9, <2>4 DEF InOrder
    <3>2. m = 1 => FrameAt(1) = FrameAt(m)
        OBVIOUS
    <3>3. m # 1
        BY <3>1, <3>2
    <3> QED
        BY <1>3, <1>12, <3>1, <3>3
  <2>5. \A i : Succ(FrameAt(i))' = Succ(FrameAt(i)')
      BY <1>3 DEF Succ
  <2>6. \A i, j \in DOMAIN tarjan'.work : i < j => tarjan'.indices[tarjan'.work[i].v] < tarjan'.indices[tarjan'.work[j].v]
      BY <2>2 DEF FrameAt
  <2>7. \A x \in Stacked' : tarjan'.work # <<>> /\ tarjan'.indices[FrameAt(1)'] <= tarjan'.indices[x]
      BY <2>4
  <2> QED
      BY <2>1, <2>3, <2>5, <2>6, <2>7 DEF InOrder, FrameAt
<1>22. StackConnected'
  <2> SUFFICES ASSUME NEW i, NEW x, i \in DOMAIN tarjan'.work, x \in Stacked'
               PROVE  /\ tarjan'.indices[FrameAt(i)'] <= tarjan'.indices[x] => Reaches(FrameAt(i)', x)
                      /\ Before(x, i)' => Reaches(x, FrameAt(i)')
      BY <1>3, ConnectedNext
  <2>1. i \in 1 .. m - 1 /\ i \in DOMAIN tarjan.work /\ x \in Stacked /\ FrameAt(i)' = FrameAt(i)
      BY <1>3, <1>9, <1>13
  <2>2. (I[FrameAt(i)] <= I[x] => Reaches(FrameAt(i), x)) /\ (Before(x, i) => Reaches(x, FrameAt(i)))
      BY <2>1, AtFrame
  <2> QED
      BY <1>3, <1>19, <2>1, <2>2
<1>23. LowIsLeast'
  <2> SUFFICES ASSUME NEW i, i \in DOMAIN tarjan'.work
               PROVE  /\ tarjan'.low[FrameAt(i)'] <= tarjan'.indices[FrameAt(i)']
                      /\ \E w : w \in Stacked' /\ tarjan'.indices[w] = tarjan'.low[FrameAt(i)'] /\ Reaches(FrameAt(i)', w)
                      /\ \A x : x \in Stacked' /\ tarjan'.indices[FrameAt(i)'] <= tarjan'.indices[x] /\ Before(x, i)' =>
                           \A w : w \in Succ(x) /\ w \notin Pending(x)' =>
                              /\ w \in DOMAIN tarjan'.indices
                              /\ w \in Stacked' => tarjan'.low[FrameAt(i)'] <= tarjan'.indices[w]
      BY <1>3, LowNext
  <2>1. PICK n : n = FrameAt(i)
      OBVIOUS
  <2>2. i \in 1 .. m - 1 /\ i \in DOMAIN tarjan.work /\ FrameAt(i)' = n /\ n \in D /\ n \in Stacked
        /\ I[n] < I[FrameAt(m)] /\ I[n] \in Nat /\ I[FrameAt(m)] \in Nat /\ tarjan.low[n] \in Nat
      BY <1>2, <1>3, <1>6, <1>13, <1>14, <2>1
  <2>3. /\ tarjan.low[n] <= I[n] /\ \E w : w \in Stacked /\ I[w] = tarjan.low[n] /\ Reaches(n, w)
        /\ \A x : x \in Stacked /\ I[n] <= I[x] /\ Before(x, i) =>
             \A w : w \in Succ(x) /\ w \notin Pending(x) => w \in D /\ (w \in Stacked => tarjan.low[n] <= I[w])
      BY <2>1, <2>2, AtFrame
  <2>4. \E w : w \in Stacked' /\ I[w] = tarjan.low[n] /\ Reaches(n, w)
    <3>1. PICK w : w \in Stacked /\ I[w] = tarjan.low[n] /\ Reaches(n, w)
        BY <2>3
    <3>2. I[w] < I[FrameAt(m)]
        BY <2>2, <2>3, <3>1
    <3> QED
        BY <1>9, <3>1, <3>2
  <2>5. ASSUME NEW x, x \in Stacked', I[n] <= I[x], Before(x, i)', NEW w, w \in Succ(x), w \notin Pending(x)'
        PROVE  w \in D /\ (w \in Stacked' => tarjan.low[n] <= I[w])
    <3>1. w \notin Pending(x) /\ x \in Stacked /\ Before(x, i)
        BY <1>3, <1>9, <1>19, <2>2, <2>5
    <3>2. w \in D /\ (w \in Stacked => tarjan.low[n] <= I[w])
        BY <2>3, <2>5, <3>1
    <3> QED
        BY <1>9, <3>2
  <2> QED
      BY <1>3, <1>15, <2>2, <2>3, <2>4, <2>5
<1>24. \A x \in Settled' : Succ(x)' \subseteq Settled'
  <2>1. \A x \in Settled : Succ(x) \subseteq Settled
      BY DEF TarjanInv
  <2> QED
      BY <1>10, <1>11, <1>16, <2>1
<1>25. tarjan'.out = {C \in SUBSET Settled' : Component(C)'}
  <2>1. tarjan.out = {C \in SUBSET Settled : Component(C)}
      BY DEF TarjanInv
  <2>2. tarjan'.out = IF Cardinality(comp) >= 2 THEN tarjan.out \cup {comp} ELSE tarjan.out
      BY <1>4, <1>8
  <2>3. Component(comp) <=> Cardinality(comp) >= 2
      BY <1>11 DEF Component
  <2>4. ASSUME NEW C, C \subseteq Settled \cup comp, Component(C), NEW a \in C, a \in comp PROVE C = comp
    <3>1. \A b \in AllNodes : b \in C <=> Reaches(a, b) /\ Reaches(b, a)
        BY <2>4 DEF Component
    <3>2. \A b \in AllNodes : b \in C <=> b \in comp
        BY <1>11, <2>4, <3>1
    <3> QED
        BY <1>17, <2>4, <3>2
  <2>5. ASSUME NEW C, C \subseteq Settled \cup comp, Component(C) PROVE C \subseteq Settled \/ C = comp
      BY <2>4, <2>5
  <2>6. \A C : C \in tarjan'.out <=> C \in SUBSET (Settled \cup comp) /\ Component(C)
    <3>1. ASSUME NEW C, C \in tarjan'.out PROVE C \in SUBSET (Settled \cup comp) /\ Component(C)
        BY <2>1, <2>2, <2>3, <3>1
    <3>2. ASSUME NEW C, C \in SUBSET (Settled \cup comp), Component(C) PROVE C \in tarjan'.out
        BY <2>1, <2>2, <2>3, <2>5, <3>2
    <3> QED
        BY <3>1, <3>2
  <2> QED
      BY <1>10, <1>16, <2>6
<1> QED
    BY <1>18, <1>21, <1>22, <1>23, <1>24, <1>25 DEF TarjanInv

-----------------------------------------------------------------------------
(* GraphQueries: the invariant and what it answers. *)

\* A walk that is right stays so while graph and question stay.
LEMMA WalkedNext ==
    ASSUME graph' = graph, query' = query, Walked(walk'.visited, walk'.frontier)
    PROVE  Walked(walk.visited, walk.frontier)'
<1>1. \A S : Ball(S, query.depth)' = Ball(S, query.depth)
  <2> SUFFICES ASSUME NEW S PROVE Ball(S, query.depth)' = Ball(S, query.depth)
      OBVIOUS
  <2> QED
      BY DEF Ball, Consumers
<1>2. \A n : Consumers(n)' = Consumers(n)
  <2> SUFFICES ASSUME NEW n PROVE Consumers(n)' = Consumers(n)
      OBVIOUS
  <2> QED
      BY DEF Consumers
<1>3. ResolveTarget(query.target)' = ResolveTarget(query.target)
    BY DEF ResolveTarget, Limited, Matching, MatchRank
<1> QED
    BY <1>1, <1>2, <1>3 DEF Walked, Starts

\* Before anything was done.
LEMMA GraphBegins == GraphInit => GraphInv
<1> SUFFICES ASSUME GraphInit PROVE GraphInv
    OBVIOUS
<1>1. graph \subseteq QNames \X QNames /\ walk = NoWalk /\ tarjan = NoTarjan
    BY DEF GraphInit
<1>2. BlastInv
  <2>1. query \in [op : {"blast"}, target : Targets, depth : 1..MaxDepth]
                 \cup [op : {"cycles"}, target : {NoNode}, depth : {0}]
      BY DEF GraphInit
  <2>2. MaxDepth \in Nat
      BY GraphAssumption
  <2>3. query.depth \in Nat
      BY <2>1, <2>2
  <2> QED
      BY <1>1, <2>3 DEF BlastInv
<1>3. /\ tarjan.index = 0 /\ tarjan.indices = <<>> /\ tarjan.low = <<>> /\ tarjan.stack = <<>>
      /\ tarjan.work = <<>> /\ tarjan.out = {}
      /\ tarjan = [index |-> 0, indices |-> <<>>, low |-> <<>>, stack |-> <<>>, work |-> <<>>, out |-> {}]
    BY <1>1 DEF NoTarjan
<1>4. DOMAIN tarjan.indices = {} /\ DOMAIN tarjan.stack = {} /\ DOMAIN tarjan.work = {}
    BY <1>3
<1>5. Stacked = {} /\ Settled = {}
    BY <1>4 DEF Stacked, Settled
<1>6. TarjanTypeOK
  <2>1. <<>> \in [{} -> Nat] /\ <<>> \in Seq({}) /\ <<>> \in Seq([v : {}, left : SUBSET AllNodes])
    <3>1. <<>> \in Seq({}) /\ <<>> \in Seq([v : {}, left : SUBSET AllNodes])
        OBVIOUS
    <3>2. <<>> = [x \in {} |-> 0]
        BY EmptySeq
    <3> QED
        BY <3>1, <3>2
  <2>2. tarjan \in [index : Nat, indices : [{} -> Nat], low : [{} -> Nat], stack : Seq({}),
                    out : SUBSET SUBSET AllNodes, work : Seq([v : {}, left : SUBSET AllNodes])]
      BY <1>3, <2>1
  <2> QED
      BY <1>4, <2>2 DEF TarjanTypeOK
<1>7. InOrder /\ StackConnected /\ LowIsLeast
    BY <1>4, <1>5 DEF InOrder, StackConnected, LowIsLeast
<1>8. tarjan.out = {C \in SUBSET Settled : Component(C)}
  <2>1. ~ Component({})
      BY FS_EmptySet DEF Component
  <2> QED
      BY <1>3, <1>5, <2>1
<1> QED
    BY <1>1, <1>2, <1>5, <1>6, <1>7, <1>8 DEF GraphInv, TarjanInv

\* Every step of either walk keeps the invariant.
LEMMA GraphStep == GraphInv /\ [GraphNext]_graphVars => GraphInv'
<1> SUFFICES ASSUME GraphInv, [GraphNext]_graphVars PROVE GraphInv'
    OBVIOUS
<1>1. graph \subseteq QNames \X QNames /\ BlastInv /\ TarjanInv
    BY DEF GraphInv
<1>2. graph' = graph /\ query' = query
  <2>1. CASE UNCHANGED graphVars
      BY <2>1 DEF graphVars
  <2>2. CASE BlastStarts
      BY <2>2 DEF BlastStarts
  <2>3. ASSUME NEW n \in QNames, BlastPops(n) \/ StrongConnect(n) \/ Successor(n)
        PROVE  graph' = graph /\ query' = query
      BY <2>3 DEF BlastPops, StrongConnect, Successor
  <2>4. CASE FrameDone
      BY <2>4 DEF FrameDone
  <2> QED
      BY <2>1, <2>2, <2>3, <2>4 DEF GraphNext
<1>3. query.depth \in Nat
    BY <1>1 DEF BlastInv
<1>4. walk' # NoWalk /\ walk' # walk => Walked(walk'.visited, walk'.frontier)
  <2> SUFFICES ASSUME walk' # NoWalk, walk' # walk PROVE Walked(walk'.visited, walk'.frontier)
      OBVIOUS
  <2>1. CASE BlastStarts
    <3>1. PICK S \in ResolveTarget(query.target) : \E s \in Orders(S) :
             walk' = [visited |-> [q \in S |-> 0], frontier |-> s]
        BY <2>1 DEF BlastStarts
    <3>s. PICK s \in Orders(S) : walk' = [visited |-> [q \in S |-> 0], frontier |-> s]
        BY <3>1
    <3>2. Walked([q \in S |-> 0], s)
        BY <1>1, <1>3, BlastStarted
    <3> QED
        BY <3>s, <3>2
  <2>2. ASSUME NEW n \in QNames, BlastPops(n) PROVE Walked(walk'.visited, walk'.frontier)
    <3>1. PICK far, queue : far = walk.visited /\ queue = walk.frontier
        OBVIOUS
    <3>2. queue # <<>> /\ n = Head(queue)
        BY <2>2, <3>1 DEF BlastPops
    <3>3. PICK new : new = IF far[Head(queue)] >= query.depth THEN {} ELSE Consumers(Head(queue)) \ DOMAIN far
        BY Zenon
    <3>4. PICK s : s \in Orders(new) /\
             walk' = [visited |-> Met(far, queue, new), frontier |-> Tail(queue) \o s]
        BY <2>2, <3>1, <3>2, <3>3 DEF BlastPops, Met
    <3>5. walk # NoWalk
        BY <3>1, <3>2 DEF NoWalk
    <3>6. Walked(far, queue)
        BY <1>1, <3>1, <3>5 DEF BlastInv
    <3>7. Walked(Met(far, queue, new), Tail(queue) \o s)
      <4>1. graph \subseteq QNames \X QNames
          BY <1>1
      <4>2. query.depth \in Nat
          BY <1>3
      <4>3. queue # <<>>
          BY <3>2
      <4> QED
          BY <3>3, <3>4, <3>6, <4>1, <4>2, <4>3, BlastPopped, Zenon
    <3> QED
        BY <3>4, <3>7
  <2>3. ASSUME NEW n \in QNames, StrongConnect(n) \/ Successor(n) PROVE walk' = walk
      BY <2>3 DEF StrongConnect, Successor
  <2>4. CASE FrameDone
      BY <2>4 DEF FrameDone
  <2>5. CASE UNCHANGED graphVars
      BY <2>5 DEF graphVars
  <2> QED
      BY <2>1, <2>2, <2>3, <2>4, <2>5 DEF GraphNext
<1>5. walk' = walk /\ walk' # NoWalk => Walked(walk'.visited, walk'.frontier)
    BY <1>1 DEF BlastInv
<1>6. BlastInv'
    BY <1>2, <1>3, <1>4, <1>5, WalkedNext DEF BlastInv
<1>7. TarjanInv'
  <2>1. CASE tarjan' = tarjan
    <3>1. AllNodes' = AllNodes /\ (\A a : Succ(a)' = Succ(a)) /\ \A C : Component(C)' = Component(C)
        BY <1>2, EdgesStay
    <3>2. Stacked' = Stacked /\ Settled' = Settled /\ (\A i : FrameAt(i)' = FrameAt(i))
          /\ (\A x : Pending(x)' = Pending(x)) /\ \A x, i : Before(x, i)' = Before(x, i)
        BY <2>1 DEF Stacked, Settled, FrameAt, Pending, Before
    <3>3. TarjanTypeOK'
        BY <1>1, <2>1, <3>1 DEF TarjanInv, TarjanTypeOK
    <3>4. InOrder'
      <4>1. \A i : Succ(FrameAt(i))' = Succ(FrameAt(i))
          BY <1>2, <2>1 DEF Succ, FrameAt
      <4> QED
          BY <1>1, <2>1, <3>2, <4>1 DEF TarjanInv, InOrder
    <3>5. StackConnected'
      <4> SUFFICES ASSUME NEW i, NEW x, i \in DOMAIN tarjan'.work, x \in Stacked'
                   PROVE  /\ tarjan'.indices[FrameAt(i)'] <= tarjan'.indices[x] => Reaches(FrameAt(i)', x)
                          /\ Before(x, i)' => Reaches(x, FrameAt(i)')
          BY <1>2, ConnectedNext
      <4> QED
          BY <1>1, <2>1, <3>2, AtFrame
    <3>6. LowIsLeast'
      <4> SUFFICES ASSUME NEW i, i \in DOMAIN tarjan'.work
                   PROVE  /\ tarjan'.low[FrameAt(i)'] <= tarjan'.indices[FrameAt(i)']
                          /\ \E w : w \in Stacked' /\ tarjan'.indices[w] = tarjan'.low[FrameAt(i)'] /\ Reaches(FrameAt(i)', w)
                          /\ \A x : x \in Stacked' /\ tarjan'.indices[FrameAt(i)'] <= tarjan'.indices[x] /\ Before(x, i)' =>
                               \A w : w \in Succ(x) /\ w \notin Pending(x)' =>
                                  /\ w \in DOMAIN tarjan'.indices
                                  /\ w \in Stacked' => tarjan'.low[FrameAt(i)'] <= tarjan'.indices[w]
          BY <1>2, LowNext
      <4> QED
          BY <1>1, <2>1, <3>2, AtFrame
    <3> QED
        BY <1>1, <2>1, <3>1, <3>2, <3>3, <3>4, <3>5, <3>6 DEF TarjanInv
  <2>2. ASSUME NEW n \in QNames, StrongConnect(n) PROVE TarjanInv'
      BY <1>1, <2>2, RootBegins
  <2>3. ASSUME NEW n \in QNames, Successor(n) PROVE TarjanInv'
    <3>1. CASE n \in DOMAIN tarjan.indices
        BY <1>1, <2>3, <3>1, SuccessorIsKnown
    <3>2. CASE n \notin DOMAIN tarjan.indices
      <4>1. /\ tarjan.work # <<>> /\ n \in Top(tarjan.work).left /\ graph' = graph
            /\ tarjan' = [Visit(n) EXCEPT !.work = Append(Append(Front1(tarjan.work), [Top(tarjan.work) EXCEPT !.left = @ \ {n}]),
                                                          [v |-> n, left |-> Succ(n)])]
          BY <2>3, <3>2, Zenon DEF Successor
      <4> QED
          BY <1>1, <3>2, <4>1, SuccessorIsNew, Zenon
    <3> QED
        BY <3>1, <3>2
  <2>4. CASE FrameDone
    <3>1. PICK m : m = Len(tarjan.work)
        OBVIOUS
    <3> QED
        BY <1>1, <2>4, <3>1, RootFrameDone, InnerFrameDone
  <2> QED
      BY <2>1, <2>2, <2>3, <2>4 DEF GraphNext, graphVars, BlastStarts, BlastPops
<1> QED
    BY <1>1, <1>2, <1>6, <1>7 DEF GraphInv

\* What the invariant says once the walks are over, and of the other questions.
LEMMA GraphInvAnswers == GraphInv => GraphAnswersAreExact
<1> SUFFICES ASSUME GraphInv PROVE GraphAnswersAreExact
    OBVIOUS
<1>1. graph \subseteq QNames \X QNames /\ BlastInv /\ TarjanInv
    BY DEF GraphInv
<1>2. BlastIsShortest
  <2> SUFFICES ASSUME walk # NoWalk, walk.frontier = <<>>
               PROVE  LET starts == Starts(walk.visited)
                          ball == Ball(starts, query.depth)
                      IN /\ starts \in ResolveTarget(query.target)
                         /\ DOMAIN walk.visited = ball[query.depth]
                         /\ \A n \in DOMAIN walk.visited :
                              LET d == walk.visited[n] IN n \in ball[d] /\ (d > 0 => n \notin ball[d - 1])
      BY DEF BlastIsShortest
  <2>1. PICK far : far = walk.visited
      OBVIOUS
  <2>2. Walked(far, <<>>) /\ query.depth \in Nat
      BY <1>1, <2>1 DEF BlastInv
  <2> QED
      BY <1>1, <2>1, <2>2, BlastEnds
<1>3. CyclesAreComponents
  <2> SUFFICES ASSUME tarjan.work = <<>>, AllNodes \subseteq DOMAIN tarjan.indices
               PROVE  tarjan.out = {C \in SUBSET AllNodes : Component(C)}
      BY DEF CyclesAreComponents, Component
  <2>1. Stacked = {}
      BY <1>1, IdleStack
  <2>2. DOMAIN tarjan.indices \subseteq AllNodes
      BY <1>1, TarjanShape DEF TarjanInv
  <2>3. Settled = AllNodes
      BY <2>1, <2>2 DEF Settled
  <2> QED
      BY <1>1, <2>3 DEF TarjanInv
<1> QED
    BY <1>2, <1>3, GodsAreAsked DEF GraphAnswersAreExact

\* Whatever the graph, its names, the rows that are missing, the limit on starts and
\* the order of the rows: blast reports what depends on the rows the target resolves
\* to, up to the limit, at its shortest distance; detectCycles reports the strongly
\* connected components of two or more nodes; and blast starts at any node that
\* godnodes lists, when asked for it.
THEOREM GraphAnswers == GraphSpec => []GraphAnswersAreExact
<1>1. GraphSpec => []GraphInv
    BY GraphBegins, GraphStep, PTL DEF GraphSpec
<1> QED
    BY <1>1, GraphInvAnswers, PTL
-----------------------------------------------------------------------------
(* Clustering: the sums of weights and strengths. *)

\* g sums up the first numbers of a.
SumsOf(g, a, N) ==
    g \in [0 .. N -> Int] /\ \A n \in 0 .. N : g[n] = IF n = 0 THEN 0 ELSE g[n - 1] + a[n]

\* There are such sums.
LEMMA SumsExist ==
    ASSUME NEW N \in Nat, NEW a \in [1 .. N -> Int]
    PROVE  \E g : SumsOf(g, a, N)
<1> DEFINE T == {n \in Nat : n <= N /\ ~\E g : SumsOf(g, a, n)}
<1>1. ASSUME NEW n \in T PROVE n \in Nat \ {0} /\ n - 1 \in T
  <2>1. n # 0
    <3> SUFFICES ASSUME n = 0 PROVE FALSE
        OBVIOUS
    <3>1. SumsOf([d \in 0 .. 0 |-> 0], a, 0)
        BY DEF SumsOf
    <3> QED
        BY <3>1
  <2>2. n \in Nat /\ n - 1 \in Nat /\ n \in 1 .. N
      BY <2>1
  <2>3. SUFFICES ASSUME NEW g, SumsOf(g, a, n - 1)
                 PROVE  FALSE
      BY <2>1, <2>2
  <2> DEFINE h == [d \in 0 .. n |-> IF d < n THEN g[d] ELSE g[n - 1] + a[n]]
  <2>4. g[n - 1] \in Int /\ a[n] \in Int
      BY <2>2, <2>3 DEF SumsOf
  <2>5. h \in [0 .. n -> Int]
    <3>1. ASSUME NEW d \in 0 .. n PROVE h[d] \in Int
        BY <2>2, <2>3, <2>4 DEF SumsOf
    <3> QED
        BY <3>1
  <2>6. ASSUME NEW d \in 0 .. n PROVE h[d] = IF d = 0 THEN 0 ELSE h[d - 1] + a[d]
    <3>1. CASE d < n
      <4>1. d \in 0 .. n - 1 /\ h[d] = g[d]
          BY <2>2, <3>1
      <4>2. d # 0 => h[d - 1] = g[d - 1]
          BY <2>2, <3>1
      <4>3. g[d] = IF d = 0 THEN 0 ELSE g[d - 1] + a[d]
          BY <2>3, <4>1 DEF SumsOf
      <4> HIDE DEF h
      <4> QED
          BY <4>1, <4>2, <4>3
    <3>2. CASE d = n
      <4>1. h[d] = g[n - 1] + a[n] /\ h[n - 1] = g[n - 1] /\ d # 0
          BY <2>1, <2>2, <3>2
      <4> HIDE DEF h
      <4> QED
          BY <3>2, <4>1
    <3> QED
        BY <2>2, <3>1, <3>2
  <2> HIDE DEF h
  <2>7. SumsOf(h, a, n)
      BY <2>5, <2>6 DEF SumsOf
  <2> QED
      BY <2>7
<1>2. T = {}
  <2> SUFFICES ASSUME T # {} PROVE FALSE
      OBVIOUS
  <2>1. T \subseteq Nat
      OBVIOUS
  <2>2. PICK n \in T : \A y \in T : n <= y
    <3> HIDE DEF T
    <3> QED
        BY <2>1, LeastNumber
  <2>3. n \in Nat /\ n - 1 \in T
    <3> HIDE DEF T
    <3> QED
        BY <1>1
  <2> HIDE DEF T
  <2> QED
      BY <2>2, <2>3
<1>3. N \notin T
  <2> HIDE DEF T
  <2> QED
      BY <1>2
<1>4. N <= N
    OBVIOUS
<1> QED
    BY <1>3, <1>4

\* What a number adds to the sum of f over V.
AddsOf(V, f, n) == IF n \in V THEN f[n] ELSE 0

\* g is how SumOver gets to the sum of f over V.
Adds(g, V, f) ==
    /\ g \in [0 .. Len(weight) -> Int] /\ g[0] = 0 /\ SumOver(V, f) = g[Len(weight)]
    /\ \A n \in 1 .. Len(weight) : g[n] = g[n - 1] + AddsOf(V, f, n)

\* f has a number for each of V.
Counts(V, f) == Len(weight) \in Nat /\ V \subseteq 1 .. Len(weight) /\ \A n \in V : f[n] \in Int

\* The sum, number by number.
LEMMA SumSteps ==
    ASSUME NEW V, NEW f, Counts(V, f)
    PROVE  \E g : Adds(g, V, f)
<1> DEFINE N == Len(weight)
           a == [n \in 1 .. N |-> AddsOf(V, f, n)]
           body(h) == [n \in 0 .. N |-> IF n = 0 THEN 0 ELSE h[n - 1] + IF n \in V THEN f[n] ELSE 0]
           fl == CHOOSE h : h = body(h)
<1>1. N \in Nat /\ a \in [1 .. N -> Int]
    BY DEF Counts, AddsOf
<1>2. PICK g : SumsOf(g, a, N)
  <2> HIDE DEF a, N
  <2> QED
      BY <1>1, SumsExist, Zenon
<1>3. g \in [0 .. N -> Int] /\ \A n \in 0 .. N : g[n] = IF n = 0 THEN 0 ELSE g[n - 1] + a[n]
    BY <1>2 DEF SumsOf
<1>4. \A n \in 0 .. N : g[n] = IF n = 0 THEN 0 ELSE g[n - 1] + IF n \in V THEN f[n] ELSE 0
  <2> SUFFICES ASSUME NEW n \in 0 .. N PROVE g[n] = IF n = 0 THEN 0 ELSE g[n - 1] + IF n \in V THEN f[n] ELSE 0
      OBVIOUS
  <2>1. n # 0 => n \in 1 .. N
      BY <1>1
  <2>2. n # 0 => a[n] = IF n \in V THEN f[n] ELSE 0
      BY <2>1 DEF AddsOf
  <2> HIDE DEF a
  <2> QED
      BY <1>3, <2>2
<1>5. g = body(g)
  <2>1. g = [n \in 0 .. N |-> g[n]]
      BY <1>3
  <2> HIDE DEF a, N
  <2> QED
      BY <1>4, <2>1
<1>6. fl = body(fl)
    BY <1>5
<1>7. SumOver(V, f) = fl[N]
    BY DEF SumOver
<1> HIDE DEF fl, a
<1>8. \A n \in 0 .. N : fl[n] = IF n = 0 THEN 0 ELSE fl[n - 1] + IF n \in V THEN f[n] ELSE 0
    BY <1>6
<1> DEFINE U == {n \in Nat : n \in 0 .. N /\ fl[n] # g[n]}
<1>9. U = {}
  <2> SUFFICES ASSUME U # {} PROVE FALSE
      OBVIOUS
  <2>1. U \subseteq Nat
      OBVIOUS
  <2>2. PICK n \in U : \A y \in U : n <= y
    <3> HIDE DEF U
    <3> QED
        BY <2>1, LeastNumber
  <2>3. n \in 0 .. N /\ n # 0
      BY <1>4, <1>8
  <2>4. n \in 0 .. N /\ n - 1 \in 0 .. N /\ n - 1 \notin U
      BY <1>1, <2>2, <2>3
  <2>5. fl[n - 1] = g[n - 1]
      BY <2>4
  <2>6. fl[n] # g[n]
      BY <2>2
  <2> HIDE DEF U
  <2> QED
      BY <1>4, <1>8, <2>3, <2>4, <2>5, <2>6
<1>10. N \in 0 .. N /\ fl[N] = g[N]
    BY <1>1, <1>9
<1>11. ASSUME NEW n \in 1 .. N PROVE g[n] = g[n - 1] + AddsOf(V, f, n)
    BY <1>4 DEF AddsOf
<1>12. g[0] = 0
    BY <1>1, <1>4
<1> QED
    BY <1>3, <1>7, <1>10, <1>11, <1>12, Zenon DEF Adds

\* V adds p times what W adds and q times what X does.
Combines(V, f, W, g, X, h, p, q) ==
    \A n \in 1 .. Len(weight) : AddsOf(V, f, n) = p * AddsOf(W, g, n) + q * AddsOf(X, h, n)

\* The sums do as well.
SumsCombine(V, f, W, g, X, h, p, q) ==
    /\ SumOver(V, f) = p * SumOver(W, g) + q * SumOver(X, h)
    /\ SumOver(V, f) \in Int /\ SumOver(W, g) \in Int /\ SumOver(X, h) \in Int

\* Sums of multiples: where V adds p times what W adds and q times what X does,
\* so do their sums.
LEMMA SumCombines ==
    ASSUME NEW V, NEW f, NEW W, NEW g, NEW X, NEW h, NEW p \in Int, NEW q \in Int,
           Counts(V, f), Counts(W, g), Counts(X, h), Combines(V, f, W, g, X, h, p, q)
    PROVE  SumsCombine(V, f, W, g, X, h, p, q)
<1> DEFINE N == Len(weight)
<1>1. N \in Nat
    BY DEF Counts
<1>2. PICK vs : Adds(vs, V, f)
    BY SumSteps
<1>3. PICK ws : Adds(ws, W, g)
    BY SumSteps
<1>4. PICK xs : Adds(xs, X, h)
    BY SumSteps
<1>5. /\ vs \in [0 .. N -> Int] /\ vs[0] = 0 /\ SumOver(V, f) = vs[N]
      /\ ws \in [0 .. N -> Int] /\ ws[0] = 0 /\ SumOver(W, g) = ws[N]
      /\ xs \in [0 .. N -> Int] /\ xs[0] = 0 /\ SumOver(X, h) = xs[N]
    BY <1>2, <1>3, <1>4 DEF Adds
<1>6. \A n \in 1 .. N : /\ vs[n] = vs[n - 1] + AddsOf(V, f, n) /\ ws[n] = ws[n - 1] + AddsOf(W, g, n)
                        /\ xs[n] = xs[n - 1] + AddsOf(X, h, n)
    BY <1>2, <1>3, <1>4 DEF Adds
<1>7. \A n \in 1 .. N : AddsOf(W, g, n) \in Int /\ AddsOf(X, h, n) \in Int
    BY DEF AddsOf, Counts
<1> DEFINE U == {n \in Nat : n \in 0 .. N /\ vs[n] # p * ws[n] + q * xs[n]}
<1>8. U = {}
  <2> SUFFICES ASSUME U # {} PROVE FALSE
      OBVIOUS
  <2>1. U \subseteq Nat
      OBVIOUS
  <2>2. PICK n \in U : \A y \in U : n <= y
    <3> HIDE DEF U
    <3> QED
        BY <2>1, LeastNumber
  <2>3. n \in 0 .. N /\ vs[n] # p * ws[n] + q * xs[n]
      BY <2>2
  <2>4. n # 0
      BY <1>5, <2>3
  <2>5. n \in 1 .. N /\ n - 1 \in 0 .. N /\ n - 1 \notin U
      BY <1>1, <2>2, <2>3, <2>4
  <2>6. vs[n - 1] = p * ws[n - 1] + q * xs[n - 1]
      BY <2>5
  <2> HIDE DEF U, N
  <2>7. PICK a, b, c, d \in Int : a = ws[n - 1] /\ b = AddsOf(W, g, n) /\ c = xs[n - 1] /\ d = AddsOf(X, h, n)
      BY <1>5, <1>7, <2>5
  <2>8. vs[n] = p * a + q * c + (p * b + q * d) /\ ws[n] = a + b /\ xs[n] = c + d
      BY <1>6, <2>5, <2>6, <2>7 DEF N, Combines
  <2>9. p * a + q * c + (p * b + q * d) = p * (a + b) + q * (c + d)
      OBVIOUS
  <2> QED
      BY <2>3, <2>8, <2>9
<1>9. N \in 0 .. N /\ vs[N] = p * ws[N] + q * xs[N]
    BY <1>1, <1>8
<1> QED
    BY <1>5, <1>9 DEF SumsCombine

\* The sum over a set and its two parts.
Splits2(V, W, X, f) ==
    /\ SumOver(V, f) = SumOver(W, f) + SumOver(X, f)
    /\ SumOver(V, f) \in Int /\ SumOver(W, f) \in Int /\ SumOver(X, f) \in Int

\* Two disjoint parts.
LEMMA SumSplits ==
    ASSUME NEW V, NEW W, NEW X, NEW f, Counts(V, f), V = W \cup X, W \cap X = {}
    PROVE  Splits2(V, W, X, f)
<1>1. Counts(W, f) /\ Counts(X, f)
    BY DEF Counts
<1>2. Combines(V, f, W, f, X, f, 1, 1)
    BY DEF Counts, AddsOf, Combines
<1>3. 1 \in Int
    OBVIOUS
<1>4. SumsCombine(V, f, W, f, X, f, 1, 1)
    BY <1>1, <1>2, <1>3, SumCombines, Zenon
<1> QED
    BY <1>4 DEF SumsCombine, Splits2

\* Two sums that are the same.
SameSum(V, f, W, g) == SumOver(V, f) = SumOver(W, g) /\ SumOver(V, f) \in Int

\* What adds the same gives the same sum.
LEMMA SumAgrees ==
    ASSUME NEW V, NEW f, NEW W, NEW g, Counts(V, f), Counts(W, g),
           \A n \in 1 .. Len(weight) : AddsOf(V, f, n) = AddsOf(W, g, n)
    PROVE  SameSum(V, f, W, g)
<1>1. Combines(V, f, W, g, W, g, 1, 0)
    BY DEF Counts, AddsOf, Combines
<1>2. 1 \in Int /\ 0 \in Int
    OBVIOUS
<1>3. SumsCombine(V, f, W, g, W, g, 1, 0)
    BY <1>1, <1>2, SumCombines, Zenon
<1> QED
    BY <1>3 DEF SumsCombine, SameSum

\* A sum is a number.
LEMMA SumIsInt ==
    ASSUME NEW V, NEW f, Counts(V, f) PROVE SumOver(V, f) \in Int
BY SumAgrees DEF SameSum

\* The sum over one number.
LEMMA SumOfOne ==
    ASSUME NEW u, NEW f, Counts({u}, f) PROVE SumOver({u}, f) = f[u]
<1> DEFINE N == Len(weight)
<1>1. N \in Nat /\ u \in 1 .. N /\ f[u] \in Int
    BY DEF Counts
<1>2. PICK g : Adds(g, {u}, f)
    BY SumSteps
<1>3. g \in [0 .. N -> Int] /\ g[0] = 0 /\ SumOver({u}, f) = g[N]
      /\ \A n \in 1 .. N : g[n] = g[n - 1] + IF n = u THEN f[u] ELSE 0
    BY <1>2 DEF Adds, AddsOf
<1> DEFINE U == {n \in Nat : n \in 0 .. N /\ g[n] # IF n >= u THEN f[u] ELSE 0}
<1>4. U = {}
  <2> SUFFICES ASSUME U # {} PROVE FALSE
      OBVIOUS
  <2>1. U \subseteq Nat
      OBVIOUS
  <2>2. PICK n \in U : \A y \in U : n <= y
    <3> HIDE DEF U
    <3> QED
        BY <2>1, LeastNumber
  <2>3. n \in 0 .. N /\ g[n] # IF n >= u THEN f[u] ELSE 0
      BY <2>2
  <2>4. n # 0
      BY <1>1, <1>3, <2>3
  <2>5. n \in 1 .. N /\ n - 1 \in 0 .. N /\ n - 1 \notin U
      BY <1>1, <2>2, <2>3, <2>4
  <2>6. g[n - 1] = IF n - 1 >= u THEN f[u] ELSE 0
      BY <2>5
  <2> HIDE DEF U
  <2> QED
      BY <1>1, <1>3, <2>3, <2>5, <2>6
<1>5. N \in 0 .. N /\ N >= u
    BY <1>1
<1> QED
    BY <1>3, <1>4, <1>5

\* The sum over V, and over V without u.
OneMore(V, f, u, W) ==
    SumOver(V, f) = SumOver(W, f) + f[u] /\ SumOver(V, f) \in Int /\ SumOver(W, f) \in Int /\ f[u] \in Int

\* A sum with one number more.
LEMMA SumWithOne ==
    ASSUME NEW V, NEW f, NEW u, NEW W, Counts(V, f), u \in V, W = V \ {u}
    PROVE  OneMore(V, f, u, W)
<1>1. V = W \cup {u} /\ W \cap {u} = {} /\ Counts({u}, f) /\ f[u] \in Int
    BY DEF Counts
<1>2. SumOver({u}, f) = f[u]
    BY <1>1, SumOfOne
<1>3. Splits2(V, W, {u}, f)
    BY <1>1, SumSplits, Zenon
<1> QED
    BY <1>1, <1>2, <1>3 DEF Splits2, OneMore

\* Pairs of the same class, summed up: T has a number for each pair of V.
RowSum(T, p, V, u) == SumOver({v \in V : p[u] = p[v]}, T[u])
PairSum(T, p, V) == SumOver(V, [u \in V |-> RowSum(T, p, V, u)])

\* The other members of a class.
Others(p, V, x, c) == {v \in V \ {x} : p[v] = c}

\* T is the same in both directions.
Pairs(T, V) == \A u, v \in V : T[u][v] \in Int /\ T[u][v] = T[v][u]

\* What the move of x to the class b adds.
MoveAdds(T, p, p2, V, x, b) ==
    LET A == SumOver(Others(p, V, x, p[x]), T[x])
        B == SumOver(Others(p, V, x, b), T[x])
    IN  A \in Int /\ B \in Int /\ PairSum(T, p2, V) = PairSum(T, p, V) + 2 * (B - A) /\ PairSum(T, p, V) \in Int

\* A vertex that changes its class takes its pairs with the old one away and
\* brings its pairs with the new one, each of them twice.
LEMMA MoveChanges ==
    ASSUME Len(weight) \in Nat, NEW V, V \subseteq 1 .. Len(weight), NEW T, NEW p, NEW p2, NEW x \in V, NEW b,
           Pairs(T, V), b # p[x], \A v \in V : p2[v] = IF v = x THEN b ELSE p[v]
    PROVE  MoveAdds(T, p, p2, V, x, b)
<1> DEFINE Ca == Others(p, V, x, p[x])
           Cb == Others(p, V, x, b)
           A == SumOver(Ca, T[x])
           B == SumOver(Cb, T[x])
           S(u) == {v \in V : p[u] = p[v]}
           S2(u) == {v \in V : p2[u] = p2[v]}
           rows == [u \in V |-> RowSum(T, p, V, u)]
           rows2 == [u \in V |-> RowSum(T, p2, V, u)]
           d == [u \in V |-> IF u = x THEN B - A ELSE IF u \in Cb THEN T[x][u] ELSE IF u \in Ca THEN 0 - T[x][u] ELSE 0]
<1>0. \A u, v \in V : T[u][v] \in Int /\ T[u][v] = T[v][u]
    BY DEF Pairs
<1>1. \A W, u : W \subseteq V /\ u \in V => Counts(W, T[u])
    BY <1>0 DEF Counts
<1>2. Ca \subseteq V /\ Cb \subseteq V /\ x \notin Ca /\ x \notin Cb /\ Ca \cap Cb = {}
    BY DEF Others
<1>3. A \in Int /\ B \in Int
    BY <1>1, <1>2, SumIsInt
<1>4. \A u \in V : S(u) \subseteq V /\ S2(u) \subseteq V
    OBVIOUS
<1>5. \A u \in V : rows[u] = SumOver(S(u), T[u]) /\ rows2[u] = SumOver(S2(u), T[u]) /\ rows[u] \in Int /\ rows2[u] \in Int
  <2> SUFFICES ASSUME NEW u \in V
               PROVE  rows[u] = SumOver(S(u), T[u]) /\ rows2[u] = SumOver(S2(u), T[u]) /\ rows[u] \in Int /\ rows2[u] \in Int
      OBVIOUS
  <2>1. Counts(S(u), T[u]) /\ Counts(S2(u), T[u])
      BY <1>1, <1>4
  <2>2. rows[u] = SumOver(S(u), T[u]) /\ rows2[u] = SumOver(S2(u), T[u])
      BY DEF RowSum
  <2> QED
      BY <2>1, <2>2, SumIsInt
<1>6. ASSUME NEW u \in V PROVE rows2[u] = rows[u] + d[u] /\ d[u] \in Int
  <2>1. T[u][x] \in Int /\ T[x][u] = T[u][x]
      BY <1>0
  <2>2. CASE u = x
    <3>1. S(x) \ {x} = Ca /\ S2(x) \ {x} = Cb /\ x \in S(x) /\ x \in S2(x)
        BY DEF Others
    <3>2. Counts(S(x), T[x]) /\ Counts(S2(x), T[x])
        BY <1>1, <1>4
    <3>3. SumOver(S(x), T[x]) = A + T[x][x] /\ SumOver(S2(x), T[x]) = B + T[x][x]
      <4>1. OneMore(S(x), T[x], x, Ca) /\ OneMore(S2(x), T[x], x, Cb)
        <5> HIDE DEF Ca, Cb, S, S2
        <5> QED
            BY <3>1, <3>2, SumWithOne, Zenon
      <4> QED
          BY <4>1 DEF OneMore
    <3>4. rows[x] = A + T[x][x] /\ rows2[x] = B + T[x][x] /\ d[x] = B - A
        BY <1>5, <3>3
    <3> HIDE DEF A, B, rows, rows2, d
    <3> QED
        BY <1>3, <2>1, <2>2, <3>4
  <2>3. CASE u # x /\ u \in Ca
    <3>1. S(u) \ {x} = S2(u) /\ x \in S(u)
        BY <1>2, <2>3 DEF Others
    <3>2. Counts(S(u), T[u])
        BY <1>1, <1>4
    <3>3. SumOver(S(u), T[u]) = SumOver(S2(u), T[u]) + T[u][x]
      <4>1. OneMore(S(u), T[u], x, S2(u))
        <5> HIDE DEF Ca, Cb, S, S2
        <5> QED
            BY <3>1, <3>2, SumWithOne, Zenon
      <4> QED
          BY <4>1 DEF OneMore
    <3>4. u \notin Cb
        BY <1>2, <2>3
    <3>5. d[u] = 0 - T[x][u]
        BY <2>3, <3>4
    <3>6. rows[u] = rows2[u] + T[u][x] /\ rows[u] \in Int /\ rows2[u] \in Int
        BY <1>5, <3>3
    <3> HIDE DEF rows, rows2, d
    <3> QED
        BY <2>1, <3>5, <3>6
  <2>4. CASE u # x /\ u \in Cb
    <3>1. S2(u) \ {x} = S(u) /\ x \in S2(u)
        BY <1>2, <2>4 DEF Others
    <3>2. Counts(S2(u), T[u])
        BY <1>1, <1>4
    <3>3. SumOver(S2(u), T[u]) = SumOver(S(u), T[u]) + T[u][x]
      <4>1. OneMore(S2(u), T[u], x, S(u))
        <5> HIDE DEF Ca, Cb, S, S2
        <5> QED
            BY <3>1, <3>2, SumWithOne, Zenon
      <4> QED
          BY <4>1 DEF OneMore
    <3>4. d[u] = T[x][u]
        BY <2>4
    <3>5. rows2[u] = rows[u] + T[u][x] /\ rows[u] \in Int /\ rows2[u] \in Int
        BY <1>5, <3>3
    <3> HIDE DEF rows, rows2, d
    <3> QED
        BY <2>1, <3>4, <3>5
  <2>5. CASE u # x /\ u \notin Ca /\ u \notin Cb
    <3>1. S2(u) = S(u)
        BY <2>5 DEF Others
    <3>2. d[u] = 0
        BY <2>5
    <3>3. rows2[u] = rows[u] /\ rows[u] \in Int
      <4> HIDE DEF rows, rows2, S, S2
      <4> QED
          BY <1>5, <3>1
    <3> HIDE DEF rows, rows2, d
    <3> QED
        BY <3>2, <3>3
  <2> QED
      BY <2>2, <2>3, <2>4, <2>5
<1>7. Counts(V, rows) /\ Counts(V, rows2) /\ Counts(V, d)
  <2> HIDE DEF rows, rows2, d
  <2> QED
      BY <1>5, <1>6 DEF Counts
<1>8. SumOver(V, rows2) = SumOver(V, rows) + SumOver(V, d) /\ SumOver(V, rows) \in Int /\ SumOver(V, d) \in Int
  <2> HIDE DEF rows, rows2, d
  <2>1. Combines(V, rows2, V, rows, V, d, 1, 1)
    <3>1. \A n \in V : rows2[n] = rows[n] + d[n] /\ rows[n] \in Int /\ d[n] \in Int
        BY <1>5, <1>6
    <3> QED
        BY <3>1 DEF AddsOf, Combines
  <2>2. 1 \in Int
      OBVIOUS
  <2>3. SumsCombine(V, rows2, V, rows, V, d, 1, 1)
      BY <1>7, <2>1, <2>2, SumCombines, Zenon
  <2> QED
      BY <2>3 DEF SumsCombine
<1>9. SumOver(V, d) = SumOver(V \ {x}, d) + (B - A)
  <2>1. d[x] = B - A
      OBVIOUS
  <2> HIDE DEF d
  <2>2. OneMore(V, d, x, V \ {x})
      BY <1>7, SumWithOne, Zenon
  <2> QED
      BY <2>1, <2>2 DEF OneMore
<1>10. SumOver(V \ {x}, d) = B - A
  <2>1. ASSUME NEW n \in 1 .. Len(weight)
        PROVE  AddsOf(V \ {x}, d, n) = 1 * AddsOf(Cb, T[x], n) + (-1) * AddsOf(Ca, T[x], n)
    <3>1. n \in V => T[x][n] \in Int
        BY <1>0
    <3>2. CASE n \in Cb
      <4>1. n \in V \ {x} /\ n \notin Ca /\ d[n] = T[x][n]
          BY <1>2, <3>2
      <4> HIDE DEF d, Ca, Cb
      <4> QED
          BY <3>1, <3>2, <4>1 DEF AddsOf
    <3>3. CASE n \in Ca
      <4>1. n \in V \ {x} /\ n \notin Cb /\ d[n] = 0 - T[x][n]
          BY <1>2, <3>3
      <4> HIDE DEF d, Ca, Cb
      <4> QED
          BY <3>1, <3>3, <4>1 DEF AddsOf
    <3>4. CASE n \notin Ca /\ n \notin Cb
      <4>1. n \in V \ {x} => d[n] = 0
          BY <3>4
      <4> HIDE DEF d, Ca, Cb
      <4> QED
          BY <3>4, <4>1 DEF AddsOf
    <3> QED
        BY <3>2, <3>3, <3>4
  <2>2. 1 \in Int /\ -1 \in Int
      OBVIOUS
  <2>3. Counts(V \ {x}, d) /\ Counts(Ca, T[x]) /\ Counts(Cb, T[x])
    <3>1. Counts(V \ {x}, d)
      <4> HIDE DEF d
      <4> QED
          BY <1>7 DEF Counts
    <3> QED
        BY <1>1, <1>2, <3>1
  <2> HIDE DEF d, Ca, Cb
  <2>4. Combines(V \ {x}, d, Cb, T[x], Ca, T[x], 1, -1)
      BY <2>1 DEF Combines
  <2>5. SumsCombine(V \ {x}, d, Cb, T[x], Ca, T[x], 1, -1)
      BY <2>2, <2>3, <2>4, SumCombines, Zenon
  <2>6. SumOver(V \ {x}, d) = 1 * B + (-1) * A
      BY <2>5 DEF SumsCombine
  <2> QED
      BY <1>3, <2>6
<1>11. PairSum(T, p2, V) = SumOver(V, rows2) /\ PairSum(T, p, V) = SumOver(V, rows)
    BY DEF PairSum
<1> HIDE DEF A, B, rows, rows2, d
<1>12. PairSum(T, p2, V) = PairSum(T, p, V) + 2 * (B - A)
    BY <1>3, <1>8, <1>9, <1>10, <1>11
<1> QED
    BY <1>3, <1>8, <1>11, <1>12 DEF A, B, MoveAdds

-----------------------------------------------------------------------------
(* Clustering: the gain of a move is what it adds to the modularity. *)

\* A graph gives each pair of vertices a weight, the same in both directions.
LEMMA Weights ==
    ASSUME weight \in Graphs
    PROVE  /\ Len(weight) \in Nat /\ Vertices = 1 .. Len(weight)
           /\ \A u, v \in Vertices : weight[u][v] \in Nat /\ weight[u][v] = weight[v][u] /\ weight[u][u] = 0
<1>1. weight \in Seq([Vertices -> Nat]) /\ \A u, v \in Vertices : weight[u][v] = weight[v][u] /\ weight[u][u] = 0
    BY ClusterAssumption DEF Vertices
<1>2. Len(weight) \in Nat /\ Vertices = 1 .. Len(weight)
    BY <1>1 DEF Vertices
<1>3. \A u \in Vertices : weight[u] \in [Vertices -> Nat]
    BY <1>1, <1>2
<1> QED
    BY <1>1, <1>2, <1>3

\* Weights and strengths may be summed up.
LEMMA Numbers ==
    ASSUME weight \in Graphs, NEW V, V \subseteq Vertices
    PROVE  /\ \A C, u : C \subseteq V /\ u \in Vertices => Counts(C, weight[u])
           /\ \A C : C \subseteq V => Counts(C, Strength(V))
           /\ \A u \in V : Strength(V)[u] \in Int
<1>1. \A C, u : C \subseteq V /\ u \in Vertices => Counts(C, weight[u])
    BY Weights DEF Counts
<1>2. \A u \in V : Strength(V)[u] \in Int
    BY <1>1, SumIsInt DEF Strength, Links
<1>3. \A C : C \subseteq V => Counts(C, Strength(V))
    BY <1>2, Weights DEF Counts
<1> QED
    BY <1>1, <1>2, <1>3

\* The terms of x and a class, from its links to it and the strengths in it.
TermSum(x, C) ==
    SumsCombine(C, TermsOf(solve, x), C, weight[x], C, solve.strength,
                solve.twoM * solve.res.den, 0 - solve.res.num * solve.strength[x])

\* Sums of terms.
LEMMA TermsAdd ==
    ASSUME weight \in Graphs, SolveTypeOK, NEW x \in solve.verts, NEW C, C \subseteq solve.verts
    PROVE  Counts(C, TermsOf(solve, x)) /\ TermSum(x, C)
<1> DEFINE V == solve.verts
           k == solve.strength
           p == solve.twoM * solve.res.den
           q == 0 - solve.res.num * k[x]
<1>1. /\ V \subseteq Vertices /\ k = Strength(V) /\ {solve.twoM, solve.res.num, solve.res.den} \subseteq Int
    BY DEF SolveTypeOK
<1>2. Counts(C, weight[x]) /\ Counts(C, k) /\ \A u \in V : k[u] \in Int
    BY <1>1, Numbers
<1>3. p \in Int /\ q \in Int
    BY <1>1, <1>2
<1>4. \A v \in C : weight[x][v] \in Int /\ k[v] \in Int
    BY <1>2 DEF Counts
<1>5. ASSUME NEW v \in C PROVE TermsOf(solve, x)[v] = p * weight[x][v] + q * k[v] /\ TermsOf(solve, x)[v] \in Int
  <2>1. TermsOf(solve, x)[v] = weight[x][v] * solve.twoM * solve.res.den - solve.res.num * k[x] * k[v]
      BY DEF TermsOf, Term
  <2>2. PICK w, m, d, n, a, b \in Int : /\ w = weight[x][v] /\ m = solve.twoM /\ d = solve.res.den
                                        /\ n = solve.res.num /\ a = k[x] /\ b = k[v]
      BY <1>1, <1>2, <1>4
  <2>3. w * m * d - n * a * b = (m * d) * w + (0 - n * a) * b /\ w * m * d - n * a * b \in Int
      OBVIOUS
  <2> QED
      BY <2>1, <2>2, <2>3
<1>6. Counts(C, TermsOf(solve, x))
    BY <1>2, <1>5 DEF Counts
<1>7. Combines(C, TermsOf(solve, x), C, weight[x], C, k, p, q)
  <2> SUFFICES ASSUME NEW v \in 1 .. Len(weight)
               PROVE  AddsOf(C, TermsOf(solve, x), v) = p * AddsOf(C, weight[x], v) + q * AddsOf(C, k, v)
      BY DEF Combines
  <2>1. CASE v \in C
    <3> HIDE DEF p, q, k
    <3> QED
        BY <1>5, <2>1 DEF AddsOf
  <2>2. CASE v \notin C
    <3> HIDE DEF p, q, k
    <3> QED
        BY <1>3, <2>2 DEF AddsOf
  <2> QED
      BY <2>1, <2>2
<1>8. SumsCombine(C, TermsOf(solve, x), C, weight[x], C, k, p, q)
  <2> HIDE DEF p, q, k
  <2> QED
      BY <1>2, <1>3, <1>6, <1>7, SumCombines, Zenon
<1> QED
    BY <1>6, <1>8 DEF TermSum

\* The gain of c for x, as local_move computes it.
GainOf(x, c) == Gain(x, label[x], c, Links(x, {v \in Neighbours(solve.verts, x) : label[v] = c}))

\* While nodes move, a gain is the sum of the terms of x with the others of the class.
LEMMA GainIsTerms ==
    ASSUME ClusterInv, solve.phase = "move", NEW x \in solve.verts, NEW c \in DOMAIN sigma
    PROVE  GainOf(x, c) = SumOver(Others(label, solve.verts, x, c), TermsOf(solve, x))
<1> DEFINE V == solve.verts
           k == solve.strength
           C == Others(label, V, x, c)
           linked == {v \in Neighbours(V, x) : label[v] = c}
           all == {v \in V : label[v] = c}
<1>1. weight \in Graphs /\ SolveTypeOK /\ V \subseteq Vertices /\ k = Strength(V)
      /\ sigma[c] = SumOver(all, k) /\ {solve.twoM, solve.res.num, solve.res.den} \subseteq Int
    BY DEF ClusterInv, SolveTypeOK
<1>2. C \subseteq V /\ linked \subseteq V /\ all \subseteq V
    BY DEF Others, Neighbours
<1>3. TermSum(x, C)
    BY <1>1, <1>2, TermsAdd
<1>4. Counts(C, weight[x]) /\ Counts(linked, weight[x]) /\ Counts(all, k) /\ Counts(C, k) /\ k[x] \in Int
    BY <1>1, <1>2, Numbers
<1>5. Links(x, linked) = SumOver(C, weight[x])
  <2>1. ASSUME NEW v \in 1 .. Len(weight) PROVE AddsOf(linked, weight[x], v) = AddsOf(C, weight[x], v)
    <3>1. weight[x][v] \in Nat /\ weight[x][x] = 0
        BY <1>1, Weights
    <3>2. CASE v \in C
      <4>1. v \notin linked => weight[x][v] = 0
          BY <3>1, <3>2 DEF Others, Neighbours
      <4> QED
          BY <3>2, <4>1 DEF AddsOf
    <3>3. CASE v \notin C
      <4>1. v \notin linked
          BY <3>1, <3>3 DEF Others, Neighbours
      <4> QED
          BY <3>3, <4>1 DEF AddsOf
    <3> QED
        BY <3>2, <3>3
  <2>2. SameSum(linked, weight[x], C, weight[x])
    <3> HIDE DEF linked, C
    <3> QED
        BY <1>4, <2>1, SumAgrees, Zenon
  <2> QED
      BY <2>2 DEF SameSum, Links
<1>6. sigma[c] - (IF c = label[x] THEN k[x] ELSE 0) = SumOver(C, k)
  <2>1. CASE c = label[x]
    <3>1. x \in all /\ C = all \ {x}
        BY <2>1 DEF Others
    <3>2. OneMore(all, k, x, C)
      <4> HIDE DEF all, C, k
      <4> QED
          BY <1>4, <3>1, SumWithOne, Zenon
    <3> HIDE DEF all, C, k
    <3> QED
        BY <1>1, <2>1, <3>2 DEF OneMore
  <2>2. CASE c # label[x]
    <3>1. C = all
        BY <2>2 DEF Others
    <3>2. SumOver(all, k) \in Int
        BY <1>4, SumIsInt
    <3> HIDE DEF all, C, k
    <3> QED
        BY <1>1, <2>2, <3>1, <3>2
  <2> QED
      BY <2>1, <2>2
<1>7. GainOf(x, c) = SumOver(C, weight[x]) * solve.twoM * solve.res.den - solve.res.num * SumOver(C, k) * k[x]
  <2>1. GainOf(x, c) = Links(x, linked) * solve.twoM * solve.res.den
                        - solve.res.num * (sigma[c] - (IF c = label[x] THEN k[x] ELSE 0)) * k[x]
      BY DEF GainOf, Gain
  <2> HIDE DEF linked, C, k
  <2> QED
      BY <1>5, <1>6, <2>1
<1>8. /\ SumOver(C, TermsOf(solve, x)) = (solve.twoM * solve.res.den) * SumOver(C, weight[x])
                                          + (0 - solve.res.num * k[x]) * SumOver(C, k)
      /\ SumOver(C, weight[x]) \in Int /\ SumOver(C, k) \in Int
  <2> HIDE DEF C
  <2> QED
      BY <1>3 DEF TermSum, SumsCombine
<1>9. PICK w, m, d, n, a, b \in Int : /\ w = SumOver(C, weight[x]) /\ m = solve.twoM /\ d = solve.res.den
                                      /\ n = solve.res.num /\ a = k[x] /\ b = SumOver(C, k)
    BY <1>1, <1>4, <1>8
<1>10. w * m * d - n * b * a = (m * d) * w + (0 - n * a) * b
    OBVIOUS
<1> HIDE DEF C, k
<1> QED
    BY <1>7, <1>8, <1>9, <1>10 DEF C

-----------------------------------------------------------------------------
(* Clustering: the sums of strengths are those of the partition, and no move loses. *)

\* The least of some numbers is one of them.
LEMMA LowestIn ==
    ASSUME NEW S, S \subseteq Nat, S # {} PROVE LowestOf(S) \in S
BY LeastNumber DEF LowestOf

\* The best community is one there is.
LEMMA BestIsLabel ==
    ASSUME ClusterInv, solve.phase = "move", NEW x \in solve.verts
    PROVE  Best(x, label[x], label, Neighbours(solve.verts, x)) \in DOMAIN sigma
<1> DEFINE cands == Neighbours(solve.verts, x)
           scored == {<<Gain(x, label[x], c, Links(x, {v \in cands : label[v] = c})), c>> : c \in {label[v] : v \in cands}}
           top == {y \in scored : y[1] > 0 /\ \A z \in scored : z[1] <= y[1]}
           best == {y[2] : y \in top}
<1>1. label \in [solve.verts -> DOMAIN sigma] /\ DOMAIN sigma \subseteq Nat /\ cands \subseteq solve.verts
    BY DEF ClusterInv, Neighbours
<1>2. \A y \in scored : y[2] \in DOMAIN sigma
  <2> DEFINE g(c) == Gain(x, label[x], c, Links(x, {v \in cands : label[v] = c}))
  <2>1. scored = {<<g(c), c>> : c \in {label[v] : v \in cands}}
      OBVIOUS
  <2>2. \A c \in {label[v] : v \in cands} : c \in DOMAIN sigma
    <3> HIDE DEF cands
    <3> QED
        BY <1>1
  <2> HIDE DEF g, scored, cands
  <2> QED
      BY <2>1, <2>2
<1>3. best \subseteq DOMAIN sigma /\ (top # {} => best # {})
  <2> HIDE DEF scored
  <2> QED
      BY <1>2
<1>4. Best(x, label[x], label, cands) = IF top = {} THEN label[x] ELSE LowestOf(best)
    BY DEF Best
<1> HIDE DEF top, best, cands
<1>5. top # {} => LowestOf(best) \in best
    BY <1>1, <1>3, LowestIn
<1> QED
    BY <1>1, <1>3, <1>4, <1>5 DEF cands

\* A move to another community adds to the modularity.
LEMMA MoveImproves ==
    ASSUME ClusterInv, NEW x \in solve.verts, MoveNode(x), label' # label
    PROVE  Modularity(solve, label') > Modularity(solve, label)
<1> DEFINE V == solve.verts
           T == [u \in V |-> TermsOf(solve, u)]
           own == label[x]
           cands == Neighbours(V, x)
           b == Best(x, own, label, cands)
           A == SumOver(Others(label, V, x, own), TermsOf(solve, x))
           B == SumOver(Others(label, V, x, b), TermsOf(solve, x))
<1>1. solve.phase = "move" /\ weight \in Graphs /\ SolveTypeOK /\ label \in [V -> DOMAIN sigma]
      /\ V \subseteq Vertices
    BY DEF MoveNode, ClusterInv, SolveTypeOK
<1>2. b \in DOMAIN sigma /\ own \in DOMAIN sigma
    BY <1>1, BestIsLabel
<1>3. b # own /\ GainOf(x, b) > GainOf(x, own) /\ label' = [label EXCEPT ![x] = b]
  <2> DEFINE links == Links(x, {v \in cands : label[v] = b})
             goes == b # own /\ Gain(x, own, b, links) > StayGain(x, own, label, cands)
  <2>1. label' = [label EXCEPT ![x] = IF goes THEN b ELSE own]
      BY DEF MoveNode
  <2>2. ~goes => label' = label
    <3> HIDE DEF goes
    <3> QED
        BY <1>1, <2>1
  <2>3. goes
      BY <2>2
  <2>4. Gain(x, own, b, links) = GainOf(x, b) /\ StayGain(x, own, label, cands) = GainOf(x, own)
      BY DEF GainOf, StayGain
  <2> QED
      BY <2>1, <2>3, <2>4
<1>4. GainOf(x, b) = B /\ GainOf(x, own) = A
  <2> HIDE DEF b
  <2> QED
      BY <1>1, <1>2, GainIsTerms
<1>5. Pairs(T, V)
  <2> SUFFICES ASSUME NEW u \in V, NEW v \in V PROVE T[u][v] \in Int /\ T[u][v] = T[v][u]
      BY DEF Pairs
  <2>1. T[u] = TermsOf(solve, u) /\ T[v] = TermsOf(solve, v)
      OBVIOUS
  <2>2. T[u][v] \in Int
    <3>1. Counts(V, TermsOf(solve, u))
        BY <1>1, TermsAdd
    <3> QED
        BY <2>1, <3>1 DEF Counts
  <2>3. T[u][v] = Term(solve, u, v) /\ T[v][u] = Term(solve, v, u)
      BY <2>1 DEF TermsOf
  <2>4. weight[u][v] = weight[v][u]
      BY <1>1, Weights
  <2>5. solve.res.num * solve.strength[u] * solve.strength[v] = solve.res.num * solve.strength[v] * solve.strength[u]
    <3>1. solve.strength[u] \in Int /\ solve.strength[v] \in Int /\ solve.res.num \in Int
        BY <1>1, Numbers DEF SolveTypeOK
    <3>2. PICK a, c, d \in Int : a = solve.strength[u] /\ c = solve.strength[v] /\ d = solve.res.num
        BY <3>1
    <3>3. d * a * c = d * c * a
        OBVIOUS
    <3> QED
        BY <3>2, <3>3
  <2> QED
      BY <2>2, <2>3, <2>4, <2>5 DEF Term
<1>6. \A v \in V : label'[v] = IF v = x THEN b ELSE label[v]
  <2> HIDE DEF b
  <2> QED
      BY <1>1, <1>3
<1>7. PICK p2 : p2 = label'
    OBVIOUS
<1>8. MoveAdds(T, label, p2, V, x, b)
  <2>1. Len(weight) \in Nat /\ V \subseteq 1 .. Len(weight)
      BY <1>1, Weights
  <2>2. \A v \in V : p2[v] = IF v = x THEN b ELSE label[v]
      BY <1>6, <1>7
  <2>3. b # label[x]
      BY <1>3
  <2> HIDE DEF T, b, V
  <2> QED
      BY <1>5, <2>1, <2>2, <2>3, MoveChanges DEF V
<1>9. A \in Int /\ B \in Int /\ PairSum(T, label, V) \in Int /\ PairSum(T, p2, V) = PairSum(T, label, V) + 2 * (B - A)
  <2>1. T[x] = TermsOf(solve, x)
      OBVIOUS
  <2> HIDE DEF T, b
  <2> QED
      BY <1>8, <2>1 DEF MoveAdds
<1>10. ASSUME NEW p PROVE Modularity(solve, p) = PairSum(T, p, V)
  <2>1. \A u \in V : RowSum(T, p, V, u) = SumOver({v \in V : p[u] = p[v]}, TermsOf(solve, u))
      BY DEF RowSum
  <2>2. [u \in V |-> RowSum(T, p, V, u)] = [u \in V |-> SumOver({v \in V : p[u] = p[v]}, TermsOf(solve, u))]
    <3> HIDE DEF T
    <3> QED
        BY <2>1
  <2> QED
      BY <2>2 DEF Modularity, PairSum
<1>11. Modularity(solve, p2) > Modularity(solve, label)
  <2> HIDE DEF A, B, T, b
  <2>1. Modularity(solve, p2) = PairSum(T, p2, V) /\ Modularity(solve, label) = PairSum(T, label, V)
      BY <1>10
  <2> QED
      BY <1>3, <1>4, <1>9, <2>1
<1> QED
    BY <1>7, <1>11
\* The sums s are those of the strengths k in each class of p.
Kept(V, k, p, s) ==
    /\ p \in [V -> DOMAIN s] /\ DOMAIN s \subseteq Nat
    /\ \A c \in DOMAIN s : s[c] = SumOver({u \in V : p[u] = c}, k)

\* A move keeps them up to date in both places.
LEMMA MovedKeeps ==
    ASSUME NEW V, NEW k, NEW p, NEW s, Kept(V, k, p, s), Counts(V, k), NEW x \in V, NEW b \in DOMAIN s, NEW p2, NEW s2,
           p2 = [p EXCEPT ![x] = b],
           s2 = IF p[x] = b THEN s ELSE [s EXCEPT ![p[x]] = @ - k[x], ![b] = @ + k[x]]
    PROVE  Kept(V, k, p2, s2)
<1> DEFINE In(q, c) == {u \in V : q[u] = c}
           a == p[x]
<1>1. p \in [V -> DOMAIN s] /\ DOMAIN s \subseteq Nat /\ \A c \in DOMAIN s : s[c] = SumOver(In(p, c), k)
    BY DEF Kept
<1>2. CASE a = b
  <2>1. p2 = p /\ s2 = s
      BY <1>1, <1>2
  <2> QED
      BY <2>1
<1>3. CASE a # b
  <2>1. DOMAIN s2 = DOMAIN s /\ p2 \in [V -> DOMAIN s] /\ \A u \in V : p2[u] = IF u = x THEN b ELSE p[u]
      BY <1>1
  <2>2. \A c \in DOMAIN s : s2[c] = IF c = b THEN s[b] + k[x] ELSE IF c = a THEN s[a] - k[x] ELSE s[c]
      BY <1>1, <1>3
  <2>3. ASSUME NEW c \in DOMAIN s PROVE s2[c] = SumOver(In(p2, c), k)
    <3>0. Counts(In(p, c), k) /\ Counts(In(p2, c), k) /\ s[c] = SumOver(In(p, c), k)
        BY <1>1 DEF Counts
    <3>1. CASE c = a
      <4>1. x \in In(p, c) /\ In(p2, c) = In(p, c) \ {x}
          BY <1>3, <2>1, <3>1
      <4>2. OneMore(In(p, c), k, x, In(p2, c))
        <5> HIDE DEF In
        <5> QED
            BY <3>0, <4>1, SumWithOne, Zenon
      <4>3. s2[c] = s[c] - k[x]
        <5> HIDE DEF In, a
        <5> QED
            BY <1>3, <2>2, <3>1
      <4> HIDE DEF In
      <4> QED
          BY <3>0, <4>2, <4>3 DEF OneMore
    <3>2. CASE c = b
      <4>1. x \in In(p2, c) /\ In(p, c) = In(p2, c) \ {x}
          BY <1>3, <2>1, <3>2
      <4>2. OneMore(In(p2, c), k, x, In(p, c))
        <5> HIDE DEF In
        <5> QED
            BY <3>0, <4>1, SumWithOne, Zenon
      <4> HIDE DEF In, a
      <4> QED
          BY <2>2, <3>0, <3>2, <4>2 DEF OneMore
    <3>3. CASE c # a /\ c # b
      <4>1. In(p2, c) = In(p, c)
          BY <2>1, <3>3
      <4> HIDE DEF In
      <4> QED
          BY <2>2, <3>0, <3>3, <4>1
    <3> QED
        BY <3>1, <3>2, <3>3
  <2> QED
      BY <1>1, <2>1, <2>3 DEF Kept
<1> QED
    BY <1>2, <1>3

\* One class for each vertex: its sum is its own strength.
LEMMA SingletonsKept ==
    ASSUME NEW V, NEW k, Counts(V, k), DOMAIN k = V PROVE Kept(V, k, Singletons(V), k)
<1>1. V \subseteq Nat
    BY DEF Counts
<1>2. Singletons(V) \in [V -> DOMAIN k] /\ \A u \in V : Singletons(V)[u] = u
    BY DEF Singletons
<1>3. ASSUME NEW c \in V PROVE k[c] = SumOver({u \in V : Singletons(V)[u] = c}, k)
  <2>1. {u \in V : Singletons(V)[u] = c} = {c}
      BY <1>2
  <2>2. Counts({c}, k)
      BY DEF Counts
  <2>3. SumOver({c}, k) = k[c]
      BY <2>2, SumOfOne
  <2> QED
      BY <2>1, <2>3
<1> QED
    BY <1>1, <1>2, <1>3 DEF Kept

\* Sets of vertices are finite sets of numbers.
LEMMA VertexSets ==
    ASSUME weight \in Graphs, NEW S, S \subseteq Vertices PROVE S \subseteq Nat /\ IsFiniteSet(S)
<1>1. Vertices = 1 .. Len(weight) /\ 1 \in Int /\ Len(weight) \in Int
    BY Weights
<1>2. Vertices \subseteq Nat
    BY <1>1
<1>3. IsFiniteSet(Vertices)
    BY <1>1, FS_Interval, Zenon
<1>4. IsFiniteSet(S)
    BY <1>3, FS_Subset, Zenon
<1> QED
    BY <1>2, <1>4

\* The solver works on finitely many numbers.
LEMMA VertsFinite ==
    ASSUME weight \in Graphs, SolveTypeOK PROVE solve.verts \subseteq Nat /\ IsFiniteSet(solve.verts)
BY VertexSets DEF SolveTypeOK

\* The sums computed afresh.
LEMMA SigmasKept ==
    ASSUME weight \in Graphs, SolveTypeOK, NEW p \in [solve.verts -> 1 .. Cardinality(solve.verts)]
    PROVE  Kept(solve.verts, solve.strength, p, Sigmas(p))
<1>1. solve.verts \subseteq Nat /\ IsFiniteSet(solve.verts)
    BY VertsFinite
<1>2. Cardinality(solve.verts) \in Nat
    BY <1>1, FS_CardinalityType
<1> QED
    BY <1>1, <1>2 DEF Kept, Sigmas

\* The first vertex of a class is a vertex.
LEMMA FirstIsOne ==
    ASSUME NEW V, V \subseteq Nat, NEW p, NEW u \in V PROVE FirstOf(V, p, u) \in V
<1>1. {v \in V : p[v] = p[u]} \subseteq Nat /\ u \in {v \in V : p[v] = p[u]}
    OBVIOUS
<1>2. LowestOf({v \in V : p[v] = p[u]}) \in {v \in V : p[v] = p[u]}
    BY <1>1, LowestIn
<1> QED
    BY <1>2 DEF FirstOf

\* Dense labels count from 1 to at most the number of vertices.
LEMMA LabelsAreDense ==
    ASSUME NEW V, V \subseteq Nat, IsFiniteSet(V), NEW p
    PROVE  Compress(V, p) \in [V -> 1 .. Cardinality(V)]
<1> DEFINE firsts == {FirstOf(V, p, u) : u \in V}
           upTo(u) == {f \in firsts : f <= FirstOf(V, p, u)}
<1>1. \A u \in V : FirstOf(V, p, u) \in V /\ FirstOf(V, p, u) \in Nat
    BY FirstIsOne
<1>2. ASSUME NEW u \in V PROVE Cardinality(upTo(u)) \in 1 .. Cardinality(V)
  <2>1. upTo(u) \subseteq V /\ FirstOf(V, p, u) \in upTo(u)
      BY <1>1
  <2> HIDE DEF upTo
  <2>2. IsFiniteSet(upTo(u)) /\ Cardinality(upTo(u)) <= Cardinality(V)
      BY <2>1, FS_Subset
  <2>3. Cardinality(upTo(u)) # 0
      BY <2>1, <2>2, FS_EmptySet
  <2>4. Cardinality(upTo(u)) \in Nat /\ Cardinality(V) \in Nat
      BY <2>2, FS_CardinalityType
  <2> QED
      BY <2>2, <2>3, <2>4
<1>3. Compress(V, p) = [u \in V |-> Cardinality(upTo(u))]
    BY DEF Compress
<1> HIDE DEF upTo
<1> QED
    BY <1>2, <1>3
\* A graph that stays gives the same strengths.
LEMMA StrengthStays ==
    ASSUME weight' = weight, NEW V, V = solve'.verts PROVE Strength(solve.verts)' = Strength(V)
BY DEF Strength, Links, SumOver

\* The invariant of the next state, from the sums of that state.
LEMMA KeptInNext ==
    ASSUME weight' = weight, weight \in Graphs,
           todo' \in Seq([members : SUBSET Vertices, depth : Nat, total : Nat]), todo' # <<>>,
           SolveTypeOK', solve'.phase = "compare" => label' \in [solve'.verts -> 1 .. Cardinality(solve'.verts)],
           solve'.phase = "move" => Kept(solve'.verts, solve'.strength, label', sigma')
    PROVE  ClusterInv'
<1>1. Vertices' = Vertices
    BY DEF Vertices
<1>2. ASSUME solve'.phase = "move"
      PROVE  /\ label' \in [solve'.verts -> DOMAIN sigma'] /\ DOMAIN sigma' \subseteq Nat
             /\ (\A c \in DOMAIN sigma : sigma[c] = SumOver({u \in solve.verts : label[u] = c}, solve.strength))'
  <2>1. PICK V, k, p, s : V = solve'.verts /\ k = solve'.strength /\ p = label' /\ s = sigma'
      OBVIOUS
  <2>2. Kept(V, k, p, s)
      BY <1>2, <2>1
  <2>3. ASSUME NEW c \in DOMAIN s PROVE s[c] = SumOver({u \in solve.verts : label[u] = c}, solve.strength)'
    <3>1. s[c] = SumOver({u \in V : p[u] = c}, k)
        BY <2>2 DEF Kept
    <3>2. SumOver({u \in solve.verts : label[u] = c}, solve.strength)' = SumOver({u \in V : p[u] = c}, k)
        BY <2>1 DEF SumOver
    <3> QED
        BY <3>1, <3>2
  <2> QED
      BY <2>1, <2>2, <2>3 DEF Kept
<1> QED
    BY <1>1, <1>2 DEF ClusterInv

\* A step that leaves the vertices and their strengths alone.
LEMMA SolveStays ==
    ASSUME weight' = weight, SolveTypeOK, DOMAIN solve' = DOMAIN solve,
           solve'.verts = solve.verts, solve'.strength = solve.strength, solve'.twoM = solve.twoM,
           solve'.res = solve.res, solve'.phase \in {"move", "refine", "compare", "solved"}
    PROVE  SolveTypeOK'
<1>1. Vertices' = Vertices
    BY DEF Vertices
<1>2. PICK V : V = solve'.verts
    OBVIOUS
<1>3. Strength(solve.verts)' = Strength(solve.verts)
    BY <1>2, StrengthStays
<1>4. (DOMAIN NoSolve)' = DOMAIN NoSolve
    BY DEF NoSolve, Resolution
<1> QED
    BY <1>1, <1>3, <1>4 DEF SolveTypeOK

\* What is so of the sums before a step.
LEMMA KeptBefore ==
    ASSUME ClusterInv, solve.phase = "move"
    PROVE  Kept(solve.verts, solve.strength, label, sigma)
BY DEF ClusterInv, Kept

\* The solver starts with a class for each vertex.
LEMMA Started ==
    ASSUME weight' = weight, weight \in Graphs, NEW V, V \subseteq Vertices, NEW depth \in Nat, StartSolve(V, depth)
    PROVE  SolveTypeOK' /\ solve'.phase = "move" /\ Kept(solve'.verts, solve'.strength, label', sigma')
<1> DEFINE k == Strength(V)
<1>1. /\ solve'.verts = V /\ solve'.strength = k /\ solve'.twoM = SumOver(V, k) /\ solve'.res = Resolution(depth)
      /\ solve'.phase = "move" /\ label' = Singletons(V) /\ sigma' = k
      /\ DOMAIN solve' = {"verts", "depth", "strength", "twoM", "res", "phase", "order", "seen", "moved", "passes", "outer", "prevQ"}
    BY DEF StartSolve
<1>2. (DOMAIN NoSolve)' = {"verts", "depth", "strength", "twoM", "res", "phase", "order", "seen", "moved", "passes", "outer", "prevQ"}
    BY DEF NoSolve
<1>3. Strength(solve.verts)' = k /\ Vertices' = Vertices
    BY <1>1, StrengthStays DEF Vertices
<1>4. Counts(V, k) /\ DOMAIN k = V
    BY Numbers DEF Strength
<1>5. SumOver(V, k) \in Int
    BY <1>4, SumIsInt
<1>6. Resolution(depth).num \in Int /\ Resolution(depth).den \in Int
    BY DEF Resolution
<1> HIDE DEF k
<1>7. SolveTypeOK'
    BY <1>1, <1>2, <1>3, <1>5, <1>6 DEF SolveTypeOK
<1>8. Kept(V, k, Singletons(V), k)
    BY <1>4, SingletonsKept
<1> QED
    BY <1>1, <1>7, <1>8
\* The communities of a step are a sequence of sets of vertices.
LEMMA TodoAfter ==
    ASSUME NEW R, NEW n \in Nat, NEW f \in [1 .. n -> R], NEW q \in Seq(R), q # <<>>
    PROVE  /\ f \o Tail(q) \in Seq(R) /\ Tail(q) \in Seq(R) /\ Head(q) \in R
<1>1. f \in Seq(R)
    BY SeqDef
<1> QED
    BY <1>1

\* The invariant of the beginning.
LEMMA ClusterBegins ==
    ASSUME ClusterInit PROVE ClusterInv
BY DEF ClusterInit, ClusterInv, NoSolve

\* The vertices with an edge are some of them.
LEMMA JoinedIn == ASSUME NEW V PROVE Joined(V) \subseteq V
BY DEF Joined

\* The moves of nodes.
LEMMA MoveKeepsInv ==
    ASSUME ClusterInv, NEW x \in solve.verts, MoveNode(x) PROVE ClusterInv'
<1> DEFINE own == label[x]
           b == Best(x, own, label, Neighbours(solve.verts, x))
<1>1. /\ weight' = weight /\ todo' = todo /\ solve.phase = "move" /\ SolveTypeOK /\ todo # <<>> /\ weight \in Graphs
      /\ todo \in Seq([members : SUBSET Vertices, depth : Nat, total : Nat]) /\ label \in [solve.verts -> DOMAIN sigma]
    BY DEF ClusterInv, MoveNode
<1>2. \E to \in {own, b} : label' = [label EXCEPT ![x] = to] /\ sigma' = Moved(x, own, to)
    BY DEF MoveNode
<1>3. PICK to \in {own, b} : label' = [label EXCEPT ![x] = to] /\ sigma' = Moved(x, own, to)
    BY <1>2
<1>4. to \in DOMAIN sigma
  <2>1. b \in DOMAIN sigma
      BY <1>1, BestIsLabel
  <2> HIDE DEF b
  <2> QED
      BY <1>1, <2>1
<1>5. DOMAIN solve = {"verts", "depth", "strength", "twoM", "res", "phase", "order", "seen", "moved", "passes", "outer", "prevQ"}
    BY <1>1 DEF SolveTypeOK, NoSolve
<1>6. /\ DOMAIN solve' = DOMAIN solve /\ solve'.verts = solve.verts /\ solve'.strength = solve.strength
      /\ solve'.twoM = solve.twoM /\ solve'.res = solve.res /\ solve'.phase = "move"
    BY <1>1, <1>5 DEF MoveNode
<1>7. SolveTypeOK'
    BY <1>1, <1>6, SolveStays
<1>8. Kept(solve.verts, solve.strength, label, sigma) /\ Counts(solve.verts, solve.strength)
    BY <1>1, KeptBefore, Numbers DEF SolveTypeOK
<1>9. Kept(solve.verts, solve.strength, label', sigma')
  <2>1. PICK p2, s2 : p2 = label' /\ s2 = sigma'
      OBVIOUS
  <2>2. p2 = [label EXCEPT ![x] = to] /\ s2 = IF label[x] = to THEN sigma
            ELSE [sigma EXCEPT ![label[x]] = @ - solve.strength[x], ![to] = @ + solve.strength[x]]
      BY <1>3, <2>1 DEF Moved
  <2> HIDE DEF b
  <2>3. Kept(solve.verts, solve.strength, p2, s2)
      BY <1>4, <1>8, <2>2, MovedKeeps
  <2> QED
      BY <2>1, <2>3
<1> QED
    BY <1>1, <1>6, <1>7, <1>9, KeptInNext

\* The steps of the solver that move no node between the communities.
LEMMA SolverKeepsInv ==
    ASSUME ClusterInv, EndPass \/ Aggregate \/ EndIteration \/ \E u \in solve.verts : RefineNode(u)
    PROVE  ClusterInv'
<1>1. /\ weight' = weight /\ todo' = todo /\ SolveTypeOK /\ todo # <<>> /\ weight \in Graphs
      /\ todo \in Seq([members : SUBSET Vertices, depth : Nat, total : Nat])
    BY DEF ClusterInv, EndPass, Aggregate, EndIteration, RefineNode
<1>2. DOMAIN solve = {"verts", "depth", "strength", "twoM", "res", "phase", "order", "seen", "moved", "passes", "outer", "prevQ"}
    BY <1>1 DEF SolveTypeOK, NoSolve
<1>3. Counts(solve.verts, solve.strength)
    BY <1>1, Numbers DEF SolveTypeOK
<1>4. CASE EndPass
  <2>1. /\ DOMAIN solve' = DOMAIN solve /\ solve'.verts = solve.verts /\ solve'.strength = solve.strength
        /\ solve'.twoM = solve.twoM /\ solve'.res = solve.res /\ solve'.phase \in {"move", "refine"}
        /\ label' = label /\ (solve'.phase = "move" => sigma' = sigma) /\ solve.phase = "move"
      BY <1>2, <1>4 DEF EndPass
  <2>2. SolveTypeOK'
      BY <1>1, <2>1, SolveStays
  <2>3. Kept(solve.verts, solve.strength, label, sigma)
      BY <2>1, KeptBefore
  <2> QED
      BY <1>1, <2>1, <2>2, <2>3, KeptInNext
<1>5. CASE Aggregate
  <2>1. /\ DOMAIN solve' = DOMAIN solve /\ solve'.verts = solve.verts /\ solve'.strength = solve.strength
        /\ solve'.twoM = solve.twoM /\ solve'.res = solve.res /\ solve'.phase = "compare"
        /\ label' = Compress(solve.verts, [u \in solve.verts |-> FirstOf(solve.verts, fine, u)])
      BY <1>2, <1>5 DEF Aggregate
  <2>2. SolveTypeOK'
      BY <1>1, <2>1, SolveStays
  <2>3. solve.verts \subseteq Nat /\ IsFiniteSet(solve.verts)
      BY <1>1, VertsFinite
  <2>4. label' \in [solve.verts -> 1 .. Cardinality(solve.verts)]
      BY <2>1, <2>3, LabelsAreDense
  <2> QED
      BY <1>1, <2>1, <2>2, <2>4, KeptInNext
<1>6. CASE EndIteration
  <2>1. /\ DOMAIN solve' = DOMAIN solve /\ solve'.verts = solve.verts /\ solve'.strength = solve.strength
        /\ solve'.twoM = solve.twoM /\ solve'.res = solve.res /\ solve'.phase \in {"move", "solved"}
        /\ label' = label /\ sigma' = Sigmas(label) /\ solve.phase = "compare"
      BY <1>2, <1>6 DEF EndIteration
  <2>2. SolveTypeOK'
      BY <1>1, <2>1, SolveStays
  <2>3. label \in [solve.verts -> 1 .. Cardinality(solve.verts)]
      BY <2>1 DEF ClusterInv
  <2>4. Kept(solve.verts, solve.strength, label, Sigmas(label))
      BY <1>1, <2>3, SigmasKept
  <2> QED
      BY <1>1, <2>1, <2>2, <2>4, KeptInNext
<1>7. CASE \E u \in solve.verts : RefineNode(u)
  <2>1. /\ DOMAIN solve' = DOMAIN solve /\ solve'.verts = solve.verts /\ solve'.strength = solve.strength
        /\ solve'.twoM = solve.twoM /\ solve'.res = solve.res /\ solve'.phase = "refine"
      BY <1>2, <1>7 DEF RefineNode
  <2>2. SolveTypeOK'
      BY <1>1, <2>1, SolveStays
  <2> QED
      BY <1>1, <2>1, <2>2, KeptInNext
<1> QED
    BY <1>4, <1>5, <1>6, <1>7

\* The steps of the runner.
LEMMA RunnerKeepsInv ==
    ASSUME ClusterInv, RunClusters \/ TakeCommunities \/ KeepCommunity \/ SplitCommunity
    PROVE  ClusterInv'
<1> DEFINE R == [members : SUBSET Vertices, depth : Nat, total : Nat]
<1>1. weight' = weight /\ weight \in Graphs /\ todo \in Seq(R) /\ Vertices' = Vertices
    BY DEF ClusterInv, RunClusters, TakeCommunities, KeepCommunity, SplitCommunity, Vertices
<1>2. CASE RunClusters
  <2>1. Joined(Vertices) \subseteq Vertices /\ StartSolve(Joined(Vertices), 0) /\ todo' = <<Whole>> /\ 0 \in Nat
      BY <1>2, JoinedIn DEF RunClusters
  <2>2. SolveTypeOK' /\ solve'.phase = "move" /\ Kept(solve'.verts, solve'.strength, label', sigma')
      BY <1>1, <2>1, Started
  <2>3. Whole \in R
      BY DEF Whole
  <2>4. todo' \in Seq(R) /\ todo' # <<>>
    <3> HIDE DEF R
    <3> QED
        BY <2>1, <2>3
  <2> QED
      BY <1>1, <2>2, <2>4, KeptInNext
<1>3. CASE SplitCommunity
  <2> DEFINE V == Joined(Head(todo).members)
  <2>1. StartSolve(V, Head(todo).depth + 1) /\ todo' = todo /\ todo # <<>>
      BY <1>3 DEF SplitCommunity
  <2>2. Head(todo) \in R
    <3> HIDE DEF R
    <3> QED
        BY <1>1, <2>1
  <2>3. V \subseteq Vertices /\ Head(todo).depth + 1 \in Nat
      BY <2>2, JoinedIn
  <2> HIDE DEF V
  <2>4. SolveTypeOK' /\ solve'.phase = "move" /\ Kept(solve'.verts, solve'.strength, label', sigma')
      BY <1>1, <2>1, <2>3, Started
  <2> QED
      BY <1>1, <2>1, <2>4, KeptInNext
<1>4. CASE KeepCommunity
  <2>1. todo # <<>> /\ todo' = Tail(todo) /\ solve' = solve /\ solve.phase = "idle"
      BY <1>4 DEF KeepCommunity
  <2>2. todo' \in Seq(R)
    <3> HIDE DEF R
    <3> QED
        BY <1>1, <2>1
  <2> QED
      BY <1>1, <2>1, <2>2 DEF ClusterInv
<1>5. CASE TakeCommunities
  <2> DEFINE item == Head(todo)
             depth == IF item = Whole THEN 0 ELSE item.depth + 1
             total == IF item = Whole THEN Cardinality(solve.verts) ELSE Cardinality(item.members)
             n == Cardinality({label[u] : u \in solve.verts})
             pieces == [c \in DOMAIN Communities |-> [members |-> Communities[c], depth |-> depth, total |-> total]]
  <2>1. /\ solve' = NoSolve /\ solve.phase = "solved" /\ SolveTypeOK /\ todo # <<>>
        /\ todo' = pieces \o Tail(todo) \/ todo' = Tail(todo)
      BY <1>5 DEF TakeCommunities, ClusterInv
  <2>2. item \in R
    <3> HIDE DEF R
    <3> QED
        BY <1>1, <2>1
  <2>3. IsFiniteSet(solve.verts) /\ solve.verts \subseteq Vertices
      BY <1>1, <2>1, VertsFinite DEF SolveTypeOK
  <2>4. total \in Nat /\ depth \in Nat
    <3>1. IsFiniteSet(item.members)
      <4>1. item.members \subseteq Vertices
          BY <2>2
      <4> HIDE DEF item
      <4> QED
          BY <1>1, <4>1, VertexSets, Zenon
    <3> QED
        BY <2>2, <2>3, <3>1, FS_CardinalityType
  <2>5. n \in Nat
    <3> DEFINE f == [u \in solve.verts |-> label[u]]
    <3>1. f \in Surjection(solve.verts, {label[u] : u \in solve.verts})
        BY DEF Surjection
    <3>2. IsFiniteSet({label[u] : u \in solve.verts})
        BY <2>3, <3>1, FS_Surjection
    <3> QED
        BY <3>2, FS_CardinalityType
  <2>6. pieces \in [1 .. n -> R]
    <3>1. DOMAIN Communities = 1 .. n /\ \A c \in 1 .. n : Communities[c] \subseteq Vertices
        BY <2>3 DEF Communities
    <3> HIDE DEF n, depth, total
    <3> QED
        BY <2>4, <3>1
  <2>7. todo' \in Seq(R)
    <3>1. pieces \o Tail(todo) \in Seq(R) /\ Tail(todo) \in Seq(R)
      <4> HIDE DEF R, pieces, n
      <4> QED
          BY <1>1, <2>1, <2>5, <2>6, TodoAfter, Zenon
    <3> HIDE DEF R, pieces
    <3> QED
        BY <2>1, <3>1
  <2>8. solve'.phase = "idle"
      BY <2>1 DEF NoSolve
  <2> QED
      BY <1>1, <2>7, <2>8 DEF ClusterInv
<1> QED
    BY <1>2, <1>3, <1>4, <1>5

\* The sums of strengths are those of the partition, always.
LEMMA ClusterInvHolds == ClusterSpec => []ClusterInv
<1>1. ClusterInit => ClusterInv
    BY ClusterBegins
<1>2. ClusterInv /\ [ClusterNext]_clusterVars => ClusterInv'
  <2> SUFFICES ASSUME ClusterInv, [ClusterNext]_clusterVars PROVE ClusterInv'
      OBVIOUS
  <2>1. CASE ClusterNext
      BY <2>1, MoveKeepsInv, SolverKeepsInv, RunnerKeepsInv DEF ClusterNext
  <2>2. CASE UNCHANGED clusterVars
    <3>1. weight' = weight /\ solve' = solve /\ label' = label /\ sigma' = sigma /\ todo' = todo
        BY <2>2 DEF clusterVars
    <3>2. CASE solve.phase = "idle"
        BY <3>1, <3>2 DEF ClusterInv, Vertices
    <3>3. CASE solve.phase # "idle"
      <4>1. SolveTypeOK /\ weight \in Graphs /\ todo # <<>>
          BY <3>3 DEF ClusterInv
      <4>2. SolveTypeOK'
        <5>1. solve.phase \in {"move", "refine", "compare", "solved"}
            BY <4>1 DEF SolveTypeOK
        <5> QED
            BY <3>1, <4>1, <5>1, SolveStays
      <4>3. solve.phase = "move" => Kept(solve.verts, solve.strength, label, sigma)
          BY KeptBefore
      <4>4. solve.phase = "compare" => label \in [solve.verts -> 1 .. Cardinality(solve.verts)]
          BY DEF ClusterInv
      <4>5. todo \in Seq([members : SUBSET Vertices, depth : Nat, total : Nat])
          BY DEF ClusterInv
      <4> QED
          BY <3>1, <4>1, <4>2, <4>3, <4>4, <4>5, KeptInNext
    <3> QED
        BY <3>2, <3>3
  <2> QED
      BY <2>1, <2>2
<1> QED
    BY <1>1, <1>2, PTL DEF ClusterSpec

\* A node is moved between communities only if that strictly increases the
\* modularity, by its definition over all pairs, for every graph, resolution
\* and order of the nodes (Leiden::local_move).
THEOREM MovesAlwaysImprove == ClusterSpec => MovesImprove
<1>1. ClusterInv /\ [ClusterNext]_clusterVars =>
        [(solve.phase = "move" /\ solve'.phase = "move" /\ solve'.outer = solve.outer /\ label' # label) =>
            Modularity(solve, label') > Modularity(solve, label)]_clusterVars
  <2> SUFFICES ASSUME ClusterInv, ClusterNext, solve.phase = "move", solve'.phase = "move", label' # label
               PROVE  Modularity(solve, label') > Modularity(solve, label)
      OBVIOUS
  <2>1. PICK x \in solve.verts : MoveNode(x)
      BY DEF ClusterNext, RefineNode, EndPass, Aggregate, EndIteration, RunClusters, TakeCommunities, KeepCommunity,
             SplitCommunity
  <2> QED
      BY <2>1, MoveImproves
<1> QED
    BY <1>1, ClusterInvHolds, PTL DEF ClusterSpec, MovesImprove
=============================================================================
