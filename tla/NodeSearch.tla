----------------------------- MODULE NodeSearch -----------------------------
(***************************************************************************)
(* The full-text index of a graph shard and the recall that reads it:      *)
(* the nodes table and its triggers (store/src/schema.rs), the opening of  *)
(* a shard (store/src/builder.rs), the writes of builds and of the watcher *)
(* and recall (cli/src/commands/recall.rs; the supervisor runs the same    *)
(* statements, supervisor/src/ipc.rs).                                     *)
(*                                                                         *)
(* nodes_fts holds no text of its own: it maps words to row ids, whatever  *)
(* has become of the rows.  The delete that INSERT OR REPLACE does on a    *)
(* conflict fires no delete trigger, because no connection turns           *)
(* recursive_triggers on.  A node has a name of one word, and its path may *)
(* contain the word "src"; each node has a file of its own.  A query is a  *)
(* word or a fragment of one.  Left out: the ranking, the signature and    *)
(* summary columns, stemming.                                              *)
(***************************************************************************)
EXTENDS Naturals, FiniteSets

CONSTANTS
    SearchNodes,    \* qualified names
    UnderSrc,       \* those whose path contains "src"
    SearchNames,    \* names a node may have
    RecallLimits,   \* values of --limit
    MaxRowId        \* bound on row ids

ASSUME SearchAssumption ==
    UnderSrc \subseteq SearchNodes /\ RecallLimits \subseteq Nat /\ MaxRowId \in Nat

VARIABLES
    nodeRows,   \* the nodes table: [row id -> [q, name]]
    postings,   \* nodes_fts: pairs <<row id, word>>
    lastId,     \* sqlite_sequence: the largest row id ever given out
    schema,     \* what the file has: "none", "legacy" (no triggers), "triggers"
    opener,     \* an init_shard between its schema and its seeding
    unseeded    \* (history) legacy rows met the triggers before they were seeded

searchVars == <<nodeRows, postings, lastId, schema, opener, unseeded>>

Ids == DOMAIN nodeRows
RowWords(r) == {r.name} \cup IF r.q \in UnderSrc THEN {"src"} ELSE {}
Posted(id, r) == {<<id, w>> : w \in RowWords(r)}

\* A shard that is not there yet, or one from before the triggers.
SearchInit ==
    /\ postings = {} /\ opener = "idle" /\ unseeded = FALSE
    /\ \/ schema = "none" /\ nodeRows = <<>> /\ lastId = 0
       \/ \E q \in SearchNodes, n \in SearchNames :
            schema = "legacy" /\ nodeRows = <<[q |-> q, name |-> n]>> /\ lastId = 1

-----------------------------------------------------------------------------
(* Opening a shard *)

ApplySchema ==
    /\ opener = "idle"
    /\ schema' = "triggers" /\ opener' = "seed"
    /\ UNCHANGED <<nodeRows, postings, lastId, unseeded>>

\* seed_nodes_fts: rebuild the index if rows exist and a probe for "src" finds
\* nothing.
SeedNodesFts ==
    /\ opener = "seed"
    /\ opener' = "idle"
    /\ postings' = IF Ids # {} /\ \A p \in postings : p[2] # "src"
                   THEN UNION {Posted(i, nodeRows[i]) : i \in Ids}
                   ELSE postings
    /\ UNCHANGED <<nodeRows, lastId, schema, unseeded>>

\* The process dies in between, or the file is closed again.
OpenerDies ==
    /\ opener = "seed"
    /\ opener' = "idle" /\ unseeded' = (unseeded \/ Ids # {})
    /\ UNCHANGED <<nodeRows, postings, lastId, schema>>

-----------------------------------------------------------------------------
(* Writers *)

\* AUTOINCREMENT: an id is never given out twice.
NextRowId_Reuses ==
    IF Ids = {} THEN 1 ELSE 1 + CHOOSE i \in Ids : \A k \in Ids : k <= i

NextRowId == lastId + 1

\* INSERT OR REPLACE: the row with the same qualified name goes without a
\* trigger, the new one fires nodes_ai.
ReplaceNode(q, name) ==
    /\ schema # "none" /\ lastId < MaxRowId
    /\ LET id == NextRowId
           row == [q |-> q, name |-> name]
           kept == {i \in Ids : nodeRows[i].q # q}
       IN  /\ nodeRows' = [i \in kept \cup {id} |-> IF i = id THEN row ELSE nodeRows[i]]
           /\ postings' = IF schema = "triggers" THEN postings \cup Posted(id, row) ELSE postings
           /\ lastId' = IF id > lastId THEN id ELSE lastId
    /\ unseeded' = (unseeded \/ (opener = "seed" /\ Ids # {}))
    /\ UNCHANGED <<schema, opener>>

\* DELETE of a file's rows fires nodes_ad for each.
DeleteFileRows(q) ==
    /\ schema # "none"
    /\ LET gone == {i \in Ids : nodeRows[i].q = q}
       IN  /\ gone # {}
           /\ nodeRows' = [i \in Ids \ gone |-> nodeRows[i]]
           /\ postings' = IF schema = "triggers"
                          THEN postings \ UNION {Posted(i, nodeRows[i]) : i \in gone}
                          ELSE postings
    /\ UNCHANGED <<lastId, schema, opener, unseeded>>

\* rebuild removes the file.
RemoveShard ==
    /\ schema # "none" /\ opener = "idle"
    /\ nodeRows' = <<>> /\ postings' = {} /\ lastId' = 0 /\ schema' = "none" /\ unseeded' = FALSE
    /\ UNCHANGED opener

SearchNext ==
    \/ ApplySchema \/ SeedNodesFts \/ OpenerDies \/ RemoveShard
    \/ \E q \in SearchNodes, n \in SearchNames : ReplaceNode(q, n)
    \/ \E q \in SearchNodes : DeleteFileRows(q)

SearchSpec == SearchInit /\ [][SearchNext]_searchVars

-----------------------------------------------------------------------------
(* recall *)

UpTo(S, n) == {T \in SUBSET S : Cardinality(T) = IF n < Cardinality(S) THEN n ELSE Cardinality(S)}

\* LIKE '%...%' over name and qualified name.
RecallLike(w, n) == UpTo({i \in Ids : nodeRows[i].name = w}, n)

\* MATCH joined with the rows that exist; a fragment is no word of the index,
\* and an empty result turns to LIKE.
RecallFts(w, fragment, n) ==
    LET hits == IF fragment THEN {} ELSE {i \in Ids : <<i, w>> \in postings}
    IN  IF hits = {} \/ n = 0 THEN RecallLike(w, n) ELSE UpTo(hits, n)

\* The statements the supervisor runs for a request, and the client without it.
QueryRunner(w, fragment, n) ==
    IF schema = "triggers" THEN RecallFts(w, fragment, n) ELSE RecallLike(w, n)

\* The client: the supervisor's hits, its error (no answer at all), or the file
\* itself when the supervisor is down, does not answer or says something else.
Replies == {"hits", "error", "other", "lost", "down"}
RunRecall(w, fragment, n, reply) ==
    IF reply = "error" THEN {} ELSE QueryRunner(w, fragment, n)

-----------------------------------------------------------------------------
\* Recall tells the truth about the rows of a shard that was seeded: a hit is
\* a row that has the word now, not one that had it before a rename, a wipe or
\* a replacement, and a row that has the word is missing only when the limit is
\* reached, although the index keeps the words of replaced rows for ever.
\* (A fragment of a path is not found: LIKE looks at names only.)
RecallIsExact ==
    (schema = "triggers" /\ opener = "idle" /\ ~unseeded) =>
        \A w \in SearchNames \cup {"src"}, f \in BOOLEAN, n \in RecallLimits, r \in Replies :
            (f => w # "src") => \A A \in RunRecall(w, f, n, r) :
                /\ \A i \in A : w \in RowWords(nodeRows[i])
                /\ Cardinality(A) < n => A = {i \in Ids : w \in RowWords(nodeRows[i])}

\* The inductive strengthening of RecallIsExact: row ids are never given out
\* twice, so that the index says nothing false of a row that exists; and it says
\* everything of each, except between the schema and the seeding of a shard from
\* before the triggers, where it is empty.
SearchTypeOK ==
    /\ lastId \in Nat /\ Ids \subseteq 1 .. lastId
    /\ \A i \in Ids : nodeRows[i] \in [q : SearchNodes, name : SearchNames]
    /\ postings \subseteq (1 .. lastId) \X (SearchNames \cup {"src"})
    /\ schema \in {"none", "legacy", "triggers"} /\ opener \in {"idle", "seed"}

NothingFalse == \A p \in postings : p[1] \in Ids => p[2] \in RowWords(nodeRows[p[1]])
Covered == \A i \in Ids : Posted(i, nodeRows[i]) \subseteq postings

IndexInv ==
    /\ SearchTypeOK /\ NothingFalse
    /\ schema # "triggers" => postings = {} /\ opener = "idle"
    /\ (schema = "triggers" /\ ~unseeded) => Covered \/ (opener = "seed" /\ postings = {})
=============================================================================
