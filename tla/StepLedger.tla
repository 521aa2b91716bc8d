----------------------------- MODULE StepLedger -----------------------------
(***************************************************************************)
(* The ledger of steps (brain/src/ledger.rs): an append-only table that    *)
(* hooks and tools of several processes write, and the resume bundle that  *)
(* is put together for a new session by four queries, one after another,   *)
(* while they go on writing.                                               *)
(*                                                                         *)
(* An entry is its kind, its time (which the caller chooses) and whether   *)
(* it is a question that names its answer.  A query returns the newest     *)
(* rows; rows of the same time come in any order, so a result is one of    *)
(* several sets.  The words of a search match every row the full-text      *)
(* mirror knows.  Left out: the texts, the vectors and the ranking by      *)
(* similarity, which the bundle does not ask for, the sessions, and a row  *)
(* that cannot be decoded, which every query drops.                        *)
(***************************************************************************)
EXTENDS Naturals, Sequences, FiniteSets

CONSTANTS
    MaxMoment,          \* bound on timestamps
    MaxEntries,         \* bound on entries
    TimelineLimit,      \* 50 in the code
    RecentLimit,        \* 10 in the code
    QuestionLimit,      \* 50 in the code
    MinPool             \* 20 in the code

ASSUME LedgerAssumption ==
    {MaxMoment, MaxEntries, TimelineLimit, RecentLimit, QuestionLimit, MinPool} \subseteq Nat

VARIABLES
    entries,    \* the table, in the order of its rows
    inFts,      \* rows the full-text mirror knows
    bundle      \* the resume bundle, as far as it was read

ledgerVars == <<entries, inFts, bundle>>

StepKinds == {"decision", "impl", "refactor", "open_question", "bug"}
Rows == DOMAIN entries
NoBundle == [pc |-> "idle", since |-> 0, timeline |-> {}, decisions |-> {}, impls |-> {},
             questions |-> {}]

LedgerInit == entries = <<>> /\ inFts = {} /\ bundle = NoBundle

\* append: the row and its mirror in one transaction; a mirror that fails does
\* not undo the row.
AppendEntry(k, t, answered) ==
    /\ Len(entries) < MaxEntries
    /\ entries' = Append(entries, [kind |-> k, ts |-> t, resolved |-> answered])
    /\ inFts' \in {inFts, inFts \cup {Len(entries) + 1}}
    /\ UNCHANGED bundle

\* ORDER BY timestamp DESC LIMIT n: any set the ties allow.
Smaller(a, b) == IF a < b THEN a ELSE b
Newest(R, n) ==
    {P \in SUBSET R : /\ Cardinality(P) = Smaller(n, Cardinality(R))
                      /\ \A p \in P, r \in R \ P : entries[p].ts >= entries[r].ts}

\* recall: a pool of four times the limit, filtered by the statement, cut to
\* the limit.  Words restrict it to rows of the mirror.
Larger(a, b) == IF a < b THEN b ELSE a
Recall_FiltersLast(words, kinds, since, limit) ==
    {{r \in P : entries[r].kind \in kinds /\ entries[r].ts >= since} : P \in Newest(Rows, limit)}

Recall(words, kinds, since, limit) ==
    LET match == {r \in IF words THEN inFts ELSE Rows :
                    entries[r].kind \in kinds /\ entries[r].ts >= since}
        pool == Larger(4 * limit, MinPool)
    IN  UNION {{T \in SUBSET P : T \in Newest(P, limit)} : P \in Newest(match, pool)}

\* open_questions: the newest questions, of which the answered ones are dropped.
OpenQuestions ==
    {{r \in P : ~entries[r].resolved} :
        P \in Newest({r \in Rows : entries[r].kind = "open_question"}, QuestionLimit)}

-----------------------------------------------------------------------------
\* resume_summary, query by query.
ReadTimeline(since) ==
    /\ bundle.pc = "idle"
    /\ \E T \in Recall(FALSE, StepKinds, since, TimelineLimit) :
        bundle' = [NoBundle EXCEPT !.pc = "decisions", !.since = since, !.timeline = T]
    /\ UNCHANGED <<entries, inFts>>

ReadDecisions ==
    /\ bundle.pc = "decisions"
    /\ \E T \in Recall(FALSE, {"decision"}, bundle.since, RecentLimit) :
        bundle' = [bundle EXCEPT !.pc = "impls", !.decisions = T]
    /\ UNCHANGED <<entries, inFts>>

ReadImplementations ==
    /\ bundle.pc = "impls"
    /\ \E T \in Recall(FALSE, {"impl", "refactor"}, bundle.since, RecentLimit) :
        bundle' = [bundle EXCEPT !.pc = "questions", !.impls = T]
    /\ UNCHANGED <<entries, inFts>>

ReadQuestions ==
    /\ bundle.pc = "questions"
    /\ \E T \in OpenQuestions : bundle' = [bundle EXCEPT !.pc = "done", !.questions = T]
    /\ UNCHANGED <<entries, inFts>>

\* A search of its own, in the place of a bundle.
Search(kinds, since) ==
    /\ bundle.pc = "idle"
    /\ \E T \in Recall(TRUE, kinds, since, RecentLimit) :
        bundle' = [NoBundle EXCEPT !.pc = "found", !.since = since, !.timeline = T]
    /\ UNCHANGED <<entries, inFts>>

UseBundle ==
    /\ bundle.pc \in {"done", "found"} /\ bundle' = NoBundle
    /\ UNCHANGED <<entries, inFts>>

LedgerNext ==
    \/ \E k \in StepKinds, t \in 1 .. MaxMoment, b \in BOOLEAN :
        (b => k = "open_question") /\ AppendEntry(k, t, b)
    \/ \E since \in 1 .. MaxMoment : ReadTimeline(since) \/ Search({"decision", "bug"}, since)
    \/ ReadDecisions \/ ReadImplementations \/ ReadQuestions \/ UseBundle

LedgerSpec == LedgerInit /\ [][LedgerNext]_ledgerVars

-----------------------------------------------------------------------------
Missing(kinds) == {r \in bundle.timeline : entries[r].kind \in kinds}

\* The lists of a bundle hang together although the table grows between the
\* queries: a decision, an implementation or an unanswered question of the
\* timeline is missing from its own list only if that list is full, and a list
\* has nothing from before the time asked for.
BundleHangsTogether ==
    bundle.pc = "done" =>
        /\ Missing({"decision"}) \subseteq bundle.decisions
             \/ Cardinality(bundle.decisions) = RecentLimit
        /\ Missing({"impl", "refactor"}) \subseteq bundle.impls
             \/ Cardinality(bundle.impls) = RecentLimit
        /\ {r \in Missing({"open_question"}) : ~entries[r].resolved} \subseteq bundle.questions
             \/ Cardinality({r \in Rows : entries[r].kind = "open_question"}) > QuestionLimit
        /\ \A r \in bundle.timeline \cup bundle.decisions \cup bundle.impls :
             entries[r].ts >= bundle.since

\* The inductive strengthening of BundleHangsTogether: every list holds rows of
\* the table from the time asked for, and each list that was read holds what the
\* timeline has of its kinds, or is full.
BundleShape ==
    /\ entries \in Seq([kind : StepKinds, ts : Nat, resolved : BOOLEAN])
    /\ inFts \subseteq Rows
    /\ bundle \in [pc : {"idle", "decisions", "impls", "questions", "done", "found"}, since : Nat,
                   timeline : SUBSET Rows, decisions : SUBSET Rows, impls : SUBSET Rows,
                   questions : SUBSET Rows]
    /\ \A r \in bundle.timeline \cup bundle.decisions \cup bundle.impls : entries[r].ts >= bundle.since

Holds(list, kinds, limit) == Missing(kinds) \subseteq list \/ Cardinality(list) = limit

BundleInv ==
    /\ BundleShape
    /\ bundle.pc \in {"impls", "questions", "done"} => Holds(bundle.decisions, {"decision"}, RecentLimit)
    /\ bundle.pc \in {"questions", "done"} => Holds(bundle.impls, {"impl", "refactor"}, RecentLimit)
    /\ bundle.pc = "done" =>
         \/ {r \in Missing({"open_question"}) : ~entries[r].resolved} \subseteq bundle.questions
         \/ Cardinality({r \in Rows : entries[r].kind = "open_question"}) > QuestionLimit
=============================================================================
