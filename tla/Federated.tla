----------------------------- MODULE Federated -----------------------------
(***************************************************************************)
(* Fingerprints of source files (brain/src/federated.rs) and the commands  *)
(* that fill their shard (cli/src/commands/federated.rs): scan, opt-in and *)
(* opt-out.  Files change while a scan walks them.  Status and sync only   *)
(* read: nothing is ever sent, and no row is ever marked as uploaded.      *)
(*                                                                         *)
(* A text is its length and its tokens.  The hashes of tokens are given by *)
(* constants: BitsOf for the similarity hash, SaltedOf for the sketch of   *)
(* minima.  A similarity is multiplied by twice the number of bits times   *)
(* the size of the sketch.  Rows made in the same millisecond come in any  *)
(* order.  Left out: the normalised shape, which no comparison uses, the   *)
(* encoding of rows, the texts printed.                                    *)
(***************************************************************************)
EXTENDS Integers, Sequences, FiniteSets

CONSTANTS
    ScanPaths,      \* paths under the root
    KindOf,         \* pattern_kind_for: [path -> kind, or "skip"]
    FileTexts,      \* texts: records [len, tokens]
    BitsOf,         \* hash64: [token -> sequence of 0 and 1]
    SaltedOf,       \* hash32_salted: [token -> sequence of numbers]
    HashWidth,      \* SIMHASH_BITS (64 in the code)
    SketchSize,     \* MINHASH_K (128 in the code)
    Window,         \* rows a query looks at (512 in the code)
    MaxPrints,      \* bound on rows
    MaxMillis       \* bound on the clock

ASSUME FederatedAssumption ==
    /\ {HashWidth, SketchSize, Window} \subseteq Nat \ {0} /\ {MaxPrints, MaxMillis} \subseteq Nat
    /\ \A t \in FileTexts : \A i \in DOMAIN t.tokens :
         /\ BitsOf[t.tokens[i]] \in [1 .. HashWidth -> {0, 1}]
         /\ SaltedOf[t.tokens[i]] \in [1 .. SketchSize -> Nat]

VARIABLES
    onDisk,     \* [path -> text]
    prints,     \* the table, in the order of its rows
    optedIn,    \* the marker file exists
    scan,       \* the scan at work: paths left, numbers indexed and skipped
    millis,     \* the clock
    touched     \* (history) paths edited since the scan began

federatedVars == <<onDisk, prints, optedIn, scan, millis, touched>>

-----------------------------------------------------------------------------
(* Fingerprints *)

UMax == 1000000  \* u32::MAX, above every salted hash

SumSeq(s) == LET up[n \in 0 .. Len(s)] == IF n = 0 THEN 0 ELSE up[n - 1] + s[n] IN up[Len(s)]
Simhash(tokens) ==
    [b \in 1 .. HashWidth |->
        IF SumSeq([i \in DOMAIN tokens |-> 2 * BitsOf[tokens[i]][b] - 1]) > 0 THEN 1 ELSE 0]

Minhash(tokens) ==
    [k \in 1 .. SketchSize |->
        LET hs == {UMax} \cup {SaltedOf[tokens[i]][k] : i \in DOMAIN tokens}
        IN  CHOOSE h \in hs : \A g \in hs : h <= g]

Fingerprint(tokens, kind) ==
    [kind |-> kind, simhash |-> Simhash(tokens), minhash |-> Minhash(tokens), span |-> Len(tokens)]

Jaccard(p, q) == Cardinality({k \in 1 .. SketchSize : p.minhash[k] = q.minhash[k]})
Hamming(p, q) == Cardinality({b \in 1 .. HashWidth : p.simhash[b] # q.simhash[b]})
Similarity(p, q) == (HashWidth - Hamming(p, q)) * SketchSize + Jaccard(p, q) * HashWidth
Full == 2 * HashWidth * SketchSize

-----------------------------------------------------------------------------
(* Queries *)

Fewer(n, m) == IF n < m THEN n ELSE m

\* ORDER BY created_at DESC LIMIT: any set of rows the ties allow.
Candidates_Oldest(kind) ==
    LET R == {i \in DOMAIN prints : prints[i].print.kind = kind}
    IN  {C \in SUBSET R : /\ Cardinality(C) = Fewer(Window, Cardinality(R))
                          /\ \A c \in C, r \in R \ C : prints[c].at <= prints[r].at}

Candidates(kind) ==
    LET R == {i \in DOMAIN prints : prints[i].print.kind = kind}
    IN  {C \in SUBSET R : /\ Cardinality(C) = Fewer(Window, Cardinality(R))
                          /\ \A c \in C, r \in R \ C : prints[c].at >= prints[r].at}

\* query_similar: the k most similar of the candidates.
QuerySimilar(p, k) ==
    UNION {{H \in SUBSET C : /\ Cardinality(H) = Fewer(k, Cardinality(C))
                             /\ \A h \in H, c \in C \ H :
                                  Similarity(p, prints[h].print) >= Similarity(p, prints[c].print)} :
           C \in Candidates(p.kind)}

-----------------------------------------------------------------------------
(* Commands *)

NoScan == [on |-> FALSE, left |-> {}, indexed |-> 0, skipped |-> 0]
FederatedInit ==
    /\ onDisk \in [ScanPaths -> FileTexts] /\ prints = <<>> /\ optedIn = FALSE
    /\ scan = NoScan /\ millis = 0 /\ touched = {}

StartScan ==
    /\ ~scan.on
    /\ scan' = [NoScan EXCEPT !.on = TRUE, !.left = ScanPaths] /\ touched' = {}
    /\ UNCHANGED <<onDisk, prints, optedIn, millis>>

\* is_source_file and is_ignored are in KindOf; an unreadable or empty file is
\* skipped too.
Skips(p, readable) == KindOf[p] = "skip" \/ ~readable \/ onDisk[p].len = 0

\* index_local_with_source.
IndexLocal(p) ==
    prints' = Append(prints, [print |-> Fingerprint(onDisk[p].tokens, KindOf[p]),
                              at |-> millis, source |-> p])

ScanFile(p, readable) ==
    /\ scan.on /\ p \in scan.left /\ Len(prints) < MaxPrints
    /\ IF Skips(p, readable)
       THEN scan' = [scan EXCEPT !.left = @ \ {p}, !.skipped = @ + 1] /\ UNCHANGED prints
       ELSE scan' = [scan EXCEPT !.left = @ \ {p}, !.indexed = @ + 1] /\ IndexLocal(p)
    /\ touched' = IF readable THEN touched ELSE touched \cup {p}
    /\ UNCHANGED <<onDisk, optedIn, millis>>

\* The insert fails: the command ends, the rows so far stay.
ScanFails ==
    /\ scan.on /\ scan.left # {}
    /\ scan' = [NoScan EXCEPT !.left = ScanPaths] /\ touched' = ScanPaths
    /\ UNCHANGED <<onDisk, prints, optedIn, millis>>

EndScan ==
    /\ scan.on /\ scan.left = {}
    /\ scan' = [scan EXCEPT !.on = FALSE]
    /\ UNCHANGED <<onDisk, prints, optedIn, millis, touched>>

OptIn == optedIn' = TRUE /\ UNCHANGED <<onDisk, prints, scan, millis, touched>>
OptOut == optedIn' = FALSE /\ UNCHANGED <<onDisk, prints, scan, millis, touched>>

EditText(p, t) ==
    /\ onDisk[p] # t
    /\ onDisk' = [onDisk EXCEPT ![p] = t] /\ touched' = touched \cup {p}
    /\ UNCHANGED <<prints, optedIn, scan, millis>>

PassMillis ==
    /\ millis < MaxMillis /\ millis' = millis + 1
    /\ UNCHANGED <<onDisk, prints, optedIn, scan, touched>>

FederatedNext ==
    \/ StartScan \/ ScanFails \/ EndScan \/ OptIn \/ OptOut \/ PassMillis
    \/ \E p \in ScanPaths : (\E r \in BOOLEAN : ScanFile(p, r)) \/ \E t \in FileTexts : EditText(p, t)

FederatedSpec == FederatedInit /\ [][FederatedNext]_federatedVars

-----------------------------------------------------------------------------
\* What a scan indexed can be found again: once a scan has ended, the text of
\* every file that it could read and nobody edited meanwhile is the best match
\* of a query for it, and a perfect one, whatever earlier scans left in the
\* table, as long as the window holds the rows of its kind that are as new.
ScannedIsFound ==
    ~scan.on => \A p \in (ScanPaths \ touched) \ scan.left :
        (scan.indexed + scan.skipped > 0 /\ ~Skips(p, TRUE)) =>
            LET print == Fingerprint(onDisk[p].tokens, KindOf[p])
                rows == {i \in DOMAIN prints : prints[i].source = p /\ prints[i].print = print}
            IN  \E i \in rows :
                    (Cardinality({j \in DOMAIN prints : /\ prints[j].print.kind = KindOf[p]
                                                        /\ prints[j].at >= prints[i].at}) <= Window)
                    => \A H \in QuerySimilar(print, 1) : \E h \in H : Similarity(print, prints[h].print) = Full

\* The inductive strengthening of ScannedIsFound: the path of a scan that is no
\* longer among the paths left, and that nobody edited, has a row with the
\* fingerprint of its text.
Prints == {Fingerprint(t.tokens, KindOf[p]) : t \in FileTexts, p \in ScanPaths}
ScanShape ==
    /\ onDisk \in [ScanPaths -> FileTexts]
    /\ prints \in Seq([print : Prints, at : Nat, source : ScanPaths])
    /\ millis \in Nat
    /\ scan \in [on : BOOLEAN, left : SUBSET ScanPaths, indexed : Nat, skipped : Nat]

RowsFor(p) ==
    {i \in DOMAIN prints : prints[i].source = p
                           /\ prints[i].print = Fingerprint(onDisk[p].tokens, KindOf[p])}

ScanInv ==
    /\ ScanShape
    /\ scan.on \/ scan.indexed + scan.skipped > 0 =>
         \A p \in (ScanPaths \ touched) \ scan.left : Skips(p, TRUE) \/ RowsFor(p) # {}
=============================================================================
