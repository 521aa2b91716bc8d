----------------------------- MODULE InputEdit -----------------------------
(***************************************************************************)
(* The edit that the incremental parser tells tree-sitter about            *)
(* (parsers/src/incremental.rs): the common prefix and the common suffix   *)
(* of the cached text and the new one are kept, what is between them is    *)
(* replaced.  The old tree is moved along by the edit before the new text  *)
(* is parsed; here the moved tree is the text it covers.                   *)
(***************************************************************************)
EXTENDS Naturals, Sequences, FiniteSets

CONSTANTS
    TextBytes,      \* bytes, among them the newline "n"
    MaxTextLen,     \* bound on the length of a text
    MaxEdits        \* bound on parses of the file

ASSUME InputEditAssumption == {MaxTextLen, MaxEdits} \subseteq Nat

VARIABLES
    cachedText, \* bytes of the cache entry
    movedTree,  \* the old tree after its edit, as the text it covers
    lastEdit,   \* the last edit
    edits       \* number of parses so far

inputEditVars == <<cachedText, movedTree, lastEdit, edits>>

AllTexts == UNION {[1 .. n -> TextBytes] : n \in 0 .. MaxTextLen}
LowerOf(m, n) == IF m < n THEN m ELSE n
Longest(S) == CHOOSE n \in S : \A k \in S : k <= n

CommonPrefix(a, b) ==
    Longest({n \in 0 .. LowerOf(Len(a), Len(b)) : \A i \in 1 .. n : a[i] = b[i]})
CommonSuffix(a, b) ==
    Longest({n \in 0 .. LowerOf(Len(a), Len(b)) :
                \A i \in 0 .. n - 1 : a[Len(a) - i] = b[Len(b) - i]})

\* Row and column of an offset.
ByteToPoint(s, offset) ==
    LET lines == {i \in 1 .. offset : s[i] = "n"}
    IN  [row |-> Cardinality(lines), col |-> offset - Longest(lines \cup {0})]

EditOf(old, new, prefix, suffix) ==
    [start |-> prefix, oldEnd |-> Len(old) - suffix, newEnd |-> Len(new) - suffix,
     startAt |-> ByteToPoint(old, prefix), oldEndAt |-> ByteToPoint(old, Len(old) - suffix),
     newEndAt |-> ByteToPoint(new, Len(new) - suffix)]

ComputeInputEdit_WholeSuffix(old, new) ==
    EditOf(old, new, CommonPrefix(old, new), CommonSuffix(old, new))

ComputeInputEdit(old, new) ==
    LET prefix == CommonPrefix(old, new)
        suffix == CommonSuffix(SubSeq(old, prefix + 1, Len(old)), SubSeq(new, prefix + 1, Len(new)))
    IN  EditOf(old, new, prefix, suffix)

NoEdit ==       \* nothing has been parsed again yet
    LET origin == [row |-> 0, col |-> 0]
    IN  [start |-> 0, oldEnd |-> 0, newEnd |-> 0, startAt |-> origin, oldEndAt |-> origin, newEndAt |-> origin]

InputEditInit ==
    /\ cachedText \in AllTexts /\ movedTree = cachedText
    /\ lastEdit = NoEdit /\ edits = 0

\* parse_file: the edit takes the cached tree to the new text; the entry is
\* replaced.  A text that did not change makes no edit.
ParseText(new) ==
    /\ edits < MaxEdits /\ new # cachedText
    /\ LET e == ComputeInputEdit(cachedText, new)
       IN  /\ lastEdit' = e
           /\ movedTree' = SubSeq(cachedText, 1, e.start) \o SubSeq(new, e.start + 1, e.newEnd)
                               \o SubSeq(cachedText, e.oldEnd + 1, Len(cachedText))
    /\ cachedText' = new /\ edits' = edits + 1

InputEditNext == \E t \in AllTexts : ParseText(t)
InputEditSpec == InputEditInit /\ [][InputEditNext]_inputEditVars

-----------------------------------------------------------------------------
\* The edit is exact for every pair of texts, one being a repetition of the
\* other's end among them: the moved tree covers the new text byte by byte, the
\* replaced range is not turned around, and the three points follow one another
\* as the offsets do.
EditIsExact ==
    /\ movedTree = cachedText
    /\ lastEdit.start <= lastEdit.oldEnd /\ lastEdit.start <= lastEdit.newEnd
    /\ \A p \in {lastEdit.oldEndAt, lastEdit.newEndAt} :
         \/ p.row > lastEdit.startAt.row
         \/ p.row = lastEdit.startAt.row /\ p.col >= lastEdit.startAt.col
=============================================================================
