---------------------------- MODULE Conventions ----------------------------
(***************************************************************************)
(* The convention learner (brain/src/conventions.rs): files are observed   *)
(* one by one, and only counters are kept of them; conventions are         *)
(* inferred from the counters, and a file is checked against them.         *)
(*                                                                         *)
(* A file is its extension, its declarations (a form and a name each), and *)
(* what the other heuristics see in it.  A name is a sequence of classes   *)
(* of characters: "U", "l", "_" and "d" for a digit; a hyphen ends a name, *)
(* so kebab-case never comes up.  The confidence count / total >= 0.80 is  *)
(* compared in integers.  Left out: the search for the declarations in the *)
(* text, ids, messages and the order of the result.                        *)
(***************************************************************************)
EXTENDS Naturals, Sequences, FiniteSets

CONSTANTS
    SourceFiles,    \* [file name -> record of the file]
    MinEvidence,    \* 3 in the code
    MaxObserved     \* bound on observations

ASSUME ConventionAssumption ==
    /\ {MinEvidence, MaxObserved} \subseteq Nat \ {0} /\ IsFiniteSet(DOMAIN SourceFiles)
    /\ \A f \in DOMAIN SourceFiles : IsFiniteSet(DOMAIN SourceFiles[f].decls)

VARIABLES
    learner,    \* the counters
    observed    \* (history) [file name -> number of times it was observed]

conventionVars == <<learner, observed>>

NamingScopes == {"function", "type", "constant"}
NamingStyles == {"camelCase", "snake_case", "PascalCase", "SCREAMING_SNAKE", "mixed"}
TestShapes == <<"*.spec.*", "*.test.*", "*_test.*", "other", "test_*">>  \* in the order of the map's keys

Script == {"ts", "tsx", "js", "jsx"}

\* Forms of declaration that count for a scope, by extension.
FunctionForms(ext) ==
    CASE ext = "rs" -> {"fn"} [] ext = "py" -> {"def"} [] ext = "go" -> {"func"}
      [] ext \in Script -> {"function", "arrow"} [] OTHER -> {}
TypeForms(ext) ==
    CASE ext = "rs" -> {"struct", "enum", "trait"} [] ext \in {"ts", "tsx"} -> {"interface", "type", "class"}
      [] ext \in {"py", "js", "jsx"} -> {"class"} [] ext = "go" -> {"type"} [] OTHER -> {}
ConstantForms(ext) ==
    CASE ext = "rs" -> {"const"} [] ext \in Script -> {"const", "arrow"} [] OTHER -> {}

ValidIdent(name) == name # <<>> /\ name[1] # "d"

\* The places of the declarations that count for a scope; a script's constant
\* counts only if its first letter is a capital.
NamesIn(file, scope) ==
    LET forms == CASE scope = "function" -> FunctionForms(file.ext)
                   [] scope = "type" -> TypeForms(file.ext)
                   [] scope = "constant" -> ConstantForms(file.ext)
        counts(d) == /\ d.form \in forms /\ ValidIdent(d.name)
                     /\ (scope = "constant" /\ file.ext \in Script) => d.name[1] = "U"
    IN  {i \in DOMAIN file.decls : counts(file.decls[i])}

ClassifyName(name) ==
    LET has(c) == \E i \in DOMAIN name : name[i] = c
        capital == name # <<>> /\ name[1] = "U"
    IN  CASE has("_") /\ ~has("l")             -> "SCREAMING_SNAKE"
          [] has("_") /\ has("l") /\ ~has("U") -> "snake_case"
          [] has("_") /\ has("l") /\ has("U")  -> "mixed"
          [] ~has("_") /\ capital /\ has("l")  -> "PascalCase"
          [] ~has("_") /\ ~capital /\ has("U") -> "camelCase"
          [] ~has("_") /\ ~has("U")            -> "snake_case"
          [] OTHER                             -> "mixed"

StyleAt(file, i) == ClassifyName(file.decls[i].name)
NumberOf(file, scope, style) == Cardinality({i \in NamesIn(file, scope) : StyleAt(file, i) = style})

Zero(S) == [x \in S |-> 0]
ConventionInit ==
    /\ learner = [naming |-> [s \in NamingScopes |-> Zero(NamingStyles)],
                  tests |-> Zero({"colocated", "separate"}), shapes |-> Zero(1 .. Len(TestShapes)),
                  exports |-> Zero({"named", "default"}), components |-> Zero({"functional", "class"}),
                  imports |-> <<>>, errors |-> Zero({"result", "throw", "try"})]
    /\ observed = Zero(DOMAIN SourceFiles)

-----------------------------------------------------------------------------
(* observe_file *)

ObserveNaming_TypesToo(naming, file) ==
    [s \in NamingScopes |-> [y \in NamingStyles |->
        naming[s][y] + NumberOf(file, s, y) + NumberOf(file, "type", y)]]

ObserveNaming(naming, file) ==
    [s \in NamingScopes |-> [y \in NamingStyles |-> naming[s][y] + NumberOf(file, s, y)]]

Plus(counts, S) == [x \in DOMAIN counts |-> counts[x] + IF x \in S THEN 1 ELSE 0]

\* The layout of a test file and the shape of its name.
ObserveTests(l, file) ==
    IF file.test = "none" THEN l
    ELSE [l EXCEPT !.tests = Plus(@, {file.test}), !.shapes = Plus(@, {file.shape})]

\* The groups of the import lines, each where it comes up first; lines that are
\* blank or a comment are passed over, any other line after an import ends it.
ClassifyImportOrder(ls) ==
    LET code == SelectSeq(ls, LAMBDA g : g # "blank")
        first(i) == /\ code[i] # "other"
                    /\ \A k \in 1 .. i - 1 : code[k] # code[i]
                    /\ \A k \in 1 .. i - 1 : code[k] = "other" => \A h \in 1 .. k : code[h] = "other"
        add[i \in 0 .. Len(code)] ==
            IF i = 0 THEN <<>> ELSE IF first(i) THEN Append(add[i - 1], code[i]) ELSE add[i - 1]
    IN  add[Len(code)]

\* Exports, components and imports count in scripts; an empty order is no sample.
ObserveScript(l, file) ==
    IF file.ext \notin Script THEN l
    ELSE [l EXCEPT !.exports = Plus(@, file.exports), !.components = Plus(@, file.components),
                   !.imports = LET order == ClassifyImportOrder(file.imports)
                               IN  IF order = <<>> THEN @ ELSE Append(@, order)]

\* A Rust file may count twice, for its signatures and for its crate of errors.
ObserveErrors(l, file) ==
    [l EXCEPT !.errors["result"] = @ + IF file.ext = "rs" THEN file.results ELSE 0,
              !.errors["throw"] = @ + IF file.ext \in Script /\ "throw" \in file.raises THEN 1 ELSE 0,
              !.errors["try"] = @ + IF file.ext \in Script /\ "try" \in file.raises THEN 1 ELSE 0]

Observe(l, file) ==
    ObserveErrors(ObserveScript(ObserveTests(
        [l EXCEPT !.naming = ObserveNaming(@, file)], file), file), file)

Total(counts) ==
    LET add[S \in SUBSET DOMAIN counts] ==
            IF S = {} THEN 0 ELSE LET x == CHOOSE x \in S : TRUE IN counts[x] + add[S \ {x}]
    IN  add[DOMAIN counts]

ObserveFile(f) ==
    /\ Total(observed) < MaxObserved
    /\ learner' = Observe(learner, SourceFiles[f])
    /\ observed' = [observed EXCEPT ![f] = @ + 1]

-----------------------------------------------------------------------------
(* infer_conventions *)

\* The choices with enough evidence and at least four fifths of it: one at most.
Strong(counts) ==
    {x \in DOMAIN counts : Total(counts) >= MinEvidence /\ 5 * counts[x] >= 4 * Total(counts)}

InferNaming(l) ==
    UNION {{[kind |-> "naming", scope |-> s, prefers |-> y] : y \in Strong(l.naming[s])} : s \in NamingScopes}

\* The name of the layout is the most frequent shape, the last of equals.
InferTests(l) ==
    LET top == CHOOSE i \in DOMAIN l.shapes : \A k \in DOMAIN l.shapes :
                    l.shapes[k] < l.shapes[i] \/ (l.shapes[k] = l.shapes[i] /\ k <= i)
    IN  {[kind |-> "test_layout", scope |-> TestShapes[top], prefers |-> t] : t \in Strong(l.tests)}

InferShapes(l) ==
    {[kind |-> "component_shape", scope |-> "any", prefers |-> x] : x \in Strong(l.exports) \cup Strong(l.components)}

InferImports(l) ==
    LET orders == {l.imports[i] : i \in DOMAIN l.imports}
        counts == [o \in orders |-> Cardinality({i \in DOMAIN l.imports : l.imports[i] = o})]
    IN  {[kind |-> "import_order", scope |-> "any", prefers |-> o] : o \in Strong(counts)}

InferErrors(l) ==
    {[kind |-> "error_handling", scope |-> "any", prefers |-> e] : e \in Strong(l.errors) \cap {"result"}}

InferConventions(l) ==
    InferNaming(l) \cup InferTests(l) \cup InferShapes(l) \cup InferImports(l) \cup InferErrors(l)

\* The style, if any, that function names should have.
FunctionStyles(l) ==
    {c.prefers : c \in {x \in InferConventions(l) : x.kind = "naming" /\ x.scope = "function"}}

-----------------------------------------------------------------------------
\* check: only the names of functions are looked at, and a mixed one passes.
Check(l, file) ==
    {i \in NamesIn(file, "function") :
        \E y \in FunctionStyles(l) : StyleAt(file, i) \notin {y, "mixed"}}

ConventionNext == \E f \in DOMAIN SourceFiles : ObserveFile(f)
ConventionSpec == ConventionInit /\ [][ConventionNext]_conventionVars

-----------------------------------------------------------------------------
\* Learning and checking agree about what was seen, however the files came:
\* at most a fifth of the function names of all observations is reported by
\* check, and a file that check passes, none of whose names is mixed, never
\* takes the convention away when it is observed next.
CheckAgreesWithLearning ==
    LET functions(f) == NamesIn(SourceFiles[f], "function")
        reported(f) == Check(learner, SourceFiles[f])
    IN  (\E f \in DOMAIN observed : observed[f] > 0) =>
          /\ 5 * Total([f \in DOMAIN SourceFiles |-> observed[f] * Cardinality(reported(f))])
               <= Total([f \in DOMAIN SourceFiles |-> observed[f] * Cardinality(functions(f))])
          /\ \A f \in DOMAIN SourceFiles :
               reported(f) = {} /\ (\A i \in functions(f) : StyleAt(SourceFiles[f], i) # "mixed") =>
                  FunctionStyles(learner) \subseteq FunctionStyles(Observe(learner, SourceFiles[f]))
-----------------------------------------------------------------------------
(* The invariant behind it, which is proved in DataProofs: a counter of names  *)
(* is the sum over the files of what each shows, as often as it was observed.  *)
Times(number) == [f \in DOMAIN SourceFiles |-> observed[f] * number[f]]
Shown(style) == [f \in DOMAIN SourceFiles |-> NumberOf(SourceFiles[f], "function", style)]

ConventionInv ==
    /\ observed \in [DOMAIN SourceFiles -> Nat] /\ "naming" \in DOMAIN learner
    /\ learner.naming \in [NamingScopes -> [NamingStyles -> Nat]]
    /\ \A y \in NamingStyles : learner.naming["function"][y] = Total(Times(Shown(y)))
=============================================================================
