----------------------------- MODULE PromptHook -----------------------------
(***************************************************************************)
(* The hook that runs when the user submits a prompt (mneme inject,        *)
(* cli/src/commands/inject.rs): it asks the supervisor for context, adds   *)
(* the skill that fits the prompt best (cli/src/skill_matcher.rs) and a    *)
(* note when the index is old, and prints the result.                      *)
(*                                                                         *)
(* A text is a sequence of words, so a phrase is one of several words; it  *)
(* is found in a prompt from word to word.  A file of a skill is a         *)
(* sequence of lines: a line is a fence, blank, a key at the margin, any   *)
(* other line at the margin (a comment), an indented item or an indented   *)
(* text.  Directories are listed in any order.  Left out: byte order       *)
(* marks, line ends, and the wording of what is printed.                   *)
(***************************************************************************)
EXTENDS Integers, Sequences, FiniteSets, SequencesExt

CONSTANTS
    HookInputs,     \* what a run of the hook may find, see GivenFields
    Lower,          \* [word -> word in lower case]
    Spelled,        \* pairs of a word and a longer one it is part of
    Special,        \* words with a digit or one of - _ + .
    StopWords,      \* STOPWORDS, and words of one letter
    CodeWords,      \* CODEWORDS
    NudgeSkill,     \* the skill that explains the codewords
    StaleAfter      \* DEFAULT_STALENESS_WARN_DAYS (7 in the code)

\* An optional value is a set of at most one element.

\* cli and stdin: the prompt as a flag and in the payload on stdin, if there;
\* hint: no --no-skill-hint; roots: the candidate directories in the order they
\* are found, each a path with its entries; age: days since last_indexed_at, -1
\* when no project root or no stamp is found; config: staleness_warn_days, 0
\* when it is not there or no integer.
GivenFields == {"cli", "stdin", "hint", "roots", "age", "config"}

\* A key, which is not empty, has nothing, one scalar or an inline list behind it.
IsLine(line) ==
    /\ line.kind \in {"fence", "blank", "comment", "key", "item", "text"}
    /\ line.kind = "key" =>
         /\ line.key # "" /\ line.form \in {"open", "scalar", "inline"}
         /\ line.words \in Seq({line.words[i] : i \in DOMAIN line.words})
IsFile(lines) ==
    lines \in Seq({lines[i] : i \in DOMAIN lines}) /\ \A i \in DOMAIN lines : IsLine(lines[i])

\* A directory that is found twice has the same entries.
IsListing(roots) ==
    /\ roots \in Seq({roots[i] : i \in DOMAIN roots})
    /\ \A i, j \in DOMAIN roots : roots[i].path = roots[j].path => roots[i].entries = roots[j].entries
    /\ \A i \in DOMAIN roots : \A e \in roots[i].entries : IsFile(e.lines)

ASSUME HookAssumption ==
    /\ \A g \in HookInputs : DOMAIN g = GivenFields /\ IsListing(g.roots)
    /\ StaleAfter \in Nat \ {0} /\ Spelled \subseteq (DOMAIN Lower) \X (DOMAIN Lower)

VARIABLES
    stage,      \* how far the hook is
    given,      \* what this run finds
    prompt,     \* the prompt, a sequence of words
    dirs,       \* candidate directories with the entries still to look at
    skills,     \* load_skills' result so far
    context     \* additional_context, as the sequence of its blocks

hookVars == <<stage, given, prompt, dirs, skills, context>>

-----------------------------------------------------------------------------
\* The elements of s at the places P, in their order.
ElementsAt(s, P) ==
    [i \in 1 .. Cardinality(P) |-> s[CHOOSE x \in P : Cardinality({y \in P : y <= x}) = i]]
NonEmpty(texts) == ElementsAt(texts, {i \in DOMAIN texts : texts[i] # <<>>})

\* The lines between the opening fence and the next line that starts with one.
SliceFrontmatter(lines) ==
    LET ends == {i \in 2 .. Len(lines) : lines[i].kind = "fence"}
        first == CHOOSE i \in ends : \A j \in ends : i <= j
    IN  IF ends # {} /\ lines[1].kind = "fence" THEN {SubSeq(lines, 2, first - 1)} ELSE {}

\* Quotes around a scalar or an element go, and what stands in them stays together.
StripScalar(w) == w.text
SplitInline(ws) == NonEmpty([i \in DOMAIN ws |-> StripScalar(ws[i])])

\* The end of an open block: its items if it has one, else its lines joined.
Closed(p) ==
    IF p.key = "" THEN p
    ELSE [out |-> Append(p.out, [key |-> p.key, array |-> p.array,
                                 texts |-> IF p.array THEN p.items ELSE <<FlattenSeq(p.folded)>>]),
          key |-> "", array |-> FALSE, items |-> <<>>, folded |-> <<>>]

\* A line no open block takes: only a key at the margin counts.
OuterLine(p, line) ==
    IF line.kind # "key" THEN p
    ELSE IF line.form = "open" THEN [p EXCEPT !.key = line.key]
    ELSE [p EXCEPT !.out = Append(@,
             [key |-> line.key, array |-> line.form = "inline",
              texts |-> IF line.form = "inline" THEN SplitInline(line.words)
                        ELSE <<StripScalar(line.words[1])>>])]

\* An item makes the open block an array; a text after an item ends it, as does
\* every line at the margin.
YamlLine(p, line) ==
    IF p.key = "" \/ line.kind \in {"key", "comment"} \/ (line.kind = "text" /\ p.array)
    THEN OuterLine(Closed(p), line)
    ELSE IF line.kind = "item"
    THEN [p EXCEPT !.array = TRUE, !.items = Append(@, StripScalar(line.words[1]))]
    ELSE IF line.kind = "text"
    THEN [p EXCEPT !.folded = Append(@, line.words[1].text)]
    ELSE p

NoBlock == [out |-> <<>>, key |-> "", array |-> FALSE, items |-> <<>>, folded |-> <<>>]
ParseTinyYaml(lines) ==
    LET after[n \in 0 .. Len(lines)] == IF n = 0 THEN NoBlock ELSE YamlLine(after[n - 1], lines[n])
    IN  Closed(after[Len(lines)]).out

\* A scalar counts as one element; empty ones do not count.
ValueAsArray(v) == NonEmpty(v.texts)
ValueAsScalar(v) == FlattenSeq(v.texts)

\* Of a key that comes twice the last value counts.
FieldOf(kv, key) ==
    LET at == {i \in DOMAIN kv : kv[i].key = key}
    IN  IF at = {} THEN [key |-> key, array |-> TRUE, texts |-> <<>>]
        ELSE kv[CHOOSE i \in at : \A j \in at : j <= i]

ToLower(text) == [i \in DOMAIN text |-> Lower[text[i]]]
LowerAll(texts) == [i \in DOMAIN texts |-> ToLower(texts[i])]

\* A file that cannot be read, has no frontmatter or no name is no skill.
ParseSkillFile(entry) ==
    LET kvs == {ParseTinyYaml(front) : front \in {f \in SliceFrontmatter(entry.lines) : entry.readable}}
        skill(kv) == [name |-> ValueAsScalar(FieldOf(kv, "name")),
                      triggers |-> LowerAll(ValueAsArray(FieldOf(kv, "triggers"))),
                      tags |-> LowerAll(ValueAsArray(FieldOf(kv, "tags"))), source |-> entry]
    IN  {s \in {skill(kv) : kv \in kvs} : s.name # <<>>}

\* A directory that holds a SKILL.md, or that file itself in any case.
IsSkillFile(entry) == entry.kind \in {"dir", "file"} /\ entry.skill

\* Paths that are found twice count once, at their first place; what is no
\* directory is passed over.
CandidateDirs(roots) ==
    LET first == ElementsAt(roots, {i \in DOMAIN roots : \A j \in 1 .. i - 1 : roots[j].path # roots[i].path})
    IN  [i \in DOMAIN first |-> {e \in first[i].entries : IsSkillFile(e)}]

-----------------------------------------------------------------------------
Tokenize(p) == {Lower[p[i]] : i \in DOMAIN p} \ StopWords
Occurs(text, p) ==
    \E i \in DOMAIN p : i + Len(text) - 1 <= Len(p) /\ SubSeq(p, i, i + Len(text) - 1) = text

\* A phrase is looked up in the whole prompt, a word among the tokens, and a
\* word with special characters also inside other words.
TriggerMatches(t, lowered, tokens) ==
    /\ t # <<>>
    /\ IF Len(t) > 1 THEN Occurs(t, lowered)
       ELSE \/ t[1] \in tokens
            \/ /\ t[1] \in Special
               /\ \E i \in DOMAIN lowered : lowered[i] = t[1] \/ <<t[1], lowered[i]>> \in Spelled

ConfidenceFor(score) == IF score >= 3 THEN "high" ELSE IF score >= 1 THEN "medium" ELSE "low"
CodewordHit(lowered) == \E i \in DOMAIN lowered : lowered[i] \in CodeWords

\* A tag that is also a trigger of the skill is not counted twice.
Scored(s, p) ==
    LET fits(t) == TriggerMatches(t, ToLower(p), Tokenize(p))
        score == 2 * Cardinality({i \in DOMAIN s.triggers : fits(s.triggers[i])})
                 + Cardinality({i \in DOMAIN s.tags :
                       fits(s.tags[i]) /\ \A j \in DOMAIN s.triggers : s.triggers[j] # s.tags[i]})
    IN  [skill |-> s.name, score |-> score, confidence |-> ConfidenceFor(score), source |-> s.source]

\* A stable sort by score, the highest first: the place of hit i is i's rank.
Rank(hits, i) ==
    Cardinality({j \in DOMAIN hits :
        hits[j].score > hits[i].score \/ (hits[j].score = hits[i].score /\ j <= i)})
ByScore(hits) == [r \in DOMAIN hits |-> hits[CHOOSE i \in DOMAIN hits : Rank(hits, i) = r]]

Suggest(p, limit) ==
    LET scored == [i \in DOMAIN skills |-> Scored(skills[i], p)]
        sorted == ByScore(ElementsAt(scored, {i \in DOMAIN scored : scored[i].score > 0}))
        guides == {i \in DOMAIN skills : skills[i].name = NudgeSkill}
        guide == skills[CHOOSE i \in guides : \A j \in guides : i <= j]
        nudge == IF /\ CodewordHit(ToLower(p)) /\ guides # {}
                    /\ \A i \in DOMAIN sorted : sorted[i].skill # NudgeSkill
                 THEN <<[skill |-> NudgeSkill, score |-> 1, confidence |-> "low", source |-> guide.source]>>
                 ELSE <<>>
        all == sorted \o nudge
    IN  SubSeq(all, 1, IF limit < Len(all) THEN limit ELSE Len(all))

-----------------------------------------------------------------------------
HookInit ==
    /\ given \in HookInputs
    /\ stage = "start" /\ prompt = <<>> /\ dirs = <<>> /\ skills = <<>> /\ context = <<>>

\* A flag wins over the payload; a payload that is not there, is empty or does
\* not parse counts as none.
OneOf(S) == CHOOSE x \in S : TRUE
FlagFirst(cli, stdin, default) == OneOf(IF cli # {} THEN cli ELSE IF stdin # {} THEN stdin ELSE {default})
ReadInput ==
    /\ stage = "start"
    /\ prompt' = FlagFirst(given.cli, given.stdin, <<>>) /\ stage' = "ask"
    /\ UNCHANGED <<given, dirs, skills, context>>

\* The supervisor's text, which may be empty, or nothing on an error, an answer
\* of another kind or no answer.  A prompt without a word gets no hint.
Ask(blocks) ==
    /\ stage = "ask"
    /\ context' = blocks
    /\ IF given.hint /\ prompt # <<>>
       THEN stage' = "load" /\ dirs' = CandidateDirs(given.roots)
       ELSE stage' = "nag" /\ UNCHANGED dirs
    /\ UNCHANGED <<given, prompt, skills>>

\* load_skills, one entry of the first directory left: of two skills with one
\* name the first is kept.
LoadEntry_KeepsBoth(e) ==
    /\ stage = "load" /\ dirs # <<>> /\ e \in dirs[1]
    /\ skills' = IF ParseSkillFile(e) = {} THEN skills ELSE Append(skills, OneOf(ParseSkillFile(e)))
    /\ dirs' = [dirs EXCEPT ![1] = @ \ {e}]
    /\ UNCHANGED <<stage, given, prompt, context>>

LoadEntry(e) ==
    /\ stage = "load" /\ dirs # <<>> /\ e \in dirs[1]
    /\ LET new == {s \in ParseSkillFile(e) : \A i \in DOMAIN skills : skills[i].name # s.name}
       IN  skills' = IF new = {} THEN skills ELSE Append(skills, OneOf(new))
    /\ dirs' = [dirs EXCEPT ![1] = @ \ {e}]
    /\ UNCHANGED <<stage, given, prompt, context>>

NextDir ==
    /\ stage = "load" /\ dirs # <<>> /\ dirs[1] = {}
    /\ dirs' = Tail(dirs)
    /\ UNCHANGED <<stage, given, prompt, skills, context>>

\* The block names the best suggestion, unless its confidence is low.
HintAt ==
    /\ stage = "load" /\ dirs = <<>>
    /\ LET hits == Suggest(prompt, 1)
       IN  context' = IF hits = <<>> THEN context
                      ELSE IF hits[1].confidence = "low" THEN context
                      ELSE Append(context, [block |-> "skill", hit |-> hits[1]])
    /\ stage' = "nag"
    /\ UNCHANGED <<given, prompt, dirs, skills>>

WarnAfter(config) == IF config <= 0 THEN StaleAfter ELSE config
Nag ==
    /\ stage = "nag"
    /\ context' = IF given.age <= WarnAfter(given.config) THEN context ELSE Append(context, [block |-> "stale"])
    /\ stage' = "emit"
    /\ UNCHANGED <<given, prompt, dirs, skills>>

\* The hook prints and exits with 0.
Emit == stage = "emit" /\ stage' = "done" /\ UNCHANGED <<given, prompt, dirs, skills, context>>

HookNext ==
    \/ ReadInput
    \/ \E blocks \in {<<>>, <<[block |-> "bundle"]>>} : Ask(blocks)
    \/ \E e \in (IF dirs = <<>> THEN {} ELSE dirs[1]) : LoadEntry(e)
    \/ NextDir
    \/ HintAt
    \/ Nag
    \/ Emit

HookSpec == HookInit /\ [][HookNext]_hookVars
-----------------------------------------------------------------------------
\* What a file says, read as a whole.  The texts of a key are those on its last
\* line, or in the block below it: the items before the first line at the margin
\* and before the first text that follows an item.
InBlock(front, p, q) ==
    /\ q > p /\ \A r \in p + 1 .. q : front[r].kind \in {"item", "text", "blank"}
    /\ ~\E r, t \in p + 1 .. q : r < t /\ front[r].kind = "item" /\ front[t].kind = "text"

LineTexts(lines) == [i \in DOMAIN lines |-> lines[i].words[1].text]
WrittenTexts(front, key) ==
    LET keys == {p \in DOMAIN front : front[p].kind = "key" /\ front[p].key = key}
        p == CHOOSE x \in keys : \A y \in keys : y <= x
        taken(kind) == {q \in DOMAIN front : InBlock(front, p, q) /\ front[q].kind = kind}
    IN  CASE keys = {} -> <<>>
          [] keys # {} /\ front[p].form = "scalar" -> <<front[p].words[1].text>>
          [] keys # {} /\ front[p].form = "inline" ->
                NonEmpty([i \in DOMAIN front[p].words |-> front[p].words[i].text])
          [] keys # {} /\ front[p].form = "open" /\ taken("item") # {} -> LineTexts(ElementsAt(front, taken("item")))
          [] OTHER -> <<FlattenSeq(LineTexts(ElementsAt(front, taken("text"))))>>

TextsIn(e, key) == WrittenTexts(OneOf(SliceFrontmatter(e.lines)), key)
NameIn(e) == FlattenSeq(TextsIn(e, "name"))
CountsAsSkill(e) ==
    IsSkillFile(e) /\ e.readable /\ SliceFrontmatter(e.lines) # {} /\ NameIn(e) # <<>>

\* Two for every trigger that fits the prompt, one for every tag that fits and is
\* no trigger.
Worth(e) ==
    LET triggers == LowerAll(TextsIn(e, "triggers"))
        tags == LowerAll(TextsIn(e, "tags"))
        fits(t) == TriggerMatches(t, ToLower(prompt), Tokenize(prompt))
    IN  2 * Cardinality({i \in DOMAIN triggers : fits(triggers[i])})
        + Cardinality({i \in DOMAIN tags : fits(tags[i]) /\ \A j \in DOMAIN triggers : triggers[j] # tags[i]})

\* An entry no earlier directory overrides, and the only one of its name in its own.
Overridden(e, i) ==
    \E j \in 1 .. i - 1 : \E d \in given.roots[j].entries : CountsAsSkill(d) /\ NameIn(d) = NameIn(e)
Offered(e) ==
    \E i \in DOMAIN given.roots :
        /\ e \in given.roots[i].entries /\ CountsAsSkill(e) /\ ~Overridden(e, i)
SoleOffer(e) ==
    Offered(e) /\ \A i \in DOMAIN given.roots : \A d \in given.roots[i].entries :
                      CountsAsSkill(d) /\ NameIn(d) = NameIn(e) => d = e \/ ~Offered(d)

\* The hook prescribes the skill that fits the prompt best by what the files say
\* (suggest), an installed skill hides one of the same name further down the list
\* of directories (load_skills), and a prompt that fits a skill gets a
\* prescription unless none is wanted.
PrescribesTheBest ==
    stage = "done" =>
        LET shown == {i \in DOMAIN context : context[i].block = "skill"}
            others == {e \in UNION {given.roots[i].entries : i \in DOMAIN given.roots} : SoleOffer(e)}
        IN  /\ \A i \in shown :
                 LET e == context[i].hit.source
                 IN  /\ given.hint /\ Offered(e) /\ Worth(e) > 0
                     /\ \A d \in others : NameIn(d) = NameIn(e) \/ Worth(d) <= Worth(e)
            /\ shown = {} /\ given.hint => \A d \in others : Worth(d) = 0
=============================================================================
