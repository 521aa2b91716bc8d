----------------------------- MODULE TopicMatch -----------------------------
(***************************************************************************)
(* Topic patterns of the livebus (bus.rs).  A topic is the sequence of its *)
(* dot-separated segments; split never returns the empty sequence, and the *)
(* empty topic is one empty segment.  The state grows one pattern and one  *)
(* topic, so that TLC meets every pair up to MaxSegments segments.         *)
(***************************************************************************)
EXTENDS Naturals, Sequences

CONSTANTS
    Segments,       \* non-empty segments that occur, "*" and "#" among them
    MaxSegments     \* bound on the length of a topic or a pattern

ASSUME TopicAssumption ==
    /\ {"*", "#"} \subseteq Segments /\ "" \notin Segments
    /\ MaxSegments \in Nat \ {0}

\* validate_topic: no segment is empty (spaces and control characters, which it
\* also rejects, are not in Segments).
ValidTopic(t) == \A i \in 1 .. Len(t) : t[i] # ""

\* zip stops at the end of the shorter one.
ZipAgrees(ps, t) ==
    \A i \in 1 .. Len(ps) : i <= Len(t) => ps[i] = "*" \/ ps[i] = t[i]

TopicMatches_Optional(pat, t) ==
    LET n == Len(pat)
    IN \/ pat[n] = "#" /\ n >= 2 /\ Len(t) >= n - 1 /\ ZipAgrees(SubSeq(pat, 1, n - 1), t)
       \/ pat[n] = "#" /\ n = 1 /\ t # <<"">>
       \/ pat[n] # "#" /\ Len(t) = n /\ ZipAgrees(pat, t)

\* A trailing # takes at least one segment; a bare # everything but the empty
\* topic; otherwise segment by segment.
TopicMatches(pat, t) ==
    LET n == Len(pat)
    IN \/ pat[n] = "#" /\ n >= 2 /\ Len(t) >= n /\ ZipAgrees(SubSeq(pat, 1, n - 1), t)
       \/ pat[n] = "#" /\ n = 1 /\ t # <<"">>
       \/ pat[n] # "#" /\ Len(t) = n /\ ZipAgrees(pat, t)

VARIABLES pattern, topic

vars == <<pattern, topic>>

\* register and update_patterns validate patterns; nobody validates the topic
\* of an event that arrives over IPC.
TopicSegments == Segments \cup {""}

Init == \E p \in Segments, t \in TopicSegments : pattern = <<p>> /\ topic = <<t>>

LongerPattern(s) ==
    Len(pattern) < MaxSegments /\ pattern' = Append(pattern, s) /\ UNCHANGED topic
LongerTopic(s) ==
    Len(topic) < MaxSegments /\ topic' = Append(topic, s) /\ UNCHANGED pattern

Next ==
    \/ \E s \in Segments : LongerPattern(s)
    \/ \E s \in TopicSegments : LongerTopic(s)

Spec == Init /\ [][Next]_vars

-----------------------------------------------------------------------------
(* What the module comment of bus.rs promises: * stands for exactly one    *)
(* segment, a # at the end for one or more, anything else for itself.      *)

\* Position i of the pattern accepts segment i of the topic; a trailing # at
\* position n accepts every position from n on.
Accepts(pat, t) ==
    LET n == Len(pat)
        hash == pat[n] = "#"
    IN /\ IF hash THEN Len(t) >= n ELSE Len(t) = n
       /\ \A i \in 1 .. Len(t) :
            \/ hash /\ i >= n
            \/ pat[i] \in {"*", t[i]}

\* topic_matches decides the documented language on every valid topic, with
\* wildcards in any position of the pattern.
MatchIsDocumented ==
    ValidTopic(topic) => (TopicMatches(pattern, topic) <=> Accepts(pattern, topic))
=============================================================================
