--------------------------- MODULE WorkersProofs ---------------------------
(***************************************************************************)
(* TLAPS proofs about what MCWorkers runs: the parsers' leases and the     *)
(* answers of the parse process, for any number of tasks and of parsers    *)
(* per language, the way of every job through the scan process, the index  *)
(* file of the brain, for any nodes, texts, jobs and kills, the rows a     *)
(* store's lifecycle commands may move but never lose, and the edit handed *)
(* to the incremental parser, for texts of any length.                     *)
(***************************************************************************)
EXTENDS ParseWorker, ScanWorker, BrainWorker, StoreLifecycle, InputEdit,
        FiniteSetTheorems, SequenceTheorems, WellFoundedInduction, TLAPS

-----------------------------------------------------------------------------
(* Counting: the places of a job in the channels, the jobs in the inboxes. *)

\* Two finite sets between which there is a one-to-one map are of one size.
LEMMA SameSize ==
    ASSUME NEW S, NEW T, IsFiniteSet(S), NEW f \in [S -> T],
           \A a, b \in S : f[a] = f[b] => a = b,
           \A t \in T : \E a \in S : f[a] = t
    PROVE  IsFiniteSet(T) /\ Cardinality(T) = Cardinality(S)
<1>1. f \in Bijection(S, T)
    BY DEF Bijection, Injection, Surjection, IsInjective
<1> QED
    BY <1>1, FS_Bijection DEF ExistsBijection

\* Two finite sets without a common element.
LEMMA SizeOfBoth ==
    ASSUME NEW S, NEW T, IsFiniteSet(S), IsFiniteSet(T), S \cap T = {}
    PROVE  IsFiniteSet(S \cup T) /\ Cardinality(S \cup T) = Cardinality(S) + Cardinality(T)
<1>1. Cardinality(S) \in Nat /\ Cardinality(T) \in Nat /\ Cardinality(S \cap T) = 0
    BY FS_CardinalityType, FS_EmptySet
<1>2. Cardinality(S \cup T) = Cardinality(S) + Cardinality(T) - Cardinality(S \cap T)
    BY FS_Union
<1>3. IsFiniteSet(S \cup T)
    BY FS_Union
<1> QED
    BY <1>1, <1>2, <1>3

\* The places in a sequence can be counted.
LEMMA PlacesCount ==
    ASSUME NEW S, NEW s \in Seq(S), NEW id
    PROVE  IsFiniteSet(PlacesIn(s, id)) /\ Cardinality(PlacesIn(s, id)) \in Nat
<1>1. IsFiniteSet(1 .. Len(s))
    BY FS_Interval
<1>2. PlacesIn(s, id) \in SUBSET (1 .. Len(s))
    BY DEF PlacesIn
<1> QED
    BY <1>1, <1>2, FS_Subset, FS_CardinalityType

\* An empty sequence has none.
LEMMA PlacesEmpty ==
    ASSUME NEW id PROVE Cardinality(PlacesIn(<<>>, id)) = 0
<1>1. PlacesIn(<<>>, id) = {}
    BY DEF PlacesIn
<1> QED
    BY <1>1, FS_EmptySet

\* One element more.
LEMMA PlacesAppend ==
    ASSUME NEW S, NEW s \in Seq(S), NEW e \in S, NEW id
    PROVE  Cardinality(PlacesIn(Append(s, e), id)) =
               Cardinality(PlacesIn(s, id)) + (IF e.id = id THEN 1 ELSE 0)
<1>1. IsFiniteSet(PlacesIn(s, id)) /\ Cardinality(PlacesIn(s, id)) \in Nat
    BY PlacesCount
<1>2. /\ DOMAIN Append(s, e) = 1 .. Len(s) + 1 /\ DOMAIN s = 1 .. Len(s) /\ Len(s) \in Nat
      /\ Append(s, e)[Len(s) + 1] = e /\ \A i \in 1 .. Len(s) : Append(s, e)[i] = s[i]
    OBVIOUS
<1>3. CASE e.id = id
  <2>1. PlacesIn(Append(s, e), id) = PlacesIn(s, id) \cup {Len(s) + 1} /\ Len(s) + 1 \notin PlacesIn(s, id)
      BY <1>2, <1>3 DEF PlacesIn
  <2>2. Cardinality(PlacesIn(s, id) \cup {Len(s) + 1}) = Cardinality(PlacesIn(s, id)) + 1
      BY <1>1, <2>1, FS_AddElement
  <2> QED
      BY <1>3, <2>1, <2>2
<1>4. CASE e.id # id
  <2>1. PlacesIn(Append(s, e), id) = PlacesIn(s, id)
      BY <1>2, <1>4 DEF PlacesIn
  <2> QED
      BY <1>1, <1>4, <2>1
<1> QED
    BY <1>3, <1>4

\* One sequence after another.
LEMMA PlacesConcat ==
    ASSUME NEW S, NEW s \in Seq(S), NEW t \in Seq(S), NEW id
    PROVE  Cardinality(PlacesIn(s \o t, id)) = Cardinality(PlacesIn(s, id)) + Cardinality(PlacesIn(t, id))
<1> DEFINE moved == {i \in Len(s) + 1 .. Len(s) + Len(t) : t[i - Len(s)].id = id}
           f == [i \in PlacesIn(t, id) |-> Len(s) + i]
<1>1. /\ Len(s) \in Nat /\ Len(t) \in Nat /\ DOMAIN s = 1 .. Len(s) /\ DOMAIN t = 1 .. Len(t)
      /\ DOMAIN (s \o t) = 1 .. Len(s) + Len(t)
      /\ \A i \in 1 .. Len(s) : (s \o t)[i] = s[i]
      /\ \A i \in Len(s) + 1 .. Len(s) + Len(t) : (s \o t)[i] = t[i - Len(s)]
    BY ConcatProperties
<1>2. /\ IsFiniteSet(PlacesIn(s, id)) /\ Cardinality(PlacesIn(s, id)) \in Nat
      /\ IsFiniteSet(PlacesIn(t, id)) /\ Cardinality(PlacesIn(t, id)) \in Nat
    BY PlacesCount
<1>3. PlacesIn(s \o t, id) = PlacesIn(s, id) \cup moved /\ PlacesIn(s, id) \cap moved = {}
    BY <1>1 DEF PlacesIn
<1>4. IsFiniteSet(moved) /\ Cardinality(moved) = Cardinality(PlacesIn(t, id))
  <2>1. f \in [PlacesIn(t, id) -> moved]
    <3> SUFFICES ASSUME NEW i \in PlacesIn(t, id) PROVE Len(s) + i \in moved
        OBVIOUS
    <3>1. i \in 1 .. Len(t) /\ t[i].id = id /\ Len(s) + i - Len(s) = i
        BY <1>1 DEF PlacesIn
    <3> QED
        BY <1>1, <3>1
  <2>2. \A a, b \in PlacesIn(t, id) : f[a] = f[b] => a = b
      BY <1>1 DEF PlacesIn
  <2>3. ASSUME NEW m \in moved PROVE \E a \in PlacesIn(t, id) : f[a] = m
    <3>1. m - Len(s) \in PlacesIn(t, id) /\ Len(s) + (m - Len(s)) = m
        BY <1>1 DEF PlacesIn
    <3> QED
        BY <3>1
  <2> HIDE DEF f, moved
  <2> QED
      BY <1>2, <2>1, <2>2, <2>3, SameSize
<1> HIDE DEF moved
<1> QED
    BY <1>2, <1>3, <1>4, SizeOfBoth

\* The first element taken away.
LEMMA PlacesTail ==
    ASSUME NEW S, NEW s \in Seq(S), s # <<>>, NEW id
    PROVE  Cardinality(PlacesIn(s, id)) =
               (IF Head(s).id = id THEN 1 ELSE 0) + Cardinality(PlacesIn(Tail(s), id))
<1>1. /\ Tail(s) \in Seq(S) /\ Head(s) \in S /\ <<Head(s)>> \in Seq(S) /\ s = <<Head(s)>> \o Tail(s)
    OBVIOUS
<1>2. Cardinality(PlacesIn(<<Head(s)>>, id)) = IF Head(s).id = id THEN 1 ELSE 0
  <2>1. CASE Head(s).id = id
    <3>1. PlacesIn(<<Head(s)>>, id) = {1}
        BY <2>1 DEF PlacesIn
    <3> QED
        BY <2>1, <3>1, FS_Singleton
  <2>2. CASE Head(s).id # id
    <3>1. PlacesIn(<<Head(s)>>, id) = {}
        BY <2>2 DEF PlacesIn
    <3> QED
        BY <2>2, <3>1, FS_EmptySet
  <2> QED
      BY <2>1, <2>2
<1>3. Cardinality(PlacesIn(<<Head(s)>> \o Tail(s), id)) =
          Cardinality(PlacesIn(<<Head(s)>>, id)) + Cardinality(PlacesIn(Tail(s), id))
  <2> DEFINE h == <<Head(s)>>
             t == Tail(s)
  <2>1. h \in Seq(S) /\ t \in Seq(S)
      BY <1>1
  <2> HIDE DEF h, t
  <2>2. Cardinality(PlacesIn(h \o t, id)) = Cardinality(PlacesIn(h, id)) + Cardinality(PlacesIn(t, id))
      BY <2>1, PlacesConcat
  <2> QED
      BY <2>2 DEF h, t
<1> QED
    BY <1>1, <1>2, <1>3

\* Pairs with one first component.
LEMMA TimesOne ==
    ASSUME NEW i, NEW S, IsFiniteSet(S)
    PROVE  IsFiniteSet({i} \X S) /\ Cardinality({i} \X S) = Cardinality(S)
<1> DEFINE f == [x \in S |-> <<i, x>>]
<1>1. f \in [S -> {i} \X S]
    OBVIOUS
<1>2. \A a, b \in S : f[a] = f[b] => a = b
    OBVIOUS
<1>3. \A p \in {i} \X S : \E a \in S : f[a] = p
    OBVIOUS
<1> HIDE DEF f
<1> QED
    BY <1>1, <1>2, <1>3, SameSize

\* Finitely many families of pairs.
LEMMA PairsFinite ==
    ASSUME NEW I, IsFiniteSet(I), NEW F, \A i \in I : IsFiniteSet(F[i])
    PROVE  IsFiniteSet(UNION {{i} \X F[i] : i \in I})
<1> DEFINE all == {{i} \X F[i] : i \in I}
           f == [i \in I |-> {i} \X F[i]]
<1>1. f \in Surjection(I, all)
    BY DEF Surjection
<1>2. IsFiniteSet(all)
  <2> HIDE DEF f, all
  <2> QED
      BY <1>1, FS_Surjection
<1>3. ASSUME NEW i \in I PROVE IsFiniteSet({i} \X F[i])
  <2>1. IsFiniteSet(F[i])
      OBVIOUS
  <2> QED
      BY <2>1, TimesOne
<1>4. \A p \in all : IsFiniteSet(p)
    BY <1>3
<1>5. IsFiniteSet(UNION all)
  <2> HIDE DEF all
  <2> QED
      BY <1>2, <1>4, FS_UNION
<1> QED
    BY <1>5

\* The places in a sequence of sequences can be counted.
LEMMA AllPlacesCount ==
    ASSUME NEW S, NEW bs \in Seq(Seq(S)), NEW id
    PROVE  IsFiniteSet(PlacesInAll(bs, id)) /\ Cardinality(PlacesInAll(bs, id)) \in Nat
<1> DEFINE F == [i \in DOMAIN bs |-> PlacesIn(bs[i], id)]
<1>1. IsFiniteSet(DOMAIN bs)
    BY FS_Interval
<1>2. \A i \in DOMAIN bs : IsFiniteSet(F[i])
    BY PlacesCount
<1>3. PlacesInAll(bs, id) = UNION {{i} \X F[i] : i \in DOMAIN bs}
    BY DEF PlacesInAll
<1> HIDE DEF F
<1> QED
    BY <1>1, <1>2, <1>3, PairsFinite, FS_CardinalityType

\* No sequence has none.
LEMMA AllPlacesEmpty ==
    ASSUME NEW id PROVE Cardinality(PlacesInAll(<<>>, id)) = 0
<1>1. PlacesInAll(<<>>, id) = {}
    BY DEF PlacesInAll
<1> QED
    BY <1>1, FS_EmptySet

\* One sequence more.
LEMMA AllPlacesAppend ==
    ASSUME NEW S, NEW bs \in Seq(Seq(S)), NEW b \in Seq(S), NEW id
    PROVE  Cardinality(PlacesInAll(Append(bs, b), id)) =
               Cardinality(PlacesInAll(bs, id)) + Cardinality(PlacesIn(b, id))
<1> DEFINE last == {Len(bs) + 1} \X PlacesIn(b, id)
<1>1. /\ DOMAIN Append(bs, b) = (1 .. Len(bs)) \cup {Len(bs) + 1} /\ DOMAIN bs = 1 .. Len(bs)
      /\ Len(bs) \in Nat /\ Append(bs, b)[Len(bs) + 1] = b
      /\ \A i \in 1 .. Len(bs) : Append(bs, b)[i] = bs[i]
    OBVIOUS
<1>2. Len(bs) + 1 \notin 1 .. Len(bs)
    BY <1>1
<1>3. PlacesInAll(Append(bs, b), id) = PlacesInAll(bs, id) \cup last
    BY <1>1 DEF PlacesInAll
<1>4. PlacesInAll(bs, id) \cap last = {}
    BY <1>1, <1>2 DEF PlacesInAll
<1>5. IsFiniteSet(last) /\ Cardinality(last) = Cardinality(PlacesIn(b, id))
    BY PlacesCount, TimesOne
<1> HIDE DEF last
<1> QED
    BY <1>3, <1>4, <1>5, AllPlacesCount, SizeOfBoth

\* The first sequence taken away.
LEMMA AllPlacesTail ==
    ASSUME NEW S, NEW bs \in Seq(Seq(S)), bs # <<>>, NEW id
    PROVE  Cardinality(PlacesInAll(bs, id)) =
               Cardinality(PlacesIn(Head(bs), id)) + Cardinality(PlacesInAll(Tail(bs), id))
<1> DEFINE first == {1} \X PlacesIn(Head(bs), id)
           rest == UNION {{i} \X PlacesIn(bs[i], id) : i \in 2 .. Len(bs)}
           f == [p \in PlacesInAll(Tail(bs), id) |-> <<p[1] + 1, p[2]>>]
<1>1. /\ Tail(bs) \in Seq(Seq(S)) /\ Head(bs) \in Seq(S) /\ Len(bs) \in Nat /\ Len(bs) >= 1
      /\ DOMAIN bs = 1 .. Len(bs) /\ Head(bs) = bs[1]
      /\ DOMAIN Tail(bs) = 1 .. Len(bs) - 1 /\ \A i \in 1 .. Len(bs) - 1 : Tail(bs)[i] = bs[i + 1]
    OBVIOUS
<1>2. 1 .. Len(bs) = {1} \cup (2 .. Len(bs)) /\ 1 \notin 2 .. Len(bs)
    BY <1>1
<1>3. PlacesInAll(bs, id) = first \cup rest
    BY <1>1, <1>2 DEF PlacesInAll
<1>4. first \cap rest = {}
    BY <1>2
<1>5. IsFiniteSet(first) /\ Cardinality(first) = Cardinality(PlacesIn(Head(bs), id))
    BY <1>1, PlacesCount, TimesOne
<1>6. IsFiniteSet(rest) /\ Cardinality(rest) = Cardinality(PlacesInAll(Tail(bs), id))
  <2>1. \A x, y : <<x, y>> \in PlacesInAll(Tail(bs), id) <=>
            x \in 1 .. Len(bs) - 1 /\ y \in PlacesIn(bs[x + 1], id)
      BY <1>1 DEF PlacesInAll
  <2>2. \A p \in PlacesInAll(Tail(bs), id) : p = <<p[1], p[2]>>
      BY DEF PlacesInAll
  <2>3. \A x, y : <<x, y>> \in rest <=> x \in 2 .. Len(bs) /\ y \in PlacesIn(bs[x], id)
      OBVIOUS
  <2>4. \A p \in rest : p = <<p[1], p[2]>>
      OBVIOUS
  <2> HIDE DEF rest
  <2>5. f \in [PlacesInAll(Tail(bs), id) -> rest]
    <3> SUFFICES ASSUME NEW p \in PlacesInAll(Tail(bs), id) PROVE <<p[1] + 1, p[2]>> \in rest
        OBVIOUS
    <3>1. p[1] \in 1 .. Len(bs) - 1 /\ p[2] \in PlacesIn(bs[p[1] + 1], id)
        BY <2>1, <2>2
    <3>2. p[1] + 1 \in 2 .. Len(bs)
        BY <1>1, <3>1
    <3> QED
        BY <2>3, <3>1, <3>2
  <2>6. ASSUME NEW p \in PlacesInAll(Tail(bs), id), NEW q \in PlacesInAll(Tail(bs), id), f[p] = f[q]
        PROVE  p = q
    <3>1. p[1] \in Int /\ q[1] \in Int /\ p[1] + 1 = q[1] + 1 /\ p[2] = q[2]
        BY <1>1, <2>1, <2>2, <2>6
    <3>2. p[1] = q[1]
        BY <3>1
    <3> QED
        BY <2>2, <3>1, <3>2
  <2>7. ASSUME NEW q \in rest PROVE \E p \in PlacesInAll(Tail(bs), id) : f[p] = q
    <3>1. q[1] \in 2 .. Len(bs) /\ q[2] \in PlacesIn(bs[q[1]], id)
        BY <2>3, <2>4
    <3>2. q[1] - 1 \in 1 .. Len(bs) - 1 /\ (q[1] - 1) + 1 = q[1]
        BY <1>1, <3>1
    <3>3. <<q[1] - 1, q[2]>> \in PlacesInAll(Tail(bs), id)
        BY <2>1, <3>1, <3>2
    <3> QED
        BY <2>4, <3>2, <3>3
  <2>8. IsFiniteSet(PlacesInAll(Tail(bs), id))
      BY <1>1, AllPlacesCount
  <2> HIDE DEF f
  <2> QED
      BY <2>5, <2>6, <2>7, <2>8, SameSize
<1>7. IsFiniteSet(first \cup rest) /\ Cardinality(first \cup rest) = Cardinality(first) + Cardinality(rest)
  <2> HIDE DEF first, rest
  <2> QED
      BY <1>4, <1>5, <1>6, SizeOfBoth
<1> HIDE DEF first, rest
<1> QED
    BY <1>3, <1>5, <1>6, <1>7

-----------------------------------------------------------------------------
(* ParseWorker: a permit finds a parser. *)

\* Counting tasks.
LEMMA CountTasks ==
    ASSUME NEW S \in SUBSET TaskIds, NEW T \in SUBSET TaskIds, NEW w
    PROVE  /\ Cardinality(S) \in Nat /\ Cardinality(T) \in Nat
           /\ T \subseteq S => Cardinality(T) <= Cardinality(S)
           /\ w \notin S /\ T = S \cup {w} => Cardinality(T) = Cardinality(S) + 1
           /\ w \in S /\ T = S \ {w} => Cardinality(T) = Cardinality(S) - 1
           /\ w \in S /\ T \subseteq S \ {w} => Cardinality(T) <= Cardinality(S) - 1
<1>1. IsFiniteSet(S) /\ IsFiniteSet(T)
  <2>1. ParseWorkers - 1 \in Int
      BY ParseAssumption
  <2>2. IsFiniteSet(TaskIds)
      BY <2>1, FS_Interval DEF TaskIds
  <2> QED
      BY <2>2, FS_Subset
<1>2. Cardinality(S) \in Nat /\ Cardinality(T) \in Nat
    BY <1>1, FS_CardinalityType
<1>3. T \subseteq S => Cardinality(T) <= Cardinality(S)
    BY <1>1, FS_Subset
<1>4. w \notin S /\ T = S \cup {w} => Cardinality(T) = Cardinality(S) + 1
    BY <1>1, FS_AddElement
<1>5. IsFiniteSet(S \ {w}) /\ (w \in S => Cardinality(S \ {w}) = Cardinality(S) - 1)
    BY <1>1, FS_RemoveElement
<1>6. w \in S /\ T \subseteq S \ {w} => Cardinality(T) <= Cardinality(S) - 1
    BY <1>5, FS_Subset
<1> QED
    BY <1>2, <1>3, <1>4, <1>5, <1>6

\* Sets of tasks by place.
LEMMA FromSlotType == \A k : FromSlot(k) \in SUBSET TaskIds /\ FromSlot(k)' \in SUBSET TaskIds
    BY DEF FromSlot

\* No task has a permit at the start.
LEMMA LeaseInit == ParseInit => LeaseInv
<1> SUFFICES ASSUME ParseInit PROVE LeaseInv
    OBVIOUS
<1>1. ParserSlots \in Nat /\ ParserSlots >= 1 /\ ParseWorkers \in Nat
    BY ParseAssumption
<1>2. Idle \in ParseTask /\ Idle.pc = "recv"
  <2>1. NoJob \in ParseJob
      BY DEF NoJob, ParseJob
  <2>2. Failed(NoJob) \in ParseResult
      BY <2>1 DEF Failed, ParseResult
  <2> QED
      BY <1>1, <2>1, <2>2 DEF Idle, ParseTask
<1>3. \A w \in TaskIds : task[w] = Idle
    BY DEF ParseInit
<1>4. LeaseTypeOK
    BY <1>1, <1>2 DEF ParseInit, LeaseTypeOK, Free
<1>5. \A k : FromSlot(k) = {}
    BY <1>2, <1>3 DEF FromSlot, HasPermit
<1>6. \A k : Cardinality(FromSlot(k)) = 0
    BY <1>5, FS_EmptySet
<1>7. \A i \in 1 .. ParserSlots : slot[i] = Free
    BY DEF ParseInit
<1>8. permits = ParserSlots
    BY DEF ParseInit
<1> QED
    BY <1>1, <1>2, <1>3, <1>4, <1>6, <1>7, <1>8 DEF LeaseInv, PermitFindsSlot, HasPermit

\* A step that gives or takes no permit and moves no task along the slots.
LEMMA LeaseFrame ==
    ASSUME LeaseInv, LeaseTypeOK', permits' = permits, slot' = slot, PermitFindsSlot',
           \A w \in TaskIds :
                /\ HasPermit(w)' <=> HasPermit(w)
                /\ HasPermit(w) => task'[w].at = task[w].at
                /\ task[w].pc \in {"parse", "unlock"} => task'[w].pc \in {"parse", "unlock"}
    PROVE  LeaseInv'
<1>1. \A k : FromSlot(k)' = FromSlot(k)
    BY DEF FromSlot
<1>2. \A k \in 1 .. ParserSlots : Cardinality(FromSlot(k)') <= ParserSlots - k + 1
    BY <1>1 DEF LeaseInv
<1>3. permits' + Cardinality(FromSlot(1)') = ParserSlots
    BY <1>1 DEF LeaseInv
<1>4. \A w \in TaskIds : HasPermit(w)' => task'[w].at >= 1
    BY DEF LeaseInv
<1>5. ASSUME NEW i \in 1 .. ParserSlots, slot'[i] # Free
      PROVE  task'[slot'[i]].pc \in {"parse", "unlock"} /\ task'[slot'[i]].at = i
  <2>1. slot[i] \in TaskIds /\ task[slot[i]].pc \in {"parse", "unlock"} /\ task[slot[i]].at = i
      BY <1>5 DEF LeaseInv, LeaseTypeOK
  <2> QED
      BY <2>1 DEF HasPermit
<1> QED
    BY <1>2, <1>3, <1>4, <1>5 DEF LeaseInv, Free

\* What a task's fields hold.
LEMMA ParseTaskFields ==
    ASSUME LeaseInv, NEW w \in TaskIds
    PROVE  /\ task[w] \in ParseTask /\ task[w].job \in ParseJob /\ task[w].res \in ParseResult
           /\ task[w].at \in 0 .. ParserSlots /\ task \in [TaskIds -> ParseTask]
           /\ ParserSlots \in Nat /\ ParserSlots >= 1
           /\ HasPermit(w) => task[w].at \in 1 .. ParserSlots
    BY ParseAssumption DEF LeaseInv, LeaseTypeOK, ParseTask

\* A step of a task from a place without permit to one without, or from a place
\* with the lease to another.
LEMMA TaskTurns ==
    ASSUME LeaseInv, NEW w \in TaskIds, NEW next \in ParseTask, task' = [task EXCEPT ![w] = next],
           inbox' \in [TaskIds -> Seq(ParseJob)], UNCHANGED <<nextWorker, permits, slot>>,
           \/ ~HasPermit(w) /\ next.pc \in {"recv", "permit", "send", "ended"}
           \/ /\ task[w].pc = "parse" /\ next.pc = "unlock" /\ next.at = task[w].at
    PROVE  LeaseInv'
<1>1. task' \in [TaskIds -> ParseTask] /\ task'[w] = next
      /\ \A v \in TaskIds : v # w => task'[v] = task[v]
    BY DEF LeaseInv, LeaseTypeOK
<1>2. LeaseTypeOK'
    BY <1>1 DEF LeaseInv, LeaseTypeOK, Free
<1>3. PermitFindsSlot'
    BY <1>1 DEF LeaseInv, PermitFindsSlot
<1>4. \A v \in TaskIds :
        /\ HasPermit(v)' <=> HasPermit(v)
        /\ HasPermit(v) => task'[v].at = task[v].at
        /\ task[v].pc \in {"parse", "unlock"} => task'[v].pc \in {"parse", "unlock"}
    BY <1>1 DEF HasPermit
<1> QED
    BY <1>2, <1>3, <1>4, LeaseFrame

\* A task takes the front job of its channel; a hit in the cache or a missing
\* grammar needs no parser.
LEMMA TakeKeepsLeases ==
    ASSUME LeaseInv, NEW w \in TaskIds, TakeJob(w)
    PROVE  LeaseInv'
<1>1. inbox \in [TaskIds -> Seq(ParseJob)] /\ inbox[w] \in Seq(ParseJob) /\ inbox[w] # <<>>
    BY DEF LeaseInv, LeaseTypeOK, TakeJob
<1>2. PICK j \in ParseJob : j = Head(inbox[w])
    BY <1>1
<1>3. Tail(inbox[w]) \in Seq(ParseJob)
    BY <1>1
<1>4. inbox' \in [TaskIds -> Seq(ParseJob)]
    BY <1>1, <1>3 DEF TakeJob
<1> DEFINE at == [Idle EXCEPT !.job = j]
           next == IF CachedTree(j.file) = j.ver THEN [at EXCEPT !.pc = "send", !.res = Unchanged(j)]
                   ELSE IF j.file \in NoGrammar THEN [at EXCEPT !.pc = "send", !.res = Failed(j)]
                   ELSE [at EXCEPT !.pc = "permit"]
<1>5. task[w].pc = "recv" /\ task' = [task EXCEPT ![w] = next]
      /\ UNCHANGED <<nextWorker, permits, slot>>
    BY <1>2 DEF TakeJob
<1>6. next \in ParseTask /\ next.pc \in {"permit", "send"}
  <2>1. Unchanged(j) \in ParseResult /\ Failed(j) \in ParseResult
      BY <1>2 DEF Unchanged, Failed, ParseResult, ParseJob
  <2>2. at \in ParseTask
    <3>1. NoJob \in ParseJob
        BY DEF NoJob, ParseJob
    <3>2. Failed(NoJob) \in ParseResult
        BY <3>1 DEF Failed, ParseResult
    <3>3. 0 \in 0 .. ParserSlots
        BY ParseAssumption
    <3> QED
        BY <1>2, <3>1, <3>2, <3>3 DEF Idle, ParseTask
  <2> HIDE DEF at
  <2> QED
      BY <2>1, <2>2 DEF ParseTask
<1> HIDE DEF next
<1>7. ~HasPermit(w)
    BY <1>5 DEF HasPermit
<1> QED
    BY <1>4, <1>5, <1>6, <1>7, TaskTurns

\* The other steps of a task that leave permits and slots alone.
LEMMA TurnsKeepLeases ==
    ASSUME LeaseInv, NEW w \in TaskIds, Parse(w) \/ SendResult(w) \/ EndTask(w)
    PROVE  LeaseInv'
<1>t. /\ task[w] \in ParseTask /\ task[w].job \in ParseJob /\ task[w].res \in ParseResult
      /\ task \in [TaskIds -> ParseTask] /\ inbox \in [TaskIds -> Seq(ParseJob)]
      /\ 0 \in 0 .. ParserSlots
    BY ParseTaskFields DEF LeaseInv, LeaseTypeOK
<1>i. Idle \in ParseTask /\ Idle.pc = "recv"
  <2>1. NoJob \in ParseJob
      BY DEF NoJob, ParseJob
  <2>2. Failed(NoJob) \in ParseResult
      BY <2>1 DEF Failed, ParseResult
  <2> QED
      BY <1>t, <2>1, <2>2 DEF Idle, ParseTask
<1>1. CASE Parse(w)
  <2>1. PICK r \in {Graph(task[w].job), Failed(task[w].job)} :
            /\ task[w].pc = "parse"
            /\ task' = [task EXCEPT ![w].pc = "unlock", ![w].res = r]
            /\ UNCHANGED <<nextWorker, inbox, permits, slot>>
      BY <1>1 DEF Parse
  <2>2. r \in ParseResult
      BY <1>t DEF Graph, Failed, ParseResult, ParseJob
  <2> DEFINE next == [task[w] EXCEPT !.pc = "unlock", !.res = r]
  <2>3. next \in ParseTask /\ next.pc = "unlock" /\ next.at = task[w].at
      BY <1>t, <2>2 DEF ParseTask
  <2>4. task' = [task EXCEPT ![w] = next]
      BY <1>t, <2>1
  <2> HIDE DEF next
  <2> QED
      BY <1>t, <2>1, <2>3, <2>4, TaskTurns
<1>2. CASE SendResult(w)
  <2>1. task[w].pc = "send" /\ ~HasPermit(w) /\ UNCHANGED <<nextWorker, permits, slot>>
      BY <1>2 DEF SendResult, HasPermit
  <2>2. inbox' \in [TaskIds -> Seq(ParseJob)]
    <3>1. <<>> \in Seq(ParseJob)
        OBVIOUS
    <3> QED
        BY <1>2, <1>t, <3>1 DEF SendResult
  <2>3. PICK next \in {Idle, [Idle EXCEPT !.pc = "ended"]} : task' = [task EXCEPT ![w] = next]
      BY <1>2 DEF SendResult
  <2>4. next \in ParseTask /\ next.pc \in {"recv", "ended"}
    <3>1. LET n == [Idle EXCEPT !.pc = "ended"] IN n \in ParseTask /\ n.pc = "ended"
        BY <1>i DEF ParseTask
    <3> QED
        BY <1>i, <3>1
  <2> QED
      BY <2>1, <2>2, <2>3, <2>4, TaskTurns
<1>3. CASE EndTask(w)
  <2>1. /\ task[w].pc = "recv" /\ task' = [task EXCEPT ![w].pc = "ended"]
        /\ UNCHANGED <<nextWorker, inbox, permits, slot>> /\ ~HasPermit(w)
      BY <1>3 DEF EndTask, Goto, HasPermit
  <2> DEFINE next == [task[w] EXCEPT !.pc = "ended"]
  <2>2. next \in ParseTask /\ next.pc = "ended"
      BY <1>t DEF ParseTask
  <2>3. task' = [task EXCEPT ![w] = next]
      BY <1>t, <2>1
  <2> HIDE DEF next
  <2> QED
      BY <1>t, <2>1, <2>2, <2>3, TaskTurns
<1> QED
    BY <1>1, <1>2, <1>3

\* A permit is taken: the task starts at the first slot.
LEMMA PermitKeepsLeases ==
    ASSUME LeaseInv, NEW w \in TaskIds, AcquirePermit(w)
    PROVE  LeaseInv'
<1>t. /\ task[w] \in ParseTask /\ task \in [TaskIds -> ParseTask]
      /\ ParserSlots \in Nat /\ ParserSlots >= 1 /\ LeaseTypeOK
    BY ParseTaskFields DEF LeaseInv
<1>1. /\ task[w].pc = "permit" /\ permits > 0 /\ permits' = permits - 1
      /\ task' = [task EXCEPT ![w].pc = "scan", ![w].at = 1]
      /\ UNCHANGED <<nextWorker, inbox, slot>>
    BY DEF AcquirePermit
<1> DEFINE next == [task[w] EXCEPT !.pc = "scan", !.at = 1]
<1>2. next \in ParseTask /\ next.pc = "scan" /\ next.at = 1
  <2>1. 1 \in 0 .. ParserSlots
      BY <1>t
  <2>2. task[w] \in ParseTask
      BY <1>t
  <2> QED
      BY <2>1, <2>2 DEF ParseTask
<1>3. task' = [task EXCEPT ![w] = next]
    BY <1>t, <1>1
<1> HIDE DEF next
<1>4. task' \in [TaskIds -> ParseTask] /\ task'[w] = next
      /\ \A v \in TaskIds : v # w => task'[v] = task[v]
    BY <1>2, <1>3, <1>t
<1>5. ~HasPermit(w) /\ HasPermit(w)'
    BY <1>1, <1>2, <1>4 DEF HasPermit
<1>6. FromSlot(1)' = FromSlot(1) \cup {w} /\ w \notin FromSlot(1)
    BY <1>2, <1>4, <1>5 DEF FromSlot, HasPermit
<1>7. \A k \in 2 .. ParserSlots : FromSlot(k)' = FromSlot(k)
    BY <1>2, <1>4, <1>5, <1>t DEF FromSlot, HasPermit
<1>8. Cardinality(FromSlot(1)') = Cardinality(FromSlot(1)) + 1 /\ Cardinality(FromSlot(1)) \in Nat
    BY <1>6, CountTasks, FromSlotType
<1>9. permits' \in Nat /\ permits' + Cardinality(FromSlot(1)') = ParserSlots
  <2>1. permits \in Nat /\ permits + Cardinality(FromSlot(1)) = ParserSlots
      BY DEF LeaseInv, LeaseTypeOK
  <2>2. permits > 0 /\ permits' = permits - 1 /\ ParserSlots \in Nat
      BY <1>1, <1>t
  <2> QED
      BY <1>8, <2>1, <2>2
<1>10. \A k \in 1 .. ParserSlots : Cardinality(FromSlot(k)') <= ParserSlots - k + 1
  <2>1. Cardinality(FromSlot(1)') <= ParserSlots - 1 + 1
      BY <1>8, <1>9, <1>t
  <2>2. \A k \in 2 .. ParserSlots : Cardinality(FromSlot(k)') <= ParserSlots - k + 1
      BY <1>7, <1>t DEF LeaseInv
  <2> QED
      BY <2>1, <2>2, <1>t
<1>11. LeaseTypeOK'
    BY <1>1, <1>4, <1>9, <1>t DEF LeaseTypeOK, Free
<1>12. PermitFindsSlot' /\ \A v \in TaskIds : HasPermit(v)' => task'[v].at >= 1
    BY <1>2, <1>4 DEF LeaseInv, PermitFindsSlot, HasPermit
<1>13. ASSUME NEW i \in 1 .. ParserSlots, slot'[i] # Free
       PROVE  task'[slot'[i]].pc \in {"parse", "unlock"} /\ task'[slot'[i]].at = i
  <2>1. slot[i] \in TaskIds /\ task[slot[i]].pc \in {"parse", "unlock"} /\ task[slot[i]].at = i
      BY <1>1, <1>13, <1>t DEF LeaseInv, LeaseTypeOK
  <2> QED
      BY <1>1, <1>4, <2>1
<1> QED
    BY <1>9, <1>10, <1>11, <1>12, <1>13 DEF LeaseInv, Free

\* One try_lock: a free slot is locked; a locked one is passed, and the task that
\* holds it stays behind, so the last slot is never found locked.
LEMMA TryKeepsLeases ==
    ASSUME LeaseInv, NEW w \in TaskIds, TrySlot(w)
    PROVE  LeaseInv'
<1>t. /\ task[w] \in ParseTask /\ task \in [TaskIds -> ParseTask]
      /\ ParserSlots \in Nat /\ ParserSlots >= 1 /\ LeaseTypeOK /\ PermitFindsSlot
    BY ParseTaskFields DEF LeaseInv
<1>1. task[w].pc = "scan" /\ HasPermit(w)
    BY <1>t DEF TrySlot, PermitFindsSlot, HasPermit
<1>2. PICK i \in 1 .. ParserSlots : i = task[w].at
    BY <1>1, ParseTaskFields
<1>u. permits' = permits /\ nextWorker' = nextWorker /\ inbox' = inbox
    BY DEF TrySlot
<1>l. ASSUME NEW j \in 1 .. ParserSlots, slot[j] # Free
      PROVE  slot[j] \in TaskIds /\ slot[j] # w /\ task[slot[j]].pc \in {"parse", "unlock"}
             /\ task[slot[j]].at = j
    BY <1>l, <1>1, <1>t DEF LeaseInv, LeaseTypeOK
<1>n. ASSUME NEW pc \in {"scan", "parse"}, NEW at \in 1 .. ParserSlots,
             task' = [task EXCEPT ![w].pc = pc, ![w].at = at]
      PROVE  /\ task' \in [TaskIds -> ParseTask] /\ task'[w].pc = pc /\ task'[w].at = at
             /\ \A v \in TaskIds : v # w => task'[v] = task[v]
             /\ PermitFindsSlot' /\ \A v \in TaskIds : HasPermit(v)' => task'[v].at >= 1
  <2> DEFINE next == [task[w] EXCEPT !.pc = pc, !.at = at]
  <2>1. next \in ParseTask /\ next.pc = pc /\ next.at = at
    <3>1. at \in 0 .. ParserSlots
        BY <1>t
    <3>2. task[w] \in ParseTask
        BY <1>t
    <3> QED
        BY <3>1, <3>2 DEF ParseTask
  <2>2. task' = [task EXCEPT ![w] = next]
      BY <1>n, <1>t
  <2> HIDE DEF next
  <2>3. /\ task' \in [TaskIds -> ParseTask] /\ task'[w] = next
        /\ \A v \in TaskIds : v # w => task'[v] = task[v]
      BY <2>1, <2>2, <1>t
  <2>4. PermitFindsSlot' /\ \A v \in TaskIds : HasPermit(v)' => task'[v].at >= 1
      BY <2>1, <2>3 DEF LeaseInv, PermitFindsSlot, HasPermit
  <2> QED
      BY <2>1, <2>3, <2>4
<1>3. CASE slot[i] = Free
  <2>1. slot' = [slot EXCEPT ![i] = w]
      BY <1>2, <1>3 DEF TrySlot
  <2>2. task' = [task EXCEPT ![w].pc = "parse", ![w].at = i]
    <3>1. task' = [task EXCEPT ![w].pc = "parse"]
        BY <1>2, <1>3 DEF TrySlot, Goto
    <3>2. [task[w] EXCEPT !.pc = "parse"] = [task[w] EXCEPT !.pc = "parse", !.at = i]
        BY <1>2, <1>t DEF ParseTask
    <3> QED
        BY <1>t, <3>1, <3>2
  <2>3. /\ task' \in [TaskIds -> ParseTask] /\ task'[w].pc = "parse" /\ task'[w].at = i
        /\ \A v \in TaskIds : v # w => task'[v] = task[v]
        /\ PermitFindsSlot' /\ \A v \in TaskIds : HasPermit(v)' => task'[v].at >= 1
      BY <1>n, <2>2
  <2>4. slot' \in [1 .. ParserSlots -> TaskIds \cup {Free}] /\ slot'[i] = w
        /\ \A j \in 1 .. ParserSlots : j # i => slot'[j] = slot[j]
      BY <2>1, <1>t DEF LeaseTypeOK
  <2>5. LeaseTypeOK'
      BY <1>u, <2>3, <2>4, <1>t DEF LeaseTypeOK, Free
  <2>6. \A k : FromSlot(k)' = FromSlot(k)
      BY <1>1, <1>2, <2>3 DEF FromSlot, HasPermit
  <2>7. ASSUME NEW j \in 1 .. ParserSlots, slot'[j] # Free
        PROVE  task'[slot'[j]].pc \in {"parse", "unlock"} /\ task'[slot'[j]].at = j
      BY <1>l, <2>3, <2>4, <2>7
  <2>8. /\ \A k \in 1 .. ParserSlots : Cardinality(FromSlot(k)') <= ParserSlots - k + 1
        /\ permits' + Cardinality(FromSlot(1)') = ParserSlots
      BY <1>u, <2>6 DEF LeaseInv
  <2> QED
      BY <2>3, <2>5, <2>7, <2>8 DEF LeaseInv, Free
<1>4. CASE slot[i] # Free
  <2>1. PICK v \in TaskIds : v = slot[i] /\ v # w /\ task[v].pc \in {"parse", "unlock"}
                             /\ task[v].at = i
      BY <1>4, <1>l
  <2>2. v \in FromSlot(i) /\ w \in FromSlot(i)
      BY <1>1, <1>2, <2>1 DEF FromSlot, HasPermit
  <2>3. \A S \in SUBSET TaskIds : S \subseteq FromSlot(i) \ {v} =>
            Cardinality(S) \in Nat /\ Cardinality(S) <= ParserSlots - i
    <3>1. Cardinality(FromSlot(i)) <= ParserSlots - i + 1 /\ Cardinality(FromSlot(i)) \in Nat
        BY CountTasks, FromSlotType DEF LeaseInv
    <3>2. \A S \in SUBSET TaskIds : S \subseteq FromSlot(i) \ {v} =>
            Cardinality(S) \in Nat /\ Cardinality(S) <= Cardinality(FromSlot(i)) - 1
        BY <2>2, CountTasks, FromSlotType
    <3> QED
        BY <3>1, <3>2, <1>t
  <2>4. i # ParserSlots
    <3>1. {w} \in SUBSET TaskIds /\ {w} \subseteq FromSlot(i) \ {v}
        BY <2>1, <2>2
    <3>2. Cardinality({w}) = 1
        BY FS_Singleton
    <3> QED
        BY <2>3, <3>1, <3>2, <1>t
  <2>5. slot' = slot /\ task' = [task EXCEPT ![w].pc = "scan", ![w].at = i + 1]
      BY <1>2, <1>4, <2>4 DEF TrySlot
  <2>6. i + 1 \in 1 .. ParserSlots
      BY <2>4, <1>t
  <2>7. /\ task' \in [TaskIds -> ParseTask] /\ task'[w].pc = "scan" /\ task'[w].at = i + 1
        /\ \A u \in TaskIds : u # w => task'[u] = task[u]
        /\ PermitFindsSlot' /\ \A u \in TaskIds : HasPermit(u)' => task'[u].at >= 1
      BY <1>n, <2>5, <2>6
  <2>8. LeaseTypeOK'
      BY <1>u, <2>5, <2>7, <1>t DEF LeaseTypeOK, Free
  <2>9. \A j \in 1 .. ParserSlots : slot'[j] # Free =>
            task'[slot'[j]].pc \in {"parse", "unlock"} /\ task'[slot'[j]].at = j
      BY <1>l, <2>5, <2>7
  <2>10. \A u \in TaskIds : HasPermit(u)' <=> HasPermit(u)
      BY <1>1, <2>7 DEF HasPermit
  <2>11. ASSUME NEW k \in 1 .. ParserSlots, k # i + 1 PROVE FromSlot(k)' = FromSlot(k)
      BY <1>1, <1>2, <1>t, <2>7, <2>10, <2>11 DEF FromSlot
  <2>12. Cardinality(FromSlot(i + 1)') <= ParserSlots - i
    <3>1. \A u \in TaskIds : task[u].at \in Nat
        BY ParseTaskFields
    <3>2. FromSlot(i + 1)' \subseteq FromSlot(i) \ {v}
        BY <1>1, <1>2, <2>1, <2>7, <2>10, <3>1 DEF FromSlot
    <3> QED
        BY <2>3, <3>2, FromSlotType
  <2>13. \A k \in 1 .. ParserSlots : Cardinality(FromSlot(k)') <= ParserSlots - k + 1
    <3> SUFFICES ASSUME NEW k \in 1 .. ParserSlots
                 PROVE  Cardinality(FromSlot(k)') <= ParserSlots - k + 1
        OBVIOUS
    <3>1. CASE k = i + 1
        BY <2>12, <3>1, <1>t
    <3>2. CASE k # i + 1
        BY <2>11, <3>2 DEF LeaseInv
    <3> QED
        BY <3>1, <3>2
  <2>14. permits' + Cardinality(FromSlot(1)') = ParserSlots
    <3>1. FromSlot(1)' = FromSlot(1)
        BY <2>11, <1>t
    <3> QED
        BY <1>u, <3>1 DEF LeaseInv
  <2> QED
      BY <2>7, <2>8, <2>9, <2>13, <2>14 DEF LeaseInv, Free
<1> QED
    BY <1>3, <1>4

\* The lease is dropped: first the slot's guard, then the permit.
LEMMA ReleaseKeepsLeases ==
    ASSUME LeaseInv, NEW w \in TaskIds, Release(w)
    PROVE  LeaseInv'
<1>t. /\ task[w] \in ParseTask /\ task \in [TaskIds -> ParseTask] /\ task[w].res \in ParseResult
      /\ ParserSlots \in Nat /\ ParserSlots >= 1 /\ LeaseTypeOK
    BY ParseTaskFields DEF LeaseInv
<1>u. nextWorker' = nextWorker /\ inbox' = inbox /\ task[w].pc \in {"unlock", "unlock2"}
    BY DEF Release
<1>1. HasPermit(w) /\ task[w].at \in 1 .. ParserSlots
    BY <1>u, ParseTaskFields DEF HasPermit
<1>l. ASSUME NEW j \in 1 .. ParserSlots, slot[j] # Free
      PROVE  slot[j] \in TaskIds /\ task[slot[j]].pc \in {"parse", "unlock"}
             /\ task[slot[j]].at = j
    BY <1>l, <1>t DEF LeaseInv, LeaseTypeOK
<1>r. ReleaseOrder[1] = "slot" /\ ReleaseOrder[2] = "permit"
    BY DEF ReleaseOrder
<1>2. CASE task[w].pc = "unlock"
  <2>1. /\ slot' = [slot EXCEPT ![task[w].at] = Free] /\ permits' = permits
        /\ task' = [task EXCEPT ![w].pc = "unlock2"]
      BY <1>2, <1>r DEF Release, Goto
  <2> DEFINE next == [task[w] EXCEPT !.pc = "unlock2"]
  <2>2. next \in ParseTask /\ next.pc = "unlock2" /\ next.at = task[w].at
      BY <1>t DEF ParseTask
  <2>3. task' = [task EXCEPT ![w] = next]
      BY <2>1, <1>t
  <2> HIDE DEF next
  <2>4. /\ task' \in [TaskIds -> ParseTask] /\ task'[w] = next
        /\ \A v \in TaskIds : v # w => task'[v] = task[v]
      BY <2>2, <2>3, <1>t
  <2>5. /\ slot' \in [1 .. ParserSlots -> TaskIds \cup {Free}] /\ slot'[task[w].at] = Free
        /\ \A j \in 1 .. ParserSlots : j # task[w].at => slot'[j] = slot[j]
      BY <2>1, <1>1, <1>t DEF LeaseTypeOK
  <2>6. LeaseTypeOK'
      BY <1>u, <2>1, <2>4, <2>5, <1>t DEF LeaseTypeOK, Free
  <2>7. \A v \in TaskIds : /\ HasPermit(v)' <=> HasPermit(v)
                           /\ HasPermit(v) => task'[v].at = task[v].at
      BY <1>1, <2>2, <2>4 DEF HasPermit
  <2>8. \A k : FromSlot(k)' = FromSlot(k)
      BY <2>7 DEF FromSlot
  <2>9. PermitFindsSlot' /\ \A v \in TaskIds : HasPermit(v)' => task'[v].at >= 1
      BY <2>2, <2>4, <2>7 DEF LeaseInv, PermitFindsSlot
  <2>10. ASSUME NEW j \in 1 .. ParserSlots, slot'[j] # Free
         PROVE  task'[slot'[j]].pc \in {"parse", "unlock"} /\ task'[slot'[j]].at = j
      BY <1>l, <2>4, <2>5, <2>10
  <2>11. /\ \A k \in 1 .. ParserSlots : Cardinality(FromSlot(k)') <= ParserSlots - k + 1
         /\ permits' + Cardinality(FromSlot(1)') = ParserSlots
      BY <2>1, <2>8 DEF LeaseInv
  <2> QED
      BY <2>6, <2>9, <2>10, <2>11 DEF LeaseInv, Free
<1>3. CASE task[w].pc = "unlock2"
  <2>1. /\ slot' = slot /\ permits' = permits + 1
        /\ task' = [task EXCEPT ![w].pc = "send", ![w].at = 0, ![w].res = Extract(@)]
      BY <1>3, <1>r DEF Release
  <2> DEFINE res == Extract(task[w].res)
             next == [task[w] EXCEPT !.pc = "send", !.at = 0, !.res = res]
  <2>2. res \in ParseResult
      BY <1>t DEF Extract, Failed, ParseResult, ParseJob
  <2> HIDE DEF res
  <2>3. next \in ParseTask /\ next.pc = "send"
    <3>1. 0 \in 0 .. ParserSlots
        BY <1>t
    <3>2. task[w] \in ParseTask
        BY <1>t
    <3> QED
        BY <2>2, <3>1, <3>2 DEF ParseTask
  <2>4. task' = [task EXCEPT ![w] = next]
      BY <2>1, <1>t DEF res
  <2> HIDE DEF next
  <2>5. /\ task' \in [TaskIds -> ParseTask] /\ task'[w] = next
        /\ \A v \in TaskIds : v # w => task'[v] = task[v]
      BY <2>3, <2>4, <1>t
  <2>6. LeaseTypeOK'
      BY <1>u, <2>1, <2>5, <1>t DEF LeaseTypeOK, Free
  <2>7. ~HasPermit(w)' /\ \A v \in TaskIds : v # w => (HasPermit(v)' <=> HasPermit(v))
      BY <2>3, <2>5 DEF HasPermit
  <2>8. \A k : FromSlot(k)' = FromSlot(k) \ {w}
      BY <2>5, <2>7 DEF FromSlot
  <2>9. w \in FromSlot(1)
      BY <1>1 DEF FromSlot
  <2>10. permits' + Cardinality(FromSlot(1)') = ParserSlots
    <3>1. Cardinality(FromSlot(1)') = Cardinality(FromSlot(1)) - 1 /\ Cardinality(FromSlot(1)) \in Nat
        BY <2>8, <2>9, CountTasks, FromSlotType
    <3> QED
        BY <2>1, <3>1, <1>t DEF LeaseInv, LeaseTypeOK
  <2>11. \A k \in 1 .. ParserSlots : Cardinality(FromSlot(k)') <= ParserSlots - k + 1
    <3> SUFFICES ASSUME NEW k \in 1 .. ParserSlots
                 PROVE  Cardinality(FromSlot(k)') <= ParserSlots - k + 1
        OBVIOUS
    <3>1. FromSlot(k)' \subseteq FromSlot(k)
        BY <2>8
    <3>2. /\ Cardinality(FromSlot(k)') <= Cardinality(FromSlot(k))
          /\ Cardinality(FromSlot(k)') \in Nat /\ Cardinality(FromSlot(k)) \in Nat
        BY <3>1, CountTasks, FromSlotType
    <3>3. Cardinality(FromSlot(k)) <= ParserSlots - k + 1
        BY DEF LeaseInv
    <3> QED
        BY <3>2, <3>3, <1>t
  <2>12. PermitFindsSlot' /\ \A v \in TaskIds : HasPermit(v)' => task'[v].at >= 1
      BY <2>3, <2>5, <2>7 DEF LeaseInv, PermitFindsSlot
  <2>13. ASSUME NEW j \in 1 .. ParserSlots, slot'[j] # Free
         PROVE  task'[slot'[j]].pc \in {"parse", "unlock"} /\ task'[slot'[j]].at = j
      BY <1>3, <1>l, <2>1, <2>5, <2>13
  <2> QED
      BY <2>6, <2>10, <2>11, <2>12, <2>13 DEF LeaseInv, Free
<1> QED
    BY <1>u, <1>2, <1>3

\* Every step keeps the invariant.
LEMMA LeaseNext == LeaseInv /\ [ParseNext]_parseVars => LeaseInv'
<1> SUFFICES ASSUME LeaseInv, [ParseNext]_parseVars PROVE LeaseInv'
    OBVIOUS
<1>1. ASSUME task' = task, permits' = permits, slot' = slot, nextWorker' \in Nat,
             inbox' \in [TaskIds -> Seq(ParseJob)]
      PROVE  LeaseInv'
  <2>1. LeaseTypeOK' /\ PermitFindsSlot'
      BY <1>1 DEF LeaseInv, LeaseTypeOK, PermitFindsSlot, Free
  <2>2. \A w \in TaskIds : HasPermit(w)' <=> HasPermit(w)
      BY <1>1 DEF HasPermit
  <2> QED
      BY <1>1, <2>1, <2>2, LeaseFrame
<1>2. ASSUME NEW f \in ParseFiles, NEW v \in Versions, NEW routed \in Routed,
             ReadJob(f, v, routed)
      PROVE  LeaseInv'
  <2>1. nextWorker \in Nat /\ inbox \in [TaskIds -> Seq(ParseJob)]
      BY DEF LeaseInv, LeaseTypeOK
  <2> DEFINE j == JobOf(nextWorker + 1, f, v, routed)
             w == nextWorker % ParseWorkers
  <2>2. j \in ParseJob
      BY <2>1 DEF JobOf, ParseJob
  <2> HIDE DEF j, w
  <2>3. inbox' = inbox \/ inbox' = [inbox EXCEPT ![w] = Append(@, j)]
      BY <1>2 DEF ReadJob, j, w
  <2>4. inbox' \in [TaskIds -> Seq(ParseJob)]
    <3>1. CASE inbox' = inbox
        BY <2>1, <3>1
    <3>2. CASE inbox' = [inbox EXCEPT ![w] = Append(@, j)]
      <4>1. w \in TaskIds => Append(inbox[w], j) \in Seq(ParseJob)
          BY <2>1, <2>2
      <4> QED
          BY <2>1, <3>2, <4>1
    <3> QED
        BY <2>3, <3>1, <3>2
  <2>5. task' = task /\ permits' = permits /\ slot' = slot /\ nextWorker' \in Nat
      BY <1>2, <2>1 DEF ReadJob
  <2> QED
      BY <1>1, <2>4, <2>5
<1>3. ASSUME NEW w \in TaskIds, WorkerStep(w) PROVE LeaseInv'
    BY <1>3, TakeKeepsLeases, PermitKeepsLeases, TryKeepsLeases, TurnsKeepLeases,
       ReleaseKeepsLeases DEF WorkerStep
<1>4. ASSUME \/ CloseStdin \/ CtrlC \/ Emit \/ ExitParser
             \/ (\E deaf \in Deaf : Report(~deaf))
             \/ UNCHANGED parseVars
      PROVE  LeaseInv'
  <2>1. UNCHANGED <<task, permits, slot, nextWorker, inbox>>
      BY <1>4 DEF CloseStdin, CtrlC, Emit, ExitParser, Report, parseVars
  <2> QED
      BY <1>1, <2>1 DEF LeaseInv, LeaseTypeOK
<1> QED
    BY <1>2, <1>3, <1>4 DEF ParseNext, ParserSteps

\* For any number of tasks and of parsers: a task that holds a permit never scans
\* all slots in vain (ParserPool::acquire, parser_pool.rs).
THEOREM PermitSuffices == ParseSpec => []PermitFindsSlot
<1>1. LeaseInv => PermitFindsSlot
    BY DEF LeaseInv
<1> QED
    BY <1>1, LeaseInit, LeaseNext, PTL DEF ParseSpec

-----------------------------------------------------------------------------
(* ParseWorker: nothing that was read is lost on the way to its line. *)

\* The elements of a family of sets, each with its index.
Indexed(I, F) == UNION {{i} \X F[i] : i \in I}
FiniteFamily(I, F) == IsFiniteSet(I) /\ \A i \in I : IsFiniteSet(F[i])

\* All but one of finitely many families of pairs.
LEMMA PairsButOne ==
    ASSUME NEW I, NEW F, FiniteFamily(I, F), NEW j \in I
    PROVE  /\ IsFiniteSet(Indexed(I, F)) /\ IsFiniteSet(Indexed(I \ {j}, F))
           /\ Cardinality(Indexed(I, F)) = Cardinality(Indexed(I \ {j}, F)) + Cardinality(F[j])
<1> DEFINE others == UNION {{i} \X F[i] : i \in I \ {j}}
           one == {j} \X F[j]
<1>1. IsFiniteSet(UNION {{i} \X F[i] : i \in I})
    BY PairsFinite DEF FiniteFamily
<1>2. IsFiniteSet(others)
  <2>1. IsFiniteSet(I \ {j}) /\ \A i \in I \ {j} : IsFiniteSet(F[i])
      BY FS_RemoveElement DEF FiniteFamily
  <2> QED
      BY <2>1, PairsFinite
<1>3. IsFiniteSet(one) /\ Cardinality(one) = Cardinality(F[j])
    BY TimesOne DEF FiniteFamily
<1>4. UNION {{i} \X F[i] : i \in I} = others \cup one /\ others \cap one = {}
    OBVIOUS
<1>5. Cardinality(others \cup one) = Cardinality(others) + Cardinality(one)
  <2> HIDE DEF others, one
  <2> QED
      BY <1>2, <1>3, <1>4, SizeOfBoth
<1>6. Indexed(I, F) = others \cup one /\ Indexed(I \ {j}, F) = others /\ IsFiniteSet(Indexed(I, F))
    BY <1>1, <1>4 DEF Indexed
<1> HIDE DEF others, one
<1> QED
    BY <1>2, <1>3, <1>5, <1>6

\* The jobs that wait in the inboxes.
JobsIn(boxes) == UNION {{w} \X DOMAIN boxes[w] : w \in TaskIds}

\* One inbox changes.
LEMMA InboxChanges ==
    ASSUME NEW old \in [TaskIds -> Seq(ParseJob)], NEW new \in [TaskIds -> Seq(ParseJob)],
           NEW w \in TaskIds, \A v \in TaskIds \ {w} : new[v] = old[v]
    PROVE  /\ Cardinality(JobsIn(old)) \in Nat /\ Cardinality(JobsIn(new)) \in Nat
           /\ Cardinality(JobsIn(new)) + Len(old[w]) = Cardinality(JobsIn(old)) + Len(new[w])
<1> DEFINE F == [v \in TaskIds |-> DOMAIN old[v]]
           G == [v \in TaskIds |-> DOMAIN new[v]]
           others == Indexed(TaskIds \ {w}, F)
<1>1. IsFiniteSet(TaskIds)
  <2>1. ParseWorkers - 1 \in Int
      BY ParseAssumption
  <2> QED
      BY <2>1, FS_Interval DEF TaskIds
<1>2. /\ \A v \in TaskIds : IsFiniteSet(F[v]) /\ IsFiniteSet(G[v])
      /\ Cardinality(F[w]) = Len(old[w]) /\ Cardinality(G[w]) = Len(new[w])
  <2>1. ASSUME NEW v \in TaskIds
        PROVE  /\ Len(old[v]) \in Nat /\ F[v] = 1 .. Len(old[v])
               /\ Len(new[v]) \in Nat /\ G[v] = 1 .. Len(new[v])
      OBVIOUS
  <2>2. ASSUME NEW n \in Nat PROVE IsFiniteSet(1 .. n) /\ Cardinality(1 .. n) = n
      BY FS_Interval
  <2> HIDE DEF F, G
  <2> QED
      BY <2>1, <2>2
<1>3. JobsIn(old) = Indexed(TaskIds, F) /\ JobsIn(new) = Indexed(TaskIds, G)
    BY DEF JobsIn, Indexed
<1>4. others = Indexed(TaskIds \ {w}, G)
    BY DEF Indexed
<1> HIDE DEF F, G
<1>5. /\ IsFiniteSet(JobsIn(old)) /\ IsFiniteSet(others)
      /\ Cardinality(JobsIn(old)) = Cardinality(others) + Len(old[w])
  <2>1. FiniteFamily(TaskIds, F)
      BY <1>1, <1>2 DEF FiniteFamily
  <2>2. /\ IsFiniteSet(Indexed(TaskIds, F))
        /\ IsFiniteSet(Indexed(TaskIds \ {w}, F))
        /\ Cardinality(Indexed(TaskIds, F)) = Cardinality(Indexed(TaskIds \ {w}, F)) + Cardinality(F[w])
      BY <2>1, PairsButOne
  <2> QED
      BY <1>2, <1>3, <2>2
<1>6. IsFiniteSet(JobsIn(new)) /\ Cardinality(JobsIn(new)) = Cardinality(others) + Len(new[w])
  <2>1. FiniteFamily(TaskIds, G)
      BY <1>1, <1>2 DEF FiniteFamily
  <2>2. /\ IsFiniteSet(Indexed(TaskIds, G))
        /\ IsFiniteSet(Indexed(TaskIds \ {w}, G))
        /\ Cardinality(Indexed(TaskIds, G)) = Cardinality(Indexed(TaskIds \ {w}, G)) + Cardinality(G[w])
      BY <2>1, PairsButOne
  <2> QED
      BY <1>2, <1>3, <1>4, <2>2
<1>7. /\ Cardinality(others) \in Nat /\ Cardinality(JobsIn(old)) \in Nat /\ Cardinality(JobsIn(new)) \in Nat
      /\ Len(old[w]) \in Nat /\ Len(new[w]) \in Nat
    BY <1>5, <1>6, FS_CardinalityType
<1> HIDE DEF others
<1> QED
    BY <1>5, <1>6, <1>7

\* What AnswerInv says in a state whose emitter is alive.
AllAccounted == nextWorker = lines + Len(results) + Cardinality(AtTask) + Cardinality(InInboxes)
NobodyMissed == \A w \in TaskIds : task[w].pc = "ended" => ~stdinOpen /\ inbox[w] = <<>>
ExitedEmpty == process = "exited" => results = <<>> /\ \A w \in TaskIds : task[w].pc = "ended"

\* The numbers of AnswerInv, and the two sets that a step changes.
LEMMA AnswerNumbers ==
    ASSUME AnswerInv
    PROVE  /\ lines \in Nat /\ nextWorker \in Nat /\ results \in Seq(ParseResult)
           /\ Cardinality(AtTask) \in Nat /\ Cardinality(InInboxes) \in Nat
           /\ inbox \in [TaskIds -> Seq(ParseJob)] /\ InInboxes = JobsIn(inbox)
           /\ AtTask \in SUBSET TaskIds
<1>1. AtTask \in SUBSET TaskIds /\ InInboxes = JobsIn(inbox)
    BY DEF AtTask, InInboxes, JobsIn
<1>2. Cardinality(AtTask) \in Nat
    BY <1>1, CountTasks
<1>3. inbox \in [TaskIds -> Seq(ParseJob)]
    BY DEF AnswerInv, LeaseInv, LeaseTypeOK
<1>4. 0 \in TaskIds
    BY ParseAssumption DEF TaskIds
<1>5. Cardinality(JobsIn(inbox)) \in Nat
    BY <1>3, <1>4, InboxChanges
<1> QED
    BY <1>1, <1>2, <1>3, <1>5 DEF AnswerInv, LeaseInv, LeaseTypeOK

\* Nothing is at work at the start.
LEMMA AnswerInit == ParseInit => AnswerInv
<1> SUFFICES ASSUME ParseInit PROVE AnswerInv
    OBVIOUS
<1>1. LeaseInv
    BY LeaseInit
<1>2. \A w \in TaskIds : task[w].pc = "recv" /\ inbox[w] = <<>>
    BY DEF ParseInit, Idle
<1>3. AtTask = {} /\ InInboxes = {}
    BY <1>2 DEF AtTask, InInboxes
<1>4. Cardinality(AtTask) = 0 /\ Cardinality(InInboxes) = 0
    BY <1>3, FS_EmptySet
<1> QED
    BY <1>1, <1>2, <1>4 DEF ParseInit, AnswerInv

\* The stdin task counts a job and puts it into an inbox.
LEMMA ReadKeepsAnswers ==
    ASSUME AnswerInv, LeaseInv', NEW f \in ParseFiles, NEW v \in Versions, NEW routed \in Routed,
           ReadJob(f, v, routed)
    PROVE  AnswerInv'
<1> DEFINE w == nextWorker % ParseWorkers
<1>1. w \in TaskIds
    BY ParseAssumption DEF AnswerInv, LeaseInv, LeaseTypeOK, TaskIds
<1>2. inbox \in [TaskIds -> Seq(ParseJob)] /\ inbox' \in [TaskIds -> Seq(ParseJob)]
    BY DEF AnswerInv, LeaseInv, LeaseTypeOK
<1>3. ASSUME emitter'.pc # "dead"
      PROVE  AllAccounted' /\ NobodyMissed' /\ ExitedEmpty'
  <2>1. AllAccounted /\ NobodyMissed /\ process # "exited" /\ stdinOpen
      BY <1>3 DEF AnswerInv, AllAccounted, NobodyMissed, ReadJob
  <2>2. task[w].pc # "ended"
      BY <1>1, <2>1 DEF NobodyMissed
  <2>3. inbox' = [inbox EXCEPT ![w] = Append(@, JobOf(nextWorker + 1, f, v, routed))]
      BY <2>2 DEF ReadJob
  <2>4. (\A u \in TaskIds \ {w} : inbox'[u] = inbox[u]) /\ Len(inbox'[w]) = Len(inbox[w]) + 1
    <3>1. inbox'[w] = Append(inbox[w], JobOf(nextWorker + 1, f, v, routed)) /\ inbox[w] \in Seq(ParseJob)
        BY <1>1, <1>2, <2>3
    <3> QED
        BY <1>2, <2>3, <3>1
  <2>5. Cardinality(JobsIn(inbox')) = Cardinality(JobsIn(inbox)) + 1
    <3>1. Len(inbox[w]) \in Nat
        BY <1>1, <1>2
    <3> HIDE DEF w
    <3>2. /\ Cardinality(JobsIn(inbox')) \in Nat /\ Cardinality(JobsIn(inbox)) \in Nat
          /\ Cardinality(JobsIn(inbox')) + Len(inbox[w]) = Cardinality(JobsIn(inbox)) + Len(inbox'[w])
        BY <1>1, <1>2, <2>4, InboxChanges
    <3> QED
        BY <2>4, <3>1, <3>2
  <2>6. AtTask' = AtTask /\ InInboxes' = JobsIn(inbox')
      BY DEF ReadJob, AtTask, InInboxes, JobsIn
  <2>7. AllAccounted'
      BY <2>1, <2>5, <2>6, AnswerNumbers DEF ReadJob, AllAccounted
  <2>8. NobodyMissed'
      BY <1>1, <2>1, <2>2, <2>4 DEF NobodyMissed, ReadJob
  <2> QED
      BY <2>1, <2>7, <2>8 DEF ReadJob, ExitedEmpty
<1> QED
    BY <1>3 DEF ReadJob, AnswerInv, AllAccounted, NobodyMissed, ExitedEmpty

\* A task takes a job out of its inbox.
LEMMA TakeKeepsAnswers ==
    ASSUME AnswerInv, LeaseInv', NEW w \in TaskIds, TakeJob(w)
    PROVE  AnswerInv'
<1>1. /\ task \in [TaskIds -> ParseTask] /\ task[w].pc = "recv" /\ inbox[w] # <<>>
      /\ inbox \in [TaskIds -> Seq(ParseJob)] /\ inbox' \in [TaskIds -> Seq(ParseJob)]
      /\ inbox' = [inbox EXCEPT ![w] = Tail(@)]
    BY DEF TakeJob, AnswerInv, LeaseInv, LeaseTypeOK
<1>2. task'[w].pc \in {"send", "permit"} /\ \A u \in TaskIds \ {w} : task'[u] = task[u]
    BY <1>1 DEF TakeJob, Idle
<1>3. Cardinality(AtTask') = Cardinality(AtTask) + 1
  <2>1. w \notin AtTask /\ AtTask' = AtTask \cup {w}
      BY <1>1, <1>2 DEF AtTask
  <2>2. AtTask \in SUBSET TaskIds /\ AtTask' \in SUBSET TaskIds
      BY DEF AtTask
  <2> QED
      BY <2>1, <2>2, CountTasks
<1>4. Cardinality(InInboxes') = Cardinality(InInboxes) - 1 /\ inbox'[w] = Tail(inbox[w])
  <2>1. (\A u \in TaskIds \ {w} : inbox'[u] = inbox[u]) /\ inbox'[w] = Tail(inbox[w])
      BY <1>1
  <2>2. Len(inbox'[w]) = Len(inbox[w]) - 1 /\ Len(inbox[w]) \in Nat
      BY <1>1, <2>1
  <2>3. InInboxes' = JobsIn(inbox') /\ InInboxes = JobsIn(inbox)
      BY DEF InInboxes, JobsIn
  <2>4. /\ Cardinality(JobsIn(inbox')) \in Nat /\ Cardinality(JobsIn(inbox)) \in Nat
        /\ Cardinality(JobsIn(inbox')) + Len(inbox[w]) = Cardinality(JobsIn(inbox)) + Len(inbox'[w])
      BY <1>1, <2>1, InboxChanges
  <2> QED
      BY <2>1, <2>2, <2>3, <2>4
<1>5. AllAccounted => AllAccounted'
    BY <1>3, <1>4, AnswerNumbers DEF TakeJob, AllAccounted
<1>6. NobodyMissed => NobodyMissed'
    BY <1>1, <1>2 DEF NobodyMissed, TakeJob
<1>7. emitter.pc # "dead" => process # "exited"
    BY <1>1 DEF AnswerInv
<1> QED
    BY <1>5, <1>6, <1>7 DEF TakeJob, AnswerInv, AllAccounted, NobodyMissed

\* A task goes on with its job.
LEMMA WorkKeepsAnswers ==
    ASSUME AnswerInv, LeaseInv', NEW w \in TaskIds,
           AcquirePermit(w) \/ TrySlot(w) \/ Parse(w) \/ Release(w)
    PROVE  AnswerInv'
<1>1. task \in [TaskIds -> ParseTask]
    BY DEF AnswerInv, LeaseInv, LeaseTypeOK
<1>2. /\ task[w].pc \notin {"recv", "ended"} /\ task'[w].pc \notin {"recv", "ended"}
      /\ \A u \in TaskIds \ {w} : task'[u] = task[u]
  <2>1. CASE AcquirePermit(w)
      BY <1>1, <2>1 DEF AcquirePermit, ParseTask
  <2>2. CASE TrySlot(w)
      BY <1>1, <2>2 DEF TrySlot, Goto, ParseTask
  <2>3. CASE Parse(w)
      BY <1>1, <2>3 DEF Parse, ParseTask
  <2>4. CASE Release(w)
      BY <1>1, <2>4 DEF Release, Goto, ParseTask
  <2> QED
      BY <2>1, <2>2, <2>3, <2>4
<1>3. AtTask' = AtTask
    BY <1>2 DEF AtTask
<1>4. UNCHANGED <<nextWorker, stdinOpen, inbox, results, emitter, lines, process>>
    BY DEF AcquirePermit, TrySlot, Parse, Release
<1>5. InInboxes' = InInboxes
    BY <1>4 DEF InInboxes
<1>6. NobodyMissed => NobodyMissed'
    BY <1>2, <1>4 DEF NobodyMissed
<1>7. ExitedEmpty => ExitedEmpty'
    BY <1>2, <1>4 DEF ExitedEmpty
<1> QED
    BY <1>3, <1>4, <1>5, <1>6, <1>7 DEF AnswerInv, NobodyMissed, ExitedEmpty

\* A task gives its result away; without an emitter it ends.
LEMMA SendKeepsAnswers ==
    ASSUME AnswerInv, LeaseInv', NEW w \in TaskIds, SendResult(w)
    PROVE  AnswerInv'
<1>1. /\ task \in [TaskIds -> ParseTask] /\ task[w].res \in ParseResult /\ task[w].pc = "send"
      /\ results \in Seq(ParseResult)
    BY ParseTaskFields DEF SendResult, AnswerInv
<1>2. CASE emitter.pc = "dead"
    BY <1>1, <1>2 DEF SendResult, AnswerInv
<1>3. CASE emitter.pc # "dead"
  <2>1. results' = Append(results, task[w].res) /\ task' = [task EXCEPT ![w] = Idle] /\ inbox' = inbox
      BY <1>3 DEF SendResult
  <2>2. results' \in Seq(ParseResult) /\ Len(results') = Len(results) + 1 /\ Len(results) \in Nat
      BY <1>1, <2>1
  <2>3. task'[w].pc = "recv" /\ \A u \in TaskIds \ {w} : task'[u] = task[u]
      BY <1>1, <2>1 DEF Idle
  <2>4. Cardinality(AtTask') = Cardinality(AtTask) - 1
    <3>1. w \in AtTask /\ AtTask' = AtTask \ {w}
        BY <1>1, <2>3 DEF AtTask
    <3>2. AtTask \in SUBSET TaskIds /\ AtTask' \in SUBSET TaskIds
        BY DEF AtTask
    <3> QED
        BY <3>1, <3>2, CountTasks
  <2>5. InInboxes' = InInboxes
      BY <2>1 DEF InInboxes
  <2>6. AllAccounted => AllAccounted'
      BY <2>2, <2>4, <2>5, AnswerNumbers DEF SendResult, AllAccounted
  <2>7. NobodyMissed => NobodyMissed'
      BY <2>1, <2>3 DEF SendResult, NobodyMissed
  <2>8. process # "exited"
      BY <1>1, <1>3 DEF AnswerInv
  <2> QED
      BY <2>2, <2>6, <2>7, <2>8, <1>3 DEF SendResult, AnswerInv, AllAccounted, NobodyMissed
<1> QED
    BY <1>2, <1>3

\* A task ends with an empty inbox.
LEMMA EndKeepsAnswers ==
    ASSUME AnswerInv, LeaseInv', NEW w \in TaskIds, EndTask(w)
    PROVE  AnswerInv'
<1>1. task \in [TaskIds -> ParseTask]
    BY DEF AnswerInv, LeaseInv, LeaseTypeOK
<1>2. task[w].pc = "recv" /\ task'[w].pc = "ended" /\ \A u \in TaskIds \ {w} : task'[u] = task[u]
    BY <1>1 DEF EndTask, Goto
<1>3. AtTask' = AtTask /\ InInboxes' = InInboxes
    BY <1>2 DEF AtTask, InInboxes, EndTask
<1>4. NobodyMissed => NobodyMissed'
    BY <1>2 DEF NobodyMissed, EndTask
<1>5. ExitedEmpty => ExitedEmpty'
    BY <1>2 DEF ExitedEmpty, EndTask
<1> QED
    BY <1>3, <1>4, <1>5 DEF EndTask, AnswerInv, NobodyMissed, ExitedEmpty

\* The emitter writes the line of a result, or dies of a broken stdout.
LEMMA EmitKeepsAnswers ==
    ASSUME AnswerInv, LeaseInv', Emit
    PROVE  AnswerInv'
<1>1. /\ results \in Seq(ParseResult) /\ results # <<>> /\ Head(results).id \in Nat
      /\ Tail(results) \in Seq(ParseResult) /\ Len(Tail(results)) = Len(results) - 1 /\ Len(results) \in Nat
      /\ emitter \in [pc : {"recv", "report", "dead"}, id : Nat] /\ lines \in Nat
  <2>1. Head(results) \in ParseResult
      BY DEF AnswerInv, Emit
  <2> QED
      BY <2>1 DEF AnswerInv, Emit, ParseResult
<1>2. CASE emitter' = [pc |-> "dead", id |-> 0] /\ results' = <<>> /\ UNCHANGED lines
    BY <1>1, <1>2 DEF AnswerInv, Emit
<1>3. CASE /\ lines' = lines + 1 /\ results' = Tail(results)
           /\ emitter' = IF Head(results).id # 0 THEN [pc |-> "report", id |-> Head(results).id]
                         ELSE emitter
  <2>1. emitter' \in [pc : {"recv", "report", "dead"}, id : Nat] /\ emitter.pc # "dead"
      BY <1>1, <1>3 DEF Emit
  <2>2. AtTask' = AtTask /\ InInboxes' = InInboxes
      BY DEF AtTask, InInboxes, Emit
  <2>3. AllAccounted => AllAccounted'
      BY <1>1, <1>3, <2>2, AnswerNumbers DEF AllAccounted, Emit
  <2>4. NobodyMissed => NobodyMissed'
      BY DEF NobodyMissed, Emit
  <2>5. process # "exited"
      BY <1>1, <2>1 DEF AnswerInv
  <2> QED
      BY <1>1, <1>3, <2>1, <2>3, <2>4, <2>5 DEF AnswerInv, Emit, AllAccounted, NobodyMissed
<1> QED
    BY <1>2, <1>3 DEF Emit

\* Steps that move no job.
LEMMA OtherKeepsAnswers ==
    ASSUME AnswerInv, LeaseInv',
           CloseStdin \/ CtrlC \/ (\E heard \in BOOLEAN : Report(heard)) \/ ExitParser \/ UNCHANGED parseVars
    PROVE  AnswerInv'
<1>1. /\ UNCHANGED <<nextWorker, inbox, task, results, lines>>
      /\ stdinOpen' = stdinOpen \/ stdinOpen' = FALSE
      /\ emitter' = emitter \/ (emitter.pc = "report" /\ emitter' = [pc |-> "recv", id |-> 0])
    BY DEF CloseStdin, CtrlC, Report, ExitParser, parseVars
<1>2. AtTask' = AtTask /\ InInboxes' = InInboxes
    BY <1>1 DEF AtTask, InInboxes
<1>3. emitter.pc # "dead" /\ ExitedEmpty => ExitedEmpty'
    BY DEF CloseStdin, CtrlC, Report, ExitParser, parseVars, ExitedEmpty
<1>4. emitter' \in [pc : {"recv", "report", "dead"}, id : Nat] /\ (emitter'.pc # "dead" => emitter.pc # "dead")
    BY <1>1 DEF AnswerInv
<1>5. NobodyMissed => NobodyMissed'
    BY <1>1 DEF NobodyMissed
<1>6. AllAccounted => AllAccounted'
    BY <1>1, <1>2 DEF AllAccounted
<1>7. lines' \in Nat /\ results' \in Seq(ParseResult) /\ stdinOpen' \in BOOLEAN
    BY <1>1 DEF AnswerInv
<1>8. ASSUME emitter'.pc # "dead" PROVE AllAccounted' /\ NobodyMissed' /\ ExitedEmpty'
    BY <1>3, <1>4, <1>5, <1>6, <1>8 DEF AnswerInv, AllAccounted, NobodyMissed, ExitedEmpty
<1> QED
    BY <1>4, <1>7, <1>8 DEF AnswerInv, AllAccounted, NobodyMissed, ExitedEmpty

\* Every step keeps the invariant.
LEMMA AnswerNext == AnswerInv /\ [ParseNext]_parseVars => AnswerInv'
<1> SUFFICES ASSUME AnswerInv, [ParseNext]_parseVars PROVE AnswerInv'
    OBVIOUS
<1>1. LeaseInv'
    BY LeaseNext DEF AnswerInv
<1>2. CASE \E f \in ParseFiles, v \in Versions, routed \in Routed : ReadJob(f, v, routed)
    BY <1>1, <1>2, ReadKeepsAnswers
<1>3. ASSUME NEW w \in TaskIds, WorkerStep(w) PROVE AnswerInv'
    BY <1>1, <1>3, TakeKeepsAnswers, WorkKeepsAnswers, SendKeepsAnswers, EndKeepsAnswers DEF WorkerStep
<1>4. CASE Emit
    BY <1>1, <1>4, EmitKeepsAnswers
<1>5. CASE \/ CloseStdin \/ CtrlC \/ (\E deaf \in Deaf : Report(~deaf)) \/ ExitParser
           \/ UNCHANGED parseVars
  <2>1. (\E deaf \in Deaf : Report(~deaf)) => \E heard \in BOOLEAN : Report(heard)
      BY ParseAssumption
  <2> QED
      BY <1>1, <1>5, <2>1, OtherKeepsAnswers
<1> QED
    BY <1>2, <1>3, <1>4, <1>5 DEF ParseNext, ParserSteps

\* When nothing goes on, nothing is on its way.
LEMMA QuietIsAnswered == AnswerInv => QuietMeansAnswered
<1> SUFFICES ASSUME AnswerInv, Quiet, emitter.pc # "dead" PROVE lines = nextWorker
    BY DEF QuietMeansAnswered
<1>1. LeaseInv /\ AllAccounted /\ NobodyMissed /\ ExitedEmpty
    BY DEF AnswerInv, AllAccounted, NobodyMissed, ExitedEmpty
<1>2. ParserSlots >= 1 /\ ParserSlots \in Nat /\ ResultCap >= 1 /\ ResultCap \in Nat
    BY ParseAssumption
<1>3. results = <<>> /\ \A w \in TaskIds : task[w].pc \in {"recv", "ended"} /\ inbox[w] = <<>>
  <2>1. CASE process = "exited"
      BY <1>1, <2>1 DEF NobodyMissed, ExitedEmpty
  <2>2. CASE process # "exited"
    <3>1. results = <<>> /\ \A w \in TaskIds : WorkerWaits(w)
        BY <2>2 DEF Quiet, EmitterWaits
    <3>2. Len(results) < ResultCap
        BY <1>2, <3>1
    <3>3. \A w \in TaskIds : task[w].pc \in {"recv", "permit", "ended"}
        BY <1>1, <1>2, <3>1, <3>2 DEF WorkerWaits, LeaseInv, PermitFindsSlot
    <3>4. FromSlot(1) = {}
        BY <3>3 DEF FromSlot, HasPermit
    <3>5. permits > 0
      <4>1. Cardinality(FromSlot(1)) = 0
          BY <3>4, FS_EmptySet
      <4> QED
          BY <1>1, <1>2, <4>1 DEF LeaseInv, LeaseTypeOK
    <3> QED
        BY <1>1, <3>1, <3>3, <3>5 DEF WorkerWaits, NobodyMissed
  <2> QED
      BY <2>1, <2>2
<1>4. AtTask = {} /\ InInboxes = {} /\ Len(results) = 0
    BY <1>3 DEF AtTask, InInboxes
<1> QED
    BY <1>1, <1>4, FS_EmptySet, AnswerNumbers DEF AllAccounted

\* For any number of tasks, parsers, files and jobs, and any capacities: when
\* nothing in the parse process can go on, or it has exited, and stdout is not
\* broken, every job it read has its line (main.rs, worker.rs, parser_pool.rs).
THEOREM EveryJobAnswered == ParseSpec => []QuietMeansAnswered
<1>1. ParseSpec => []AnswerInv
    BY AnswerInit, AnswerNext, PTL DEF ParseSpec
<1> QED
    BY <1>1, QuietIsAnswered, PTL

-----------------------------------------------------------------------------
(* ScanWorker: a job that was read is in one place of the process. *)

\* The numbers that CopiesOf adds up.
LEMMA CopiesAreCounted ==
    ASSUME ScanTypeOK, NEW id
    PROVE  /\ Cardinality(PlacesIn(jobsCh, id)) \in Nat /\ Cardinality(AtWork(id)) \in Nat
           /\ Cardinality(PlacesIn(resultsCh, id)) \in Nat /\ Cardinality(PlacesIn(batch, id)) \in Nat
           /\ Cardinality(PlacesInAll(batchesCh, id)) \in Nat
           /\ Cardinality(PlacesIn(forwarded, id)) \in Nat
<1>1. IsFiniteSet(AtWork(id))
    BY ScanAssumption, FS_Subset DEF AtWork
<1>2. Cardinality(AtWork(id)) \in Nat
    BY <1>1, FS_CardinalityType
<1> QED
    BY <1>2, PlacesCount, AllPlacesCount DEF ScanTypeOK

\* A task takes a job up, gives its result away, or works on.
LEMMA TaskAtWork ==
    ASSUME NEW t \in ScanTasks, NEW id, \A u \in ScanTasks \ {t} : scan'[u] = scan[u]
    PROVE  /\ Cardinality(AtWork(id)') \in Nat
           /\ scan[t].pc \notin {"tap", "send"} /\ scan'[t].pc \in {"tap", "send"} =>
                Cardinality(AtWork(id)') =
                    Cardinality(AtWork(id)) + (IF scan'[t].res.id = id THEN 1 ELSE 0)
           /\ scan[t].pc \in {"tap", "send"} /\ scan'[t].pc \notin {"tap", "send"} =>
                Cardinality(AtWork(id)) =
                    Cardinality(AtWork(id)') + (IF scan[t].res.id = id THEN 1 ELSE 0)
           /\ \/ scan[t].pc \notin {"tap", "send"} /\ scan'[t].pc \notin {"tap", "send"}
              \/ /\ scan[t].pc \in {"tap", "send"} /\ scan'[t].pc \in {"tap", "send"}
                 /\ scan'[t].res = scan[t].res
              => AtWork(id)' = AtWork(id)
<1>1. /\ IsFiniteSet(AtWork(id)) /\ IsFiniteSet(AtWork(id)')
      /\ Cardinality(AtWork(id)) \in Nat /\ Cardinality(AtWork(id)') \in Nat
  <2>1. AtWork(id) \subseteq ScanTasks /\ AtWork(id)' \subseteq ScanTasks
      BY DEF AtWork
  <2> QED
      BY <2>1, ScanAssumption, FS_Subset, FS_CardinalityType
<1>2. ASSUME scan[t].pc \notin {"tap", "send"}, scan'[t].pc \in {"tap", "send"}
      PROVE  Cardinality(AtWork(id)') =
                 Cardinality(AtWork(id)) + (IF scan'[t].res.id = id THEN 1 ELSE 0)
  <2>1. t \notin AtWork(id) /\ AtWork(id)' = AtWork(id) \cup (IF scan'[t].res.id = id THEN {t} ELSE {})
      BY <1>2 DEF AtWork
  <2>2. scan'[t].res.id = id => Cardinality(AtWork(id)') = Cardinality(AtWork(id)) + 1
      BY <1>1, <2>1, FS_AddElement
  <2>3. scan'[t].res.id # id => Cardinality(AtWork(id)') = Cardinality(AtWork(id))
      BY <2>1
  <2> QED
      BY <1>1, <2>2, <2>3
<1>3. ASSUME scan[t].pc \in {"tap", "send"}, scan'[t].pc \notin {"tap", "send"}
      PROVE  Cardinality(AtWork(id)) =
                 Cardinality(AtWork(id)') + (IF scan[t].res.id = id THEN 1 ELSE 0)
  <2>1. t \notin AtWork(id)' /\ AtWork(id) = AtWork(id)' \cup (IF scan[t].res.id = id THEN {t} ELSE {})
      BY <1>3 DEF AtWork
  <2>2. scan[t].res.id = id => Cardinality(AtWork(id)) = Cardinality(AtWork(id)') + 1
      BY <1>1, <2>1, FS_AddElement
  <2>3. scan[t].res.id # id => Cardinality(AtWork(id)) = Cardinality(AtWork(id)')
      BY <2>1
  <2> QED
      BY <1>1, <2>2, <2>3
<1>4. ASSUME \/ scan[t].pc \notin {"tap", "send"} /\ scan'[t].pc \notin {"tap", "send"}
             \/ /\ scan[t].pc \in {"tap", "send"} /\ scan'[t].pc \in {"tap", "send"}
                /\ scan'[t].res = scan[t].res
      PROVE  AtWork(id)' = AtWork(id)
    BY <1>4 DEF AtWork
<1> QED
    BY <1>1, <1>2, <1>3, <1>4

\* The process starts with no job.
LEMMA ScanInvInit == ScanInit => ScanInv
<1> SUFFICES ASSUME ScanInit PROVE ScanInv
    OBVIOUS
<1>1. ScanTypeOK
    BY DEF ScanInit, ScanTypeOK, Asleep, ScanResult, ScanJob
<1>2. \A t \in ScanTasks : scan[t].pc = "lock"
    BY DEF ScanInit, Asleep
<1>3. \A t \in ScanTasks : scan[t].pc = "recv" <=> holder = t
    BY <1>2, ScanAssumption DEF ScanInit
<1>4. ASSUME NEW id \in Nat \ {0} PROVE CopiesOf(id) = 0
  <2>1. AtWork(id) = {}
      BY <1>2 DEF AtWork
  <2>2. Cardinality(AtWork(id)) = 0
      BY <2>1, FS_EmptySet
  <2> QED
      BY <2>2, PlacesEmpty, AllPlacesEmpty DEF ScanInit, CopiesOf
<1> QED
    BY <1>1, <1>2, <1>3, <1>4 DEF ScanInit, ScanInv

\* Reading a job puts its new id into the channel of jobs.
LEMMA ScanInvRead ==
    ASSUME ScanInv, NEW applies \in SUBSET Scanners, NEW filter \in Filters,
           ReadScanJob(applies, filter)
    PROVE  ScanInv'
<1> DEFINE j == [id |-> jobsRead + 1, applies |-> applies, filter |-> filter]
<1>1. jobsCh' = Append(jobsCh, j) /\ j \in ScanJob /\ j.id = jobsRead + 1 /\ jobsCh \in Seq(ScanJob)
    BY DEF ReadScanJob, ScanInv, ScanTypeOK, ScanJob
<1> HIDE DEF j
<1>2. ScanTypeOK'
    BY <1>1 DEF ReadScanJob, ScanInv, ScanTypeOK
<1>3. (\A t \in ScanTasks : scan[t].pc = "recv" <=> holder = t)'
    BY DEF ReadScanJob, ScanInv
<1>4. ASSUME scanPrinter' # "broken" PROVE
         /\ (\A id \in Nat \ {0} : CopiesOf(id) = IF id <= jobsRead THEN 1 ELSE 0)'
         /\ batcher' # "error"
         /\ \A t \in ScanTasks : scan'[t].pc = "ended" => ~pipeOpen' /\ jobsCh' = <<>>
  <2>1. scanPrinter # "broken" /\ batcher' = batcher /\ scan' = scan /\ pipeOpen
      BY <1>4 DEF ReadScanJob
  <2>2. ASSUME NEW id \in Nat \ {0}
        PROVE  CopiesOf(id)' = IF id <= jobsRead' THEN 1 ELSE 0
    <3>1. CopiesOf(id) = IF id <= jobsRead THEN 1 ELSE 0
        BY <2>1 DEF ScanInv
    <3>2. Cardinality(PlacesIn(jobsCh', id)) =
              Cardinality(PlacesIn(jobsCh, id)) + (IF j.id = id THEN 1 ELSE 0)
        BY <1>1, PlacesAppend
    <3>3. ScanTypeOK
        BY DEF ScanInv
    <3>4. CopiesOf(id)' = CopiesOf(id) + (IF j.id = id THEN 1 ELSE 0)
      <4>1. AtWork(id)' = AtWork(id)
          BY <2>1 DEF AtWork
      <4>2. /\ resultsCh' = resultsCh /\ batch' = batch /\ batchesCh' = batchesCh
            /\ forwarded' = forwarded
          BY DEF ReadScanJob
      <4> QED
          BY <3>2, <3>3, <4>1, <4>2, CopiesAreCounted DEF CopiesOf
    <3>5. jobsRead \in Nat /\ jobsRead' = jobsRead + 1
        BY <3>3 DEF ScanTypeOK, ReadScanJob
    <3> QED
        BY <1>1, <3>1, <3>4, <3>5
  <2> QED
      BY <2>1, <2>2 DEF ScanInv
<1>5. batcher' = "done" => ResultsClosed' /\ batch' = <<>>
    BY DEF ReadScanJob, ScanInv, ResultsClosed
<1>6. scanPrinter' = "done" => batcher' # "run" /\ batchesCh' = <<>>
    BY DEF ReadScanJob, ScanInv
<1> QED
    BY <1>2, <1>3, <1>4, <1>5, <1>6 DEF ScanInv

\* The end of stdin moves no job.
LEMMA ScanInvEndOfJobs ==
    ASSUME ScanInv, EndOfJobs PROVE ScanInv'
<1>1. ScanTypeOK'
    BY DEF EndOfJobs, ScanInv, ScanTypeOK
<1>2. \A id : CopiesOf(id)' = CopiesOf(id)
    BY DEF EndOfJobs, CopiesOf, AtWork
<1>3. ResultsClosed' = ResultsClosed
    BY DEF EndOfJobs, ResultsClosed
<1> QED
    BY <1>1, <1>2, <1>3 DEF EndOfJobs, ScanInv

\* Taking the mutex.
LEMMA ScanInvLock ==
    ASSUME ScanInv, NEW t \in ScanTasks, LockReceiver(t) PROVE ScanInv'
<1>1. /\ scan[t].pc = "lock" /\ scan'[t].pc = "recv" /\ holder = "none" /\ holder' = t
      /\ \A u \in ScanTasks \ {t} : scan'[u] = scan[u]
    BY DEF LockReceiver, ScanInv, ScanTypeOK
<1>2. ScanTypeOK'
    BY DEF LockReceiver, ScanInv, ScanTypeOK
<1>3. (\A u \in ScanTasks : scan[u].pc = "recv" <=> holder = u)'
    BY <1>1, ScanAssumption DEF ScanInv
<1>4. \A id : CopiesOf(id)' = CopiesOf(id)
    BY <1>1, TaskAtWork DEF LockReceiver, CopiesOf
<1>5. batcher # "done"
    BY <1>1 DEF ScanInv, ResultsClosed
<1>6. \A u \in ScanTasks : scan'[u].pc = "ended" => scan[u].pc = "ended"
    BY <1>1
<1> QED
    BY <1>2, <1>3, <1>4, <1>5, <1>6 DEF LockReceiver, ScanInv

\* A job passes from its channel to a task.
LEMMA ScanInvRun ==
    ASSUME ScanInv, NEW t \in ScanTasks, NEW panics \in SUBSET Scanners, RunOne(t, panics)
    PROVE  ScanInv'
<1>1. /\ scan[t].pc = "recv" /\ scan'[t].pc = "tap" /\ holder = t /\ holder' = "none"
      /\ \A u \in ScanTasks \ {t} : scan'[u] = scan[u]
      /\ scan'[t].res.id = Head(jobsCh).id
      /\ jobsCh \in Seq(ScanJob) /\ jobsCh # <<>> /\ Head(jobsCh) \in ScanJob
      /\ jobsCh' = Tail(jobsCh) /\ Tail(jobsCh) \in Seq(ScanJob)
    BY DEF RunOne, ScanInv, ScanTypeOK
<1>2. ScanTypeOK'
  <2>1. [id |-> Head(jobsCh).id, found |-> ToRun(Head(jobsCh)) \ panics, failed |-> panics] \in ScanResult
      BY <1>1 DEF ScanJob, ScanResult, ToRun
  <2> QED
      BY <1>1, <2>1 DEF RunOne, ScanInv, ScanTypeOK
<1>3. (\A u \in ScanTasks : scan[u].pc = "recv" <=> holder = u)'
    BY <1>1, ScanAssumption DEF ScanInv
<1>4. ASSUME NEW id PROVE CopiesOf(id)' = CopiesOf(id)
  <2>1. Cardinality(AtWork(id)') =
            Cardinality(AtWork(id)) + (IF Head(jobsCh).id = id THEN 1 ELSE 0)
      BY <1>1, TaskAtWork
  <2>2. Cardinality(PlacesIn(jobsCh, id)) =
            (IF Head(jobsCh).id = id THEN 1 ELSE 0) + Cardinality(PlacesIn(jobsCh', id))
      BY <1>1, PlacesTail
  <2>3. ScanTypeOK
      BY DEF ScanInv
  <2>4. Cardinality(PlacesIn(jobsCh', id)) \in Nat /\ Cardinality(AtWork(id)') \in Nat
      BY <1>1, PlacesCount, TaskAtWork
  <2> QED
      BY <2>1, <2>2, <2>3, <2>4, CopiesAreCounted DEF RunOne, CopiesOf
<1>5. batcher # "done"
    BY <1>1 DEF ScanInv, ResultsClosed
<1>6. \A u \in ScanTasks : scan'[u].pc = "ended" => scan[u].pc = "ended"
    BY <1>1
<1>7. scanPrinter # "broken" => \A u \in ScanTasks : scan'[u].pc # "ended"
    BY <1>1, <1>6 DEF ScanInv
<1> QED
    BY <1>2, <1>3, <1>4, <1>5, <1>7 DEF RunOne, ScanInv

\* A task ends when the channel is closed and empty.
LEMMA ScanInvEndTask ==
    ASSUME ScanInv, NEW t \in ScanTasks, EndScanTask(t) PROVE ScanInv'
<1>1. /\ scan[t].pc = "recv" /\ scan'[t].pc = "ended" /\ holder = t /\ holder' = "none"
      /\ \A u \in ScanTasks \ {t} : scan'[u] = scan[u]
      /\ jobsCh = <<>> /\ ~pipeOpen
    BY DEF EndScanTask, ScanInv, ScanTypeOK, Ended, Asleep
<1>2. ScanTypeOK'
    BY DEF EndScanTask, ScanInv, ScanTypeOK, Ended, Asleep, ScanResult
<1>3. (\A u \in ScanTasks : scan[u].pc = "recv" <=> holder = u)'
    BY <1>1, ScanAssumption DEF ScanInv
<1>4. \A id : CopiesOf(id)' = CopiesOf(id)
    BY <1>1, TaskAtWork DEF EndScanTask, CopiesOf
<1>5. batcher # "done"
    BY <1>1 DEF ScanInv, ResultsClosed
<1> QED
    BY <1>1, <1>2, <1>3, <1>4, <1>5 DEF EndScanTask, ScanInv

\* Tapping a result leaves it with its task.
LEMMA ScanInvTap ==
    ASSUME ScanInv, NEW t \in ScanTasks, Tap(t) PROVE ScanInv'
<1>1. /\ scan[t].pc = "tap" /\ scan'[t].pc = "send" /\ scan'[t].res = scan[t].res
      /\ \A u \in ScanTasks \ {t} : scan'[u] = scan[u]
    BY DEF Tap, ScanInv, ScanTypeOK
<1>2. ScanTypeOK'
    BY DEF Tap, ScanInv, ScanTypeOK
<1>3. (\A u \in ScanTasks : scan[u].pc = "recv" <=> holder = u)'
    BY <1>1 DEF Tap, ScanInv
<1>4. \A id : CopiesOf(id)' = CopiesOf(id)
    BY <1>1, TaskAtWork DEF Tap, CopiesOf
<1>5. batcher # "done"
    BY <1>1 DEF ScanInv, ResultsClosed
<1>6. \A u \in ScanTasks : scan'[u].pc = "ended" => scan[u].pc = "ended"
    BY <1>1
<1> QED
    BY <1>2, <1>3, <1>4, <1>5, <1>6 DEF Tap, ScanInv

\* A result passes from its task to the batcher's channel; only a batcher that
\* failed, behind a broken stdout, turns it away.
LEMMA ScanInvSend ==
    ASSUME ScanInv, NEW t \in ScanTasks, SendScan(t) PROVE ScanInv'
<1>1. /\ scan[t].pc = "send" /\ scan[t].res \in ScanResult
      /\ \A u \in ScanTasks \ {t} : scan'[u] = scan[u]
      /\ resultsCh \in Seq(ScanResult)
    BY DEF SendScan, ScanInv, ScanTypeOK
<1>2. scan'[t].pc \in {"lock", "ended"}
    BY DEF SendScan, ScanInv, ScanTypeOK, Ended, Asleep
<1>3. ScanTypeOK'
  <2>1. Asleep \in [pc : {"lock", "recv", "tap", "send", "ended"}, res : ScanResult]
      BY DEF Asleep, ScanResult
  <2>2. Ended \in [pc : {"lock", "recv", "tap", "send", "ended"}, res : ScanResult]
      BY DEF Ended, Asleep, ScanResult
  <2>3. scan' \in [ScanTasks -> [pc : {"lock", "recv", "tap", "send", "ended"}, res : ScanResult]]
      BY <2>1, <2>2 DEF SendScan, ScanInv, ScanTypeOK
  <2>4. resultsCh' \in Seq(ScanResult)
      BY <1>1 DEF SendScan
  <2> QED
      BY <2>3, <2>4 DEF SendScan, ScanInv, ScanTypeOK
<1>4. (\A u \in ScanTasks : scan[u].pc = "recv" <=> holder = u)'
    BY <1>1, <1>2 DEF SendScan, ScanInv
<1>5. batcher # "done"
    BY <1>1 DEF ScanInv, ResultsClosed
<1>6. ASSUME scanPrinter' # "broken" PROVE
         /\ (\A id \in Nat \ {0} : CopiesOf(id) = IF id <= jobsRead THEN 1 ELSE 0)'
         /\ batcher' # "error"
         /\ \A u \in ScanTasks : scan'[u].pc = "ended" => ~pipeOpen' /\ jobsCh' = <<>>
  <2>1. scanPrinter # "broken" /\ batcher # "error" /\ scanPrinter' = scanPrinter
      BY <1>6 DEF SendScan, ScanInv
  <2>2. resultsCh' = Append(resultsCh, scan[t].res) /\ scan'[t].pc = "lock"
      BY <2>1 DEF SendScan, ScanInv, ScanTypeOK, Asleep
  <2>3. ASSUME NEW id PROVE CopiesOf(id)' = CopiesOf(id)
    <3>1. Cardinality(AtWork(id)) =
              Cardinality(AtWork(id)') + (IF scan[t].res.id = id THEN 1 ELSE 0)
        BY <1>1, <1>2, TaskAtWork
    <3>2. Cardinality(PlacesIn(resultsCh', id)) =
              Cardinality(PlacesIn(resultsCh, id)) + (IF scan[t].res.id = id THEN 1 ELSE 0)
        BY <1>1, <2>2, PlacesAppend
    <3>3. ScanTypeOK
        BY DEF ScanInv
    <3>4. Cardinality(AtWork(id)') \in Nat
        BY <1>1, TaskAtWork
    <3> QED
        BY <3>1, <3>2, <3>3, <3>4, CopiesAreCounted DEF SendScan, CopiesOf
  <2> QED
      BY <1>1, <2>1, <2>2, <2>3 DEF SendScan, ScanInv
<1>7. scanPrinter' = "done" => batcher' # "run" /\ batchesCh' = <<>>
    BY DEF SendScan, ScanInv
<1>8. batcher' # "done"
    BY <1>5 DEF SendScan
<1> QED
    BY <1>3, <1>4, <1>6, <1>7, <1>8 DEF ScanInv

\* The batcher takes a result into its batch.
LEMMA ScanInvTake ==
    ASSUME ScanInv, TakeResult PROVE ScanInv'
<1>1. /\ resultsCh \in Seq(ScanResult) /\ resultsCh # <<>> /\ Head(resultsCh) \in ScanResult
      /\ batch \in Seq(ScanResult) /\ ScanTypeOK
      /\ resultsCh' = Tail(resultsCh) /\ Tail(resultsCh) \in Seq(ScanResult)
      /\ batch' = Append(batch, Head(resultsCh))
    BY DEF TakeResult, ScanInv, ScanTypeOK
<1>2. ScanTypeOK'
    BY <1>1 DEF TakeResult, ScanTypeOK
<1>3. ASSUME NEW id PROVE CopiesOf(id)' = CopiesOf(id)
  <2>1. Cardinality(PlacesIn(resultsCh, id)) =
            (IF Head(resultsCh).id = id THEN 1 ELSE 0) + Cardinality(PlacesIn(resultsCh', id))
      BY <1>1, PlacesTail
  <2>2. Cardinality(PlacesIn(batch', id)) =
            Cardinality(PlacesIn(batch, id)) + (IF Head(resultsCh).id = id THEN 1 ELSE 0)
      BY <1>1, PlacesAppend
  <2>3. AtWork(id)' = AtWork(id) /\ Cardinality(PlacesIn(resultsCh', id)) \in Nat
      BY <1>1, PlacesCount DEF TakeResult, AtWork
  <2>4. jobsCh' = jobsCh /\ batchesCh' = batchesCh /\ forwarded' = forwarded
      BY DEF TakeResult
  <2>5. /\ Cardinality(PlacesIn(jobsCh, id)) \in Nat /\ Cardinality(AtWork(id)) \in Nat
        /\ Cardinality(PlacesIn(resultsCh, id)) \in Nat /\ Cardinality(PlacesIn(batch, id)) \in Nat
        /\ Cardinality(PlacesInAll(batchesCh, id)) \in Nat
        /\ Cardinality(PlacesIn(forwarded, id)) \in Nat
      BY <1>1, CopiesAreCounted
  <2> QED
      BY <2>1, <2>2, <2>3, <2>4, <2>5 DEF CopiesOf
<1> QED
    BY <1>2, <1>3 DEF TakeResult, ScanInv

\* A flush hands the whole batch over, unless stdout is broken.
LEMMA ScanInvFlush ==
    ASSUME ScanInv, NEW then \in {"run", "done"}, batcher = "run", Flush(batch, then),
           then = "done" => ResultsClosed,
           UNCHANGED <<jobsRead, pipeOpen, jobsCh, holder, scan, tapCh, resultsCh,
                       scanPrinter, forwarded>>
    PROVE  ScanInv'
<1>1. /\ batch \in Seq(ScanResult) /\ batchesCh \in Seq(Seq(ScanResult)) /\ ScanTypeOK
      /\ batch' = <<>> /\ <<>> \in Seq(ScanResult) /\ scanPrinter \in {"run", "broken"}
    BY DEF Flush, ScanInv, ScanTypeOK
<1>2. ScanTypeOK'
  <2>1. batchesCh' \in Seq(Seq(ScanResult))
    <3>1. Append(batchesCh, batch) \in Seq(Seq(ScanResult))
        BY <1>1
    <3>2. batchesCh' \in {batchesCh, Append(batchesCh, batch)}
        BY DEF Flush
    <3> QED
        BY <1>1, <3>1, <3>2
  <2>2. batcher' \in {"run", "done", "error"}
      BY DEF Flush
  <2> QED
      BY <1>1, <2>1, <2>2 DEF ScanTypeOK
<1>3. ASSUME scanPrinter # "broken", NEW id PROVE CopiesOf(id)' = CopiesOf(id)
  <2>1. batchesCh' = Append(batchesCh, batch)
      BY <1>3 DEF Flush
  <2>2. Cardinality(PlacesInAll(batchesCh', id)) =
            Cardinality(PlacesInAll(batchesCh, id)) + Cardinality(PlacesIn(batch, id))
      BY <1>1, <2>1, AllPlacesAppend
  <2>3. Cardinality(PlacesIn(batch', id)) = 0
      BY <1>1, PlacesEmpty
  <2>4. AtWork(id)' = AtWork(id)
      BY DEF AtWork
  <2> QED
      BY <1>1, <2>2, <2>3, <2>4, CopiesAreCounted DEF CopiesOf
<1>4. scanPrinter # "broken" => batcher' = then
    BY DEF Flush
<1>5. batcher' = "done" => ResultsClosed' /\ batch' = <<>>
    BY <1>1 DEF Flush, ResultsClosed
<1> QED
    BY <1>1, <1>2, <1>3, <1>4, <1>5 DEF ScanInv

\* A flush by size or by deadline.
LEMMA ScanInvFlushBatch ==
    ASSUME ScanInv, FlushBatch PROVE ScanInv'
BY ScanInvFlush DEF FlushBatch

\* The flush at the end.
LEMMA ScanInvEndBatcher ==
    ASSUME ScanInv, EndBatcher PROVE ScanInv'
<1>1. CASE batch # <<>>
    BY <1>1, ScanInvFlush DEF EndBatcher
<1>2. CASE batch = <<>>
  <2>1. ScanTypeOK'
      BY <1>2 DEF EndBatcher, ScanInv, ScanTypeOK
  <2>2. \A id : CopiesOf(id)' = CopiesOf(id)
      BY <1>2 DEF EndBatcher, CopiesOf, AtWork
  <2>3. ResultsClosed' = ResultsClosed
      BY DEF EndBatcher, ResultsClosed
  <2> QED
      BY <1>2, <2>1, <2>2, <2>3 DEF EndBatcher, ScanInv
<1> QED
    BY <1>1, <1>2

\* A batch passes to stdout, which may break.
LEMMA ScanInvPrint ==
    ASSUME ScanInv, PrintBatch PROVE ScanInv'
<1>1. /\ batchesCh \in Seq(Seq(ScanResult)) /\ batchesCh # <<>> /\ ScanTypeOK
      /\ Head(batchesCh) \in Seq(ScanResult) /\ Tail(batchesCh) \in Seq(Seq(ScanResult))
      /\ forwarded \in Seq(ScanResult) /\ scanPrinter = "run"
    BY DEF PrintBatch, ScanInv, ScanTypeOK
<1>2. ScanTypeOK'
  <2>1. batchesCh' \in Seq(Seq(ScanResult)) /\ forwarded' \in Seq(ScanResult)
    <3>1. forwarded \o Head(batchesCh) \in Seq(ScanResult)
        BY <1>1
    <3>2. <<>> \in Seq(Seq(ScanResult))
        OBVIOUS
    <3> QED
        BY <1>1, <3>1, <3>2 DEF PrintBatch
  <2>2. scanPrinter' \in {"run", "done", "broken"}
      BY <1>1 DEF PrintBatch
  <2> QED
      BY <1>1, <2>1, <2>2 DEF PrintBatch, ScanTypeOK
<1>3. ASSUME scanPrinter' # "broken", NEW id PROVE CopiesOf(id)' = CopiesOf(id)
  <2>1. forwarded' = forwarded \o Head(batchesCh) /\ batchesCh' = Tail(batchesCh)
      BY <1>3 DEF PrintBatch
  <2>2. Cardinality(PlacesInAll(batchesCh, id)) =
            Cardinality(PlacesIn(Head(batchesCh), id)) + Cardinality(PlacesInAll(batchesCh', id))
      BY <1>1, <2>1, AllPlacesTail
  <2>3. Cardinality(PlacesIn(forwarded', id)) =
            Cardinality(PlacesIn(forwarded, id)) + Cardinality(PlacesIn(Head(batchesCh), id))
      BY <1>1, <2>1, PlacesConcat
  <2>4. AtWork(id)' = AtWork(id) /\ jobsCh' = jobsCh /\ resultsCh' = resultsCh /\ batch' = batch
      BY DEF PrintBatch, AtWork
  <2>5. Cardinality(PlacesInAll(batchesCh', id)) \in Nat
      BY <1>1, <2>1, AllPlacesCount
  <2>6. Cardinality(PlacesIn(Head(batchesCh), id)) \in Nat
      BY <1>1, PlacesCount
  <2>7. /\ Cardinality(PlacesIn(jobsCh, id)) \in Nat /\ Cardinality(AtWork(id)) \in Nat
        /\ Cardinality(PlacesIn(resultsCh, id)) \in Nat /\ Cardinality(PlacesIn(batch, id)) \in Nat
        /\ Cardinality(PlacesInAll(batchesCh, id)) \in Nat
        /\ Cardinality(PlacesIn(forwarded, id)) \in Nat
      BY <1>1, CopiesAreCounted
  <2> QED
      BY <2>2, <2>3, <2>4, <2>5, <2>6, <2>7 DEF CopiesOf
<1>4. ResultsClosed' = ResultsClosed
    BY DEF PrintBatch, ResultsClosed
<1>5. scanPrinter' # "done"
    BY <1>1 DEF PrintBatch
<1> QED
    BY <1>1, <1>2, <1>3, <1>4, <1>5 DEF PrintBatch, ScanInv

\* Steps that move no result: the report to the supervisor, the end of the
\* stdout task, and a stutter.
LEMMA ScanInvOther ==
    ASSUME ScanInv, TellSupervisor \/ EndPrinter \/ UNCHANGED scanVars PROVE ScanInv'
<1>1. ScanTypeOK'
    BY DEF TellSupervisor, EndPrinter, scanVars, ScanInv, ScanTypeOK
<1>2. \A id : CopiesOf(id)' = CopiesOf(id)
    BY DEF TellSupervisor, EndPrinter, scanVars, CopiesOf, AtWork
<1>3. ResultsClosed' = ResultsClosed
    BY DEF TellSupervisor, EndPrinter, scanVars, ResultsClosed
<1> QED
    BY <1>1, <1>2, <1>3 DEF TellSupervisor, EndPrinter, scanVars, ScanInv

\* Every step keeps the invariant.
LEMMA ScanInvNext == ScanInv /\ [ScanNext]_scanVars => ScanInv'
<1> SUFFICES ASSUME ScanInv, [ScanNext]_scanVars PROVE ScanInv'
    OBVIOUS
<1>1. CASE \E applies \in SUBSET Scanners, filter \in Filters : ReadScanJob(applies, filter)
    BY <1>1, ScanInvRead
<1>2. CASE EndOfJobs
    BY <1>2, ScanInvEndOfJobs
<1>3. ASSUME NEW t \in ScanTasks, ScanTaskStep(t) PROVE ScanInv'
    BY <1>3, ScanInvLock, ScanInvRun, ScanInvEndTask, ScanInvTap, ScanInvSend DEF ScanTaskStep
<1>4. CASE TellSupervisor \/ EndPrinter \/ UNCHANGED scanVars
    BY <1>4, ScanInvOther
<1>5. CASE TakeResult
    BY <1>5, ScanInvTake
<1>6. CASE FlushBatch
    BY <1>6, ScanInvFlushBatch
<1>7. CASE EndBatcher
    BY <1>7, ScanInvEndBatcher
<1>8. CASE PrintBatch
    BY <1>8, ScanInvPrint
<1> QED
    BY <1>1, <1>2, <1>3, <1>4, <1>5, <1>6, <1>7, <1>8 DEF ScanNext, ScannerSteps

\* A process at rest holds nothing: nobody waits in a circle.
LEMMA RestHoldsNothing ==
    ASSUME ScanInv, ScanAtRest, scanPrinter # "broken", ScanTasks # {}
    PROVE  /\ jobsCh = <<>> /\ resultsCh = <<>> /\ batch = <<>> /\ batchesCh = <<>>
           /\ \A id : AtWork(id) = {}
<1>1. /\ batcher \in {"run", "done"} /\ scanPrinter \in {"run", "done"} /\ ScanTypeOK
      /\ \A t \in ScanTasks : scan[t].pc = "ended" => ~pipeOpen /\ jobsCh = <<>>
      /\ \A t \in ScanTasks : scan[t].pc = "recv" <=> holder = t
    BY DEF ScanInv, ScanTypeOK
<1>2. \A t \in ScanTasks : TaskWaits(t)
    BY DEF ScanAtRest
<1>3. batchesCh = <<>>
    BY <1>1 DEF ScanAtRest, PrinterWaits, ScanInv
<1>4. CASE batcher = "done"
  <2>1. ResultsClosed /\ batch = <<>>
      BY <1>4 DEF ScanInv
  <2>2. PICK t \in ScanTasks : TRUE
      OBVIOUS
  <2> QED
      BY <1>1, <1>3, <2>1, <2>2 DEF ResultsClosed, AtWork
<1>5. CASE batcher = "run"
  <2>1. scanPrinter = "run"
      BY <1>1, <1>5 DEF ScanInv
  <2>2. ~FlushWaits
      BY <1>3, <2>1, ScanAssumption DEF FlushWaits
  <2>3. batch = <<>>
      BY <1>5, <2>2 DEF ScanAtRest, BatcherWaits
  <2>4. ~Full(<<>>)
    <3>1. FindingsIn(<<>>) = 0
      <4>1. {p \in (DOMAIN <<>>) \X Scanners : p[2] \in <<>>[p[1]].found} = {}
          OBVIOUS
      <4> QED
          BY <4>1, FS_EmptySet DEF FindingsIn
    <3>2. Len(<<>>) = 0
        OBVIOUS
    <3> QED
        BY <3>1, <3>2, ScanAssumption DEF Full
  <2>5. resultsCh = <<>>
      BY <1>5, <2>3, <2>4 DEF ScanAtRest, BatcherWaits
  <2>6. ASSUME NEW t \in ScanTasks PROVE scan[t].pc \notin {"tap", "send"}
    <3>1. Len(resultsCh) = 0 /\ ScanChanCap > 0
        BY <2>5, ScanAssumption
    <3> QED
        BY <1>2, <1>5, <3>1, ScanAssumption DEF TaskWaits
  <2>7. jobsCh = <<>>
    <3> SUFFICES ASSUME jobsCh # <<>> PROVE FALSE
        OBVIOUS
    <3>1. PICK t \in ScanTasks : TRUE
        OBVIOUS
    <3>2. scan[t].pc = "lock" /\ holder # "none"
        BY <1>1, <1>2, <2>6 DEF TaskWaits
    <3>3. holder \in ScanTasks /\ scan[holder].pc = "recv"
        BY <1>1, <3>2 DEF ScanTypeOK
    <3> QED
        BY <1>2, <3>3 DEF TaskWaits
  <2> QED
      BY <1>3, <2>3, <2>5, <2>6, <2>7 DEF AtWork
<1> QED
    BY <1>1, <1>4, <1>5

\* At rest, then, the one copy of every job that was read is on stdout.
LEMMA RestIsForwarded == ScanInv => RestMeansForwardedOnce
<1> SUFFICES ASSUME ScanInv, ScanAtRest, scanPrinter # "broken", ScanTasks # {}, NEW id \in 1 .. jobsRead
             PROVE  Cardinality(PlacesIn(forwarded, id)) = 1
    BY DEF RestMeansForwardedOnce
<1>1. id \in Nat \ {0} /\ id <= jobsRead /\ ScanTypeOK
    BY DEF ScanInv, ScanTypeOK
<1>2. CopiesOf(id) = 1
    BY <1>1 DEF ScanInv
<1>3. /\ jobsCh = <<>> /\ resultsCh = <<>> /\ batch = <<>> /\ batchesCh = <<>>
      /\ Cardinality(AtWork(id)) = 0
    BY RestHoldsNothing, FS_EmptySet
<1>4. /\ Cardinality(PlacesIn(jobsCh, id)) = 0 /\ Cardinality(PlacesIn(resultsCh, id)) = 0
      /\ Cardinality(PlacesIn(batch, id)) = 0 /\ Cardinality(PlacesInAll(batchesCh, id)) = 0
    BY <1>3, PlacesEmpty, AllPlacesEmpty
<1>5. Cardinality(PlacesIn(forwarded, id)) \in Nat
    BY <1>1, CopiesAreCounted
<1> QED
    BY <1>2, <1>3, <1>4, <1>5 DEF CopiesOf

\* For any number of tasks, jobs and scanners, and any capacities: when the scan
\* process has come to rest behind an unbroken stdout, each job it read has gone
\* out in exactly one batch (worker.rs, main.rs: the shared receiver, the batcher's
\* three flushes, the stdout task).
THEOREM RestForwardsEveryJobOnce == ScanSpec => []RestMeansForwardedOnce
<1>1. ScanSpec => []ScanInv
    BY ScanInvInit, ScanInvNext, PTL DEF ScanSpec
<1> QED
    BY <1>1, RestIsForwarded, PTL

-----------------------------------------------------------------------------
(* BrainWorker: what was flushed stays in the index file. *)

\* The jobs, and what is no index.
LEMMA BrainJobs ==
    /\ Shutdown \in BrainJob
    /\ \A N \in SUBSET BrainNodes : \A items \in [N -> BrainTexts], kind \in {"embed", "other"}, id \in Nat :
         [id |-> id, kind |-> kind, items |-> items] \in BrainJob
    /\ \A j \in BrainJob : DOMAIN j.items \subseteq BrainNodes
    /\ \A f : DOMAIN f \subseteq BrainNodes => f # NoIndex
    /\ DOMAIN <<>> = {}
<1>1. <<>> \in [{} -> BrainTexts]
    OBVIOUS
<1>2. Shutdown \in BrainJob
  <2>1. {} \in SUBSET BrainNodes
      OBVIOUS
  <2> QED
      BY <1>1, <2>1 DEF Shutdown, BrainJob
<1>3. ASSUME NEW N \in SUBSET BrainNodes, NEW items \in [N -> BrainTexts],
             NEW kind \in {"embed", "other"}, NEW id \in Nat
      PROVE  [id |-> id, kind |-> kind, items |-> items] \in BrainJob
    BY DEF BrainJob
<1>4. ASSUME NEW j \in BrainJob PROVE DOMAIN j.items \subseteq BrainNodes
  <2>1. PICK N \in SUBSET BrainNodes : j.items \in [N -> BrainTexts]
      BY DEF BrainJob
  <2> QED
      BY <2>1
<1>5. ASSUME NEW f, DOMAIN f \subseteq BrainNodes PROVE f # NoIndex
  <2>1. DOMAIN NoIndex = {"absent"}
      BY DEF NoIndex
  <2> QED
      BY <2>1, <1>5, BrainAssumption
<1>6. DOMAIN <<>> = {}
    OBVIOUS
<1> QED
    BY <1>2, <1>3, <1>4, <1>5, <1>6

\* Nothing is flushed at the start.
LEMMA FlushInit == BrainInit => FlushInv
<1> SUFFICES ASSUME BrainInit PROVE FlushInv
    OBVIOUS
<1>1. Shutdown \in BrainJob /\ DOMAIN <<>> = {} /\ <<>> \in Seq(BrainJob)
    BY BrainJobs
<1>2. /\ worker \in [pc : {"recv", "work", "send", "ended"} \cup InFlush, job : BrainJob, ok : BOOLEAN]
      /\ worker.pc = "ended"
    BY <1>1 DEF BrainInit, AtRest, InFlush
<1>3. brain \in [state : {"down", "up", "returning"}, backend : {"none", "real", "hash"}, runs : Nat]
      /\ brain.state = "down"
    BY DEF BrainInit
<1>4. BrainTypeOK
    BY <1>1, <1>2, <1>3 DEF BrainInit, BrainTypeOK
<1> QED
    BY <1>2, <1>3, <1>4 DEF BrainInit, FlushInv, FlushedIsKept

\* The fields of the worker task and of the process.
LEMMA BrainFields ==
    ASSUME BrainTypeOK
    PROVE  /\ worker.pc \in {"recv", "work", "send", "ended", "flush", "remove", "rename"}
           /\ worker.job \in BrainJob /\ brain.state \in {"down", "up", "returning"}
           /\ jobQ \in Seq(BrainJob) /\ linesRead \in Nat /\ unread \in BOOLEAN
    BY DEF BrainTypeOK, InFlush

\* A step of the worker task to another place.
LEMMA WorkerGoes ==
    ASSUME BrainTypeOK, NEW pc \in {"recv", "work", "send", "ended", "flush", "remove", "rename"},
           worker' = [worker EXCEPT !.pc = pc]
    PROVE  /\ worker' \in [pc : {"recv", "work", "send", "ended"} \cup InFlush, job : BrainJob, ok : BOOLEAN]
           /\ worker'.pc = pc
    BY DEF BrainTypeOK, InFlush

\* The steps of the stdin and stdout tasks, and the start of a job: neither the
\* index nor the file is touched.
LEMMA FlushFrame ==
    ASSUME FlushInv, BrainTypeOK', UNCHANGED <<vectors, indexBin, indexTmp, flushed, unread>>,
           brain'.state = "down" => worker'.pc = "ended",
           brain'.state # "down" => brain.state # "down",
           worker'.pc \in {"remove", "rename"} => worker'.pc = worker.pc,
           worker.pc = "rename" => worker'.pc = "rename"
    PROVE  FlushInv'
<1>1. FlushedIsKept'
    BY DEF FlushInv, FlushedIsKept, NoIndex
<1> QED
    BY <1>1 DEF FlushInv, NoIndex

\* Start: the index in memory is the one in the file, or else the file is unread.
LEMMA StartKeepsFlushed ==
    ASSUME FlushInv, NEW present \in BOOLEAN, NEW loads \in BOOLEAN, NEW reads \in BOOLEAN,
           StartBrain(present, loads, reads)
    PROVE  FlushInv'
<1>1. /\ brain.state = "down" /\ vectors' = Opened(reads) /\ jobQ' = <<>> /\ worker' = AtRest
      /\ brain' = [state |-> "up", backend |-> LoadBackend(present, loads), runs |-> brain.runs + 1]
      /\ unread' = (indexBin # NoIndex /\ ~reads)
      /\ UNCHANGED <<linesRead, indexBin, indexTmp, flushed>>
    BY DEF StartBrain
<1>2. BrainTypeOK /\ worker.pc = "ended"
    BY <1>1 DEF FlushInv
<1>3. Shutdown \in BrainJob /\ DOMAIN <<>> = {} /\ <<>> \in Seq(BrainJob)
    BY BrainJobs
<1>4. /\ worker' \in [pc : {"recv", "work", "send", "ended"} \cup InFlush, job : BrainJob, ok : BOOLEAN]
      /\ worker'.pc = "recv"
    BY <1>1, <1>3 DEF AtRest, InFlush
<1>5. brain' \in [state : {"down", "up", "returning"}, backend : {"none", "real", "hash"}, runs : Nat]
      /\ brain'.state = "up"
    BY <1>1, <1>2 DEF BrainTypeOK, LoadBackend
<1>6. /\ (indexBin = NoIndex \/ ~reads) => DOMAIN vectors' = {}
      /\ indexBin # NoIndex /\ reads => vectors' = indexBin
    BY <1>1, <1>3 DEF Opened
<1>7. unread' \in BOOLEAN
    BY <1>1
<1>8. BrainTypeOK'
    BY <1>1, <1>2, <1>3, <1>4, <1>5, <1>6, <1>7 DEF BrainTypeOK, NoIndex
<1>9. ~unread' => flushed \subseteq DOMAIN vectors'
    BY <1>1, <1>2, <1>6 DEF FlushInv, FlushedIsKept
<1>10. FlushedIsKept'
    BY <1>1, <1>2 DEF FlushInv, FlushedIsKept, NoIndex
<1> QED
    BY <1>1, <1>4, <1>5, <1>8, <1>9, <1>10 DEF FlushInv

\* A job stores vectors: the index in memory only grows.
LEMMA HandleKeepsFlushed ==
    ASSUME FlushInv, NEW ok \in BOOLEAN, HandleJob(ok)
    PROVE  FlushInv'
<1>t. BrainTypeOK
    BY DEF FlushInv
<1>1. /\ worker.pc = "work" /\ worker' = [worker EXCEPT !.pc = "send", !.ok = ok]
      /\ UNCHANGED <<brain, linesRead, jobQ, indexBin, indexTmp, flushed, unread>>
    BY DEF HandleJob
<1>2. /\ worker' \in [pc : {"recv", "work", "send", "ended"} \cup InFlush, job : BrainJob, ok : BOOLEAN]
      /\ worker'.pc = "send"
    BY <1>1, <1>t DEF BrainTypeOK, InFlush
<1>3. DOMAIN vectors \subseteq DOMAIN vectors' /\ DOMAIN vectors' \subseteq BrainNodes
  <2>1. DOMAIN worker.job.items \subseteq BrainNodes
      BY <1>t, BrainFields, BrainJobs
  <2>2. DOMAIN vectors \subseteq BrainNodes
      BY <1>t DEF BrainTypeOK
  <2>3. vectors' = vectors \/ DOMAIN vectors' = DOMAIN vectors \cup DOMAIN worker.job.items
      BY DEF HandleJob, StoreVectors
  <2> QED
      BY <2>1, <2>2, <2>3
<1>4. BrainTypeOK'
    BY <1>1, <1>2, <1>3, <1>t DEF BrainTypeOK, NoIndex
<1>5. FlushedIsKept'
    BY <1>1 DEF FlushInv, FlushedIsKept, NoIndex
<1> QED
    BY <1>1, <1>2, <1>3, <1>4, <1>5 DEF FlushInv

\* A step of the flush that succeeds.
LEMMA StepKeepsFlushed ==
    ASSUME FlushInv, FlushStep
    PROVE  FlushInv'
<1>t. BrainTypeOK /\ brain.state # "down" /\ DOMAIN vectors \subseteq BrainNodes
    BY DEF FlushInv, FlushStep, InFlush, BrainTypeOK
<1>u. UNCHANGED <<brain, linesRead, jobQ, vectors, unread>>
    BY DEF FlushStep
<1>1. CASE worker.pc = "flush" /\ worker' = [worker EXCEPT !.pc = "ended"]
           /\ UNCHANGED <<indexBin, indexTmp, flushed>>
  <2>1. /\ worker' \in [pc : {"recv", "work", "send", "ended"} \cup InFlush, job : BrainJob, ok : BOOLEAN]
        /\ worker'.pc = "ended"
      BY <1>1, <1>t, WorkerGoes
  <2>2. BrainTypeOK'
      BY <1>1, <1>t, <1>u, <2>1 DEF BrainTypeOK, NoIndex
  <2> QED
      BY <1>1, <1>t, <1>u, <2>1, <2>2, FlushFrame
<1>2. CASE worker.pc = "flush" /\ indexTmp' = vectors /\ worker' = [worker EXCEPT !.pc = "remove"]
           /\ UNCHANGED <<indexBin, flushed>>
  <2>1. /\ worker' \in [pc : {"recv", "work", "send", "ended"} \cup InFlush, job : BrainJob, ok : BOOLEAN]
        /\ worker'.pc = "remove"
      BY <1>2, <1>t, WorkerGoes
  <2>2. BrainTypeOK'
      BY <1>2, <1>t, <1>u, <2>1 DEF BrainTypeOK, NoIndex
  <2>3. FlushedIsKept'
      BY <1>2, <1>u DEF FlushInv, FlushedIsKept, NoIndex
  <2> QED
      BY <1>2, <1>t, <1>u, <2>1, <2>2, <2>3 DEF FlushInv, NoIndex
<1>3. CASE worker.pc = "remove" /\ indexBin' = NoIndex /\ worker' = [worker EXCEPT !.pc = "rename"]
           /\ flushed' = (IF unread THEN {} ELSE flushed) /\ UNCHANGED indexTmp
  <2>1. /\ worker' \in [pc : {"recv", "work", "send", "ended"} \cup InFlush, job : BrainJob, ok : BOOLEAN]
        /\ worker'.pc = "rename"
      BY <1>3, <1>t, WorkerGoes
  <2>2. flushed' \subseteq BrainNodes
      BY <1>3, <1>t DEF BrainTypeOK
  <2>3. BrainTypeOK'
      BY <1>3, <1>t, <1>u, <2>1, <2>2 DEF BrainTypeOK, NoIndex
  <2>4. FlushedIsKept'
      BY <2>1 DEF FlushedIsKept
  <2>5. flushed' \subseteq DOMAIN vectors'
      BY <1>3, <1>t, <1>u DEF FlushInv
  <2> QED
      BY <1>3, <1>t, <1>u, <2>1, <2>3, <2>4, <2>5 DEF FlushInv, NoIndex
<1>4. CASE /\ worker.pc = "rename" /\ indexBin' = indexTmp /\ indexTmp' = NoIndex
           /\ flushed' = flushed \cup DOMAIN indexTmp /\ worker' = [worker EXCEPT !.pc = "ended"]
  <2>1. /\ worker' \in [pc : {"recv", "work", "send", "ended"} \cup InFlush, job : BrainJob, ok : BOOLEAN]
        /\ worker'.pc = "ended"
      BY <1>4, <1>t, WorkerGoes
  <2>2. indexTmp = vectors
      BY <1>4 DEF FlushInv
  <2>3. indexTmp # NoIndex /\ DOMAIN indexTmp \subseteq BrainNodes
      BY <2>2, <1>t, BrainJobs
  <2>4. BrainTypeOK'
      BY <1>4, <1>t, <1>u, <2>1, <2>3 DEF BrainTypeOK, NoIndex
  <2>5. flushed' \subseteq DOMAIN indexTmp /\ flushed' \subseteq DOMAIN vectors'
      BY <1>4, <1>t, <1>u, <2>2 DEF FlushInv
  <2>6. FlushedIsKept'
      BY <1>4, <2>3, <2>5 DEF FlushedIsKept, NoIndex
  <2> QED
      BY <1>t, <1>u, <2>1, <2>4, <2>5, <2>6 DEF FlushInv
<1> QED
    BY <1>1, <1>2, <1>3, <1>4 DEF FlushStep

\* A flush that fails, the end of main, a kill: memory is lost, and the file is
\* what it was.
LEMMA StopKeepsFlushed ==
    ASSUME FlushInv, FlushFails \/ MainReturns \/ KillBrain
    PROVE  FlushInv'
<1>t. worker.pc # "rename" /\ flushed # {} => indexBin # NoIndex /\ flushed \subseteq DOMAIN indexBin
    BY DEF FlushInv, FlushedIsKept
<1>b. BrainTypeOK
    BY DEF FlushInv
<1>l. flushed' = {} \/ (flushed' = flushed /\ worker.pc # "rename")
    BY DEF FlushFails, MainReturns, KillBrain, LostInGap, InFlush
<1>f. flushed' \subseteq BrainNodes /\ (~unread => flushed' \subseteq DOMAIN vectors \/ brain.state = "down")
    BY <1>l, <1>b DEF FlushInv, BrainTypeOK
<1>1. CASE FlushFails
  <2>1. /\ worker.pc \in InFlush /\ worker' = [worker EXCEPT !.pc = "ended"]
        /\ UNCHANGED <<brain, linesRead, jobQ, vectors, indexBin, indexTmp, unread>>
      BY <1>1 DEF FlushFails
  <2>2. /\ worker' \in [pc : {"recv", "work", "send", "ended"} \cup InFlush, job : BrainJob, ok : BOOLEAN]
        /\ worker'.pc = "ended"
      BY <2>1, <1>b, WorkerGoes
  <2>3. BrainTypeOK'
      BY <2>1, <2>2, <1>b, <1>f DEF BrainTypeOK, NoIndex
  <2>4. FlushedIsKept'
      BY <2>1, <1>t, <1>l DEF FlushedIsKept, NoIndex
  <2> QED
      BY <1>f, <2>1, <2>2, <2>3, <2>4 DEF FlushInv, NoIndex
<1>2. CASE MainReturns \/ KillBrain
  <2>1. /\ brain' = [brain EXCEPT !.state = "down", !.backend = "none"]
        /\ worker' = [AtRest EXCEPT !.pc = "ended"] /\ jobQ' = <<>> /\ vectors' = <<>>
        /\ unread' = FALSE /\ UNCHANGED <<linesRead, indexBin, indexTmp>>
      BY <1>2 DEF MainReturns, KillBrain, Stopped
  <2>2. unread' \in BOOLEAN
      BY <2>1
  <2>3. Shutdown \in BrainJob /\ DOMAIN <<>> = {} /\ <<>> \in Seq(BrainJob)
      BY BrainJobs
  <2>4. /\ worker' \in [pc : {"recv", "work", "send", "ended"} \cup InFlush, job : BrainJob, ok : BOOLEAN]
        /\ worker'.pc = "ended"
      BY <2>1, <2>3 DEF AtRest, InFlush
  <2>5. brain' \in [state : {"down", "up", "returning"}, backend : {"none", "real", "hash"}, runs : Nat]
        /\ brain'.state = "down"
      BY <2>1, <1>b DEF BrainTypeOK
  <2>6. BrainTypeOK'
      BY <2>1, <2>2, <2>3, <2>4, <2>5, <1>b, <1>f DEF BrainTypeOK, NoIndex
  <2>7. FlushedIsKept'
      BY <2>1, <1>t, <1>l DEF FlushedIsKept, NoIndex
  <2> QED
      BY <2>1, <2>4, <2>5, <2>6, <2>7 DEF FlushInv
<1> QED
    BY <1>1, <1>2

\* The stdin task reads a job, or the end of its input.
LEMMA ReadKeepsFlushed ==
    ASSUME FlushInv,
           \/ \E N \in SUBSET BrainNodes : \E items \in [N -> BrainTexts] : ReadBrainJob("embed", items)
           \/ ReadBrainJob("other", <<>>)
           \/ BrainEof
    PROVE  FlushInv'
<1>b. BrainTypeOK /\ jobQ \in Seq(BrainJob) /\ linesRead \in Nat
    BY DEF FlushInv, BrainTypeOK
<1>1. ASSUME NEW kind \in {"embed", "other"}, NEW N \in SUBSET BrainNodes, NEW items \in [N -> BrainTexts],
             ReadBrainJob(kind, items)
      PROVE  FlushInv'
  <2>1. /\ linesRead' = linesRead + 1
        /\ jobQ' = Append(jobQ, [id |-> linesRead + 1, kind |-> kind, items |-> items])
        /\ UNCHANGED <<brain, worker, vectors, indexBin, indexTmp, flushed, unread>>
      BY <1>1 DEF ReadBrainJob
  <2>2. linesRead + 1 \in Nat
      BY <1>b
  <2>3. [id |-> linesRead + 1, kind |-> kind, items |-> items] \in BrainJob
      BY <2>2, BrainJobs
  <2>4. jobQ' \in Seq(BrainJob)
      BY <2>1, <2>3, <1>b
  <2>5. BrainTypeOK'
      BY <2>1, <2>2, <2>4, <1>b DEF BrainTypeOK, NoIndex
  <2> QED
      BY <2>1, <2>5, FlushFrame DEF FlushInv
<1>2. CASE BrainEof
  <2>1. /\ jobQ' = Append(jobQ, Shutdown) /\ brain.state = "up"
        /\ brain' = [brain EXCEPT !.state = "returning"]
        /\ UNCHANGED <<linesRead, worker, vectors, indexBin, indexTmp, flushed, unread>>
      BY <1>2 DEF BrainEof
  <2>2. jobQ' \in Seq(BrainJob)
      BY <2>1, <1>b, BrainJobs
  <2>3. brain' \in [state : {"down", "up", "returning"}, backend : {"none", "real", "hash"}, runs : Nat]
        /\ brain'.state = "returning"
      BY <2>1, <1>b DEF BrainTypeOK
  <2>4. BrainTypeOK'
      BY <2>1, <2>2, <2>3, <1>b DEF BrainTypeOK, NoIndex
  <2> QED
      BY <2>1, <2>3, <2>4, FlushFrame DEF FlushInv
<1>3. {} \in SUBSET BrainNodes /\ <<>> \in [{} -> BrainTexts]
    OBVIOUS
<1> QED
    BY <1>1, <1>2, <1>3

\* The worker takes a job or hands its result over; the stdout task writes.
LEMMA PassKeepsFlushed ==
    ASSUME FlushInv, TakeBrainJob \/ SendBrainResult \/ PrintResult
    PROVE  FlushInv'
<1>b. BrainTypeOK /\ jobQ \in Seq(BrainJob)
    BY DEF FlushInv, BrainTypeOK
<1>1. CASE TakeBrainJob
  <2>1. PICK pc \in {"flush", "work"}, job \in BrainJob :
            worker' = [worker EXCEPT !.pc = pc, !.job = job]
    <3>1. Head(jobQ) \in BrainJob
        BY <1>1, <1>b DEF TakeBrainJob
    <3>2. worker' = [worker EXCEPT !.pc = IF Head(jobQ) = Shutdown THEN "flush" ELSE "work",
                                   !.job = Head(jobQ)]
        BY <1>1 DEF TakeBrainJob
    <3>3. (IF Head(jobQ) = Shutdown THEN "flush" ELSE "work") \in {"flush", "work"}
        OBVIOUS
    <3> QED
        BY <3>1, <3>2, <3>3, Zenon
  <2>2. /\ worker.pc = "recv" /\ jobQ' = Tail(jobQ) /\ jobQ # <<>>
        /\ UNCHANGED <<brain, linesRead, vectors, indexBin, indexTmp, flushed, unread>>
      BY <1>1 DEF TakeBrainJob
  <2>3. /\ worker' \in [pc : {"recv", "work", "send", "ended"} \cup InFlush, job : BrainJob, ok : BOOLEAN]
        /\ worker'.pc = pc
      BY <2>1, <1>b DEF BrainTypeOK, InFlush
  <2>4. jobQ' \in Seq(BrainJob)
      BY <2>2, <1>b
  <2>5. BrainTypeOK'
      BY <2>2, <2>3, <2>4, <1>b DEF BrainTypeOK, NoIndex
  <2>6. brain'.state # "down"
      BY <2>2 DEF FlushInv
  <2> QED
      BY <2>2, <2>3, <2>5, <2>6, FlushFrame
<1>2. CASE SendBrainResult
  <2>1. /\ worker.pc = "send" /\ worker' = AtRest
        /\ UNCHANGED <<brain, linesRead, jobQ, vectors, indexBin, indexTmp, flushed, unread>>
      BY <1>2 DEF SendBrainResult
  <2>2. /\ worker' \in [pc : {"recv", "work", "send", "ended"} \cup InFlush, job : BrainJob, ok : BOOLEAN]
        /\ worker'.pc = "recv"
      BY <2>1, BrainJobs DEF AtRest, InFlush
  <2>3. BrainTypeOK'
      BY <2>1, <2>2, <1>b DEF BrainTypeOK, NoIndex
  <2>4. brain'.state # "down"
      BY <2>1 DEF FlushInv
  <2> QED
      BY <2>1, <2>2, <2>3, <2>4, FlushFrame
<1>3. CASE PrintResult
  <2>1. UNCHANGED <<brain, worker, linesRead, jobQ, vectors, indexBin, indexTmp, flushed, unread>>
      BY <1>3 DEF PrintResult
  <2>2. BrainTypeOK'
      BY <2>1, <1>b DEF BrainTypeOK, NoIndex
  <2> QED
      BY <2>1, <2>2, FlushFrame DEF FlushInv
<1> QED
    BY <1>1, <1>2, <1>3

\* Every step of the brain process keeps the invariant.
LEMMA FlushNext == FlushInv /\ [BrainNext]_brainVars => FlushInv'
<1> SUFFICES ASSUME FlushInv, [BrainNext]_brainVars PROVE FlushInv'
    OBVIOUS
<1>1. CASE UNCHANGED brainVars
  <2>1. UNCHANGED <<brain, worker, linesRead, jobQ, vectors, indexBin, indexTmp, flushed, unread>>
      BY <1>1 DEF brainVars
  <2>2. BrainTypeOK'
      BY <2>1 DEF FlushInv, BrainTypeOK, NoIndex
  <2> QED
      BY <2>1, <2>2, FlushFrame DEF FlushInv
<1>2. CASE \E present, loads, reads \in BOOLEAN : StartBrain(present, loads, reads)
    BY <1>2, StartKeepsFlushed
<1>3. CASE \/ \E N \in SUBSET BrainNodes : \E items \in [N -> BrainTexts] : ReadBrainJob("embed", items)
           \/ ReadBrainJob("other", <<>>)
           \/ BrainEof
    BY <1>3, ReadKeepsFlushed
<1>4. CASE TakeBrainJob \/ SendBrainResult \/ PrintResult
    BY <1>4, PassKeepsFlushed
<1>5. CASE FlushStep
    BY <1>5, StepKeepsFlushed
<1>6. CASE FlushFails \/ MainReturns \/ KillBrain
    BY <1>6, StopKeepsFlushed
<1>7. CASE \E ok \in BOOLEAN : HandleJob(ok)
    BY <1>7, HandleKeepsFlushed
<1> QED
    BY <1>1, <1>2, <1>3, <1>4, <1>5, <1>6, <1>7 DEF BrainNext

\* For any nodes, texts, capacities and number of kills and restarts: a node that
\* EmbedStore::flush put into index.bin stays there, unless a flush stopped between
\* removing the old file and renaming the new one, or a process that could not
\* read the file flushed over it.
THEOREM FlushedStaysOnDisk == BrainSpec => []FlushedIsKept
<1>1. FlushInv => FlushedIsKept
    BY DEF FlushInv
<1> QED
    BY <1>1, FlushInit, FlushNext, PTL DEF BrainSpec


-----------------------------------------------------------------------------
(* StoreLifecycle: no operation destroys a row it was not told to. *)

\* What is in a copy, and what survives, row by row.
CopyRows ==
    \A r : r \in Copies <=> \/ r \in away.rows \/ r \in excused
                            \/ \E s \in Stamps, l \in LayerSet : r \in snaps[s][l]
SurvivingRows ==
    RowsSurvive <=> \A r \in acked : \/ r \in Copies
                                     \/ \E i \in Inodes \cup away.inodes : r \in inode[i].rows
InodeNames ==
    \A i : i \in Inodes <=> i \in Used /\ \E l \in LayerSet : i = shard[l] \/ \E n \in AsideNames : i = aside[l][n]

\* Which rows have a copy, said without the unions.
LEMMA RowsInCopies == LifecycleTypeOK => CopyRows /\ SurvivingRows /\ InodeNames
<1> SUFFICES ASSUME LifecycleTypeOK PROVE CopyRows /\ SurvivingRows /\ InodeNames
    OBVIOUS
<1>1. \A r : r \in Copies <=> \/ r \in away.rows \/ r \in excused
                              \/ \E s \in Stamps, l \in LayerSet : r \in snaps[s][l]
    BY DEF Copies
<1>2. \A i \in Used : RowsIn(i) = inode[i].rows
  <2>1. \A i \in Used : i # 0
      BY LifecycleAssumption DEF LifecycleTypeOK, FilesOK
  <2> QED
      BY <2>1 DEF RowsIn
<1>3. Inodes \subseteq Used /\ away.inodes \subseteq Used
    BY DEF LifecycleTypeOK, FilesOK, Inodes
<1>4. \A r : r \in Kept <=> \/ \E i \in Inodes : r \in RowsIn(i)
                            \/ \E s \in Stamps, l \in LayerSet : r \in snaps[s][l]
    BY DEF Kept
<1>5. \A r : r \in UNION {RowsIn(i) : i \in away.inodes} <=> \E i \in away.inodes : r \in RowsIn(i)
    OBVIOUS
<1>6. RowsSurvive <=> \A r \in acked : \/ r \in excused \/ r \in Kept \/ r \in away.rows
                                       \/ r \in UNION {RowsIn(i) : i \in away.inodes}
    BY DEF RowsSurvive
<1>7. InodeNames
    BY DEF InodeNames, Inodes
<1> QED
    BY <1>1, <1>2, <1>3, <1>4, <1>5, <1>6, <1>7 DEF CopyRows, SurvivingRows

\* The same of the state after a step.
LEMMA RowsInCopiesNext == (LifecycleTypeOK => CopyRows /\ SurvivingRows /\ InodeNames)'
    BY RowsInCopies, PTL

\* A step keeps the invariant when copies only grow, rows leave a file only into
\* a copy, a file that loses its last name is doomed, and the rows of doomed files
\* and those that a restore or a repair may copy over are in a copy.
LEMMA LifecycleStep ==
    ASSUME LifecycleInv, LifecycleTypeOK', Copies \subseteq Copies', doomed \subseteq doomed',
           \A i \in Used : i \in Used' /\ inode[i].rows \subseteq inode'[i].rows \cup Copies',
           \A i \in Inodes \cup away.inodes : \/ i \in Inodes' \cup away'.inodes
                                              \/ i \in doomed' /\ inode[i].rows \subseteq Copies',
           \A i \in Used' : i \in Used \cup Inodes',
           \A r \in acked' : \/ r \in acked \cup Copies'
                             \/ \E i \in Inodes' \cup away'.inodes : r \in inode'[i].rows,
           \A i \in doomed' : inode'[i].rows \subseteq Copies',
           \A c \in Conns, l \in LayerSet : HalfWay(c, l)' => RowsIn(shard[l])' \subseteq Copies'
    PROVE  LifecycleInv'
<1>1. CopyRows /\ SurvivingRows /\ InodeNames
    BY RowsInCopies DEF LifecycleInv
<1>2. CopyRows' /\ SurvivingRows' /\ InodeNames'
    BY RowsInCopiesNext
<1>3. ASSUME NEW r \in acked, r \notin Copies'
      PROVE  \E i \in Inodes' \cup away'.inodes : r \in inode'[i].rows
  <2>1. r \notin Copies
      BY <1>3
  <2>2. PICK i \in Inodes \cup away.inodes : r \in inode[i].rows
      BY <1>1, <2>1 DEF LifecycleInv, SurvivingRows
  <2>3. i \in Used
      BY <1>1, <2>2 DEF InodeNames, LifecycleInv, LifecycleTypeOK, FilesOK
  <2> QED
      BY <1>3, <2>2, <2>3
<1>4. RowsSurvive'
    BY <1>2, <1>3 DEF SurvivingRows
<1>5. Used' \subseteq Inodes' \cup away'.inodes \cup doomed'
    BY DEF LifecycleInv
<1> QED
    BY <1>4, <1>5 DEF LifecycleInv

\* The next file gets a number of its own.
LEMMA NewFile ==
    ASSUME FilesOK, NEW content \in LifecycleContent, NewInode(content)
    PROVE  /\ Created \notin Used /\ Created # 0 /\ Used' = Used \cup {Created}
           /\ \E n \in 0 .. MaxInodes : Used' = 1 .. n
           /\ inode' \in [Used' -> LifecycleContent] /\ inode'[Created] = content
           /\ \A i \in Used : inode'[i] = inode[i]
<1>1. PICK n \in 0 .. MaxInodes : Used = 1 .. n
    BY DEF FilesOK
<1>2. MaxInodes \in Nat
    BY LifecycleAssumption
<1>3. Cardinality(Used) = n
  <2>1. Cardinality(1 .. n) = IF 1 > n THEN 0 ELSE n - 1 + 1
      BY <1>1, <1>2, FS_Interval
  <2> QED
      BY <1>1, <1>2, <2>1
<1>4. Created = n + 1
    BY <1>3 DEF Created
<1>5. n + 1 \in 0 .. MaxInodes /\ inode' = [i \in Used \cup {n + 1} |-> IF i \in Used THEN inode[i] ELSE content]
    BY <1>1, <1>2, <1>3 DEF NewInode
<1>6. n + 1 \notin Used /\ Used \cup {n + 1} = 1 .. n + 1 /\ n + 1 # 0
    BY <1>1, <1>2
<1>7. inode \in [Used -> LifecycleContent]
    BY DEF FilesOK
<1>8. Used' = Used \cup {n + 1}
    BY <1>5 DEF Used
<1>9. inode' \in [Used' -> LifecycleContent]
    BY <1>5, <1>7, <1>8
<1> QED
    BY <1>4, <1>5, <1>6, <1>8, <1>9

\* The next layer of a request, or its end; and its beginning.
LEMMA RequestTurns ==
    ASSUME LifecycleTypeOK, NEW c \in Conns, req[c] # NoReq, LayerDone(c) \/ Answers(c)
    PROVE  RequestsOK' /\ \A d \in Conns, l \in LayerSet : HalfWay(d, l)' => HalfWay(d, l) /\ d # c
<1>1. /\ req[c] \in LifecycleRequest /\ req \in [Conns -> {NoReq} \cup LifecycleRequest]
      /\ \A d \in Conns : req[d].op \in {"snapshot", "restore"} => req[d].at \in Stamps
    BY DEF LifecycleTypeOK, RequestsOK
<1>2. NoReq.op = "none" /\ ~NoReq.half
    BY DEF NoReq
<1>3. PICK next \in {NoReq} \cup LifecycleRequest :
            /\ req' = [req EXCEPT ![c] = next] /\ ~next.half
            /\ next.op = "none" \/ (next.op = req[c].op /\ next.at = req[c].at)
  <2>1. CASE req' = [req EXCEPT ![c] = NoReq]
    <3>1. NoReq \in {NoReq} \cup LifecycleRequest
        OBVIOUS
    <3> QED
        BY <1>2, <2>1, <3>1
  <2>2. CASE LayerDone(c) /\ Tail(req[c].todo) # <<>>
    <3> DEFINE next == [req[c] EXCEPT !.todo = Tail(req[c].todo), !.half = FALSE]
    <3>1. req' = [req EXCEPT ![c] = next]
        BY <2>2, <1>1 DEF LayerDone
    <3>2. Tail(req[c].todo) \in Seq(LayerSet) \ {<<>>}
      <4>1. req[c].todo \in Seq(LayerSet) /\ req[c].todo # <<>>
          BY <1>1 DEF LifecycleRequest
      <4> QED
          BY <4>1, <2>2
    <3>3. next \in LifecycleRequest /\ ~next.half /\ next.op = req[c].op /\ next.at = req[c].at
        BY <1>1, <3>2 DEF LifecycleRequest
    <3> HIDE DEF next
    <3> QED
        BY <3>1, <3>3
  <2> QED
      BY <2>1, <2>2 DEF LayerDone, Answers
<1>4. /\ req' \in [Conns -> {NoReq} \cup LifecycleRequest] /\ req'[c] = next
      /\ \A d \in Conns : d # c => req'[d] = req[d]
    BY <1>1, <1>3
<1> QED
    BY <1>1, <1>3, <1>4 DEF RequestsOK, HalfWay

\* A step that changes no file and no name; rows may be given up.
LEMMA FilesStay ==
    ASSUME LifecycleInv, LifecycleTypeOK', UNCHANGED <<shard, inode, aside, snaps, away, acked, doomed>>,
           excused \subseteq excused',
           \A c \in Conns, l \in LayerSet :
               HalfWay(c, l)' => HalfWay(c, l) \/ RowsIn(shard[l]) \subseteq excused'
    PROVE  LifecycleInv'
<1>1. Copies \subseteq Copies' /\ excused' \subseteq Copies' /\ Inodes' = Inodes /\ Used' = Used
    BY DEF Copies, Inodes, Used
<1>2. \A l \in LayerSet : RowsIn(shard[l])' = RowsIn(shard[l])
    BY DEF RowsIn
<1>3. \A i \in doomed' : inode'[i].rows \subseteq Copies'
    BY <1>1 DEF LifecycleInv
<1>4. \A c \in Conns, l \in LayerSet : HalfWay(c, l)' => RowsIn(shard[l])' \subseteq Copies'
    BY <1>1, <1>2 DEF LifecycleInv
<1> QED
    BY <1>1, <1>3, <1>4, LifecycleStep

\* A file is made in the empty place of a layer, with rows that are in a copy.
LEMMA NewFileKeeps ==
    ASSUME LifecycleInv, NEW l \in LayerSet, NEW content \in LifecycleContent, Creates(l, content),
           content.rows \subseteq Copies,
           holds' = holds \/ holds' = [holds EXCEPT ![l] = shard'[l]],
           UNCHANGED <<aside, snaps, away, stamp, acked, excused>>, RequestsOK',
           \A c \in Conns, k \in LayerSet : HalfWay(c, k)' => HalfWay(c, k)
    PROVE  LifecycleInv'
<1>1. LifecycleTypeOK /\ FilesOK
    BY DEF LifecycleInv, LifecycleTypeOK
<1>2. /\ Created \notin Used /\ Created # 0 /\ Used' = Used \cup {Created}
      /\ \E n \in 0 .. MaxInodes : Used' = 1 .. n
      /\ inode' \in [Used' -> LifecycleContent] /\ inode'[Created] = content
      /\ \A i \in Used : inode'[i] = inode[i]
    BY <1>1, NewFile DEF Creates
<1>3. /\ shard' \in [LayerSet -> Used' \cup {0}] /\ shard'[l] = Created
      /\ \A k \in LayerSet : k # l => shard'[k] = shard[k]
      /\ doomed \subseteq doomed' /\ doomed' \subseteq doomed \cup {Created}
    BY <1>1, <1>2 DEF FilesOK, Creates
<1>4. LifecycleTypeOK'
  <2>1. holds' \in [LayerSet -> Used' \cup {0}] /\ doomed' \subseteq Used'
      BY <1>1, <1>2, <1>3 DEF FilesOK
  <2>2. aside' \in [LayerSet -> [AsideNames -> Used' \cup {0}]] /\ away' \in [rows : SUBSET Nat, inodes : SUBSET Used']
      BY <1>1, <1>2 DEF FilesOK
  <2>3. snaps' \in [Stamps -> [LayerSet -> SUBSET Nat]] /\ stamp' \in Stamps /\ \E n \in 0 .. MaxRows : acked' = 1 .. n
      BY <1>1 DEF FilesOK
  <2> QED
      BY <1>2, <1>3, <2>1, <2>2, <2>3 DEF LifecycleTypeOK, FilesOK
<1>5. Copies' = Copies
    BY DEF Copies
<1>6. InodeNames /\ InodeNames'
    BY <1>1, <1>4, RowsInCopies, RowsInCopiesNext
<1>7. Inodes \subseteq Inodes' /\ Created \in Inodes'
  <2>1. shard[l] = 0 /\ \A i \in Used : i # 0
      BY <1>1, LifecycleAssumption DEF Creates, FilesOK
  <2> QED
      BY <1>1, <1>2, <1>3, <1>6, <2>1 DEF InodeNames
<1>8. ASSUME NEW c \in Conns, NEW k \in LayerSet, HalfWay(c, k)'
      PROVE  RowsIn(shard[k])' \subseteq Copies'
  <2>1. RowsIn(shard[k]) \subseteq Copies
      BY <1>8 DEF LifecycleInv
  <2>2. shard'[k] # 0 => inode'[shard'[k]].rows \subseteq Copies
      BY <1>1, <1>2, <1>3, <2>1 DEF RowsIn, FilesOK
  <2> QED
      BY <1>5, <2>2 DEF RowsIn
<1>9. \A i \in doomed' : inode'[i].rows \subseteq Copies'
    BY <1>1, <1>2, <1>3, <1>5 DEF LifecycleInv, FilesOK
<1> QED
    BY <1>2, <1>3, <1>4, <1>5, <1>7, <1>8, <1>9, LifecycleStep

\* A file changes; the rows it gains or loses are in a copy, and if it is doomed by
\* the step, the ones it is left with as well.
LEMMA ChangedFileKeeps ==
    ASSUME LifecycleInv, NEW f \in Used, NEW content \in LifecycleContent,
           inode' = [inode EXCEPT ![f] = content],
           content.rows \subseteq inode[f].rows \cup Copies,
           inode[f].rows \subseteq content.rows \cup Copies,
           doomed \subseteq doomed', doomed' \subseteq doomed \cup {f},
           f \in doomed' => f \in doomed \/ content.rows \subseteq Copies,
           UNCHANGED <<shard, holds, aside, snaps, away, stamp, acked, excused>>, RequestsOK',
           \A c \in Conns, k \in LayerSet : HalfWay(c, k)' => HalfWay(c, k)
    PROVE  LifecycleInv'
<1>1. LifecycleTypeOK /\ FilesOK /\ inode \in [Used -> LifecycleContent]
    BY DEF LifecycleInv, LifecycleTypeOK, FilesOK
<1>2. /\ Used' = Used /\ inode' \in [Used -> LifecycleContent]
      /\ inode'[f].rows = content.rows /\ \A i \in Used : i # f => inode'[i].rows = inode[i].rows
    BY <1>1 DEF Used
<1>3. LifecycleTypeOK'
  <2>1. doomed' \subseteq Used'
      BY <1>1, <1>2 DEF FilesOK
  <2>2. FilesOK'
      BY <1>1, <1>2, <2>1 DEF FilesOK
  <2> QED
      BY <2>2 DEF LifecycleTypeOK
<1>4. Copies' = Copies /\ Inodes' = Inodes
    BY <1>2 DEF Copies, Inodes
<1>5. ASSUME NEW c \in Conns, NEW k \in LayerSet, HalfWay(c, k)'
      PROVE  RowsIn(shard[k])' \subseteq Copies'
  <2>1. RowsIn(shard[k]) \subseteq Copies
      BY <1>5 DEF LifecycleInv
  <2>2. shard'[k] # 0 => inode'[shard'[k]].rows \subseteq Copies
      BY <1>1, <1>2, <2>1 DEF RowsIn, FilesOK
  <2> QED
      BY <1>4, <2>2 DEF RowsIn
<1>6. \A i \in doomed' : inode'[i].rows \subseteq Copies'
    BY <1>1, <1>2, <1>4 DEF LifecycleInv, FilesOK
<1>7. \A i \in Used : i \in Used' /\ inode[i].rows \subseteq inode'[i].rows \cup Copies'
    BY <1>2, <1>4
<1>8. \A r \in acked' : r \in acked \cup Copies'
    OBVIOUS
<1>9. \A i \in Inodes \cup away.inodes : i \in Inodes' \cup away'.inodes
    BY <1>4
<1> QED
    BY <1>2, <1>3, <1>4, <1>5, <1>6, <1>7, <1>8, <1>9, LifecycleStep

\* The schema is applied, a file is damaged or mended: it keeps its rows.
LEMMA SameRowsKeep ==
    ASSUME LifecycleInv, NEW l \in LayerSet, shard[l] # 0, NEW schema \in BOOLEAN, NEW sound \in BOOLEAN,
           inode' = [inode EXCEPT ![shard[l]] = [rows |-> inode[shard[l]].rows, schema |-> schema, sound |-> sound]],
           UNCHANGED <<shard, holds, aside, snaps, away, stamp, acked, excused, doomed>>, RequestsOK',
           \A c \in Conns, k \in LayerSet : HalfWay(c, k)' => HalfWay(c, k)
    PROVE  LifecycleInv'
<1>1. inode \in [Used -> LifecycleContent] /\ shard[l] \in Used
    BY DEF LifecycleInv, LifecycleTypeOK, FilesOK
<1>2. PICK content : content = [rows |-> inode[shard[l]].rows, schema |-> schema, sound |-> sound]
    OBVIOUS
<1>3. content \in LifecycleContent /\ content.rows = inode[shard[l]].rows
    BY <1>1, <1>2 DEF LifecycleContent
<1> QED
    BY <1>1, <1>2, <1>3, ChangedFileKeeps

\* One field of a file changes.
LEMMA FileFields ==
    ASSUME LifecycleTypeOK, NEW i \in Used
    PROVE  /\ inode[i].rows \in SUBSET Nat /\ inode[i].schema \in BOOLEAN /\ inode[i].sound \in BOOLEAN
           /\ \A x : [inode[i] EXCEPT !.schema = x]
                        = [rows |-> inode[i].rows, schema |-> x, sound |-> inode[i].sound]
           /\ \A x : [inode[i] EXCEPT !.sound = x]
                        = [rows |-> inode[i].rows, schema |-> inode[i].schema, sound |-> x]
    BY DEF LifecycleTypeOK, FilesOK, LifecycleContent

\* Empty files, and those that restore and repair write.
LEMMA NewContents ==
    /\ Fresh1 \in LifecycleContent /\ Fresh1.rows = {}
    /\ [Fresh1 EXCEPT !.schema = TRUE] \in LifecycleContent /\ [Fresh1 EXCEPT !.schema = TRUE].rows = {}
    BY DEF Fresh1, LifecycleContent

\* build_or_migrate.
LEMMA InitKeepsRows ==
    ASSUME LifecycleInv, NEW c \in Conns, NEW l \in LayerSet, InitShard(c, l)
    PROVE  LifecycleInv'
<1>1. LifecycleTypeOK /\ RequestsOK /\ shard[l] \in Used \cup {0}
    BY DEF LifecycleInv, LifecycleTypeOK, FilesOK
<1>2. req[c].op = "build" /\ LayerDone(c) /\ UNCHANGED <<holds, aside, snaps, away, stamp, acked, excused>>
    BY DEF InitShard, At1
<1>3. RequestsOK' /\ \A d \in Conns, k \in LayerSet : HalfWay(d, k)' => HalfWay(d, k)
    BY <1>1, <1>2, RequestTurns DEF NoReq
<1>4. CASE shard[l] # 0 /\ inode' = [inode EXCEPT ![shard[l]].schema = TRUE] /\ UNCHANGED <<shard, doomed>>
  <2>1. inode' = [inode EXCEPT ![shard[l]] = [inode[shard[l]] EXCEPT !.schema = TRUE]]
      BY <1>4
  <2>2. inode' = [inode EXCEPT ![shard[l]] = [rows |-> inode[shard[l]].rows, schema |-> TRUE,
                                              sound |-> inode[shard[l]].sound]]
      BY <1>1, <1>4, <2>1, FileFields
  <2>3. inode[shard[l]].sound \in BOOLEAN
      BY <1>1, <1>4, FileFields
  <2> QED
      BY <1>2, <1>3, <1>4, <2>2, <2>3, SameRowsKeep
<1>5. CASE Creates(l, [Fresh1 EXCEPT !.schema = TRUE])
    BY <1>2, <1>3, <1>5, NewContents, NewFileKeeps
<1> QED
    BY <1>4, <1>5 DEF InitShard

\* The first write of a layer.
LEMMA OpeningKeepsRows ==
    ASSUME LifecycleInv, NEW l \in LayerSet, WriterOpens(l)
    PROVE  LifecycleInv'
<1>1. LifecycleTypeOK /\ FilesOK /\ RequestsOK /\ shard[l] \in Used \cup {0}
    BY DEF LifecycleInv, LifecycleTypeOK, FilesOK
<1>2. UNCHANGED <<aside, snaps, away, stamp, req, acked, excused>> /\ holds' = [holds EXCEPT ![l] = shard'[l]]
    BY DEF WriterOpens
<1>3. RequestsOK' /\ \A d \in Conns, k \in LayerSet : HalfWay(d, k)' => HalfWay(d, k)
    BY <1>1, <1>2 DEF RequestsOK, HalfWay
<1>4. CASE shard[l] # 0 /\ UNCHANGED <<shard, inode, doomed>>
  <2>1. Used' = Used /\ holds' \in [LayerSet -> Used \cup {0}]
      BY <1>1, <1>2, <1>4 DEF Used, FilesOK
  <2>2. FilesOK'
      BY <1>1, <1>2, <1>4, <2>1 DEF FilesOK
  <2>3. LifecycleTypeOK'
      BY <1>3, <2>2 DEF LifecycleTypeOK
  <2> QED
      BY <1>2, <1>3, <1>4, <2>3, FilesStay
<1>5. CASE Creates(l, Fresh1)
    BY <1>2, <1>3, <1>5, NewContents, NewFileKeeps
<1> QED
    BY <1>4, <1>5 DEF WriterOpens

\* Damage, and the attempts of repair that mend a file or find none.
LEMMA MendingKeepsRows ==
    ASSUME LifecycleInv, NEW l \in LayerSet, (\E c \in Conns : RepairMends(c, l)) \/ Damage(l)
    PROVE  LifecycleInv'
<1>1. LifecycleTypeOK /\ RequestsOK /\ shard[l] \in Used \cup {0}
    BY DEF LifecycleInv, LifecycleTypeOK, FilesOK
<1>2. UNCHANGED <<req, holds, aside, snaps, away, stamp, acked, excused>>
    BY DEF RepairMends, Damage
<1>3. RequestsOK' /\ \A d \in Conns, k \in LayerSet : HalfWay(d, k)' => HalfWay(d, k)
    BY <1>1, <1>2 DEF RequestsOK, HalfWay
<1>4. ASSUME NEW sound \in BOOLEAN, shard[l] # 0, inode' = [inode EXCEPT ![shard[l]].sound = sound],
             UNCHANGED <<shard, doomed>>
      PROVE  LifecycleInv'
  <2>1. inode' = [inode EXCEPT ![shard[l]] = [inode[shard[l]] EXCEPT !.sound = sound]]
      BY <1>4
  <2>2. inode' = [inode EXCEPT ![shard[l]] = [rows |-> inode[shard[l]].rows,
                                              schema |-> inode[shard[l]].schema, sound |-> sound]]
      BY <1>1, <1>4, <2>1, FileFields
  <2>3. inode[shard[l]].schema \in BOOLEAN
      BY <1>1, <1>4, FileFields
  <2> QED
      BY <1>2, <1>3, <1>4, <2>2, <2>3, SameRowsKeep
<1>5. CASE Creates(l, Fresh1) /\ UNCHANGED holds
    BY <1>2, <1>3, <1>5, NewContents, NewFileKeeps
<1> QED
    BY <1>2, <1>4, <1>5 DEF RepairMends, Damage

\* A doomed file has nothing to lose that is not in a copy.
LEMMA SpoilingKeepsRows ==
    ASSUME LifecycleInv, NEW i \in Used, Spoils(i)
    PROVE  LifecycleInv'
<1>1. LifecycleTypeOK /\ RequestsOK /\ inode \in [Used -> LifecycleContent]
    BY DEF LifecycleInv, LifecycleTypeOK, FilesOK
<1>2. PICK rows \in SUBSET inode[i].rows :
        inode' = [inode EXCEPT ![i] = [rows |-> rows, schema |-> @.schema, sound |-> FALSE]]
    BY DEF Spoils
<1>3. PICK content : content = [rows |-> rows, schema |-> inode[i].schema, sound |-> FALSE]
    OBVIOUS
<1>4. inode[i].rows \in SUBSET Nat /\ inode[i].schema \in BOOLEAN
    BY <1>1, FileFields
<1>5. content \in LifecycleContent /\ content.rows = rows /\ inode' = [inode EXCEPT ![i] = content]
    BY <1>2, <1>3, <1>4 DEF LifecycleContent
<1>6. i \in doomed /\ inode[i].rows \subseteq Copies
    BY DEF Spoils, LifecycleInv
<1>7. UNCHANGED <<shard, holds, aside, snaps, away, stamp, req, acked, excused, doomed>>
    BY DEF Spoils
<1>8. RequestsOK' /\ \A d \in Conns, k \in LayerSet : HalfWay(d, k)' => HalfWay(d, k)
    BY <1>1, <1>7 DEF RequestsOK, HalfWay
<1> QED
    BY <1>2, <1>4, <1>5, <1>6, <1>7, <1>8, ChangedFileKeeps

\* A file whose rows nothing is promised of.
AtRisk(h) == h \in doomed \/ \E c \in Conns, k \in LayerSet : HalfWay(c, k) /\ shard[k] = h

\* A row is written to the file the writer has open, wherever that is by now.
LEMMA WriteKeepsRows ==
    ASSUME LifecycleInv, NEW l \in LayerSet, WriteRow(l)
    PROVE  LifecycleInv'
<1>1. /\ LifecycleTypeOK /\ FilesOK /\ RequestsOK /\ inode \in [Used -> LifecycleContent]
      /\ Used \subseteq Inodes \cup away.inodes \cup doomed
    BY DEF LifecycleInv, LifecycleTypeOK, FilesOK
<1>2. PICK h \in Used : h = holds[l]
    BY <1>1 DEF WriteRow, FilesOK
<1>3. PICK n \in 0 .. MaxRows : acked = 1 .. n
    BY <1>1 DEF FilesOK
<1>4. Cardinality(acked) = n /\ n + 1 \in 0 .. MaxRows
  <2>1. MaxRows \in Nat
      BY LifecycleAssumption
  <2>2. Cardinality(1 .. n) = IF 1 > n THEN 0 ELSE n - 1 + 1
      BY <1>3, <2>1, FS_Interval
  <2>3. Cardinality(acked) = n
      BY <1>3, <2>1, <2>2
  <2>4. n < MaxRows
      BY <2>3 DEF WriteRow
  <2> QED
      BY <2>1, <2>3, <2>4
<1>5. /\ inode' = [inode EXCEPT ![h].rows = @ \cup {n + 1}] /\ acked' = acked \cup {n + 1}
      /\ excused' = excused \cup IF AtRisk(h) THEN {n + 1} ELSE {}
      /\ UNCHANGED <<shard, holds, aside, snaps, away, stamp, req, doomed>>
    BY <1>2, <1>4 DEF WriteRow, AtRisk
<1>6. Used' = Used /\ inode' \in [Used -> LifecycleContent]
      /\ \A i \in Used : inode'[i].rows = IF i = h THEN inode[i].rows \cup {n + 1} ELSE inode[i].rows
  <2>1. PICK content : content = [inode[h] EXCEPT !.rows = @ \cup {n + 1}]
      OBVIOUS
  <2>2. inode[h] \in LifecycleContent /\ n + 1 \in Nat
      BY <1>1, <1>2, <1>4
  <2>3. content \in LifecycleContent /\ content.rows = inode[h].rows \cup {n + 1}
      BY <2>1, <2>2 DEF LifecycleContent
  <2>4. inode' = [inode EXCEPT ![h] = content]
      BY <1>5, <2>1
  <2> QED
      BY <1>1, <1>2, <2>3, <2>4 DEF Used
<1>7. LifecycleTypeOK'
  <2>1. acked' = 1 .. n + 1
      BY <1>3, <1>5
  <2>2. \E m \in 0 .. MaxRows : acked' = 1 .. m
      BY <1>4, <2>1
  <2>3. FilesOK'
      BY <1>1, <1>5, <1>6, <2>2 DEF FilesOK
  <2> QED
      BY <1>1, <1>5, <2>3 DEF LifecycleTypeOK, RequestsOK
<1>8. Copies \subseteq Copies' /\ Inodes' = Inodes
      /\ (AtRisk(h) => n + 1 \in Copies')
    BY <1>5, <1>6 DEF Copies, Inodes
<1>9. ASSUME NEW c \in Conns, NEW k \in LayerSet, HalfWay(c, k)'
      PROVE  RowsIn(shard[k])' \subseteq Copies'
  <2>1. HalfWay(c, k)
      BY <1>5, <1>9 DEF HalfWay
  <2>2. RowsIn(shard[k]) \subseteq Copies /\ (shard[k] = h => n + 1 \in Copies')
      BY <1>8, <2>1 DEF LifecycleInv, AtRisk
  <2>3. shard[k] \in Used \cup {0}
      BY <1>1 DEF FilesOK
  <2> QED
      BY <1>5, <1>6, <1>8, <2>2, <2>3 DEF RowsIn
<1>10. n + 1 \in Copies' \/ \E i \in Inodes' \cup away'.inodes : n + 1 \in inode'[i].rows
    BY <1>1, <1>2, <1>5, <1>6, <1>8 DEF AtRisk
<1>11. \A r \in acked' : \/ r \in acked \cup Copies'
                         \/ \E i \in Inodes' \cup away'.inodes : r \in inode'[i].rows
    BY <1>5, <1>10
<1>12. /\ \A i \in Used : i \in Used' /\ inode[i].rows \subseteq inode'[i].rows \cup Copies'
       /\ \A i \in Used' : i \in Used \cup Inodes'
    BY <1>6
<1>13. /\ \A i \in Inodes \cup away.inodes : \/ i \in Inodes' \cup away'.inodes
                                             \/ i \in doomed' /\ inode[i].rows \subseteq Copies'
       /\ doomed \subseteq doomed'
    BY <1>5, <1>8
<1>14. \A i \in doomed' : inode'[i].rows \subseteq Copies'
    BY <1>1, <1>5, <1>6, <1>8 DEF LifecycleInv, FilesOK, AtRisk
<1> QED
    BY <1>7, <1>8, <1>9, <1>11, <1>12, <1>13, <1>14, LifecycleStep


\* The online backup of one layer: a copy that is overwritten gives up its rows.
LEMMA SnapshotKeepsRows ==
    ASSUME LifecycleInv, NEW c \in Conns, NEW l \in LayerSet, SnapshotLayer(c, l)
    PROVE  LifecycleInv'
<1>1. LifecycleTypeOK /\ FilesOK /\ RequestsOK /\ inode \in [Used -> LifecycleContent]
    BY DEF LifecycleInv, LifecycleTypeOK, FilesOK
<1>2. PICK rows \in SUBSET RowsIn(shard[l]) :
        /\ LayerDone(c) \/ Answers(c)
        /\ snaps' = [snaps EXCEPT ![req[c].at][l] = rows]
        /\ excused' = excused \cup (snaps[req[c].at][l] \ rows)
    BY DEF SnapshotLayer
<1>3. req[c].op = "snapshot" /\ shard[l] # 0 /\ UNCHANGED <<shard, inode, holds, aside, away, stamp, acked, doomed>>
    BY DEF SnapshotLayer, At1
<1>4. RequestsOK' /\ \A d \in Conns, k \in LayerSet : HalfWay(d, k)' => HalfWay(d, k)
    BY <1>1, <1>2, <1>3, RequestTurns DEF NoReq
<1>5. PICK s \in Stamps : s = req[c].at
    BY <1>1, <1>3 DEF RequestsOK
<1>6. snaps \in [Stamps -> [LayerSet -> SUBSET Nat]] /\ rows \in SUBSET Nat
    BY <1>1, <1>3 DEF FilesOK, LifecycleContent, RowsIn
<1>7. /\ snaps' \in [Stamps -> [LayerSet -> SUBSET Nat]] /\ snaps'[s][l] = rows
      /\ \A t \in Stamps, k \in LayerSet : <<t, k>> # <<s, l>> => snaps'[t][k] = snaps[t][k]
    BY <1>2, <1>5, <1>6
<1>8. FilesOK'
    BY <1>1, <1>3, <1>7 DEF FilesOK, Used
<1>9. LifecycleTypeOK'
    BY <1>4, <1>8 DEF LifecycleTypeOK
<1>10. CopyRows /\ CopyRows'
    BY <1>1, <1>9, RowsInCopies, RowsInCopiesNext
<1>11. ASSUME NEW r \in Copies PROVE r \in Copies'
  <2>1. CASE r \in away.rows \/ r \in excused
      BY <1>2, <1>3, <1>10, <2>1 DEF CopyRows
  <2>2. CASE \E t \in Stamps, k \in LayerSet : r \in snaps[t][k]
    <3>1. PICK t \in Stamps, k \in LayerSet : r \in snaps[t][k]
        BY <2>2
    <3>2. CASE <<t, k>> # <<s, l>>
        BY <1>7, <1>10, <3>1, <3>2 DEF CopyRows
    <3>3. CASE t = s /\ k = l
        BY <1>2, <1>5, <1>7, <1>10, <3>1, <3>3 DEF CopyRows
    <3> QED
        BY <3>2, <3>3
  <2> QED
      BY <1>10, <2>1, <2>2 DEF CopyRows
<1>12. Inodes' = Inodes /\ Used' = Used
    BY <1>3 DEF Inodes, Used
<1>13. \A d \in Conns, k \in LayerSet : HalfWay(d, k)' => RowsIn(shard[k])' \subseteq Copies'
    BY <1>3, <1>4, <1>11 DEF LifecycleInv, RowsIn
<1>14. \A i \in doomed' : inode'[i].rows \subseteq Copies'
    BY <1>3, <1>11 DEF LifecycleInv
<1> QED
    BY <1>3, <1>9, <1>11, <1>12, <1>13, <1>14, LifecycleStep

\* fs::copy of a restore or a repair, whole or not, into a new file or over the
\* one that is there by now.
LEMMA CopyBackKeepsRows ==
    ASSUME LifecycleInv, NEW c \in Conns, NEW l \in LayerSet, CopyBack(c, l)
    PROVE  LifecycleInv'
<1>1. LifecycleTypeOK /\ FilesOK /\ RequestsOK /\ shard[l] \in Used \cup {0} /\ CopyRows
    BY RowsInCopies DEF LifecycleInv, LifecycleTypeOK, FilesOK
<1>2. /\ req[c].op \in {"restore", "repair"} /\ HalfWay(c, l) /\ (LayerDone(c) \/ Answers(c))
      /\ UNCHANGED <<holds, aside, snaps, away, stamp, acked, excused>>
    BY DEF CopyBack, HalfWay
<1>3. RequestsOK' /\ \A d \in Conns, k \in LayerSet : HalfWay(d, k)' => HalfWay(d, k)
    BY <1>1, <1>2, RequestTurns DEF NoReq
<1>4. PICK s \in Stamps : s = req[c].at
    BY DEF CopyBack, HasCopy
<1>5. PICK content \in LifecycleContent : Copied(l, content) /\ content.rows \subseteq Copies
  <2>1. snaps[s][l] \in SUBSET Nat /\ snaps[s][l] \subseteq Copies
      BY <1>1 DEF FilesOK, CopyRows
  <2>2. [rows |-> snaps[s][l], schema |-> TRUE, sound |-> TRUE] \in LifecycleContent
      BY <2>1 DEF LifecycleContent
  <2>3. [rows |-> {}, schema |-> TRUE, sound |-> FALSE] \in LifecycleContent
      BY DEF LifecycleContent
  <2> QED
      BY <1>4, <2>1, <2>2, <2>3 DEF CopyBack
<1>6. CASE Creates(l, content)
    BY <1>2, <1>3, <1>5, <1>6, NewFileKeeps
<1>7. CASE /\ shard[l] # 0 /\ inode' = [inode EXCEPT ![shard[l]] = content]
           /\ doomed' = doomed \cup Loose(l) /\ UNCHANGED shard
  <2>1. PICK f \in Used : f = shard[l]
      BY <1>1, <1>7
  <2>2. inode[f].rows \subseteq Copies
      BY <1>2, <1>7, <2>1 DEF LifecycleInv, RowsIn
  <2>3. doomed \subseteq doomed' /\ doomed' \subseteq doomed \cup {f}
      BY <1>7, <2>1 DEF Loose
  <2> QED
      BY <1>2, <1>3, <1>5, <1>7, <2>1, <2>2, <2>3, ChangedFileKeeps
<1> QED
    BY <1>5, <1>6, <1>7 DEF Copied

\* The first half of a layer of a restore or a repair.
LEMMA GoingHalfWay ==
    ASSUME LifecycleTypeOK, NEW c \in Conns, NEW l \in LayerSet,
           req[c].op \in {"restore", "repair"}, l = Head(req[c].todo), GoesHalfWay(c)
    PROVE  RequestsOK' /\ \A d \in Conns, k \in LayerSet : HalfWay(d, k)' => HalfWay(d, k) \/ k = l
<1>1. req[c] \in LifecycleRequest /\ req \in [Conns -> {NoReq} \cup LifecycleRequest]
      /\ \A d \in Conns : req[d].op \in {"snapshot", "restore"} => req[d].at \in Stamps
    BY DEF LifecycleTypeOK, RequestsOK, NoReq
<1>2. PICK next : next = [req[c] EXCEPT !.half = TRUE]
    OBVIOUS
<1>3. next \in LifecycleRequest /\ next.op = req[c].op /\ next.at = req[c].at /\ next.todo = req[c].todo
    BY <1>1, <1>2 DEF LifecycleRequest
<1>4. /\ req' \in [Conns -> {NoReq} \cup LifecycleRequest] /\ req'[c] = next
      /\ \A d \in Conns : d # c => req'[d] = req[d]
    BY <1>1, <1>2, <1>3 DEF GoesHalfWay
<1> QED
    BY <1>1, <1>3, <1>4 DEF RequestsOK, HalfWay

\* What gives up its name to a rename is doomed, as is a file that parts from its
\* -wal, and their rows are excused.
LEMMA RenameIsExcused ==
    ASSUME LifecycleTypeOK, NEW l \in LayerSet, NEW n \in AsideNames, shard[l] # 0, Renames(l, n)
    PROVE  /\ shard' \in [LayerSet -> Used \cup {0}] /\ shard'[l] = 0
           /\ \A k \in LayerSet : k # l => shard'[k] = shard[k]
           /\ aside' \in [LayerSet -> [AsideNames -> Used \cup {0}]] /\ aside'[l][n] = shard[l]
           /\ \A k \in LayerSet, m \in AsideNames : <<k, m>> # <<l, n>> => aside'[k][m] = aside[k][m]
           /\ excused \subseteq excused' /\ doomed \subseteq doomed' /\ doomed' \subseteq Used
           /\ aside[l][n] # 0 => aside[l][n] \in doomed'
           /\ \A i \in doomed' : i \in doomed \/ inode[i].rows \subseteq excused'
<1>1. /\ aside \in [LayerSet -> [AsideNames -> Used \cup {0}]] /\ shard \in [LayerSet -> Used \cup {0}]
      /\ shard[l] \in Used /\ doomed \subseteq Used /\ \A i \in Used : i # 0
    BY LifecycleAssumption DEF LifecycleTypeOK, FilesOK
<1>2. PICK files \in SUBSET Used :
        /\ doomed' = doomed \cup files /\ excused' = excused \cup UNION {RowsIn(i) : i \in files}
        /\ aside[l][n] # 0 => aside[l][n] \in files
  <2>1. (aside[l][n] # 0 => aside[l][n] \in Used) /\ Loose(l) \subseteq Used
      BY <1>1 DEF Loose
  <2>2. PICK files : files = ({aside[l][n]} \ {0}) \cup Loose(l)
      OBVIOUS
  <2>3. files \in SUBSET Used /\ (aside[l][n] # 0 => aside[l][n] \in files)
      BY <2>1, <2>2
  <2> QED
      BY <2>2, <2>3 DEF Renames, GivesUp
<1>3. \A i \in files : inode[i].rows \subseteq excused'
    BY <1>1, <1>2 DEF RowsIn
<1>4. /\ shard' \in [LayerSet -> Used \cup {0}] /\ shard'[l] = 0
      /\ \A k \in LayerSet : k # l => shard'[k] = shard[k]
    BY <1>1 DEF Renames
<1>5. /\ aside' \in [LayerSet -> [AsideNames -> Used \cup {0}]] /\ aside'[l][n] = shard[l]
      /\ \A k \in LayerSet, m \in AsideNames : <<k, m>> # <<l, n>> => aside'[k][m] = aside[k][m]
    BY <1>1 DEF Renames
<1> QED
    BY <1>1, <1>2, <1>3, <1>4, <1>5

\* A restore or a repair moves the shard of a layer out of the way.
LEMMA RenameKeepsRows ==
    ASSUME LifecycleInv, NEW l \in LayerSet, NEW n \in AsideNames, shard[l] # 0, Renames(l, n),
           UNCHANGED <<inode, holds, snaps, away, stamp, acked>>, RequestsOK',
           \A c \in Conns, k \in LayerSet : HalfWay(c, k)' => HalfWay(c, k) \/ k = l
    PROVE  LifecycleInv'
<1>1. LifecycleTypeOK /\ FilesOK
    BY DEF LifecycleInv, LifecycleTypeOK
<1>2. /\ shard' \in [LayerSet -> Used \cup {0}] /\ shard'[l] = 0
      /\ \A k \in LayerSet : k # l => shard'[k] = shard[k]
      /\ aside' \in [LayerSet -> [AsideNames -> Used \cup {0}]] /\ aside'[l][n] = shard[l]
      /\ \A k \in LayerSet, m \in AsideNames : <<k, m>> # <<l, n>> => aside'[k][m] = aside[k][m]
      /\ excused \subseteq excused' /\ doomed \subseteq doomed' /\ doomed' \subseteq Used
      /\ aside[l][n] # 0 => aside[l][n] \in doomed'
      /\ \A i \in doomed' : i \in doomed \/ inode[i].rows \subseteq excused'
    BY <1>1, RenameIsExcused
<1>3. Used' = Used
    BY DEF Used
<1>4. LifecycleTypeOK'
    BY <1>1, <1>2, <1>3 DEF LifecycleTypeOK, FilesOK
<1>5. Copies \subseteq Copies' /\ excused' \subseteq Copies'
    BY <1>2 DEF Copies
<1>6. \A i \in doomed' : inode'[i].rows \subseteq Copies'
    BY <1>2, <1>5 DEF LifecycleInv
<1>7. InodeNames /\ InodeNames' /\ \A i \in Used : i # 0
    BY <1>1, <1>4, RowsInCopies, RowsInCopiesNext, LifecycleAssumption DEF FilesOK
<1>8. ASSUME NEW i \in Inodes, i # aside[l][n] PROVE i \in Inodes'
  <2>1. i \in Used' /\ i \in Used
      BY <1>3, <1>7 DEF InodeNames
  <2>2. ASSUME NEW k \in LayerSet, i = shard[k] PROVE i \in Inodes'
      BY <1>2, <1>7, <2>1, <2>2 DEF InodeNames
  <2>3. ASSUME NEW k \in LayerSet, NEW m \in AsideNames, i = aside[k][m] PROVE i \in Inodes'
    <3>1. <<k, m>> # <<l, n>>
        BY <1>8, <2>3
    <3> QED
        BY <1>2, <1>7, <2>1, <2>3, <3>1 DEF InodeNames
  <2> QED
      BY <1>7, <2>2, <2>3 DEF InodeNames
<1>9. \A i \in Inodes \cup away.inodes : \/ i \in Inodes' \cup away'.inodes
                                         \/ i \in doomed' /\ inode[i].rows \subseteq Copies'
  <2>1. ASSUME NEW i \in Inodes, i = aside[l][n] PROVE i \in doomed' /\ inode[i].rows \subseteq Copies'
    <3>1. i \in doomed'
        BY <1>2, <1>7, <2>1 DEF InodeNames
    <3> QED
        BY <1>6, <3>1
  <2> QED
      BY <1>8, <2>1
<1>10. ASSUME NEW d \in Conns, NEW k \in LayerSet, HalfWay(d, k)'
       PROVE  RowsIn(shard[k])' \subseteq Copies'
    BY <1>2, <1>5, <1>10 DEF LifecycleInv, RowsIn
<1> QED
    BY <1>2, <1>3, <1>4, <1>5, <1>6, <1>9, <1>10, LifecycleStep

\* restore's first half of a layer, and repair's, whose rename may fail.
LEMMA MovingKeepsRows ==
    ASSUME LifecycleInv, NEW c \in Conns, NEW l \in LayerSet, MoveAside(c, l) \/ RepairMoves(c, l)
    PROVE  LifecycleInv'
<1>1. LifecycleTypeOK /\ FilesOK /\ stamp \in Stamps
    BY DEF LifecycleInv, LifecycleTypeOK, FilesOK
<1>2. /\ req[c].op \in {"restore", "repair"} /\ l = Head(req[c].todo) /\ GoesHalfWay(c)
      /\ UNCHANGED <<inode, holds, snaps, away, stamp, acked>>
    BY DEF MoveAside, RepairMoves, At1
<1>3. RequestsOK' /\ \A d \in Conns, k \in LayerSet : HalfWay(d, k)' => HalfWay(d, k) \/ k = l
    BY <1>1, <1>2, GoingHalfWay
<1>4. ASSUME NEW n \in AsideNames, shard[l] # 0, Renames(l, n) PROVE LifecycleInv'
    BY <1>2, <1>3, <1>4, RenameKeepsRows
<1>5. ASSUME UNCHANGED <<shard, aside, doomed>>, excused' = excused \cup RowsIn(shard[l])
      PROVE  LifecycleInv'
  <2>1. FilesOK'
      BY <1>1, <1>2, <1>5 DEF FilesOK, Used
  <2>2. LifecycleTypeOK'
      BY <1>3, <2>1 DEF LifecycleTypeOK
  <2>3. excused \subseteq excused' /\ RowsIn(shard[l]) \subseteq excused'
      BY <1>5
  <2> QED
      BY <1>2, <1>3, <1>5, <2>2, <2>3, FilesStay
<1>6. CASE MoveAside(c, l)
  <2>1. CASE shard[l] = 0
    <3>1. UNCHANGED <<shard, aside, excused, doomed>> /\ RowsIn(shard[l]) = {}
        BY <1>6, <2>1 DEF MoveAside, RowsIn
    <3>2. excused' = excused \cup RowsIn(shard[l])
        BY <3>1
    <3> QED
        BY <1>5, <3>1, <3>2
  <2>2. CASE shard[l] # 0
    <3>1. <<"restore", stamp>> \in AsideNames /\ Renames(l, <<"restore", stamp>>)
        BY <1>1, <1>6, <2>2 DEF MoveAside, AsideNames
    <3> QED
        BY <1>4, <2>2, <3>1
  <2> QED
      BY <2>1, <2>2
<1>7. CASE RepairMoves(c, l)
  <2>1. <<"repair", stamp>> \in AsideNames /\ shard[l] # 0
      BY <1>1, <1>7 DEF RepairMoves, AsideNames
  <2>2. \/ Renames(l, <<"repair", stamp>>)
        \/ UNCHANGED <<shard, aside, doomed>> /\ excused' = excused \cup RowsIn(shard[l])
      BY <1>7 DEF RepairMoves
  <2> QED
      BY <1>4, <1>5, <2>1, <2>2
<1> QED
    BY <1>6, <1>7

\* rebuild renames the project, or removes it as purge does.
LEMMA EmptyingKeepsRows ==
    ASSUME LifecycleInv, RebuildArchives \/ Purge
    PROVE  LifecycleInv'
<1>1. LifecycleTypeOK /\ FilesOK /\ RequestsOK /\ CopyRows /\ InodeNames
    BY RowsInCopies DEF LifecycleInv, LifecycleTypeOK
<1>2. Used' = Used /\ inode' = inode /\ UNCHANGED <<holds, stamp, req, acked>>
    BY DEF RebuildArchives, Purge, Used
<1>3. RequestsOK' /\ \A d \in Conns, k \in LayerSet : HalfWay(d, k)' => HalfWay(d, k)
    BY <1>1, <1>2 DEF RequestsOK, HalfWay
<1>4. Inodes \subseteq Used /\ \A i \in Used : i # 0
    BY <1>1, LifecycleAssumption DEF InodeNames, FilesOK
<1>5. /\ \A i \in Inodes : inode[i].rows \subseteq Kept
      /\ \A s \in Stamps, l \in LayerSet : snaps[s][l] \subseteq Kept
    BY <1>4 DEF Kept, RowsIn
<1>6. Kept \subseteq Nat
  <2>1. \A i \in Inodes : RowsIn(i) \subseteq Nat
      BY <1>1, <1>4 DEF RowsIn, FilesOK, LifecycleContent
  <2>2. \A s \in Stamps, l \in LayerSet : snaps[s][l] \subseteq Nat
      BY <1>1 DEF FilesOK
  <2> QED
      BY <2>1, <2>2 DEF Kept
<1>7. /\ shard' = [l \in LayerSet |-> 0] /\ aside' = [l \in LayerSet |-> [n \in AsideNames |-> 0]]
      /\ snaps' = [s \in Stamps |-> [l \in LayerSet |-> NoCopy]]
    BY DEF RebuildArchives, Purge, EmptyProject
<1>8. /\ away' \in [rows : SUBSET Nat, inodes : SUBSET Used]
      /\ away.rows \subseteq away'.rows /\ away.inodes \subseteq away'.inodes
      /\ excused \subseteq excused' /\ doomed \subseteq doomed' /\ doomed' \subseteq doomed \cup Inodes
      /\ Kept \subseteq away'.rows \cup excused'
      /\ \A i \in Inodes : i \in away'.inodes \/ i \in doomed'
  <2>1. CASE RebuildArchives
    <3>1. away' = [rows |-> away.rows \cup Kept, inodes |-> away.inodes \cup Inodes]
          /\ UNCHANGED <<excused, doomed>>
        BY <2>1 DEF RebuildArchives
    <3> QED
        BY <1>1, <1>4, <1>6, <3>1 DEF FilesOK
  <2>2. CASE Purge
    <3>1. away' = away /\ excused' = excused \cup Kept /\ doomed' = doomed \cup Inodes
        BY <2>2 DEF Purge
    <3> QED
        BY <1>1, <3>1 DEF FilesOK
  <2> QED
      BY <2>1, <2>2
<1>9. snaps' \in [Stamps -> [LayerSet -> SUBSET Nat]] /\ doomed' \subseteq Used
    BY <1>1, <1>4, <1>7, <1>8 DEF NoCopy, FilesOK
<1>10. FilesOK'
    BY <1>1, <1>2, <1>7, <1>8, <1>9 DEF FilesOK
<1>11. LifecycleTypeOK'
    BY <1>3, <1>10 DEF LifecycleTypeOK
<1>12. CopyRows'
    BY <1>11, RowsInCopiesNext
<1>13. Copies \subseteq Copies' /\ Kept \subseteq Copies'
    BY <1>1, <1>5, <1>8, <1>12 DEF CopyRows
<1>14. \A i \in doomed' : inode'[i].rows \subseteq Copies'
    BY <1>2, <1>5, <1>8, <1>13 DEF LifecycleInv
<1>15. \A i \in Inodes \cup away.inodes : \/ i \in Inodes' \cup away'.inodes
                                          \/ i \in doomed' /\ inode[i].rows \subseteq Copies'
    BY <1>5, <1>8, <1>13
<1>16. \A k \in LayerSet : RowsIn(shard[k])' \subseteq Copies'
    BY <1>7 DEF RowsIn
<1> QED
    BY <1>2, <1>8, <1>11, <1>13, <1>14, <1>15, <1>16, LifecycleStep

\* The steps that touch no file: requests come and fail, layers are skipped,
\* connections open and close, the worker exits, time passes.
LEMMA RequestsKeepRows ==
    ASSUME LifecycleInv,
           \/ \E c \in Conns : Request(c) \/ RequestFails(c)
           \/ \E c \in Conns, l \in LayerSet : SkipLayer(c, l)
           \/ \E l \in LayerSet : Opens(l) \/ LastCloses(l)
           \/ WorkerExits \/ NextSecond
    PROVE  LifecycleInv'
<1>1. LifecycleTypeOK /\ FilesOK /\ RequestsOK
    BY DEF LifecycleInv, LifecycleTypeOK
<1>2. UNCHANGED <<shard, inode, aside, snaps, away, acked, excused, doomed>>
    BY DEF Request, RequestFails, SkipLayer, Opens, LastCloses, WorkerExits, NextSecond
<1>3. FilesOK'
  <2>1. holds' \in [LayerSet -> Used \cup {0}]
      BY <1>1 DEF FilesOK, Request, RequestFails, SkipLayer, Opens, LastCloses, WorkerExits, NextSecond
  <2>2. stamp' \in Stamps
    <3>1. MaxStamp \in Nat /\ stamp \in Nat
        BY <1>1, LifecycleAssumption DEF FilesOK, Stamps
    <3>2. stamp' = stamp \/ (stamp < MaxStamp /\ stamp' = stamp + 1)
        BY DEF Request, RequestFails, SkipLayer, Opens, LastCloses, WorkerExits, NextSecond
    <3> QED
        BY <1>1, <3>1, <3>2 DEF FilesOK, Stamps
  <2> QED
      BY <1>1, <1>2, <2>1, <2>2 DEF FilesOK, Used
<1>4. RequestsOK' /\ \A d \in Conns, k \in LayerSet : HalfWay(d, k)' => HalfWay(d, k)
  <2>1. CASE \E c \in Conns : RequestFails(c)
      BY <1>1, <2>1, RequestTurns DEF RequestFails
  <2>2. CASE \E c \in Conns, l \in LayerSet : SkipLayer(c, l)
      BY <1>1, <2>2, RequestTurns DEF SkipLayer, At1, NoReq
  <2>3. CASE NextSecond \/ \E l \in LayerSet : Opens(l) \/ LastCloses(l)
    <3>1. req' = req
        BY <2>3 DEF NextSecond, Opens, LastCloses
    <3> QED
        BY <1>1, <3>1 DEF RequestsOK, HalfWay
  <2>4. CASE WorkerExits
    <3>1. req' = [c \in Conns |-> NoReq] /\ NoReq.op = "none"
        BY <2>4 DEF WorkerExits, NoReq
    <3> QED
        BY <3>1 DEF RequestsOK, HalfWay
  <2>5. ASSUME NEW c \in Conns, Request(c)
        PROVE  RequestsOK' /\ \A d \in Conns, k \in LayerSet : HalfWay(d, k)' => HalfWay(d, k)
    <3>1. PICK op \in {"build", "snapshot", "restore", "repair"}, at \in Stamps \cup {0} :
              Asks(c, op, at) /\ (op \in {"snapshot", "restore"} => at \in Stamps)
      <4>1. stamp \in Stamps /\ Latest \subseteq Stamps
          BY <1>1 DEF FilesOK, Latest
      <4> QED
          BY <2>5, <4>1 DEF Request
    <3>2. PICK next : next = [op |-> op, todo |-> Layers, at |-> at, half |-> FALSE]
        OBVIOUS
    <3>3. Layers \in Seq(LayerSet) \ {<<>>}
        BY LifecycleAssumption DEF LayerSet
    <3>4. next \in LifecycleRequest /\ next.op = op /\ next.at = at /\ ~next.half
        BY <3>2, <3>3 DEF LifecycleRequest
    <3>5. /\ req' \in [Conns -> {NoReq} \cup LifecycleRequest] /\ req'[c] = next
          /\ \A d \in Conns : d # c => req'[d] = req[d]
        BY <1>1, <3>1, <3>2, <3>4 DEF Asks, RequestsOK
    <3> QED
        BY <1>1, <3>1, <3>4, <3>5 DEF RequestsOK, HalfWay
  <2> QED
      BY <2>1, <2>2, <2>3, <2>4, <2>5
<1>5. LifecycleTypeOK'
    BY <1>3, <1>4 DEF LifecycleTypeOK
<1> QED
    BY <1>2, <1>4, <1>5, FilesStay

\* Nothing is acknowledged at the start.
LEMMA LifecycleInitially == LifecycleInit => LifecycleInv
<1> SUFFICES ASSUME LifecycleInit PROVE LifecycleInv
    OBVIOUS
<1>1. Used = {} /\ 1 .. 0 = {} /\ MaxInodes \in Nat /\ MaxRows \in Nat /\ 1 \in Stamps
    BY LifecycleAssumption DEF LifecycleInit, Used, Stamps
<1>2. FilesOK
  <2>1. \E n \in 0 .. MaxInodes : Used = 1 .. n
      BY <1>1
  <2>2. \E n \in 0 .. MaxRows : acked = 1 .. n
    <3>1. acked = {} /\ 0 \in 0 .. MaxRows
        BY <1>1 DEF LifecycleInit
    <3> QED
        BY <1>1, <3>1
  <2>3. inode \in [Used -> LifecycleContent]
      BY <1>1 DEF LifecycleInit
  <2>4. /\ shard \in [LayerSet -> Used \cup {0}] /\ holds \in [LayerSet -> Used \cup {0}]
        /\ aside \in [LayerSet -> [AsideNames -> Used \cup {0}]] /\ doomed = {}
        /\ snaps \in [Stamps -> [LayerSet -> SUBSET Nat]]
      BY DEF LifecycleInit, NoCopy
  <2>5. away \in [rows : SUBSET Nat, inodes : SUBSET Used] /\ stamp \in Stamps
      BY <1>1 DEF LifecycleInit
  <2> QED
      BY <2>1, <2>2, <2>3, <2>4, <2>5 DEF FilesOK
<1>3. RequestsOK /\ \A c \in Conns, l \in LayerSet : ~HalfWay(c, l)
  <2>1. req = [c \in Conns |-> NoReq] /\ NoReq.op = "none"
      BY DEF LifecycleInit, NoReq
  <2> QED
      BY <2>1 DEF RequestsOK, HalfWay
<1>4. RowsSurvive
    BY DEF LifecycleInit, RowsSurvive
<1> QED
    BY <1>1, <1>2, <1>3, <1>4 DEF LifecycleInv, LifecycleTypeOK, LifecycleInit

\* Every step of the store's files keeps the invariant.
LEMMA LifecycleKept == LifecycleInv /\ [LifecycleNext]_lifecycleVars => LifecycleInv'
<1> SUFFICES ASSUME LifecycleInv, [LifecycleNext]_lifecycleVars PROVE LifecycleInv'
    OBVIOUS
<1>1. CASE UNCHANGED lifecycleVars
  <2>1. UNCHANGED <<shard, inode, holds, aside, snaps, away, stamp, req, acked, excused, doomed>>
      BY <1>1 DEF lifecycleVars
  <2>2. FilesOK'
      BY <2>1 DEF LifecycleInv, LifecycleTypeOK, FilesOK, Used
  <2>3. RequestsOK' /\ \A d \in Conns, k \in LayerSet : HalfWay(d, k)' => HalfWay(d, k)
      BY <2>1 DEF LifecycleInv, LifecycleTypeOK, RequestsOK, HalfWay
  <2>4. LifecycleTypeOK'
      BY <2>2, <2>3 DEF LifecycleTypeOK
  <2> QED
      BY <2>1, <2>3, <2>4, FilesStay
<1>2. CASE \/ \E c \in Conns : Request(c) \/ RequestFails(c)
           \/ \E c \in Conns, l \in LayerSet : SkipLayer(c, l)
           \/ \E l \in LayerSet : Opens(l) \/ LastCloses(l)
           \/ WorkerExits \/ NextSecond
    BY <1>2, RequestsKeepRows
<1>3. ASSUME NEW c \in Conns, NEW l \in LayerSet, InitShard(c, l) \/ SnapshotLayer(c, l) \/ CopyBack(c, l)
      PROVE  LifecycleInv'
    BY <1>3, InitKeepsRows, SnapshotKeepsRows, CopyBackKeepsRows
<1>4. ASSUME NEW c \in Conns, NEW l \in LayerSet, MoveAside(c, l) \/ RepairMoves(c, l)
      PROVE  LifecycleInv'
    BY <1>4, MovingKeepsRows
<1>5. ASSUME NEW l \in LayerSet, WriterOpens(l) \/ WriteRow(l)
      PROVE  LifecycleInv'
    BY <1>5, OpeningKeepsRows, WriteKeepsRows
<1>6. ASSUME NEW l \in LayerSet, (\E c \in Conns : RepairMends(c, l)) \/ Damage(l)
      PROVE  LifecycleInv'
    BY <1>6, MendingKeepsRows
<1>7. ASSUME NEW i \in Used, Spoils(i) PROVE LifecycleInv'
    BY <1>7, SpoilingKeepsRows
<1>8. CASE RebuildArchives \/ Purge
    BY <1>8, EmptyingKeepsRows
<1> QED
    BY <1>1, <1>2, <1>3, <1>4, <1>5, <1>6, <1>7, <1>8 DEF LifecycleNext

\* For any layers, connections, clock and numbers of rows and files: every
\* acknowledged row stays in a file of the project or in an archive, through
\* interleaved builds, writes, snapshots, restores and repairs that stop anywhere,
\* rebuilds and restarts, unless one of the cases that RowsSurvive lists excuses it.
THEOREM RowsStay == LifecycleSpec => []RowsSurvive
<1>1. LifecycleInv => RowsSurvive
    BY DEF LifecycleInv
<1> QED
    BY <1>1, LifecycleInitially, LifecycleKept, PTL DEF LifecycleSpec


-----------------------------------------------------------------------------
(* InputEdit: the edit is exact. *)

\* A bounded set of numbers has a greatest one.
LEMMA LongestIs ==
    ASSUME NEW n \in Nat, NEW S \in SUBSET (0 .. n), S # {}
    PROVE  Longest(S) \in S /\ \A k \in S : k <= Longest(S)
<1> DEFINE Left == {m \in Nat : n - m \in S}
<1>1. Left \subseteq Nat /\ Left # {}
  <2>1. PICK k \in S : TRUE
      OBVIOUS
  <2>2. n - k \in Nat /\ n - (n - k) = k
      OBVIOUS
  <2> QED
      BY <2>1, <2>2
<1>2. PICK m \in Left : \A k \in Left : <<k, m>> \notin OpToRel(<, Nat)
    BY <1>1, WFMin, NatLessThanWellFounded, Zenon
<1>3. \A k \in Left : <<k, m>> \in Nat \X Nat => ~ (k < m)
    BY <1>2, Zenon DEF OpToRel
<1>4. \A k \in S : k <= n - m
  <2> SUFFICES ASSUME NEW k \in S PROVE k <= n - m
      OBVIOUS
  <2>1. n - k \in Nat /\ n - (n - k) = k /\ k \in Nat
      OBVIOUS
  <2>2. n - k \in Left
      BY <2>1
  <2>3. ~(n - k < m) /\ m \in Nat
      BY <1>3, <2>1, <2>2
  <2> QED
      BY <2>1, <2>3
<1>5. n - m \in S
    OBVIOUS
<1> QED
    BY <1>4, <1>5 DEF Longest

\* The common prefix: no longer than either text, and common.
LEMMA PrefixIsCommon ==
    ASSUME NEW a \in Seq(TextBytes), NEW b \in Seq(TextBytes)
    PROVE  /\ CommonPrefix(a, b) \in 0 .. Len(a) /\ CommonPrefix(a, b) \in 0 .. Len(b)
           /\ \A i \in 1 .. CommonPrefix(a, b) : a[i] = b[i]
<1> DEFINE n == LowerOf(Len(a), Len(b))
           S == {k \in 0 .. n : \A i \in 1 .. k : a[i] = b[i]}
<1>1. n \in Nat /\ n <= Len(a) /\ n <= Len(b)
    BY DEF LowerOf
<1>2. 0 \in S
    BY <1>1
<1>3. CommonPrefix(a, b) = Longest(S)
    BY DEF CommonPrefix
<1>4. Longest(S) \in S
    BY <1>1, <1>2, LongestIs
<1> HIDE DEF n
<1> QED
    BY <1>1, <1>3, <1>4

\* The common suffix, likewise.
LEMMA SuffixIsCommon ==
    ASSUME NEW a \in Seq(TextBytes), NEW b \in Seq(TextBytes)
    PROVE  /\ CommonSuffix(a, b) \in 0 .. Len(a) /\ CommonSuffix(a, b) \in 0 .. Len(b)
           /\ \A i \in 0 .. CommonSuffix(a, b) - 1 : a[Len(a) - i] = b[Len(b) - i]
<1> DEFINE n == LowerOf(Len(a), Len(b))
           S == {k \in 0 .. n : \A i \in 0 .. k - 1 : a[Len(a) - i] = b[Len(b) - i]}
<1>1. n \in Nat /\ n <= Len(a) /\ n <= Len(b)
    BY DEF LowerOf
<1>2. 0 \in S
    BY <1>1
<1>3. CommonSuffix(a, b) = Longest(S)
    BY DEF CommonSuffix
<1>4. Longest(S) \in S
    BY <1>1, <1>2, LongestIs
<1>5. /\ Longest(S) \in 0 .. n
      /\ \A i \in 0 .. Longest(S) - 1 : a[Len(a) - i] = b[Len(b) - i]
    BY <1>4
<1> HIDE DEF n, S
<1>6. \A k \in 0 .. n : k \in 0 .. Len(a) /\ k \in 0 .. Len(b)
    BY <1>1
<1> QED
    BY <1>3, <1>5, <1>6

\* The offsets of an edit: they lie in their texts, what is before the start is
\* common, and so is what is after the ends.
LEMMA EditOffsets ==
    ASSUME NEW old \in Seq(TextBytes), NEW new \in Seq(TextBytes)
    PROVE  LET e == ComputeInputEdit(old, new)
           IN  /\ e.start \in 0 .. Len(old) /\ e.start \in 0 .. Len(new)
               /\ e.oldEnd \in e.start .. Len(old) /\ e.newEnd \in e.start .. Len(new)
               /\ Len(old) - e.oldEnd = Len(new) - e.newEnd
               /\ \A i \in 1 .. e.start : old[i] = new[i]
               /\ \A i \in 1 .. Len(old) - e.oldEnd : old[e.oldEnd + i] = new[e.newEnd + i]
               /\ e.startAt = ByteToPoint(old, e.start) /\ e.oldEndAt = ByteToPoint(old, e.oldEnd)
               /\ e.newEndAt = ByteToPoint(new, e.newEnd)
<1>1. PICK p \in 0 .. Len(old) : p = CommonPrefix(old, new)
    BY PrefixIsCommon
<1>2. p \in 0 .. Len(new) /\ \A i \in 1 .. p : old[i] = new[i]
    BY <1>1, PrefixIsCommon
<1>3. PICK a, b : a = SubSeq(old, p + 1, Len(old)) /\ b = SubSeq(new, p + 1, Len(new))
    OBVIOUS
<1>4. /\ a \in Seq(TextBytes) /\ Len(a) = Len(old) - p
      /\ \A i \in 1 .. Len(old) - p : a[i] = old[p + i]
  <2>1. p + 1 \in Int /\ Len(old) \in Int /\ \A i \in p + 1 .. Len(old) : old[i] \in TextBytes
      OBVIOUS
  <2>2. /\ a \in Seq(TextBytes) /\ Len(a) = (IF p + 1 <= Len(old) THEN Len(old) - (p + 1) + 1 ELSE 0)
        /\ \A i \in 1 .. Len(old) - (p + 1) + 1 : a[i] = old[p + 1 + i - 1]
      BY <1>3, <2>1, SubSeqProperties
  <2> QED
      BY <2>2
<1>5. /\ b \in Seq(TextBytes) /\ Len(b) = Len(new) - p
      /\ \A i \in 1 .. Len(new) - p : b[i] = new[p + i]
  <2>1. p + 1 \in Int /\ Len(new) \in Int /\ \A i \in p + 1 .. Len(new) : new[i] \in TextBytes
      BY <1>2
  <2>2. /\ b \in Seq(TextBytes) /\ Len(b) = (IF p + 1 <= Len(new) THEN Len(new) - (p + 1) + 1 ELSE 0)
        /\ \A i \in 1 .. Len(new) - (p + 1) + 1 : b[i] = new[p + 1 + i - 1]
      BY <1>3, <2>1, SubSeqProperties
  <2>3. Len(new) \in Nat /\ p \in Nat /\ p <= Len(new)
      BY <1>2
  <2>4. Len(b) = Len(new) - p
      BY <2>2, <2>3
  <2>5. \A i \in 1 .. Len(new) - p : i \in 1 .. Len(new) - (p + 1) + 1 /\ p + 1 + i - 1 = p + i
      BY <2>3
  <2> QED
      BY <2>2, <2>4, <2>5
<1>6. PICK s \in 0 .. Len(a) : s = CommonSuffix(a, b)
    BY <1>4, <1>5, SuffixIsCommon
<1>7. s \in 0 .. Len(b) /\ \A i \in 0 .. s - 1 : a[Len(a) - i] = b[Len(b) - i]
    BY <1>4, <1>5, <1>6, SuffixIsCommon
<1>8. ComputeInputEdit(old, new) = EditOf(old, new, p, s)
    BY <1>1, <1>3, <1>6 DEF ComputeInputEdit
<1>9. ASSUME NEW i \in 1 .. s
      PROVE  old[Len(old) - s + i] = new[Len(new) - s + i]
  <2>0. /\ Len(a) \in Nat /\ Len(b) \in Nat /\ s \in 0 .. Len(a) /\ s \in 0 .. Len(b)
        /\ Len(old) - p = Len(a) /\ Len(new) - p = Len(b)
      BY <1>4, <1>5, <1>6, <1>7
  <2>1. s - i \in 0 .. s - 1 /\ Len(a) - (s - i) \in 1 .. Len(old) - p /\ Len(b) - (s - i) \in 1 .. Len(new) - p
      BY <2>0
  <2>2. a[Len(a) - (s - i)] = b[Len(b) - (s - i)]
      BY <1>7, <2>1
  <2>3. old[p + (Len(a) - (s - i))] = new[p + (Len(b) - (s - i))]
      BY <1>4, <1>5, <2>1, <2>2
  <2>4. p + (Len(a) - (s - i)) = Len(old) - s + i /\ p + (Len(b) - (s - i)) = Len(new) - s + i
      BY <1>2, <1>4, <1>5, <1>6
  <2> QED
      BY <2>3, <2>4
<1>10. /\ Len(old) - s \in p .. Len(old) /\ Len(new) - s \in p .. Len(new)
       /\ Len(old) - (Len(old) - s) = s /\ Len(new) - (Len(new) - s) = s
  <2>1. /\ Len(old) \in Nat /\ Len(new) \in Nat /\ p \in Nat /\ p <= Len(old) /\ p <= Len(new)
        /\ s \in 0 .. Len(old) - p /\ s \in 0 .. Len(new) - p
      BY <1>2, <1>4, <1>5, <1>6, <1>7
  <2> QED
      BY <2>1
<1> QED
    BY <1>2, <1>8, <1>9, <1>10 DEF EditOf


\* A later offset is at a later point, also in another text with the same start.
LEMMA PointsFollow ==
    ASSUME NEW s \in Seq(TextBytes), NEW t \in Seq(TextBytes), NEW m \in Nat, NEW n \in Nat, m <= n,
           \A i \in 1 .. m : s[i] = t[i]
    PROVE  LET p == ByteToPoint(s, m)
               q == ByteToPoint(t, n)
           IN  \/ q.row > p.row
               \/ q.row = p.row /\ q.col >= p.col
<1> DEFINE here == {i \in 1 .. m : s[i] = "n"}
           there == {i \in 1 .. n : t[i] = "n"}
<1>1. here \subseteq there
    OBVIOUS
<1>2. IsFiniteSet(there)
  <2>1. IsFiniteSet(1 .. n)
      BY FS_Interval
  <2> QED
      BY <2>1, FS_Subset
<1>3. /\ Cardinality(here) \in Nat /\ Cardinality(there) \in Nat
      /\ Cardinality(here) <= Cardinality(there)
      /\ Cardinality(there) = Cardinality(here) => there = here
    BY <1>1, <1>2, FS_Subset, FS_CardinalityType
<1>4. Longest(there \cup {0}) \in Nat
  <2>1. there \cup {0} \in SUBSET (0 .. n) /\ there \cup {0} # {}
      OBVIOUS
  <2>2. Longest(there \cup {0}) \in there \cup {0}
      BY <2>1, LongestIs
  <2> QED
      BY <2>1, <2>2
<1>5. /\ ByteToPoint(s, m).row = Cardinality(here) /\ ByteToPoint(t, n).row = Cardinality(there)
      /\ ByteToPoint(s, m).col = m - Longest(here \cup {0})
      /\ ByteToPoint(t, n).col = n - Longest(there \cup {0})
    BY DEF ByteToPoint
<1> HIDE DEF here, there
<1>6. CASE Cardinality(there) = Cardinality(here)
  <2>1. here \cup {0} = there \cup {0}
      BY <1>3, <1>6
  <2>2. m - Longest(there \cup {0}) <= n - Longest(there \cup {0})
      BY <1>4
  <2> QED
      BY <1>5, <1>6, <2>1, <2>2
<1>7. CASE Cardinality(there) > Cardinality(here)
    BY <1>5, <1>7
<1> QED
    BY <1>3, <1>6, <1>7

\* The old text moved along by the edit is the new text.
LEMMA MovedIsNew ==
    ASSUME NEW old \in Seq(TextBytes), NEW new \in Seq(TextBytes), NEW e,
           e = ComputeInputEdit(old, new)
    PROVE  SubSeq(old, 1, e.start) \o SubSeq(new, e.start + 1, e.newEnd)
               \o SubSeq(old, e.oldEnd + 1, Len(old)) = new
<1>a. PICK start \in 0 .. Len(old) : start = e.start
    BY EditOffsets
<1>b. PICK oldEnd \in start .. Len(old), newEnd \in start .. Len(new) : oldEnd = e.oldEnd /\ newEnd = e.newEnd
    BY <1>a, EditOffsets
<1>c. /\ start \in 0 .. Len(old) /\ start <= Len(new) /\ Len(new) \in Nat
      /\ oldEnd \in start .. Len(old) /\ newEnd \in start .. Len(new)
      /\ Len(old) - oldEnd = Len(new) - newEnd
      /\ \A i \in 1 .. start : old[i] = new[i]
      /\ \A i \in 1 .. Len(old) - oldEnd : old[oldEnd + i] = new[newEnd + i]
    BY <1>a, <1>b, EditOffsets
<1>1. SubSeq(old, 1, start) = SubSeq(new, 1, start)
  <2>1. \A i \in 1 .. start : old[i] \in TextBytes /\ new[i] \in TextBytes
      BY <1>c
  <2>2. /\ SubSeq(old, 1, start) \in Seq(TextBytes)
        /\ Len(SubSeq(old, 1, start)) = (IF 1 <= start THEN start - 1 + 1 ELSE 0)
        /\ \A i \in 1 .. start - 1 + 1 : SubSeq(old, 1, start)[i] = old[1 + i - 1]
      BY <2>1, <1>c, SubSeqProperties
  <2>3. /\ SubSeq(new, 1, start) \in Seq(TextBytes)
        /\ Len(SubSeq(new, 1, start)) = (IF 1 <= start THEN start - 1 + 1 ELSE 0)
        /\ \A i \in 1 .. start - 1 + 1 : SubSeq(new, 1, start)[i] = new[1 + i - 1]
      BY <2>1, <1>c, SubSeqProperties
  <2>4. PICK f, g : f = SubSeq(old, 1, start) /\ g = SubSeq(new, 1, start)
      OBVIOUS
  <2>5. f \in Seq(TextBytes) /\ g \in Seq(TextBytes) /\ Len(f) = Len(g) /\ Len(f) = start
      BY <2>2, <2>3, <2>4, <1>c
  <2>6. \A i \in 1 .. Len(f) : f[i] = g[i]
      BY <2>2, <2>3, <2>4, <2>5, <1>c
  <2> QED
      BY <2>4, <2>5, <2>6, SeqEqual
<1>2. SubSeq(old, oldEnd + 1, Len(old)) = SubSeq(new, newEnd + 1, Len(new))
  <2>1. /\ \A i \in oldEnd + 1 .. Len(old) : old[i] \in TextBytes
        /\ \A i \in newEnd + 1 .. Len(new) : new[i] \in TextBytes
        /\ oldEnd + 1 \in Int /\ newEnd + 1 \in Int /\ Len(old) \in Int /\ Len(new) \in Int
      BY <1>c
  <2>2. PICK f, g : f = SubSeq(old, oldEnd + 1, Len(old)) /\ g = SubSeq(new, newEnd + 1, Len(new))
      OBVIOUS
  <2>3. /\ f \in Seq(TextBytes)
        /\ Len(f) = (IF oldEnd + 1 <= Len(old) THEN Len(old) - (oldEnd + 1) + 1 ELSE 0)
        /\ \A i \in 1 .. Len(old) - (oldEnd + 1) + 1 : f[i] = old[oldEnd + 1 + i - 1]
      BY <2>1, <2>2, SubSeqProperties
  <2>4. /\ g \in Seq(TextBytes)
        /\ Len(g) = (IF newEnd + 1 <= Len(new) THEN Len(new) - (newEnd + 1) + 1 ELSE 0)
        /\ \A i \in 1 .. Len(new) - (newEnd + 1) + 1 : g[i] = new[newEnd + 1 + i - 1]
      BY <2>1, <2>2, SubSeqProperties
  <2>5. Len(f) = Len(g) /\ Len(f) = Len(old) - oldEnd
      BY <2>3, <2>4, <1>c
  <2>6. ASSUME NEW i \in 1 .. Len(f) PROVE f[i] = g[i]
    <3>1. i \in 1 .. Len(old) - oldEnd
        BY <2>5
    <3>2. Len(old) \in Nat /\ Len(new) \in Nat /\ oldEnd \in Nat /\ newEnd \in Nat
          /\ Len(old) - oldEnd = Len(new) - newEnd
        BY <1>c
    <3>3. /\ i \in 1 .. Len(old) - (oldEnd + 1) + 1 /\ i \in 1 .. Len(new) - (newEnd + 1) + 1
          /\ oldEnd + 1 + i - 1 = oldEnd + i /\ newEnd + 1 + i - 1 = newEnd + i
        BY <3>1, <3>2
    <3>4. f[i] = old[oldEnd + i]
        BY <2>3, <3>3
    <3>5. g[i] = new[newEnd + i]
        BY <2>4, <3>3
    <3> QED
        BY <1>c, <3>1, <3>4, <3>5
  <2> QED
      BY <2>2, <2>3, <2>4, <2>5, <2>6, SeqEqual
<1>3. SubSeq(new, 1, start) \o SubSeq(new, start + 1, newEnd) = SubSeq(new, 1, newEnd)
  <2>1. 1 \in 1 .. Len(new) + 1 /\ start \in 1 - 1 .. Len(new) /\ newEnd \in start .. Len(new)
      BY <1>c
  <2> QED
      BY <2>1, ConcatAdjacentSubSeq
<1>4. SubSeq(new, 1, newEnd) \o SubSeq(new, newEnd + 1, Len(new)) = SubSeq(new, 1, Len(new))
  <2>1. 1 \in 1 .. Len(new) + 1 /\ newEnd \in 1 - 1 .. Len(new) /\ Len(new) \in newEnd .. Len(new)
      BY <1>c
  <2> QED
      BY <2>1, ConcatAdjacentSubSeq
<1>5. SubSeq(new, 1, Len(new)) = new
    BY SubSeqFull
<1> QED
    BY <1>a, <1>b, <1>1, <1>2, <1>3, <1>4, <1>5

\* One parse: the edit is exact, whatever the cached text and the new one are.
LEMMA EditKeepsExact ==
    ASSUME cachedText \in Seq(TextBytes), NEW new \in Seq(TextBytes), ParseText(new)
    PROVE  EditIsExact' /\ cachedText' \in Seq(TextBytes)
<1>1. PICK e : e = ComputeInputEdit(cachedText, new)
    OBVIOUS
<1>2. /\ e.start \in 0 .. Len(cachedText) /\ e.start \in 0 .. Len(new)
      /\ e.oldEnd \in e.start .. Len(cachedText) /\ e.newEnd \in e.start .. Len(new)
      /\ Len(cachedText) - e.oldEnd = Len(new) - e.newEnd
      /\ \A i \in 1 .. e.start : cachedText[i] = new[i]
      /\ \A i \in 1 .. Len(cachedText) - e.oldEnd : cachedText[e.oldEnd + i] = new[e.newEnd + i]
      /\ e.startAt = ByteToPoint(cachedText, e.start) /\ e.oldEndAt = ByteToPoint(cachedText, e.oldEnd)
      /\ e.newEndAt = ByteToPoint(new, e.newEnd)
    BY <1>1, EditOffsets
<1>3. /\ lastEdit' = e /\ cachedText' = new
      /\ movedTree' = SubSeq(cachedText, 1, e.start) \o SubSeq(new, e.start + 1, e.newEnd)
                          \o SubSeq(cachedText, e.oldEnd + 1, Len(cachedText))
    BY <1>1 DEF ParseText
<1>4. movedTree' = new
    BY <1>1, <1>3, MovedIsNew
<1>5. e.start \in Nat /\ e.oldEnd \in Nat /\ e.newEnd \in Nat /\ e.start <= e.oldEnd /\ e.start <= e.newEnd
    BY <1>2
<1>6. \/ e.oldEndAt.row > e.startAt.row
      \/ e.oldEndAt.row = e.startAt.row /\ e.oldEndAt.col >= e.startAt.col
    BY <1>2, <1>5, PointsFollow
<1>7. \/ e.newEndAt.row > e.startAt.row
      \/ e.newEndAt.row = e.startAt.row /\ e.newEndAt.col >= e.startAt.col
    BY <1>2, <1>5, PointsFollow
<1> QED
    BY <1>3, <1>4, <1>5, <1>6, <1>7 DEF EditIsExact

\* For texts of any bytes and any length, and any number of parses: the edit that
\* compute_input_edit makes takes the old text to the new one byte by byte, is
\* not turned around, and its points follow one another as its offsets do.
THEOREM EditsAreExact == InputEditSpec => []EditIsExact
<1> DEFINE EditInv == EditIsExact /\ cachedText \in Seq(TextBytes)
<1>1. AllTexts \subseteq Seq(TextBytes)
  <2>1. 0 .. MaxTextLen \subseteq Nat
      OBVIOUS
  <2> QED
      BY <2>1, SeqDef DEF AllTexts
<1>2. InputEditInit => EditInv
  <2> SUFFICES ASSUME InputEditInit PROVE EditInv
      OBVIOUS
  <2>1. movedTree = cachedText /\ cachedText \in Seq(TextBytes)
      BY <1>1 DEF InputEditInit
  <2>2. /\ lastEdit.start <= lastEdit.oldEnd /\ lastEdit.start <= lastEdit.newEnd
        /\ lastEdit.oldEndAt = lastEdit.startAt /\ lastEdit.newEndAt = lastEdit.startAt
        /\ lastEdit.startAt.row = 0 /\ lastEdit.startAt.col = 0
      BY DEF InputEditInit, NoEdit
  <2> QED
      BY <2>1, <2>2 DEF EditIsExact
<1>3. EditInv /\ [InputEditNext]_inputEditVars => EditInv'
  <2> SUFFICES ASSUME EditInv, [InputEditNext]_inputEditVars PROVE EditInv'
      OBVIOUS
  <2>1. CASE UNCHANGED inputEditVars
      BY <2>1 DEF inputEditVars, EditIsExact
  <2>2. CASE InputEditNext
      BY <1>1, <2>2, EditKeepsExact DEF InputEditNext
  <2> QED
      BY <2>1, <2>2
<1>4. EditInv => EditIsExact
    OBVIOUS
<1> QED
    BY <1>2, <1>3, <1>4, PTL DEF InputEditSpec

=============================================================================
