----------------------------- MODULE SyncRulesProofs -----------------------------
(***************************************************************************)
(* Lemmas about the merge rule and the clock of SyncRules, for SyncMerge   *)
(* and SyncEngine alike.                                                   *)
(*                                                                         *)
(* DeviceSound relates what a device holds (m) to what it accepted (S):    *)
(* the tombstones, candidates and caches stand for the whole set.  Most    *)
(* lemmas are about one entry e reaching such a device (Arriving).         *)
(***************************************************************************)
EXTENDS SyncRules, TLAPS, FiniteSetTheorems, WellFoundedInduction

-----------------------------------------------------------------------------
(* Induction over sets, in the form the provers take: on a set of numbers  *)
(* or of subsets instead of a predicate.                                   *)

\* A non-empty collection of subsets of a finite set has a smallest one.
LEMMA SmallestSubset ==
  ASSUME NEW S, IsFiniteSet(S), NEW C, C \subseteq SUBSET S, C # {}
  PROVE  \E U \in C : \A V \in C : ~(V \subseteq U /\ V # U)
<1>1. /\ IsWellFoundedOn(StrictSubsetOrdering(S), FiniteSubsetsOf(S))
      /\ FiniteSubsetsOf(S) = SUBSET S
  BY FS_StrictSubsetOrderingWellFounded, FS_FiniteSubsetsOfFinite
<1>2. PICK U \in C : \A V \in C : ~(<<V, U>> \in StrictSubsetOrdering(S))
  BY <1>1, WFMin
<1> QED
  BY <1>2 DEF StrictSubsetOrdering

\* A collection that holds {}, and each subset of S once it holds the subset
\* without some member, holds all of them.
LEMMA SubsetsByRemoval ==
  ASSUME NEW S, IsFiniteSet(S), NEW C, {} \in C,
         \A T \in SUBSET S : T # {} => \E x \in T : T \ {x} \in C => T \in C
  PROVE  \A T \in SUBSET S : T \in C
<1> DEFINE Bad == (SUBSET S) \ C
<1>1. SUFFICES ASSUME Bad # {}
               PROVE  FALSE
  OBVIOUS
<1>2. PICK U \in Bad : \A V \in Bad : ~(V \subseteq U /\ V # U)
  <2> HIDE DEF Bad
  <2>1. Bad \subseteq SUBSET S
    BY DEF Bad
  <2> QED
    BY <1>1, <2>1, SmallestSubset
<1>3. U \in SUBSET S /\ U \notin C /\ U # {}
  OBVIOUS
<1>4. PICK x \in U : U \ {x} \in C => U \in C
  BY <1>3, Zenon
<1>5. U \ {x} \in SUBSET S /\ U \ {x} \subseteq U /\ U \ {x} # U
  BY <1>3, <1>4
<1>6. U \ {x} \in C
  BY <1>2, <1>5
<1> QED
  BY <1>3, <1>4, <1>6

\* A set of numbers that holds 0, and the successor of each of its members,
\* holds all of them.
LEMMA NumbersBySteps ==
  ASSUME NEW K, 0 \in K, \A n \in Nat : n \in K => n + 1 \in K
  PROVE  \A n \in Nat : n \in K
<1> DEFINE Bad == Nat \ K
<1>1. SUFFICES ASSUME Bad # {}
               PROVE  FALSE
  OBVIOUS
<1>2. PICK n \in Bad : \A i \in Bad : ~(<<i, n>> \in OpToRel(<, Nat))
  <2> HIDE DEF Bad
  <2>1. Bad \subseteq Nat
    BY DEF Bad
  <2> QED
    BY <1>1, <2>1, NatLessThanWellFounded, WFMin
<1>3. n \in Nat /\ n # 0
  BY <1>2
<1>4. n - 1 \in Nat /\ n - 1 < n /\ (n - 1) + 1 = n
  BY <1>3
<1>5. n - 1 \notin Bad
  BY <1>2, <1>3, <1>4 DEF OpToRel
<1> QED
  BY <1>2, <1>4, <1>5

\* A set of numbers with a bound has a largest member, if any.
LEMMA MaxOfBounded ==
  ASSUME NEW S \in SUBSET Nat, S # {}, NEW b \in Nat, \A n \in S : n <= b
  PROVE  Max(S) \in S /\ \A n \in S : n <= Max(S)
<1> DEFINE Gaps == {b - n : n \in S}
<1>1. Gaps \subseteq Nat /\ Gaps # {}
  <2>1. \A n \in S : b - n \in Nat
    OBVIOUS
  <2> QED
    BY <2>1
<1>2. PICK g \in Gaps : \A i \in Gaps : ~(<<i, g>> \in OpToRel(<, Nat))
  <2> HIDE DEF Gaps
  <2> QED
    BY <1>1, NatLessThanWellFounded, WFMin
<1>3. PICK m \in S : g = b - m
  BY <1>2
<1>4. ASSUME NEW n \in S
      PROVE  m >= n
  <2>1. ~(b - n < b - m)
    BY <1>1, <1>2, <1>3 DEF OpToRel
  <2> QED
    BY <2>1
<1> QED
  BY <1>4 DEF Max

-----------------------------------------------------------------------------
(* Entries and their order.                                                *)

\* The parts of an entry, one by one.
LEMMA EntryFacts ==
  ASSUME NEW e \in Entry
  PROVE  /\ e.l \in 0 .. MaxInt /\ e.c \in 0 .. MaxInt
         /\ e.l \in Nat /\ e.c \in Nat /\ e.val \in Nat /\ e.dev \in Nat
         /\ e.dev \in Devices /\ e.rec \in Records
         /\ ~IsTomb(e) => e.field \in Fields
<1>1. /\ e.l \in 0 .. MaxInt /\ e.c \in 0 .. MaxInt /\ e.val \in 0 .. MaxInt
      /\ e.dev \in Devices /\ e.rec \in Records
  BY ConstantsAssumption DEF Entry, FieldEntry, TombEntry
<1>2. e.field \in Fields \/ e.field = TombField
  BY DEF Entry, FieldEntry, TombEntry
<1>3. Devices \subseteq Nat /\ MaxInt \in Nat
  BY ConstantsAssumption
<1>4. e.l \in Nat /\ e.c \in Nat /\ e.val \in Nat
  BY <1>1, <1>3
<1>5. e.dev \in Nat
  BY <1>1, <1>3
<1> QED
  BY <1>1, <1>2, <1>4, <1>5 DEF IsTomb

\* compareEntryTs is a strict order, total up to entryKey.
LEMMA LessOrder ==
  ASSUME NEW a \in Entry, NEW b \in Entry, NEW x \in Entry
  PROVE  /\ Less(a, b) => ~Less(b, a)
         /\ ~Less(a, b) /\ ~Less(b, a) => KeyOf(a) = KeyOf(b)
         /\ Less(a, b) /\ Less(b, x) => Less(a, x)
         /\ ~Less(b, a) /\ Less(b, x) => Less(a, x)
         /\ Less(a, b) /\ ~Less(x, b) => Less(a, x)
BY EntryFacts DEF Less, KeyOf

\* So is the contest of one field.
LEMMA BeatsOrder ==
  ASSUME NEW a \in Entry, NEW b \in Entry, NEW x \in Entry,
         a.field = b.field, b.field = x.field
  PROVE  /\ Beats(a, b) => ~Beats(b, a)
         /\ ~Beats(a, b) /\ ~Beats(b, a) => KeyOf(a) = KeyOf(b)
         /\ Beats(a, b) /\ Beats(b, x) => Beats(a, x)
BY EntryFacts, LessOrder DEF Beats

-----------------------------------------------------------------------------
(* What each branch of reduce leaves in the fields of the merge state.     *)

\* A buried entry leaves a row and nothing else.
LEMMA BuriedFields ==
  ASSUME NEW m, NEW e, IsMerge(m)
  PROVE  LET n == ReduceBuried(m, e) IN
         /\ IsMerge(n)
         /\ n.tomb = m.tomb /\ n.live = m.live /\ n.win = m.win
         /\ n.shown = m.shown /\ n.rows = m.rows \cup {e}
BY DEF IsMerge, ReduceBuried

\* A loser leaves winner and value alone.
LEMMA LoserFields ==
  ASSUME NEW m, NEW e, IsMerge(m)
  PROVE  LET n == ReduceLoser(m, e) IN
         /\ IsMerge(n)
         /\ n.tomb = m.tomb /\ n.win = m.win /\ n.shown = m.shown
         /\ n.live = IF Numeric(e.field) THEN LiveInsert(m.live, e) ELSE m.live
         /\ m.rows \subseteq n.rows
         /\ n.rows \subseteq m.rows \cup {e} \cup m.live
         /\ \A r \in Rivals(m, e) : r.val # e.val => e \in n.rows
         /\ Numeric(e.field) => LiveInsertRows(m.live, e) \subseteq n.rows
<1>1. CASE Numeric(e.field)
  BY <1>1 DEF IsMerge, ReduceLoser, LiveInsertRows
<1>2. CASE ~Numeric(e.field)
  BY <1>2 DEF IsMerge, ReduceLoser
<1> QED
  BY <1>1, <1>2

\* A winner's cell, its cached winner and value, and the rows it causes.
LEMMA WinnerFields ==
  ASSUME NEW m, NEW e, IsMerge(m)
  PROVE  LET n == ReduceWinner(m, e)
             slot == SlotOf(e) IN
         /\ IsMerge(n)
         /\ n.tomb = m.tomb
         /\ n.live = IF Numeric(e.field) THEN LiveInsert(m.live, e)
                     ELSE (m.live \ Cell(m.live, slot)) \cup {e}
         /\ n.win = (m.win \ Cell(m.win, slot)) \cup Winners(Cell(n.live, slot))
         /\ n.shown = [m.shown EXCEPT ![slot] = CellValue(e.field, Cell(n.live, slot))]
         /\ m.rows \subseteq n.rows
         /\ n.rows \subseteq m.rows \cup Rivals(m, e) \cup {e} \cup m.live
         /\ \A r \in Rivals(m, e) : r.val # e.val => r \in n.rows
         /\ Numeric(e.field) => LiveInsertRows(m.live, e) \subseteq n.rows
<1> DEFINE slot == SlotOf(e)
           live == IF Numeric(e.field) THEN LiveInsert(m.live, e)
                   ELSE (m.live \ Cell(m.live, slot)) \cup {e}
           wins == (m.win \ Cell(m.win, slot)) \cup Winners(Cell(live, slot))
           vals == [m.shown EXCEPT ![slot] = CellValue(e.field, Cell(live, slot))]
           lost == {r \in Rivals(m, e) : r.val # e.val}
           cut  == IF Numeric(e.field) THEN LiveInsertRows(m.live, e) ELSE {}
           n == ReduceWinner(m, e)
<1>1. n = [m EXCEPT !.live = live, !.win = wins, !.shown = vals,
                    !.rows = m.rows \cup lost \cup cut]
  BY DEF ReduceWinner
<1> HIDE DEF live, wins, vals, lost, cut
<1>2. /\ IsMerge(n) /\ n.tomb = m.tomb /\ n.live = live /\ n.win = wins
      /\ n.shown = vals /\ n.rows = m.rows \cup lost \cup cut
  BY <1>1 DEF IsMerge
<1>3. cut \subseteq {e} \cup m.live
  BY DEF cut, LiveInsertRows
<1> QED
  BY <1>2, <1>3 DEF live, wins, vals, lost, cut

-----------------------------------------------------------------------------
(* Tombstones.                                                             *)

\* The kept tombstones decide burial as the whole accepted set would.
LEMMA BuriedBySet ==
  ASSUME NEW S \in SUBSET Entry, NEW e \in Entry, NEW m, TombsNewest(m, S)
  PROVE  Buried(m, e) <=> \E t \in S : IsTomb(t) /\ t.rec = e.rec /\ ~Less(t, e)
<1>1. ASSUME NEW t \in S, IsTomb(t), t.rec = e.rec, ~Less(t, e)
      PROVE  Buried(m, e)
  <2>1. PICK u \in m.tomb : u.rec = t.rec /\ ~Less(u, t)
    BY <1>1 DEF TombsNewest
  <2>2. u \in Entry
    BY DEF TombsNewest
  <2>3. ~Less(u, e)
    BY <1>1, <2>1, <2>2, LessOrder
  <2> QED
    BY <1>1, <2>1, <2>3 DEF Buried
<1> QED
  BY <1>1 DEF Buried, TombsNewest

\* An entry a tombstone reaches adds nothing to what is alive.
LEMMA AliveBuried ==
  ASSUME NEW S \in SUBSET Entry, NEW e \in Entry, NEW t \in S,
         IsTomb(t), t.rec = e.rec, ~Less(t, e)
  PROVE  Alive(S \cup {e}) = Alive(S)
<1>1. ASSUME NEW x \in Alive(S), IsTomb(e), e.rec = x.rec
      PROVE  Less(e, x)
  <2>1. x \in Entry /\ Less(t, x)
    BY <1>1 DEF Alive
  <2> QED
    BY <2>1, LessOrder
<1> QED
  BY <1>1 DEF Alive

\* A tombstone takes what it reaches.
LEMMA AliveTomb ==
  ASSUME NEW S \in SUBSET Entry, NEW e \in Entry, IsTomb(e)
  PROVE  Alive(S \cup {e}) = {x \in Alive(S) : x.rec = e.rec => Less(e, x)}
BY DEF Alive

\* An entry no tombstone reaches is alive, and harms nothing.
LEMMA AliveField ==
  ASSUME NEW S \in SUBSET Entry, NEW e \in Entry, ~IsTomb(e),
         ~ \E t \in S : IsTomb(t) /\ t.rec = e.rec /\ ~Less(t, e)
  PROVE  Alive(S \cup {e}) = Alive(S) \cup {e}
BY DEF Alive

-----------------------------------------------------------------------------
(* One entry e reaches a device that accepted S and holds m.  (It may have *)
(* been accepted before, when compaction dropped it since.)                *)

KeyDistinct(S) == \A a, b \in S : KeyOf(a) = KeyOf(b) => a = b

Arriving(m, S, e) ==
  /\ S \subseteq Entry /\ e \in Entry /\ e \notin m.live
  /\ KeyDistinct(S \cup {e})
  /\ IsMerge(m)
  /\ TombsNewest(m, S)
  /\ LiveCovers(m, S)
  /\ CachesFresh(m)

\* What that says of the parts of m.
LEMMA ArrivingFacts ==
  ASSUME NEW m, NEW S, NEW e, Arriving(m, S, e)
  PROVE  /\ S \subseteq Entry /\ S \in SUBSET Entry /\ e \in Entry
         /\ m.live \subseteq S /\ m.win \subseteq m.live /\ m.tomb \subseteq S
         /\ \A x \in m.live : KeyOf(x) # KeyOf(e)
         /\ \A x \in m.live : ~IsTomb(x)
BY DEF Arriving, KeyDistinct, TombsNewest, LiveCovers, CachesFresh, CellWinners, Alive

\* reduce keeps the newest tombstone of every record.
LEMMA TombsKept ==
  ASSUME NEW m, NEW S, NEW e, Arriving(m, S, e)
  PROVE  TombsNewest(Reduce(m, e), S \cup {e})
<1> DEFINE n == Reduce(m, e)
<1>0. IsMerge(m) /\ TombsNewest(m, S) /\ S \in SUBSET Entry /\ e \in Entry
  BY DEF Arriving
<1>1. CASE Buried(m, e)
  <2>1. n.tomb = m.tomb
    BY <1>0, <1>1, BuriedFields DEF Reduce
  <2>2. \E u \in m.tomb : u.rec = e.rec /\ ~Less(u, e)
    BY <1>1 DEF Buried
  <2> QED
    BY <1>0, <2>1, <2>2 DEF TombsNewest
<1>2. CASE ~Buried(m, e) /\ IsTomb(e)
  <2>1. n.tomb = {t \in m.tomb : t.rec # e.rec} \cup {e}
    <3>1. n = ReduceTomb(m, e)
      BY <1>2 DEF Reduce
    <3> QED
      BY <3>1 DEF ReduceTomb
  <2>2. ASSUME NEW t \in S, IsTomb(t), t.rec = e.rec
        PROVE  ~Less(e, t)
    <3>1. Less(t, e)
      BY <1>0, <1>2, <2>2, BuriedBySet
    <3> QED
      BY <1>0, <3>1, LessOrder
  <2>3. ~Less(e, e)
    BY <1>0, LessOrder
  <2>4. \A t \in S \cup {e} : IsTomb(t) => \E u \in n.tomb : u.rec = t.rec /\ ~Less(u, t)
    BY <1>0, <2>1, <2>2, <2>3 DEF TombsNewest
  <2> QED
    BY <1>0, <1>2, <2>1, <2>4 DEF TombsNewest
<1>3. CASE ~Buried(m, e) /\ ~IsTomb(e)
  <2>1. n.tomb = m.tomb
    BY <1>0, <1>3, LoserFields, WinnerFields DEF Reduce
  <2> QED
    BY <1>0, <1>3, <2>1 DEF TombsNewest
<1> QED
  BY <1>1, <1>2, <1>3

\* What is alive after one more entry.
LEMMA AliveNext ==
  ASSUME NEW m, NEW S, NEW e, Arriving(m, S, e)
  PROVE  /\ Buried(m, e) => Alive(S \cup {e}) = Alive(S)
         /\ ~Buried(m, e) /\ IsTomb(e) =>
              Alive(S \cup {e}) = {x \in Alive(S) : x.rec = e.rec => Less(e, x)}
         /\ ~Buried(m, e) /\ ~IsTomb(e) => Alive(S \cup {e}) = Alive(S) \cup {e}
<1>0. TombsNewest(m, S) /\ S \in SUBSET Entry /\ e \in Entry
  BY DEF Arriving
<1>1. Buried(m, e) => Alive(S \cup {e}) = Alive(S)
  BY <1>0, BuriedBySet, AliveBuried
<1>2. ~Buried(m, e) /\ ~IsTomb(e) => Alive(S \cup {e}) = Alive(S) \cup {e}
  BY <1>0, BuriedBySet, AliveField
<1> QED
  BY <1>0, <1>1, <1>2, AliveTomb

\* Domination is transitive.
LEMMA DominatesTransitive ==
  ASSUME NEW a \in Entry, NEW b \in Entry, NEW x \in Entry,
         Dominates(a, b), Dominates(b, x)
  PROVE  Dominates(a, x)
BY EntryFacts, LessOrder DEF Dominates, SamePartition, SlotOf

\* liveInsert drops only what the frontier it leaves covers.
LEMMA LiveInsertCovers ==
  ASSUME NEW L \in SUBSET Entry, NEW A \in SUBSET Entry, NEW e \in Entry,
         Numeric(e.field), L \subseteq A,
         \A x \in A : x \in L \/ \E w \in L : Covers(w, x)
  PROVE  /\ LiveInsert(L, e) \subseteq A \cup {e}
         /\ \A x \in A \cup {e} :
              x \in LiveInsert(L, e) \/ \E w \in LiveInsert(L, e) : Covers(w, x)
<1>1. CASE \E w \in L : Dominates(w, e)
  <2>1. \E w \in L : Covers(w, e)
    BY <1>1 DEF Covers, Dominates, SamePartition
  <2> QED
    BY <1>1, <2>1 DEF LiveInsert
<1>2. CASE ~ \E w \in L : Dominates(w, e)
  <2> DEFINE N == {x \in L : ~Dominates(e, x)} \cup {e}
  <2>1. LiveInsert(L, e) = N
    BY <1>2 DEF LiveInsert
  <2>2. ASSUME NEW x \in L
        PROVE  x \in N \/ Covers(e, x)
    BY DEF Covers, Dominates, SamePartition
  <2>3. ASSUME NEW x \in A, NEW w \in L, Covers(w, x)
        PROVE  w \in N \/ Covers(e, x)
    <3>1. SUFFICES ASSUME Dominates(e, w)
                   PROVE  Covers(e, x)
      OBVIOUS
    <3>2. Numeric(x.field)
      BY <2>3, <3>1 DEF Covers, Dominates, SamePartition, SlotOf
    <3>3. Dominates(e, x)
      BY <2>3, <3>1, <3>2, DominatesTransitive DEF Covers
    <3> QED
      BY <3>3 DEF Covers, Dominates, SamePartition
  <2>4. \A x \in A \cup {e} : x \in N \/ \E w \in N : Covers(w, x)
    BY <2>2, <2>3
  <2> QED
    BY <2>1, <2>4
<1> QED
  BY <1>1, <1>2

\* reduce keeps a frontier that covers everything alive.
LEMMA LiveKept ==
  ASSUME NEW m, NEW S, NEW e, Arriving(m, S, e)
  PROVE  LiveCovers(Reduce(m, e), S \cup {e})
<1> DEFINE n == Reduce(m, e)
           L == m.live
           A == Alive(S)
           B == Alive(S \cup {e})
<1>0. /\ IsMerge(m) /\ e \in Entry /\ L \in SUBSET Entry /\ A \in SUBSET Entry
      /\ L \subseteq A
      /\ \A x \in A : x \in L \/ \E w \in L : Covers(w, x)
      /\ \A a, b \in L : SlotOf(a) = SlotOf(b) /\ ~Numeric(a.field) => a = b
  BY ArrivingFacts DEF Arriving, LiveCovers, Alive
<1>1. CASE Buried(m, e)
  <2>1. n.live = L /\ B = A
    BY <1>0, <1>1, BuriedFields, AliveNext DEF Reduce
  <2> QED
    BY <1>0, <2>1 DEF LiveCovers
<1>2. CASE ~Buried(m, e) /\ IsTomb(e)
  <2> DEFINE killed == {x \in L : x.rec = e.rec /\ ~Less(e, x)}
  <2>0. n = ReduceTomb(m, e)
    BY <1>2 DEF Reduce
  <2>1. n.live = L \ killed
    <3>1. ReduceTomb(m, e).live = L \ killed
      BY DEF ReduceTomb
    <3> QED
      BY <2>0, <3>1
  <2>2. B = {x \in A : x.rec = e.rec => Less(e, x)}
    BY <1>2, AliveNext
  <2>3. ASSUME NEW x \in B, NEW w \in L, Covers(w, x)
        PROVE  w \in n.live
    <3>1. x \in Entry /\ w \in Entry /\ w.rec = x.rec /\ Less(x, w)
      BY <1>0, <2>2, <2>3 DEF Covers, SlotOf
    <3>2. w.rec = e.rec => Less(e, w)
      BY <1>0, <2>2, <3>1, LessOrder
    <3> QED
      BY <2>1, <3>2
  <2>4. \A x \in B : x \in n.live \/ \E w \in n.live : Covers(w, x)
    BY <1>0, <2>1, <2>2, <2>3
  <2> QED
    BY <1>0, <2>1, <2>2, <2>4 DEF LiveCovers
<1>3. CASE ~Buried(m, e) /\ ~IsTomb(e) /\ Numeric(e.field)
  <2>1. n.live = LiveInsert(L, e)
    BY <1>0, <1>3, LoserFields, WinnerFields DEF Reduce
  <2>2. B = A \cup {e}
    BY <1>3, AliveNext
  <2>3. \A a, b \in n.live : SlotOf(a) = SlotOf(b) /\ ~Numeric(a.field) => a = b
    BY <1>0, <1>3, <2>1 DEF LiveInsert, SlotOf
  <2>4. /\ n.live \subseteq A \cup {e}
        /\ \A x \in A \cup {e} : x \in n.live \/ \E w \in n.live : Covers(w, x)
    <3> HIDE DEF A
    <3> QED
      BY <1>0, <1>3, <2>1, LiveInsertCovers
  <2> QED
    BY <2>2, <2>3, <2>4 DEF LiveCovers
<1>4. CASE ~Buried(m, e) /\ ~IsTomb(e) /\ ~Numeric(e.field)
  <2> DEFINE slot == SlotOf(e)
  <2>1. B = A \cup {e}
    BY <1>4, AliveNext
  <2>2. Rivals(m, e) = Cell(L, slot)
    <3>1. Rivals(m, e) = {x \in CellWinners(L) : SlotOf(x) = slot}
      BY <1>4 DEF Rivals, Numeric, Arriving, CachesFresh, Cell
    <3>2. ASSUME NEW x \in L, SlotOf(x) = slot
          PROVE  x \in CellWinners(L)
      <4>1. \A y \in Cell(L, SlotOf(x)) : y = x
        BY <1>0, <1>4, <3>2 DEF Cell, SlotOf
      <4> QED
        BY <4>1 DEF CellWinners, Winners, Cell
    <3> QED
      BY <3>1, <3>2 DEF Cell, CellWinners
  <2>3. \A x \in Cell(L, slot) : KeyOf(x) # KeyOf(e) /\ (Beats(e, x) <=> Less(x, e))
    BY <1>4, ArrivingFacts DEF Cell, Beats
  <2>4. CASE \E r \in Rivals(m, e) : ~Beats(e, r)
    <3>1. n.live = L
      BY <1>0, <1>4, <2>4, LoserFields DEF Reduce
    <3>2. \E w \in L : Covers(w, e)
      BY <1>0, <1>4, <2>2, <2>3, <2>4, LessOrder DEF Covers, Cell
    <3> QED
      BY <1>0, <2>1, <3>1, <3>2 DEF LiveCovers
  <2>5. CASE ~ \E r \in Rivals(m, e) : ~Beats(e, r)
    <3>1. n.live = (L \ Cell(L, slot)) \cup {e}
      BY <1>0, <1>4, <2>5, WinnerFields DEF Reduce
    <3>2. \A x \in Cell(L, slot) : Less(x, e)
      BY <2>2, <2>3, <2>5
    <3>3. \A a, b \in n.live : SlotOf(a) = SlotOf(b) /\ ~Numeric(a.field) => a = b
      BY <1>0, <3>1 DEF Cell
    <3>4. ASSUME NEW x \in L
          PROVE  x \in n.live \/ Covers(e, x)
      BY <1>4, <3>1, <3>2 DEF Covers, Cell, SlotOf
    <3>5. ASSUME NEW x \in A, NEW w \in L, Covers(w, x)
          PROVE  w \in n.live \/ Covers(e, x)
      <4>1. SUFFICES ASSUME w \in Cell(L, slot)
                     PROVE  Covers(e, x)
        BY <3>1 DEF Cell
      <4>2. Less(x, w) /\ Less(w, e) /\ SlotOf(x) = slot
        BY <3>2, <3>5, <4>1 DEF Covers, Cell
      <4>3. Less(x, e)
        BY <1>0, <4>2, LessOrder
      <4> QED
        BY <1>4, <4>2, <4>3 DEF Covers, SlotOf
    <3>6. \A x \in A \cup {e} : x \in n.live \/ \E w \in n.live : Covers(w, x)
      BY <1>0, <3>1, <3>4, <3>5
    <3> QED
      BY <1>0, <2>1, <3>1, <3>3, <3>6 DEF LiveCovers
  <2> QED
    BY <2>4, <2>5
<1> QED
  BY <1>1, <1>2, <1>3, <1>4

-----------------------------------------------------------------------------
(* The cached winners and values.                                          *)

\* A newcomer e that loses to r changes no winner, even if it replaces
\* candidates it beats itself.
LEMMA LoserKeepsWinners ==
  ASSUME NEW X \in SUBSET Entry, NEW Y \in SUBSET Entry, NEW e \in Entry,
         NEW r \in X, Beats(r, e),
         \A x \in X : x.field = e.field,
         Y \subseteq X \cup {e},
         Y = X \/ (e \in Y /\ \A x \in X \ Y : Beats(e, x))
  PROVE  Winners(Y) = Winners(X)
<1>1. SUFFICES ASSUME e \in Y, \A x \in X \ Y : Beats(e, x)
               PROVE  Winners(Y) = Winners(X)
  OBVIOUS
<1>2. ~Beats(e, r) /\ r \in Y
  BY <1>1, BeatsOrder
<1>3. ASSUME NEW w \in Winners(X)
      PROVE  w \in Winners(Y)
  <2>1. w \in X /\ ~Beats(e, w)
    <3>1. w \in X /\ w \in Entry
      BY <1>3 DEF Winners
    <3>2. Beats(e, w) => Beats(r, w)
      BY <3>1, BeatsOrder
    <3>3. Beats(r, w) => r # w
      BY <3>1, BeatsOrder
    <3> QED
      BY <1>3, <3>1, <3>2, <3>3 DEF Winners
  <2> QED
    BY <1>1, <1>3, <2>1 DEF Winners
<1>4. ASSUME NEW w \in Winners(Y)
      PROVE  w \in Winners(X)
  <2>1. w \in X
    BY <1>2, <1>4, BeatsOrder DEF Winners
  <2>2. ASSUME NEW x \in X, x # w, Beats(x, w)
        PROVE  FALSE
    <3>1. x \notin Y
      BY <1>4, <2>2 DEF Winners
    <3>2. Beats(e, x)
      BY <1>1, <3>1
    <3>3. Beats(e, w)
      BY <2>1, <2>2, <3>2, BeatsOrder
    <3>4. e # w
      BY <2>1, <3>3, BeatsOrder
    <3> QED
      BY <1>1, <1>4, <3>3, <3>4 DEF Winners
  <2> QED
    BY <2>1, <2>2 DEF Winners
<1> QED
  BY <1>3, <1>4

\* In a numeric field, who dominates wins.
LEMMA DominatesBeats ==
  ASSUME NEW a \in Entry, NEW b \in Entry, Dominates(a, b), Numeric(a.field)
  PROVE  Beats(a, b)
BY EntryFacts DEF Dominates, Beats, SamePartition, SlotOf

\* What a cell shows depends only on the winner of each of its partitions.
LEMMA CellValueByWinners ==
  ASSUME NEW f, NEW X, NEW Y,
         X = {} <=> Y = {},
         Winners(X) = Winners(Y),
         f \in SumFields => \A d \in Devices : Component(X, d) = Component(Y, d)
  PROVE  CellValue(f, X) = CellValue(f, Y)
<1>1. CASE f \in SumFields
  <2>1. SumValue(X) = SumValue(Y)
    <3>1. [d \in Devices |-> Component(X, d)] = [d \in Devices |-> Component(Y, d)]
      BY <1>1
    <3> QED
      BY <3>1 DEF SumValue
  <2> QED
    BY <1>1, <2>1 DEF CellValue
<1>2. CASE f \notin SumFields
  BY <1>2 DEF CellValue, WinningValue
<1> QED
  BY <1>1, <1>2

\* A device's share of a sum depends only on its winner.
LEMMA ComponentByWinners ==
  ASSUME NEW X, NEW Y, NEW d,
         {x \in X : x.dev = d} = {} <=> {y \in Y : y.dev = d} = {},
         Winners({x \in X : x.dev = d}) = Winners({y \in Y : y.dev = d})
  PROVE  Component(X, d) = Component(Y, d)
<1> DEFINE A == {x \in X : x.dev = d}
           B == {y \in Y : y.dev = d}
<1>1. WinningValue(A) = WinningValue(B)
  <2>1. Winners(A) = Winners(B)
    OBVIOUS
  <2> HIDE DEF A, B
  <2> QED
    BY <2>1 DEF WinningValue
<1>2. Component(X, d) = IF A = {} THEN 0 ELSE WinningValue(A)
  BY Zenon DEF Component
<1>3. Component(Y, d) = IF B = {} THEN 0 ELSE WinningValue(B)
  BY Zenon DEF Component
<1>4. A = {} <=> B = {}
  OBVIOUS
<1> HIDE DEF A, B
<1> QED
  BY <1>1, <1>2, <1>3, <1>4

\* Cells that reduce(e) does not rewrite.
LEMMA OtherCells ==
  ASSUME NEW L, NEW e, NEW N, NEW s, s # SlotOf(e),
         \A x : SlotOf(x) # SlotOf(e) => (x \in N <=> x \in L)
  PROVE  Cell(N, s) = Cell(L, s)
BY DEF Cell

\* liveInsert stays within one cell.
LEMMA LiveInsertOthers ==
  ASSUME NEW L, NEW e
  PROVE  \A x : SlotOf(x) # SlotOf(e) => (x \in LiveInsert(L, e) <=> x \in L)
BY DEF LiveInsert, Dominates, SamePartition

\* In a numeric cell, a newcomer that loses its contest moves neither the
\* winner nor the value, although the frontier changes.
LEMMA LoserKeepsCell ==
  ASSUME NEW m, NEW S, NEW e, Arriving(m, S, e), e.field \in Fields, Numeric(e.field),
         NEW r \in Rivals(m, e), ~Beats(e, r)
  PROVE  LET X == Cell(m.live, SlotOf(e))
             Y == Cell(LiveInsert(m.live, e), SlotOf(e)) IN
         /\ Winners(Y) = Winners(X)
         /\ CellValue(e.field, Y) = CellValue(e.field, X)
<1> DEFINE X == Cell(m.live, SlotOf(e))
           Y == Cell(LiveInsert(m.live, e), SlotOf(e))
<1>1. /\ X \in SUBSET Entry /\ Y \in SUBSET Entry /\ e \in Entry
      /\ \A x \in X : x.field = e.field
      /\ Y \subseteq X \cup {e}
      /\ Y = X \/ (e \in Y /\ \A x \in X \ Y : Dominates(e, x))
  BY ArrivingFacts DEF Cell, LiveInsert, SlotOf
<1>2. \A x \in X \ Y : Dominates(e, x) => Beats(e, x)
  BY <1>1, DominatesBeats
<1>3. r \in X /\ Beats(r, e) /\ (e.field \in SumFields => r.dev = e.dev)
  <2>1. r \in X /\ (e.field \in SumFields => r.dev = e.dev)
    BY ArrivingFacts DEF Rivals, Winners, SamePartition, Cell, SlotOf
  <2>2. KeyOf(r) # KeyOf(e)
    BY <2>1, ArrivingFacts DEF Cell
  <2> QED
    BY <1>1, <2>1, <2>2, BeatsOrder
<1>4. X = {} <=> Y = {}
  BY <1>1, <1>3
<1>5. Winners(Y) = Winners(X)
  <2> HIDE DEF X, Y
  <2> QED
    BY <1>1, <1>2, <1>3, LoserKeepsWinners
<1>6. ASSUME e.field \in SumFields, NEW d \in Devices
      PROVE  Component(Y, d) = Component(X, d)
  <2> DEFINE Xd == {x \in X : x.dev = d}
             Yd == {y \in Y : y.dev = d}
  <2>1. CASE d = e.dev
    <3>1. /\ Xd \in SUBSET Entry /\ Yd \in SUBSET Entry
          /\ \A x \in Xd : x.field = e.field
          /\ Yd \subseteq Xd \cup {e} /\ r \in Xd
          /\ Yd = Xd \/ (e \in Yd /\ \A x \in Xd \ Yd : Beats(e, x))
      <4> HIDE DEF X, Y
      <4> QED
        BY <1>1, <1>2, <1>3, <1>6, <2>1
    <3>2. Winners(Yd) = Winners(Xd)
      <4> HIDE DEF Xd, Yd
      <4> QED
        BY <1>1, <1>3, <3>1, LoserKeepsWinners
    <3>3. Yd = {} <=> Xd = {}
      <4> HIDE DEF Xd, Yd
      <4> QED
        BY <3>1
    <3> HIDE DEF X, Y
    <3> QED
      BY <3>2, <3>3, ComponentByWinners
  <2>2. CASE d # e.dev
    <3>1. \A x \in X \ Y : x.dev = e.dev
      <4> HIDE DEF X, Y
      <4> QED
        BY <1>1, <1>6 DEF Dominates, SamePartition
    <3>2. Xd = Yd
      <4> HIDE DEF X, Y
      <4> QED
        BY <1>1, <2>2, <3>1
    <3> HIDE DEF X, Y
    <3> QED
      BY <3>2 DEF Component
  <2> QED
    BY <2>1, <2>2
<1>7. CellValue(e.field, Y) = CellValue(e.field, X)
  <2> HIDE DEF X, Y
  <2> QED
    BY <1>4, <1>5, <1>6, CellValueByWinners
<1> QED
  BY <1>5, <1>7

\* CellWinners, cell by cell.
LEMMA CellWinnersByCell ==
  ASSUME NEW N
  PROVE  \A w : w \in CellWinners(N) <=> w \in Winners(Cell(N, SlotOf(w)))
BY DEF CellWinners, Winners, Cell

\* The cell of a field entry.
LEMMA FieldSlot ==
  ASSUME NEW e \in Entry, ~IsTomb(e)
  PROVE  SlotOf(e) \in Slots /\ SlotOf(e)[1] = e.rec /\ SlotOf(e)[2] = e.field
BY EntryFacts DEF SlotOf, Slots

\* A tombstone leaves every cached winner and value fresh.
LEMMA CachesTomb ==
  ASSUME NEW m, NEW S, NEW e, Arriving(m, S, e)
  PROVE  CachesFresh(ReduceTomb(m, e))
<1> DEFINE n == ReduceTomb(m, e)
           killed == {x \in m.live : x.rec = e.rec /\ ~Less(e, x)}
<1>0. IsMerge(m)
  BY DEF Arriving
<1>1. n.live = m.live \ killed
  BY DEF ReduceTomb
<1>2. /\ n.win = {w \in m.win : w.rec # e.rec}
                   \cup {w \in CellWinners(n.live) : w.rec = e.rec}
      /\ n.shown = [s \in Slots |->
                       IF s[1] = e.rec THEN CellValue(s[2], Cell(n.live, s))
                       ELSE m.shown[s]]
  BY DEF ReduceTomb
<1> HIDE DEF n
<1>3. ASSUME NEW s, s[1] # e.rec
      PROVE  Cell(n.live, s) = Cell(m.live, s)
  BY <1>1, <1>3 DEF Cell, SlotOf
<1>4. n.win = CellWinners(n.live)
  <2>1. \A w : w.rec # e.rec => (w \in CellWinners(n.live) <=> w \in CellWinners(m.live))
    BY <1>3, CellWinnersByCell DEF SlotOf
  <2>2. m.win = CellWinners(m.live)
    BY DEF Arriving, CachesFresh
  <2> QED
    BY <1>2, <2>1, <2>2
<1>5. n.shown = [s \in Slots |-> CellValue(s[2], Cell(n.live, s))]
  <2>1. \A s \in Slots : m.shown[s] = CellValue(s[2], Cell(m.live, s))
    BY DEF Arriving, CachesFresh
  <2> QED
    BY <1>2, <1>3, <2>1
<1> QED
  BY <1>4, <1>5 DEF CachesFresh, n

\* So does a loser.
LEMMA CachesLoser ==
  ASSUME NEW m, NEW S, NEW e, Arriving(m, S, e), e.field \in Fields,
         NEW r \in Rivals(m, e), ~Beats(e, r)
  PROVE  CachesFresh(ReduceLoser(m, e))
<1> DEFINE n == ReduceLoser(m, e)
<1>0. IsMerge(m)
  BY DEF Arriving
<1>1. CASE ~Numeric(e.field)
  <2>1. n.live = m.live /\ n.win = m.win /\ n.shown = m.shown
    BY <1>0, <1>1, LoserFields
  <2> QED
    BY <2>1 DEF Arriving, CachesFresh
<1>2. CASE Numeric(e.field)
  <2>1. n.live = LiveInsert(m.live, e) /\ n.win = m.win /\ n.shown = m.shown
    BY <1>0, <1>2, LoserFields
  <2> DEFINE N == LiveInsert(m.live, e)
  <2>2. ASSUME NEW s, s # SlotOf(e)
        PROVE  Cell(N, s) = Cell(m.live, s)
    BY <2>2, LiveInsertOthers, OtherCells
  <2>3. /\ Winners(Cell(N, SlotOf(e))) = Winners(Cell(m.live, SlotOf(e)))
        /\ CellValue(e.field, Cell(N, SlotOf(e)))
             = CellValue(e.field, Cell(m.live, SlotOf(e)))
    BY <1>2, LoserKeepsCell
  <2> HIDE DEF N
  <2>4. CellWinners(N) = CellWinners(m.live)
    <3>1. \A w : Winners(Cell(N, SlotOf(w))) = Winners(Cell(m.live, SlotOf(w)))
      BY <2>2, <2>3
    <3>2. \A w : w \in CellWinners(N) <=> w \in CellWinners(m.live)
      BY <3>1, CellWinnersByCell, Zenon
    <3> QED
      BY <3>2
  <2>5. \A s \in Slots : CellValue(s[2], Cell(N, s)) = CellValue(s[2], Cell(m.live, s))
    <3>1. SlotOf(e)[2] = e.field
      BY DEF SlotOf
    <3> QED
      BY <2>2, <2>3, <3>1
  <2>6. /\ m.win = CellWinners(m.live)
        /\ m.shown = [s \in Slots |-> CellValue(s[2], Cell(m.live, s))]
    BY DEF Arriving, CachesFresh
  <2>7. m.shown = [s \in Slots |-> CellValue(s[2], Cell(N, s))]
    BY <2>5, <2>6
  <2> QED
    BY <2>1, <2>4, <2>6, <2>7 DEF CachesFresh, N
<1> QED
  BY <1>1, <1>2

\* So does a winner.
LEMMA CachesWinner ==
  ASSUME NEW m, NEW S, NEW e, Arriving(m, S, e), ~IsTomb(e)
  PROVE  CachesFresh(ReduceWinner(m, e))
<1> DEFINE n == ReduceWinner(m, e)
           slot == SlotOf(e)
<1>1. /\ n.live = IF Numeric(e.field) THEN LiveInsert(m.live, e)
                  ELSE (m.live \ Cell(m.live, slot)) \cup {e}
      /\ n.win = (m.win \ Cell(m.win, slot)) \cup Winners(Cell(n.live, slot))
      /\ n.shown = [m.shown EXCEPT ![slot] = CellValue(e.field, Cell(n.live, slot))]
  BY WinnerFields DEF Arriving
<1> HIDE DEF n
<1>2. ASSUME NEW s, s # slot
      PROVE  Cell(n.live, s) = Cell(m.live, s)
  <2>1. \A x : SlotOf(x) # slot => (x \in n.live <=> x \in m.live)
    BY <1>1, LiveInsertOthers DEF Cell
  <2> QED
    BY <1>2, <2>1, OtherCells
<1>3. /\ m.win = CellWinners(m.live)
      /\ m.shown = [s \in Slots |-> CellValue(s[2], Cell(m.live, s))]
  BY DEF Arriving, CachesFresh
<1>4. n.win = CellWinners(n.live)
  <2>1. ASSUME NEW w, SlotOf(w) # slot
        PROVE  w \in n.win <=> w \in CellWinners(n.live)
    <3>1. w \in n.win <=> w \in m.win
      BY <1>1, <2>1 DEF Cell, Winners
    <3>2. w \in CellWinners(n.live) <=> w \in CellWinners(m.live)
      BY <1>2, <2>1, CellWinnersByCell
    <3> QED
      BY <1>3, <3>1, <3>2
  <2>2. ASSUME NEW w, SlotOf(w) = slot
        PROVE  w \in n.win <=> w \in CellWinners(n.live)
    <3>1. w \in n.win <=> w \in Winners(Cell(n.live, slot))
      BY <1>1, <2>2 DEF Cell
    <3> QED
      BY <2>2, <3>1, CellWinnersByCell
  <2> QED
    BY <2>1, <2>2
<1>5. n.shown = [s \in Slots |-> CellValue(s[2], Cell(n.live, s))]
  <2>1. slot \in Slots /\ slot[2] = e.field
    BY ArrivingFacts, FieldSlot
  <2> HIDE DEF slot
  <2>2. DOMAIN m.shown = Slots
    BY <1>3
  <2>3. \A s \in Slots : s # slot => m.shown[s] = CellValue(s[2], Cell(n.live, s))
    BY <1>2, <1>3
  <2> QED
    BY <1>1, <2>1, <2>2, <2>3, ZenonT(60)
<1> QED
  BY <1>4, <1>5 DEF CachesFresh, n

\* So does reduce.
LEMMA CachesKept ==
  ASSUME NEW m, NEW S, NEW e, Arriving(m, S, e)
  PROVE  CachesFresh(Reduce(m, e))
<1>1. CASE Buried(m, e)
  BY <1>1, BuriedFields DEF Arriving, CachesFresh, Reduce
<1>2. CASE ~Buried(m, e) /\ IsTomb(e)
  BY <1>2, CachesTomb DEF Reduce
<1>3. CASE ~Buried(m, e) /\ ~IsTomb(e)
  <2>1. e.field \in Fields
    BY <1>3, ArrivingFacts, EntryFacts
  <2> QED
    BY <1>3, <2>1, CachesLoser, CachesWinner DEF Reduce
<1> QED
  BY <1>1, <1>2, <1>3

-----------------------------------------------------------------------------
(* From the frontier to the view.                                          *)

\* Candidates beaten by others can be left out: the winners stay.
LEMMA FrontierWinners ==
  ASSUME NEW X, NEW Y \in SUBSET Entry, X \subseteq Y,
         \A a, b \in Y : a.field = b.field,
         \A y \in Y : y \in X \/ \E w \in X : Beats(w, y)
  PROVE  /\ Winners(X) = Winners(Y)
         /\ X = {} <=> Y = {}
<1>1. ASSUME NEW w \in Winners(Y)
      PROVE  w \in Winners(X)
  <2>1. w \in Y
    BY DEF Winners
  <2>2. ASSUME NEW v \in X, Beats(v, w)
        PROVE  FALSE
    <3>1. v # w
      BY <2>1, <2>2, BeatsOrder
    <3> QED
      BY <2>2, <3>1 DEF Winners
  <2> QED
    BY <2>1, <2>2 DEF Winners
<1>2. ASSUME NEW w \in Winners(X), NEW y \in Y, y # w, Beats(y, w)
      PROVE  FALSE
  <2>1. w \in X
    BY DEF Winners
  <2>2. PICK v \in X : Beats(v, y)
    BY <1>2 DEF Winners
  <2>3. Beats(v, w)
    BY <1>2, <2>1, <2>2, BeatsOrder
  <2>4. v # w
    BY <2>1, <2>3, BeatsOrder
  <2> QED
    BY <2>3, <2>4 DEF Winners
<1>3. Winners(X) \subseteq Winners(Y)
  BY <1>2 DEF Winners
<1> QED
  BY <1>1, <1>3

\* Who covers an entry wins against it.
LEMMA CoversBeats ==
  ASSUME NEW w \in Entry, NEW e \in Entry, Covers(w, e)
  PROVE  /\ Beats(w, e)
         /\ e.field \in SumFields => w.dev = e.dev
<1>1. w.field = e.field
  BY DEF Covers, SlotOf
<1>2. CASE Numeric(e.field)
  BY <1>1, <1>2, DominatesBeats DEF Covers, Dominates, SamePartition
<1>3. CASE ~Numeric(e.field)
  BY <1>1, <1>3 DEF Covers, Beats, Numeric
<1> QED
  BY <1>2, <1>3

\* A cell shows what a part of it shows, when each entry left out is beaten
\* within its partition.
LEMMA SlotView ==
  ASSUME NEW s, NEW X, NEW Y \in SUBSET Entry, X \subseteq Y,
         \A y \in Y : y.field = s[2],
         \A y \in Y : y \in X \/ \E w \in X : Beats(w, y)
                                           /\ (s[2] \in SumFields => w.dev = y.dev)
  PROVE  CellValue(s[2], X) = CellValue(s[2], Y)
<1>1. Winners(X) = Winners(Y) /\ (X = {} <=> Y = {})
  BY FrontierWinners
<1>2. ASSUME s[2] \in SumFields, NEW d \in Devices
      PROVE  Component(X, d) = Component(Y, d)
  <2> DEFINE Xd == {x \in X : x.dev = d}
             Yd == {y \in Y : y.dev = d}
  <2>1. /\ Yd \in SUBSET Entry /\ Xd \subseteq Yd
        /\ \A a, b \in Yd : a.field = b.field
        /\ \A y \in Yd : y \in Xd \/ \E w \in Xd : Beats(w, y)
    BY <1>2
  <2>2. Winners(Xd) = Winners(Yd) /\ (Xd = {} <=> Yd = {})
    <3> HIDE DEF Xd, Yd
    <3> QED
      BY <2>1, FrontierWinners
  <2> QED
    BY <2>2, ComponentByWinners
<1> QED
  BY <1>1, <1>2, CellValueByWinners

\* Dropping covered candidates changes nothing a device shows.
LEMMA FrontierView ==
  ASSUME NEW m, NEW S \in SUBSET Entry, LiveCovers(m, S), CachesFresh(m)
  PROVE  m.shown = View(S)
<1>1. ASSUME NEW s \in Slots
      PROVE  CellValue(s[2], Cell(m.live, s)) = CellValue(s[2], Cell(Alive(S), s))
  <2> DEFINE X == Cell(m.live, s)
             Y == Cell(Alive(S), s)
  <2>1. /\ Y \in SUBSET Entry /\ X \subseteq Y
        /\ \A y \in Y : y.field = s[2]
    BY DEF LiveCovers, Alive, Cell, SlotOf
  <2>2. ASSUME NEW y \in Y, y \notin X
        PROVE  \E w \in X : Beats(w, y) /\ (s[2] \in SumFields => w.dev = y.dev)
    <3>1. PICK w \in m.live : Covers(w, y)
      BY <2>2 DEF LiveCovers, Cell
    <3>2. w \in X
      BY <3>1 DEF Covers, Cell
    <3> HIDE DEF X, Y
    <3> QED
      BY <2>1, <2>2, <3>1, <3>2, CoversBeats
  <2> HIDE DEF X, Y
  <2>3. CellValue(s[2], X) = CellValue(s[2], Y)
    BY <2>1, <2>2, SlotView
  <2> QED
    BY <2>3 DEF X, Y
<1>2. m.shown = [s \in Slots |-> CellValue(s[2], Cell(m.live, s))]
  BY DEF CachesFresh
<1> QED
  BY <1>1, <1>2 DEF View

-----------------------------------------------------------------------------
(* The hybrid clock.                                                       *)

\* tick moves the clock strictly forward.
LEMMA TickFacts ==
  ASSUME NEW k \in Stamp, NEW now \in 0 .. MaxInt, NEW s \in Tick(k, now)
  PROVE  s \in Stamp /\ StampLeq(k, s) /\ ~StampLeq(s, k)
<1>1. k.l \in 0 .. MaxInt /\ k.c \in 0 .. MaxInt /\ now \in 0 .. MaxInt /\ MaxInt \in Nat
  BY ConstantsAssumption DEF Stamp
<1>2. CASE now > k.l
  BY <1>1, <1>2 DEF Tick, Stamp, StampLeq
<1>3. CASE ~(now > k.l) /\ k.c < MaxInt
  BY <1>1, <1>3 DEF Tick, Stamp, StampLeq
<1>4. CASE ~(now > k.l) /\ ~(k.c < MaxInt)
  BY <1>1, <1>4 DEF Tick, Stamp, StampLeq
<1> QED
  BY <1>2, <1>3, <1>4

\* The larger of two numbers.
LEMMA MaxOfTwo ==
  ASSUME NEW a \in Nat, NEW b \in Nat
  PROVE  Max({a, b}) \in {a, b} /\ Max({a, b}) >= a /\ Max({a, b}) >= b
<1>1. \E x \in {a, b} : \A y \in {a, b} : x >= y
  BY DEF Max
<1> QED
  BY <1>1 DEF Max

\* The largest of three numbers.
LEMMA MaxOfThree ==
  ASSUME NEW a \in Nat, NEW b \in Nat, NEW x \in Nat
  PROVE  /\ Max({a, b, x}) \in {a, b, x}
         /\ Max({a, b, x}) >= a /\ Max({a, b, x}) >= b /\ Max({a, b, x}) >= x
<1>1. \E z \in {a, b, x} : \A y \in {a, b, x} : z >= y
  BY DEF Max
<1> QED
  BY <1>1 DEF Max

\* receive moves the clock to or above both stamps.
LEMMA ReceiveFacts ==
  ASSUME NEW k \in Stamp, NEW e \in Entry, NEW now \in 0 .. MaxInt,
         NEW s \in Receive(k, e, now)
  PROVE  s \in Stamp /\ StampLeq(k, s) /\ StampLeq(e, s)
<1> DEFINE l == Max({k.l, e.l, now})
           mc == Max({k.c, e.c})
           c == IF l = k.l /\ l = e.l THEN mc + 1
                ELSE IF l = k.l THEN k.c + 1
                ELSE IF l = e.l THEN e.c + 1
                ELSE 0
<1>1. /\ k.l \in 0 .. MaxInt /\ k.c \in 0 .. MaxInt /\ now \in 0 .. MaxInt
      /\ e.l \in 0 .. MaxInt /\ e.c \in 0 .. MaxInt /\ MaxInt \in Nat
  BY ConstantsAssumption, EntryFacts DEF Stamp
<1>2. /\ l \in 0 .. MaxInt /\ l >= k.l /\ l >= e.l
      /\ mc \in Nat /\ mc >= k.c /\ mc >= e.c
  BY <1>1, MaxOfTwo, MaxOfThree
<1>3. s \in IF c <= MaxInt THEN {[l |-> l, c |-> c]}
            ELSE IF l < MaxInt THEN {[l |-> l + 1, c |-> 0]}
            ELSE {}
  BY DEF Receive
<1> HIDE DEF l, mc
<1>4. c \in Nat
  BY <1>1, <1>2
<1>5. CASE c <= MaxInt
  <2>1. s = [l |-> l, c |-> c]
    BY <1>3, <1>5
  <2>2. /\ l = k.l => c >= k.c
        /\ l = e.l => c >= e.c
    BY <1>1, <1>2
  <2> HIDE DEF c
  <2> QED
    BY <1>1, <1>2, <1>4, <1>5, <2>1, <2>2 DEF Stamp, StampLeq
<1>6. CASE ~(c <= MaxInt)
  <2>1. l < MaxInt /\ s = [l |-> l + 1, c |-> 0]
    BY <1>3, <1>6
  <2> HIDE DEF c
  <2> QED
    BY <1>1, <1>2, <2>1 DEF Stamp, StampLeq
<1> QED
  BY <1>5, <1>6

-----------------------------------------------------------------------------
(* A device whose merge state stands for what it accepted.                 *)

DeviceSound(m, S) ==
  /\ IsMerge(m)
  /\ m.tomb \cup m.live \cup m.rows \subseteq S
  /\ m.win \subseteq m.live
  /\ TombsNewest(m, S)
  /\ LiveCovers(m, S)
  /\ CachesFresh(m)

\* reduce keeps the frontier of one device sound.
LEMMA ReduceSound ==
  ASSUME NEW m, NEW S, NEW e, Arriving(m, S, e), m.rows \subseteq S
  PROVE  DeviceSound(Reduce(m, e), S \cup {e})
<1> DEFINE n == Reduce(m, e)
<1>1. /\ IsMerge(m) /\ m.live \subseteq S /\ m.tomb \subseteq S
      /\ Rivals(m, e) \subseteq m.live
  BY ArrivingFacts DEF Arriving, Rivals, Cell, Winners
<1>2. IsMerge(n) /\ n.rows \subseteq S \cup {e}
  <2>1. CASE Buried(m, e)
    BY <1>1, <2>1, BuriedFields DEF Reduce
  <2>2. CASE ~Buried(m, e) /\ IsTomb(e)
    <3>1. n = ReduceTomb(m, e)
      BY <2>2 DEF Reduce
    <3>2. IsMerge(n)
      BY <3>1 DEF ReduceTomb, IsMerge
    <3>3. n.rows \subseteq m.rows \cup m.tomb \cup m.live
      BY <3>1 DEF ReduceTomb
    <3> QED
      BY <1>1, <3>2, <3>3
  <2>3. CASE ~Buried(m, e) /\ ~IsTomb(e)
    BY <1>1, <2>3, LoserFields, WinnerFields DEF Reduce
  <2> QED
    BY <2>1, <2>2, <2>3
<1>3. TombsNewest(n, S \cup {e}) /\ LiveCovers(n, S \cup {e}) /\ CachesFresh(n)
  BY TombsKept, LiveKept, CachesKept
<1> QED
  BY <1>2, <1>3 DEF DeviceSound, TombsNewest, LiveCovers, CachesFresh, CellWinners, Alive

\* An entry above all the others is what a set that holds it means.
LEMMA NewestShows ==
  ASSUME NEW S \in SUBSET Entry, NEW e \in S,
         \A k \in S : k # e => Less(k, e)
  PROVE  /\ e.field \in LwwFields => View(S)[SlotOf(e)] = e.val
         /\ IsTomb(e) => \A f \in Fields : View(S)[<<e.rec, f>>] = Absent
<1>1. ASSUME e.field \in LwwFields
      PROVE  View(S)[SlotOf(e)] = e.val
  <2> DEFINE C == Cell(Alive(S), SlotOf(e))
  <2>1. ~IsTomb(e) /\ ~Numeric(e.field) /\ e.field \notin SumFields /\ e.field \in Fields
    BY <1>1, ConstantsAssumption DEF IsTomb, Numeric, Fields
  <2>2. e \in C
    BY <2>1 DEF Alive, Cell, IsTomb
  <2>3. C \subseteq S /\ \A x \in C : x.field = e.field
    BY DEF Alive, Cell, SlotOf
  <2> HIDE DEF C
  <2>4. \A x \in C : x # e => Beats(e, x) /\ ~Beats(x, e)
    BY <2>1, <2>2, <2>3, LessOrder DEF Beats
  <2>5. Winners(C) = {e}
    BY <2>2, <2>4 DEF Winners
  <2>6. WinningValue(C) = e.val
    BY <2>5 DEF WinningValue
  <2>7. CellValue(e.field, C) = e.val
    BY <2>1, <2>2, <2>6 DEF CellValue
  <2>8. View(S)[SlotOf(e)] = CellValue(e.field, C)
    BY <2>1, FieldSlot DEF View, C
  <2> QED
    BY <2>7, <2>8
<1>2. ASSUME IsTomb(e), NEW f \in Fields
      PROVE  View(S)[<<e.rec, f>>] = Absent
  <2>1. \A x \in Alive(S) : x.rec # e.rec
    BY <1>2, LessOrder DEF Alive
  <2>2. Cell(Alive(S), <<e.rec, f>>) = {}
    BY <2>1 DEF Cell, SlotOf
  <2>3. <<e.rec, f>> \in Slots
    BY EntryFacts DEF Slots
  <2> QED
    BY <2>2, <2>3 DEF View, CellValue
<1> QED
  BY <1>1, <1>2

\* Every entry of a finite set has a winner of the set that is it or beats it.
LEMMA WinnerAbove ==
  ASSUME NEW X \in SUBSET Entry, IsFiniteSet(X), NEW e \in X,
         \A a, b \in X : a.field = b.field
  PROVE  \E w \in Winners(X) : w = e \/ Beats(w, e)
<1> DEFINE Better(x) == {y \in X : Beats(y, x)}
           T == {Better(x) : x \in {y \in X : y = e \/ Beats(y, e)}}
<1>1. /\ IsWellFoundedOn(StrictSubsetOrdering(X), FiniteSubsetsOf(X))
      /\ FiniteSubsetsOf(X) = SUBSET X
  BY FS_StrictSubsetOrderingWellFounded, FS_FiniteSubsetsOfFinite
<1>2. T \subseteq SUBSET X /\ T # {}
  OBVIOUS
<1>3. PICK U \in T : \A V \in T : ~ (<<V, U>> \in StrictSubsetOrdering(X))
  <2> HIDE DEF T
  <2> QED
    BY <1>1, <1>2, WFMin
<1>4. PICK w \in X : U = Better(w) /\ (w = e \/ Beats(w, e))
  BY <1>3
<1>5. ASSUME NEW y \in X, Beats(y, w)
      PROVE  FALSE
  <2>1. Beats(y, e)
    BY <1>4, <1>5, BeatsOrder
  <2>2. Better(y) \in T
    BY <2>1
  <2>3. Better(y) \subseteq Better(w)
    BY <1>5, BeatsOrder
  <2>4. y \in Better(w) /\ y \notin Better(y)
    BY <1>5, BeatsOrder
  <2>5. <<Better(y), Better(w)>> \in StrictSubsetOrdering(X)
    BY <2>3, <2>4 DEF StrictSubsetOrdering
  <2> QED
    BY <1>3, <1>4, <2>2, <2>5
<1> QED
  BY <1>4, <1>5 DEF Winners

=============================================================================
