---------------------------- MODULE SyncEngineProofs ----------------------------
(***************************************************************************)
(* The safety theorems of SyncEngine.                                      *)
(*                                                                         *)
(* The inductive invariant IInv has four parts.  Shape types the state.    *)
(* Histories says that ordinals and stamps identify what was emitted, and  *)
(* that a log holds its device's newest entry.  Sound says that a merge    *)
(* state stands for everything its device accepted and is made of rows its *)
(* log still holds.  Honest is about claims: whatever a cursor, a seq seen *)
(* above it or a document in flight accounts for was accepted, or will     *)
(* never be shown.                                                         *)
(***************************************************************************)
EXTENDS SyncEngine, SyncRulesProofs

-----------------------------------------------------------------------------
(***************************************************************************)
(* What the folds of SyncEngine yield: a document reduced into a merge     *)
(* state (Merged), its stamps received by a clock (Received), the total of *)
(* a sum cell.  The operators are folds of the community modules; here     *)
(* each is first shown to be defined on every finite set, then unfolded    *)
(* by one element, the form in which the induction over a set uses it.     *)
(***************************************************************************)

\* Of finitely many entries one is newest.
LEMMA NewestFacts ==
  ASSUME NEW T \in SUBSET Entry, IsFiniteSet(T), T # {}
  PROVE  Newest(T) \in T /\ \A x \in T : ~Less(Newest(T), x)
<1> DEFINE Newer(x) == {y \in T : Less(x, y)}
           C == {Newer(x) : x \in T}
<1>1. PICK U \in C : \A V \in C : ~(V \subseteq U /\ V # U)
  <2>1. C \subseteq SUBSET T /\ C # {}
    OBVIOUS
  <2> HIDE DEF C
  <2> QED
    BY <2>1, SmallestSubset
<1>2. PICK w \in T : U = Newer(w)
  OBVIOUS
<1>3. ASSUME NEW x \in T, Less(w, x)
      PROVE  FALSE
  <2>1. Newer(x) \subseteq Newer(w)
    BY <1>3, LessOrder
  <2>2. x \in Newer(w) /\ x \notin Newer(x)
    BY <1>3, LessOrder
  <2> QED
    BY <1>1, <1>2, <2>1, <2>2
<1> QED
  BY <1>3 DEF Newest

\* With distinct keys the newest entry is above all others, and the only one.
LEMMA NewestAbove ==
  ASSUME NEW T \in SUBSET Entry, IsFiniteSet(T), T # {}, KeyDistinct(T)
  PROVE  /\ \A x \in T : x = Newest(T) \/ Less(x, Newest(T))
         /\ \A V \in SUBSET T : Newest(T) \in V => Newest(V) = Newest(T)
<1>1. Newest(T) \in T /\ \A x \in T : ~Less(Newest(T), x)
  BY NewestFacts
<1>2. \A x \in T : x = Newest(T) \/ Less(x, Newest(T))
  BY <1>1, LessOrder DEF KeyDistinct
<1>3. ASSUME NEW V \in SUBSET T, Newest(T) \in V
      PROVE  Newest(V) = Newest(T)
  <2>1. IsFiniteSet(V) /\ V \in SUBSET Entry
    BY FS_Subset
  <2>2. Newest(V) \in V /\ ~Less(Newest(V), Newest(T))
    BY <1>3, <2>1, NewestFacts
  <2> QED
    BY <1>2, <2>2
<1> QED
  BY <1>2, <1>3

MergeStep(m, e) == [Reduce(m, e) EXCEPT !.rows = {}]

MergeFold(m, S) ==
  CHOOSE g : g = [T \in SUBSET S |->
                    IF T = {} THEN m ELSE MergeStep(g[T \ {Newest(T)}], Newest(T))]

ReceiveStep(ks, e, now) == UNION {Receive(x, e, now) : x \in ks}

ReceiveFold(k, now, S) ==
  CHOOSE g : g = [T \in SUBSET S |->
                    IF T = {} THEN {k} ELSE ReceiveStep(g[T \ {Newest(T)}], Newest(T), now)]

Any(T) == CHOOSE x \in T : TRUE

SumFold(f, S) ==
  CHOOSE g : g = [T \in SUBSET S |-> IF T = {} THEN 0 ELSE f[Any(T)] + g[T \ {Any(T)}]]

\* What the three folds unfold to.
MergeUnfolding(m, S) ==
  /\ MergeFold(m, S)[{}] = m
  /\ \A T \in SUBSET S : T # {} =>
       MergeFold(m, S)[T] = MergeStep(MergeFold(m, S)[T \ {Newest(T)}], Newest(T))

ReceiveUnfolding(k, now, S) ==
  /\ ReceiveFold(k, now, S)[{}] = {k}
  /\ \A T \in SUBSET S : T # {} =>
       ReceiveFold(k, now, S)[T]
         = ReceiveStep(ReceiveFold(k, now, S)[T \ {Newest(T)}], Newest(T), now)

SumUnfolding(f, S) ==
  /\ SumFold(f, S)[{}] = 0
  /\ \A T \in SUBSET S : T # {} =>
       SumFold(f, S)[T] = f[Any(T)] + SumFold(f, S)[T \ {Any(T)}]

\* The fold of a merge state over a finite set of entries is defined.
LEMMA MergeFoldUnfolds ==
  ASSUME NEW m, NEW S, IsFiniteSet(S), S \subseteq Entry
  PROVE  MergeUnfolding(m, S)
<1> DEFINE Level(n) == {T \in SUBSET S : Cardinality(T) <= n}
           Value(g, T) == IF T = {} THEN m
                          ELSE MergeStep(g[T \ {Newest(T)}], Newest(T))
           K == {n \in Nat : \E g : g = [T \in Level(n) |-> Value(g, T)]}
<1>1. \A T \in SUBSET S : IsFiniteSet(T) /\ Cardinality(T) \in Nat
  BY FS_Subset, FS_CardinalityType
<1>2. ASSUME NEW T \in SUBSET S, T # {}, NEW n \in Nat, T \in Level(n + 1)
      PROVE  T \ {Newest(T)} \in Level(n)
  <2>1. Newest(T) \in T
    BY <1>1, <1>2, NewestFacts
  <2>2. Cardinality(T \ {Newest(T)}) = Cardinality(T) - 1
    BY <1>1, <2>1, FS_RemoveElement
  <2> QED
    BY <1>1, <1>2, <2>1, <2>2
<1>3. 0 \in K
  <2>1. \A T \in Level(0) : T = {}
    BY <1>1, FS_EmptySet
  <2>2. [T \in Level(0) |-> m] = [T \in Level(0) |-> Value([U \in Level(0) |-> m], T)]
    BY <2>1
  <2> QED
    BY <2>2
<1>4. ASSUME NEW n \in Nat, n \in K
      PROVE  n + 1 \in K
  <2>1. PICK g : g = [T \in Level(n) |-> Value(g, T)]
    BY <1>4
  <2> DEFINE h == [T \in Level(n + 1) |-> Value(g, T)]
  <2>2. ASSUME NEW T \in Level(n + 1)
        PROVE  Value(g, T) = Value(h, T)
    <3>1. CASE T = {}
      BY <3>1
    <3>2. CASE T # {}
      <4> DEFINE U == T \ {Newest(T)}
      <4>1. U \in Level(n) /\ U \in Level(n + 1)
        BY <1>1, <1>2, <3>2
      <4>2. h[U] = Value(g, U)
        BY <4>1
      <4>3. g[U] = Value(g, U)
        BY <2>1, <4>1
      <4> HIDE DEF U, h
      <4>4. g[U] = h[U]
        BY <4>2, <4>3
      <4> QED
        BY <3>2, <4>4 DEF U
    <3> QED
      BY <3>1, <3>2
  <2>3. h = [T \in Level(n + 1) |-> Value(h, T)]
    <3> HIDE DEF Value, Level
    <3> QED
      BY <2>2
  <2> HIDE DEF h, Value, Level
  <2> QED
    BY <2>3
<1>5. Cardinality(S) \in K
  <2> HIDE DEF K
  <2> QED
    BY <1>1, <1>3, <1>4, NumbersBySteps
<1>6. Level(Cardinality(S)) = SUBSET S
  BY FS_Subset
<1>7. \E g : g = [T \in SUBSET S |-> Value(g, T)]
  <2> HIDE DEF Level
  <2> QED
    BY <1>5, <1>6
<1>8. MergeFold(m, S) = [T \in SUBSET S |-> Value(MergeFold(m, S), T)]
  BY <1>7 DEF MergeFold
<1>9. MergeFold(m, S)[{}] = m
  BY <1>8
<1>10. \A T \in SUBSET S : T # {} => MergeFold(m, S)[T] = MergeStep(MergeFold(m, S)[T \ {Newest(T)}], Newest(T))
  BY <1>8
<1> QED
  BY <1>9, <1>10 DEF MergeUnfolding

\* So is the fold of a clock.
LEMMA ReceiveFoldUnfolds ==
  ASSUME NEW k \in Stamp, NEW now \in 0 .. MaxInt, NEW S, IsFiniteSet(S), S \subseteq Entry
  PROVE  ReceiveUnfolding(k, now, S)
<1> DEFINE Level(n) == {T \in SUBSET S : Cardinality(T) <= n}
           Value(g, T) == IF T = {} THEN {k}
                          ELSE ReceiveStep(g[T \ {Newest(T)}], Newest(T), now)
           K == {n \in Nat : \E g : g = [T \in Level(n) |-> Value(g, T)]}
<1>1. \A T \in SUBSET S : IsFiniteSet(T) /\ Cardinality(T) \in Nat
  BY FS_Subset, FS_CardinalityType
<1>2. ASSUME NEW T \in SUBSET S, T # {}, NEW n \in Nat, T \in Level(n + 1)
      PROVE  T \ {Newest(T)} \in Level(n)
  <2>1. Newest(T) \in T
    BY <1>1, <1>2, NewestFacts
  <2>2. Cardinality(T \ {Newest(T)}) = Cardinality(T) - 1
    BY <1>1, <2>1, FS_RemoveElement
  <2> QED
    BY <1>1, <1>2, <2>1, <2>2
<1>3. 0 \in K
  <2>1. \A T \in Level(0) : T = {}
    BY <1>1, FS_EmptySet
  <2>2. [T \in Level(0) |-> {k}] = [T \in Level(0) |-> Value([U \in Level(0) |-> {k}], T)]
    BY <2>1
  <2> QED
    BY <2>2
<1>4. ASSUME NEW n \in Nat, n \in K
      PROVE  n + 1 \in K
  <2>1. PICK g : g = [T \in Level(n) |-> Value(g, T)]
    BY <1>4
  <2> DEFINE h == [T \in Level(n + 1) |-> Value(g, T)]
  <2>2. ASSUME NEW T \in Level(n + 1)
        PROVE  Value(g, T) = Value(h, T)
    <3>1. CASE T = {}
      BY <3>1
    <3>2. CASE T # {}
      <4> DEFINE U == T \ {Newest(T)}
      <4>1. U \in Level(n) /\ U \in Level(n + 1)
        BY <1>1, <1>2, <3>2
      <4>2. h[U] = Value(g, U)
        BY <4>1
      <4>3. g[U] = Value(g, U)
        BY <2>1, <4>1
      <4> HIDE DEF U, h
      <4>4. g[U] = h[U]
        BY <4>2, <4>3
      <4> QED
        BY <3>2, <4>4 DEF U
    <3> QED
      BY <3>1, <3>2
  <2>3. h = [T \in Level(n + 1) |-> Value(h, T)]
    <3> HIDE DEF Value, Level
    <3> QED
      BY <2>2
  <2> HIDE DEF h, Value, Level
  <2> QED
    BY <2>3
<1>5. Cardinality(S) \in K
  <2> HIDE DEF K
  <2> QED
    BY <1>1, <1>3, <1>4, NumbersBySteps
<1>6. Level(Cardinality(S)) = SUBSET S
  BY FS_Subset
<1>7. \E g : g = [T \in SUBSET S |-> Value(g, T)]
  <2> HIDE DEF Level
  <2> QED
    BY <1>5, <1>6
<1>8. ReceiveFold(k, now, S) = [T \in SUBSET S |-> Value(ReceiveFold(k, now, S), T)]
  BY <1>7 DEF ReceiveFold
<1>9. ReceiveFold(k, now, S)[{}] = {k}
  BY <1>8
<1>10. \A T \in SUBSET S : T # {} => ReceiveFold(k, now, S)[T] = ReceiveStep(ReceiveFold(k, now, S)[T \ {Newest(T)}], Newest(T), now)
  BY <1>8
<1> QED
  BY <1>9, <1>10 DEF ReceiveUnfolding

\* The sum of a function over a finite set is defined.
LEMMA SumFoldUnfolds ==
  ASSUME NEW f, NEW S, IsFiniteSet(S)
  PROVE  SumUnfolding(f, S)
<1> DEFINE Level(n) == {T \in SUBSET S : Cardinality(T) <= n}
           Value(g, T) == IF T = {} THEN 0
                          ELSE f[Any(T)] + g[T \ {Any(T)}]
           K == {n \in Nat : \E g : g = [T \in Level(n) |-> Value(g, T)]}
<1>1. \A T \in SUBSET S : IsFiniteSet(T) /\ Cardinality(T) \in Nat
  BY FS_Subset, FS_CardinalityType
<1>2. ASSUME NEW T \in SUBSET S, T # {}, NEW n \in Nat, T \in Level(n + 1)
      PROVE  T \ {Any(T)} \in Level(n)
  <2>1. Any(T) \in T
    BY <1>1, <1>2 DEF Any
  <2>2. Cardinality(T \ {Any(T)}) = Cardinality(T) - 1
    BY <1>1, <2>1, FS_RemoveElement
  <2> QED
    BY <1>1, <1>2, <2>1, <2>2
<1>3. 0 \in K
  <2>1. \A T \in Level(0) : T = {}
    BY <1>1, FS_EmptySet
  <2>2. [T \in Level(0) |-> 0] = [T \in Level(0) |-> Value([U \in Level(0) |-> 0], T)]
    BY <2>1
  <2> QED
    BY <2>2
<1>4. ASSUME NEW n \in Nat, n \in K
      PROVE  n + 1 \in K
  <2>1. PICK g : g = [T \in Level(n) |-> Value(g, T)]
    BY <1>4
  <2> DEFINE h == [T \in Level(n + 1) |-> Value(g, T)]
  <2>2. ASSUME NEW T \in Level(n + 1)
        PROVE  Value(g, T) = Value(h, T)
    <3>1. CASE T = {}
      BY <3>1
    <3>2. CASE T # {}
      <4> DEFINE U == T \ {Any(T)}
      <4>1. U \in Level(n) /\ U \in Level(n + 1)
        BY <1>1, <1>2, <3>2
      <4>2. h[U] = Value(g, U)
        BY <4>1
      <4>3. g[U] = Value(g, U)
        BY <2>1, <4>1
      <4> HIDE DEF U, h
      <4>4. g[U] = h[U]
        BY <4>2, <4>3
      <4> QED
        BY <3>2, <4>4 DEF U
    <3> QED
      BY <3>1, <3>2
  <2>3. h = [T \in Level(n + 1) |-> Value(h, T)]
    <3> HIDE DEF Value, Level
    <3> QED
      BY <2>2
  <2> HIDE DEF h, Value, Level
  <2> QED
    BY <2>3
<1>5. Cardinality(S) \in K
  <2> HIDE DEF K
  <2> QED
    BY <1>1, <1>3, <1>4, NumbersBySteps
<1>6. Level(Cardinality(S)) = SUBSET S
  BY FS_Subset
<1>7. \E g : g = [T \in SUBSET S |-> Value(g, T)]
  <2> HIDE DEF Level
  <2> QED
    BY <1>5, <1>6
<1>8. SumFold(f, S) = [T \in SUBSET S |-> Value(SumFold(f, S), T)]
  BY <1>7 DEF SumFold
<1>9. SumFold(f, S)[{}] = 0
  BY <1>8
<1>10. \A T \in SUBSET S : T # {} => SumFold(f, S)[T] = f[Any(T)] + SumFold(f, S)[T \ {Any(T)}]
  BY <1>8
<1> QED
  BY <1>9, <1>10 DEF SumUnfolding

\* Merged, by its fold.
LEMMA MergedFold ==
  ASSUME NEW m, NEW S
  PROVE  Merged(m, S) = MergeFold(m, S)[S]
BY DEF Merged, MapThenFoldSet, MergeFold, MergeStep

\* Received, by its fold.
LEMMA ReceivedFold ==
  ASSUME NEW k, NEW S, NEW now
  PROVE  Received(k, S, now) = ReceiveFold(k, now, S)[S]
BY DEF Received, MapThenFoldSet, ReceiveFold, ReceiveStep

\* The sum, by its fold.
LEMMA TotalFold ==
  ASSUME NEW f
  PROVE  FoldFunction(+, 0, f) = SumFold(f, DOMAIN f)[DOMAIN f]
BY DEF FoldFunction, FoldFunctionOnSet, MapThenFoldSet, SumFold, Any

\* reduce over entries, one by one: the newest comes last.
LEMMA MergedStep ==
  ASSUME NEW m, NEW S \in SUBSET Entry, IsFiniteSet(S)
  PROVE  /\ Merged(m, {}) = m
         /\ S # {} => Merged(m, S) = MergeStep(Merged(m, S \ {Newest(S)}), Newest(S))
<1>1. ASSUME NEW U \in SUBSET S
      PROVE  MergeFold(m, S)[U] = MergeFold(m, U)[U]
  <2> DEFINE C == {V \in SUBSET U : MergeFold(m, S)[V] = MergeFold(m, U)[V]}
  <2>1. /\ IsFiniteSet(U) /\ U \in SUBSET Entry /\ U \in SUBSET U
        /\ \A V \in SUBSET U : IsFiniteSet(V) /\ V \in SUBSET S /\ V \in SUBSET Entry
    BY FS_Subset
  <2>7. MergeUnfolding(m, S) /\ MergeUnfolding(m, U)
    BY <2>1, MergeFoldUnfolds
  <2>5. /\ MergeFold(m, S)[{}] = m
        /\ \A V \in SUBSET S : V # {} => MergeFold(m, S)[V] = MergeStep(MergeFold(m, S)[V \ {Newest(V)}], Newest(V))
    BY <2>7 DEF MergeUnfolding
  <2>6. /\ MergeFold(m, U)[{}] = m
        /\ \A V \in SUBSET U : V # {} => MergeFold(m, U)[V] = MergeStep(MergeFold(m, U)[V \ {Newest(V)}], Newest(V))
    BY <2>7 DEF MergeUnfolding
  <2>2. /\ {} \in SUBSET U /\ {} \in SUBSET S
        /\ MergeFold(m, S)[{}] = m /\ MergeFold(m, U)[{}] = m
    BY <2>5, <2>6
  <2>3. ASSUME NEW V \in SUBSET U, V # {}
        PROVE  \E x \in V : V \ {x} \in C => V \in C
    <3>1. Newest(V) \in V /\ V \ {Newest(V)} \in SUBSET U
      BY <2>1, <2>3, NewestFacts
    <3> DEFINE W == V \ {Newest(V)}
    <3>2. MergeFold(m, S)[V] = MergeStep(MergeFold(m, S)[W], Newest(V))
      BY <2>1, <2>3, <2>5
    <3>3. MergeFold(m, U)[V] = MergeStep(MergeFold(m, U)[W], Newest(V))
      BY <2>3, <2>6
    <3> HIDE DEF W
    <3>4. W \in C => V \in C
      BY <3>2, <3>3
    <3> QED
      BY <3>1, <3>4 DEF W
  <2>4. \A V \in SUBSET U : V \in C
    <3>1. {} \in C
      BY <2>2
    <3> HIDE DEF C
    <3> QED
      BY <2>1, <2>3, <3>1, SubsetsByRemoval
  <2> QED
    BY <2>1, <2>4
<1>2. Merged(m, {}) = m
  <2>1. IsFiniteSet({}) /\ {} \in SUBSET Entry
    BY FS_EmptySet
  <2>2. MergeFold(m, {})[{}] = m
    <3>1. MergeUnfolding(m, {})
      BY <2>1, MergeFoldUnfolds
    <3> QED
      BY <3>1 DEF MergeUnfolding
  <2> QED
    BY <2>2, MergedFold
<1>3. ASSUME S # {}
      PROVE  Merged(m, S) = MergeStep(Merged(m, S \ {Newest(S)}), Newest(S))
  <2> DEFINE W == S \ {Newest(S)}
  <2>1. W \in SUBSET S /\ S \in SUBSET S
    BY <1>3
  <2>5. /\ MergeFold(m, S)[{}] = m
        /\ \A V \in SUBSET S : V # {} => MergeFold(m, S)[V] = MergeStep(MergeFold(m, S)[V \ {Newest(V)}], Newest(V))
    <3>1. MergeUnfolding(m, S)
      BY MergeFoldUnfolds
    <3> QED
      BY <3>1 DEF MergeUnfolding
  <2>2. MergeFold(m, S)[S] = MergeStep(MergeFold(m, S)[W], Newest(S))
    BY <1>3, <2>1, <2>5
  <2>3. MergeFold(m, S)[W] = MergeFold(m, W)[W]
    BY <1>1, <2>1
  <2> HIDE DEF W
  <2>4. Merged(m, S) = MergeStep(Merged(m, W), Newest(S))
    BY <2>2, <2>3, MergedFold
  <2> QED
    BY <2>4 DEF W
<1> QED
  BY <1>2, <1>3

\* The clock over entries, one by one.
LEMMA ReceivedStep ==
  ASSUME NEW k \in Stamp, NEW now \in 0 .. MaxInt, NEW S \in SUBSET Entry, IsFiniteSet(S)
  PROVE  /\ Received(k, {}, now) = {k}
         /\ S # {} => Received(k, S, now) = ReceiveStep(Received(k, S \ {Newest(S)}, now), Newest(S), now)
<1>1. ASSUME NEW U \in SUBSET S
      PROVE  ReceiveFold(k, now, S)[U] = ReceiveFold(k, now, U)[U]
  <2> DEFINE C == {V \in SUBSET U : ReceiveFold(k, now, S)[V] = ReceiveFold(k, now, U)[V]}
  <2>1. /\ IsFiniteSet(U) /\ U \in SUBSET Entry /\ U \in SUBSET U
        /\ \A V \in SUBSET U : IsFiniteSet(V) /\ V \in SUBSET S /\ V \in SUBSET Entry
    BY FS_Subset
  <2>7. ReceiveUnfolding(k, now, S) /\ ReceiveUnfolding(k, now, U)
    BY <2>1, ReceiveFoldUnfolds
  <2>5. /\ ReceiveFold(k, now, S)[{}] = {k}
        /\ \A V \in SUBSET S : V # {} => ReceiveFold(k, now, S)[V] = ReceiveStep(ReceiveFold(k, now, S)[V \ {Newest(V)}], Newest(V), now)
    BY <2>7 DEF ReceiveUnfolding
  <2>6. /\ ReceiveFold(k, now, U)[{}] = {k}
        /\ \A V \in SUBSET U : V # {} => ReceiveFold(k, now, U)[V] = ReceiveStep(ReceiveFold(k, now, U)[V \ {Newest(V)}], Newest(V), now)
    BY <2>7 DEF ReceiveUnfolding
  <2>2. /\ {} \in SUBSET U /\ {} \in SUBSET S
        /\ ReceiveFold(k, now, S)[{}] = {k} /\ ReceiveFold(k, now, U)[{}] = {k}
    BY <2>5, <2>6
  <2>3. ASSUME NEW V \in SUBSET U, V # {}
        PROVE  \E x \in V : V \ {x} \in C => V \in C
    <3>1. Newest(V) \in V /\ V \ {Newest(V)} \in SUBSET U
      BY <2>1, <2>3, NewestFacts
    <3> DEFINE W == V \ {Newest(V)}
    <3>2. ReceiveFold(k, now, S)[V] = ReceiveStep(ReceiveFold(k, now, S)[W], Newest(V), now)
      BY <2>1, <2>3, <2>5
    <3>3. ReceiveFold(k, now, U)[V] = ReceiveStep(ReceiveFold(k, now, U)[W], Newest(V), now)
      BY <2>3, <2>6
    <3> HIDE DEF W
    <3>4. W \in C => V \in C
      BY <3>2, <3>3
    <3> QED
      BY <3>1, <3>4 DEF W
  <2>4. \A V \in SUBSET U : V \in C
    <3>1. {} \in C
      BY <2>2
    <3> HIDE DEF C
    <3> QED
      BY <2>1, <2>3, <3>1, SubsetsByRemoval
  <2> QED
    BY <2>1, <2>4
<1>2. Received(k, {}, now) = {k}
  <2>1. IsFiniteSet({}) /\ {} \in SUBSET Entry
    BY FS_EmptySet
  <2>2. ReceiveFold(k, now, {})[{}] = {k}
    <3>1. ReceiveUnfolding(k, now, {})
      BY <2>1, ReceiveFoldUnfolds
    <3> QED
      BY <3>1 DEF ReceiveUnfolding
  <2> QED
    BY <2>2, ReceivedFold
<1>3. ASSUME S # {}
      PROVE  Received(k, S, now) = ReceiveStep(Received(k, S \ {Newest(S)}, now), Newest(S), now)
  <2> DEFINE W == S \ {Newest(S)}
  <2>1. W \in SUBSET S /\ S \in SUBSET S
    BY <1>3
  <2>5. /\ ReceiveFold(k, now, S)[{}] = {k}
        /\ \A V \in SUBSET S : V # {} => ReceiveFold(k, now, S)[V] = ReceiveStep(ReceiveFold(k, now, S)[V \ {Newest(V)}], Newest(V), now)
    <3>1. ReceiveUnfolding(k, now, S)
      BY ReceiveFoldUnfolds
    <3> QED
      BY <3>1 DEF ReceiveUnfolding
  <2>2. ReceiveFold(k, now, S)[S] = ReceiveStep(ReceiveFold(k, now, S)[W], Newest(S), now)
    BY <1>3, <2>1, <2>5
  <2>3. ReceiveFold(k, now, S)[W] = ReceiveFold(k, now, W)[W]
    BY <1>1, <2>1
  <2> HIDE DEF W
  <2>4. Received(k, S, now) = ReceiveStep(Received(k, W, now), Newest(S), now)
    BY <2>2, <2>3, ReceivedFold
  <2> QED
    BY <2>4 DEF W
<1> QED
  BY <1>2, <1>3

\* A sum of natural numbers is one, and the value of a sum cell is a value.
LEMMA TotalIsNat ==
  ASSUME NEW D, IsFiniteSet(D), NEW f \in [D -> Nat]
  PROVE  FoldFunction(+, 0, f) \in Nat
<1> DEFINE C == {T \in SUBSET D : SumFold(f, D)[T] \in Nat}
<1>1. /\ SumFold(f, D)[{}] = 0
      /\ \A T \in SUBSET D : T # {} =>
           SumFold(f, D)[T] = f[Any(T)] + SumFold(f, D)[T \ {Any(T)}]
  <2>1. SumUnfolding(f, D)
    BY SumFoldUnfolds
  <2> QED
    BY <2>1 DEF SumUnfolding
<1>2. ASSUME NEW T \in SUBSET D, T # {}
      PROVE  \E x \in T : T \ {x} \in C => T \in C
  <2>1. Any(T) \in T /\ Any(T) \in D
    BY <1>2 DEF Any
  <2> DEFINE W == T \ {Any(T)}
  <2>2. SumFold(f, D)[T] = f[Any(T)] + SumFold(f, D)[W]
    BY <1>1, <1>2
  <2>3. W \in C => T \in C
    BY <2>1, <2>2
  <2> QED
    BY <2>1, <2>3
<1>3. \A T \in SUBSET D : T \in C
  <2>1. {} \in C
    BY <1>1
  <2> HIDE DEF C
  <2> QED
    BY <1>2, <2>1, SubsetsByRemoval
<1>4. SumFold(f, D)[D] \in Nat
  BY <1>3
<1> QED
  BY <1>4, TotalFold

\* What reduce keeps was kept before, or is the entry.
LEMMA ReduceLive ==
  ASSUME NEW m, NEW S, NEW e, Arriving(m, S, e)
  PROVE  Live(Reduce(m, e)) \subseteq Live(m) \cup {e}
<1>1. IsMerge(m)
  BY DEF Arriving
<1>2. CASE Buried(m, e)
  BY <1>1, <1>2, BuriedFields DEF Reduce, Live
<1>3. CASE ~Buried(m, e) /\ IsTomb(e)
  BY <1>3 DEF Reduce, ReduceTomb, Live
<1>4. CASE ~Buried(m, e) /\ ~IsTomb(e)
  <2>1. LiveInsert(m.live, e) \subseteq m.live \cup {e}
    BY DEF LiveInsert
  <2>2. CASE \E r \in Rivals(m, e) : ~Beats(e, r)
    <3>1. Reduce(m, e) = ReduceLoser(m, e)
      BY <1>4, <2>2 DEF Reduce
    <3> QED
      BY <1>1, <2>1, <3>1, LoserFields DEF Live
  <2>3. CASE ~ \E r \in Rivals(m, e) : ~Beats(e, r)
    <3>1. Reduce(m, e) = ReduceWinner(m, e)
      BY <1>4, <2>3 DEF Reduce
    <3> DEFINE n == ReduceWinner(m, e)
    <3>2. /\ n.tomb = m.tomb
          /\ n.live = IF Numeric(e.field) THEN LiveInsert(m.live, e)
                      ELSE (m.live \ Cell(m.live, SlotOf(e))) \cup {e}
      BY <1>1, WinnerFields, Zenon
    <3> HIDE DEF n
    <3>3. Live(n) \subseteq Live(m) \cup {e}
      BY <2>1, <3>2 DEF Live
    <3> QED
      BY <3>1, <3>3 DEF n
  <2> QED
    BY <2>2, <2>3
<1> QED
  BY <1>2, <1>3, <1>4

\* The rows are no part of what a device shows.
LEMMA RowsDropped ==
  ASSUME NEW n, NEW S, DeviceSound(n, S)
  PROVE  LET q == [n EXCEPT !.rows = {}] IN
         DeviceSound(q, S) /\ q.rows = {} /\ Live(q) = Live(n)
<1> DEFINE q == [n EXCEPT !.rows = {}]
<1>1. /\ n = [tomb |-> n.tomb, live |-> n.live, win |-> n.win, shown |-> n.shown, rows |-> n.rows]
      /\ n.tomb \cup n.live \cup n.rows \subseteq S
      /\ n.win \subseteq n.live
      /\ TombsNewest(n, S) /\ LiveCovers(n, S) /\ CachesFresh(n)
  BY DEF DeviceSound, IsMerge
<1>2. /\ q = [tomb |-> n.tomb, live |-> n.live, win |-> n.win, shown |-> n.shown, rows |-> {}]
  BY <1>1
<1>3. q.tomb = n.tomb /\ q.live = n.live /\ q.win = n.win /\ q.shown = n.shown /\ q.rows = {}
  BY <1>2
<1> HIDE DEF q
<1>4. IsMerge(q)
  BY <1>2, <1>3 DEF IsMerge
<1>5. TombsNewest(q, S)
  BY <1>1, <1>3 DEF TombsNewest
<1>6. LiveCovers(q, S)
  BY <1>1, <1>3 DEF LiveCovers
<1>7. CachesFresh(q)
  BY <1>1, <1>3 DEF CachesFresh
<1>8. DeviceSound(q, S) /\ q.rows = {} /\ Live(q) = Live(n)
  BY <1>1, <1>3, <1>4, <1>5, <1>6, <1>7 DEF DeviceSound, Live
<1> QED
  BY <1>8 DEF q

\* A merge state stays sound, whatever it takes in.
LEMMA MergedSound ==
  ASSUME NEW m, NEW S \in SUBSET Entry, DeviceSound(m, S), m.rows = {},
         NEW T \in SUBSET Entry, IsFiniteSet(T),
         KeyDistinct(S \cup T), T \cap m.live = {}
  PROVE  /\ DeviceSound(Merged(m, T), S \cup T)
         /\ Merged(m, T).rows = {}
         /\ Live(Merged(m, T)) \subseteq Live(m) \cup T
<1> DEFINE Good(V) == /\ DeviceSound(Merged(m, V), S \cup V)
                      /\ Merged(m, V).rows = {}
                      /\ Live(Merged(m, V)) \subseteq Live(m) \cup V
           C == {V \in SUBSET T : Good(V)}
<1>1. {} \in C
  <2>1. Merged(m, {}) = m
    BY MergedStep
  <2>2. S \cup {} = S /\ Live(m) \cup {} = Live(m)
    OBVIOUS
  <2>3. Good({})
    BY <2>1, <2>2
  <2> QED
    BY <2>3
<1>2. ASSUME NEW V \in SUBSET T, V # {}
      PROVE  \E x \in V : V \ {x} \in C => V \in C
  <2> DEFINE e == Newest(V)
             W == V \ {e}
             n == Merged(m, W)
  <2>1. V \in SUBSET Entry /\ IsFiniteSet(V)
    BY FS_Subset
  <2>2. e \in V
    BY <1>2, <2>1, NewestFacts
  <2>3. Merged(m, V) = MergeStep(n, e)
    BY <1>2, <2>1, MergedStep
  <2>4. ASSUME Good(W)
        PROVE  Good(V)
    <3>1. S \cup V = (S \cup W) \cup {e} /\ V = W \cup {e}
      BY <2>2
    <3> HIDE DEF e, W, n
    <3>2. DeviceSound(n, S \cup W) /\ n.rows = {} /\ Live(n) \subseteq Live(m) \cup W
      BY <2>4 DEF n
    <3>3. e \notin n.live
      <4>1. e \notin m.live /\ e \notin W /\ e \in T /\ e \in Entry
        BY <2>2 DEF W
      <4>2. ~IsTomb(e) => e \notin m.tomb
        BY DEF DeviceSound, TombsNewest
      <4>3. \A x \in n.live : ~IsTomb(x)
        BY <3>2 DEF DeviceSound, LiveCovers, Alive
      <4> QED
        BY <3>2, <4>1, <4>2, <4>3 DEF Live
    <3>4. Arriving(n, S \cup W, e)
      <4>1. e \in Entry /\ S \cup W \subseteq Entry /\ (S \cup W) \cup {e} \subseteq S \cup T
        BY <2>2, <3>1
      <4>2. KeyDistinct((S \cup W) \cup {e})
        BY <4>1 DEF KeyDistinct
      <4> QED
        BY <3>2, <3>3, <4>1, <4>2 DEF Arriving, DeviceSound
    <3>5. DeviceSound(Reduce(n, e), S \cup V)
      BY <3>1, <3>2, <3>4, ReduceSound
    <3>6. Live(Reduce(n, e)) \subseteq Live(n) \cup {e}
      BY <3>4, ReduceLive
    <3>7. DeviceSound(MergeStep(n, e), S \cup V) /\ MergeStep(n, e).rows = {}
          /\ Live(MergeStep(n, e)) = Live(Reduce(n, e))
      BY <3>5, RowsDropped DEF MergeStep
    <3> QED
      BY <2>3, <3>1, <3>2, <3>6, <3>7
  <2>5. W \in C => V \in C
    BY <2>4
  <2> HIDE DEF C
  <2> QED
    BY <2>2, <2>5
<1>3. \A V \in SUBSET T : V \in C
  <2> HIDE DEF C
  <2> QED
    BY <1>1, <1>2, SubsetsByRemoval
<1> QED
  BY <1>3

\* Stamps are ordered.
LEMMA StampOrder ==
  ASSUME NEW a, NEW b, NEW x,
         a.l \in Nat, a.c \in Nat, b.l \in Nat, b.c \in Nat, x.l \in Nat, x.c \in Nat
  PROVE  /\ StampLeq(a, a)
         /\ StampLeq(a, b) /\ StampLeq(b, x) => StampLeq(a, x)
BY DEF StampLeq

\* receive keeps the order of two clocks: the lower one does not throw where
\* the higher one does not, and stays the lower one.
LEMMA ReceiveMonotone ==
  ASSUME NEW p \in Stamp, NEW q \in Stamp, StampLeq(p, q),
         NEW e \in Entry, NEW now \in 0 .. MaxInt, NEW y \in Receive(q, e, now)
  PROVE  \E x \in Receive(p, e, now) : StampLeq(x, y)
<1> DEFINE lp == Max({p.l, e.l, now})
           lq == Max({q.l, e.l, now})
           mp == Max({p.c, e.c})
           mq == Max({q.c, e.c})
           cp == IF lp = p.l /\ lp = e.l THEN mp + 1
                 ELSE IF lp = p.l THEN p.c + 1 ELSE IF lp = e.l THEN e.c + 1 ELSE 0
           cq == IF lq = q.l /\ lq = e.l THEN mq + 1
                 ELSE IF lq = q.l THEN q.c + 1 ELSE IF lq = e.l THEN e.c + 1 ELSE 0
           xp == IF cp <= MaxInt THEN [l |-> lp, c |-> cp] ELSE [l |-> lp + 1, c |-> 0]
           xq == IF cq <= MaxInt THEN [l |-> lq, c |-> cq] ELSE [l |-> lq + 1, c |-> 0]
<1>1. /\ p.l \in 0 .. MaxInt /\ p.c \in 0 .. MaxInt /\ q.l \in 0 .. MaxInt /\ q.c \in 0 .. MaxInt
      /\ e.l \in 0 .. MaxInt /\ e.c \in 0 .. MaxInt /\ MaxInt \in Nat
  BY EntryFacts, ConstantsAssumption DEF Stamp
<1>2. /\ lp \in {p.l, e.l, now} /\ lp >= p.l /\ lp >= e.l /\ lp >= now
      /\ lq \in {q.l, e.l, now} /\ lq >= q.l /\ lq >= e.l /\ lq >= now
  BY <1>1, MaxOfThree
<1>3. /\ mp \in {p.c, e.c} /\ mp >= p.c /\ mp >= e.c
      /\ mq \in {q.c, e.c} /\ mq >= q.c /\ mq >= e.c
  BY <1>1, MaxOfTwo
<1>4. /\ Receive(p, e, now) = IF cp <= MaxInt THEN {[l |-> lp, c |-> cp]}
                              ELSE IF lp < MaxInt THEN {[l |-> lp + 1, c |-> 0]} ELSE {}
      /\ Receive(q, e, now) = IF cq <= MaxInt THEN {[l |-> lq, c |-> cq]}
                              ELSE IF lq < MaxInt THEN {[l |-> lq + 1, c |-> 0]} ELSE {}
  BY DEF Receive
<1>5. p.l < q.l \/ (p.l = q.l /\ p.c <= q.c)
  BY DEF StampLeq
<1>6. cp \in Nat /\ cq \in Nat /\ lp \in Nat /\ lq \in Nat
  <2> HIDE DEF lp, lq, mp, mq
  <2> QED
    BY <1>1, <1>2, <1>3
<1>7. lp < lq \/ (lp = lq /\ cp <= cq)
  <2> HIDE DEF lp, lq, mp, mq
  <2> QED
    BY <1>1, <1>2, <1>3, <1>5
<1> HIDE DEF lp, lq, cp, cq
<1>8. lq <= MaxInt /\ (cq <= MaxInt \/ lq < MaxInt) /\ y = xq
  <2>1. lq <= MaxInt
    BY <1>1, <1>2
  <2> QED
    BY <1>1, <1>4, <1>6, <2>1
<1>9. cp <= MaxInt \/ lp < MaxInt
  BY <1>1, <1>6, <1>7, <1>8
<1>10. xp \in Receive(p, e, now)
  BY <1>4, <1>9
<1>11. StampLeq(xp, xq)
  <2>1. CASE cp <= MaxInt /\ cq <= MaxInt
    BY <1>6, <1>7, <2>1 DEF StampLeq
  <2>2. CASE cp <= MaxInt /\ ~(cq <= MaxInt)
    BY <1>6, <1>7, <2>2 DEF StampLeq
  <2>3. CASE ~(cp <= MaxInt) /\ cq <= MaxInt
    <3>1. lp < lq
      BY <1>1, <1>6, <1>7, <2>3
    <3>2. xp.l = lp + 1 /\ xp.c = 0 /\ xq.l = lq /\ xq.c = cq
      BY <2>3
    <3> QED
      BY <1>6, <3>1, <3>2 DEF StampLeq
  <2>4. CASE ~(cp <= MaxInt) /\ ~(cq <= MaxInt)
    <3>2. xp.l = lp + 1 /\ xp.c = 0 /\ xq.l = lq + 1 /\ xq.c = 0
      BY <2>4
    <3> QED
      BY <1>6, <1>7, <3>2 DEF StampLeq
  <2> QED
    BY <2>1, <2>2, <2>3, <2>4
<1> QED
  BY <1>8, <1>10, <1>11

\* A clock that took entries in is at or above each of them, and where it was.
LEMMA ReceivedAbove ==
  ASSUME NEW k \in Stamp, NEW now \in 0 .. MaxInt, NEW T \in SUBSET Entry, IsFiniteSet(T)
  PROVE  \A s \in Received(k, T, now) :
           s \in Stamp /\ StampLeq(k, s) /\ \A e \in T : StampLeq(e, s)
<1> DEFINE Good(V) == \A s \in Received(k, V, now) :
                         s \in Stamp /\ StampLeq(k, s) /\ \A e \in V : StampLeq(e, s)
           C == {V \in SUBSET T : Good(V)}
<1>0. \A x \in Stamp : x.l \in Nat /\ x.c \in Nat
  BY DEF Stamp
<1>1. {} \in C
  <2>1. Received(k, {}, now) = {k}
    BY ReceivedStep, FS_EmptySet
  <2>2. StampLeq(k, k)
    BY <1>0, StampOrder
  <2> QED
    BY <2>1, <2>2
<1>2. ASSUME NEW V \in SUBSET T, V # {}
      PROVE  \E x \in V : V \ {x} \in C => V \in C
  <2> DEFINE e == Newest(V)
             W == V \ {e}
  <2>1. V \in SUBSET Entry /\ IsFiniteSet(V)
    BY FS_Subset
  <2>2. e \in V /\ e \in Entry
    BY <1>2, <2>1, NewestFacts
  <2>3. Received(k, V, now) = ReceiveStep(Received(k, W, now), e, now)
    BY <1>2, <2>1, ReceivedStep
  <2>4. ASSUME Good(W), NEW s \in Received(k, V, now)
        PROVE  s \in Stamp /\ StampLeq(k, s) /\ \A x \in V : StampLeq(x, s)
    <3> HIDE DEF e
    <3>1. PICK y \in Received(k, W, now) : s \in Receive(y, e, now)
      BY <2>3, <2>4 DEF ReceiveStep
    <3>2. y \in Stamp /\ StampLeq(k, y) /\ \A x \in W : StampLeq(x, y)
      BY <2>4, <3>1
    <3>3. s \in Stamp /\ StampLeq(y, s) /\ StampLeq(e, s)
      BY <2>2, <3>1, <3>2, ReceiveFacts
    <3>4. StampLeq(k, s)
      BY <1>0, <3>2, <3>3, StampOrder
    <3>5. ASSUME NEW x \in W
          PROVE  StampLeq(x, s)
      <4>1. x \in Entry /\ StampLeq(x, y)
        BY <2>1, <3>2
      <4>2. x.l \in Nat /\ x.c \in Nat
        BY <4>1, EntryFacts
      <4> QED
        BY <1>0, <3>2, <3>3, <4>1, <4>2, StampOrder
    <3> QED
      BY <3>3, <3>4, <3>5
  <2>5. W \in C => V \in C
    BY <2>4
  <2> HIDE DEF C
  <2> QED
    BY <2>2, <2>5
<1>3. \A V \in SUBSET T : V \in C
  <2> HIDE DEF C
  <2> QED
    BY <1>1, <1>2, SubsetsByRemoval
<1> QED
  BY <1>3

\* A clock that admits a document admits every part of it.
LEMMA ReceivedPart ==
  ASSUME NEW k \in Stamp, NEW now \in 0 .. MaxInt,
         NEW T \in SUBSET Entry, IsFiniteSet(T), KeyDistinct(T),
         Received(k, T, now) # {}, NEW U \in SUBSET T
  PROVE  Received(k, U, now) # {}
<1> DEFINE Good(V) == \A P \in SUBSET V : \A y \in Received(k, V, now) :
                         \E x \in Received(k, P, now) : StampLeq(x, y)
           C == {V \in SUBSET T : Good(V)}
<1>0. \A x \in Stamp : x.l \in Nat /\ x.c \in Nat
  BY DEF Stamp
<1>1. {} \in C
  <2>1. Received(k, {}, now) = {k}
    BY ReceivedStep, FS_EmptySet
  <2>2. StampLeq(k, k)
    BY <1>0, StampOrder
  <2> QED
    BY <2>1, <2>2
<1>2. ASSUME NEW V \in SUBSET T, V # {}
      PROVE  \E x \in V : V \ {x} \in C => V \in C
  <2> DEFINE e == Newest(V)
             W == V \ {e}
  <2>1. V \in SUBSET Entry /\ IsFiniteSet(V) /\ KeyDistinct(V)
    BY FS_Subset DEF KeyDistinct
  <2>2. e \in V /\ e \in Entry
    BY <1>2, <2>1, NewestFacts
  <2>3. Received(k, V, now) = ReceiveStep(Received(k, W, now), e, now)
    BY <1>2, <2>1, ReceivedStep
  <2>4. ASSUME Good(W), NEW P \in SUBSET V, NEW y \in Received(k, V, now)
        PROVE  \E x \in Received(k, P, now) : StampLeq(x, y)
    <3> DEFINE Q == P \ {e}
    <3>1. Q \in SUBSET W /\ W \in SUBSET Entry /\ IsFiniteSet(W)
          /\ P \in SUBSET Entry /\ IsFiniteSet(P) /\ Q \in SUBSET Entry /\ IsFiniteSet(Q)
      <4>1. /\ Q \in SUBSET W /\ W \in SUBSET V /\ P \in SUBSET V /\ Q \in SUBSET V
            /\ W \in SUBSET Entry /\ P \in SUBSET Entry /\ Q \in SUBSET Entry
        BY <2>1
      <4> QED
        BY <2>1, <4>1, FS_Subset
    <3>2. e \in P => P # {} /\ Newest(P) = e
      BY <1>2, <2>1, <2>4, NewestAbove
    <3>3. ASSUME e \in P
          PROVE  Received(k, P, now) = ReceiveStep(Received(k, Q, now), e, now)
      <4> HIDE DEF e, W
      <4>1. P # {} /\ Newest(P) = e
        BY <3>2, <3>3
      <4>2. Received(k, P, now) = ReceiveStep(Received(k, P \ {Newest(P)}, now), Newest(P), now)
        BY <3>1, <4>1, ReceivedStep
      <4> QED
        BY <4>1, <4>2
    <3>4. e \notin P => P \in SUBSET W
      OBVIOUS
    <3> HIDE DEF e, Q, W
    <3>5. PICK z \in Received(k, W, now) : y \in Receive(z, e, now)
      BY <2>3, <2>4 DEF ReceiveStep
    <3>6. z \in Stamp
      BY <3>1, <3>5, ReceivedAbove
    <3>7. y \in Stamp /\ StampLeq(z, y)
      BY <2>2, <3>5, <3>6, ReceiveFacts
    <3>8. CASE e \in P
      <4>1. PICK x \in Received(k, Q, now) : StampLeq(x, z)
        BY <2>4, <3>1, <3>5
      <4>2. x \in Stamp
        BY <3>1, <4>1, ReceivedAbove
      <4>3. PICK w \in Receive(x, e, now) : StampLeq(w, y)
        BY <2>2, <3>5, <3>6, <4>1, <4>2, ReceiveMonotone
      <4>4. w \in Received(k, P, now)
        BY <3>3, <3>8, <4>1, <4>3 DEF ReceiveStep
      <4> QED
        BY <4>3, <4>4
    <3>9. CASE e \notin P
      <4>1. PICK x \in Received(k, P, now) : StampLeq(x, z)
        BY <2>4, <3>4, <3>5, <3>9
      <4>2. x \in Stamp
        BY <3>1, <4>1, ReceivedAbove
      <4> QED
        BY <1>0, <3>6, <3>7, <4>1, <4>2, StampOrder
    <3> QED
      BY <3>8, <3>9
  <2>5. W \in C => V \in C
    BY <2>4
  <2> HIDE DEF C
  <2> QED
    BY <2>2, <2>5
<1>3. \A V \in SUBSET T : V \in C
  <2> HIDE DEF C
  <2> QED
    BY <1>1, <1>2, SubsetsByRemoval
<1>4. Good(T)
  BY <1>3
<1> QED
  BY <1>4

\* The clock recovered from some rows is at or above all of them.
LEMMA HighestAbove ==
  ASSUME NEW T \in SUBSET Entry, IsFiniteSet(T)
  PROVE  HighestStamp(T) \in Stamp /\ \A e \in T : StampLeq(e, HighestStamp(T))
<1>1. CASE T = {}
  BY <1>1, ConstantsAssumption DEF HighestStamp, Stamp
<1>2. CASE T # {}
  <2> DEFINE top == CHOOSE e \in T : \A x \in T : StampLeq(x, e)
  <2>1. Newest(T) \in T /\ \A x \in T : ~Less(Newest(T), x)
    BY <1>2, NewestFacts
  <2>2. \A x \in T : x.l \in Nat /\ x.c \in Nat /\ x.l \in 0 .. MaxInt /\ x.c \in 0 .. MaxInt
    BY EntryFacts
  <2>3. \A x \in T : StampLeq(x, Newest(T))
    BY <2>1, <2>2 DEF Less, StampLeq
  <2>4. top \in T /\ \A x \in T : StampLeq(x, top)
    BY <2>1, <2>3
  <2> HIDE DEF top
  <2>5. [l |-> top.l, c |-> top.c] \in Stamp
    BY <2>2, <2>4 DEF Stamp
  <2>6. \A x \in T : StampLeq(x, [l |-> top.l, c |-> top.c])
    BY <2>4 DEF StampLeq
  <2>7. HighestStamp(T) = [l |-> top.l, c |-> top.c]
    BY <1>2 DEF HighestStamp, top
  <2> QED
    BY <2>5, <2>6, <2>7
<1> QED
  BY <1>1, <1>2

\* What the candidates of one cell are worth, summed by device.
LEMMA SumIsValue ==
  ASSUME NEW X \in SUBSET Entry, IsFiniteSet(X), \A a, b \in X : a.field = b.field
  PROVE  SumValue(X) \in 0 .. MaxInt
<1> DEFINE parts == [d \in Devices |-> Component(X, d)]
<1>1. ASSUME NEW d \in Devices
      PROVE  Component(X, d) \in Nat
  <2> DEFINE own == {e \in X : e.dev = d}
  <2>1. CASE own = {}
    BY <2>1 DEF Component
  <2>2. CASE own # {}
    <3>1. own \in SUBSET Entry /\ IsFiniteSet(own) /\ \A a, b \in own : a.field = b.field
      BY FS_Subset
    <3> HIDE DEF own
    <3>2. \E w : w \in Winners(own)
      BY <2>2, <3>1, WinnerAbove
    <3>3. (CHOOSE w \in Winners(own) : TRUE) \in Winners(own)
      BY <3>2
    <3>4. Winners(own) \subseteq Entry
      BY <3>1 DEF Winners
    <3>5. WinningValue(own) \in Nat
      BY <3>3, <3>4, EntryFacts DEF WinningValue
    <3> QED
      BY <2>2, <3>5 DEF Component, own
  <2> QED
    BY <2>1, <2>2
<1>2. parts \in [Devices -> Nat]
  BY <1>1
<1>3. FoldFunction(+, 0, parts) \in Nat
  <2> HIDE DEF parts
  <2> QED
    BY <1>2, TotalIsNat, ConstantsAssumption
<1> DEFINE total == FoldFunction(+, 0, parts)
<1>4. SumValue(X) = IF total > MaxInt THEN MaxInt ELSE total
  BY DEF SumValue, Saturated
<1>5. total \in Nat
  BY <1>3
<1> HIDE DEF total
<1> QED
  BY <1>4, <1>5, ConstantsAssumption

\* The value of a local write, or of its share of a sum, is one that fits.
LEMMA ComponentFits ==
  ASSUME NEW d \in Devices, NEW rec \in Records, NEW field \in Fields,
         NEW val \in 0 .. MaxInt,
         merge[d].live \in SUBSET Entry, IsFiniteSet(merge[d].live)
  PROVE  ComponentFor(d, rec, field, val) \in 0 .. MaxInt
<1> DEFINE others == {e \in Cell(merge[d].live, <<rec, field>>) : e.dev # d}
<1>1. /\ others \in SUBSET Entry /\ IsFiniteSet(others)
      /\ \A a, b \in others : a.field = b.field
  <2>1. others \in SUBSET merge[d].live /\ \A a \in others : a.field = field
    BY DEF Cell, SlotOf
  <2> QED
    BY <2>1, FS_Subset
<1> HIDE DEF others
<1>2. SumValue(others) \in 0 .. MaxInt
  BY <1>1, SumIsValue
<1>3. ComponentFor(d, rec, field, val) =
        IF field \notin SumFields THEN val
        ELSE IF val > SumValue(others) THEN val - SumValue(others) ELSE 0
  BY DEF ComponentFor, others
<1> QED
  BY <1>2, <1>3, ConstantsAssumption

\* A cursor runs on over what was seen, and only over that.
LEMMA FoldedMarkFacts ==
  ASSUME NEW marks \in [Devices -> Nat], NEW seen \in SUBSET (Devices \X Nat),
         IsFiniteSet(seen)
  PROVE  /\ FoldedMark(marks, seen) \in [Devices -> Nat]
         /\ \A s \in Devices :
              /\ FoldedMark(marks, seen)[s] >= marks[s]
              /\ \A i \in marks[s] + 1 .. FoldedMark(marks, seen)[s] : <<s, i>> \in seen
<1> DEFINE Run(s, n) == \A i \in marks[s] + 1 .. n : <<s, i>> \in seen
           Stops(s, n) == Run(s, n) /\ <<s, n + 1>> \notin seen
           size == Cardinality(seen)
<1>1. size \in Nat
  BY FS_CardinalityType
<1>2. ASSUME NEW s \in Devices
      PROVE  \E n \in marks[s] .. marks[s] + size : Stops(s, n)
  <2> SUFFICES ASSUME \A n \in marks[s] .. marks[s] + size : ~Stops(s, n)
               PROVE  FALSE
    OBVIOUS
  <2> DEFINE K == {n \in Nat : n <= size + 1 => Run(s, marks[s] + n)}
  <2>0. marks[s] \in Nat
    OBVIOUS
  <2>1. 0 \in K
    BY <2>0
  <2>2. ASSUME NEW n \in Nat, n \in K, n + 1 <= size + 1
        PROVE  Run(s, marks[s] + (n + 1))
    <3>1. Run(s, marks[s] + n) /\ marks[s] + n \in marks[s] .. marks[s] + size
      BY <1>1, <2>0, <2>2
    <3>2. <<s, marks[s] + n + 1>> \in seen
      BY <3>1
    <3>3. \A i \in marks[s] + 1 .. marks[s] + (n + 1) :
            i \in marks[s] + 1 .. marks[s] + n \/ i = marks[s] + n + 1
      BY <2>0
    <3> QED
      BY <3>1, <3>2, <3>3
  <2>3. \A n \in Nat : n \in K => n + 1 \in K
    BY <2>2
  <2>4. size + 1 \in K
    <3>1. \A n \in Nat : n \in K
      <4> HIDE DEF K
      <4> QED
        BY <2>1, <2>3, NumbersBySteps
    <3> HIDE DEF K
    <3> QED
      BY <1>1, <3>1
  <2> DEFINE f == [i \in 1 .. size + 1 |-> <<s, marks[s] + i>>]
  <2>5. Run(s, marks[s] + (size + 1))
    BY <1>1, <2>4
  <2>6. \A i \in 1 .. size + 1 : f[i] \in seen
    BY <1>1, <2>0, <2>5
  <2>7. f \in Injection(1 .. size + 1, seen)
    <3>1. \A i, j \in 1 .. size + 1 : f[i] = f[j] => i = j
      BY <1>1, <2>0
    <3>2. f \in [1 .. size + 1 -> seen]
      BY <2>6
    <3> HIDE DEF f
    <3> QED
      BY <3>1, <3>2 DEF Injection, IsInjective
  <2>8. Cardinality(1 .. size + 1) <= size
    <3> HIDE DEF f
    <3> QED
      BY <2>7, FS_Injection
  <2>9. Cardinality(1 .. size + 1) = size + 1
    BY <1>1, FS_Interval
  <2> QED
    BY <1>1, <2>8, <2>9
<1>3. ASSUME NEW s \in Devices
      PROVE  /\ FoldedMark(marks, seen)[s] \in marks[s] .. marks[s] + size
             /\ Stops(s, FoldedMark(marks, seen)[s])
  <2>1. FoldedMark(marks, seen)[s] = CHOOSE n \in marks[s] .. marks[s] + size : Stops(s, n)
    BY DEF FoldedMark
  <2> HIDE DEF Stops, size
  <2> QED
    BY <1>2, <2>1
<1>4. FoldedMark(marks, seen) = [s \in Devices |-> FoldedMark(marks, seen)[s]]
  <2> DEFINE End(s) == CHOOSE n \in marks[s] .. marks[s] + size : Stops(s, n)
  <2>1. FoldedMark(marks, seen) = [s \in Devices |-> End(s)]
    BY DEF FoldedMark
  <2> HIDE DEF End
  <2> QED
    BY <2>1
<1> DEFINE f == FoldedMark(marks, seen)
<1> HIDE DEF f
<1>5. \A s \in Devices : marks[s] \in Nat /\ f[s] \in marks[s] .. marks[s] + size /\ Run(s, f[s])
  BY <1>3 DEF f
<1>6. f = [s \in Devices |-> f[s]] /\ \A s \in Devices : f[s] \in Nat
  BY <1>1, <1>4, <1>5 DEF f
<1>7. \A s \in Devices : f[s] >= marks[s]
  BY <1>1, <1>5
<1>8. f \in [Devices -> Nat]
  BY <1>6
<1> QED
  BY <1>5, <1>7, <1>8 DEF f

-----------------------------------------------------------------------------
(* The invariant.                                                          *)

\* A table of claims: the cursors of some devices.
IsClaims(c) ==
  /\ DOMAIN c \subseteq Devices
  /\ \A p \in DOMAIN c : c[p] \in [Devices -> Nat]

Positions == Devices \X Nat

ShapeDoc(pkt) ==
  /\ pkt.to \in Devices /\ pkt.doc.from \in Devices
  /\ pkt.doc.cursor \in [Devices -> Nat]
  /\ pkt.doc.entries \subseteq emitted
  /\ pkt.doc.skipped \subseteq Positions

Shape ==
  /\ emitted \subseteq Entry /\ IsFiniteSet(emitted)
  /\ accepted \in [Devices -> SUBSET emitted]
  /\ log \in [Devices -> SUBSET emitted]
  /\ merge = [d \in Devices |-> merge[d]]
  /\ mark \in [Devices -> [Devices -> Nat]]
  /\ ahead \in [Devices -> SUBSET Positions]
  /\ localSeq \in [Devices -> Nat]
  /\ clock \in [Devices -> Stamp]
  /\ peerMarks = [d \in Devices |-> peerMarks[d]]
  /\ peerRows = [d \in Devices |-> peerRows[d]]
  /\ \A d \in Devices : IsClaims(peerMarks[d]) /\ IsClaims(peerRows[d])
  /\ stale \in [Devices -> SUBSET Devices]
  /\ dirty \in [Devices -> SUBSET Devices]
  /\ \A pkt \in docs : ShapeDoc(pkt)

\* Every entry is its device's own, within what that device emitted; the
\* newest of them is still in its log, which is where a restart finds the
\* ordinal to go on from.
Histories ==
  /\ SeqsIdentify
  /\ \A e \in emitted : e.seq \in 1 .. localSeq[e.dev] /\ e \in accepted[e.dev]
  /\ \A d \in Devices :
       localSeq[d] = 0 \/ \E e \in log[d] : e.dev = d /\ e.seq = localSeq[d]
  /\ ClockCoversAccepted

SoundAt(d) ==
  /\ log[d] \subseteq accepted[d]
  /\ Live(merge[d]) \subseteq log[d]
  /\ merge[d].rows = {}
  /\ DeviceSound(merge[d], accepted[d])

Sound == \A d \in Devices : SoundAt(d)

\* What a device has to hold to show the library when E was emitted and the
\* records `old` are past retention: a change that is not itself past
\* retention, and that no other one supersedes.
Essential(E, old, e) ==
  /\ ~(e.rec \in old /\ ~IsTomb(e))
  /\ \A w \in E : ~Supersedes(w, e)

\* Someone who holds A may claim the seq p.
Claimable(E, old, seqs, A, p) ==
  /\ p[1] \in Devices /\ p[2] \in 1 .. seqs[p[1]]
  /\ \A e \in E : SeqId(e) = p /\ Essential(E, old, e) => e \in A

Claims(A, p) == Claimable(emitted, aged, localSeq, A, p)

Honest ==
  /\ \A d, s \in Devices : \A n \in 1 .. mark[d][s] : Claims(accepted[d], <<s, n>>)
  /\ \A d \in Devices : \A p \in ahead[d] : Claims(accepted[d], p)
  /\ \A pkt \in docs : \A p \in pkt.doc.skipped : Claims({}, p)

\* Nobody's cursor is overstated in a table of claims or in a document, and a
\* sender the store remembers was heard of since the start or is awaited.
Remembered ==
  /\ \A d, s \in Devices : \A p \in DOMAIN peerMarks[d] : peerMarks[d][p][s] <= mark[p][s]
  /\ \A pkt \in docs : \A s \in Devices : pkt.doc.cursor[s] <= mark[pkt.doc.from][s]
  /\ \A d \in Devices : DOMAIN peerRows[d] \subseteq DOMAIN peerMarks[d] \cup stale[d]
  /\ \A d \in Devices : stale[d] \subseteq DOMAIN peerRows[d]

IInv == Shape /\ Histories /\ Sound /\ Honest /\ Remembered

-----------------------------------------------------------------------------
(* One device: what superseded entries, the rest of the log, and a rebuild *)
(* mean.                                                                   *)

\* Superseding is transitive.
LEMMA SupersedesTransitive ==
  ASSUME NEW a \in Entry, NEW b \in Entry, NEW x \in Entry,
         Supersedes(a, b), Supersedes(b, x)
  PROVE  Supersedes(a, x)
<1>1. a.rec = x.rec /\ Less(x, a)
  BY LessOrder DEF Supersedes
<1>2. CASE IsTomb(a)
  BY <1>1, <1>2 DEF Supersedes
<1>3. CASE ~IsTomb(a)
  <2>1. SamePartition(a, b) /\ (Numeric(b.field) => a.val >= b.val)
    BY <1>3 DEF Supersedes
  <2>2. ~IsTomb(b)
    BY <1>3, <2>1 DEF SamePartition, SlotOf, IsTomb
  <2>3. SamePartition(b, x) /\ (Numeric(x.field) => b.val >= x.val)
    BY <2>2 DEF Supersedes
  <2>4. SamePartition(a, x) /\ b.field = x.field
    BY <2>1, <2>3 DEF SamePartition, SlotOf
  <2>5. a.val \in Nat /\ b.val \in Nat /\ x.val \in Nat
    BY EntryFacts
  <2>6. Numeric(x.field) => a.val >= x.val
    BY <2>1, <2>3, <2>4, <2>5
  <2> QED
    BY <1>1, <2>4, <2>6 DEF Supersedes
<1> QED
  BY <1>2, <1>3

\* Who covers an entry supersedes it.
LEMMA CoversSupersedes ==
  ASSUME NEW w, NEW e, e.field \in Fields, Covers(w, e)
  PROVE  Supersedes(w, e)
<1>1. SlotOf(w) = SlotOf(e) /\ Less(e, w) /\ (Numeric(e.field) => Dominates(w, e))
  BY DEF Covers
<1>2. w.rec = e.rec /\ w.field = e.field
  BY <1>1 DEF SlotOf
<1>3. CASE Numeric(e.field)
  BY <1>1, <1>2, <1>3 DEF Dominates, Supersedes
<1>4. CASE ~Numeric(e.field)
  BY <1>1, <1>2, <1>4 DEF Supersedes, SamePartition, Numeric
<1> QED
  BY <1>3, <1>4

\* Covering is transitive.
LEMMA CoversTransitive ==
  ASSUME NEW a \in Entry, NEW b \in Entry, NEW x \in Entry, Covers(a, b), Covers(b, x)
  PROVE  Covers(a, x)
<1>1. SlotOf(a) = SlotOf(x) /\ Less(x, a) /\ b.field = x.field
  BY LessOrder DEF Covers, SlotOf
<1>2. Numeric(x.field) => Dominates(a, x)
  BY <1>1, DominatesTransitive DEF Covers
<1> QED
  BY <1>1, <1>2 DEF Covers

\* A merge state keeps everything its device accepted that nothing accepted
\* supersedes.
LEMMA UnsupersededIsLive ==
  ASSUME NEW m, NEW S \in SUBSET Entry, KeyDistinct(S), DeviceSound(m, S),
         NEW e \in S, \A w \in S : ~Supersedes(w, e)
  PROVE  e \in Live(m)
<1>1. CASE IsTomb(e)
  <2>1. PICK u \in m.tomb : u.rec = e.rec /\ ~Less(u, e)
    BY <1>1 DEF DeviceSound, TombsNewest
  <2>2. u \in S /\ IsTomb(u)
    BY DEF DeviceSound, TombsNewest
  <2>3. ~Less(e, u)
    BY <2>1, <2>2 DEF Supersedes
  <2>4. u = e
    BY <2>1, <2>2, <2>3, LessOrder DEF KeyDistinct
  <2> QED
    BY <2>4 DEF Live
<1>2. CASE ~IsTomb(e)
  <2>1. ASSUME NEW t \in S, IsTomb(t), t.rec = e.rec
        PROVE  Less(t, e)
    <3>1. ~Less(e, t)
      BY <2>1 DEF Supersedes
    <3>2. t # e
      BY <1>2, <2>1
    <3> QED
      BY <3>1, <3>2, LessOrder DEF KeyDistinct
  <2>2. e \in Alive(S)
    BY <1>2, <2>1 DEF Alive
  <2>3. e \in m.live \/ \E w \in m.live : Covers(w, e)
    BY <2>2 DEF DeviceSound, LiveCovers
  <2>4. ASSUME NEW w \in m.live, Covers(w, e)
        PROVE  FALSE
    <3>1. w \in S
      BY DEF DeviceSound
    <3>2. e.field \in Fields
      BY <1>2, EntryFacts
    <3> QED
      BY <2>4, <3>1, <3>2, CoversSupersedes
  <2> QED
    BY <2>3, <2>4 DEF Live
<1> QED
  BY <1>1, <1>2

\* The newest entry a device accepted is one its merge state keeps.
LEMMA NewestIsLive ==
  ASSUME NEW m, NEW S \in SUBSET Entry, IsFiniteSet(S), S # {}, KeyDistinct(S),
         DeviceSound(m, S)
  PROVE  Newest(S) \in Live(m)
<1>1. Newest(S) \in S /\ \A x \in S : ~Less(Newest(S), x)
  BY NewestFacts
<1>2. \A w \in S : ~Supersedes(w, Newest(S))
  BY <1>1 DEF Supersedes
<1> QED
  BY <1>1, <1>2, UnsupersededIsLive

\* What no tombstone of a part reaches, no tombstone of the whole reaches, if
\* the part has the tombstones that were kept.
LEMMA AlivePart ==
  ASSUME NEW m, NEW S \in SUBSET Entry, DeviceSound(m, S),
         NEW L \in SUBSET S, Live(m) \subseteq L
  PROVE  Alive(L) \subseteq Alive(S)
<1> SUFFICES ASSUME NEW x \in Alive(L), NEW t \in S, IsTomb(t), t.rec = x.rec
             PROVE  Less(t, x)
  BY DEF Alive
<1>1. PICK u \in m.tomb : u.rec = t.rec /\ ~Less(u, t)
  BY DEF DeviceSound, TombsNewest
<1>2. u \in L /\ u \in Entry /\ IsTomb(u)
  BY DEF Live, DeviceSound, TombsNewest
<1>3. Less(u, x)
  BY <1>1, <1>2 DEF Alive
<1>4. x \in Entry
  BY DEF Alive
<1> QED
  BY <1>1, <1>2, <1>3, <1>4, LessOrder

\* The rows a device still holds mean what everything it accepted means.
LEMMA PartShows ==
  ASSUME NEW m, NEW S \in SUBSET Entry, DeviceSound(m, S),
         NEW L \in SUBSET S, Live(m) \subseteq L
  PROVE  View(L) = View(S)
<1>1. Alive(L) \subseteq Alive(S)
  BY AlivePart
<1>2. LiveCovers(m, S) /\ CachesFresh(m)
  BY DEF DeviceSound
<1>3. m.live \subseteq Alive(L)
  <2>1. m.live \subseteq Alive(S) /\ m.live \subseteq L
    BY <1>2 DEF LiveCovers, Live
  <2> QED
    BY <2>1 DEF Alive
<1>4. LiveCovers(m, L)
  BY <1>1, <1>2, <1>3 DEF LiveCovers
<1>5. L \in SUBSET Entry
  OBVIOUS
<1>6. m.shown = View(L) /\ m.shown = View(S)
  BY <1>2, <1>4, <1>5, FrontierView
<1> QED
  BY <1>6

\* A merge state rebuilt from those rows stands for everything accepted.
LEMMA RebuildSound ==
  ASSUME NEW m, NEW S \in SUBSET Entry, DeviceSound(m, S),
         NEW L \in SUBSET S, Live(m) \subseteq L,
         NEW n, DeviceSound(n, L)
  PROVE  DeviceSound(n, S)
<1>1. Alive(L) \subseteq Alive(S)
  BY AlivePart
<1>2. TombsNewest(n, S)
  <2>1. n.tomb \subseteq {t \in S : IsTomb(t)}
    BY DEF DeviceSound, TombsNewest
  <2>2. ASSUME NEW t \in S, IsTomb(t)
        PROVE  \E v \in n.tomb : v.rec = t.rec /\ ~Less(v, t)
    <3>1. PICK u \in m.tomb : u.rec = t.rec /\ ~Less(u, t)
      BY <2>2 DEF DeviceSound, TombsNewest
    <3>2. u \in L /\ u \in Entry /\ IsTomb(u)
      BY DEF Live, DeviceSound, TombsNewest
    <3>3. PICK v \in n.tomb : v.rec = u.rec /\ ~Less(v, u)
      BY <3>2 DEF DeviceSound, TombsNewest
    <3>4. v \in Entry
      BY <2>1
    <3>5. ~Less(v, t)
      BY <3>1, <3>2, <3>3, <3>4, LessOrder
    <3> QED
      BY <3>1, <3>3, <3>5
  <2>3. \A t, u \in n.tomb : t.rec = u.rec => t = u
    BY DEF DeviceSound, TombsNewest
  <2> QED
    BY <2>1, <2>2, <2>3 DEF TombsNewest
<1>3. LiveCovers(n, S)
  <2>1. n.live \subseteq Alive(S) /\ n.live \subseteq L
    BY <1>1 DEF DeviceSound, LiveCovers
  <2>2. ASSUME NEW e \in Alive(S)
        PROVE  e \in n.live \/ \E w \in n.live : Covers(w, e)
    <3>1. e \in Entry
      BY DEF Alive
    <3>2. m.live \subseteq Alive(L)
      <4>1. m.live \subseteq Alive(S) /\ m.live \subseteq L
        BY DEF DeviceSound, LiveCovers, Live
      <4> QED
        BY <4>1 DEF Alive
    <3>3. \A w \in m.live : w \in n.live \/ \E v \in n.live : Covers(v, w)
      BY <3>2 DEF DeviceSound, LiveCovers
    <3>4. CASE e \in m.live
      BY <3>3, <3>4
    <3>5. CASE e \notin m.live
      <4>1. PICK w \in m.live : Covers(w, e)
        BY <3>5 DEF DeviceSound, LiveCovers
      <4>2. w \in Entry
        BY DEF Live
      <4>3. CASE w \in n.live
        BY <4>1, <4>3
      <4>4. ASSUME NEW v \in n.live, Covers(v, w)
            PROVE  Covers(v, e)
        <5>1. v \in Entry
          BY <2>1
        <5> QED
          BY <3>1, <4>1, <4>2, <4>4, <5>1, CoversTransitive
      <4> QED
        BY <3>3, <4>3, <4>4
    <3> QED
      BY <3>4, <3>5
  <2>3. \A a, b \in n.live : SlotOf(a) = SlotOf(b) /\ ~Numeric(a.field) => a = b
    BY DEF DeviceSound, LiveCovers
  <2> QED
    BY <2>1, <2>2, <2>3 DEF LiveCovers
<1> QED
  BY <1>2, <1>3 DEF DeviceSound

\* The empty merge state stands for nothing accepted, and shows nothing.
LEMMA EmptyIsSound ==
  /\ DeviceSound(EmptyMerge, {}) /\ EmptyMerge.rows = {} /\ Live(EmptyMerge) = {}
  /\ EmptyMerge.live = {}
  /\ EmptyMerge.shown = View({})
<1>1. /\ EmptyMerge.tomb = {} /\ EmptyMerge.live = {} /\ EmptyMerge.win = {}
      /\ EmptyMerge.shown = [s \in Slots |-> Absent] /\ EmptyMerge.rows = {}
  BY DEF EmptyMerge
<1>2. IsMerge(EmptyMerge)
  BY DEF EmptyMerge, IsMerge
<1>3. Alive({}) = {} /\ CellWinners({}) = {} /\ \A s : Cell({}, s) = {}
  BY DEF Alive, CellWinners, Cell
<1>4. TombsNewest(EmptyMerge, {}) /\ LiveCovers(EmptyMerge, {})
  BY <1>1, <1>3 DEF TombsNewest, LiveCovers
<1>5. [s \in Slots |-> CellValue(s[2], Cell({}, s))] = [s \in Slots |-> Absent]
  BY <1>3 DEF CellValue
<1>6. CachesFresh(EmptyMerge)
  BY <1>1, <1>3, <1>5 DEF CachesFresh
<1>7. EmptyMerge.shown = View({})
  BY <1>1, <1>3, <1>5 DEF View
<1> QED
  BY <1>1, <1>2, <1>4, <1>6, <1>7 DEF DeviceSound, Live

-----------------------------------------------------------------------------
(* Ordinals and claims.                                                    *)

Ordered(E) ==
  \A a, b \in E :
    a.dev = b.dev /\ a.seq <= b.seq => a = b \/ (a.seq < b.seq /\ Less(a, b))

\* Ordinals that rise with stamps identify entries, and so do stamps.
LEMMA OrderedIdentifies ==
  ASSUME NEW E \in SUBSET Entry, Ordered(E)
  PROVE  KeyDistinct(E) /\ \A a, b \in E : SeqId(a) = SeqId(b) => a = b
<1>1. \A a \in E : a.seq \in Nat /\ a.l \in Nat /\ a.c \in Nat /\ a.dev \in Nat
  BY EntryFacts DEF Entry, FieldEntry, TombEntry
<1>2. ASSUME NEW a \in E, NEW b \in E, KeyOf(a) = KeyOf(b)
      PROVE  a = b
  <2>1. a.dev = b.dev /\ a.l = b.l /\ a.c = b.c
    BY <1>2 DEF KeyOf
  <2>2. ~Less(a, b) /\ ~Less(b, a)
    BY <1>1, <2>1 DEF Less
  <2>3. a.seq <= b.seq \/ b.seq <= a.seq
    BY <1>1
  <2> QED
    BY <2>1, <2>2, <2>3 DEF Ordered
<1>3. ASSUME NEW a \in E, NEW b \in E, SeqId(a) = SeqId(b)
      PROVE  a = b
  <2>1. a.dev = b.dev /\ a.seq = b.seq
    BY <1>3 DEF SeqId
  <2>2. a.seq <= b.seq /\ ~(a.seq < b.seq)
    BY <1>1, <2>1
  <2> QED
    BY <2>1, <2>2 DEF Ordered
<1> QED
  BY <1>2, <1>3 DEF KeyDistinct

\* A claim stays good: emissions get new ordinals, and what supersedes or
\* retires an entry now does so for ever.
LEMMA ClaimableGrows ==
  ASSUME NEW E, NEW F, E \subseteq F, NEW old, NEW older, old \subseteq older,
         NEW q \in [Devices -> Nat], NEW r \in [Devices -> Nat],
         \A s \in Devices : q[s] <= r[s],
         F \subseteq Entry, \A e \in F \ E : e.seq > q[e.dev],
         NEW A, NEW B, A \subseteq B, NEW p, Claimable(E, old, q, A, p)
  PROVE  Claimable(F, older, r, B, p)
<1>1. p[1] \in Devices /\ p[2] \in 1 .. q[p[1]]
  BY DEF Claimable
<1>2. p[2] \in 1 .. r[p[1]]
  BY <1>1
<1>3. ASSUME NEW e \in F, SeqId(e) = p, Essential(F, older, e)
      PROVE  e \in B
  <2>1. e.dev = p[1] /\ e.seq = p[2] /\ e.seq \in Nat
    BY <1>3 DEF SeqId, Entry, FieldEntry, TombEntry
  <2>2. e \in E
    BY <1>1, <2>1
  <2>3. Essential(E, old, e)
    BY <1>3 DEF Essential
  <2> QED
    BY <1>3, <2>2, <2>3 DEF Claimable
<1> QED
  BY <1>1, <1>2, <1>3 DEF Claimable

\* Who holds an entry may claim its ordinal.
LEMMA HeldIsClaimable ==
  ASSUME NEW E \in SUBSET Entry, Ordered(E), NEW old, NEW q,
         \A e \in E : e.seq \in 1 .. q[e.dev], NEW A, NEW e \in A, e \in E
  PROVE  Claimable(E, old, q, A, SeqId(e))
<1>1. SeqId(e)[1] = e.dev /\ SeqId(e)[2] = e.seq /\ e.dev \in Devices
  BY EntryFacts DEF SeqId
<1>2. \A x \in E : SeqId(x) = SeqId(e) => x = e
  BY OrderedIdentifies
<1> QED
  BY <1>1, <1>2 DEF Claimable

\* There are finitely many ordinals.
LEMMA EmissionsFinite ==
  ASSUME NEW q \in [Devices -> Nat],
         NEW P, \A p \in P : p \in Positions /\ p[2] \in 1 .. q[p[1]]
  PROVE  IsFiniteSet(P)
<1> DEFINE Row(d) == {d} \X (1 .. q[d])
           f == [d \in Devices |-> Row(d)]
           rows == {Row(d) : d \in Devices}
<1>1. f \in Surjection(Devices, rows)
  BY DEF Surjection
<1>2. IsFiniteSet(rows)
  <2> HIDE DEF f, rows
  <2> QED
    BY <1>1, FS_Surjection, ConstantsAssumption
<1>3. ASSUME NEW d \in Devices
      PROVE  IsFiniteSet(Row(d))
  <2>1. q[d] \in Int
    OBVIOUS
  <2>2. IsFiniteSet(1 .. q[d])
    BY <2>1, FS_Interval
  <2>3. IsFiniteSet({d})
    BY FS_Singleton
  <2> QED
    BY <2>2, <2>3, FS_Product
<1>4. \A R \in rows : IsFiniteSet(R)
  <2> HIDE DEF Row
  <2> QED
    BY <1>3
<1>5. IsFiniteSet(UNION rows)
  <2> HIDE DEF rows
  <2> QED
    BY <1>2, <1>4, FS_UNION
<1>6. P \subseteq UNION rows
  <2> SUFFICES ASSUME NEW p \in P
               PROVE  \E d \in Devices : p \in Row(d)
    OBVIOUS
  <2>1. p \in Devices \X Nat /\ p[2] \in 1 .. q[p[1]]
    BY DEF Positions
  <2>2. p = <<p[1], p[2]>> /\ p[1] \in Devices
    BY <2>1
  <2>3. p \in Row(p[1])
    BY <2>1, <2>2
  <2> QED
    BY <2>2, <2>3
<1> QED
  BY <1>5, <1>6, FS_Subset

\* What a cursor comes to claim, when the seqs seen above it are good claims.
LEMMA FoldedClaims ==
  ASSUME NEW marks \in [Devices -> Nat], NEW q \in [Devices -> Nat],
         NEW E, NEW old, NEW A,
         NEW seen, \A p \in seen : p \in Positions /\ Claimable(E, old, q, A, p)
  PROVE  /\ FoldedMark(marks, seen) \in [Devices -> Nat]
         /\ \A s \in Devices :
              /\ FoldedMark(marks, seen)[s] >= marks[s]
              /\ \A n \in marks[s] + 1 .. FoldedMark(marks, seen)[s] :
                   Claimable(E, old, q, A, <<s, n>>)
<1>1. \A p \in seen : p \in Positions /\ p[2] \in 1 .. q[p[1]]
  BY DEF Claimable
<1>2. IsFiniteSet(seen)
  BY <1>1, EmissionsFinite
<1>3. seen \in SUBSET (Devices \X Nat)
  BY DEF Positions
<1>4. /\ FoldedMark(marks, seen) \in [Devices -> Nat]
      /\ \A s \in Devices :
           /\ FoldedMark(marks, seen)[s] >= marks[s]
           /\ \A i \in marks[s] + 1 .. FoldedMark(marks, seen)[s] : <<s, i>> \in seen
  BY <1>2, <1>3, FoldedMarkFacts
<1> QED
  BY <1>4

-----------------------------------------------------------------------------
(* What a step has to show for each part of the invariant.                 *)

\* Claims stay honest when whatever is claimed anew may be claimed.
LEMMA HonestStep ==
  ASSUME Shape, Shape', Honest,
         emitted \subseteq emitted', aged \subseteq aged',
         \A s \in Devices : localSeq[s] <= localSeq'[s],
         \A e \in emitted' \ emitted : e.seq > localSeq[e.dev],
         \A d \in Devices : accepted[d] \subseteq accepted'[d],
         \A d, s \in Devices : \A n \in mark[d][s] + 1 .. mark'[d][s] :
           Claimable(emitted', aged', localSeq', accepted'[d], <<s, n>>),
         \A d \in Devices : \A p \in ahead'[d] :
           p \in ahead[d] \/ Claimable(emitted', aged', localSeq', accepted'[d], p),
         \A pkt \in docs' \ docs : \A p \in pkt.doc.skipped :
           Claimable(emitted', aged', localSeq', {}, p)
  PROVE  Honest'
<1>0. /\ localSeq \in [Devices -> Nat] /\ localSeq' \in [Devices -> Nat]
      /\ emitted' \subseteq Entry
      /\ \A d, s \in Devices : mark[d][s] \in Nat /\ mark'[d][s] \in Nat
  BY DEF Shape
<1>1. ASSUME NEW A, NEW B, A \subseteq B, NEW p, Claimable(emitted, aged, localSeq, A, p)
      PROVE  Claimable(emitted', aged', localSeq', B, p)
  BY <1>0, <1>1, ClaimableGrows
<1>2. ASSUME NEW d \in Devices, NEW p, Claimable(emitted, aged, localSeq, accepted[d], p)
      PROVE  Claimable(emitted', aged', localSeq', accepted'[d], p)
  BY <1>0, <1>2, ClaimableGrows
<1>3. ASSUME NEW d \in Devices, NEW s \in Devices, NEW n \in 1 .. mark'[d][s]
      PROVE  Claimable(emitted', aged', localSeq', accepted'[d], <<s, n>>)
  <2>1. n \in 1 .. mark[d][s] \/ n \in mark[d][s] + 1 .. mark'[d][s]
    BY <1>0
  <2>2. CASE n \in 1 .. mark[d][s]
    BY <1>2, <2>2 DEF Honest, Claims
  <2> QED
    BY <2>1, <2>2
<1>4. ASSUME NEW d \in Devices, NEW p \in ahead'[d]
      PROVE  Claimable(emitted', aged', localSeq', accepted'[d], p)
  BY <1>2 DEF Honest, Claims
<1>5. ASSUME NEW pkt \in docs', NEW p \in pkt.doc.skipped
      PROVE  Claimable(emitted', aged', localSeq', {}, p)
  <2>1. CASE pkt \in docs
    <3>1. Claimable(emitted, aged, localSeq, {}, p)
      BY <2>1 DEF Honest, Claims
    <3> QED
      BY <1>1, <3>1
  <2> QED
    BY <2>1
<1> QED
  BY <1>3, <1>4, <1>5 DEF Honest, Claims

\* The histories of a step that writes nothing.
LEMMA HistoriesStep ==
  ASSUME Histories, emitted' = emitted, localSeq' = localSeq,
         \A d \in Devices : accepted[d] \subseteq accepted'[d],
         \A d \in Devices : \A e \in log[d] :
           e.dev = d /\ e.seq = localSeq[d] => e \in log'[d],
         \A d \in Devices : \A e \in accepted'[d] : StampLeq(e, clock'[d]),
         emitted \subseteq Entry
  PROVE  Histories'
<1>1. \A e \in emitted : e.dev \in Devices
  BY EntryFacts
<1>2. SeqsIdentify'
  BY DEF Histories, SeqsIdentify
<1>3. \A e \in emitted' : e.seq \in 1 .. localSeq'[e.dev] /\ e \in accepted'[e.dev]
  BY <1>1 DEF Histories
<1>4. \A d \in Devices :
        localSeq'[d] = 0 \/ \E e \in log'[d] : e.dev = d /\ e.seq = localSeq'[d]
  BY DEF Histories
<1>5. ClockCoversAccepted'
  BY DEF ClockCoversAccepted
<1> QED
  BY <1>2, <1>3, <1>4, <1>5 DEF Histories

\* What devices remember of each other's cursors stays true while cursors
\* only run on.
LEMMA RememberedStep ==
  ASSUME Shape, Remembered,
         \A x, s \in Devices : mark'[x][s] \in Nat /\ mark[x][s] <= mark'[x][s],
         \A x \in Devices : \A p \in DOMAIN peerMarks'[x] :
           \/ p \in DOMAIN peerMarks[x] /\ peerMarks'[x][p] = peerMarks[x][p]
           \/ \E pkt \in docs : p = pkt.doc.from /\ peerMarks'[x][p] = pkt.doc.cursor,
         \A pkt \in docs' \ docs :
           pkt.doc.from \in Devices /\ pkt.doc.cursor = mark[pkt.doc.from],
         \A x \in Devices : /\ DOMAIN peerRows'[x] \subseteq DOMAIN peerMarks'[x] \cup stale'[x]
                           /\ stale'[x] \subseteq DOMAIN peerRows'[x]
  PROVE  Remembered'
<1>1. /\ \A x, s \in Devices : mark[x][s] \in Nat
      /\ \A x \in Devices : IsClaims(peerMarks[x])
      /\ \A pkt \in docs : pkt.doc.from \in Devices /\ pkt.doc.cursor \in [Devices -> Nat]
  BY DEF Shape, ShapeDoc
<1>2. ASSUME NEW pkt \in docs, NEW s \in Devices
      PROVE  pkt.doc.cursor[s] <= mark'[pkt.doc.from][s]
  <2>1. /\ pkt.doc.cursor[s] \in Nat /\ pkt.doc.cursor[s] <= mark[pkt.doc.from][s]
        /\ pkt.doc.from \in Devices
    BY <1>1 DEF Remembered
  <2>2. /\ mark[pkt.doc.from][s] \in Nat /\ mark'[pkt.doc.from][s] \in Nat
        /\ mark[pkt.doc.from][s] <= mark'[pkt.doc.from][s]
    BY <1>1, <2>1
  <2> QED
    BY <2>1, <2>2
<1>3. ASSUME NEW x \in Devices, NEW s \in Devices, NEW p \in DOMAIN peerMarks'[x]
      PROVE  peerMarks'[x][p][s] <= mark'[p][s]
  <2>1. CASE p \in DOMAIN peerMarks[x] /\ peerMarks'[x][p] = peerMarks[x][p]
    <3>1. p \in Devices /\ peerMarks[x][p][s] \in Nat /\ peerMarks[x][p][s] <= mark[p][s]
      BY <1>1, <2>1 DEF IsClaims, Remembered
    <3>2. mark[p][s] \in Nat /\ mark'[p][s] \in Nat /\ mark[p][s] <= mark'[p][s]
      BY <1>1, <3>1
    <3> QED
      BY <2>1, <3>1, <3>2
  <2>2. CASE \E pkt \in docs : p = pkt.doc.from /\ peerMarks'[x][p] = pkt.doc.cursor
    BY <1>2, <2>2
  <2> QED
    BY <2>1, <2>2
<1>4. ASSUME NEW pkt \in docs', NEW s \in Devices
      PROVE  pkt.doc.cursor[s] <= mark'[pkt.doc.from][s]
  <2>1. CASE pkt \in docs
    BY <1>2, <2>1
  <2>2. CASE pkt \notin docs
    BY <2>2
  <2> QED
    BY <2>1, <2>2
<1> QED
  BY <1>3, <1>4 DEF Remembered

-----------------------------------------------------------------------------
(* Local writes.                                                           *)

\* The rows of a table once some of the claims are stored.
StoredWell(rows, claims, senders) ==
  /\ IsClaims(PendingStored(rows, claims, senders))
  /\ DOMAIN PendingStored(rows, claims, senders)
       = DOMAIN rows \cup (senders \cap DOMAIN claims)

LEMMA StoredClaims ==
  ASSUME NEW rows, IsClaims(rows), NEW claims, IsClaims(claims), NEW senders
  PROVE  StoredWell(rows, claims, senders)
BY DEF StoredWell, PendingStored, IsClaims

\* A write of the entry e by d, its clock moving to stamp.
WriteOf(d, e, stamp) ==
  /\ e.dev = d /\ e.seq = localSeq[d] + 1 /\ e.l = stamp.l /\ e.c = stamp.c
  /\ StampLeq(clock[d], stamp) /\ ~StampLeq(stamp, clock[d])
  /\ emitted' = emitted \cup {e}
  /\ accepted' = [accepted EXCEPT ![d] = @ \cup {e}]
  /\ log' = [log EXCEPT ![d] = @ \cup {e}]
  /\ merge' = [merge EXCEPT ![d] = Merged(@, {e})]
  /\ mark' = [mark EXCEPT ![d] = FoldedMark(mark[d], ahead[d] \cup {SeqId(e)})]
  /\ ahead' = [ahead EXCEPT ![d] =
                 Above(ahead[d] \cup {SeqId(e)}, FoldedMark(mark[d], ahead[d] \cup {SeqId(e)}))]
  /\ localSeq' = [localSeq EXCEPT ![d] = @ + 1]
  /\ clock' = [clock EXCEPT ![d] = stamp]
  /\ \/ peerRows' = [peerRows EXCEPT ![d] = PendingStored(@, peerMarks[d], dirty[d])]
     \/ peerRows' = peerRows
  /\ dirty' = [dirty EXCEPT ![d] = {}] \/ dirty' = dirty
  /\ UNCHANGED <<peerMarks, stale, docs, aged>>

\* That is what writeChanges does, and its entry is one.
LEMMA WriteWrites ==
  ASSUME IInv, NEW d \in Devices, NEW rec \in Records,
         NEW field \in Fields \cup {TombField}, NEW val \in 0 .. MaxInt,
         NEW now \in 0 .. MaxInt, Write(d, rec, field, val, now)
  PROVE  \E e \in Entry, stamp \in Stamp : WriteOf(d, e, stamp)
<1> DEFINE worth == IF field = TombField THEN 0 ELSE ComponentFor(d, rec, field, val)
           EntryAt(stamp) ==
             [rec |-> rec, field |-> field, val |-> worth, l |-> stamp.l, c |-> stamp.c,
              dev |-> d, seq |-> localSeq[d] + 1]
<1>1. PICK stamp \in Tick(clock[d], now), second \in SecondWrite :
        LET e == EntryAt(stamp)
            seen == ahead[d] \cup {SeqId(e)}
            marks == FoldedMark(mark[d], seen)
        IN /\ emitted' = emitted \cup {e}
           /\ accepted' = [accepted EXCEPT ![d] = @ \cup {e}]
           /\ log' = [log EXCEPT ![d] = @ \cup {e}]
           /\ merge' = [merge EXCEPT ![d] = Merged(@, {e})]
           /\ mark' = [mark EXCEPT ![d] = marks]
           /\ ahead' = [ahead EXCEPT ![d] = Above(seen, marks)]
           /\ localSeq' = [localSeq EXCEPT ![d] = @ + 1]
           /\ clock' = [clock EXCEPT ![d] = stamp]
           /\ IF second
              THEN /\ peerRows' = [peerRows EXCEPT
                                     ![d] = PendingStored(@, peerMarks[d], dirty[d])]
                   /\ dirty' = [dirty EXCEPT ![d] = {}]
              ELSE UNCHANGED <<peerRows, dirty>>
  BY DEF Write
<1>2. clock[d] \in Stamp /\ localSeq[d] \in Nat
  BY DEF IInv, Shape
<1>3. stamp \in Stamp /\ StampLeq(clock[d], stamp) /\ ~StampLeq(stamp, clock[d])
  BY <1>2, TickFacts
<1>4. worth \in 0 .. MaxInt /\ (field = TombField => worth = 0)
  <2>1. merge[d].live \in SUBSET Entry /\ IsFiniteSet(merge[d].live)
    <3>1. merge[d].live \subseteq emitted
      BY DEF IInv, Sound, SoundAt, Shape, Live
    <3> QED
      BY <3>1, FS_Subset DEF IInv, Shape
  <2>2. CASE field = TombField
    BY <2>2, ConstantsAssumption
  <2>3. CASE field # TombField
    <3>1. field \in Fields
      BY <2>3
    <3> QED
      BY <2>1, <2>3, <3>1, ComponentFits
  <2> QED
    BY <2>2, <2>3
<1> DEFINE e == EntryAt(stamp)
<1>5. e \in Entry
  <2>1. stamp.l \in 0 .. MaxInt /\ stamp.c \in 0 .. MaxInt /\ localSeq[d] + 1 \in Nat
    BY <1>2, <1>3 DEF Stamp
  <2> HIDE DEF worth
  <2>2. CASE field = TombField
    <3>1. worth \in {0} /\ field \in {TombField}
      BY <1>4, <2>2
    <3> QED
      BY <2>1, <3>1 DEF Entry, TombEntry
  <2>3. CASE field \in Fields
    BY <1>4, <2>1, <2>3 DEF Entry, FieldEntry
  <2> QED
    BY <2>2, <2>3
<1>6. e.dev = d /\ e.seq = localSeq[d] + 1 /\ e.l = stamp.l /\ e.c = stamp.c
  OBVIOUS
<1>7. UNCHANGED <<peerMarks, stale, docs, aged>>
  BY DEF Write
<1> HIDE DEF e
<1>8. WriteOf(d, e, stamp)
  BY <1>1, <1>3, <1>6, <1>7 DEF WriteOf, e
<1> QED
  BY <1>3, <1>5, <1>8

\* The new entry is newer than everything its device knew, its ordinal is
\* nobody's, and the cursor runs on over good claims.
LEMMA WriteBasics ==
  ASSUME IInv, NEW d \in Devices, NEW e \in Entry, NEW stamp \in Stamp, WriteOf(d, e, stamp)
  PROVE  /\ e \notin emitted /\ emitted' \in SUBSET Entry /\ IsFiniteSet(emitted')
         /\ \A k \in accepted[d] : Less(k, e) /\ StampLeq(k, stamp)
         /\ localSeq' \in [Devices -> Nat]
         /\ \A s \in Devices : localSeq[s] <= localSeq'[s]
         /\ Ordered(emitted')
         /\ \A x \in emitted' : x.seq \in 1 .. localSeq'[x.dev]
         /\ \A p \in ahead[d] \cup {SeqId(e)} :
              p \in Positions /\ Claimable(emitted', aged', localSeq', accepted'[d], p)
<1>1. /\ localSeq \in [Devices -> Nat] /\ clock[d] \in Stamp /\ emitted \subseteq Entry
      /\ IsFiniteSet(emitted) /\ accepted[d] \subseteq emitted
      /\ ahead[d] \subseteq Positions
  BY DEF IInv, Shape
<1>2. /\ \A x \in emitted : x.seq \in 1 .. localSeq[x.dev] /\ x \in accepted[x.dev]
      /\ \A k \in accepted[d] : StampLeq(k, clock[d])
      /\ Ordered(emitted)
  BY DEF IInv, Histories, ClockCoversAccepted, SeqsIdentify, Ordered
<1>3. /\ e.dev = d /\ e.seq = localSeq[d] + 1 /\ e.l = stamp.l /\ e.c = stamp.c
      /\ StampLeq(clock[d], stamp) /\ ~StampLeq(stamp, clock[d])
      /\ emitted' = emitted \cup {e}
      /\ localSeq' = [localSeq EXCEPT ![d] = localSeq[d] + 1]
  BY DEF WriteOf
<1>4. e \notin emitted
  BY <1>1, <1>2, <1>3
<1>5. emitted' \in SUBSET Entry /\ IsFiniteSet(emitted')
  BY <1>1, <1>3, FS_AddElement
<1>6. ASSUME NEW k \in accepted[d]
      PROVE  Less(k, e) /\ StampLeq(k, stamp)
  <2>1. k.l \in Nat /\ k.c \in Nat /\ stamp.l \in Nat /\ stamp.c \in Nat
        /\ clock[d].l \in Nat /\ clock[d].c \in Nat
    BY <1>1, EntryFacts DEF Stamp
  <2>2. StampLeq(k, clock[d])
    BY <1>2
  <2> QED
    BY <1>3, <2>1, <2>2 DEF StampLeq, Less
<1>7. /\ localSeq' \in [Devices -> Nat] /\ localSeq'[d] = localSeq[d] + 1
      /\ \A s \in Devices : s # d => localSeq'[s] = localSeq[s]
      /\ \A s \in Devices : localSeq[s] <= localSeq'[s]
  BY <1>1, <1>3
<1>8. \A x \in emitted' : x.seq \in 1 .. localSeq'[x.dev]
  <2>1. ASSUME NEW x \in emitted
        PROVE  x.seq \in 1 .. localSeq'[x.dev]
    <3>1. x.dev \in Devices
      BY <1>1, EntryFacts
    <3> QED
      BY <1>1, <1>2, <1>7, <3>1
  <2>2. e.seq \in 1 .. localSeq'[e.dev]
    BY <1>1, <1>3, <1>7
  <2> QED
    BY <1>3, <2>1, <2>2
<1>9. Ordered(emitted')
  <2>1. ASSUME NEW a \in emitted, a.dev = d
        PROVE  a.seq < e.seq /\ Less(a, e)
    BY <1>1, <1>2, <1>3, <1>6, <2>1
  <2>2. ASSUME NEW a \in emitted', NEW b \in emitted', a.dev = b.dev, a.seq <= b.seq
        PROVE  a = b \/ (a.seq < b.seq /\ Less(a, b))
    <3>1. CASE a \in emitted /\ b \in emitted
      BY <1>2, <2>2, <3>1 DEF Ordered
    <3>2. CASE a \in emitted /\ b = e
      BY <1>3, <2>1, <2>2, <3>2
    <3>3. CASE a = e /\ b \in emitted
      <4>1. b.seq < a.seq /\ b.seq \in Nat /\ a.seq \in Nat
        BY <1>1, <1>2, <1>3, <2>1, <2>2, <3>3
      <4> QED
        BY <2>2, <4>1
    <3> QED
      BY <1>3, <3>1, <3>2, <3>3
  <2> QED
    BY <2>2 DEF Ordered
<1>10. e \in accepted'[d] /\ accepted[d] \subseteq accepted'[d]
  BY DEF WriteOf, IInv, Shape
<1>11. ASSUME NEW p \in ahead[d]
       PROVE  p \in Positions /\ Claimable(emitted', aged', localSeq', accepted'[d], p)
  <2>1. Claimable(emitted, aged, localSeq, accepted[d], p)
    BY DEF IInv, Honest, Claims
  <2>2. aged' = aged
    BY DEF WriteOf
  <2>3. \A x \in emitted' \ emitted : x.seq > localSeq[x.dev]
    BY <1>1, <1>3
  <2>4. emitted \subseteq emitted'
    BY <1>3
  <2> QED
    BY <1>1, <1>5, <1>7, <1>10, <2>1, <2>2, <2>3, <2>4, ClaimableGrows
<1>12. SeqId(e) \in Positions /\ Claimable(emitted', aged', localSeq', accepted'[d], SeqId(e))
  <2>1. SeqId(e) \in Positions
    BY <1>1, <1>3 DEF SeqId, Positions
  <2> QED
    BY <1>3, <1>5, <1>8, <1>9, <1>10, <2>1, HeldIsClaimable
<1> QED
  BY <1>4, <1>5, <1>6, <1>7, <1>8, <1>9, <1>11, <1>12

\* A write keeps the shape of the state.
LEMMA WriteShape ==
  ASSUME IInv, NEW d \in Devices, NEW e \in Entry, NEW stamp \in Stamp, WriteOf(d, e, stamp)
  PROVE  Shape'
<1> USE DEF IInv, Shape, WriteOf
<1>1. emitted' \subseteq Entry /\ IsFiniteSet(emitted')
  BY WriteBasics
<1>2. accepted' \in [Devices -> SUBSET emitted'] /\ log' \in [Devices -> SUBSET emitted']
  OBVIOUS
<1>3. merge' = [x \in Devices |-> merge'[x]]
  OBVIOUS
<1> DEFINE seen == ahead[d] \cup {SeqId(e)}
           marks == FoldedMark(mark[d], seen)
<1>4. marks \in [Devices -> Nat]
  <2>1. \A p \in seen : p \in Positions
                        /\ Claimable(emitted', aged', localSeq', accepted'[d], p)
    BY WriteBasics
  <2>2. localSeq' \in [Devices -> Nat] /\ mark[d] \in [Devices -> Nat]
    BY WriteBasics
  <2> HIDE DEF seen, IInv, Shape, WriteOf
  <2> QED
    BY <2>1, <2>2, FoldedClaims
<1>5. Above(seen, marks) \subseteq Positions
  <2>1. \A p \in seen : p \in Positions
    BY WriteBasics
  <2> HIDE DEF marks, seen
  <2> QED
    BY <2>1 DEF Above
<1>6. mark' \in [Devices -> [Devices -> Nat]] /\ ahead' \in [Devices -> SUBSET Positions]
  <2>1. mark' = [mark EXCEPT ![d] = marks] /\ ahead' = [ahead EXCEPT ![d] = Above(seen, marks)]
    OBVIOUS
  <2>2. mark \in [Devices -> [Devices -> Nat]] /\ ahead \in [Devices -> SUBSET Positions]
    OBVIOUS
  <2> HIDE DEF marks, seen, IInv, Shape, WriteOf
  <2> QED
    BY <1>4, <1>5, <2>1, <2>2
<1>7. localSeq' \in [Devices -> Nat] /\ clock' \in [Devices -> Stamp]
  OBVIOUS
<1>8. peerMarks' = peerMarks /\ stale' = stale /\ docs' = docs
  OBVIOUS
<1>9. peerRows' = [x \in Devices |-> peerRows'[x]] /\ \A x \in Devices : IsClaims(peerRows'[x])
  <2>1. IsClaims(PendingStored(peerRows[d], peerMarks[d], dirty[d]))
    <3>1. StoredWell(peerRows[d], peerMarks[d], dirty[d])
      BY StoredClaims
    <3> QED
      BY <3>1 DEF StoredWell
  <2> HIDE DEF marks, seen
  <2> QED
    BY <2>1
<1>10. dirty' \in [Devices -> SUBSET Devices]
  OBVIOUS
<1>11. \A pkt \in docs' : ShapeDoc(pkt)'
  BY DEF ShapeDoc
<1>12. /\ peerMarks' = [x \in Devices |-> peerMarks'[x]]
       /\ \A x \in Devices : IsClaims(peerMarks'[x])
       /\ stale' \in [Devices -> SUBSET Devices]
  BY <1>8
<1> HIDE DEF IInv, Shape, WriteOf
<1> QED
  BY <1>1, <1>2, <1>3, <1>6, <1>7, <1>9, <1>10, <1>11, <1>12 DEF Shape

\* The new entry is the newest of its device, and its clock stays above it.
LEMMA WriteHistories ==
  ASSUME IInv, NEW d \in Devices, NEW e \in Entry, NEW stamp \in Stamp, WriteOf(d, e, stamp)
  PROVE  Histories'
<1>1. /\ emitted' = emitted \cup {e} /\ e.dev = d
      /\ accepted' = [accepted EXCEPT ![d] = accepted[d] \cup {e}]
      /\ log' = [log EXCEPT ![d] = log[d] \cup {e}]
      /\ localSeq' = [localSeq EXCEPT ![d] = localSeq[d] + 1]
      /\ clock' = [clock EXCEPT ![d] = stamp]
      /\ e.seq = localSeq[d] + 1 /\ e.l = stamp.l /\ e.c = stamp.c
  BY DEF WriteOf
<1>2. /\ accepted \in [Devices -> SUBSET emitted] /\ log \in [Devices -> SUBSET emitted]
      /\ localSeq \in [Devices -> Nat] /\ clock \in [Devices -> Stamp]
  BY DEF IInv, Shape
<1>3. SeqsIdentify'
  BY WriteBasics DEF SeqsIdentify, Ordered
<1>4. \A x \in emitted' : x.seq \in 1 .. localSeq'[x.dev]
  BY WriteBasics
<1>5. \A x \in emitted' : x \in accepted'[x.dev]
  <2>1. \A x \in emitted : x.dev \in Devices /\ x \in accepted[x.dev]
    BY EntryFacts DEF IInv, Histories, Shape
  <2> QED
    BY <1>1, <1>2, <2>1
<1>6. \A x \in Devices :
        localSeq'[x] = 0 \/ \E y \in log'[x] : y.dev = x /\ y.seq = localSeq'[x]
  <2>1. \A x \in Devices :
          localSeq[x] = 0 \/ \E y \in log[x] : y.dev = x /\ y.seq = localSeq[x]
    BY DEF IInv, Histories
  <2>2. \E y \in log'[d] : y.dev = d /\ y.seq = localSeq'[d]
    BY <1>1, <1>2
  <2>3. ASSUME NEW x \in Devices, x # d
        PROVE  localSeq'[x] = localSeq[x] /\ log'[x] = log[x]
    BY <1>1, <1>2, <2>3
  <2> QED
    BY <2>1, <2>2, <2>3
<1>7. ClockCoversAccepted'
  <2>1. \A k \in accepted[d] : StampLeq(k, stamp)
    BY WriteBasics
  <2>2. StampLeq(e, stamp)
    <3>1. stamp.l \in Nat /\ stamp.c \in Nat
      BY DEF Stamp
    <3> QED
      BY <1>1, <3>1 DEF StampLeq
  <2>3. \A x \in Devices : \A k \in accepted[x] : StampLeq(k, clock[x])
    BY DEF IInv, Histories, ClockCoversAccepted
  <2>4. ASSUME NEW x \in Devices, NEW k \in accepted'[x]
        PROVE  StampLeq(k, clock'[x])
    BY <1>1, <1>2, <2>1, <2>2, <2>3
  <2> QED
    BY <2>4 DEF ClockCoversAccepted
<1> QED
  BY <1>3, <1>4, <1>5, <1>6, <1>7 DEF Histories

\* The entry is merged and logged together.
LEMMA WriteSound ==
  ASSUME IInv, NEW d \in Devices, NEW e \in Entry, NEW stamp \in Stamp, WriteOf(d, e, stamp)
  PROVE  Sound'
<1>1. /\ accepted' = [accepted EXCEPT ![d] = accepted[d] \cup {e}]
      /\ log' = [log EXCEPT ![d] = log[d] \cup {e}]
      /\ merge' = [merge EXCEPT ![d] = Merged(merge[d], {e})]
      /\ emitted' = emitted \cup {e}
  BY DEF WriteOf
<1>2. /\ accepted \in [Devices -> SUBSET emitted] /\ log \in [Devices -> SUBSET emitted]
      /\ merge = [x \in Devices |-> merge[x]] /\ emitted \subseteq Entry
  BY DEF IInv, Shape
<1>3. /\ log[d] \subseteq accepted[d] /\ Live(merge[d]) \subseteq log[d]
      /\ merge[d].rows = {} /\ DeviceSound(merge[d], accepted[d])
  BY DEF IInv, Sound, SoundAt
<1>4. /\ accepted[d] \in SUBSET Entry /\ {e} \in SUBSET Entry /\ IsFiniteSet({e})
      /\ KeyDistinct(accepted[d] \cup {e}) /\ {e} \cap merge[d].live = {}
  <2>1. KeyDistinct(emitted') /\ e \notin emitted
    BY WriteBasics, OrderedIdentifies
  <2>2. accepted[d] \cup {e} \subseteq emitted' /\ merge[d].live \subseteq emitted
    BY <1>1, <1>2, <1>3 DEF Live
  <2> QED
    BY <1>2, <2>1, <2>2, FS_Singleton DEF KeyDistinct
<1> DEFINE m == Merged(merge[d], {e})
<1>5. /\ DeviceSound(m, accepted[d] \cup {e}) /\ m.rows = {}
      /\ Live(m) \subseteq Live(merge[d]) \cup {e}
  BY <1>3, <1>4, MergedSound
<1> HIDE DEF m
<1>6. /\ accepted'[d] = accepted[d] \cup {e} /\ log'[d] = log[d] \cup {e} /\ merge'[d] = m
  BY <1>1, <1>2 DEF m
<1>7. SoundAt(d)'
  <2>1. log'[d] \subseteq accepted'[d] /\ Live(merge'[d]) \subseteq log'[d]
    BY <1>3, <1>5, <1>6
  <2> QED
    BY <1>5, <1>6, <2>1 DEF SoundAt
<1>8. ASSUME NEW x \in Devices, x # d
      PROVE  SoundAt(x)'
  <2>1. accepted'[x] = accepted[x] /\ log'[x] = log[x] /\ merge'[x] = merge[x]
    BY <1>1, <1>2, <1>8
  <2>2. SoundAt(x)
    BY DEF IInv, Sound
  <2> QED
    BY <2>1, <2>2 DEF SoundAt
<1> QED
  BY <1>7, <1>8 DEF Sound

\* The writer holds what its cursor comes to claim.
LEMMA WriteHonest ==
  ASSUME IInv, NEW d \in Devices, NEW e \in Entry, NEW stamp \in Stamp, WriteOf(d, e, stamp)
  PROVE  Honest'
<1> DEFINE seen == ahead[d] \cup {SeqId(e)}
           marks == FoldedMark(mark[d], seen)
<1>1. /\ mark' = [mark EXCEPT ![d] = marks]
      /\ ahead' = [ahead EXCEPT ![d] = Above(seen, marks)]
      /\ emitted' = emitted \cup {e} /\ e.dev = d /\ e.seq = localSeq[d] + 1
      /\ accepted' = [accepted EXCEPT ![d] = accepted[d] \cup {e}]
      /\ aged' = aged /\ docs' = docs
  BY DEF WriteOf
<1>2. /\ mark \in [Devices -> [Devices -> Nat]] /\ ahead \in [Devices -> SUBSET Positions]
      /\ accepted \in [Devices -> SUBSET emitted] /\ localSeq \in [Devices -> Nat]
  BY DEF IInv, Shape
<1>3. \A p \in seen : p \in Positions
                      /\ Claimable(emitted', aged', localSeq', accepted'[d], p)
  BY WriteBasics
<1>4. \A s \in Devices : \A n \in mark[d][s] + 1 .. marks[s] :
        Claimable(emitted', aged', localSeq', accepted'[d], <<s, n>>)
  <2>1. localSeq' \in [Devices -> Nat] /\ mark[d] \in [Devices -> Nat]
    BY <1>2, WriteBasics
  <2> HIDE DEF seen
  <2> QED
    BY <1>3, <2>1, FoldedClaims
<1> HIDE DEF marks, seen
<1>5. ASSUME NEW x \in Devices, NEW s \in Devices, NEW n \in mark[x][s] + 1 .. mark'[x][s]
      PROVE  Claimable(emitted', aged', localSeq', accepted'[x], <<s, n>>)
  <2>1. CASE x = d
    BY <1>1, <1>2, <1>4, <2>1
  <2>2. CASE x # d
    <3>1. mark'[x][s] = mark[x][s] /\ mark[x][s] \in Nat
      BY <1>1, <1>2, <2>2
    <3> QED
      BY <3>1
  <2> QED
    BY <2>1, <2>2
<1>6. ASSUME NEW x \in Devices, NEW p \in ahead'[x]
      PROVE  p \in ahead[x] \/ Claimable(emitted', aged', localSeq', accepted'[x], p)
  <2>1. CASE x = d
    <3>1. p \in seen
      BY <1>1, <1>2, <2>1 DEF Above
    <3> QED
      BY <1>3, <2>1, <3>1
  <2>2. CASE x # d
    BY <1>1, <1>2, <2>2
  <2> QED
    BY <2>1, <2>2
<1>7. /\ emitted \subseteq emitted' /\ aged \subseteq aged'
      /\ \A s \in Devices : localSeq[s] <= localSeq'[s]
      /\ \A x \in emitted' \ emitted : x.seq > localSeq[x.dev]
      /\ \A x \in Devices : accepted[x] \subseteq accepted'[x]
      /\ docs' \ docs = {}
  BY <1>1, <1>2, WriteBasics
<1>8. Shape /\ Shape' /\ Honest
  BY WriteShape DEF IInv
<1> QED
  BY <1>5, <1>6, <1>7, <1>8, HonestStep

\* The writer only adds rows for senders it has heard of.
LEMMA WriteRemembered ==
  ASSUME IInv, NEW d \in Devices, NEW e \in Entry, NEW stamp \in Stamp, WriteOf(d, e, stamp)
  PROVE  Remembered'
<1> DEFINE seen == ahead[d] \cup {SeqId(e)}
           marks == FoldedMark(mark[d], seen)
<1>1. /\ mark' = [mark EXCEPT ![d] = marks]
      /\ peerMarks' = peerMarks /\ stale' = stale /\ docs' = docs
      /\ \/ peerRows' = [peerRows EXCEPT ![d] = PendingStored(peerRows[d], peerMarks[d], dirty[d])]
         \/ peerRows' = peerRows
  BY DEF WriteOf
<1>2. /\ mark \in [Devices -> [Devices -> Nat]] /\ peerRows = [x \in Devices |-> peerRows[x]]
      /\ \A x \in Devices : IsClaims(peerMarks[x]) /\ IsClaims(peerRows[x])
      /\ \A pkt \in docs : pkt.doc.from \in Devices /\ pkt.doc.cursor \in [Devices -> Nat]
  BY DEF IInv, Shape, ShapeDoc
<1>3. \A s \in Devices : marks[s] >= mark[d][s] /\ marks[s] \in Nat
  <2>1. localSeq' \in [Devices -> Nat] /\ mark[d] \in [Devices -> Nat]
    BY <1>2, WriteBasics
  <2>2. \A p \in seen : p \in Positions
                        /\ Claimable(emitted', aged', localSeq', accepted'[d], p)
    BY WriteBasics
  <2> HIDE DEF seen
  <2>3. marks \in [Devices -> Nat] /\ \A s \in Devices : marks[s] >= mark[d][s]
    BY <2>1, <2>2, FoldedClaims
  <2> HIDE DEF marks
  <2> QED
    BY <2>3
<1> HIDE DEF marks
<1>4. \A x, s \in Devices : mark'[x][s] \in Nat /\ mark[x][s] <= mark'[x][s]
  BY <1>1, <1>2, <1>3
<1>8. ASSUME NEW x \in Devices
      PROVE  /\ DOMAIN peerRows'[x] \subseteq DOMAIN peerMarks[x] \cup stale[x]
             /\ stale[x] \subseteq DOMAIN peerRows'[x]
  <2>1. /\ DOMAIN peerRows[x] \subseteq DOMAIN peerMarks[x] \cup stale[x]
        /\ stale[x] \subseteq DOMAIN peerRows[x]
    BY DEF IInv, Remembered
  <2>2. CASE peerRows'[x] = peerRows[x]
    BY <2>1, <2>2
  <2>3. CASE peerRows'[x] = PendingStored(peerRows[x], peerMarks[x], dirty[x])
    <3>1. IsClaims(peerRows[x]) /\ IsClaims(peerMarks[x])
      BY <1>2
    <3>2. DOMAIN PendingStored(peerRows[x], peerMarks[x], dirty[x])
            = DOMAIN peerRows[x] \cup (dirty[x] \cap DOMAIN peerMarks[x])
      <4>1. StoredWell(peerRows[x], peerMarks[x], dirty[x])
        BY <3>1, StoredClaims
      <4> QED
        BY <4>1 DEF StoredWell
    <3> QED
      BY <2>1, <2>3, <3>2
  <2>4. peerRows'[x] = peerRows[x]
        \/ peerRows'[x] = PendingStored(peerRows[x], peerMarks[x], dirty[x])
    BY <1>1, <1>2
  <2> QED
    BY <2>2, <2>3, <2>4
<1>9. Shape /\ Remembered
  BY DEF IInv
<1> QED
  BY <1>1, <1>4, <1>8, <1>9, RememberedStep

-----------------------------------------------------------------------------
(* Steps that leave the logs alone: a failed write, a document sent or     *)
(* lost, a play event past retention.                                      *)

\* Only the clock moves, and it moves on.
LEMMA WriteFailsKeeps ==
  ASSUME IInv, NEW d \in Devices, NEW now \in 0 .. MaxInt, WriteFails(d, now)
  PROVE  IInv'
<1>1. PICK stamp \in Tick(clock[d], now) : clock' = [clock EXCEPT ![d] = stamp]
  BY DEF WriteFails
<1>2. /\ emitted' = emitted /\ accepted' = accepted /\ log' = log /\ merge' = merge
      /\ mark' = mark /\ ahead' = ahead /\ localSeq' = localSeq /\ peerMarks' = peerMarks
      /\ peerRows' = peerRows /\ stale' = stale /\ dirty' = dirty /\ docs' = docs /\ aged' = aged
  BY DEF WriteFails
<1>3. clock \in [Devices -> Stamp]
  BY DEF IInv, Shape
<1>4. stamp \in Stamp /\ StampLeq(clock[d], stamp)
  BY <1>3, TickFacts
<1>5. clock' \in [Devices -> Stamp]
  BY <1>1, <1>3, <1>4
<1>6. Shape'
  BY <1>2, <1>5 DEF IInv, Shape, ShapeDoc
<1>7. \A x \in Devices : \A e \in accepted[x] : StampLeq(e, clock'[x])
  <2>1. ASSUME NEW x \in Devices, NEW e \in accepted[x]
        PROVE  StampLeq(e, clock'[x])
    <3>1. StampLeq(e, clock[x])
      BY DEF IInv, Histories, ClockCoversAccepted
    <3>2. e \in Entry
      BY DEF IInv, Shape
    <3>3. e.l \in Nat /\ e.c \in Nat /\ clock[d].l \in Nat /\ clock[d].c \in Nat
          /\ stamp.l \in Nat /\ stamp.c \in Nat
      BY <1>3, <1>4, <3>2, EntryFacts DEF Stamp
    <3>4. clock'[x] = IF x = d THEN stamp ELSE clock[x]
      BY <1>1, <1>3
    <3>5. StampLeq(e, clock[d]) => StampLeq(e, stamp)
      BY <1>4, <3>3, StampOrder
    <3> QED
      BY <3>1, <3>4, <3>5
  <2> QED
    BY <2>1
<1>8. Histories'
  BY <1>2, <1>7 DEF IInv, Histories, SeqsIdentify, ClockCoversAccepted
<1>9. Sound'
  BY <1>2 DEF IInv, Sound, SoundAt
<1>10. Honest' /\ Remembered'
  BY <1>2 DEF IInv, Honest, Claims, Remembered
<1> QED
  BY <1>6, <1>8, <1>9, <1>10 DEF IInv

\* A change that nothing supersedes is still in the log of whoever took it in.
LEMMA EssentialIsLogged ==
  ASSUME IInv, NEW d \in Devices, NEW e \in accepted[d], Essential(emitted, aged, e)
  PROVE  e \in log[d]
<1>1. /\ accepted[d] \in SUBSET Entry /\ KeyDistinct(accepted[d])
      /\ accepted[d] \subseteq emitted
  <2>1. emitted \in SUBSET Entry /\ Ordered(emitted) /\ accepted[d] \subseteq emitted
    BY DEF IInv, Shape, Histories, SeqsIdentify, Ordered
  <2> QED
    BY <2>1, OrderedIdentifies DEF KeyDistinct
<1>2. \A w \in accepted[d] : ~Supersedes(w, e)
  BY <1>1 DEF Essential
<1>3. DeviceSound(merge[d], accepted[d]) /\ Live(merge[d]) \subseteq log[d]
  BY DEF IInv, Sound, SoundAt
<1> QED
  BY <1>1, <1>2, <1>3, UnsupersededIsLive

\* A document skips no seq that anybody needs.
LEMMA SkippedIsClaimable ==
  ASSUME IInv, NEW a \in Devices, NEW since \in [Devices -> Nat], NEW page,
         NEW p \in Skipped(a, since, page)
  PROVE  p \in Positions /\ Claims({}, p)
<1> DEFINE shippedMax(s) == Max({0} \cup {e.seq : e \in {x \in page : x.dev = s}})
           Passed(s) == {i \in since[s] + 1 .. shippedMax(s) :
                \/ i <= mark[a][s] /\ <<s, i>> \notin {SeqId(e) : e \in log[a]}
                \/ \E e \in log[a] : SeqId(e) = <<s, i>> /\ Retired(e)}
<1>0. PICK s \in Devices : \E n \in Passed(s) : p = <<s, n>>
  <2>1. Skipped(a, since, page) = UNION {{<<x, n>> : n \in Passed(x)} : x \in Devices}
    BY DEF Skipped
  <2> HIDE DEF Passed
  <2> QED
    BY <2>1
<1>1. PICK n \in Passed(s) : p = <<s, n>>
  BY <1>0
<1>2. n \in Nat /\ n >= 1
  <2>1. since[s] \in Nat
    OBVIOUS
  <2>2. n \in since[s] + 1 .. shippedMax(s)
    OBVIOUS
  <2> HIDE DEF shippedMax, Passed
  <2> QED
    BY <2>1, <2>2
<1>3. \/ n <= mark[a][s] /\ <<s, n>> \notin {SeqId(e) : e \in log[a]}
      \/ \E e \in log[a] : SeqId(e) = <<s, n>> /\ Retired(e)
  OBVIOUS
<1> HIDE DEF Passed, shippedMax
<1>4. /\ emitted \in SUBSET Entry /\ Ordered(emitted)
      /\ accepted[a] \subseteq emitted /\ log[a] \subseteq emitted /\ mark[a][s] \in Nat
      /\ \A e \in emitted : e.seq \in 1 .. localSeq[e.dev]
  BY DEF IInv, Shape, Histories, SeqsIdentify, Ordered
<1>5. CASE n <= mark[a][s] /\ <<s, n>> \notin {SeqId(e) : e \in log[a]}
  <2>1. Claimable(emitted, aged, localSeq, accepted[a], <<s, n>>)
    BY <1>2, <1>4, <1>5 DEF IInv, Honest, Claims
  <2>2. \A e \in emitted : SeqId(e) = <<s, n>> => ~Essential(emitted, aged, e)
    <3>1. ASSUME NEW e \in emitted, SeqId(e) = <<s, n>>, Essential(emitted, aged, e)
          PROVE  FALSE
      <4>1. e \in accepted[a]
        BY <2>1, <3>1 DEF Claimable
      <4>2. e \in log[a]
        BY <3>1, <4>1, EssentialIsLogged
      <4> QED
        BY <1>5, <3>1, <4>2
    <3> QED
      BY <3>1
  <2> QED
    BY <1>1, <1>2, <2>1, <2>2 DEF Claims, Claimable, Positions
<1>6. CASE \E e \in log[a] : SeqId(e) = <<s, n>> /\ Retired(e)
  <2>1. PICK e \in log[a] : SeqId(e) = <<s, n>> /\ Retired(e)
    BY <1>6
  <2>2. e \in emitted /\ ~Essential(emitted, aged, e)
    BY <1>4, <2>1 DEF Essential, Retired
  <2>3. \A x \in emitted : SeqId(x) = <<s, n>> => x = e
    BY <1>4, <2>1, <2>2, OrderedIdentifies
  <2>4. n \in 1 .. localSeq[s]
    BY <1>4, <2>1, <2>2 DEF SeqId
  <2> QED
    BY <1>1, <1>2, <2>2, <2>3, <2>4 DEF Claims, Claimable, Positions
<1> QED
  BY <1>3, <1>5, <1>6

\* A document sent keeps the invariant.
LEMMA ShipKeeps ==
  ASSUME IInv, NEW a \in Devices, NEW b \in Devices, NEW since \in [Devices -> Nat],
         NEW auth, Ship(Document(a, since), b, auth)
  PROVE  IInv'
<1> DEFINE doc == Document(a, since)
           pkt == [doc |-> doc, to |-> b, auth |-> auth]
<1>1. /\ docs' = docs \cup {pkt}
      /\ emitted' = emitted /\ accepted' = accepted /\ log' = log /\ merge' = merge
      /\ mark' = mark /\ ahead' = ahead /\ localSeq' = localSeq /\ clock' = clock
      /\ peerMarks' = peerMarks /\ peerRows' = peerRows /\ stale' = stale /\ dirty' = dirty
      /\ aged' = aged
  BY DEF Ship
<1>2. /\ doc.from = a /\ doc.cursor = mark[a] /\ doc.entries = Page(a, since)
      /\ doc.skipped = Skipped(a, since, Page(a, since))
      /\ pkt.doc = doc /\ pkt.to = b
  BY DEF Document
<1> HIDE DEF doc
<1>3. doc.entries \subseteq emitted
  BY <1>2 DEF Page, Window, IInv, Shape
<1>4. \A p \in doc.skipped : p \in Positions /\ Claims({}, p)
  BY <1>2, SkippedIsClaimable
<1>5. ShapeDoc(pkt)
  <2>1. mark[a] \in [Devices -> Nat]
    BY DEF IInv, Shape
  <2> QED
    BY <1>2, <1>3, <1>4, <2>1 DEF ShapeDoc
<1> HIDE DEF pkt
<1>6. Shape'
  BY <1>1, <1>5 DEF IInv, Shape, ShapeDoc
<1>7. Histories' /\ Sound'
  BY <1>1 DEF IInv, Histories, SeqsIdentify, ClockCoversAccepted, Sound, SoundAt
<1>8. Honest'
  BY <1>1, <1>2, <1>4 DEF IInv, Honest, Claims
<1>9. Remembered'
  <2>1. \A s \in Devices : pkt.doc.cursor[s] <= mark[pkt.doc.from][s]
    <3>1. \A s \in Devices : mark[a][s] \in Nat
      BY DEF IInv, Shape
    <3> QED
      BY <1>2, <3>1
  <2> QED
    BY <1>1, <2>1 DEF IInv, Remembered
<1> QED
  BY <1>6, <1>7, <1>8, <1>9 DEF IInv

\* So does a document lost.
LEMMA LoseKeeps ==
  ASSUME IInv, NEW pkt, Lose(pkt)
  PROVE  IInv'
<1>1. /\ docs' \subseteq docs
      /\ emitted' = emitted /\ accepted' = accepted /\ log' = log /\ merge' = merge
      /\ mark' = mark /\ ahead' = ahead /\ localSeq' = localSeq /\ clock' = clock
      /\ peerMarks' = peerMarks /\ peerRows' = peerRows /\ stale' = stale /\ dirty' = dirty
      /\ aged' = aged
  BY DEF Lose
<1>2. Shape'
  BY <1>1 DEF IInv, Shape, ShapeDoc
<1>3. Histories' /\ Sound'
  BY <1>1 DEF IInv, Histories, SeqsIdentify, ClockCoversAccepted, Sound, SoundAt
<1>4. Honest'
  BY <1>1 DEF IInv, Honest, Claims
<1>5. Remembered'
  BY <1>1 DEF IInv, Remembered
<1> QED
  BY <1>2, <1>3, <1>4, <1>5 DEF IInv

\* What retention lets go of, nobody has to hold any more.
LEMMA AgeKeeps ==
  ASSUME IInv, NEW rec, Age(rec)
  PROVE  IInv'
<1>1. /\ aged' = aged \cup {rec}
      /\ emitted' = emitted /\ accepted' = accepted /\ log' = log /\ merge' = merge
      /\ mark' = mark /\ ahead' = ahead /\ localSeq' = localSeq /\ clock' = clock
      /\ peerMarks' = peerMarks /\ peerRows' = peerRows /\ stale' = stale /\ dirty' = dirty
      /\ docs' = docs
  BY DEF Age
<1>2. Shape /\ Honest /\ Shape'
  BY <1>1 DEF IInv, Shape, ShapeDoc
<1>3. Histories' /\ Sound' /\ Remembered'
  BY <1>1 DEF IInv, Histories, SeqsIdentify, ClockCoversAccepted, Sound, SoundAt, Remembered
<1>4. Honest'
  <2>1. /\ \A s \in Devices : localSeq[s] <= localSeq'[s]
        /\ \A d, s \in Devices : mark[d][s] + 1 .. mark'[d][s] = {}
    <3>1. \A s \in Devices : localSeq[s] \in Nat /\ \A d \in Devices : mark[d][s] \in Nat
      BY <1>2 DEF Shape
    <3> QED
      BY <1>1, <3>1
  <2>2. /\ emitted \subseteq emitted' /\ aged \subseteq aged' /\ emitted' \ emitted = {}
        /\ docs' \ docs = {} /\ \A d \in Devices : accepted[d] \subseteq accepted'[d]
        /\ \A d \in Devices : \A p \in ahead'[d] : p \in ahead[d]
    BY <1>1
  <2> QED
    BY <1>2, <2>1, <2>2, HonestStep
<1> QED
  BY <1>2, <1>3, <1>4 DEF IInv

-----------------------------------------------------------------------------
(* A document arrives.                                                     *)

Seen(pkt) == ahead[pkt.to] \cup {SeqId(e) : e \in Fresh(pkt)} \cup pkt.doc.skipped

Marks(pkt) == FoldedMark(mark[pkt.to], Above(Seen(pkt), mark[pkt.to]))

Taken(pkt) == Merged(merge[pkt.to], Fresh(pkt))

Dropped(pkt) ==
  Compactable(pkt.to, log[pkt.to] \cup Fresh(pkt), Taken(pkt), ClaimsWith(pkt), SilentWith(pkt))

\* The claim table once the sender's cursor is in it.
LEMMA ClaimsWithFacts ==
  ASSUME IInv, NEW pkt \in docs
  PROVE  /\ IsClaims(ClaimsWith(pkt))
         /\ DOMAIN peerMarks[pkt.to] \subseteq DOMAIN ClaimsWith(pkt)
         /\ \A p \in DOMAIN ClaimsWith(pkt) :
              \/ p \in DOMAIN peerMarks[pkt.to] /\ ClaimsWith(pkt)[p] = peerMarks[pkt.to][p]
              \/ p = pkt.doc.from /\ ClaimsWith(pkt)[p] = pkt.doc.cursor
         /\ stale[pkt.to] \subseteq SilentWith(pkt) \cup DOMAIN ClaimsWith(pkt)
         /\ SilentWith(pkt) \subseteq stale[pkt.to]
         /\ UnsavedWith(pkt) \subseteq Devices
<1>1. /\ pkt.to \in Devices /\ pkt.doc.from \in Devices /\ pkt.doc.cursor \in [Devices -> Nat]
      /\ IsClaims(peerMarks[pkt.to]) /\ dirty[pkt.to] \subseteq Devices
  BY DEF IInv, Shape, ShapeDoc
<1>2. CASE pkt.auth
  <2> DEFINE c == With(peerMarks[pkt.to], pkt.doc.from, pkt.doc.cursor)
  <2>1. /\ IsClaims(c)
        /\ DOMAIN c = DOMAIN peerMarks[pkt.to] \cup {pkt.doc.from}
        /\ \A y \in DOMAIN peerMarks[pkt.to] \cup {pkt.doc.from} :
             c[y] = IF y = pkt.doc.from THEN pkt.doc.cursor ELSE peerMarks[pkt.to][y]
    <3> DEFINE table == peerMarks[pkt.to]
               from == pkt.doc.from
               cursor == pkt.doc.cursor
    <3>1. IsClaims(table) /\ from \in Devices /\ cursor \in [Devices -> Nat]
      BY <1>1
    <3> HIDE DEF table, from, cursor
    <3>2. /\ IsClaims(With(table, from, cursor))
          /\ DOMAIN With(table, from, cursor) = DOMAIN table \cup {from}
          /\ \A y \in DOMAIN table \cup {from} :
               With(table, from, cursor)[y] = IF y = from THEN cursor ELSE table[y]
      BY <3>1 DEF With, IsClaims
    <3> QED
      BY <3>2 DEF table, from, cursor
  <2>2. ClaimsWith(pkt) = c
    BY <1>2 DEF ClaimsWith, Noted
  <2>3. SilentWith(pkt) = stale[pkt.to] \ {pkt.doc.from}
    BY <1>2 DEF SilentWith
  <2>4. UnsavedWith(pkt) \subseteq Devices
    BY <1>1 DEF UnsavedWith
  <2> HIDE DEF c
  <2> QED
    BY <2>1, <2>2, <2>3, <2>4
<1>3. CASE ~pkt.auth
  BY <1>1, <1>3 DEF ClaimsWith, SilentWith, UnsavedWith
<1> QED
  BY <1>2, <1>3

\* What applyDelta leaves behind, whether or not its second write succeeds.
LEMMA ApplyEffect ==
  ASSUME IInv, NEW pkt \in docs, NEW now \in 0 .. MaxInt, Apply(pkt, now)
  PROVE  LET d == pkt.to IN
         /\ clock' = [clock EXCEPT ![d] = CHOOSE k \in Received(clock[d], Fresh(pkt), now) : TRUE]
         /\ accepted' = [accepted EXCEPT ![d] = accepted[d] \cup Fresh(pkt)]
         /\ merge' = [merge EXCEPT ![d] = Taken(pkt)]
         /\ mark' = [mark EXCEPT ![d] = Marks(pkt)]
         /\ ahead' = [ahead EXCEPT ![d] = Above(Seen(pkt), Marks(pkt))]
         /\ peerMarks' = [peerMarks EXCEPT ![d] = ClaimsWith(pkt)]
         /\ stale' = [stale EXCEPT ![d] = SilentWith(pkt)]
         /\ \E rest : /\ log' = [log EXCEPT ![d] = rest]
                      /\ rest \subseteq log[d] \cup Fresh(pkt)
                      /\ (log[d] \cup Fresh(pkt)) \ Dropped(pkt) \subseteq rest
         /\ \E rows : /\ peerRows' = [peerRows EXCEPT ![d] = rows]
                      /\ IsClaims(rows)
                      /\ DOMAIN peerRows[d] \subseteq DOMAIN rows
                      /\ DOMAIN rows \subseteq DOMAIN peerRows[d] \cup DOMAIN ClaimsWith(pkt)
         /\ \E unsaved \in SUBSET Devices : dirty' = [dirty EXCEPT ![d] = unsaved]
         /\ docs' \subseteq docs
         /\ UNCHANGED <<emitted, localSeq, aged>>
<1> DEFINE d == pkt.to
           claims == ClaimsWith(pkt)
           saved == IF NeedsLog(pkt) /\ pkt.auth THEN {pkt.doc.from} ELSE {}
           pending == UnsavedWith(pkt) \ saved
           rows == PendingStored(peerRows[d], claims, saved)
           full == PendingStored(rows, claims, pending)
<1>1. /\ clock' = [clock EXCEPT ![d] = CHOOSE k \in Received(clock[d], Fresh(pkt), now) : TRUE]
      /\ accepted' = [accepted EXCEPT ![d] = accepted[d] \cup Fresh(pkt)]
      /\ merge' = [merge EXCEPT ![d] = Taken(pkt)]
      /\ mark' = [mark EXCEPT ![d] = Marks(pkt)]
      /\ ahead' = [ahead EXCEPT ![d] = Above(Seen(pkt), Marks(pkt))]
      /\ peerMarks' = [peerMarks EXCEPT ![d] = ClaimsWith(pkt)]
      /\ stale' = [stale EXCEPT ![d] = SilentWith(pkt)]
      /\ UNCHANGED <<emitted, localSeq, aged>>
  BY DEF Apply, Taken, Marks, Seen
<1>2. docs' \subseteq docs
  <2>1. docs' \in {docs \ {pkt}} \cup (IF "replay" \in Faults THEN {docs} ELSE {})
    BY DEF Apply
  <2> QED
    BY <2>1
<1>3. \/ /\ log' = [log EXCEPT ![d] = (log[d] \cup Fresh(pkt)) \ Dropped(pkt)]
         /\ peerRows' = [peerRows EXCEPT ![d] = full]
         /\ dirty' = [dirty EXCEPT ![d] = {}]
      \/ /\ log' = [log EXCEPT ![d] = log[d] \cup Fresh(pkt)]
         /\ peerRows' = [peerRows EXCEPT ![d] = rows]
         /\ dirty' = [dirty EXCEPT ![d] = pending]
  BY DEF Apply, Dropped, Taken
<1>4. IsClaims(claims) /\ UnsavedWith(pkt) \subseteq Devices
  BY ClaimsWithFacts
<1>5. IsClaims(peerRows[d])
  BY DEF IInv, Shape, ShapeDoc
<1> HIDE DEF claims, saved
<1>6. IsClaims(rows) /\ DOMAIN rows = DOMAIN peerRows[d] \cup (saved \cap DOMAIN claims)
  <2> HIDE DEF rows
  <2>1. rows = PendingStored(peerRows[d], claims, saved)
    BY DEF rows
  <2>2. StoredWell(peerRows[d], claims, saved)
    BY <1>4, <1>5, StoredClaims
  <2> QED
    BY <2>1, <2>2 DEF StoredWell
<1> HIDE DEF rows
<1>7. IsClaims(full) /\ DOMAIN full = DOMAIN rows \cup (pending \cap DOMAIN claims)
  <2> HIDE DEF full, pending
  <2>1. full = PendingStored(rows, claims, pending)
    BY DEF full
  <2>2. StoredWell(rows, claims, pending)
    BY <1>4, <1>6, StoredClaims
  <2> QED
    BY <2>1, <2>2 DEF StoredWell
<1>8. pending \in SUBSET Devices
  BY <1>4
<1> HIDE DEF full, pending, d
<1>9. \E rest : /\ log' = [log EXCEPT ![d] = rest]
                /\ rest \subseteq log[d] \cup Fresh(pkt)
                /\ (log[d] \cup Fresh(pkt)) \ Dropped(pkt) \subseteq rest
  BY <1>3
<1>10. \E r : /\ peerRows' = [peerRows EXCEPT ![d] = r]
              /\ IsClaims(r)
              /\ DOMAIN peerRows[d] \subseteq DOMAIN r
              /\ DOMAIN r \subseteq DOMAIN peerRows[d] \cup DOMAIN claims
  <2>1. CASE peerRows' = [peerRows EXCEPT ![d] = rows]
    BY <1>6, <2>1
  <2>2. CASE peerRows' = [peerRows EXCEPT ![d] = full]
    BY <1>6, <1>7, <2>2
  <2> QED
    BY <1>3, <2>1, <2>2
<1>11. \E unsaved \in SUBSET Devices : dirty' = [dirty EXCEPT ![d] = unsaved]
  BY <1>3, <1>8
<1> QED
  BY <1>1, <1>2, <1>9, <1>10, <1>11 DEF d, claims

\* What a document brings was emitted, and what it lets its reader claim the
\* reader may claim.
LEMMA ApplyBasics ==
  ASSUME IInv, NEW pkt \in docs, NEW now \in 0 .. MaxInt, Apply(pkt, now)
  PROVE  LET d == pkt.to IN
         /\ Fresh(pkt) \in SUBSET Entry /\ IsFiniteSet(Fresh(pkt)) /\ Fresh(pkt) \subseteq emitted
         /\ Fresh(pkt) \cap log[d] = {}
         /\ KeyDistinct(emitted)
         /\ \A p \in Seen(pkt) :
              p \in Positions
              /\ Claimable(emitted, aged, localSeq, accepted[d] \cup Fresh(pkt), p)
         /\ Marks(pkt) \in [Devices -> Nat]
         /\ \A s \in Devices :
              /\ Marks(pkt)[s] >= mark[d][s]
              /\ \A n \in mark[d][s] + 1 .. Marks(pkt)[s] :
                   Claimable(emitted, aged, localSeq, accepted[d] \cup Fresh(pkt), <<s, n>>)
         /\ \E k \in Stamp : /\ clock' = [clock EXCEPT ![d] = k]
                             /\ StampLeq(clock[d], k)
                             /\ \A e \in Fresh(pkt) : StampLeq(e, k)
<1> DEFINE d == pkt.to
           held == accepted[d] \cup Fresh(pkt)
<1>1. /\ d \in Devices /\ pkt.doc.entries \subseteq emitted /\ pkt.doc.skipped \subseteq Positions
      /\ emitted \in SUBSET Entry /\ IsFiniteSet(emitted)
      /\ accepted[d] \subseteq emitted /\ ahead[d] \subseteq Positions
      /\ localSeq \in [Devices -> Nat] /\ mark[d] \in [Devices -> Nat] /\ clock[d] \in Stamp
      /\ Ordered(emitted) /\ \A e \in emitted : e.seq \in 1 .. localSeq[e.dev]
  BY DEF IInv, Shape, ShapeDoc, Histories, SeqsIdentify, Ordered
<1>2. /\ Fresh(pkt) \in SUBSET Entry /\ Fresh(pkt) \subseteq emitted
      /\ Fresh(pkt) \subseteq pkt.doc.entries /\ Fresh(pkt) \cap log[d] = {}
  BY <1>1 DEF Fresh
<1>3. IsFiniteSet(Fresh(pkt)) /\ IsFiniteSet(pkt.doc.entries) /\ pkt.doc.entries \in SUBSET Entry
  BY <1>1, <1>2, FS_Subset
<1>4. KeyDistinct(emitted)
  BY <1>1, OrderedIdentifies
<1>5. ASSUME NEW p \in Seen(pkt)
      PROVE  p \in Positions /\ Claimable(emitted, aged, localSeq, held, p)
  <2>1. \A A : A \subseteq held /\ Claimable(emitted, aged, localSeq, A, p)
                 => Claimable(emitted, aged, localSeq, held, p)
    BY DEF Claimable
  <2>2. CASE p \in ahead[d]
    <3>1. Claimable(emitted, aged, localSeq, accepted[d], p)
      BY <1>1, <2>2 DEF IInv, Honest, Claims
    <3> QED
      BY <1>1, <2>1, <2>2, <3>1
  <2>3. CASE p \in pkt.doc.skipped
    <3>1. Claimable(emitted, aged, localSeq, {}, p)
      BY <2>3 DEF IInv, Honest, Claims
    <3> QED
      BY <1>1, <2>1, <2>3, <3>1
  <2>4. CASE p \in {SeqId(e) : e \in Fresh(pkt)}
    <3>1. PICK e \in Fresh(pkt) : p = SeqId(e)
      BY <2>4
    <3>2. e \in emitted /\ e \in held
      BY <1>2
    <3>3. Claimable(emitted, aged, localSeq, held, SeqId(e))
      BY <1>1, <3>2, HeldIsClaimable
    <3>4. SeqId(e) \in Positions
      <4>1. e.dev \in Devices /\ e.seq \in 1 .. localSeq[e.dev]
        BY <1>1, <3>2, EntryFacts
      <4> QED
        BY <4>1 DEF SeqId, Positions
    <3> QED
      BY <3>1, <3>3, <3>4
  <2> QED
    BY <2>2, <2>3, <2>4 DEF Seen
<1> HIDE DEF held
<1>6. /\ Marks(pkt) \in [Devices -> Nat]
      /\ \A s \in Devices :
           /\ Marks(pkt)[s] >= mark[d][s]
           /\ \A n \in mark[d][s] + 1 .. Marks(pkt)[s] :
                Claimable(emitted, aged, localSeq, held, <<s, n>>)
  <2> DEFINE above == Above(Seen(pkt), mark[d])
  <2>1. \A p \in above : p \in Positions /\ Claimable(emitted, aged, localSeq, held, p)
    BY <1>5 DEF Above
  <2>2. Marks(pkt) = FoldedMark(mark[d], above)
    BY DEF Marks
  <2>3. mark[d] \in [Devices -> Nat] /\ localSeq \in [Devices -> Nat]
    BY <1>1
  <2> DEFINE start == mark[d]
  <2> HIDE DEF above, start
  <2>4. /\ FoldedMark(start, above) \in [Devices -> Nat]
        /\ \A s \in Devices :
             /\ FoldedMark(start, above)[s] >= start[s]
             /\ \A n \in start[s] + 1 .. FoldedMark(start, above)[s] :
                  Claimable(emitted, aged, localSeq, held, <<s, n>>)
    BY <2>1, <2>3, FoldedClaims DEF start
  <2> QED
    BY <2>2, <2>4 DEF start
<1>7. \E k \in Stamp : /\ clock' = [clock EXCEPT ![d] = k]
                       /\ StampLeq(clock[d], k)
                       /\ \A e \in Fresh(pkt) : StampLeq(e, k)
  <2> DEFINE k == CHOOSE x \in Received(clock[d], Fresh(pkt), now) : TRUE
  <2>1. Received(clock[d], pkt.doc.entries, now) # {}
    BY DEF Apply, ClockAdmits
  <2>2. KeyDistinct(pkt.doc.entries)
    BY <1>1, <1>4 DEF KeyDistinct
  <2>3. Received(clock[d], Fresh(pkt), now) # {}
    BY <1>1, <1>2, <1>3, <2>1, <2>2, ReceivedPart
  <2>4. k \in Received(clock[d], Fresh(pkt), now)
    BY <2>3
  <2>5. clock' = [clock EXCEPT ![d] = k]
    BY DEF Apply
  <2> HIDE DEF k, d
  <2>6. k \in Stamp /\ StampLeq(clock[d], k) /\ \A e \in Fresh(pkt) : StampLeq(e, k)
    BY <1>1, <1>2, <1>3, <2>4, ReceivedAbove
  <2> QED
    BY <2>5, <2>6
<1> QED
  BY <1>2, <1>3, <1>4, <1>5, <1>6, <1>7 DEF held

\* What compaction drops: rows that no merge state refers to, that are not the
\* device's newest, and that every peer it remembers claims.
LEMMA DroppedFacts ==
  ASSUME NEW pkt, NEW e \in Dropped(pkt)
  PROVE  /\ e \in log[pkt.to] \cup Fresh(pkt)
         /\ e \notin Live(Taken(pkt))
         /\ ~(e.dev = pkt.to /\ e.seq = localSeq[pkt.to])
         /\ SilentWith(pkt) = {}
         /\ \A p \in DOMAIN ClaimsWith(pkt) : e.seq <= ClaimsWith(pkt)[p][e.dev]
BY DEF Dropped, Compactable

\* The state keeps its shape when a document is applied.
LEMMA ApplyShape ==
  ASSUME IInv, NEW pkt \in docs, NEW now \in 0 .. MaxInt, Apply(pkt, now)
  PROVE  Shape'
<1> DEFINE d == pkt.to
<1>1. /\ d \in Devices
      /\ emitted \subseteq Entry /\ IsFiniteSet(emitted)
      /\ accepted \in [Devices -> SUBSET emitted] /\ log \in [Devices -> SUBSET emitted]
      /\ merge = [x \in Devices |-> merge[x]]
      /\ mark \in [Devices -> [Devices -> Nat]] /\ ahead \in [Devices -> SUBSET Positions]
      /\ localSeq \in [Devices -> Nat] /\ clock \in [Devices -> Stamp]
      /\ peerMarks = [x \in Devices |-> peerMarks[x]]
      /\ peerRows = [x \in Devices |-> peerRows[x]]
      /\ \A x \in Devices : IsClaims(peerMarks[x]) /\ IsClaims(peerRows[x])
      /\ stale \in [Devices -> SUBSET Devices] /\ dirty \in [Devices -> SUBSET Devices]
      /\ \A k \in docs : ShapeDoc(k)
  BY DEF IInv, Shape, ShapeDoc
<1>2. /\ accepted' = [accepted EXCEPT ![d] = accepted[d] \cup Fresh(pkt)]
      /\ merge' = [merge EXCEPT ![d] = Taken(pkt)]
      /\ mark' = [mark EXCEPT ![d] = Marks(pkt)]
      /\ ahead' = [ahead EXCEPT ![d] = Above(Seen(pkt), Marks(pkt))]
      /\ peerMarks' = [peerMarks EXCEPT ![d] = ClaimsWith(pkt)]
      /\ stale' = [stale EXCEPT ![d] = SilentWith(pkt)]
      /\ docs' \subseteq docs
      /\ UNCHANGED <<emitted, localSeq, aged>>
  BY ApplyEffect
<1>3. PICK rest : log' = [log EXCEPT ![d] = rest] /\ rest \subseteq log[d] \cup Fresh(pkt)
  BY ApplyEffect
<1>4. PICK rows : peerRows' = [peerRows EXCEPT ![d] = rows] /\ IsClaims(rows)
  BY ApplyEffect
<1>5. PICK unsaved \in SUBSET Devices : dirty' = [dirty EXCEPT ![d] = unsaved]
  BY ApplyEffect
<1>6. /\ Fresh(pkt) \subseteq emitted /\ Marks(pkt) \in [Devices -> Nat]
      /\ \A p \in Seen(pkt) : p \in Positions
  BY ApplyBasics
<1>7. PICK k \in Stamp : clock' = [clock EXCEPT ![d] = k]
  BY ApplyBasics
<1>8. IsClaims(ClaimsWith(pkt)) /\ SilentWith(pkt) \subseteq stale[d]
  BY ClaimsWithFacts
<1>9. Above(Seen(pkt), Marks(pkt)) \subseteq Positions
  BY <1>6 DEF Above
<1> HIDE DEF d
<1>10. emitted' \subseteq Entry /\ IsFiniteSet(emitted')
  BY <1>1, <1>2
<1>11. accepted' \in [Devices -> SUBSET emitted'] /\ log' \in [Devices -> SUBSET emitted']
  BY <1>1, <1>2, <1>3, <1>6
<1>12. /\ merge' = [x \in Devices |-> merge'[x]]
       /\ peerMarks' = [x \in Devices |-> peerMarks'[x]]
       /\ peerRows' = [x \in Devices |-> peerRows'[x]]
  BY <1>1, <1>2, <1>4
<1>13. mark' \in [Devices -> [Devices -> Nat]] /\ ahead' \in [Devices -> SUBSET Positions]
  BY <1>1, <1>2, <1>6, <1>9
<1>14. localSeq' \in [Devices -> Nat] /\ clock' \in [Devices -> Stamp]
  BY <1>1, <1>2, <1>7
<1>15. \A x \in Devices : IsClaims(peerMarks'[x]) /\ IsClaims(peerRows'[x])
  BY <1>1, <1>2, <1>4, <1>8
<1>16. stale' \in [Devices -> SUBSET Devices] /\ dirty' \in [Devices -> SUBSET Devices]
  BY <1>1, <1>2, <1>5, <1>8
<1>17. \A x \in docs' : ShapeDoc(x)'
  BY <1>1, <1>2 DEF ShapeDoc
<1> QED
  BY <1>10, <1>11, <1>12, <1>13, <1>14, <1>15, <1>16, <1>17 DEF Shape

\* Compaction never drops the device's newest entry, and the clock ends above
\* what the document brought.
LEMMA ApplyHistories ==
  ASSUME IInv, NEW pkt \in docs, NEW now \in 0 .. MaxInt, Apply(pkt, now)
  PROVE  Histories'
<1> DEFINE d == pkt.to
<1>1. /\ d \in Devices /\ emitted \subseteq Entry
      /\ accepted \in [Devices -> SUBSET emitted] /\ log \in [Devices -> SUBSET emitted]
      /\ clock \in [Devices -> Stamp]
  BY DEF IInv, Shape, ShapeDoc
<1>2. /\ accepted' = [accepted EXCEPT ![d] = accepted[d] \cup Fresh(pkt)]
      /\ emitted' = emitted /\ localSeq' = localSeq
  BY ApplyEffect
<1>3. PICK rest : /\ log' = [log EXCEPT ![d] = rest]
                  /\ (log[d] \cup Fresh(pkt)) \ Dropped(pkt) \subseteq rest
  BY ApplyEffect
<1>4. Fresh(pkt) \subseteq emitted
  BY ApplyBasics
<1>5. PICK k \in Stamp : /\ clock' = [clock EXCEPT ![d] = k] /\ StampLeq(clock[d], k)
                         /\ \A e \in Fresh(pkt) : StampLeq(e, k)
  BY ApplyBasics
<1>6. \A e \in Dropped(pkt) : ~(e.dev = d /\ e.seq = localSeq[d])
  BY DroppedFacts
<1>7. \A x \in Devices : \A e \in accepted[x] : StampLeq(e, clock[x])
  BY DEF IInv, Histories, ClockCoversAccepted
<1> HIDE DEF d
<1>8. ASSUME NEW x \in Devices, NEW e \in log[x], e.dev = x, e.seq = localSeq[x]
      PROVE  e \in log'[x]
  BY <1>1, <1>3, <1>6, <1>8
<1>9. ASSUME NEW x \in Devices, NEW e \in accepted'[x]
      PROVE  StampLeq(e, clock'[x])
  <2>1. CASE x # d
    BY <1>1, <1>2, <1>5, <1>7, <1>9, <2>1
  <2>2. CASE x = d /\ e \in Fresh(pkt)
    BY <1>1, <1>5, <2>2
  <2>3. CASE x = d /\ e \in accepted[d]
    <3>1. StampLeq(e, clock[d]) /\ e \in Entry
      BY <1>1, <1>7, <2>3
    <3>2. e.l \in Nat /\ e.c \in Nat /\ clock[d].l \in Nat /\ clock[d].c \in Nat
          /\ k.l \in Nat /\ k.c \in Nat
      BY <1>1, <3>1, EntryFacts DEF Stamp
    <3>3. StampLeq(e, k)
      BY <1>5, <3>1, <3>2, StampOrder
    <3> QED
      BY <1>1, <1>5, <2>3, <3>3
  <2> QED
    BY <1>1, <1>2, <1>9, <2>1, <2>2, <2>3
<1>10. \A x \in Devices : accepted[x] \subseteq accepted'[x]
  BY <1>1, <1>2
<1> QED
  BY <1>1, <1>2, <1>8, <1>9, <1>10, HistoriesStep DEF IInv

\* The merge takes the document in, and compaction drops nothing it refers to.
LEMMA ApplySound ==
  ASSUME IInv, NEW pkt \in docs, NEW now \in 0 .. MaxInt, Apply(pkt, now)
  PROVE  Sound'
<1> DEFINE d == pkt.to
<1>1. /\ d \in Devices /\ emitted \subseteq Entry
      /\ accepted \in [Devices -> SUBSET emitted] /\ log \in [Devices -> SUBSET emitted]
      /\ merge = [x \in Devices |-> merge[x]]
  BY DEF IInv, Shape, ShapeDoc
<1>2. /\ accepted' = [accepted EXCEPT ![d] = accepted[d] \cup Fresh(pkt)]
      /\ merge' = [merge EXCEPT ![d] = Taken(pkt)]
  BY ApplyEffect
<1>3. PICK rest : /\ log' = [log EXCEPT ![d] = rest]
                  /\ rest \subseteq log[d] \cup Fresh(pkt)
                  /\ (log[d] \cup Fresh(pkt)) \ Dropped(pkt) \subseteq rest
  BY ApplyEffect
<1>4. /\ Fresh(pkt) \in SUBSET Entry /\ IsFiniteSet(Fresh(pkt)) /\ Fresh(pkt) \subseteq emitted
      /\ Fresh(pkt) \cap log[d] = {} /\ KeyDistinct(emitted)
  BY ApplyBasics
<1>5. /\ log[d] \subseteq accepted[d] /\ Live(merge[d]) \subseteq log[d] /\ merge[d].rows = {}
      /\ DeviceSound(merge[d], accepted[d])
  BY DEF IInv, Sound, SoundAt, Shape, ShapeDoc
<1>6. /\ KeyDistinct(accepted[d] \cup Fresh(pkt)) /\ Fresh(pkt) \cap merge[d].live = {}
      /\ accepted[d] \in SUBSET Entry
  BY <1>1, <1>4, <1>5 DEF KeyDistinct, Live
<1>7. /\ DeviceSound(Taken(pkt), accepted[d] \cup Fresh(pkt)) /\ Taken(pkt).rows = {}
      /\ Live(Taken(pkt)) \subseteq Live(merge[d]) \cup Fresh(pkt)
  <2> DEFINE m == merge[d]
             S == accepted[d]
             T == Fresh(pkt)
  <2>1. /\ S \in SUBSET Entry /\ DeviceSound(m, S) /\ m.rows = {}
        /\ T \in SUBSET Entry /\ IsFiniteSet(T) /\ KeyDistinct(S \cup T) /\ T \cap m.live = {}
    BY <1>4, <1>5, <1>6
  <2>2. Taken(pkt) = Merged(m, T)
    BY DEF Taken
  <2> HIDE DEF m, S, T
  <2>3. /\ DeviceSound(Merged(m, T), S \cup T) /\ Merged(m, T).rows = {}
        /\ Live(Merged(m, T)) \subseteq Live(m) \cup T
    BY <2>1, MergedSound
  <2> QED
    BY <2>2, <2>3 DEF m, S, T
<1>8. \A e \in Dropped(pkt) : e \notin Live(Taken(pkt))
  BY DroppedFacts
<1> HIDE DEF d
<1>9. SoundAt(d)'
  <2>1. accepted'[d] = accepted[d] \cup Fresh(pkt) /\ log'[d] = rest /\ merge'[d] = Taken(pkt)
    BY <1>1, <1>2, <1>3
  <2>2. log'[d] \subseteq accepted'[d] /\ Live(merge'[d]) \subseteq log'[d]
    BY <1>3, <1>5, <1>7, <1>8, <2>1
  <2> QED
    BY <1>7, <2>1, <2>2 DEF SoundAt
<1>10. ASSUME NEW x \in Devices, x # d
       PROVE  SoundAt(x)'
  <2>1. accepted'[x] = accepted[x] /\ log'[x] = log[x] /\ merge'[x] = merge[x]
    BY <1>1, <1>2, <1>3, <1>10
  <2>2. SoundAt(x)
    BY DEF IInv, Sound
  <2> QED
    BY <2>1, <2>2 DEF SoundAt
<1> QED
  BY <1>9, <1>10 DEF Sound

\* The reader holds, or was told nobody needs, what its cursor comes to claim.
LEMMA ApplyHonest ==
  ASSUME IInv, NEW pkt \in docs, NEW now \in 0 .. MaxInt, Apply(pkt, now)
  PROVE  Honest'
<1> DEFINE d == pkt.to
<1>1. /\ d \in Devices
      /\ accepted \in [Devices -> SUBSET emitted] /\ localSeq \in [Devices -> Nat]
      /\ mark \in [Devices -> [Devices -> Nat]] /\ ahead \in [Devices -> SUBSET Positions]
  BY DEF IInv, Shape, ShapeDoc
<1>2. /\ accepted' = [accepted EXCEPT ![d] = accepted[d] \cup Fresh(pkt)]
      /\ mark' = [mark EXCEPT ![d] = Marks(pkt)]
      /\ ahead' = [ahead EXCEPT ![d] = Above(Seen(pkt), Marks(pkt))]
      /\ docs' \subseteq docs
      /\ emitted' = emitted /\ localSeq' = localSeq /\ aged' = aged
  BY ApplyEffect
<1>3. /\ \A p \in Seen(pkt) :
           Claimable(emitted, aged, localSeq, accepted[d] \cup Fresh(pkt), p)
      /\ \A s \in Devices : \A n \in mark[d][s] + 1 .. Marks(pkt)[s] :
           Claimable(emitted, aged, localSeq, accepted[d] \cup Fresh(pkt), <<s, n>>)
  BY ApplyBasics
<1> HIDE DEF d
<1>4. ASSUME NEW x \in Devices, NEW s \in Devices, NEW n \in mark[x][s] + 1 .. mark'[x][s]
      PROVE  Claimable(emitted', aged', localSeq', accepted'[x], <<s, n>>)
  <2>1. CASE x = d
    BY <1>1, <1>2, <1>3, <2>1
  <2>2. CASE x # d
    <3>1. mark'[x][s] = mark[x][s] /\ mark[x][s] \in Nat
      BY <1>1, <1>2, <2>2
    <3> QED
      BY <3>1
  <2> QED
    BY <2>1, <2>2
<1>5. ASSUME NEW x \in Devices, NEW p \in ahead'[x]
      PROVE  p \in ahead[x] \/ Claimable(emitted', aged', localSeq', accepted'[x], p)
  <2>1. CASE x = d
    <3>1. p \in Seen(pkt) /\ accepted'[d] = accepted[d] \cup Fresh(pkt)
      BY <1>1, <1>2, <2>1 DEF Above
    <3> QED
      BY <1>2, <1>3, <2>1, <3>1
  <2>2. CASE x # d
    BY <1>1, <1>2, <2>2
  <2> QED
    BY <2>1, <2>2
<1>6. \A s \in Devices : localSeq[s] <= localSeq'[s]
  BY <1>1, <1>2
<1>7. \A x \in Devices : accepted[x] \subseteq accepted'[x]
  BY <1>1, <1>2
<1>8. emitted \subseteq emitted' /\ aged \subseteq aged' /\ emitted' \ emitted = {} /\ docs' \ docs = {}
  BY <1>2
<1>9. Shape /\ Shape' /\ Honest
  BY ApplyShape DEF IInv
<1> QED
  BY <1>4, <1>5, <1>6, <1>7, <1>8, <1>9, HonestStep

\* The sender's cursor replaces its older claim, and no sender the store
\* remembers is forgotten.
LEMMA ApplyRemembered ==
  ASSUME IInv, NEW pkt \in docs, NEW now \in 0 .. MaxInt, Apply(pkt, now)
  PROVE  Remembered'
<1> DEFINE d == pkt.to
<1>1. /\ d \in Devices
      /\ mark \in [Devices -> [Devices -> Nat]]
      /\ peerMarks = [x \in Devices |-> peerMarks[x]]
      /\ peerRows = [x \in Devices |-> peerRows[x]]
      /\ stale \in [Devices -> SUBSET Devices]
  BY DEF IInv, Shape, ShapeDoc
<1>2. /\ mark' = [mark EXCEPT ![d] = Marks(pkt)]
      /\ peerMarks' = [peerMarks EXCEPT ![d] = ClaimsWith(pkt)]
      /\ stale' = [stale EXCEPT ![d] = SilentWith(pkt)]
      /\ docs' \subseteq docs
  BY ApplyEffect
<1>3. PICK rows : /\ peerRows' = [peerRows EXCEPT ![d] = rows]
                  /\ DOMAIN peerRows[d] \subseteq DOMAIN rows
                  /\ DOMAIN rows \subseteq DOMAIN peerRows[d] \cup DOMAIN ClaimsWith(pkt)
  BY ApplyEffect
<1>4. Marks(pkt) \in [Devices -> Nat] /\ \A s \in Devices : Marks(pkt)[s] >= mark[d][s]
  BY ApplyBasics
<1>5. /\ DOMAIN peerMarks[d] \subseteq DOMAIN ClaimsWith(pkt)
      /\ \A p \in DOMAIN ClaimsWith(pkt) :
           \/ p \in DOMAIN peerMarks[d] /\ ClaimsWith(pkt)[p] = peerMarks[d][p]
           \/ p = pkt.doc.from /\ ClaimsWith(pkt)[p] = pkt.doc.cursor
      /\ stale[d] \subseteq SilentWith(pkt) \cup DOMAIN ClaimsWith(pkt)
      /\ SilentWith(pkt) \subseteq stale[d]
  BY ClaimsWithFacts
<1>6. \A x \in Devices : /\ DOMAIN peerRows[x] \subseteq DOMAIN peerMarks[x] \cup stale[x]
                         /\ stale[x] \subseteq DOMAIN peerRows[x]
  BY DEF IInv, Remembered
<1> HIDE DEF d
<1>7. ASSUME NEW x \in Devices, NEW s \in Devices
      PROVE  mark'[x][s] \in Nat /\ mark[x][s] <= mark'[x][s]
  <2>1. mark[x][s] \in Nat
    BY <1>1
  <2>2. CASE x = d
    <3>1. mark'[x] = Marks(pkt)
      BY <1>1, <1>2, <2>2
    <3>2. Marks(pkt)[s] \in Nat /\ Marks(pkt)[s] >= mark[d][s]
      BY <1>4
    <3> QED
      BY <2>1, <2>2, <3>1, <3>2
  <2>3. CASE x # d
    <3>1. mark'[x] = mark[x]
      BY <1>1, <1>2, <2>3
    <3> QED
      BY <2>1, <3>1
  <2> QED
    BY <2>2, <2>3
<1>8. ASSUME NEW x \in Devices, NEW p \in DOMAIN peerMarks'[x]
      PROVE  \/ p \in DOMAIN peerMarks[x] /\ peerMarks'[x][p] = peerMarks[x][p]
             \/ \E k \in docs : p = k.doc.from /\ peerMarks'[x][p] = k.doc.cursor
  <2>1. CASE x = d
    <3>1. peerMarks'[x] = ClaimsWith(pkt)
      BY <1>1, <1>2, <2>1
    <3> QED
      BY <1>5, <1>8, <2>1, <3>1
  <2>2. CASE x # d
    <3>1. peerMarks'[x] = peerMarks[x]
      BY <1>1, <1>2, <2>2
    <3> QED
      BY <1>8, <3>1
  <2> QED
    BY <2>1, <2>2
<1>9. ASSUME NEW x \in Devices
      PROVE  /\ DOMAIN peerRows'[x] \subseteq DOMAIN peerMarks'[x] \cup stale'[x]
             /\ stale'[x] \subseteq DOMAIN peerRows'[x]
  <2>1. CASE x = d
    <3>1. peerRows'[x] = rows /\ peerMarks'[x] = ClaimsWith(pkt) /\ stale'[x] = SilentWith(pkt)
      BY <1>1, <1>2, <1>3, <2>1
    <3>2. /\ DOMAIN peerRows[d] \subseteq DOMAIN peerMarks[d] \cup stale[d]
          /\ stale[d] \subseteq DOMAIN peerRows[d]
      BY <1>1, <1>6
    <3> QED
      BY <1>3, <1>5, <3>1, <3>2
  <2>2. CASE x # d
    <3>1. peerRows'[x] = peerRows[x] /\ peerMarks'[x] = peerMarks[x] /\ stale'[x] = stale[x]
      BY <1>1, <1>2, <1>3, <2>2
    <3> QED
      BY <1>6, <3>1
  <2> QED
    BY <2>1, <2>2
<1>10. docs' \ docs = {} /\ Shape /\ Remembered
  BY <1>2 DEF IInv
<1> QED
  BY <1>7, <1>8, <1>9, <1>10, RememberedStep

\* A document whose append fails only moves the claim table.
LEMMA ApplyFailsKeeps ==
  ASSUME IInv, NEW pkt \in docs, NEW now, ApplyFails(pkt, now)
  PROVE  IInv'
<1> DEFINE d == pkt.to
<1>1. /\ docs' \subseteq docs
      /\ peerMarks' = [peerMarks EXCEPT ![d] = ClaimsWith(pkt)]
      /\ stale' = [stale EXCEPT ![d] = SilentWith(pkt)]
      /\ dirty' = [dirty EXCEPT ![d] = UnsavedWith(pkt)]
      /\ emitted' = emitted /\ accepted' = accepted /\ log' = log /\ merge' = merge
      /\ mark' = mark /\ ahead' = ahead /\ localSeq' = localSeq /\ clock' = clock
      /\ peerRows' = peerRows /\ aged' = aged
  BY DEF ApplyFails
<1>2. /\ d \in Devices
      /\ mark \in [Devices -> [Devices -> Nat]]
      /\ peerMarks = [x \in Devices |-> peerMarks[x]]
      /\ \A x \in Devices : IsClaims(peerMarks[x])
      /\ stale \in [Devices -> SUBSET Devices] /\ dirty \in [Devices -> SUBSET Devices]
  BY DEF IInv, Shape, ShapeDoc
<1>3. /\ IsClaims(ClaimsWith(pkt))
      /\ DOMAIN peerMarks[d] \subseteq DOMAIN ClaimsWith(pkt)
      /\ \A p \in DOMAIN ClaimsWith(pkt) :
           \/ p \in DOMAIN peerMarks[d] /\ ClaimsWith(pkt)[p] = peerMarks[d][p]
           \/ p = pkt.doc.from /\ ClaimsWith(pkt)[p] = pkt.doc.cursor
      /\ stale[d] \subseteq SilentWith(pkt) \cup DOMAIN ClaimsWith(pkt)
      /\ SilentWith(pkt) \subseteq stale[d]
      /\ UnsavedWith(pkt) \subseteq Devices
  BY ClaimsWithFacts
<1>4. \A x \in Devices : /\ DOMAIN peerRows[x] \subseteq DOMAIN peerMarks[x] \cup stale[x]
                         /\ stale[x] \subseteq DOMAIN peerRows[x]
  BY DEF IInv, Remembered
<1> HIDE DEF d
<1>5. Shape'
  <2>1. /\ peerMarks' = [x \in Devices |-> peerMarks'[x]]
        /\ \A x \in Devices : IsClaims(peerMarks'[x])
    BY <1>1, <1>2, <1>3
  <2>2. stale' \in [Devices -> SUBSET Devices] /\ dirty' \in [Devices -> SUBSET Devices]
    BY <1>1, <1>2, <1>3
  <2> QED
    BY <1>1, <2>1, <2>2 DEF IInv, Shape, ShapeDoc
<1>6. Histories' /\ Sound'
  BY <1>1 DEF IInv, Histories, SeqsIdentify, ClockCoversAccepted, Sound, SoundAt
<1>7. Honest'
  BY <1>1 DEF IInv, Honest, Claims
<1>8. ASSUME NEW x \in Devices, NEW p \in DOMAIN peerMarks'[x]
      PROVE  \/ p \in DOMAIN peerMarks[x] /\ peerMarks'[x][p] = peerMarks[x][p]
             \/ \E k \in docs : p = k.doc.from /\ peerMarks'[x][p] = k.doc.cursor
  <2>1. CASE x = d
    <3>1. peerMarks'[x] = ClaimsWith(pkt)
      BY <1>1, <1>2, <2>1
    <3> QED
      BY <1>3, <1>8, <2>1, <3>1
  <2>2. CASE x # d
    <3>1. peerMarks'[x] = peerMarks[x]
      BY <1>1, <1>2, <2>2
    <3> QED
      BY <1>8, <3>1
  <2> QED
    BY <2>1, <2>2
<1>9. ASSUME NEW x \in Devices
      PROVE  /\ DOMAIN peerRows'[x] \subseteq DOMAIN peerMarks'[x] \cup stale'[x]
             /\ stale'[x] \subseteq DOMAIN peerRows'[x]
  <2>1. CASE x = d
    <3>1. peerMarks'[x] = ClaimsWith(pkt) /\ stale'[x] = SilentWith(pkt)
      BY <1>1, <1>2, <2>1
    <3>2. /\ DOMAIN peerRows[d] \subseteq DOMAIN peerMarks[d] \cup stale[d]
          /\ stale[d] \subseteq DOMAIN peerRows[d]
      BY <1>2, <1>4
    <3> QED
      BY <1>1, <1>3, <2>1, <3>1, <3>2
  <2>2. CASE x # d
    <3>1. peerMarks'[x] = peerMarks[x] /\ stale'[x] = stale[x]
      BY <1>1, <1>2, <2>2
    <3> QED
      BY <1>1, <1>4, <3>1
  <2> QED
    BY <2>1, <2>2
<1>10. /\ \A x, s \in Devices : mark'[x][s] \in Nat /\ mark[x][s] <= mark'[x][s]
       /\ docs' \ docs = {}
  <2>1. \A x, s \in Devices : mark[x][s] \in Nat
    BY <1>2
  <2> QED
    BY <1>1, <2>1
<1>11. Remembered'
  <2>1. Shape /\ Remembered
    BY DEF IInv
  <2> QED
    BY <1>8, <1>9, <1>10, <2>1, RememberedStep
<1> QED
  BY <1>5, <1>6, <1>7, <1>11 DEF IInv

-----------------------------------------------------------------------------
(* A restart.                                                              *)

\* The newest entry a device accepted is in its log.
LEMMA NewestIsLogged ==
  ASSUME IInv, NEW d \in Devices, NEW e \in accepted[d]
  PROVE  \E top \in log[d] : StampLeq(e, top)
<1> DEFINE S == accepted[d]
           top == Newest(S)
<1>1. S \in SUBSET Entry /\ IsFiniteSet(S) /\ KeyDistinct(S) /\ S # {}
  <2>1. emitted \in SUBSET Entry /\ Ordered(emitted) /\ S \subseteq emitted /\ IsFiniteSet(emitted)
    BY DEF IInv, Shape, Histories, SeqsIdentify, Ordered
  <2> HIDE DEF S
  <2>2. KeyDistinct(S) /\ IsFiniteSet(S)
    BY <2>1, OrderedIdentifies, FS_Subset DEF KeyDistinct
  <2> QED
    BY <2>1, <2>2 DEF S
<1>2. DeviceSound(merge[d], S) /\ Live(merge[d]) \subseteq log[d]
  BY DEF IInv, Sound, SoundAt
<1>3. top \in log[d]
  <2> DEFINE m == merge[d]
  <2>1. DeviceSound(m, S)
    BY <1>2
  <2> HIDE DEF S, m
  <2>2. top \in Live(m)
    BY <1>1, <2>1, NewestIsLive
  <2> QED
    BY <1>2, <2>2 DEF m
<1>4. e = top \/ Less(e, top)
  <2>1. e \in S
    OBVIOUS
  <2> HIDE DEF S
  <2> QED
    BY <1>1, <2>1, NewestAbove
<1>5. top \in S
  <2> HIDE DEF S
  <2> QED
    BY <1>1, NewestFacts
<1>6. StampLeq(e, top)
  <2>1. e \in Entry /\ top \in Entry
    BY <1>1, <1>5
  <2> HIDE DEF top, S
  <2>2. e.l \in Nat /\ e.c \in Nat /\ top.l \in Nat /\ top.c \in Nat
    BY <2>1, EntryFacts
  <2> QED
    BY <1>4, <2>2 DEF Less, StampLeq
<1> QED
  BY <1>3, <1>6

\* What hydrate recovers from the rows: the ordinal, a clock above everything
\* ever accepted, and a merge state that stands for it.
LEMMA RestartRecovers ==
  ASSUME IInv, NEW d \in Devices
  PROVE  /\ Max({0} \cup {e.seq : e \in {x \in log[d] : x.dev = d}}) = localSeq[d]
         /\ HighestStamp(log[d]) \in Stamp
         /\ \A e \in accepted[d] : StampLeq(e, HighestStamp(log[d]))
         /\ DeviceSound(Merged(EmptyMerge, log[d]), accepted[d])
         /\ Merged(EmptyMerge, log[d]).rows = {}
         /\ Live(Merged(EmptyMerge, log[d])) \subseteq log[d]
<1> DEFINE L == log[d]
           S == accepted[d]
<1>1. /\ emitted \in SUBSET Entry /\ IsFiniteSet(emitted) /\ Ordered(emitted)
      /\ S \subseteq emitted /\ L \subseteq emitted /\ L \subseteq S
      /\ localSeq[d] \in Nat
      /\ \A e \in emitted : e.seq \in 1 .. localSeq[e.dev]
      /\ localSeq[d] = 0 \/ \E e \in L : e.dev = d /\ e.seq = localSeq[d]
  BY DEF IInv, Shape, Histories, SeqsIdentify, Ordered, Sound, SoundAt
<1>2. IsFiniteSet(L) /\ KeyDistinct(L)
  <2>1. KeyDistinct(emitted)
    BY <1>1, OrderedIdentifies
  <2> HIDE DEF L
  <2> QED
    BY <1>1, <2>1, FS_Subset DEF KeyDistinct
<1>3. DeviceSound(merge[d], S) /\ Live(merge[d]) \subseteq L
  BY DEF IInv, Sound, SoundAt
<1>4. \A e \in S : \E top \in L : StampLeq(e, top)
  BY NewestIsLogged
<1> DEFINE top == localSeq[d]
           m == merge[d]
<1>5. /\ top \in Nat /\ \A e \in L : e.dev = d => e.seq \in 1 .. top
      /\ top = 0 \/ \E e \in L : e.dev = d /\ e.seq = top
  BY <1>1
<1>6. DeviceSound(m, S) /\ Live(m) \subseteq L
  BY <1>3
<1> HIDE DEF L, S, top, m
<1>7. Max({0} \cup {e.seq : e \in {x \in L : x.dev = d}}) = top
  <2> DEFINE N == {0} \cup {e.seq : e \in {x \in L : x.dev = d}}
  <2>1. N \in SUBSET Nat /\ N # {} /\ \A n \in N : n <= top
    BY <1>5
  <2>2. top \in N
    BY <1>5
  <2> HIDE DEF N
  <2>3. Max(N) \in N /\ \A n \in N : n <= Max(N)
    BY <1>5, <2>1, MaxOfBounded
  <2>4. Max(N) <= top /\ top <= Max(N) /\ Max(N) \in Nat
    BY <2>1, <2>2, <2>3
  <2>5. Max(N) = top
    BY <1>5, <2>4
  <2> QED
    BY <2>5 DEF N
<1>8. HighestStamp(L) \in Stamp /\ \A e \in L : StampLeq(e, HighestStamp(L))
  BY <1>1, <1>2, HighestAbove
<1>9. ASSUME NEW e \in S
      PROVE  StampLeq(e, HighestStamp(L))
  <2>1. PICK x \in L : StampLeq(e, x)
    BY <1>4
  <2>2. e \in Entry /\ x \in Entry
    BY <1>1
  <2>3. e.l \in Nat /\ e.c \in Nat /\ x.l \in Nat /\ x.c \in Nat
        /\ HighestStamp(L).l \in Nat /\ HighestStamp(L).c \in Nat
    BY <1>8, <2>2, EntryFacts DEF Stamp
  <2>4. StampLeq(x, HighestStamp(L))
    BY <1>8
  <2> QED
    BY <2>1, <2>3, <2>4, StampOrder
<1>10. /\ DeviceSound(Merged(EmptyMerge, L), L) /\ Merged(EmptyMerge, L).rows = {}
       /\ Live(Merged(EmptyMerge, L)) \subseteq L
  <2>1. /\ DeviceSound(EmptyMerge, {}) /\ EmptyMerge.rows = {} /\ Live(EmptyMerge) = {}
        /\ EmptyMerge.live = {}
    BY EmptyIsSound
  <2> DEFINE None == {}
             start == EmptyMerge
  <2>2. /\ None \in SUBSET Entry /\ L \in SUBSET Entry /\ None \cup L = L
        /\ L \cap start.live = {} /\ DeviceSound(start, None) /\ start.rows = {}
    BY <1>1, <2>1
  <2>3. KeyDistinct(None \cup L) /\ Live(start) \cup L = L
    BY <1>2, <2>1, <2>2
  <2> HIDE DEF None, start
  <2>4. /\ DeviceSound(Merged(start, L), None \cup L) /\ Merged(start, L).rows = {}
        /\ Live(Merged(start, L)) \subseteq Live(start) \cup L
    BY <1>2, <2>2, <2>3, MergedSound
  <2>5. /\ DeviceSound(Merged(start, L), L) /\ Merged(start, L).rows = {}
        /\ Live(Merged(start, L)) \subseteq L
    BY <2>2, <2>3, <2>4
  <2> QED
    BY <2>5 DEF start
<1>11. DeviceSound(Merged(EmptyMerge, L), S)
  <2> DEFINE n == Merged(EmptyMerge, L)
  <2>1. DeviceSound(n, L) /\ S \in SUBSET Entry /\ L \in SUBSET S
    BY <1>1, <1>10
  <2> HIDE DEF n
  <2>2. DeviceSound(n, S)
    BY <1>6, <2>1, RebuildSound
  <2> QED
    BY <2>2 DEF n
<1> QED
  BY <1>7, <1>8, <1>9, <1>10, <1>11 DEF L, S, top

\* So a restart keeps the invariant.
LEMMA RestartKeeps ==
  ASSUME IInv, NEW d \in Devices, Restart(d)
  PROVE  IInv'
<1> DEFINE fresh == Merged(EmptyMerge, log[d])
           top == HighestStamp(log[d])
           above == Above({SeqId(e) : e \in log[d]}, mark[d])
<1>1. /\ merge' = [merge EXCEPT ![d] = fresh]
      /\ localSeq' = [localSeq EXCEPT ![d] =
                        Max({0} \cup {e.seq : e \in {x \in log[d] : x.dev = d}})]
      /\ clock' = [clock EXCEPT ![d] = top]
      /\ ahead' = [ahead EXCEPT ![d] = above]
      /\ peerMarks' = [peerMarks EXCEPT ![d] = NoClaims]
      /\ stale' = [stale EXCEPT ![d] = DOMAIN peerRows[d]]
      /\ dirty' = [dirty EXCEPT ![d] = {}]
      /\ emitted' = emitted /\ accepted' = accepted /\ log' = log /\ mark' = mark
      /\ peerRows' = peerRows /\ docs' = docs /\ aged' = aged
  BY DEF Restart
<1>2. /\ emitted \in SUBSET Entry /\ Ordered(emitted)
      /\ accepted \in [Devices -> SUBSET emitted] /\ log \in [Devices -> SUBSET emitted]
      /\ log[d] \subseteq accepted[d]
      /\ merge = [x \in Devices |-> merge[x]]
      /\ mark \in [Devices -> [Devices -> Nat]] /\ ahead \in [Devices -> SUBSET Positions]
      /\ localSeq \in [Devices -> Nat] /\ clock \in [Devices -> Stamp]
      /\ peerMarks = [x \in Devices |-> peerMarks[x]]
      /\ \A x \in Devices : IsClaims(peerMarks[x]) /\ IsClaims(peerRows[x])
      /\ stale \in [Devices -> SUBSET Devices] /\ dirty \in [Devices -> SUBSET Devices]
      /\ \A e \in emitted : e.seq \in 1 .. localSeq[e.dev]
      /\ SoundAt(d)
  BY DEF IInv, Shape, Histories, SeqsIdentify, Ordered, Sound, SoundAt
<1>3. /\ Max({0} \cup {e.seq : e \in {x \in log[d] : x.dev = d}}) = localSeq[d]
      /\ top \in Stamp
      /\ \A e \in accepted[d] : StampLeq(e, top)
      /\ DeviceSound(fresh, accepted[d]) /\ fresh.rows = {} /\ Live(fresh) \subseteq log[d]
  BY RestartRecovers
<1>4. localSeq' = localSeq
  BY <1>1, <1>2, <1>3
<1>5. \A p \in above : p \in Positions /\ Claimable(emitted, aged, localSeq, accepted[d], p)
  <2> SUFFICES ASSUME NEW e \in log[d]
               PROVE  SeqId(e) \in Positions
                      /\ Claimable(emitted, aged, localSeq, accepted[d], SeqId(e))
    BY DEF Above
  <2>1. e \in emitted /\ e \in accepted[d]
    BY <1>2
  <2>2. e.dev \in Devices /\ e.seq \in 1 .. localSeq[e.dev]
    BY <1>2, <2>1, EntryFacts
  <2>3. SeqId(e) \in Positions
    BY <1>2, <2>2 DEF SeqId, Positions
  <2> DEFINE A == accepted[d]
             q == localSeq
             old == aged
             E == emitted
  <2>4. /\ E \in SUBSET Entry /\ Ordered(E) /\ \A x \in E : x.seq \in 1 .. q[x.dev]
        /\ e \in A /\ e \in E
    BY <1>2, <2>1
  <2> HIDE DEF A, q, old, E
  <2>5. Claimable(E, old, q, A, SeqId(e))
    BY <2>4, HeldIsClaimable
  <2> QED
    BY <2>3, <2>5 DEF A, q, old, E
<1>6. IsClaims(NoClaims) /\ DOMAIN NoClaims = {}
  <2>1. DOMAIN NoClaims = {}
    BY DEF NoClaims
  <2> QED
    BY <2>1 DEF IsClaims
<1> HIDE DEF fresh, top, above
<1>7. Shape'
  <2>1. clock' \in [Devices -> Stamp] /\ merge' = [x \in Devices |-> merge'[x]]
    BY <1>1, <1>2, <1>3
  <2>2. ahead' \in [Devices -> SUBSET Positions]
    BY <1>1, <1>2, <1>5
  <2>3. /\ peerMarks' = [x \in Devices |-> peerMarks'[x]]
        /\ \A x \in Devices : IsClaims(peerMarks'[x])
    <3> HIDE DEF NoClaims
    <3> QED
      BY <1>1, <1>2, <1>6
  <2>4. stale' \in [Devices -> SUBSET Devices] /\ dirty' \in [Devices -> SUBSET Devices]
    <3>1. DOMAIN peerRows[d] \subseteq Devices
      BY <1>2 DEF IsClaims
    <3> QED
      BY <1>1, <1>2, <3>1
  <2> QED
    BY <1>1, <1>4, <2>1, <2>2, <2>3, <2>4 DEF IInv, Shape, ShapeDoc
<1>8. Histories'
  <2>1. \A x \in Devices : \A e \in accepted'[x] : StampLeq(e, clock'[x])
    <3>1. \A x \in Devices : \A e \in accepted[x] : StampLeq(e, clock[x])
      BY DEF IInv, Histories, ClockCoversAccepted
    <3> QED
      BY <1>1, <1>2, <1>3, <3>1
  <2> QED
    BY <1>1, <1>2, <1>4, <2>1, HistoriesStep DEF IInv
<1>9. Sound'
  <2>1. SoundAt(d)'
    <3>1. merge'[d] = fresh
      BY <1>1, <1>2
    <3> QED
      BY <1>1, <1>2, <1>3, <3>1 DEF SoundAt
  <2>2. ASSUME NEW x \in Devices, x # d
        PROVE  SoundAt(x)'
    <3>1. merge'[x] = merge[x] /\ accepted'[x] = accepted[x] /\ log'[x] = log[x]
      BY <1>1, <1>2, <2>2
    <3>2. SoundAt(x)
      BY DEF IInv, Sound
    <3> QED
      BY <3>1, <3>2 DEF SoundAt
  <2> QED
    BY <2>1, <2>2 DEF Sound
<1>10. Honest'
  <2>1. ASSUME NEW x \in Devices, NEW p \in ahead'[x]
        PROVE  p \in ahead[x] \/ Claimable(emitted', aged', localSeq', accepted'[x], p)
    <3>1. CASE x = d
      <4>1. p \in above
        BY <1>1, <1>2, <2>1, <3>1
      <4> QED
        BY <1>1, <1>4, <1>5, <3>1, <4>1
    <3>2. CASE x # d
      BY <1>1, <1>2, <2>1, <3>2
    <3> QED
      BY <3>1, <3>2
  <2>2. /\ \A s \in Devices : localSeq[s] <= localSeq'[s]
        /\ \A x, s \in Devices : mark[x][s] + 1 .. mark'[x][s] = {}
    <3>1. ASSUME NEW x \in Devices, NEW s \in Devices
          PROVE  localSeq[s] <= localSeq'[s] /\ mark[x][s] + 1 .. mark'[x][s] = {}
      <4>1. localSeq[s] \in Nat /\ mark[x][s] \in Nat /\ mark'[x][s] = mark[x][s]
            /\ localSeq'[s] = localSeq[s]
        BY <1>1, <1>2, <1>4
      <4> QED
        BY <4>1
    <3> QED
      BY <3>1
  <2>3. /\ emitted \subseteq emitted' /\ aged \subseteq aged' /\ emitted' \ emitted = {}
        /\ docs' \ docs = {} /\ \A x \in Devices : accepted[x] \subseteq accepted'[x]
    BY <1>1
  <2>4. Shape /\ Honest
    BY DEF IInv
  <2> QED
    BY <1>7, <2>1, <2>2, <2>3, <2>4, HonestStep
<1>11. Remembered'
  <2>1. \A x, s \in Devices : mark'[x][s] \in Nat /\ mark[x][s] <= mark'[x][s]
    <3>1. \A x, s \in Devices : mark[x][s] \in Nat
      BY <1>2
    <3> QED
      BY <1>1, <3>1
  <2>2. ASSUME NEW x \in Devices, NEW p \in DOMAIN peerMarks'[x]
        PROVE  p \in DOMAIN peerMarks[x] /\ peerMarks'[x][p] = peerMarks[x][p]
    <3>1. CASE x = d
      <4>1. peerMarks'[x] = NoClaims
        BY <1>1, <1>2, <3>1
      <4> QED
        BY <1>6, <2>2, <4>1
    <3>2. CASE x # d
      <4>1. peerMarks'[x] = peerMarks[x]
        BY <1>1, <1>2, <3>2
      <4> QED
        BY <2>2, <4>1
    <3> QED
      BY <3>1, <3>2
  <2>3. ASSUME NEW x \in Devices
        PROVE  /\ DOMAIN peerRows'[x] \subseteq DOMAIN peerMarks'[x] \cup stale'[x]
               /\ stale'[x] \subseteq DOMAIN peerRows'[x]
    <3>1. CASE x = d
      <4>1. stale'[x] = DOMAIN peerRows'[x]
        BY <1>1, <1>2, <3>1
      <4> QED
        BY <4>1
    <3>2. CASE x # d
      <4>1. peerMarks'[x] = peerMarks[x] /\ stale'[x] = stale[x] /\ peerRows'[x] = peerRows[x]
        BY <1>1, <1>2, <3>2
      <4> QED
        BY <4>1 DEF IInv, Remembered
    <3> QED
      BY <3>1, <3>2
  <2>4. Shape /\ Remembered /\ docs' \ docs = {}
    BY <1>1 DEF IInv
  <2> QED
    BY <2>1, <2>2, <2>3, <2>4, RememberedStep
<1> QED
  BY <1>7, <1>8, <1>9, <1>10, <1>11 DEF IInv

-----------------------------------------------------------------------------
(* The cursors documents start from.                                       *)

\* A sender starts from a cursor.
LEMMA SincesFacts ==
  ASSUME IInv, NEW a \in Devices, NEW b \in Devices, NEW since \in Sinces(a, b)
  PROVE  since \in [Devices -> Nat]
<1>1. /\ mark[b] \in [Devices -> Nat] /\ IsClaims(peerMarks[a]) /\ IsClaims(peerRows[a])
  BY DEF IInv, Shape
<1>2. NoMarks \in [Devices -> Nat]
  BY DEF NoMarks
<1>3. \/ since \in {mark[b], NoMarks}
      \/ \E c \in {peerMarks[a], peerRows[a]} : b \in DOMAIN c /\ since = c[b]
  BY DEF Sinces
<1>4. CASE since \in {mark[b], NoMarks}
  BY <1>1, <1>2, <1>4
<1>5. CASE \E c \in {peerMarks[a], peerRows[a]} : b \in DOMAIN c /\ since = c[b]
  BY <1>1, <1>5 DEF IsClaims
<1> QED
  BY <1>3, <1>4, <1>5

\* A clipboard export's cursor, raised past one page.
Raised(a, marks) ==
  LET doc == Document(a, marks)
      passed == {SeqId(e) : e \in doc.entries} \cup doc.skipped
  IN [s \in Devices |-> Max({marks[s]} \cup {p[2] : p \in {q \in passed : q[1] = s}})]

\* The cursors of a clipboard export, page by page.
LEMMA CoverageUnfolds ==
  ASSUME NEW a
  PROVE  /\ Coverage(a)[0] = NoMarks
         /\ \A k \in 1 .. MaxWrites : Coverage(a)[k] = Raised(a, Coverage(a)[k - 1])
<1> DEFINE Value(g, k) == IF k = 0 THEN NoMarks ELSE Raised(a, g[k - 1])
           K == {n \in Nat : \E g : g = [k \in 0 .. n |-> Value(g, k)]}
<1>1. 0 \in K
  <2> DEFINE g == [k \in 0 .. 0 |-> NoMarks]
  <2>1. g = [k \in 0 .. 0 |-> Value(g, k)]
    <3>1. \A k \in 0 .. 0 : k = 0
      OBVIOUS
    <3> QED
      BY <3>1
  <2> QED
    BY <2>1
<1>2. ASSUME NEW n \in Nat, n \in K
      PROVE  n + 1 \in K
  <2>1. PICK g : g = [k \in 0 .. n |-> Value(g, k)]
    BY <1>2
  <2> DEFINE h == [k \in 0 .. n + 1 |-> IF k = n + 1 THEN Raised(a, g[n]) ELSE g[k]]
  <2>2. ASSUME NEW k \in 0 .. n + 1
        PROVE  h[k] = Value(h, k)
    <3>1. CASE k = n + 1
      <4>1. n \in 0 .. n + 1 /\ n # n + 1 /\ k # 0 /\ k - 1 = n
        BY <3>1
      <4>2. h[n] = g[n] /\ h[k] = Raised(a, g[n])
        BY <3>1, <4>1
      <4> HIDE DEF h
      <4> QED
        BY <4>1, <4>2
    <3>2. CASE k # n + 1
      <4>1. k \in 0 .. n /\ h[k] = g[k]
        BY <3>2
      <4>2. g[k] = Value(g, k)
        BY <2>1, <4>1
      <4>3. CASE k = 0
        BY <4>1, <4>2, <4>3
      <4>4. CASE k # 0
        <5>1. k - 1 \in 0 .. n + 1 /\ k - 1 # n + 1
          BY <3>2, <4>4
        <5>2. h[k - 1] = g[k - 1]
          BY <5>1
        <5> HIDE DEF h
        <5> QED
          BY <4>1, <4>2, <4>4, <5>2
      <4> QED
        BY <4>3, <4>4
    <3> QED
      BY <3>1, <3>2
  <2>3. h = [k \in 0 .. n + 1 |-> h[k]]
    OBVIOUS
  <2> HIDE DEF h
  <2>4. h = [k \in 0 .. n + 1 |-> Value(h, k)]
    BY <2>2, <2>3
  <2> QED
    BY <2>4
<1>3. MaxWrites \in K
  <2>1. \A n \in Nat : n \in K => n + 1 \in K
    BY <1>2
  <2> HIDE DEF K
  <2> QED
    BY <1>1, <2>1, NumbersBySteps, EngineAssumption
<1> DEFINE f == CHOOSE g : g = [k \in 0 .. MaxWrites |-> Value(g, k)]
<1>4. f = [k \in 0 .. MaxWrites |-> Value(f, k)]
  BY <1>3
<1>5. Coverage(a) = f
  BY DEF Coverage, Raised
<1> HIDE DEF f
<1>6. MaxWrites \in Nat
  BY EngineAssumption
<1>7. f[0] = NoMarks /\ \A k \in 1 .. MaxWrites : f[k] = Raised(a, f[k - 1])
  <2>1. 0 \in 0 .. MaxWrites /\ \A k \in 1 .. MaxWrites : k \in 0 .. MaxWrites /\ k # 0
    BY <1>6
  <2> QED
    BY <1>4, <2>1
<1> QED
  BY <1>5, <1>7

\* Each of them is a cursor.
LEMMA RaisedFacts ==
  ASSUME IInv, NEW a \in Devices, NEW marks \in [Devices -> Nat]
  PROVE  Raised(a, marks) \in [Devices -> Nat]
<1> DEFINE doc == Document(a, marks)
           passed == {SeqId(e) : e \in doc.entries} \cup doc.skipped
<1>1. /\ log[a] \subseteq emitted /\ localSeq \in [Devices -> Nat] /\ emitted \subseteq Entry
      /\ \A e \in emitted : e.seq \in 1 .. localSeq[e.dev]
  BY DEF IInv, Shape, Histories
<1>2. doc.entries \subseteq log[a] /\ doc.skipped = Skipped(a, marks, Page(a, marks))
  BY DEF Document, Page, Window
<1> HIDE DEF doc
<1>3. \A p \in passed : p[1] \in Devices /\ p[2] \in 1 .. localSeq[p[1]]
  <2>1. ASSUME NEW e \in doc.entries
        PROVE  SeqId(e)[1] \in Devices /\ SeqId(e)[2] \in 1 .. localSeq[SeqId(e)[1]]
    <3>1. e \in emitted /\ e.dev \in Devices /\ e.seq \in 1 .. localSeq[e.dev]
      BY <1>1, <1>2, EntryFacts
    <3> QED
      BY <3>1 DEF SeqId
  <2>2. ASSUME NEW p \in doc.skipped
        PROVE  p[1] \in Devices /\ p[2] \in 1 .. localSeq[p[1]]
    BY <1>2, SkippedIsClaimable DEF Claims, Claimable
  <2> QED
    BY <2>1, <2>2
<1> DEFINE N(s) == {marks[s]} \cup {p[2] : p \in {q \in passed : q[1] = s}}
<1>4. Raised(a, marks) = [s \in Devices |-> Max(N(s))]
  BY DEF Raised, doc
<1> HIDE DEF passed
<1>5. ASSUME NEW s \in Devices
      PROVE  Max(N(s)) \in Nat
  <2>1. marks[s] \in Nat /\ localSeq[s] \in Nat
    BY <1>1
  <2>2. N(s) \in SUBSET Nat /\ N(s) # {}
    BY <1>3, <2>1
  <2>3. \A n \in N(s) : n <= marks[s] + localSeq[s]
    BY <1>3, <2>1
  <2>4. marks[s] + localSeq[s] \in Nat
    BY <2>1
  <2> DEFINE M == N(s)
             b == marks[s] + localSeq[s]
  <2> HIDE DEF M, b, N
  <2>5. Max(M) \in M
    BY <2>2, <2>3, <2>4, MaxOfBounded DEF M, b
  <2> QED
    BY <2>2, <2>5 DEF M
<1> QED
  BY <1>4, <1>5

\* So are all the cursors of an export.
LEMMA CoverageFacts ==
  ASSUME IInv, NEW a \in Devices
  PROVE  \A k \in 0 .. MaxWrites : Coverage(a)[k] \in [Devices -> Nat]
<1> DEFINE f == Coverage(a)
           K == {n \in Nat : n <= MaxWrites => f[n] \in [Devices -> Nat]}
<1>1. MaxWrites \in Nat
  BY EngineAssumption
<1>2. f[0] = NoMarks /\ \A k \in 1 .. MaxWrites : f[k] = Raised(a, f[k - 1])
  BY CoverageUnfolds
<1> HIDE DEF f
<1>3. 0 \in K
  BY <1>2 DEF NoMarks
<1>4. ASSUME NEW n \in Nat, n \in K
      PROVE  n + 1 \in K
  <2> SUFFICES ASSUME n + 1 <= MaxWrites
               PROVE  f[n + 1] \in [Devices -> Nat]
    OBVIOUS
  <2>1. f[n] \in [Devices -> Nat]
    BY <1>1, <1>4
  <2>2. n + 1 \in 1 .. MaxWrites /\ (n + 1) - 1 = n
    BY <1>1
  <2>3. f[n + 1] = Raised(a, f[n])
    BY <1>2, <2>2
  <2> DEFINE marks == f[n]
  <2> HIDE DEF marks
  <2>4. Raised(a, marks) \in [Devices -> Nat]
    BY <2>1, RaisedFacts DEF marks
  <2> QED
    BY <2>3, <2>4 DEF marks
<1>5. \A n \in Nat : n \in K
  <2>1. \A n \in Nat : n \in K => n + 1 \in K
    BY <1>4
  <2> HIDE DEF K
  <2> QED
    BY <1>3, <2>1, NumbersBySteps
<1> QED
  BY <1>1, <1>5 DEF f

-----------------------------------------------------------------------------
(* The invariant.                                                          *)

\* It holds at the start: nobody has anything, nobody claims anything.
LEMMA InitHolds == Init => IInv
<1> SUFFICES ASSUME Init
             PROVE  IInv
  OBVIOUS
<1>1. /\ emitted = {} /\ docs = {} /\ aged = {}
      /\ accepted = [d \in Devices |-> {}] /\ log = [d \in Devices |-> {}]
      /\ merge = [d \in Devices |-> EmptyMerge]
      /\ mark = [d \in Devices |-> NoMarks] /\ ahead = [d \in Devices |-> {}]
      /\ localSeq = [d \in Devices |-> 0] /\ clock = [d \in Devices |-> [l |-> 0, c |-> 0]]
      /\ peerMarks = [d \in Devices |-> NoClaims] /\ peerRows = [d \in Devices |-> NoClaims]
      /\ stale = [d \in Devices |-> {}] /\ dirty = [d \in Devices |-> {}]
  BY DEF Init
<1>2. IsClaims(NoClaims) /\ DOMAIN NoClaims = {}
  <2>1. DOMAIN NoClaims = {}
    BY DEF NoClaims
  <2> QED
    BY <2>1 DEF IsClaims
<1>3. NoMarks \in [Devices -> Nat] /\ \A s \in Devices : NoMarks[s] = 0
  BY DEF NoMarks
<1>4. [l |-> 0, c |-> 0] \in Stamp
  BY ConstantsAssumption DEF Stamp
<1>5. Shape
  <2>1. IsFiniteSet(emitted)
    BY <1>1, FS_EmptySet
  <2>2. /\ mark \in [Devices -> [Devices -> Nat]] /\ clock \in [Devices -> Stamp]
        /\ localSeq \in [Devices -> Nat]
    BY <1>1, <1>3, <1>4
  <2>3. \A d \in Devices : peerMarks[d] = NoClaims /\ peerRows[d] = NoClaims
    BY <1>1
  <2>4. \A d \in Devices : IsClaims(peerMarks[d]) /\ IsClaims(peerRows[d])
    BY <1>2, <2>3
  <2>5. /\ merge = [d \in Devices |-> merge[d]] /\ peerMarks = [d \in Devices |-> peerMarks[d]]
        /\ peerRows = [d \in Devices |-> peerRows[d]]
    BY <1>1
  <2>6. /\ accepted \in [Devices -> SUBSET emitted] /\ log \in [Devices -> SUBSET emitted]
        /\ ahead \in [Devices -> SUBSET Positions]
        /\ stale \in [Devices -> SUBSET Devices] /\ dirty \in [Devices -> SUBSET Devices]
    BY <1>1
  <2> QED
    BY <1>1, <2>1, <2>2, <2>4, <2>5, <2>6 DEF Shape
<1>6. Histories
  BY <1>1 DEF Histories, SeqsIdentify, ClockCoversAccepted
<1>7. Sound
  <2> SUFFICES ASSUME NEW d \in Devices
               PROVE  SoundAt(d)
    BY DEF Sound
  <2>1. merge[d] = EmptyMerge /\ accepted[d] = {} /\ log[d] = {}
    BY <1>1
  <2> QED
    BY <2>1, EmptyIsSound DEF SoundAt
<1>8. Honest
  <2>1. ASSUME NEW d \in Devices, NEW s \in Devices
        PROVE  1 .. mark[d][s] = {}
    <3>1. mark[d][s] = 0
      BY <1>1, <1>3
    <3> QED
      BY <3>1
  <2>2. \A d \in Devices : ahead[d] = {}
    BY <1>1
  <2> QED
    BY <1>1, <2>1, <2>2 DEF Honest
<1>9. Remembered
  <2>1. \A d \in Devices : DOMAIN peerMarks[d] = {} /\ DOMAIN peerRows[d] = {} /\ stale[d] = {}
    BY <1>1, <1>2
  <2> QED
    BY <1>1, <2>1 DEF Remembered
<1> QED
  BY <1>5, <1>6, <1>7, <1>8, <1>9 DEF IInv

\* A write keeps it.
LEMMA WriteKeeps ==
  ASSUME IInv, NEW d \in Devices, NEW rec \in Records,
         NEW field \in Fields \cup {TombField}, NEW val \in 0 .. MaxInt,
         NEW now \in 0 .. MaxInt, Write(d, rec, field, val, now)
  PROVE  IInv'
<1>1. PICK e \in Entry, stamp \in Stamp : WriteOf(d, e, stamp)
  BY WriteWrites
<1> QED
  BY <1>1, WriteShape, WriteHistories, WriteSound, WriteHonest, WriteRemembered DEF IInv

\* Every local write is one.
LEMMA LocalWriteIsWrite ==
  ASSUME NEW d \in Devices, NEW now, LocalWrite(d, now)
  PROVE  \E rec \in Records, field \in Fields \cup {TombField}, val \in 0 .. MaxInt :
           Write(d, rec, field, val, now)
<1>1. PICK rec \in Records :
        \/ \E field \in Fields, val \in Values : Write(d, rec, field, val, now)
        \/ \E field \in LwwFields, val \in Values : Write(d, rec, field, val, now)
        \/ Write(d, rec, TombField, 0, now)
  BY DEF LocalWrite
<1>2. Values \subseteq 0 .. MaxInt /\ 0 \in 0 .. MaxInt /\ LwwFields \subseteq Fields
  BY EngineAssumption, ConstantsAssumption DEF Fields
<1>3. CASE \E field \in Fields, val \in Values : Write(d, rec, field, val, now)
  BY <1>2, <1>3
<1>4. CASE \E field \in LwwFields, val \in Values : Write(d, rec, field, val, now)
  BY <1>2, <1>4
<1>5. CASE Write(d, rec, TombField, 0, now)
  BY <1>2, <1>5
<1> QED
  BY <1>1, <1>3, <1>4, <1>5

\* A document applied keeps it.
LEMMA ApplyKeeps ==
  ASSUME IInv, NEW pkt \in docs, NEW now \in 0 .. MaxInt, Apply(pkt, now)
  PROVE  IInv'
BY ApplyShape, ApplyHistories, ApplySound, ApplyHonest, ApplyRemembered DEF IInv

\* A document exported keeps it.
LEMMA ExportKeeps ==
  ASSUME IInv, NEW a, NEW b, Export(a, b)
  PROVE  IInv'
<1>1. a \in Devices /\ b \in Devices
  BY EngineAssumption DEF Export
<1>2. PICK since \in Sinces(a, b) : Ship(Document(a, since), b, TRUE)
  BY DEF Export
<1>3. since \in [Devices -> Nat]
  BY <1>1, SincesFacts
<1> QED
  BY <1>1, <1>2, <1>3, ShipKeeps

\* So does a clipboard export pasted.
LEMMA PasteKeeps ==
  ASSUME IInv, NEW a, NEW b, Paste(a, b)
  PROVE  IInv'
<1>1. a \in Devices /\ b \in Devices
  BY EngineAssumption DEF Paste
<1>2. PICK k \in 0 .. MaxWrites - 1 : Ship(Document(a, Coverage(a)[k]), b, FALSE)
  BY DEF Paste
<1> DEFINE since == Coverage(a)[k]
<1>3. since \in [Devices -> Nat]
  <2>1. k \in 0 .. MaxWrites
    BY EngineAssumption
  <2> QED
    BY <1>1, <2>1, CoverageFacts
<1>4. Ship(Document(a, since), b, FALSE)
  BY <1>2
<1> HIDE DEF since
<1> QED
  BY <1>1, <1>3, <1>4, ShipKeeps

\* Every step keeps it.
LEMMA NextKeeps == IInv /\ [Next]_vars => IInv'
<1> SUFFICES ASSUME IInv, [Next]_vars
             PROVE  IInv'
  OBVIOUS
<1>1. CASE UNCHANGED vars
  <2>1. /\ emitted' = emitted /\ accepted' = accepted /\ log' = log /\ merge' = merge
        /\ mark' = mark /\ ahead' = ahead /\ localSeq' = localSeq /\ clock' = clock
        /\ peerMarks' = peerMarks /\ peerRows' = peerRows /\ stale' = stale /\ dirty' = dirty
        /\ docs' = docs /\ aged' = aged
    BY <1>1 DEF vars
  <2>2. Shape'
    BY <2>1 DEF IInv, Shape, ShapeDoc
  <2>3. Histories' /\ Sound'
    BY <2>1 DEF IInv, Histories, SeqsIdentify, ClockCoversAccepted, Sound, SoundAt
  <2>4. Honest'
    BY <2>1 DEF IInv, Honest, Claims
  <2>5. Remembered'
    BY <2>1 DEF IInv, Remembered
  <2> QED
    BY <2>2, <2>3, <2>4, <2>5 DEF IInv
<1>2. ASSUME NEW d \in Devices, NEW now \in Times, LocalWrite(d, now)
      PROVE  IInv'
  <2>1. now \in 0 .. MaxInt
    BY EngineAssumption
  <2>2. PICK rec \in Records, field \in Fields \cup {TombField}, val \in 0 .. MaxInt :
          Write(d, rec, field, val, now)
    BY <1>2, LocalWriteIsWrite
  <2> QED
    BY <2>1, <2>2, WriteKeeps
<1>3. ASSUME NEW d \in Devices, NEW now \in Times, WriteFails(d, now)
      PROVE  IInv'
  BY <1>3, WriteFailsKeeps, EngineAssumption
<1>4. ASSUME NEW a, NEW b, Export(a, b)
      PROVE  IInv'
  BY <1>4, ExportKeeps
<1>5. ASSUME NEW a, NEW b, Paste(a, b)
      PROVE  IInv'
  BY <1>5, PasteKeeps
<1>6. ASSUME NEW pkt \in docs, NEW now \in Times, Apply(pkt, now)
      PROVE  IInv'
  BY <1>6, ApplyKeeps, EngineAssumption
<1>7. ASSUME NEW pkt \in docs, NEW now \in Times, ApplyFails(pkt, now)
      PROVE  IInv'
  BY <1>7, ApplyFailsKeeps
<1>8. ASSUME NEW pkt \in docs, Lose(pkt)
      PROVE  IInv'
  BY <1>8, LoseKeeps
<1>9. ASSUME NEW d \in Devices, Restart(d)
      PROVE  IInv'
  BY <1>9, RestartKeeps
<1>10. ASSUME NEW rec \in PlayRecords, Age(rec)
       PROVE  IInv'
  BY <1>10, AgeKeeps
<1> QED
  BY <1>1, <1>2, <1>3, <1>4, <1>5, <1>6, <1>7, <1>8, <1>9, <1>10 DEF Next

\* The inductive invariant of the engines.
THEOREM EngineInvariance == Spec => []IInv
<1>1. Init => IInv
  BY InitHolds
<1>2. IInv /\ [Next]_vars => IInv'
  BY NextKeeps
<1> QED
  BY <1>1, <1>2, PTL DEF Spec

-----------------------------------------------------------------------------
(* What the invariant says in a state.                                     *)

\* What somebody needs of a change: the change itself, or the last of those
\* that supersede it.
LEMMA Backing ==
  ASSUME IInv, NEW e \in emitted, ~Retired(e)
  PROVE  \E w \in emitted : /\ w = e \/ Supersedes(w, e)
                            /\ Essential(emitted, aged, w)
<1> DEFINE over == {w \in emitted : Supersedes(w, e)}
           top == Newest(over)
<1>1. emitted \in SUBSET Entry /\ IsFiniteSet(emitted)
  BY DEF IInv, Shape
<1>2. CASE over = {}
  <2>1. Essential(emitted, aged, e)
    BY <1>2 DEF Essential, Retired
  <2> QED
    BY <2>1
<1>3. CASE over # {}
  <2>1. over \in SUBSET Entry /\ IsFiniteSet(over)
    BY <1>1, FS_Subset
  <2>2. top \in over /\ \A x \in over : ~Less(top, x)
    <3> HIDE DEF over
    <3> QED
      BY <1>3, <2>1, NewestFacts
  <2>3. top \in emitted /\ Supersedes(top, e) /\ top \in Entry /\ e \in Entry
    BY <1>1, <2>2
  <2>4. ASSUME NEW w \in emitted, Supersedes(w, top)
        PROVE  FALSE
    <3>1. w \in Entry
      BY <1>1
    <3> HIDE DEF top
    <3>2. Supersedes(w, e)
      BY <2>3, <2>4, <3>1, SupersedesTransitive
    <3>3. Less(top, w)
      BY <2>4 DEF Supersedes
    <3> QED
      BY <2>2, <3>2, <3>3
  <2>5. ~(top.rec \in aged /\ ~IsTomb(top))
    <3> HIDE DEF top
    <3> SUFFICES ASSUME top.rec \in aged, ~IsTomb(top)
                 PROVE  FALSE
      OBVIOUS
    <3>1. top.rec = e.rec /\ SamePartition(top, e)
      BY <2>3 DEF Supersedes
    <3>2. ~IsTomb(e)
      BY <3>1 DEF SamePartition, SlotOf, IsTomb
    <3> QED
      BY <3>1, <3>2 DEF Retired
  <2> HIDE DEF top
  <2> QED
    BY <2>3, <2>4, <2>5 DEF Essential
<1> QED
  BY <1>2, <1>3

\* A cursor at or above an essential change tells of one its device holds.
LEMMA ClaimedIsHeld ==
  ASSUME IInv, NEW d \in Devices, NEW e \in emitted, Essential(emitted, aged, e),
         e.seq <= mark[d][e.dev]
  PROVE  e \in accepted[d]
<1>1. /\ e.dev \in Devices /\ e.seq \in 1 .. localSeq[e.dev]
      /\ mark \in [Devices -> [Devices -> Nat]] /\ localSeq \in [Devices -> Nat]
  BY EntryFacts DEF IInv, Shape, Histories
<1>2. e.seq \in 1 .. mark[d][e.dev]
  BY <1>1
<1>3. Claims(accepted[d], <<e.dev, e.seq>>)
  BY <1>1, <1>2 DEF IInv, Honest
<1> QED
  BY <1>3 DEF Claims, Claimable, SeqId

\* No cursor runs ahead of what was emitted.
LEMMA MarksAreEmissions ==
  ASSUME IInv, NEW d \in Devices, NEW s \in Devices
  PROVE  mark[d][s] \in 0 .. localSeq[s]
<1>1. mark[d][s] \in Nat /\ localSeq[s] \in Nat
  BY DEF IInv, Shape
<1>2. CASE mark[d][s] = 0
  BY <1>1, <1>2
<1>3. CASE mark[d][s] # 0
  <2>1. mark[d][s] \in 1 .. mark[d][s]
    BY <1>1, <1>3
  <2>2. Claims(accepted[d], <<s, mark[d][s]>>)
    BY <2>1 DEF IInv, Honest
  <2> QED
    BY <1>1, <2>2 DEF Claims, Claimable
<1> QED
  BY <1>2, <1>3

\* The state is typed.
LEMMA InvariantIsTyped == IInv => TypeOK
<1> SUFFICES ASSUME IInv
             PROVE  TypeOK
  OBVIOUS
<1>1. ASSUME NEW d \in Devices
      PROVE  /\ log[d] \subseteq accepted[d] /\ accepted[d] \subseteq emitted
             /\ Live(merge[d]) \subseteq log[d]
             /\ clock[d] \in Stamp
             /\ DOMAIN peerMarks[d] \cup DOMAIN peerRows[d] \cup stale[d] \subseteq Devices
             /\ stale[d] \subseteq DOMAIN peerRows[d]
  <2>1. SoundAt(d) /\ accepted[d] \subseteq emitted /\ clock[d] \in Stamp
        /\ IsClaims(peerMarks[d]) /\ IsClaims(peerRows[d])
        /\ stale[d] \subseteq DOMAIN peerRows[d]
    BY DEF IInv, Shape, Sound, Remembered
  <2> QED
    BY <2>1 DEF SoundAt, IsClaims
<1>2. emitted \subseteq Entry /\ \A pkt \in docs : pkt.doc.entries \subseteq emitted
  BY DEF IInv, Shape, ShapeDoc
<1> QED
  BY <1>1, <1>2, MarksAreEmissions DEF TypeOK

\* A cursor's claims are backed.
LEMMA InvariantIsHonest == IInv => ClaimsAreBacked
<1> SUFFICES ASSUME IInv, NEW d \in Devices, NEW e \in emitted,
                    e.seq <= mark[d][e.dev], ~Retired(e), e \notin accepted[d]
             PROVE  \E w \in emitted :
                      Supersedes(w, e) /\ (w \in accepted[d] \/ w.seq > mark[d][w.dev])
  BY DEF ClaimsAreBacked
<1>1. PICK w \in emitted : (w = e \/ Supersedes(w, e)) /\ Essential(emitted, aged, w)
  BY Backing
<1>2. w.seq <= mark[d][w.dev] => w \in accepted[d]
  BY <1>1, ClaimedIsHeld
<1>3. w # e
  BY <1>2
<1>4. w.seq \in Nat /\ mark[d][w.dev] \in Nat
  <2>1. w.dev \in Devices /\ w.seq \in 1 .. localSeq[w.dev] /\ localSeq \in [Devices -> Nat]
        /\ mark \in [Devices -> [Devices -> Nat]]
    BY EntryFacts DEF IInv, Shape, Histories
  <2> QED
    BY <2>1
<1> QED
  BY <1>1, <1>2, <1>3, <1>4

\* The log means what everything accepted means.
LEMMA InvariantLosesNothing == IInv => NothingLost
<1> SUFFICES ASSUME IInv, NEW d \in Devices
             PROVE  View(log[d]) = View(accepted[d])
  BY DEF NothingLost
<1> DEFINE m == merge[d]
           S == accepted[d]
           L == log[d]
<1>1. S \in SUBSET Entry /\ DeviceSound(m, S) /\ L \in SUBSET S /\ Live(m) \subseteq L
  BY DEF IInv, Shape, Sound, SoundAt
<1> HIDE DEF m, S, L
<1>2. View(L) = View(S)
  BY <1>1, PartShows
<1> QED
  BY <1>2 DEF S, L

\* What a device shows is what the entries it accepted mean.
LEMMA ShownIsAccepted ==
  ASSUME IInv, NEW d \in Devices
  PROVE  merge[d].shown = View(accepted[d])
<1> DEFINE m == merge[d]
           S == accepted[d]
<1>1. S \in SUBSET Entry /\ LiveCovers(m, S) /\ CachesFresh(m)
  BY DEF IInv, Shape, Sound, SoundAt, DeviceSound
<1> HIDE DEF m, S
<1>2. m.shown = View(S)
  BY <1>1, FrontierView
<1> QED
  BY <1>2 DEF m, S

\* A part of all changes that holds the essential ones shows the slots that
\* are not past retention as all of them do.
LEMMA EssentialShows ==
  ASSUME IInv, NEW S \in SUBSET emitted,
         \A e \in emitted : Essential(emitted, aged, e) => e \in S,
         NEW slot \in Slots, slot[1] \notin aged
  PROVE  View(S)[slot] = View(emitted)[slot]
<1> DEFINE X == Cell(Alive(S), slot)
           Y == Cell(Alive(emitted), slot)
<1>1. emitted \in SUBSET Entry
  BY DEF IInv, Shape
<1>2. ASSUME NEW x \in Alive(S)
      PROVE  x \in Alive(emitted)
  <2>1. x \in S /\ x \in emitted /\ ~IsTomb(x)
        /\ \A t \in S : IsTomb(t) /\ t.rec = x.rec => Less(t, x)
    BY DEF Alive
  <2>2. ASSUME NEW t \in emitted, IsTomb(t), t.rec = x.rec
        PROVE  Less(t, x)
    <3>1. PICK w \in emitted : (w = t \/ Supersedes(w, t)) /\ Essential(emitted, aged, w)
      BY <2>2, Backing DEF Retired
    <3>2. IsTomb(w) /\ w.rec = t.rec /\ (w = t \/ Less(t, w))
      BY <2>2, <3>1 DEF Supersedes, SamePartition, SlotOf, IsTomb
    <3>3. Less(w, x)
      BY <2>1, <2>2, <3>1, <3>2
    <3>4. w \in Entry /\ t \in Entry /\ x \in Entry
      BY <1>1, <2>1
    <3> QED
      BY <3>2, <3>3, <3>4, LessOrder
  <2> QED
    BY <2>1, <2>2 DEF Alive
<1>3. X \subseteq Y
  BY <1>2 DEF Cell
<1>4. ASSUME NEW y \in Y, y \notin X
      PROVE  \E w \in X : Beats(w, y) /\ (slot[2] \in SumFields => w.dev = y.dev)
  <2>1. /\ y \in emitted /\ y \in Entry /\ ~IsTomb(y) /\ SlotOf(y) = slot
        /\ \A t \in emitted : IsTomb(t) /\ t.rec = y.rec => Less(t, y)
    BY <1>1 DEF Cell, Alive
  <2>2. y.rec = slot[1] /\ y.field = slot[2]
    BY <2>1 DEF SlotOf
  <2>3. PICK w \in emitted : (w = y \/ Supersedes(w, y)) /\ Essential(emitted, aged, w)
    BY <2>1, <2>2, Backing DEF Retired
  <2>4. w \in S /\ w \in Entry
    BY <1>1, <2>3
  <2>5. CASE w = y
    <3>1. y \in Alive(S)
      BY <2>1, <2>4, <2>5 DEF Alive
    <3> QED
      BY <1>4, <2>1, <3>1 DEF Cell
  <2>6. CASE Supersedes(w, y)
    <3>1. ~IsTomb(w)
      <4>1. ASSUME IsTomb(w)
            PROVE  FALSE
        <5>1. Less(w, y) /\ Less(y, w)
          BY <2>1, <2>6, <4>1 DEF Supersedes
        <5> QED
          BY <2>1, <2>4, <5>1, LessOrder
      <4> QED
        BY <4>1
    <3>2. /\ Less(y, w) /\ w.rec = y.rec /\ SamePartition(w, y)
          /\ Numeric(y.field) => w.val >= y.val
      BY <2>6, <3>1 DEF Supersedes
    <3>3. SlotOf(w) = slot /\ w.field = y.field
      BY <2>1, <3>2 DEF SamePartition, SlotOf
    <3>4. w \in Alive(S)
      <4>1. ASSUME NEW t \in S, IsTomb(t), t.rec = w.rec
            PROVE  Less(t, w)
        <5>1. Less(t, y) /\ t \in Entry
          BY <1>1, <2>1, <3>2, <4>1
        <5> QED
          BY <2>1, <2>4, <3>2, <5>1, LessOrder
      <4> QED
        BY <2>4, <3>1, <4>1 DEF Alive
    <3>5. Beats(w, y)
      <4>1. w.val \in Nat /\ y.val \in Nat
        BY <2>1, <2>4, EntryFacts
      <4> QED
        BY <3>2, <3>3, <4>1 DEF Beats
    <3>6. slot[2] \in SumFields => w.dev = y.dev
      BY <2>2, <3>2, <3>3 DEF SamePartition
    <3> QED
      BY <3>3, <3>4, <3>5, <3>6 DEF Cell
  <2> QED
    BY <2>3, <2>5, <2>6
<1>5. Y \in SUBSET Entry /\ \A y \in Y : y.field = slot[2]
  BY <1>1 DEF Cell, Alive, SlotOf
<1> HIDE DEF X, Y
<1>6. CellValue(slot[2], X) = CellValue(slot[2], Y)
  <2>1. \A y \in Y : y \in X \/ \E w \in X : Beats(w, y)
                                           /\ (slot[2] \in SumFields => w.dev = y.dev)
    BY <1>4
  <2> QED
    BY <1>3, <1>5, <2>1, SlotView
<1> QED
  BY <1>6 DEF View, X, Y

\* A device whose cursors claim everything shows what everything means.
LEMMA InvariantConverges == IInv => CaughtUpConverges
<1> SUFFICES ASSUME IInv, NEW d \in Devices, \A s \in Devices : mark[d][s] = localSeq[s],
                    NEW slot \in Slots, slot[1] \notin aged
             PROVE  merge[d].shown[slot] = View(emitted)[slot]
  BY DEF CaughtUpConverges
<1>1. ASSUME NEW e \in emitted, Essential(emitted, aged, e)
      PROVE  e \in accepted[d]
  <2>1. e.dev \in Devices /\ e.seq \in 1 .. localSeq[e.dev] /\ localSeq \in [Devices -> Nat]
    BY EntryFacts DEF IInv, Shape, Histories
  <2>2. e.seq <= mark[d][e.dev]
    BY <2>1
  <2> QED
    BY <1>1, <2>2, ClaimedIsHeld
<1> DEFINE S == accepted[d]
<1>2. S \in SUBSET emitted /\ \A e \in emitted : Essential(emitted, aged, e) => e \in S
  BY <1>1 DEF IInv, Shape
<1>3. merge[d].shown = View(S)
  BY ShownIsAccepted
<1> HIDE DEF S
<1>4. View(S)[slot] = View(emitted)[slot]
  BY <1>2, EssentialShows
<1> QED
  BY <1>3, <1>4

-----------------------------------------------------------------------------
(* Compaction.                                                             *)

\* Rows leave a log only in the compaction that follows a document.
LEMMA OnlyApplyDrops ==
  ASSUME IInv, [Next]_vars, NEW d \in Devices, NEW e \in log[d], e \notin log'[d]
  PROVE  \E pkt \in docs, now \in Times : Apply(pkt, now)
<1> SUFFICES ASSUME ~\E pkt \in docs, now \in Times : Apply(pkt, now)
             PROVE  e \in log'[d]
  OBVIOUS
<1>1. log \in [Devices -> SUBSET emitted]
  BY DEF IInv, Shape
<1>2. ASSUME NEW x \in Devices, NEW now \in Times, LocalWrite(x, now)
      PROVE  e \in log'[d]
  <2>1. PICK rec, field, val : Write(x, rec, field, val, now)
    BY <1>2 DEF LocalWrite
  <2>2. \E new : log' = [log EXCEPT ![x] = log[x] \cup {new}]
    BY <2>1 DEF Write
  <2> QED
    BY <1>1, <2>2
<1>3. log' = log => e \in log'[d]
  OBVIOUS
<1>4. ASSUME NEW x, NEW now, WriteFails(x, now)
      PROVE  log' = log
  BY <1>4 DEF WriteFails
<1>5. ASSUME NEW a, NEW b, Export(a, b) \/ Paste(a, b)
      PROVE  log' = log
  BY <1>5 DEF Export, Paste, Ship
<1>6. ASSUME NEW pkt, NEW now, ApplyFails(pkt, now)
      PROVE  log' = log
  BY <1>6 DEF ApplyFails
<1>7. ASSUME NEW pkt, Lose(pkt)
      PROVE  log' = log
  BY <1>7 DEF Lose
<1>8. ASSUME NEW x, Restart(x)
      PROVE  log' = log
  BY <1>8 DEF Restart
<1>9. ASSUME NEW rec, Age(rec)
      PROVE  log' = log
  BY <1>9 DEF Age
<1>10. UNCHANGED vars => log' = log
  BY DEF vars
<1> QED
  BY <1>2, <1>3, <1>4, <1>5, <1>6, <1>7, <1>8, <1>9, <1>10 DEF Next

\* Everyone a device remembers claims what it drops.
LEMMA DropsAreClaimed ==
  ASSUME IInv, NEW pkt \in docs, NEW now \in Times, Apply(pkt, now),
         NEW d \in Devices, NEW e \in log[d], e \notin log'[d],
         NEW p \in DOMAIN peerRows[d] \cup DOMAIN peerMarks[d]
  PROVE  e.seq <= mark[p][e.dev]
<1>1. /\ pkt.to \in Devices /\ pkt.doc.from \in Devices /\ pkt.doc.cursor \in [Devices -> Nat]
      /\ log \in [Devices -> SUBSET emitted] /\ emitted \subseteq Entry
      /\ mark \in [Devices -> [Devices -> Nat]] /\ localSeq \in [Devices -> Nat]
      /\ \A x \in Devices : IsClaims(peerMarks[x]) /\ IsClaims(peerRows[x])
  BY DEF IInv, Shape, ShapeDoc
<1>2. e \in emitted /\ e.dev \in Devices /\ e.seq \in Nat
  <2>1. e \in emitted
    BY <1>1
  <2>2. e.seq \in 1 .. localSeq[e.dev] /\ e.dev \in Devices
    BY <1>1, <2>1, EntryFacts DEF IInv, Histories
  <2> QED
    BY <1>1, <2>1, <2>2
<1>3. now \in 0 .. MaxInt
  BY EngineAssumption
<1>4. PICK rest : /\ log' = [log EXCEPT ![pkt.to] = rest]
                  /\ (log[pkt.to] \cup Fresh(pkt)) \ Dropped(pkt) \subseteq rest
  BY <1>3, ApplyEffect
<1>5. d = pkt.to /\ e \in Dropped(pkt)
  BY <1>1, <1>4
<1>6. /\ SilentWith(pkt) = {}
      /\ \A q \in DOMAIN ClaimsWith(pkt) : e.seq <= ClaimsWith(pkt)[q][e.dev]
  BY <1>5, DroppedFacts
<1>7. /\ DOMAIN peerMarks[d] \subseteq DOMAIN ClaimsWith(pkt)
      /\ \A q \in DOMAIN ClaimsWith(pkt) :
           \/ q \in DOMAIN peerMarks[d] /\ ClaimsWith(pkt)[q] = peerMarks[d][q]
           \/ q = pkt.doc.from /\ ClaimsWith(pkt)[q] = pkt.doc.cursor
      /\ stale[d] \subseteq SilentWith(pkt) \cup DOMAIN ClaimsWith(pkt)
  BY <1>5, ClaimsWithFacts
<1>8. p \in DOMAIN ClaimsWith(pkt)
  <2>1. DOMAIN peerRows[d] \subseteq DOMAIN peerMarks[d] \cup stale[d]
    BY DEF IInv, Remembered
  <2> QED
    BY <1>6, <1>7, <2>1
<1>9. ClaimsWith(pkt)[p][e.dev] \in Nat /\ ClaimsWith(pkt)[p][e.dev] <= mark[p][e.dev]
  <2>1. CASE p \in DOMAIN peerMarks[d] /\ ClaimsWith(pkt)[p] = peerMarks[d][p]
    <3>1. peerMarks[d][p][e.dev] \in Nat
      BY <1>1, <1>2, <2>1 DEF IsClaims
    <3>2. peerMarks[d][p][e.dev] <= mark[p][e.dev]
      BY <1>2, <2>1 DEF IInv, Remembered
    <3> QED
      BY <2>1, <3>1, <3>2
  <2>2. CASE p = pkt.doc.from /\ ClaimsWith(pkt)[p] = pkt.doc.cursor
    <3>1. pkt.doc.cursor[e.dev] \in Nat
      BY <1>1, <1>2
    <3>2. pkt.doc.cursor[e.dev] <= mark[pkt.doc.from][e.dev]
      BY <1>2 DEF IInv, Remembered
    <3> QED
      BY <2>2, <3>1, <3>2
  <2> QED
    BY <1>7, <1>8, <2>1, <2>2
<1>10. mark[p][e.dev] \in Nat
  <2>1. p \in Devices
    BY <1>1 DEF IsClaims
  <2> QED
    BY <1>1, <1>2, <2>1
<1>11. e.seq <= ClaimsWith(pkt)[p][e.dev]
  BY <1>6, <1>8
<1> QED
  BY <1>2, <1>9, <1>10, <1>11

-----------------------------------------------------------------------------
(* The shared library.                                                     *)

\* A step that changes the merge state of d alone moves d's view alone.
LEMMA ShowingMoves ==
  ASSUME IInv, IInv', NEW d \in Devices,
         \A x \in Devices \ {d} : merge'[x] = merge[x]
  PROVE  Library!Showing(d)
<1> DEFINE old == [x \in Devices |-> merge[x].shown]
           new == [x \in Devices |-> merge'[x].shown]
<1>1. new[d] = View(accepted'[d])
  <2>1. /\ accepted'[d] \in SUBSET Entry /\ LiveCovers(merge'[d], accepted'[d])
        /\ CachesFresh(merge'[d])
    BY DEF IInv, Shape, Sound, SoundAt, DeviceSound
  <2> QED
    BY <2>1, FrontierView
<1>2. new = [old EXCEPT ![d] = View(accepted'[d])]
  BY <1>1
<1> QED
  BY <1>2 DEF Library!Showing

\* A local write is a step of the library.
LEMMA WriteIsLibrary ==
  ASSUME IInv, IInv', NEW d \in Devices, NEW e \in Entry, NEW stamp \in Stamp,
         WriteOf(d, e, stamp)
  PROVE  Library!LibWrite(d)
<1>1. e \notin emitted /\ \A k \in accepted[d] : Less(k, e)
  BY WriteBasics
<1>2. /\ emitted' = emitted \cup {e} /\ accepted' = [accepted EXCEPT ![d] = @ \cup {e}]
      /\ e.dev = d /\ \A x \in Devices \ {d} : merge'[x] = merge[x]
  BY DEF WriteOf, IInv, Shape
<1>3. Library!Showing(d)
  BY <1>2, ShowingMoves
<1> QED
  BY <1>1, <1>2, <1>3 DEF Library!LibWrite

\* So is a document applied.
LEMMA ApplyIsLibrary ==
  ASSUME IInv, IInv', NEW pkt \in docs, NEW now \in 0 .. MaxInt, Apply(pkt, now)
  PROVE  pkt.to \in Devices /\ Library!LibLearn(pkt.to)
<1> DEFINE d == pkt.to
<1>1. /\ accepted \in [Devices -> SUBSET emitted] /\ d \in Devices
      /\ merge = [x \in Devices |-> merge[x]]
  BY DEF IInv, Shape, ShapeDoc
<1>2. /\ accepted' = [accepted EXCEPT ![d] = accepted[d] \cup Fresh(pkt)]
      /\ merge' = [merge EXCEPT ![d] = Taken(pkt)] /\ emitted' = emitted
  BY ApplyEffect
<1>3. Fresh(pkt) \subseteq emitted
  BY ApplyBasics
<1> HIDE DEF d
<1>4. \A x \in Devices \ {d} : merge'[x] = merge[x]
  BY <1>1, <1>2
<1>5. Library!Showing(d)
  BY <1>1, <1>4, ShowingMoves
<1>6. /\ accepted'[d] \subseteq emitted /\ accepted[d] \subseteq accepted'[d]
      /\ accepted' = [accepted EXCEPT ![d] = accepted'[d]]
  BY <1>1, <1>2, <1>3
<1> QED
  BY <1>1, <1>2, <1>5, <1>6 DEF Library!LibLearn, d

\* A restart shows what was shown.
LEMMA RestartIsLibrary ==
  ASSUME IInv, IInv', NEW d \in Devices, Restart(d)
  PROVE  UNCHANGED Library!libVars
<1>1. emitted' = emitted /\ accepted' = accepted
  BY DEF Restart
<1>2. ASSUME NEW x \in Devices
      PROVE  merge'[x].shown = merge[x].shown
  <2>1. merge[x].shown = View(accepted[x])
    BY ShownIsAccepted
  <2>2. /\ accepted'[x] \in SUBSET Entry /\ LiveCovers(merge'[x], accepted'[x])
        /\ CachesFresh(merge'[x])
    BY DEF IInv, Shape, Sound, SoundAt, DeviceSound
  <2>3. merge'[x].shown = View(accepted'[x])
    BY <2>2, FrontierView
  <2> QED
    BY <1>1, <2>1, <2>3
<1> QED
  BY <1>1, <1>2 DEF Library!libVars

\* Every step of the engines is a step of the library or leaves it alone.
LEMMA StepIsLibrary == IInv /\ IInv' /\ [Next]_vars => [Library!LibNext]_(Library!libVars)
<1> SUFFICES ASSUME IInv, IInv', [Next]_vars
             PROVE  [Library!LibNext]_(Library!libVars)
  OBVIOUS
<1>1. emitted' = emitted /\ accepted' = accepted /\ merge' = merge => UNCHANGED Library!libVars
  BY DEF Library!libVars
<1>2. ASSUME NEW d \in Devices, NEW now \in Times, LocalWrite(d, now)
      PROVE  Library!LibWrite(d)
  <2>1. now \in 0 .. MaxInt
    BY EngineAssumption
  <2>2. PICK rec \in Records, field \in Fields \cup {TombField}, val \in 0 .. MaxInt :
          Write(d, rec, field, val, now)
    BY <1>2, LocalWriteIsWrite
  <2>3. PICK e \in Entry, stamp \in Stamp : WriteOf(d, e, stamp)
    BY <2>1, <2>2, WriteWrites
  <2> QED
    BY <2>3, WriteIsLibrary
<1>3. ASSUME NEW pkt \in docs, NEW now \in Times, Apply(pkt, now)
      PROVE  \E d \in Devices : Library!LibLearn(d)
  BY <1>3, ApplyIsLibrary, EngineAssumption
<1>4. ASSUME NEW d \in Devices, Restart(d)
      PROVE  UNCHANGED Library!libVars
  BY <1>4, RestartIsLibrary
<1>5. ASSUME NEW x, NEW now, WriteFails(x, now)
      PROVE  UNCHANGED Library!libVars
  BY <1>1, <1>5 DEF WriteFails
<1>6. ASSUME NEW a, NEW b, Export(a, b) \/ Paste(a, b)
      PROVE  UNCHANGED Library!libVars
  BY <1>1, <1>6 DEF Export, Paste, Ship
<1>7. ASSUME NEW pkt, NEW now, ApplyFails(pkt, now)
      PROVE  UNCHANGED Library!libVars
  BY <1>1, <1>7 DEF ApplyFails
<1>8. ASSUME NEW pkt, Lose(pkt)
      PROVE  UNCHANGED Library!libVars
  BY <1>1, <1>8 DEF Lose
<1>9. ASSUME NEW rec, Age(rec)
      PROVE  UNCHANGED Library!libVars
  BY <1>1, <1>9 DEF Age
<1>10. UNCHANGED vars => UNCHANGED Library!libVars
  BY <1>1 DEF vars
<1> QED
  BY <1>2, <1>3, <1>4, <1>5, <1>6, <1>7, <1>8, <1>9, <1>10 DEF Next, Library!LibNext

-----------------------------------------------------------------------------
(* The theorems.                                                           *)

\* The state of the engines is typed: logs hold what was accepted, what was
\* accepted was emitted, and no cursor (SyncEngine's contiguous watermarks)
\* runs ahead of what its device emitted.
THEOREM EngineTypeCorrect == Spec => []TypeOK
BY EngineInvariance, InvariantIsTyped, PTL

\* A cursor is honest: what commitCursors lets a device claim it holds, or it
\* is never shown because something that supersedes it is in or still to come.
THEOREM ClaimsBacked == Spec => []ClaimsAreBacked
BY EngineInvariance, InvariantIsHonest, PTL

\* Compaction and restarts forget nothing: the rows left in the log mean what
\* everything ever accepted means.
THEOREM LogsMeanEverything == Spec => []NothingLost
BY EngineInvariance, InvariantLosesNothing, PTL

\* The clock is at or above everything accepted, also after hydrate recovered
\* it from a compacted log.
THEOREM EngineClockCovers == Spec => []ClockCoversAccepted
<1>1. IInv => ClockCoversAccepted
  BY DEF IInv, Histories
<1> QED
  BY <1>1, EngineInvariance, PTL

\* No device uses a seq twice, and its stamps rise with its seqs, across
\* failed writes and restarts.
THEOREM SeqsAreIdentities == Spec => []SeqsIdentify
<1>1. IInv => SeqsIdentify
  BY DEF IInv, Histories
<1> QED
  BY <1>1, EngineInvariance, PTL

\* Devices whose cursors claim everything show one library, whatever was
\* lost, duplicated, compacted or superseded on the way.
THEOREM CaughtUpDevicesAgree == Spec => []CaughtUpConverges
BY EngineInvariance, InvariantConverges, PTL

\* Compaction (planCompaction) waits for every peer the device remembers.
THEOREM CompactionIsClaimed == Spec => CompactionWaits
<1>1. ASSUME IInv, [Next]_vars
      PROVE  \A d \in Devices : \A e \in log[d] \ log'[d] :
               \A p \in DOMAIN peerRows[d] \cup DOMAIN peerMarks[d] : e.seq <= mark[p][e.dev]
  BY <1>1, OnlyApplyDrops, DropsAreClaimed
<1> QED
  BY <1>1, EngineInvariance, PTL DEF Spec, CompactionWaits

\* The engines, with their logs, cursors, documents, failures and restarts,
\* implement the shared library.
THEOREM EngineImplementsLibrary == Spec => ImplementsLibrary
<1>1. Init => Library!LibInit
  <2> SUFFICES ASSUME Init PROVE Library!LibInit
    OBVIOUS
  <2>1. [d \in Devices |-> merge[d].shown] = [d \in Devices |-> View({})]
    <3>1. \A d \in Devices : merge[d] = EmptyMerge
      BY DEF Init
    <3> QED
      BY <3>1, EmptyIsSound
  <2> QED
    BY <2>1 DEF Init, Library!LibInit
<1> QED
  BY <1>1, StepIsLibrary, EngineInvariance, PTL DEF Spec, ImplementsLibrary, Library!LibSpec
=============================================================================
