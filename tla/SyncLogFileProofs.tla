--------------------------- MODULE SyncLogFileProofs ---------------------------
(***************************************************************************)
(* Proofs about SyncLogFile, for every set of entries and every bound: the *)
(* shape of the state, that acknowledged appends survive every crash, and  *)
(* that a log is not replaced under them.                                  *)
(*                                                                         *)
(* The inductive invariant ties the file to the history of writes.  The    *)
(* whole lines r stand for the last Len(r) writes: what came before them,  *)
(* the first Len(written) - Len(r) writes, a checkpoint folded into the    *)
(* first line.  For every cut a crash may still make, the lines before it  *)
(* fold to what the writes before it mean, and no write that was           *)
(* acknowledged lies behind it.                                            *)
(***************************************************************************)
EXTENDS SyncLogFile, FiniteSetTheorems, SequenceTheorems, TLAPS

WholeLine == [adds : SUBSET Entries, drops : SUBSET Entries, form : {"whole"}]

-----------------------------------------------------------------------------
(* Folding.                                                                *)

\* What a list of whole lines leaves.
Left(r) == {e \in Entries : \E i \in DOMAIN r :
              e \in r[i].adds /\ \A j \in i .. Len(r) : e \notin r[j].drops}

\* The least of a singleton, and of a number and its successor.
LEMMA LeastOne ==
  ASSUME NEW n \in Int
  PROVE  Min({n}) = n /\ Min({n, n + 1}) = n
BY DEF Min

\* Whole lines are lines.
LEMMA WholeLines ==
  ASSUME NEW r \in Seq(WholeLine)
  PROVE  /\ r \in Seq(Line) /\ DOMAIN r = 1 .. Len(r) /\ Len(r) \in Nat
         /\ \A i \in 1 .. Len(r) : r[i] \in WholeLine /\ r[i].form = "whole"
<1>1. WholeLine \subseteq Line
  BY DEF WholeLine, Line
<1>2. r \in Seq(Line)
  BY <1>1, SeqMonotonic
<1>3. DOMAIN r = 1 .. Len(r) /\ Len(r) \in Nat
  BY LenProperties
<1>4. \A i \in 1 .. Len(r) : r[i] \in WholeLine
  BY ElementOfSeq
<1> QED  BY <1>2, <1>3, <1>4 DEF WholeLine

\* parseFile reads a file of whole lines to its end.
LEMMA ReadWhole ==
  ASSUME NEW r \in Seq(WholeLine)
  PROVE  Readable(r) = r /\ Folded(r) = Left(r)
<1>1. Len(r) \in Nat /\ {i \in DOMAIN r : r[i].form # "whole"} = {}
  BY WholeLines
<1> DEFINE m == Len(r) + 1
<1>2. Min({} \cup {m}) - 1 = Len(r)
  <2>1. m \in Int /\ {} \cup {m} = {m}
    BY <1>1
  <2>2. Min({m}) = m
    BY <2>1, LeastOne, Zenon
  <2> QED  BY <2>1, <2>2, <1>1
<1>3. Readable(r) = r
  BY <1>1, <1>2, SubSeqFull DEF Readable
<1> QED  BY <1>3 DEF Folded, Left

\* A torn line after whole ones is what parseFile stops at.
LEMMA ReadTorn ==
  ASSUME NEW r \in Seq(WholeLine)
  PROVE  /\ Append(r, TornLine) \in Seq(Line)
         /\ Readable(Append(r, TornLine)) = r
         /\ Folded(Append(r, TornLine)) = Left(r)
<1> DEFINE ls == Append(r, TornLine)
           n == Len(r)
           bad == {i \in DOMAIN ls : ls[i].form # "whole"}
<1>1. r \in Seq(Line) /\ n \in Nat /\ \A i \in 1 .. n : r[i].form = "whole"
  BY WholeLines
<1>2. TornLine \in Line /\ TornLine.form = "torn"
  BY DEF TornLine, Line
<1>3. /\ ls \in Seq(Line) /\ Len(ls) = n + 1 /\ ls[n + 1] = TornLine
      /\ \A i \in 1 .. n : ls[i] = r[i]
  BY <1>1, <1>2, AppendProperties
<1>4. DOMAIN ls = 1 .. n + 1
  BY <1>3, LenProperties
<1>5. bad = {n + 1}
  <2>1. \A i \in 1 .. n + 1 : i \in 1 .. n \/ i = n + 1
    BY <1>1
  <2>2. n + 1 \in 1 .. n + 1 /\ n + 1 \notin 1 .. n
    BY <1>1
  <2>3. ls[n + 1].form # "whole"
    BY <1>2, <1>3
  <2> QED  BY <2>1, <2>2, <2>3, <1>1, <1>3, <1>4
<1>6. Min(bad \cup {Len(ls) + 1}) - 1 = n
  <2> DEFINE m == n + 1
  <2>1. m \in Int
    BY <1>1
  <2>2. bad \cup {Len(ls) + 1} = {m, m + 1}
    BY <1>1, <1>3, <1>5
  <2>3. Min({m, m + 1}) = m
    <3> HIDE DEF m
    <3> QED  BY <2>1, LeastOne, Zenon
  <2>4. Min(bad \cup {Len(ls) + 1}) = m
    BY <2>2, <2>3, Zenon
  <2> HIDE DEF ls, bad
  <2> QED  BY <2>4, <1>1
<1>7. SubSeq(ls, 1, n) = r
  <2>1. \A i \in 1 .. n : ls[i] \in Line
    BY <1>1, <1>3, ElementOfSeq
  <2>2. /\ SubSeq(ls, 1, n) \in Seq(Line)
        /\ Len(SubSeq(ls, 1, n)) = IF 1 <= n THEN n - 1 + 1 ELSE 0
        /\ \A i \in 1 .. n - 1 + 1 : SubSeq(ls, 1, n)[i] = ls[1 + i - 1]
    BY <2>1, <1>1, SubSeqProperties
  <2>3. Len(SubSeq(ls, 1, n)) = n /\ \A i \in 1 .. n : SubSeq(ls, 1, n)[i] = r[i]
    BY <2>2, <1>1, <1>3
  <2> HIDE DEF ls
  <2> QED  BY <2>2, <2>3, <1>1, SeqEqual
<1>8. Readable(ls) = r
  BY <1>6, <1>7 DEF Readable
<1> QED  BY <1>3, <1>8 DEF Folded, Left

\* One line more: its adds, less its drops.
LEMMA LeftAppend ==
  ASSUME NEW r \in Seq(WholeLine), NEW l \in WholeLine
  PROVE  Left(Append(r, l)) = (Left(r) \cup l.adds) \ l.drops
<1> DEFINE s == Append(r, l)
           n == Len(r)
<1>1. n \in Nat /\ DOMAIN r = 1 .. n
  BY WholeLines
<1>2. /\ s \in Seq(WholeLine) /\ Len(s) = n + 1 /\ s[n + 1] = l
      /\ \A i \in 1 .. n : s[i] = r[i]
  BY AppendProperties
<1>3. DOMAIN s = 1 .. n + 1
  BY <1>2, LenProperties
<1>4. l.adds \subseteq Entries
  BY DEF WholeLine
<1> HIDE DEF s
<1>5. ASSUME NEW e \in Left(s)
      PROVE  e \in (Left(r) \cup l.adds) \ l.drops
  <2>1. PICK i \in 1 .. n + 1 : e \in s[i].adds /\ \A j \in i .. n + 1 : e \notin s[j].drops
    BY <1>2, <1>3 DEF Left
  <2>2. e \in Entries /\ e \notin l.drops
    BY <2>1, <1>1, <1>2 DEF Left
  <2>3. CASE i = n + 1
    BY <2>1, <2>2, <2>3, <1>2
  <2>4. CASE i \in 1 .. n
    <3>1. e \in r[i].adds /\ \A j \in i .. n : e \notin r[j].drops
      BY <2>1, <2>4, <1>1, <1>2
    <3> QED  BY <3>1, <2>2, <2>4, <1>1 DEF Left
  <2> QED  BY <2>1, <2>3, <2>4, <1>1
<1>6. ASSUME NEW e \in (Left(r) \cup l.adds) \ l.drops
      PROVE  e \in Left(s)
  <2>1. CASE e \in l.adds
    <3>1. n + 1 \in DOMAIN s /\ e \in s[n + 1].adds
      BY <2>1, <1>1, <1>2, <1>3
    <3>2. \A j \in n + 1 .. n + 1 : e \notin s[j].drops
      BY <1>1, <1>2
    <3> QED  BY <3>1, <3>2, <2>1, <1>2, <1>4 DEF Left
  <2>2. CASE e \in Left(r)
    <3>1. PICK i \in 1 .. n : e \in r[i].adds /\ \A j \in i .. n : e \notin r[j].drops
      BY <2>2, <1>1 DEF Left
    <3>2. i \in DOMAIN s /\ e \in s[i].adds
      BY <3>1, <1>1, <1>2, <1>3
    <3>3. ASSUME NEW j \in i .. n + 1
          PROVE  e \notin s[j].drops
      <4>1. CASE j = n + 1
        BY <4>1, <1>2
      <4>2. CASE j # n + 1
        BY <4>2, <3>1, <1>1, <1>2
      <4> QED  BY <4>1, <4>2
    <3> QED  BY <3>2, <3>3, <2>2, <1>2 DEF Left
  <2> QED  BY <2>1, <2>2
<1> QED  BY <1>5, <1>6 DEF s

\* A checkpoint's single line stands for what it holds.
LEMMA LeftOne ==
  ASSUME NEW F \in SUBSET Entries
  PROVE  LET l == [adds |-> F, drops |-> {}, form |-> "whole"]
         IN l \in WholeLine /\ <<l>> \in Seq(WholeLine) /\ Left(<<l>>) = F
<1> DEFINE l == [adds |-> F, drops |-> {}, form |-> "whole"]
<1>1. l \in WholeLine /\ l.adds = F /\ l.drops = {}
  BY DEF WholeLine
<1>2. <<l>> \in Seq(WholeLine) /\ Len(<<l>>) = 1 /\ <<l>>[1] = l /\ DOMAIN <<l>> = {1}
  BY <1>1
<1> HIDE DEF l
<1>3. Left(<<l>>) = F
  BY <1>1, <1>2 DEF Left
<1> QED  BY <1>1, <1>2, <1>3 DEF l

\* The lines of a list of writes.
LinesOf(ws) == [i \in DOMAIN ws |-> LineOf(ws[i])]

\* A write's line is whole.
LEMMA LineIsWhole ==
  ASSUME NEW w \in Writes
  PROVE  /\ LineOf(w) \in WholeLine
         /\ LineOf(w).adds = w.adds /\ LineOf(w).drops = w.drops
BY DEF Writes, LineOf, WholeLine

\* The lines of writes are whole, and mean what they fold to.
LEMMA LinesAreWhole ==
  ASSUME NEW ws \in Seq(Writes)
  PROVE  /\ LinesOf(ws) \in Seq(WholeLine) /\ Len(LinesOf(ws)) = Len(ws)
         /\ \A i \in 1 .. Len(ws) : LinesOf(ws)[i] = LineOf(ws[i])
         /\ Meaning(ws) = Left(LinesOf(ws))
<1>1. DOMAIN ws = 1 .. Len(ws) /\ Len(ws) \in Nat /\ \A i \in 1 .. Len(ws) : ws[i] \in Writes
  BY LenProperties, ElementOfSeq
<1>2. LinesOf(ws) \in [1 .. Len(ws) -> WholeLine]
  BY <1>1, LineIsWhole DEF LinesOf
<1>3. LinesOf(ws) \in Seq(WholeLine) /\ Len(LinesOf(ws)) = Len(ws)
  BY <1>1, <1>2
<1>4. Meaning(ws) = Left(LinesOf(ws))
  BY <1>3, ReadWhole DEF Meaning, LinesOf
<1> QED  BY <1>1, <1>3, <1>4 DEF LinesOf

\* One write more.
LEMMA MeaningAppend ==
  ASSUME NEW ws \in Seq(Writes), NEW w \in Writes
  PROVE  Meaning(Append(ws, w)) = (Meaning(ws) \cup w.adds) \ w.drops
<1> DEFINE t == Append(ws, w)
           n == Len(ws)
<1>1. n \in Nat /\ t \in Seq(Writes) /\ Len(t) = n + 1 /\ t[n + 1] = w
      /\ \A i \in 1 .. n : t[i] = ws[i]
  BY AppendProperties, LenProperties
<1>2. /\ LinesOf(ws) \in Seq(WholeLine) /\ Len(LinesOf(ws)) = n
      /\ \A i \in 1 .. n : LinesOf(ws)[i] = LineOf(ws[i])
      /\ Meaning(ws) = Left(LinesOf(ws))
  BY LinesAreWhole
<1> HIDE DEF t
<1>3. /\ LinesOf(t) \in Seq(WholeLine) /\ Len(LinesOf(t)) = n + 1
      /\ \A i \in 1 .. n + 1 : LinesOf(t)[i] = LineOf(t[i])
      /\ Meaning(t) = Left(LinesOf(t))
  BY <1>1, LinesAreWhole
<1>4. LineOf(w) \in WholeLine /\ LineOf(w).adds = w.adds /\ LineOf(w).drops = w.drops
  BY LineIsWhole
<1> DEFINE a == Append(LinesOf(ws), LineOf(w))
<1>5. /\ a \in Seq(WholeLine) /\ Len(a) = n + 1 /\ a[n + 1] = LineOf(w)
      /\ \A i \in 1 .. n : a[i] = LinesOf(ws)[i]
  BY <1>2, <1>4, AppendProperties
<1> HIDE DEF a
<1>6. \A i \in 1 .. n + 1 : LinesOf(t)[i] = a[i]
  <2> SUFFICES ASSUME NEW i \in 1 .. n + 1
               PROVE  LinesOf(t)[i] = a[i]
    OBVIOUS
  <2>1. CASE i = n + 1
    BY <2>1, <1>1, <1>3, <1>5
  <2>2. CASE i \in 1 .. n
    BY <2>2, <1>1, <1>2, <1>3, <1>5
  <2> QED  BY <2>1, <2>2, <1>1
<1>7. LinesOf(t) = a
  BY <1>3, <1>5, <1>6, SeqEqual
<1>8. Left(a) = (Left(LinesOf(ws)) \cup LineOf(w).adds) \ LineOf(w).drops
  BY <1>2, <1>4, LeftAppend DEF a
<1> QED  BY <1>2, <1>3, <1>4, <1>7, <1>8 DEF t

-----------------------------------------------------------------------------
(* Initial parts of sequences.                                             *)

\* An initial part: its length, its elements, and initial parts of it.
LEMMA Cut ==
  ASSUME NEW S, NEW s \in Seq(S), NEW j \in 0 .. Len(s)
  PROVE  /\ SubSeq(s, 1, j) \in Seq(S) /\ Len(SubSeq(s, 1, j)) = j
         /\ \A i \in 1 .. j : SubSeq(s, 1, j)[i] = s[i]
         /\ \A k \in 0 .. j : SubSeq(SubSeq(s, 1, j), 1, k) = SubSeq(s, 1, k)
<1> DEFINE t == SubSeq(s, 1, j)
<1>1. Len(s) \in Nat /\ j \in Nat /\ \A i \in 1 .. j : s[i] \in S
  BY LenProperties, ElementOfSeq
<1>2. /\ t \in Seq(S) /\ Len(t) = j
      /\ \A i \in 1 .. j : t[i] = s[i]
  <2>1. /\ t \in Seq(S)
        /\ Len(t) = IF 1 <= j THEN j - 1 + 1 ELSE 0
        /\ \A i \in 1 .. j - 1 + 1 : t[i] = s[1 + i - 1]
    BY <1>1, SubSeqProperties
  <2> HIDE DEF t
  <2> QED  BY <2>1, <1>1
<1>3. ASSUME NEW k \in 0 .. j
      PROVE  SubSeq(t, 1, k) = SubSeq(s, 1, k)
  <2> HIDE DEF t
  <2>1. k \in Int /\ k >= 0 /\ k <= j /\ \A i \in 1 .. k : i \in 1 .. j
    BY <1>1
  <2>2. \A i \in 1 .. k : s[i] \in S /\ t[i] \in S
    BY <1>1, <1>2, <2>1
  <2>3. /\ SubSeq(s, 1, k) \in Seq(S)
        /\ Len(SubSeq(s, 1, k)) = IF 1 <= k THEN k - 1 + 1 ELSE 0
        /\ \A i \in 1 .. k - 1 + 1 : SubSeq(s, 1, k)[i] = s[1 + i - 1]
    BY <2>1, <2>2, SubSeqProperties
  <2>4. /\ SubSeq(t, 1, k) \in Seq(S)
        /\ Len(SubSeq(t, 1, k)) = IF 1 <= k THEN k - 1 + 1 ELSE 0
        /\ \A i \in 1 .. k - 1 + 1 : SubSeq(t, 1, k)[i] = t[1 + i - 1]
    BY <2>1, <2>2, SubSeqProperties
  <2>5. \A i \in 1 .. k : SubSeq(s, 1, k)[i] = SubSeq(t, 1, k)[i]
    BY <2>1, <2>3, <2>4, <1>2
  <2>6. Len(SubSeq(s, 1, k)) = k /\ Len(SubSeq(t, 1, k)) = k
    BY <2>1, <2>3, <2>4
  <2> QED  BY <2>3, <2>4, <2>5, <2>6, SeqEqual
<1> QED  BY <1>2, <1>3

\* An initial part of a sequence that one element was added to.
LEMMA CutAppend ==
  ASSUME NEW S, NEW s \in Seq(S), NEW e \in S, NEW k \in 0 .. Len(s)
  PROVE  SubSeq(Append(s, e), 1, k) = SubSeq(s, 1, k)
<1> DEFINE t == Append(s, e)
<1>1. /\ t \in Seq(S) /\ Len(t) = Len(s) + 1
      /\ \A i \in 1 .. Len(s) : t[i] = s[i]
  BY AppendProperties
<1>2. Len(s) \in Nat /\ k \in 0 .. Len(t)
  BY <1>1, LenProperties
<1> HIDE DEF t
<1>3. /\ SubSeq(t, 1, k) \in Seq(S) /\ Len(SubSeq(t, 1, k)) = k
      /\ \A i \in 1 .. k : SubSeq(t, 1, k)[i] = t[i]
  BY <1>1, <1>2, Cut
<1>4. /\ SubSeq(s, 1, k) \in Seq(S) /\ Len(SubSeq(s, 1, k)) = k
      /\ \A i \in 1 .. k : SubSeq(s, 1, k)[i] = s[i]
  BY Cut
<1>5. \A i \in 1 .. k : SubSeq(t, 1, k)[i] = SubSeq(s, 1, k)[i]
  BY <1>1, <1>2, <1>3, <1>4
<1>6. SubSeq(t, 1, k) = SubSeq(s, 1, k)
  BY <1>3, <1>4, <1>5, SeqEqual
<1> QED  BY <1>6 DEF t

-----------------------------------------------------------------------------
(* What a file tells of the writes.                                        *)

\* With its lines safe up to s, a file of the whole lines r tells of the
\* writes ws, the first o of which are owed: wherever it is cut, what is left
\* folds to the meaning of an initial part of the writes that has those o.
Tells(r, ws, s, o) ==
  /\ Len(r) <= Len(ws)
  /\ \A k \in 0 .. Len(r) : k >= s \/ k = Len(r) =>
       /\ o <= Len(ws) - Len(r) + k
       /\ Left(SubSeq(r, 1, k)) = Meaning(SubSeq(ws, 1, Len(ws) - Len(r) + k))

\* A file without lines tells of no writes.
LEMMA TellsNothing ==
  ASSUME NEW s \in Int
  PROVE  Tells(<<>>, <<>>, s, 0)
<1>1. <<>> \in Seq(Writes) /\ Len(<<>>) = 0 /\ <<>> \in Seq(WholeLine)
  BY EmptySeq
<1>2. SubSeq(<<>>, 1, 0) = <<>>
  BY SubSeqEmpty
<1>3. LinesOf(<<>>) \in Seq(WholeLine) /\ Len(LinesOf(<<>>)) = 0
      /\ Meaning(<<>>) = Left(LinesOf(<<>>))
  BY <1>1, LinesAreWhole
<1>4. LinesOf(<<>>) = <<>>
  BY <1>3, EmptySeq
<1>5. Left(<<>>) = Meaning(<<>>)
  BY <1>3, <1>4
<1> SUFFICES ASSUME NEW k \in 0 .. 0
             PROVE  /\ 0 <= 0 - 0 + k
                    /\ Left(SubSeq(<<>>, 1, k)) = Meaning(SubSeq(<<>>, 1, 0 - 0 + k))
  BY <1>1 DEF Tells
<1> DEFINE n == 0 - 0 + k
<1>6. k = 0 /\ n = 0 /\ 0 <= n
  OBVIOUS
<1> HIDE DEF n
<1>7. Left(SubSeq(<<>>, 1, k)) = Meaning(SubSeq(<<>>, 1, n))
  BY <1>2, <1>5, <1>6
<1> QED  BY <1>6, <1>7 DEF n

\* What the whole file tells.
LEMMA TellsAll ==
  ASSUME NEW r \in Seq(WholeLine), NEW ws \in Seq(Writes), NEW s \in Int, NEW o \in Int,
         Tells(r, ws, s, o)
  PROVE  Left(r) = Meaning(ws) /\ o <= Len(ws)
<1>1. Len(r) \in Nat /\ Len(ws) \in Nat
  BY LenProperties
<1>2. Len(r) \in 0 .. Len(r) /\ Len(ws) - Len(r) + Len(r) = Len(ws)
  BY <1>1
<1>3. SubSeq(r, 1, Len(r)) = r /\ SubSeq(ws, 1, Len(ws)) = ws
  BY SubSeqFull
<1> QED  BY <1>2, <1>3 DEF Tells

\* It does not matter what is said of cuts that can no longer be made.
LEMMA TellsSafer ==
  ASSUME NEW r \in Seq(WholeLine), NEW ws \in Seq(Writes), NEW s \in Int, NEW o \in Int,
         NEW t \in Int, Tells(r, ws, s, o), t >= s \/ t >= Len(r)
  PROVE  Tells(r, ws, t, o)
<1>1. Len(r) \in Nat
  BY LenProperties
<1> SUFFICES ASSUME NEW k \in 0 .. Len(r), k >= t \/ k = Len(r)
             PROVE  k >= s \/ k = Len(r)
  BY DEF Tells
<1> QED  BY <1>1

\* Once every line is safe every write may be acknowledged.
LEMMA TellsAcked ==
  ASSUME NEW r \in Seq(WholeLine), NEW ws \in Seq(Writes), NEW s \in Int, NEW o \in Int,
         Tells(r, ws, s, o)
  PROVE  Tells(r, ws, Len(r), Len(ws))
<1>1. Len(r) \in Nat /\ Len(ws) \in Nat
  BY LenProperties
<1>2. Left(r) = Meaning(ws)
  BY TellsAll
<1>3. SubSeq(r, 1, Len(r)) = r /\ SubSeq(ws, 1, Len(ws)) = ws
  BY SubSeqFull
<1>4. Len(r) <= Len(ws)
  BY DEF Tells
<1> SUFFICES ASSUME NEW k \in 0 .. Len(r), k >= Len(r) \/ k = Len(r)
             PROVE  /\ Len(ws) <= Len(ws) - Len(r) + k
                    /\ Left(SubSeq(r, 1, k)) = Meaning(SubSeq(ws, 1, Len(ws) - Len(r) + k))
  BY <1>4 DEF Tells
<1> DEFINE n == Len(ws) - Len(r) + k
<1>5. k = Len(r) /\ n = Len(ws)
  BY <1>1
<1>6. Len(ws) <= n
  BY <1>1, <1>5
<1> HIDE DEF n
<1>7. Left(SubSeq(r, 1, k)) = Meaning(SubSeq(ws, 1, n))
  BY <1>2, <1>3, <1>5
<1> QED  BY <1>6, <1>7 DEF n

\* A checkpoint tells what the lines it replaces told.
LEMMA TellsFolded ==
  ASSUME NEW r \in Seq(WholeLine), NEW ws \in Seq(Writes), NEW s \in Int, NEW o \in Int,
         Tells(r, ws, s, o), ws # <<>>
  PROVE  LET l == [adds |-> Left(r), drops |-> {}, form |-> "whole"]
         IN <<l>> \in Seq(WholeLine) /\ Tells(<<l>>, ws, 1, Len(ws))
<1> DEFINE l == [adds |-> Left(r), drops |-> {}, form |-> "whole"]
           c == <<l>>
<1>1. Left(r) \in SUBSET Entries
  BY DEF Left
<1>2. c \in Seq(WholeLine) /\ Left(c) = Left(r) /\ Len(c) = 1
  BY <1>1, LeftOne
<1>3. Len(ws) \in Nat /\ Len(ws) >= 1
  BY EmptySeq
<1>4. Left(r) = Meaning(ws)
  BY TellsAll
<1> HIDE DEF c
<1>5. SubSeq(c, 1, Len(c)) = c /\ SubSeq(ws, 1, Len(ws)) = ws
  BY <1>2, SubSeqFull
<1>6. Tells(c, ws, 1, Len(ws))
  <2> SUFFICES ASSUME NEW k \in 0 .. 1, k >= 1 \/ k = 1
               PROVE  /\ Len(ws) <= Len(ws) - 1 + k
                      /\ Left(SubSeq(c, 1, k)) = Meaning(SubSeq(ws, 1, Len(ws) - 1 + k))
    BY <1>2, <1>3 DEF Tells
  <2> DEFINE n == Len(ws) - 1 + k
  <2>1. k = 1 /\ n = Len(ws) /\ Len(ws) <= n
    BY <1>3
  <2> HIDE DEF n
  <2>2. Left(SubSeq(c, 1, k)) = Meaning(SubSeq(ws, 1, n))
    BY <2>1, <1>2, <1>4, <1>5
  <2> QED  BY <2>1, <2>2 DEF n
<1> QED  BY <1>2, <1>6 DEF c

\* A line appended tells of the write appended.
LEMMA TellsMore ==
  ASSUME NEW r \in Seq(WholeLine), NEW ws \in Seq(Writes), NEW s \in Int, NEW o \in Int,
         Tells(r, ws, s, o), s <= Len(r), NEW w \in Writes
  PROVE  /\ Append(r, LineOf(w)) \in Seq(WholeLine)
         /\ Tells(Append(r, LineOf(w)), Append(ws, w), s, o)
<1> DEFINE a == Append(r, LineOf(w))
           b == Append(ws, w)
<1>1. Len(r) \in Nat /\ Len(ws) \in Nat /\ Len(r) <= Len(ws)
  BY LenProperties DEF Tells
<1>2. LineOf(w) \in WholeLine /\ LineOf(w).adds = w.adds /\ LineOf(w).drops = w.drops
  BY LineIsWhole
<1>3. /\ a \in Seq(WholeLine) /\ Len(a) = Len(r) + 1
      /\ b \in Seq(Writes) /\ Len(b) = Len(ws) + 1
  BY <1>2, AppendProperties
<1>4. Left(a) = Meaning(b) /\ o <= Len(ws)
  <2>1. Left(r) = Meaning(ws) /\ o <= Len(ws)
    BY TellsAll
  <2>2. Left(a) = (Left(r) \cup LineOf(w).adds) \ LineOf(w).drops
    BY <1>2, LeftAppend
  <2>3. Meaning(b) = (Meaning(ws) \cup w.adds) \ w.drops
    BY MeaningAppend
  <2> HIDE DEF a, b
  <2> QED  BY <2>1, <2>2, <2>3, <1>2
<1>5. ASSUME NEW k \in 0 .. Len(a), k >= s \/ k = Len(a)
      PROVE  /\ o <= Len(b) - Len(a) + k
             /\ Left(SubSeq(a, 1, k)) = Meaning(SubSeq(b, 1, Len(b) - Len(a) + k))
  <2>1. CASE k = Len(a)
    <3>1. Len(b) - Len(a) + k = Len(b) /\ o <= Len(b)
      BY <2>1, <1>1, <1>3, <1>4
    <3>2. SubSeq(a, 1, Len(a)) = a /\ SubSeq(b, 1, Len(b)) = b
      BY <1>3, SubSeqFull
    <3> HIDE DEF a, b
    <3> QED  BY <2>1, <3>1, <3>2, <1>4
  <2>2. CASE k # Len(a)
    <3> DEFINE n == Len(ws) - Len(r) + k
    <3>1. k \in 0 .. Len(r) /\ k >= s /\ n \in 0 .. Len(ws) /\ Len(b) - Len(a) + k = n
      BY <2>2, <1>1, <1>3, <1>5
    <3>2. o <= n /\ Left(SubSeq(r, 1, k)) = Meaning(SubSeq(ws, 1, n))
      BY <3>1 DEF Tells
    <3>3. SubSeq(a, 1, k) = SubSeq(r, 1, k) /\ SubSeq(b, 1, n) = SubSeq(ws, 1, n)
      BY <3>1, <1>2, CutAppend
    <3> HIDE DEF a, b, n
    <3> QED  BY <3>1, <3>2, <3>3
  <2> QED  BY <2>1, <2>2
<1>6. Len(a) <= Len(b)
  BY <1>1, <1>3
<1> QED  BY <1>3, <1>5, <1>6 DEF Tells

\* A cut behind the safe lines tells of as many writes less.
LEMMA TellsCut ==
  ASSUME NEW r \in Seq(WholeLine), NEW ws \in Seq(Writes), NEW s \in Int, NEW o \in Int,
         Tells(r, ws, s, o), NEW k \in 0 .. Len(r), k >= s, NEW t \in Int, t >= k
  PROVE  LET n == Len(ws) - (Len(r) - k)
         IN /\ n \in 0 .. Len(ws) /\ o <= n
            /\ SubSeq(r, 1, k) \in Seq(WholeLine) /\ Len(SubSeq(r, 1, k)) = k
            /\ SubSeq(ws, 1, n) \in Seq(Writes) /\ Len(SubSeq(ws, 1, n)) = n
            /\ Tells(SubSeq(r, 1, k), SubSeq(ws, 1, n), t, o)
<1> DEFINE n == Len(ws) - (Len(r) - k)
           a == SubSeq(r, 1, k)
           b == SubSeq(ws, 1, n)
<1>1. Len(r) \in Nat /\ Len(ws) \in Nat /\ Len(r) <= Len(ws)
  BY LenProperties DEF Tells
<1>2. n \in 0 .. Len(ws) /\ n = Len(ws) - Len(r) + k /\ k <= n
  BY <1>1
<1>3. o <= n /\ Left(a) = Meaning(b)
  BY <1>2 DEF Tells
<1>4. a \in Seq(WholeLine) /\ Len(a) = k /\ b \in Seq(Writes) /\ Len(b) = n
  BY <1>2, Cut
<1>5. SubSeq(a, 1, Len(a)) = a /\ SubSeq(b, 1, Len(b)) = b
  BY <1>4, SubSeqFull
<1> HIDE DEF a, b, n
<1>6. Tells(a, b, t, o)
  <2> SUFFICES ASSUME NEW j \in 0 .. k, j >= t \/ j = k
               PROVE  /\ o <= n - k + j
                      /\ Left(SubSeq(a, 1, j)) = Meaning(SubSeq(b, 1, n - k + j))
    BY <1>2, <1>4 DEF Tells
  <2>1. j = k /\ n - k + j = n
    BY <1>1, <1>2
  <2> QED  BY <2>1, <1>3, <1>4, <1>5
<1> QED  BY <1>2, <1>3, <1>4, <1>6 DEF a, b, n

-----------------------------------------------------------------------------
(* The inductive invariant.                                                *)

\* What each stage of the file's life says of it.
Stages ==
  /\ phase \in {"creating", "open", "appended", "folding"} => head \in Ids
  /\ head \notin Ids \/ phase \in {"creating", "refused"} => lines = <<>> /\ written = <<>>
  /\ phase \in {"open", "appended", "folding"} => safe >= 0
  /\ phase \in {"appended", "folding"} => written # <<>>
  /\ phase = "folding" => safe = Len(lines)
  /\ phase = "down" => safe = Len(lines) \/ lines = <<>>

\* The file tells of the writes; only a crash leaves a torn line behind it.
FileTells ==
  \E r \in Seq(WholeLine) :
    /\ lines = r \/ (phase = "down" /\ lines = Append(r, TornLine))
    /\ Tells(r, written, safe, owed)

IInv == TypeOK /\ Stages /\ FileTells

\* The invariant says of every cut a crash may make what AckedSurvive asks.
LEMMA InvSurvives ==
  ASSUME IInv
  PROVE  AckedSurvive
<1>1. PICK r \in Seq(WholeLine) :
        /\ lines = r \/ (phase = "down" /\ lines = Append(r, TornLine))
        /\ Tells(r, written, safe, owed)
  BY DEF IInv, FileTells
<1>2. /\ written \in Seq(Writes) /\ safe \in Int /\ owed \in Int
      /\ lines \in Seq(Line) /\ Len(lines) \in Nat /\ Len(r) \in Nat /\ Len(written) \in Nat
  BY LenProperties DEF IInv, TypeOK
<1> SUFFICES ASSUME NEW k \in safe .. Len(lines), k >= 0
             PROVE  \E n \in owed .. Len(written) :
                      Folded(SubSeq(lines, 1, k)) = Meaning(SubSeq(written, 1, n))
  BY DEF AckedSurvive
<1>3. CASE lines = r
  <2> DEFINE n == Len(written) - Len(r) + k
  <2>1. k \in 0 .. Len(r) /\ k >= safe
    BY <1>2, <1>3
  <2>2. owed <= n /\ Left(SubSeq(r, 1, k)) = Meaning(SubSeq(written, 1, n))
    BY <2>1, <1>1 DEF Tells
  <2>3. n \in owed .. Len(written)
    BY <2>1, <2>2, <1>2
  <2>4. Folded(SubSeq(r, 1, k)) = Left(SubSeq(r, 1, k))
    BY <2>1, Cut, ReadWhole
  <2> HIDE DEF n
  <2> QED  BY <2>2, <2>3, <2>4, <1>3
<1>4. CASE lines # r
  <2>1. phase = "down" /\ lines = Append(r, TornLine)
    BY <1>1, <1>4
  <2>2. lines # <<>>
    BY <2>1
  <2>3. k = Len(lines)
    BY <2>1, <2>2, <1>2 DEF IInv, Stages
  <2>4. SubSeq(lines, 1, k) = lines /\ Folded(lines) = Left(r)
    BY <2>1, <2>3, <1>2, SubSeqFull, ReadTorn
  <2>5. Left(r) = Meaning(written) /\ owed <= Len(written)
    BY <1>1, <1>2, TellsAll
  <2>6. SubSeq(written, 1, Len(written)) = written /\ Len(written) \in owed .. Len(written)
    BY <2>5, <1>2, SubSeqFull
  <2> QED  BY <2>4, <2>5, <2>6
<1> QED  BY <1>3, <1>4

\* It holds before the first open.
LEMMA InitIInv == Init => IInv
<1> SUFFICES ASSUME Init
             PROVE  IInv
  OBVIOUS
<1> USE DEF Init
<1>1. /\ <<>> \in Seq(Line) /\ Len(<<>>) = 0 /\ <<>> \in Seq(Writes)
      /\ <<>> \in Seq(WholeLine)
  BY EmptySeq
<1>2. TypeOK
  BY <1>1, LogFileAssumption DEF TypeOK
<1>3. Stages
  BY DEF Stages, Ids, NoFile
<1>4. FileTells
  <2>1. Tells(<<>>, <<>>, -1, 0)
    BY TellsNothing
  <2> QED  BY <2>1, <1>1 DEF FileTells
<1> QED  BY <1>2, <1>3, <1>4 DEF IInv

-----------------------------------------------------------------------------
(* One lemma for each action.                                              *)

\* A step keeps the promise when it leaves the header and starts the history
\* with what was owed.
Promised == owed > 0 => head' = head /\ IsPrefix(SubSeq(written, 1, owed), written')

\* The history before the step starts with what was owed.
LEMMA PrefixOfOwn ==
  ASSUME TypeOK, NEW v \in Seq(Writes), owed <= Len(v),
         \A k \in 0 .. owed : SubSeq(v, 1, k) = SubSeq(written, 1, k)
  PROVE  IsPrefix(SubSeq(written, 1, owed), v)
<1>1. written \in Seq(Writes) /\ owed \in 0 .. Len(written)
  BY DEF TypeOK
<1>2. Len(SubSeq(written, 1, owed)) = owed
  BY <1>1, Cut
<1>3. owed \in 0 .. owed
  BY <1>1
<1> QED  BY <1>1, <1>2, <1>3 DEF IsPrefix

\* Opening without a usable file.
LEMMA MintKeeps ==
  ASSUME IInv, Mint
  PROVE  IInv' /\ Promised
<1> USE DEF Mint
<1>1. /\ <<>> \in Seq(Line) /\ Len(<<>>) = 0 /\ <<>> \in Seq(Writes)
      /\ <<>> \in Seq(WholeLine)
  BY EmptySeq
<1>2. minted + 1 \in 1 .. MaxIds /\ minted + 1 \in 0 .. MaxIds
  BY LogFileAssumption DEF IInv, TypeOK
<1>3. head \notin Ids /\ owed = 0
  <2>1. head \notin Ids
    BY DEF NoFile, Torn, Ids
  <2> QED  BY <2>1 DEF IInv, Stages, TypeOK
<1>4. TypeOK'
  BY <1>1, <1>2 DEF IInv, TypeOK, Ids
<1>5. Stages'
  BY <1>2 DEF Stages, Ids
<1>6. FileTells'
  <2>1. Tells(<<>>, <<>>, -1, 0)
    BY TellsNothing
  <2> QED  BY <2>1, <1>1 DEF FileTells
<1> QED  BY <1>3, <1>4, <1>5, <1>6 DEF IInv, Promised

\* Steps that leave the lines and the history alone keep the file's word, as
\* long as no line becomes less safe.
LEMMA SameFileTells ==
  ASSUME IInv, lines' = lines, written' = written, owed' = owed, safe' \in Int,
         safe' >= safe, phase = "down" => phase' = "down" \/ lines = <<>>
  PROVE  FileTells'
<1>1. PICK r \in Seq(WholeLine) :
        /\ lines = r \/ (phase = "down" /\ lines = Append(r, TornLine))
        /\ Tells(r, written, safe, owed)
  BY DEF IInv, FileTells
<1>2. written \in Seq(Writes) /\ safe \in Int /\ owed \in Int
  BY DEF IInv, TypeOK
<1>3. lines = <<>> => lines = r
  BY <1>1
<1>4. Tells(r, written, safe', owed)
  BY <1>1, <1>2, TellsSafer
<1> QED  BY <1>1, <1>3, <1>4 DEF FileTells

\* A step that keeps the header and the history keeps the promise.
LEMMA SameHistory ==
  ASSUME TypeOK, head' = head, written' = written
  PROVE  Promised
<1>1. written \in Seq(Writes) /\ owed \in Nat /\ owed <= Len(written)
  BY LenProperties DEF TypeOK
<1> QED  BY <1>1, PrefixOfOwn DEF Promised

\* The steps that only move on: the header is synced, an empty file is
\* refused, an fsync fails, a refused process ends.
LEMMA MovesKeep ==
  ASSUME IInv, HeaderSynced \/ OpenBlank \/ SyncFails \/ CrashRefused
  PROVE  IInv' /\ Promised
<1> USE DEF HeaderSynced, OpenBlank, SyncFails, CrashRefused
<1>1. safe \in Int /\ -1 <= safe /\ safe <= Len(lines) /\ Len(lines) \in Nat
  BY LenProperties DEF IInv, TypeOK
<1>2. TypeOK'
  BY <1>1 DEF IInv, TypeOK
<1>3. Stages'
  BY <1>1 DEF IInv, TypeOK, Stages, Ids, Blank
<1>4. phase = "down" => lines = <<>>
  BY DEF IInv, Stages, Ids, Blank
<1>5. FileTells'
  <2>1. safe' \in Int /\ safe' >= safe
    <3>1. phase = "creating" => Len(lines) = 0
      BY DEF IInv, Stages
    <3> QED  BY <3>1, <1>1
  <2> QED  BY <2>1, <1>4, SameFileTells
<1>6. Promised
  BY SameHistory DEF IInv
<1> QED  BY <1>2, <1>3, <1>5, <1>6 DEF IInv

\* A crash before the header was synced.
LEMMA CrashCreatingKeeps ==
  ASSUME IInv, CrashCreating
  PROVE  IInv' /\ Promised
<1> USE DEF CrashCreating
<1>1. lines = <<>> /\ written = <<>> /\ head \in Ids
  BY DEF IInv, Stages
<1>2. owed = 0 /\ safe \in -1 .. 0 /\ safe' \in -1 .. 0
  BY <1>1 DEF IInv, TypeOK
<1>3. TypeOK'
  BY <1>1, <1>2 DEF IInv, TypeOK
<1>4. Stages'
  BY <1>1 DEF Stages
<1>5. FileTells'
  <2>1. Tells(<<>>, <<>>, safe', 0)
    BY <1>2, TellsNothing
  <2>2. <<>> \in Seq(WholeLine)
    BY EmptySeq
  <2> QED  BY <2>1, <2>2, <1>1, <1>2 DEF FileTells
<1>6. Promised
  BY <1>2 DEF Promised
<1> QED  BY <1>3, <1>4, <1>5, <1>6 DEF IInv

\* Opening a file cuts it behind its whole lines.
LEMMA OpenKeeps ==
  ASSUME IInv, Open
  PROVE  IInv' /\ Promised
<1> USE DEF Open
<1>1. PICK r \in Seq(WholeLine) :
        /\ lines = r \/ lines = Append(r, TornLine)
        /\ Tells(r, written, safe, owed)
  BY DEF IInv, FileTells
<1>2. /\ written \in Seq(Writes) /\ safe \in Int /\ owed \in Int
      /\ safe = Len(lines) \/ lines = <<>>
  BY DEF IInv, TypeOK, Stages
<1>3. Len(r) \in Nat /\ r \in Seq(Line)
  BY WholeLines
<1>4. lines' = r /\ safe' = Len(r)
  BY <1>1, ReadWhole, ReadTorn
<1>5. TypeOK'
  BY <1>3, <1>4 DEF IInv, TypeOK
<1>6. Stages'
  BY <1>3, <1>4 DEF Stages
<1>7. FileTells'
  <2>1. Tells(r, written, Len(r), owed)
    BY <1>1, <1>2, <1>3, TellsSafer
  <2> QED  BY <2>1, <1>4 DEF FileTells
<1>8. Promised
  BY SameHistory DEF IInv
<1> QED  BY <1>5, <1>6, <1>7, <1>8 DEF IInv

\* While the process runs every line is whole.
LEMMA RunningWhole ==
  ASSUME IInv, phase # "down"
  PROVE  /\ lines \in Seq(WholeLine) /\ lines \in Seq(Line)
         /\ Tells(lines, written, safe, owed)
         /\ written \in Seq(Writes) /\ Len(lines) \in Nat /\ Len(written) \in Nat
         /\ safe \in Int /\ safe <= Len(lines) /\ owed \in Nat /\ owed <= Len(written)
BY LenProperties DEF IInv, FileTells, TypeOK

\* An append: one line and one write more.
LEMMA AppendKeeps ==
  ASSUME IInv, NEW w \in Writes, AppendLine(w)
  PROVE  IInv' /\ Promised
<1> USE DEF AppendLine
<1>1. /\ lines \in Seq(WholeLine) /\ lines \in Seq(Line)
      /\ Tells(lines, written, safe, owed)
      /\ written \in Seq(Writes) /\ Len(lines) \in Nat /\ Len(written) \in Nat
      /\ safe \in Int /\ safe <= Len(lines) /\ owed \in Nat /\ owed <= Len(written)
  BY RunningWhole
<1>2. lines # <<>> => Last(lines).form = "whole"
  <2> SUFFICES ASSUME lines # <<>>
               PROVE  Last(lines).form = "whole"
    OBVIOUS
  <2>1. Len(lines) \in 1 .. Len(lines)
    BY <1>1, EmptySeq
  <2> QED  BY <2>1, <1>1, WholeLines DEF Last
<1>3. lines' = Append(lines, LineOf(w))
  BY <1>2 DEF Extended
<1>4. /\ Append(lines, LineOf(w)) \in Seq(WholeLine)
      /\ Tells(Append(lines, LineOf(w)), Append(written, w), safe, owed)
  BY <1>1, TellsMore
<1>5. /\ lines' \in Seq(Line) /\ Len(lines') = Len(lines) + 1
      /\ written' \in Seq(Writes) /\ Len(written') = Len(written) + 1 /\ written' # <<>>
  <2>1. LineOf(w) \in WholeLine
    BY LineIsWhole
  <2>2. Len(Append(lines, LineOf(w))) = Len(lines) + 1
    BY <2>1, <1>1, AppendProperties
  <2>3. Append(lines, LineOf(w)) \in Seq(Line)
    BY <1>4, WholeLines
  <2>4. /\ Append(written, w) \in Seq(Writes) /\ Append(written, w) # <<>>
        /\ Len(Append(written, w)) = Len(written) + 1
    BY <1>1, AppendProperties
  <2> QED  BY <2>2, <2>3, <2>4, <1>3
<1>6. TypeOK'
  <2>1. issued' \in 0 .. MaxWrites
    BY LogFileAssumption DEF IInv, TypeOK
  <2>2. safe' \in -1 .. Len(lines') /\ owed' \in 0 .. Len(written')
    BY <1>1, <1>5 DEF IInv, TypeOK
  <2> QED  BY <2>1, <2>2, <1>5 DEF IInv, TypeOK
<1>7. Stages'
  BY <1>5 DEF IInv, Stages
<1>8. FileTells'
  BY <1>3, <1>4 DEF FileTells
<1>9. Promised
  <2>1. \A k \in 0 .. owed : SubSeq(Append(written, w), 1, k) = SubSeq(written, 1, k)
    <3> SUFFICES ASSUME NEW k \in 0 .. owed
                 PROVE  SubSeq(Append(written, w), 1, k) = SubSeq(written, 1, k)
      OBVIOUS
    <3>1. k \in 0 .. Len(written)
      BY <1>1
    <3> QED  BY <3>1, <1>1, CutAppend
  <2>2. owed <= Len(written')
    BY <1>1, <1>5
  <2> QED  BY <2>1, <2>2, <1>5, PrefixOfOwn DEF IInv, Promised
<1> QED  BY <1>6, <1>7, <1>8, <1>9 DEF IInv

\* The fsync: the lines are safe, and the write of an append without drops is
\* acknowledged.
LEMMA SyncKeeps ==
  ASSUME IInv, Sync
  PROVE  IInv' /\ Promised
<1> USE DEF Sync, Ack
<1>1. /\ lines \in Seq(WholeLine) /\ lines \in Seq(Line)
      /\ Tells(lines, written, safe, owed)
      /\ written \in Seq(Writes) /\ Len(lines) \in Nat /\ Len(written) \in Nat
      /\ safe \in Int /\ safe <= Len(lines) /\ owed \in Nat /\ owed <= Len(written)
  BY RunningWhole
<1>2. phase' \in {"open", "folding"} /\ owed' \in {owed, Len(written)}
  OBVIOUS
<1>3. TypeOK'
  BY <1>1, <1>2 DEF IInv, TypeOK
<1>4. Stages'
  BY <1>1, <1>2 DEF IInv, Stages
<1>5. FileTells'
  <2>1. Tells(lines, written, Len(lines), owed)
    BY <1>1, TellsSafer
  <2>2. Tells(lines, written, Len(lines), Len(written))
    BY <1>1, TellsAcked
  <2> QED  BY <2>1, <2>2, <1>1, <1>2 DEF FileTells
<1>6. Promised
  BY SameHistory DEF IInv
<1> QED  BY <1>3, <1>4, <1>5, <1>6 DEF IInv

\* The checkpoint: one line for them all, or nothing done.
LEMMA CheckpointKeeps ==
  ASSUME IInv, Checkpoint
  PROVE  IInv' /\ Promised
<1> USE DEF Checkpoint, Ack
<1>1. /\ lines \in Seq(WholeLine) /\ lines \in Seq(Line)
      /\ Tells(lines, written, safe, owed)
      /\ written \in Seq(Writes) /\ Len(lines) \in Nat /\ Len(written) \in Nat
      /\ safe \in Int /\ safe <= Len(lines) /\ owed \in Nat /\ owed <= Len(written)
  BY RunningWhole
<1>2. written # <<>> /\ safe = Len(lines)
  BY DEF IInv, Stages
<1> DEFINE l == [adds |-> Left(lines), drops |-> {}, form |-> "whole"]
<1>3. Folded(lines) = Left(lines)
  BY <1>1, ReadWhole
<1>4. <<l>> \in Seq(WholeLine) /\ Tells(<<l>>, written, 1, Len(written))
  BY <1>1, <1>2, TellsFolded
<1>5. Tells(lines, written, Len(lines), Len(written))
  BY <1>1, TellsAcked
<1>6. \/ lines' = lines /\ safe' = safe
      \/ lines' = <<l>> /\ safe' = 1
  BY <1>3
<1>7. <<l>> \in Seq(Line) /\ Len(<<l>>) = 1
  BY <1>4, WholeLines
<1> HIDE DEF l
<1>8. lines' \in Seq(Line) /\ safe' = Len(lines') /\ Len(lines') \in Nat
  BY <1>1, <1>2, <1>6, <1>7
<1>9. TypeOK'
  BY <1>1, <1>8 DEF IInv, TypeOK
<1>10. Stages'
  BY <1>8 DEF IInv, Stages
<1>11. FileTells'
  <2>1. Tells(lines', written', safe', owed') /\ lines' \in Seq(WholeLine)
    BY <1>1, <1>2, <1>4, <1>5, <1>6
  <2> QED  BY <2>1 DEF FileTells
<1>12. Promised
  BY SameHistory DEF IInv
<1> QED  BY <1>9, <1>10, <1>11, <1>12 DEF IInv

\* A crash: the lines up to a cut survive, with them the writes they tell of.
LEMMA CrashKeeps ==
  ASSUME IInv, Crash
  PROVE  IInv' /\ Promised
<1>1. /\ lines \in Seq(WholeLine) /\ lines \in Seq(Line)
      /\ Tells(lines, written, safe, owed)
      /\ written \in Seq(Writes) /\ Len(lines) \in Nat /\ Len(written) \in Nat
      /\ safe \in Int /\ safe <= Len(lines) /\ owed \in Nat /\ owed <= Len(written)
  BY RunningWhole DEF Crash
<1>2. safe >= 0 /\ head \in Ids
  BY DEF IInv, Stages, Crash
<1>3. PICK k \in safe .. Len(lines), torn \in BOOLEAN :
        /\ torn => k < Len(lines)
        /\ lines' = SubSeq(lines, 1, k) \o (IF torn THEN <<TornLine>> ELSE <<>>)
        /\ LET gone == {i \in k + 1 .. Len(lines) : lines[i].form # "torn"}
           IN written' = SubSeq(written, 1, Len(written) - Cardinality(gone))
  BY DEF Crash
<1> DEFINE c == SubSeq(lines, 1, k)
           n == Len(written) - (Len(lines) - k)
<1>4. k \in 0 .. Len(lines) /\ k >= safe /\ k \in Int
  BY <1>1, <1>2
<1>5. written' = SubSeq(written, 1, n)
  <2> DEFINE gone == {i \in k + 1 .. Len(lines) : lines[i].form # "torn"}
  <2>1. \A i \in k + 1 .. Len(lines) : lines[i].form # "torn"
    <3> SUFFICES ASSUME NEW i \in k + 1 .. Len(lines)
                 PROVE  lines[i].form # "torn"
      OBVIOUS
    <3>1. i \in 1 .. Len(lines)
      BY <1>1, <1>4
    <3> QED  BY <3>1, <1>1, WholeLines
  <2>2. gone = k + 1 .. Len(lines)
    BY <2>1
  <2> DEFINE m == k + 1
  <2>3. Cardinality(m .. Len(lines)) = IF m > Len(lines) THEN 0 ELSE Len(lines) - m + 1
    <3>1. m \in Int /\ Len(lines) \in Int
      BY <1>1, <1>4
    <3> HIDE DEF m
    <3> QED  BY <3>1, FS_Interval
  <2>4. Cardinality(k + 1 .. Len(lines)) = Len(lines) - k
    BY <2>3, <1>1, <1>4
  <2>5. written' = SubSeq(written, 1, Len(written) - Cardinality(gone))
    BY <1>3
  <2> HIDE DEF gone
  <2> QED  BY <2>2, <2>4, <2>5
<1>6. /\ n \in 0 .. Len(written) /\ owed <= n
      /\ c \in Seq(WholeLine) /\ Len(c) = k
      /\ SubSeq(written, 1, n) \in Seq(Writes) /\ Len(SubSeq(written, 1, n)) = n
      /\ Tells(c, SubSeq(written, 1, n), k, owed)
      /\ Tells(c, SubSeq(written, 1, n), k + 1, owed)
  <2>1. k + 1 \in Int /\ k + 1 >= k
    BY <1>4
  <2> QED  BY <2>1, <1>1, <1>4, TellsCut
<1>7. c \in Seq(Line) /\ TornLine \in Line
  BY <1>6, WholeLines DEF TornLine, Line
<1> HIDE DEF c
<1>8. lines' = IF torn THEN Append(c, TornLine) ELSE c
  <2>1. lines' = c \o (IF torn THEN <<TornLine>> ELSE <<>>)
    BY <1>3 DEF c
  <2>2. Append(c, TornLine) = c \o <<TornLine>> /\ c \o <<>> = c
    BY <1>7, AppendIsConcat, ConcatEmptySeq
  <2> QED  BY <2>1, <2>2
<1>9. lines' \in Seq(Line) /\ Len(lines') = (IF torn THEN k + 1 ELSE k)
  BY <1>6, <1>7, <1>8, AppendProperties
<1>10. /\ safe' = Len(lines') /\ phase' = "down"
       /\ head' = head /\ owed' = owed /\ minted' = minted /\ issued' = issued
  BY DEF Crash
<1>11. safe' = (IF torn THEN k + 1 ELSE k) /\ safe' \in Int /\ safe' >= 0
  BY <1>4, <1>9, <1>10
<1> HIDE DEF n
<1>12. TypeOK'
  <2>1. owed' \in 0 .. Len(written')
    BY <1>1, <1>5, <1>6, <1>10
  <2> QED  BY <2>1, <1>5, <1>6, <1>9, <1>10, <1>11 DEF IInv, TypeOK
<1>13. Stages'
  BY <1>2, <1>10 DEF Stages
<1>14. FileTells'
  BY <1>5, <1>6, <1>8, <1>10, <1>11 DEF FileTells
<1>15. Promised
  <2>1. \A j \in 0 .. owed : SubSeq(written', 1, j) = SubSeq(written, 1, j)
    <3> SUFFICES ASSUME NEW j \in 0 .. owed
                 PROVE  SubSeq(SubSeq(written, 1, n), 1, j) = SubSeq(written, 1, j)
      BY <1>5
    <3>1. j \in 0 .. n
      BY <1>1, <1>6
    <3> QED  BY <3>1, <1>1, <1>6, Cut
  <2> QED  BY <2>1, <1>5, <1>6, <1>10, PrefixOfOwn DEF IInv, Promised
<1> QED  BY <1>12, <1>13, <1>14, <1>15 DEF IInv

\* Every step keeps the invariant and the promise; so does stuttering.
LEMMA NextKeeps ==
  ASSUME IInv, [Next]_vars
  PROVE  IInv' /\ (Promised \/ UNCHANGED vars)
<1>1. CASE Mint
  BY <1>1, MintKeeps
<1>2. CASE HeaderSynced \/ OpenBlank \/ SyncFails \/ CrashRefused
  BY <1>2, MovesKeep
<1>3. CASE Open
  BY <1>3, OpenKeeps
<1>4. CASE \E w \in Writes : AppendLine(w)
  BY <1>4, AppendKeeps
<1>5. CASE Sync
  BY <1>5, SyncKeeps
<1>6. CASE Checkpoint
  BY <1>6, CheckpointKeeps
<1>7. CASE Crash
  BY <1>7, CrashKeeps
<1>8. CASE CrashCreating
  BY <1>8, CrashCreatingKeeps
<1>9. CASE UNCHANGED vars
  BY <1>9 DEF IInv, TypeOK, Stages, FileTells, vars
<1> QED
  BY <1>1, <1>2, <1>3, <1>4, <1>5, <1>6, <1>7, <1>8, <1>9 DEF Next

\* The invariant holds of every reachable state.
LEMMA Invariant == Spec => []IInv
<1>1. IInv /\ [Next]_vars => IInv'
  BY NextKeeps
<1> QED  BY <1>1, InitIInv, PTL DEF Spec

\* Shape: the state of the log store has its type in every reachable state.
THEOREM LogTypes == Spec => []TypeOK
<1>1. IInv => TypeOK
  BY DEF IInv
<1> QED  BY <1>1, Invariant, PTL

\* Durability, for every set of entries and however many appends, crashes and
\* new files: whatever a crash leaves of the file at any moment, the next open
\* reads an initial part of what was written, with every acknowledged write in
\* it.
THEOREM AppendsAreDurable == Spec => []AckedSurvive
<1>1. IInv => AckedSurvive
  BY InvSurvives
<1> QED  BY <1>1, Invariant, PTL

\* No step, a crash or an open among them, replaces the log or its device id
\* or shortens the history below what was acknowledged.
THEOREM LogsAreNotReplaced == Spec => HistoryKept
<1>1. IInv /\ [Next]_vars
        => [owed > 0 => /\ head' = head
                        /\ IsPrefix(SubSeq(written, 1, owed), written')]_vars
  BY NextKeeps DEF Promised
<1> QED  BY <1>1, Invariant, PTL DEF Spec, HistoryKept
=============================================================================
