---------------------- MODULE DomainProjectionProofs ----------------------
(***************************************************************************)
(* Proofs about DomainProjection.  TypeOK holds of every behaviour.  The   *)
(* other theorems are about the behaviours without the schedules Faults    *)
(* names (Plain): only the user's own edits are emitted, and whatever is   *)
(* torn, left unacknowledged, served again or compacted, each row shows    *)
(* what the log shows, or a line or a pass still to come will mend it.     *)
(*                                                                         *)
(* Neither of the two is inductive. Lines orders the pipeline by value and *)
(* keeps the log at its head; Held says which edit may still be emitted    *)
(* and why no page overwrites it; Flows follows one page from the file to  *)
(* the library: what is past Start is on its way (OnItsWay), what is       *)
(* before PageTo is served, committed or reported (UnderWay).              *)
(***************************************************************************)
EXTENDS DomainProjection, FiniteSetTheorems, SequenceTheorems,
        WellFoundedInduction, TLAPS

-----------------------------------------------------------------------------
(* Numbers, sets and sequences.                                            *)

\* A set of numbers has a smallest member, if any.
LEMMA LeastPosition ==
  ASSUME NEW S \in SUBSET Nat, S # {}
  PROVE  \E m \in S : \A n \in S : m <= n
<1>1. PICK m \in S : \A i \in S : ~(<<i, m>> \in OpToRel(<, Nat))
  BY NatLessThanWellFounded, WFMin
<1>2. ASSUME NEW n \in S
      PROVE  m <= n
  <2>1. ~(n < m)
    BY <1>1 DEF OpToRel
  <2> QED
    BY <2>1
<1> QED
  BY <1>2

\* A set of numbers with a bound has a largest member, if any.
LEMMA LastPosition ==
  ASSUME NEW S \in SUBSET Nat, S # {}, NEW b \in Nat, \A n \in S : n <= b
  PROVE  \E m \in S : \A n \in S : n <= m
<1> DEFINE Gaps == {b - n : n \in S}
<1>1. Gaps \subseteq Nat /\ Gaps # {}
  <2>1. \A n \in S : b - n \in Nat
    OBVIOUS
  <2> QED
    BY <2>1
<1>2. PICK g \in Gaps : \A i \in Gaps : g <= i
  <2> HIDE DEF Gaps
  <2> QED
    BY <1>1, LeastPosition
<1>3. PICK m \in S : g = b - m
  BY <1>2
<1>4. ASSUME NEW n \in S
      PROVE  n <= m
  <2>1. b - n \in Gaps
    OBVIOUS
  <2>2. g <= b - n
    BY <1>2, <2>1
  <2> QED
    BY <1>3, <2>2
<1> QED
  BY <1>4

\* The sequence of a finite set's elements: each of them, and nothing else.
LEMMA SetToSeqFacts ==
  ASSUME NEW S, IsFiniteSet(S)
  PROVE  /\ Cardinality(S) \in Nat
         /\ SetToSeq(S) \in [1 .. Cardinality(S) -> S]
         /\ \A x \in S : \E k \in 1 .. Cardinality(S) : SetToSeq(S)[k] = x
<1> DEFINE n == Cardinality(S)
           f == SetToSeq(S)
<1>1. n \in Nat
  BY FS_CardinalityType
<1>2. ExistsBijection(1 .. n, S)
  BY FS_CardinalityType
<1>3. \E g \in [1 .. n -> S] : IsInjective(g)
  BY <1>2 DEF ExistsBijection, Bijection, Injection
<1>4. f \in [1 .. n -> S] /\ IsInjective(f)
  BY <1>3 DEF SetToSeq
<1>5. IsFiniteSet(1 .. n) /\ Cardinality(1 .. n) = n
  BY <1>1, FS_Interval
<1>6. f \in Surjection(1 .. n, S)
  <2>1. f \in Injection(1 .. n, S)
    BY <1>4 DEF Injection
  <2> HIDE DEF f, n
  <2> QED
    BY <2>1, <1>5, FS_Injection DEF n
<1> QED
  BY <1>1, <1>4, <1>6 DEF Surjection

-----------------------------------------------------------------------------
(* Types, and how the places of the journal and the renderer fit together. *)

DrainStates ==
  {"down", "idle", "pull", "skip", "commit", "ack", "acking", "next", "mend"}

BoundsTyped == made \in 0 .. MaxWrites /\ faults \in 0 .. MaxFaults

EngineTyped == log \in [Rows -> 0 .. made] /\ logged \subseteq 1 .. made

\* The queue and the file hold lines no younger than the last write.
LinesTyped ==
  /\ file \in Seq(Segment) /\ appending \in Seq(Seq(Line))
  /\ \A i \in DOMAIN file : file[i].val <= made
  /\ \A i \in DOMAIN appending : \A k \in DOMAIN appending[i] : appending[i][k].val <= made

JournalTyped ==
  /\ off \in 0 .. Len(file) /\ awaiting \in Nat /\ dropped \in BOOLEAN
  /\ ahead \in 0 .. Len(appending)
  /\ drain = "down" => ahead = 0

\* An advance stays inside the file, and belongs to the drain that waits
\* for it unless the renderer died meanwhile.
AdvanceTyped ==
  /\ io \in [step : Steps \cup {"done"}, to : Nat, by : {"ack", "drain"}]
  /\ io.step \in {"advance", "zero", "copy"} => io.to <= Len(file)
  /\ io.step = "zero" => off = io.to
  /\ io.step = "copy" => off = 0
  /\ io.step # "idle" =>
       \/ drain = "down"
       \/ drain = "pull" /\ boot = "drain"
       \/ drain = "skip" /\ io.by = "drain"
       \/ drain = "acking" /\ io.by = "ack"
  /\ drain \in {"skip", "acking"} => io.step # "idle"
  /\ drain \in {"commit", "ack"} => off + awaiting <= Len(file)
  /\ drain = "skip" => dropped

\* The page being committed is lines of the file.
PageTyped ==
  /\ DOMAIN batch \subseteq DOMAIN file
  /\ \A i \in DOMAIN batch : batch[i] \in Line
  /\ drain # "commit" => DOMAIN batch = {}
  /\ drain = "commit" =>
       \A i \in DOMAIN batch :
         /\ i \in off + 1 .. off + awaiting /\ file[i].whole
         /\ batch[i].row = file[i].row /\ batch[i].val = file[i].val

DrainTyped ==
  /\ drain \in DrainStates
  /\ more \in BOOLEAN /\ needs \in BOOLEAN /\ wake \in BOOLEAN
  /\ boot \in {"no", "drain", "owed", "runs"}
  /\ drain = "down" => boot = "no"

PassTyped ==
  /\ pass \in [who : {"none", "drain", "boot"}, todo : SUBSET Rows, view : [Rows -> 0 .. made]]
  /\ pass.who = "none" => pass.todo = {}
  /\ pass.who = "drain" => drain = "mend"
  /\ pass.who = "boot" <=> boot = "runs"

SessionTyped ==
  /\ domain \in [Rows -> 0 .. made]
  /\ edits \subseteq Line /\ (\A e \in edits : e.val <= made)
  /\ emitq \in Seq(Line) /\ sending \in BOOLEAN

Typed ==
  /\ BoundsTyped /\ EngineTyped /\ LinesTyped /\ JournalTyped /\ AdvanceTyped
  /\ PageTyped /\ DrainTyped /\ PassTyped /\ SessionTyped

\* The invariant is at least the one TLC checks.
LEMMA TypedIsTypeOK == Typed => TypeOK
BY DEF Typed, TypeOK, BoundsTyped, EngineTyped, LinesTyped, JournalTyped, AdvanceTyped,
       PageTyped, DrainTyped, PassTyped, SessionTyped, DrainStates, Steps

\* The initial state is well typed.
LEMMA TypedInit == Init => Typed
<1> SUFFICES ASSUME Init
             PROVE  Typed
  OBVIOUS
<1>1. BoundsTyped
  BY BoundsAssumption DEF Init, BoundsTyped
<1>2. EngineTyped
  BY DEF Init, EngineTyped
<1>3. SessionTyped
  <2>1. emitq \in Seq(Line)
    BY EmptySeq DEF Init
  <2>2. domain \in [Rows -> 0 .. made]
    BY DEF Init
  <2>3. edits = {} /\ sending = FALSE
    BY DEF Init
  <2> QED
    BY <2>1, <2>2, <2>3 DEF SessionTyped
<1>4. LinesTyped
  BY EmptySeq DEF Init, LinesTyped
<1>5. JournalTyped
  <2>1. Len(file) = 0 /\ Len(appending) = 0
    BY EmptySeq DEF Init
  <2>2. off = 0 /\ awaiting = 0 /\ dropped = FALSE /\ ahead = 0
    BY DEF Init
  <2>3. off \in 0 .. Len(file) /\ ahead \in 0 .. Len(appending)
    BY <2>1, <2>2
  <2> QED
    BY <2>2, <2>3 DEF JournalTyped
<1>6. AdvanceTyped
  BY DEF Init, AdvanceTyped, Quiet, Steps
<1>7. PageTyped
  BY DEF Init, PageTyped
<1>8. DrainTyped
  BY DEF Init, DrainTyped, DrainStates
<1>9. PassTyped
  <2>1. [r \in Rows |-> 0] \in [Rows -> 0 .. made]
    BY DEF Init
  <2> QED
    BY <2>1 DEF Init, PassTyped, NoPass
<1> QED
  BY <1>1, <1>2, <1>3, <1>4, <1>5, <1>6, <1>7, <1>8, <1>9 DEF Typed

-----------------------------------------------------------------------------
(* What an append leaves in the file.                                      *)

\* Segments that stand for some of these lines.
CutFrom(left, lines) ==
  /\ left \in Seq(Segment)
  /\ \A k \in DOMAIN left : \E j \in DOMAIN lines :
       left[k].row = lines[j].row /\ left[k].val = lines[j].val

\* What is written for a list of lines is those lines, marked alike.
LEMMA WrittenFacts ==
  ASSUME NEW lines \in Seq(Line), NEW whole \in BOOLEAN, NEW nl \in BOOLEAN
  PROVE  /\ Written(lines, whole, nl) \in Seq(Segment)
         /\ Len(Written(lines, whole, nl)) = Len(lines)
         /\ \A k \in 1 .. Len(lines) :
              Written(lines, whole, nl)[k] =
                [row |-> lines[k].row, val |-> lines[k].val, whole |-> whole, nl |-> nl]
         /\ CutFrom(Written(lines, whole, nl), lines)
<1> DEFINE w == Written(lines, whole, nl)
<1>1. DOMAIN lines = 1 .. Len(lines) /\ Len(lines) \in Nat
  BY LenProperties
<1>2. w = [k \in 1 .. Len(lines) |->
             [row |-> lines[k].row, val |-> lines[k].val, whole |-> whole, nl |-> nl]]
  BY <1>1 DEF Written
<1>3. \A k \in 1 .. Len(lines) : lines[k] \in Line
  BY ElementOfSeq
<1>4. w \in [1 .. Len(lines) -> Segment]
  BY <1>2, <1>3 DEF Line, Segment
<1>5. w \in Seq(Segment)
  BY <1>1, <1>4, SeqDef
<1>6. Len(w) = Len(lines)
  BY <1>1, <1>4, <1>5, LenProperties
<1> HIDE DEF w
<1>7. \A k \in 1 .. Len(lines) :
        w[k] = [row |-> lines[k].row, val |-> lines[k].val, whole |-> whole, nl |-> nl]
  BY <1>2
<1>8. CutFrom(w, lines)
  <2>1. DOMAIN w = 1 .. Len(lines)
    BY <1>2
  <2> QED
    BY <1>1, <1>5, <1>7, <2>1 DEF CutFrom
<1> QED
  BY <1>5, <1>6, <1>7, <1>8 DEF w

\* What a torn append leaves is cut from its list.
LEMMA TornFacts ==
  ASSUME NEW lines \in Seq(Line), NEW left \in Torn(lines)
  PROVE  CutFrom(left, lines)
<1>1. \A k \in 1 .. Len(lines) : lines[k] \in Line
  BY ElementOfSeq
<1>2. DOMAIN lines = 1 .. Len(lines) /\ Len(lines) \in Nat
  BY LenProperties
<1>3. PICK n \in 0 .. Len(lines) - 1 :
        \/ left = Kept(lines, n)
        \/ \E whole \in BOOLEAN :
             left = Kept(lines, n) \o Written(<<lines[n + 1]>>, whole, FALSE)
  BY DEF Torn
<1> DEFINE cut == SubSeq(lines, 1, n)
           u == Kept(lines, n)
           m == n + 1
<1>4. m \in 1 .. Len(lines) /\ n \in Nat
  BY <1>2
<1>5. cut \in Seq(Line) /\ Len(cut) = n /\ \A i \in 1 .. n : cut[i] = lines[i]
  <2>1. \A i \in 1 .. n : lines[i] \in Line
    BY <1>1, <1>2
  <2>2. /\ cut \in Seq(Line) /\ Len(cut) = IF 1 <= n THEN n - 1 + 1 ELSE 0
        /\ \A i \in 1 .. n - 1 + 1 : cut[i] = lines[1 + i - 1]
    BY <2>1, SubSeqProperties
  <2> HIDE DEF cut
  <2> QED
    BY <1>4, <2>2
<1>6. /\ u \in Seq(Segment) /\ Len(u) = n
      /\ \A k \in 1 .. n : u[k].row = lines[k].row /\ u[k].val = lines[k].val
  <2> HIDE DEF cut
  <2>1. /\ u \in Seq(Segment) /\ Len(u) = n
        /\ \A k \in 1 .. n : u[k] = [row |-> cut[k].row, val |-> cut[k].val,
                                     whole |-> TRUE, nl |-> TRUE]
    BY <1>5, WrittenFacts DEF Kept, cut
  <2> HIDE DEF u
  <2>2. \A k \in 1 .. n : u[k].row = cut[k].row /\ u[k].val = cut[k].val
    BY <2>1
  <2> QED
    BY <1>5, <2>1, <2>2, Zenon
<1> HIDE DEF cut, u
<1>7. \A k \in 1 .. n : k \in DOMAIN lines
  BY <1>2, <1>4
<1>8. CASE left = u
  <2>1. DOMAIN left = 1 .. n
    BY <1>6, <1>8, LenProperties
  <2> QED
    BY <1>6, <1>7, <1>8, <2>1, Zenon DEF CutFrom
<1>9. ASSUME NEW whole \in BOOLEAN, left = u \o Written(<<lines[m]>>, whole, FALSE)
      PROVE  CutFrom(left, lines)
  <2> DEFINE v == Written(<<lines[m]>>, whole, FALSE)
  <2>1. /\ v \in Seq(Segment) /\ Len(v) = 1
        /\ v[1].row = lines[m].row /\ v[1].val = lines[m].val
    <3>1. lines[m] \in Line
      BY <1>1, <1>4
    <3>2. <<lines[m]>> \in Seq(Line) /\ Len(<<lines[m]>>) = 1 /\ <<lines[m]>>[1] = lines[m]
      BY <3>1
    <3> DEFINE one == <<lines[m]>>
    <3> HIDE DEF one
    <3>3. one \in Seq(Line) /\ Len(one) = 1 /\ one[1] = lines[m]
      BY <3>2 DEF one
    <3>4. /\ v \in Seq(Segment) /\ Len(v) = 1
          /\ \A k \in 1 .. 1 : v[k] = [row |-> one[k].row, val |-> one[k].val,
                                       whole |-> whole, nl |-> FALSE]
      BY <3>3, WrittenFacts DEF one
    <3> HIDE DEF v
    <3> QED
      BY <3>3, <3>4
  <2>2. left = u \o v
    BY <1>9
  <2> HIDE DEF v, m
  <2>3. /\ left \in Seq(Segment) /\ Len(left) = n + 1
        /\ \A i \in 1 .. n + 1 : left[i] = IF i <= n THEN u[i] ELSE v[i - n]
    <3>1. /\ u \o v \in Seq(Segment) /\ Len(u \o v) = Len(u) + Len(v)
          /\ \A i \in 1 .. Len(u) + Len(v) :
               (u \o v)[i] = IF i <= Len(u) THEN u[i] ELSE v[i - Len(u)]
      BY <1>6, <2>1, ConcatProperties
    <3> QED
      BY <1>6, <2>1, <2>2, <3>1
  <2>4. DOMAIN left = 1 .. n + 1
    BY <2>3, LenProperties
  <2>5. ASSUME NEW k \in 1 .. n + 1
        PROVE  /\ k \in DOMAIN lines
               /\ left[k].row = lines[k].row /\ left[k].val = lines[k].val
    <3>1. CASE k <= n
      BY <1>4, <1>6, <1>7, <2>3, <3>1
    <3>2. CASE k = n + 1
      BY <1>2, <1>4, <2>1, <2>3, <3>2 DEF m
    <3> QED
      BY <1>4, <3>1, <3>2
  <2> QED
    BY <2>3, <2>4, <2>5, Zenon DEF CutFrom
<1> QED
  BY <1>3, <1>8, <1>9 DEF u

\* The file after an append of the first waiting list, whole or torn: what
\* was there stays where it is, and what is new comes from that list.
Grown ==
  /\ file' \in Seq(Segment) /\ Len(file') \in Nat /\ Len(file) <= Len(file')
  /\ DOMAIN file = 1 .. Len(file) /\ DOMAIN file' = 1 .. Len(file')
  /\ \A i \in DOMAIN file : file'[i] = file[i]
  /\ \A i \in DOMAIN file' \ DOMAIN file :
       /\ appending # <<>>
       /\ \E j \in DOMAIN Head(appending) :
            /\ file'[i].row = Head(appending)[j].row
            /\ file'[i].val = Head(appending)[j].val

\* A file that gained such lines has grown at its end only.
LEMMA GrownBy ==
  ASSUME NEW left, file \in Seq(Segment), appending # <<>>,
         CutFrom(left, Head(appending)), file' = file \o left
  PROVE  Grown
<1>1. left \in Seq(Segment)
  BY DEF CutFrom
<1>2. /\ file' \in Seq(Segment) /\ Len(file') = Len(file) + Len(left)
      /\ \A i \in 1 .. Len(file) + Len(left) :
           file'[i] = IF i <= Len(file) THEN file[i] ELSE left[i - Len(file)]
  BY <1>1, ConcatProperties
<1>3. Len(left) \in Nat /\ DOMAIN left = 1 .. Len(left)
  BY <1>1, LenProperties
<1>4. Len(file) \in Nat /\ DOMAIN file = 1 .. Len(file)
  BY LenProperties
<1>5. DOMAIN file' = 1 .. Len(file')
  BY <1>2, LenProperties
<1>6. \A i \in DOMAIN file : file'[i] = file[i]
  BY <1>2, <1>3, <1>4
<1>7. ASSUME NEW i \in DOMAIN file' \ DOMAIN file
      PROVE  \E j \in DOMAIN Head(appending) :
               /\ file'[i].row = Head(appending)[j].row
               /\ file'[i].val = Head(appending)[j].val
  <2>1. i - Len(file) \in DOMAIN left /\ file'[i] = left[i - Len(file)]
    BY <1>2, <1>3, <1>4, <1>5, <1>7
  <2> QED
    BY <2>1 DEF CutFrom
<1>8. Len(file') \in Nat /\ Len(file) <= Len(file')
  BY <1>2, <1>3, <1>4
<1> QED
  BY <1>2, <1>4, <1>5, <1>6, <1>7, <1>8, Zenon DEF Grown

\* A file that gained none has grown too.
LEMMA GrownNone ==
  ASSUME file \in Seq(Segment), file' = file
  PROVE  Grown
<1>1. Len(file) \in Nat /\ DOMAIN file = 1 .. Len(file)
  BY LenProperties
<1> QED
  BY <1>1 DEF Grown

-----------------------------------------------------------------------------
(* Every action preserves the types.                                       *)

\* A delta's outcomes as a list: each row once or more, nothing else.
LEMMA ApplyList ==
  ASSUME NEW rows \in SUBSET Rows, NEW v
  PROVE  LET list == [k \in 1 .. Cardinality(rows) |-> [row |-> SetToSeq(rows)[k], val |-> v]]
         IN  /\ v \in 1 .. MaxWrites => list \in Seq(Line)
             /\ \A k \in DOMAIN list : list[k].row \in rows /\ list[k].val = v
             /\ \A r \in rows : \E k \in DOMAIN list : list[k].row = r /\ list[k].val = v
<1> DEFINE n == Cardinality(rows)
           s == SetToSeq(rows)
           list == [k \in 1 .. n |-> [row |-> s[k], val |-> v]]
<1>1. IsFiniteSet(rows)
  BY BoundsAssumption, FS_Subset
<1>2. /\ n \in Nat /\ s \in [1 .. n -> rows]
      /\ \A x \in rows : \E k \in 1 .. n : s[k] = x
  BY <1>1, SetToSeqFacts
<1> HIDE DEF n, s
<1>3. ASSUME v \in 1 .. MaxWrites
      PROVE  list \in Seq(Line)
  <2>1. list \in [1 .. n -> Line]
    BY <1>2, <1>3 DEF Line
  <2> QED
    BY <1>2, <2>1, SeqDef
<1>4. \A k \in DOMAIN list : list[k].row \in rows /\ list[k].val = v
  BY <1>2
<1>5. \A r \in rows : \E k \in DOMAIN list : list[k].row = r /\ list[k].val = v
  BY <1>2
<1> QED
  BY <1>3, <1>4, <1>5 DEF n, s

\* A merged delta keeps the types: its value is the youngest.
LEMMA TypedApply ==
  ASSUME Typed, NEW rows \in SUBSET Rows, Apply(rows)
  PROVE  Typed'
<1> DEFINE list == [k \in 1 .. Cardinality(rows) |->
                      [row |-> SetToSeq(rows)[k], val |-> made']]
<1>1. /\ made \in 0 .. MaxWrites /\ made < MaxWrites /\ made' = made + 1
      /\ log' = [r \in Rows |-> IF r \in rows THEN made' ELSE log[r]]
      /\ logged' = logged \cup {made'} /\ appending' = Append(appending, list)
      /\ wake' = (wake \/ drain # "down")
      /\ UNCHANGED <<faults, file, off, awaiting, dropped, io, drain, ahead, batch,
                     more, needs, boot, pass, session>>
  BY DEF Typed, BoundsTyped, Apply, Write
<1>2. made' \in 1 .. MaxWrites /\ made' \in Nat /\ made \in Nat /\ made <= made'
  BY <1>1, BoundsAssumption
<1>3. /\ list \in Seq(Line)
      /\ \A k \in DOMAIN list : list[k].val = made'
  BY <1>2, ApplyList
<1> HIDE DEF list
<1>4. BoundsTyped'
  BY <1>1, <1>2 DEF Typed, BoundsTyped
<1>5. EngineTyped'
  BY <1>1, <1>2 DEF Typed, EngineTyped
<1>6. appending \in Seq(Seq(Line))
  BY DEF Typed, LinesTyped
<1>7. /\ appending' \in Seq(Seq(Line)) /\ Len(appending') = Len(appending) + 1
      /\ Len(appending) \in Nat
      /\ \A i \in 1 .. Len(appending) : appending'[i] = appending[i]
      /\ appending'[Len(appending) + 1] = list
      /\ DOMAIN appending' = 1 .. Len(appending) + 1
      /\ DOMAIN appending = 1 .. Len(appending)
  BY <1>1, <1>3, <1>6
<1>8. LinesTyped'
  <2>1. ASSUME NEW i \in DOMAIN appending', NEW k \in DOMAIN appending'[i]
        PROVE  appending'[i][k].val <= made'
    <3>1. CASE i = Len(appending) + 1
      BY <1>2, <1>3, <1>7, <3>1
    <3>2. CASE i \in DOMAIN appending
      <4>1. appending'[i] = appending[i]
        BY <1>7, <3>2
      <4>2. appending[i][k].val <= made
        BY <3>2, <4>1 DEF Typed, LinesTyped
      <4>3. appending[i][k] \in Line
        BY <1>6, <3>2, <4>1
      <4> QED
        BY <1>2, <4>1, <4>2, <4>3 DEF Line
    <3> QED
      BY <1>7, <3>1, <3>2
  <2>2. \A i \in DOMAIN file : file[i].val <= made'
    <3>1. \A i \in DOMAIN file : file[i] \in Segment /\ file[i].val <= made
      BY DEF Typed, LinesTyped
    <3> QED
      BY <1>2, <3>1 DEF Segment
  <2> QED
    BY <1>1, <1>7, <2>1, <2>2 DEF Typed, LinesTyped
<1>9. JournalTyped'
  BY <1>1, <1>7 DEF Typed, JournalTyped
<1>10. AdvanceTyped' /\ PageTyped'
  BY <1>1 DEF Typed, AdvanceTyped, PageTyped
<1>11. DrainTyped'
  BY <1>1 DEF Typed, DrainTyped
<1>12. 0 .. made \subseteq 0 .. made'
  BY <1>2
<1>13. PassTyped'
  <2>1. [Rows -> 0 .. made] \subseteq [Rows -> 0 .. made']
    BY <1>12
  <2> QED
    BY <1>1, <2>1 DEF Typed, PassTyped
<1>14. SessionTyped'
  <2>1. domain \in [Rows -> 0 .. made']
    BY <1>12 DEF Typed, SessionTyped
  <2>2. \A e \in edits : e.val <= made'
    <3>1. \A e \in edits : e \in Line /\ e.val <= made
      BY DEF Typed, SessionTyped
    <3> QED
      BY <1>2, <3>1 DEF Line
  <2> QED
    BY <1>1, <2>1, <2>2 DEF Typed, SessionTyped, session
<1> QED
  BY <1>4, <1>5, <1>8, <1>9, <1>10, <1>11, <1>13, <1>14 DEF Typed

\* What is common to the steps that append to the file: the list they took
\* from the queue, or the whole queue, is gone.
Appends ==
  /\ Grown
  /\ UNCHANGED <<made, log, off, drain, batch, boot, pass>>
  /\ drain # "down" => UNCHANGED awaiting
  /\ \/ appending # <<>> /\ appending' = Tail(appending)
     \/ appending' = <<>>

\* The queue after an append: what is left of it stays in order.
LEMMA QueueShrinks ==
  ASSUME Typed, Appends
  PROVE  /\ appending' \in Seq(Seq(Line))
         /\ Len(appending) \in Nat /\ Len(appending') \in Nat
         /\ Len(appending') <= Len(appending)
         /\ Len(appending') = Len(appending) - 1 \/ Len(appending') = 0
         /\ DOMAIN appending = 1 .. Len(appending)
         /\ DOMAIN appending' = 1 .. Len(appending')
         /\ \A i \in DOMAIN appending' :
              i + 1 \in DOMAIN appending /\ appending'[i] = appending[i + 1]
<1>1. appending \in Seq(Seq(Line))
  BY DEF Typed, LinesTyped
<1>2. Len(appending) \in Nat /\ DOMAIN appending = 1 .. Len(appending)
  BY <1>1, LenProperties
<1>3. CASE appending # <<>> /\ appending' = Tail(appending)
  <2>1. /\ appending' \in Seq(Seq(Line)) /\ Len(appending') = Len(appending) - 1
        /\ \A i \in 1 .. Len(appending') : appending'[i] = appending[i + 1]
    BY <1>1, <1>3, HeadTailProperties
  <2>2. Len(appending') \in Nat /\ DOMAIN appending' = 1 .. Len(appending')
    BY <2>1, LenProperties
  <2> QED
    BY <1>2, <2>1, <2>2
<1>4. CASE appending' = <<>>
  <2>1. appending' \in Seq(Seq(Line)) /\ Len(appending') = 0
    BY <1>4, EmptySeq
  <2>2. DOMAIN appending' = 1 .. 0
    BY <2>1, LenProperties
  <2> QED
    BY <1>2, <2>1, <2>2
<1> QED
  BY <1>3, <1>4 DEF Appends

\* The head of the queue, when a step takes it.
LEMMA HeadOfQueue ==
  ASSUME Typed, appending # <<>>
  PROVE  /\ Head(appending) = appending[1] /\ 1 \in DOMAIN appending
         /\ Head(appending) \in Seq(Line)
         /\ \A k \in DOMAIN Head(appending) : Head(appending)[k] \in Line
<1>1. appending \in Seq(Seq(Line))
  BY DEF Typed, LinesTyped
<1>2. Len(appending) \in Nat \ {0} /\ DOMAIN appending = 1 .. Len(appending)
  BY <1>1, EmptySeq, LenProperties
<1>3. Head(appending) = appending[1] /\ 1 \in DOMAIN appending
  BY <1>1, <1>2
<1>4. Head(appending) \in Seq(Line)
  BY <1>1, HeadTailProperties
<1> QED
  BY <1>3, <1>4, LenProperties, ElementOfSeq

\* An append moves typed lines from the queue to the file.
LEMMA AppendsTyped ==
  ASSUME Typed, Appends
  PROVE  LinesTyped' /\ PageTyped'
<1>1. \A i \in DOMAIN file' : file'[i].val <= made'
  <2>1. ASSUME NEW i \in DOMAIN file
        PROVE  file'[i].val <= made'
    BY DEF Typed, LinesTyped, Appends, Grown
  <2>2. ASSUME NEW i \in DOMAIN file' \ DOMAIN file
        PROVE  file'[i].val <= made'
    <3>1. appending # <<>>
      BY <2>2 DEF Appends, Grown
    <3>2. PICK j \in DOMAIN Head(appending) : file'[i].val = Head(appending)[j].val
      BY <2>2 DEF Appends, Grown
    <3>3. appending[1][j].val <= made
      BY <3>1, HeadOfQueue DEF Typed, LinesTyped
    <3> QED
      BY <3>1, <3>2, <3>3, HeadOfQueue DEF Appends
  <2> QED
    BY <2>1, <2>2
<1>2. \A i \in DOMAIN appending' : \A k \in DOMAIN appending'[i] :
        appending'[i][k].val <= made'
  <2> TAKE i \in DOMAIN appending'
  <2>1. i + 1 \in DOMAIN appending /\ appending'[i] = appending[i + 1]
    BY QueueShrinks
  <2> QED
    BY <2>1 DEF Typed, LinesTyped, Appends
<1>3. LinesTyped'
  BY <1>1, <1>2, QueueShrinks DEF LinesTyped, Appends, Grown
<1>4. PageTyped'
  <2>1. DOMAIN file \subseteq DOMAIN file' /\ \A i \in DOMAIN file : file'[i] = file[i]
    BY DEF Appends, Grown
  <2>2. UNCHANGED <<batch, off, drain>>
    BY DEF Appends
  <2>3. drain # "down" => UNCHANGED awaiting
    BY DEF Appends
  <2>4. DOMAIN batch' \subseteq DOMAIN file' /\ \A i \in DOMAIN batch' : batch'[i] \in Line
    BY <2>1, <2>2 DEF Typed, PageTyped
  <2>5. CASE drain = "commit"
    BY <2>1, <2>2, <2>3, <2>4, <2>5 DEF Typed, PageTyped
  <2>6. CASE drain # "commit"
    BY <2>2, <2>4, <2>6 DEF Typed, PageTyped
  <2> QED
    BY <2>5, <2>6
<1> QED
  BY <1>3, <1>4

\* A whole append is an append.
LEMMA AppendedAppends ==
  ASSUME Typed, Appended
  PROVE  /\ Appends /\ appending # <<>> /\ io.step = "idle"
         /\ appending' = Tail(appending)
         /\ file' = file \o Written(Head(appending), TRUE, TRUE)
<1>1. appending # <<>> /\ file' = file \o Written(Head(appending), TRUE, TRUE)
  BY DEF Appended
<1>2. Head(appending) \in Seq(Line)
  BY <1>1, HeadOfQueue
<1>3. CutFrom(Written(Head(appending), TRUE, TRUE), Head(appending))
  BY <1>2, WrittenFacts
<1>4. Grown
  BY <1>1, <1>3, GrownBy DEF Typed, LinesTyped
<1> QED
  BY <1>1, <1>4 DEF Appends, Appended, AppendEnds, bounds, engine

\* A failed one is an append of what it left.
LEMMA AppendFailsAppends ==
  ASSUME Typed, AppendFails
  PROVE  Appends /\ io.step = "idle" /\ appending # <<>> /\ appending' = Tail(appending)
<1>1. appending # <<>>
  BY DEF AppendFails
<1>2. PICK left \in Torn(Head(appending)) : file' = file \o left
  BY DEF AppendFails
<1>3. Head(appending) \in Seq(Line)
  BY <1>1, HeadOfQueue
<1>4. CutFrom(left, Head(appending))
  BY <1>3, TornFacts
<1>5. Grown
  BY <1>1, <1>2, <1>4, GrownBy DEF Typed, LinesTyped
<1> QED
  BY <1>1, <1>5 DEF Appends, AppendFails, AppendEnds, engine

\* A kill is an append of what it left, and the end of the queue.
LEMMA UtilityDiesAppends ==
  ASSUME Typed, UtilityDies
  PROVE  Appends /\ appending' = <<>>
<1>1. file \in Seq(Segment)
  BY DEF Typed, LinesTyped
<1>2. CASE file' = file
  BY <1>1, <1>2, GrownNone DEF Appends, UtilityDies, engine, renderer
<1>3. CASE file' # file
  <2>1. PICK left \in IF appending = <<>> \/ io.step # "idle" THEN {<<>>}
                      ELSE {<<>>} \cup Torn(Head(appending)) : file' = file \o left
    BY DEF UtilityDies
  <2>2. left # <<>>
    BY <1>1, <1>3, <2>1, ConcatEmptySeq
  <2>3. appending # <<>> /\ left \in Torn(Head(appending))
    BY <2>1, <2>2
  <2>4. CutFrom(left, Head(appending))
    BY <2>3, HeadOfQueue, TornFacts
  <2>5. Grown
    BY <1>1, <2>1, <2>3, <2>4, GrownBy
  <2> QED
    BY <2>5 DEF Appends, UtilityDies, engine, renderer
<1> QED
  BY <1>2, <1>3


\* The file, its places and the offset among them.
LEMMA FilePlaces ==
  ASSUME Typed
  PROVE  /\ file \in Seq(Segment) /\ Len(file) \in Nat /\ DOMAIN file = 1 .. Len(file)
         /\ off \in 0 .. Len(file)
         /\ \A i \in DOMAIN file : file[i] \in Segment
<1>1. file \in Seq(Segment) /\ off \in 0 .. Len(file)
  BY DEF Typed, LinesTyped, JournalTyped
<1> QED
  BY <1>1, LenProperties, ElementOfSeq

\* A page ends inside the file, and past the offset when there is more.
LEMMA PageEndFacts ==
  ASSUME Typed
  PROVE  PageEnd \in off .. Len(file)
<1>1. Len(file) \in Nat /\ off \in 0 .. Len(file) /\ DOMAIN file = 1 .. Len(file)
  BY FilePlaces
<1>2. LineEnds \subseteq off + 1 .. Len(file)
  BY DEF LineEnds
<1>3. LineEnds \in SUBSET Nat /\ \A n \in LineEnds : n <= Len(file)
  BY <1>1, <1>2
<1>4. CASE LineEnds = {}
  BY <1>1, <1>4 DEF PageEnd
<1>5. CASE LineEnds # {} /\ Fitting # {}
  <2>1. Fitting \subseteq LineEnds
    BY DEF Fitting
  <2>2. \E m \in Fitting : \A n \in Fitting : n <= m
    BY <1>1, <1>3, <1>5, <2>1, LastPosition
  <2>3. PageEnd \in Fitting
    BY <1>5, <2>2 DEF PageEnd
  <2> QED
    BY <1>1, <1>2, <2>1, <2>3
<1>6. CASE LineEnds # {} /\ Fitting = {}
  <2>1. \E m \in LineEnds : \A n \in LineEnds : m <= n
    BY <1>3, <1>6, LeastPosition
  <2>2. PageEnd \in LineEnds
    BY <1>6, <2>1 DEF PageEnd
  <2> QED
    BY <1>1, <1>2, <2>2
<1> QED
  BY <1>4, <1>5, <1>6

\* What a page serves are whole lines of the file; what it does not serve
\* of a line that is whole is poison.
LEMMA OutcomesFacts ==
  ASSUME Typed
  PROVE  /\ DOMAIN Outcomes = Served
         /\ Served \subseteq off + 1 .. PageEnd
         /\ \A i \in Served :
              /\ i \in DOMAIN file /\ file[i].whole
              /\ Outcomes[i].row = file[i].row /\ Outcomes[i].val = file[i].val
              /\ Outcomes[i] \in Line
         /\ \A i \in off + 1 .. PageEnd : i \notin Served => Poison
<1>1. PageEnd \in off .. Len(file) /\ Len(file) \in Nat /\ off \in 0 .. Len(file)
      /\ DOMAIN file = 1 .. Len(file)
  BY PageEndFacts, FilePlaces
<1>2. DOMAIN Outcomes = Served /\ Served \subseteq off + 1 .. PageEnd
  BY DEF Outcomes, Served
<1>3. \A i \in off + 1 .. PageEnd : i \in DOMAIN file
  BY <1>1
<1>4. ASSUME NEW i \in Served
      PROVE  /\ i \in DOMAIN file /\ file[i].whole
             /\ Outcomes[i].row = file[i].row /\ Outcomes[i].val = file[i].val
             /\ Outcomes[i] \in Line
  <2>1. i \in DOMAIN file /\ file[i] \in Segment
    BY <1>2, <1>3, FilePlaces
  <2>2. Parses(i)
    BY DEF Served
  <2>3. file[i].whole
    BY <2>2 DEF Parses
  <2>4. Outcomes[i] = [row |-> file[i].row, val |-> file[i].val]
    BY DEF Outcomes
  <2> QED
    BY <2>1, <2>3, <2>4 DEF Segment, Line
<1>5. \A i \in off + 1 .. PageEnd : i \notin Served => Poison
  BY DEF Served, Poison
<1> QED
  BY <1>2, <1>4, <1>5

\* The last outcome a page has of a row.
LEMMA LastOfFacts ==
  ASSUME NEW lines, NEW n \in Nat, DOMAIN lines \subseteq 0 .. n,
         NEW r, Has(lines, r)
  PROVE  \E k \in DOMAIN lines :
           /\ lines[k].row = r /\ LastOf(lines, r) = lines[k].val
           /\ \A j \in DOMAIN lines : lines[j].row = r => j <= k
<1> DEFINE S == {k \in DOMAIN lines : lines[k].row = r}
<1>1. S \in SUBSET Nat /\ S # {} /\ \A k \in S : k <= n
  BY DEF Has
<1>2. PICK m \in S : \A k \in S : k <= m
  <2> HIDE DEF S
  <2> QED
    BY <1>1, LastPosition
<1> QED
  BY <1>2 DEF LastOf

\* Types after an append.
LEMMA TypedAppended ==
  ASSUME Typed, Appended
  PROVE  Typed'
<1>1. Appends /\ io.step = "idle" /\ appending' = Tail(appending) /\ appending # <<>>
  BY AppendedAppends
<1>2. BoundsTyped' /\ EngineTyped' /\ DrainTyped' /\ PassTyped' /\ SessionTyped'
  BY DEF Typed, Appended, AppendEnds, BoundsTyped, EngineTyped, DrainTyped, PassTyped,
         SessionTyped, bounds, engine, session
<1>3. LinesTyped' /\ PageTyped'
  BY <1>1, AppendsTyped
<1>4. Len(file) <= Len(file') /\ Len(file') \in Nat /\ Len(file) \in Nat
  BY <1>1, FilePlaces DEF Appends, Grown
<1>5. UNCHANGED <<off, awaiting, dropped, io, drain, boot>>
  BY DEF Appended, AppendEnds
<1>6. JournalTyped'
  <2>1. Len(appending') = Len(appending) - 1 /\ Len(appending') \in Nat
    <3>1. appending \in Seq(Seq(Line))
      BY DEF Typed, LinesTyped
    <3> QED
      BY <1>1, <3>1, HeadTailProperties, LenProperties, EmptySeq
  <2>2. ahead \in 0 .. Len(appending) /\ ahead' = IF ahead = 0 THEN 0 ELSE ahead - 1
    BY DEF Typed, JournalTyped, Appended, AppendEnds
  <2>3. ahead' \in 0 .. Len(appending')
    BY <2>1, <2>2
  <2> QED
    BY <1>4, <1>5, <2>2, <2>3 DEF Typed, JournalTyped
<1>7. AdvanceTyped'
  BY <1>1, <1>4, <1>5 DEF Typed, AdvanceTyped, JournalTyped
<1> QED
  BY <1>2, <1>3, <1>6, <1>7 DEF Typed

\* Types after a failed append.
LEMMA TypedAppendFails ==
  ASSUME Typed, AppendFails
  PROVE  Typed'
<1>1. Appends /\ io.step = "idle" /\ appending' = Tail(appending) /\ appending # <<>>
  BY AppendFailsAppends
<1>2. EngineTyped' /\ DrainTyped' /\ PassTyped' /\ SessionTyped'
  BY DEF Typed, AppendFails, AppendEnds, EngineTyped, DrainTyped, PassTyped,
         SessionTyped, engine, session
<1>3. BoundsTyped'
  BY BoundsAssumption DEF Typed, AppendFails, Fault, BoundsTyped
<1>4. LinesTyped' /\ PageTyped'
  BY <1>1, AppendsTyped
<1>5. Len(file) <= Len(file') /\ Len(file') \in Nat /\ Len(file) \in Nat
  BY <1>1, FilePlaces DEF Appends, Grown
<1>6. JournalTyped'
  <2>1. Len(appending') = Len(appending) - 1 /\ Len(appending') \in Nat
    <3>1. appending \in Seq(Seq(Line))
      BY DEF Typed, LinesTyped
    <3> QED
      BY <1>1, <3>1, HeadTailProperties, LenProperties, EmptySeq
  <2>2. ahead \in 0 .. Len(appending) /\ ahead' = IF ahead = 0 THEN 0 ELSE ahead - 1
    BY DEF Typed, JournalTyped, AppendFails, AppendEnds
  <2>3. ahead' \in 0 .. Len(appending')
    BY <2>1, <2>2
  <2> QED
    BY <1>5, <2>2, <2>3 DEF Typed, JournalTyped, AppendFails, AppendEnds
<1>7. AdvanceTyped'
  BY <1>1, <1>5 DEF Typed, AdvanceTyped, JournalTyped, AppendFails, AppendEnds
<1> QED
  BY <1>2, <1>3, <1>4, <1>6, <1>7 DEF Typed

\* Types after the application is killed.
LEMMA TypedUtilityDies ==
  ASSUME Typed, UtilityDies
  PROVE  Typed'
<1>1. Appends /\ appending' = <<>> /\ drain = "down"
  BY UtilityDiesAppends DEF UtilityDies
<1>2. EngineTyped' /\ DrainTyped' /\ PassTyped' /\ SessionTyped'
  BY DEF Typed, UtilityDies, EngineTyped, DrainTyped, PassTyped,
         SessionTyped, engine, session, renderer
<1>3. BoundsTyped'
  BY BoundsAssumption DEF Typed, UtilityDies, Fault, BoundsTyped
<1>4. LinesTyped' /\ PageTyped'
  BY <1>1, AppendsTyped
<1>5. Len(file) <= Len(file') /\ Len(file') \in Nat /\ Len(file) \in Nat
  BY <1>1, FilePlaces DEF Appends, Grown
<1>6. JournalTyped'
  <2>1. Len(appending') = 0
    BY <1>1, EmptySeq
  <2>2. ahead' = 0 /\ awaiting' = 0 /\ dropped' = FALSE /\ off' = off
    BY <1>1 DEF Typed, JournalTyped, UtilityDies, renderer
  <2>3. off' \in 0 .. Len(file')
    BY <1>5, <2>2 DEF Typed, JournalTyped
  <2>4. ahead' \in 0 .. Len(appending')
    BY <2>1, <2>2
  <2> QED
    BY <2>2, <2>3, <2>4 DEF JournalTyped
<1>7. AdvanceTyped'
  <2>1. io' = Quiet /\ drain' = "down"
    BY <1>1 DEF UtilityDies, renderer
  <2> QED
    BY <2>1 DEF AdvanceTyped, Quiet, Steps
<1> QED
  BY <1>2, <1>3, <1>4, <1>6, <1>7 DEF Typed

\* Types after a page is pulled: the outcomes are lines of the file.
LEMMA TypedPull ==
  ASSUME Typed, Pull
  PROVE  Typed'
<1>1. drain = "pull" /\ io.step = "idle" /\ more' = (PageEnd < Len(file))
      /\ UNCHANGED <<made, faults, log, logged, appending, file, off, ahead, wake, boot,
                     pass, domain, edits, emitq, sending>>
  BY DEF Pull, bounds, engine, session
<1>2. PageEnd \in off .. Len(file) /\ Len(file) \in Nat /\ off \in 0 .. Len(file)
      /\ DOMAIN file = 1 .. Len(file)
  BY PageEndFacts, FilePlaces
<1>3. BoundsTyped' /\ EngineTyped' /\ LinesTyped' /\ SessionTyped'
  BY <1>1 DEF Typed, BoundsTyped, EngineTyped, LinesTyped, SessionTyped
<1>4. CASE Served = {} /\ PageEnd > off
  <2>1. /\ dropped' = TRUE /\ io' = [step |-> "advance", to |-> PageEnd, by |-> "drain"]
        /\ drain' = "skip" /\ UNCHANGED <<awaiting, batch, needs>>
    BY <1>1, <1>2, <1>4 DEF Pull
  <2>2. JournalTyped' /\ DrainTyped' /\ PassTyped'
    BY <1>1, <2>1 DEF Typed, JournalTyped, DrainTyped, PassTyped, DrainStates
  <2>3. AdvanceTyped'
    BY <1>1, <1>2, <2>1 DEF Typed, AdvanceTyped, Steps
  <2>4. PageTyped'
    BY <1>1, <2>1 DEF Typed, PageTyped
  <2> QED
    BY <1>3, <2>2, <2>3, <2>4 DEF Typed
<1>5. CASE ~(Served = {} /\ PageEnd > off)
  <2>1. /\ batch' = Outcomes /\ awaiting' = PageEnd - off
        /\ needs' = (needs \/ dropped \/ Poison) /\ dropped' = FALSE
        /\ drain' = (IF Served = {} THEN "next" ELSE "commit")
        /\ io' = io
    BY <1>1, <1>2, <1>5 DEF Pull
  <2>2. awaiting' \in Nat /\ off' + awaiting' = PageEnd
    BY <1>1, <1>2, <2>1
  <2>3. JournalTyped'
    BY <1>1, <2>1, <2>2 DEF Typed, JournalTyped
  <2>4. DrainTyped' /\ PassTyped'
    BY <1>1, <2>1 DEF Typed, DrainTyped, PassTyped, DrainStates
  <2>5. AdvanceTyped'
    BY <1>1, <1>2, <2>1, <2>2 DEF Typed, AdvanceTyped, Steps
  <2>6. PageTyped'
    <3>1. /\ DOMAIN batch' = Served /\ Served \subseteq off' + 1 .. off' + awaiting'
          /\ \A i \in Served :
               /\ i \in DOMAIN file' /\ file'[i].whole
               /\ batch'[i].row = file'[i].row /\ batch'[i].val = file'[i].val
               /\ batch'[i] \in Line
      BY <1>1, <2>1, <2>2, OutcomesFacts
    <3>2. drain' # "commit" => DOMAIN batch' = {}
      BY <2>1, <3>1
    <3> QED
      BY <3>1, <3>2 DEF PageTyped
  <2> QED
    BY <1>3, <2>3, <2>4, <2>5, <2>6 DEF Typed
<1> QED
  BY <1>4, <1>5

\* While an advance is under way no page is being committed.
LEMMA AdvancingDrain ==
  ASSUME Typed, io.step # "idle"
  PROVE  /\ drain \in {"down", "pull", "skip", "acking"}
         /\ drain = "pull" => boot = "drain"
         /\ drain = "skip" => io.by = "drain"
         /\ drain = "acking" => io.by = "ack"
         /\ DOMAIN batch = {} /\ pass.who # "drain"
BY DEF Typed, AdvanceTyped, PageTyped, PassTyped

\* The swap keeps the lines past the point the advance went to, in order.
LEMMA SwapFacts ==
  ASSUME Typed, SwapFile
  PROVE  /\ io.to \in 0 .. Len(file) /\ off = 0
         /\ file' \in Seq(Segment) /\ Len(file') = Len(file) - io.to /\ Len(file') \in Nat
         /\ DOMAIN file' = 1 .. Len(file')
         /\ \A i \in DOMAIN file' : i + io.to \in DOMAIN file /\ file'[i] = file[i + io.to]
<1>1. Len(file) \in Nat /\ DOMAIN file = 1 .. Len(file)
      /\ \A i \in DOMAIN file : file[i] \in Segment
  BY FilePlaces
<1>2. io.to \in 0 .. Len(file) /\ off = 0
  BY DEF Typed, AdvanceTyped, SwapFile
<1> DEFINE m == io.to + 1
<1>3. file' = SubSeq(file, m, Len(file))
  BY DEF SwapFile
<1>4. m \in Int /\ \A i \in m .. Len(file) : file[i] \in Segment
  BY <1>1, <1>2
<1> HIDE DEF m
<1>5. /\ file' \in Seq(Segment)
      /\ Len(file') = IF m <= Len(file) THEN Len(file) - m + 1 ELSE 0
      /\ \A i \in 1 .. Len(file) - m + 1 : file'[i] = file[m + i - 1]
  BY <1>1, <1>3, <1>4, SubSeqProperties
<1>6. Len(file') = Len(file) - io.to /\ Len(file') \in Nat
  BY <1>1, <1>2, <1>5 DEF m
<1>7. DOMAIN file' = 1 .. Len(file')
  BY <1>5, LenProperties
<1>8. ASSUME NEW i \in DOMAIN file'
      PROVE  i + io.to \in DOMAIN file /\ file'[i] = file[i + io.to]
  <2>1. m + i - 1 = i + io.to /\ i \in 1 .. Len(file) - m + 1
    BY <1>1, <1>2, <1>6, <1>7 DEF m
  <2> QED
    BY <1>1, <1>2, <1>5, <1>6, <1>7, <2>1
<1> QED
  BY <1>2, <1>5, <1>6, <1>7, <1>8

\* Types across the steps of an advance: the offset stays in the file.
LEMMA TypedAdvancing ==
  ASSUME Typed, Advance \/ ZeroOffset \/ SwapFile
  PROVE  Typed'
<1>1. /\ io.step # "idle"
      /\ UNCHANGED <<made, faults, log, logged, appending, awaiting, dropped, drain, ahead,
                     batch, more, needs, wake, boot, pass, domain, edits, emitq, sending>>
  BY DEF Advance, ZeroOffset, SwapFile, bounds, engine, renderer, session
<1>2. /\ drain \in {"down", "pull", "skip", "acking"} /\ DOMAIN batch = {}
  BY <1>1, AdvancingDrain
<1>3. BoundsTyped' /\ EngineTyped' /\ DrainTyped' /\ PassTyped' /\ SessionTyped'
  BY <1>1 DEF Typed, BoundsTyped, EngineTyped, DrainTyped, PassTyped, SessionTyped
<1>4. PageTyped'
  BY <1>1, <1>2 DEF PageTyped
<1>5. Len(file) \in Nat /\ off \in 0 .. Len(file)
  BY FilePlaces
<1>6. CASE Advance
  <2>1. UNCHANGED file /\ off' = io.to /\ io.to \in 0 .. Len(file)
    BY <1>5, <1>6 DEF Typed, AdvanceTyped, Advance
  <2>2. LinesTyped' /\ JournalTyped'
    BY <1>1, <2>1 DEF Typed, LinesTyped, JournalTyped
  <2>3. /\ io' = [io EXCEPT !.step = io'.step] /\ io'.step \in {"zero", "done"}
        /\ io'.to = io.to /\ io'.by = io.by
        /\ io' \in [step : Steps \cup {"done"}, to : Nat, by : {"ack", "drain"}]
    BY <1>6 DEF Typed, AdvanceTyped, Advance, Steps
  <2>4. AdvanceTyped'
    BY <1>1, <1>2, <2>1, <2>3 DEF Typed, AdvanceTyped
  <2> QED
    BY <1>3, <1>4, <2>2, <2>4 DEF Typed
<1>7. CASE ZeroOffset
  <2>1. UNCHANGED file /\ off' = 0
    BY <1>7 DEF ZeroOffset
  <2>2. LinesTyped' /\ JournalTyped'
    BY <1>1, <1>5, <2>1 DEF Typed, LinesTyped, JournalTyped
  <2>3. /\ io'.step = "copy" /\ io'.to = io.to /\ io'.by = io.by /\ io.step = "zero"
        /\ io' \in [step : Steps \cup {"done"}, to : Nat, by : {"ack", "drain"}]
    BY <1>7 DEF Typed, AdvanceTyped, ZeroOffset, Steps
  <2>4. AdvanceTyped'
    BY <1>1, <1>2, <2>1, <2>3 DEF Typed, AdvanceTyped
  <2> QED
    BY <1>3, <1>4, <2>2, <2>4 DEF Typed
<1>8. CASE SwapFile
  <2>1. UNCHANGED off /\ off = 0 /\ file' \in Seq(Segment) /\ Len(file') \in Nat
        /\ \A i \in DOMAIN file' : i + io.to \in DOMAIN file /\ file'[i] = file[i + io.to]
    BY <1>8, SwapFacts DEF SwapFile
  <2>2. LinesTyped'
    BY <1>1, <2>1 DEF Typed, LinesTyped
  <2>3. JournalTyped'
    BY <1>1, <2>1 DEF Typed, JournalTyped
  <2>4. /\ io'.step = "done" /\ io'.to = io.to /\ io'.by = io.by
        /\ io' \in [step : Steps \cup {"done"}, to : Nat, by : {"ack", "drain"}]
    BY <1>8 DEF Typed, AdvanceTyped, SwapFile, Steps
  <2>5. AdvanceTyped'
    BY <1>1, <1>2, <2>1, <2>4 DEF Typed, AdvanceTyped
  <2> QED
    BY <1>3, <1>4, <2>2, <2>3, <2>5 DEF Typed
<1> QED
  BY <1>6, <1>7, <1>8

\* The end of an advance, reached or missed.
LEMMA TypedAdvanceEnds ==
  ASSUME Typed, Skipped \/ Acked \/ AdvanceFails
  PROVE  Typed'
<1>1. /\ io.step # "idle" /\ io' = Quiet
      /\ UNCHANGED <<made, log, logged, appending, file, off, ahead, batch, more, pass,
                     domain, edits, emitq, sending>>
      /\ faults' \in 0 .. MaxFaults
  BY BoundsAssumption
  DEF Typed, BoundsTyped, Skipped, Acked, AdvanceFails, Fault, bounds, engine, session
<1>2. /\ drain \in {"down", "pull", "skip", "acking"} /\ DOMAIN batch = {}
      /\ pass.who # "drain" /\ (pass.who = "boot" <=> boot = "runs")
  BY <1>1, AdvancingDrain DEF Typed, PassTyped
<1>3. /\ drain' \in {"down", "pull", "idle", "next"}
      /\ drain' = "down" => drain = "down"
      /\ needs' \in BOOLEAN /\ wake' \in BOOLEAN /\ awaiting' \in Nat /\ dropped' \in BOOLEAN
      /\ boot' \in {"no", "drain", "owed", "runs"} /\ (boot' = "runs" <=> boot = "runs")
      /\ drain' = "down" => boot' = "no"
  <2>1. CASE Skipped
    BY <1>1, <1>2, <2>1, AdvancingDrain DEF Typed, DrainTyped, JournalTyped, Skipped
  <2>2. CASE Acked
    BY <1>1, <1>2, <2>2, AdvancingDrain DEF Typed, DrainTyped, JournalTyped, Acked
  <2>3. CASE AdvanceFails
    BY <1>1, <1>2, <2>3, AdvancingDrain DEF Typed, DrainTyped, JournalTyped, AdvanceFails
  <2> QED
    BY <2>1, <2>2, <2>3
<1>4. BoundsTyped' /\ EngineTyped' /\ LinesTyped' /\ SessionTyped'
  BY <1>1 DEF Typed, BoundsTyped, EngineTyped, LinesTyped, SessionTyped
<1>5. JournalTyped'
  BY <1>1, <1>3 DEF Typed, JournalTyped
<1>6. PageTyped' /\ DrainTyped'
  BY <1>1, <1>2, <1>3 DEF Typed, PageTyped, DrainTyped, DrainStates
<1>7. PassTyped'
  BY <1>1, <1>2, <1>3 DEF Typed, PassTyped
<1>8. AdvanceTyped'
  BY <1>1, <1>3 DEF AdvanceTyped, Quiet, Steps
<1> QED
  BY <1>4, <1>5, <1>6, <1>7, <1>8 DEF Typed

\* The moves of the drain outside the journal.
LEMMA TypedDrain ==
  ASSUME Typed, Boot \/ Woken \/ Commit \/ CommitFails \/ Loop
  PROVE  Typed'
<1>1. /\ UNCHANGED <<made, log, logged, appending, file, off, awaiting, dropped, io,
                     pass, edits, emitq, sending>>
      /\ faults' \in 0 .. MaxFaults
  BY BoundsAssumption
  DEF Typed, BoundsTyped, Boot, Woken, Commit, CommitFails, Loop, Fault, bounds, engine,
      journal, session
<1>2. BoundsTyped' /\ EngineTyped' /\ LinesTyped'
  BY <1>1 DEF Typed, BoundsTyped, EngineTyped, LinesTyped
<1>3. appending \in Seq(Seq(Line)) /\ Len(appending) \in 0 .. Len(appending)
  <2>1. appending \in Seq(Seq(Line))
    BY DEF Typed, LinesTyped
  <2>2. Len(appending) \in Nat
    BY <2>1, LenProperties
  <2> QED
    BY <2>1, <2>2
<1>4. SessionTyped'
  <2>1. CASE Commit
    <3>1. domain' \in [Rows -> 0 .. made]
      <4>1. Len(file) \in Nat /\ DOMAIN file = 1 .. Len(file)
        BY FilePlaces
      <4>2. ASSUME NEW r \in Rows, Has(batch, r)
            PROVE  LastOf(batch, r) \in 0 .. made
        <5>1. DOMAIN batch \subseteq 0 .. Len(file)
          BY <4>1 DEF Typed, PageTyped
        <5>2. PICK k \in DOMAIN batch : LastOf(batch, r) = batch[k].val
          BY <4>1, <4>2, <5>1, LastOfFacts
        <5>3. batch[k].val = file[k].val /\ k \in DOMAIN file /\ batch[k] \in Line
          BY DEF Typed, PageTyped
        <5>4. file[k].val <= made
          BY <5>3 DEF Typed, LinesTyped
        <5>5. made \in Nat
          BY BoundsAssumption DEF Typed, BoundsTyped
        <5> QED
          BY <5>2, <5>3, <5>4, <5>5 DEF Line
      <4>3. domain' = [r \in Rows |-> IF Has(batch, r) THEN LastOf(batch, r) ELSE domain[r]]
        BY <2>1 DEF Commit
      <4>4. domain \in [Rows -> 0 .. made]
        BY DEF Typed, SessionTyped
      <4> QED
        BY <4>2, <4>3, <4>4
    <3> QED
      BY <1>1, <3>1 DEF Typed, SessionTyped
  <2>2. CASE ~Commit
    BY <1>1, <2>2 DEF Typed, SessionTyped, Boot, Woken, CommitFails, Loop, session
  <2> QED
    BY <2>1, <2>2
<1>5. CASE Boot
  <2>1. /\ drain = "down" /\ drain' = "pull" /\ ahead' = Len(appending) /\ boot' = "drain"
        /\ UNCHANGED <<batch, more, needs, wake>>
    BY <1>5 DEF Boot
  <2>2. boot # "runs"
    BY <2>1 DEF Typed, DrainTyped
  <2>3. JournalTyped' /\ AdvanceTyped' /\ PageTyped' /\ DrainTyped'
    BY <1>1, <1>3, <2>1 DEF Typed, JournalTyped, AdvanceTyped, PageTyped, DrainTyped, DrainStates
  <2>4. PassTyped'
    BY <1>1, <2>1, <2>2 DEF Typed, PassTyped
  <2> QED
    BY <1>2, <1>4, <2>3, <2>4 DEF Typed
<1>6. CASE Woken
  <2>1. /\ drain = "idle" /\ drain' = "pull" /\ ahead' = Len(appending) /\ wake' = FALSE
        /\ UNCHANGED <<batch, more, needs, boot>>
    BY <1>6 DEF Woken
  <2>2. JournalTyped' /\ AdvanceTyped' /\ PageTyped' /\ DrainTyped' /\ PassTyped'
    BY <1>1, <1>3, <2>1 DEF Typed, JournalTyped, AdvanceTyped, PageTyped, DrainTyped,
                             DrainStates, PassTyped
  <2> QED
    BY <1>2, <1>4, <2>2 DEF Typed
<1>7. CASE Commit
  <2>1. /\ drain = "commit" /\ drain' = "ack" /\ batch' = <<>>
        /\ UNCHANGED <<ahead, more, needs, wake, boot>>
    BY <1>7 DEF Commit
  <2>2. JournalTyped' /\ AdvanceTyped' /\ PageTyped' /\ DrainTyped' /\ PassTyped'
    BY <1>1, <2>1 DEF Typed, JournalTyped, AdvanceTyped, PageTyped, DrainTyped,
                       DrainStates, PassTyped
  <2> QED
    BY <1>2, <1>4, <2>2 DEF Typed
<1>8. CASE CommitFails
  <2>1. /\ drain = "commit" /\ drain' = "idle" /\ batch' = <<>> /\ Returned
        /\ UNCHANGED <<ahead, more, needs, wake>>
    BY <1>8 DEF CommitFails
  <2>2. JournalTyped' /\ AdvanceTyped' /\ PageTyped' /\ DrainTyped' /\ PassTyped'
    BY <1>1, <2>1 DEF Typed, JournalTyped, AdvanceTyped, PageTyped, DrainTyped,
                       DrainStates, PassTyped, Returned
  <2> QED
    BY <1>2, <1>4, <2>2 DEF Typed
<1>9. CASE Loop
  <2>1. /\ drain = "next" /\ drain' \in {"pull", "mend", "idle"}
        /\ ahead' = Len(appending) \/ ahead' = ahead
        /\ needs' \in BOOLEAN /\ (boot' = boot \/ Returned)
        /\ UNCHANGED <<batch, more, wake>>
    BY <1>9 DEF Typed, DrainTyped, Loop
  <2>2. JournalTyped' /\ AdvanceTyped' /\ PageTyped' /\ DrainTyped'
    BY <1>1, <1>3, <2>1 DEF Typed, JournalTyped, AdvanceTyped, PageTyped, DrainTyped,
                             DrainStates, Returned
  <2>3. PassTyped'
    BY <1>1, <2>1 DEF Typed, PassTyped, Returned
  <2> QED
    BY <1>2, <1>4, <2>2, <2>3 DEF Typed
<1> QED
  BY <1>5, <1>6, <1>7, <1>8, <1>9

\* Types after an ack: the advance it starts stays in the file.
LEMMA TypedAck ==
  ASSUME Typed, Ack
  PROVE  Typed'
<1>1. /\ drain = "ack" /\ io.step = "idle" /\ awaiting' = 0 /\ drain' = "acking"
      /\ io' = [step |-> "advance", to |-> off + awaiting, by |-> "ack"]
      /\ UNCHANGED <<made, faults, log, logged, appending, file, off, dropped, ahead, batch,
                     more, needs, wake, boot, pass, domain, edits, emitq, sending>>
  BY DEF Ack, bounds, engine, session
<1>2. BoundsTyped' /\ EngineTyped' /\ LinesTyped' /\ SessionTyped'
  BY <1>1 DEF Typed, BoundsTyped, EngineTyped, LinesTyped, SessionTyped
<1>3. JournalTyped' /\ PageTyped' /\ DrainTyped' /\ PassTyped'
  BY <1>1 DEF Typed, JournalTyped, PageTyped, DrainTyped, DrainStates, PassTyped
<1>4. AdvanceTyped'
  <2>1. off + awaiting \in Nat /\ off + awaiting <= Len(file)
    BY <1>1, FilePlaces DEF Typed, AdvanceTyped, JournalTyped
  <2>2. io' \in [step : Steps \cup {"done"}, to : Nat, by : {"ack", "drain"}]
    BY <1>1, <2>1 DEF Steps
  <2> QED
    BY <1>1, <2>1, <2>2 DEF AdvanceTyped
<1> QED
  BY <1>2, <1>3, <1>4 DEF Typed

\* What the end of a pass adds to the emission queue: what a boot pass found
\* the library to show otherwise than its view.
LEMMA EndPassQueue ==
  ASSUME Typed, EndPass
  PROVE  /\ emitq' \in Seq(Line) /\ DOMAIN emitq \subseteq DOMAIN emitq'
         /\ DOMAIN emitq = 1 .. Len(emitq) /\ DOMAIN emitq' = 1 .. Len(emitq')
         /\ Len(emitq) \in Nat /\ Len(emitq') \in Nat
         /\ \A i \in DOMAIN emitq : emitq'[i] = emitq[i]
         /\ \A i \in DOMAIN emitq' : i \notin DOMAIN emitq =>
              /\ pass.who = "boot"
              /\ emitq'[i].row \in Unsynced /\ emitq'[i].val = domain[emitq'[i].row]
<1>1. emitq \in Seq(Line) /\ Len(emitq) \in Nat /\ DOMAIN emitq = 1 .. Len(emitq)
  BY LenProperties DEF Typed, SessionTyped
<1>2. CASE pass.who = "drain"
  <2>1. emitq' = emitq
    BY <1>2 DEF EndPass
  <2> QED
    BY <1>1, <2>1
<1>3. CASE pass.who # "drain"
  <2> DEFINE again == [k \in 1 .. Cardinality(Unsynced) |->
                         LET r == SetToSeq(Unsynced)[k] IN [row |-> r, val |-> domain[r]]]
  <2>1. emitq' = emitq \o again /\ pass.who = "boot"
    BY <1>3 DEF EndPass, Typed, PassTyped
  <2>2. again \in Seq(Line) /\ \A k \in DOMAIN again :
                                again[k].row \in Unsynced /\ again[k].val = domain[again[k].row]
    <3>1. Unsynced \subseteq Rows /\ IsFiniteSet(Unsynced)
      <4>1. Unsynced \subseteq Rows
        BY DEF Unsynced
      <4> QED
        BY <4>1, BoundsAssumption, FS_Subset
    <3>2. /\ Cardinality(Unsynced) \in Nat
          /\ SetToSeq(Unsynced) \in [1 .. Cardinality(Unsynced) -> Unsynced]
      BY <3>1, SetToSeqFacts
    <3>3. \A r \in Unsynced : domain[r] \in 1 .. MaxWrites
      BY <3>1, BoundsAssumption DEF Unsynced, Typed, SessionTyped, BoundsTyped
    <3>4. again \in [1 .. Cardinality(Unsynced) -> Line]
      BY <3>1, <3>2, <3>3 DEF Line
    <3>5. \A k \in DOMAIN again :
            again[k].row \in Unsynced /\ again[k].val = domain[again[k].row]
      BY <3>2
    <3> HIDE DEF again
    <3> QED
      BY <3>2, <3>4, <3>5, SeqDef
  <2> HIDE DEF again
  <2>3. /\ emitq' \in Seq(Line) /\ Len(emitq') = Len(emitq) + Len(again)
        /\ Len(again) \in Nat /\ DOMAIN again = 1 .. Len(again)
        /\ \A i \in 1 .. Len(emitq) + Len(again) :
             emitq'[i] = IF i <= Len(emitq) THEN emitq[i] ELSE again[i - Len(emitq)]
    BY <1>1, <2>1, <2>2, ConcatProperties, LenProperties
  <2>4. DOMAIN emitq' = 1 .. Len(emitq') /\ Len(emitq') \in Nat
    BY <2>3, LenProperties
  <2>5. ASSUME NEW i \in DOMAIN emitq', i \notin DOMAIN emitq
        PROVE  i - Len(emitq) \in DOMAIN again /\ emitq'[i] = again[i - Len(emitq)]
    BY <1>1, <2>3, <2>4, <2>5
  <2>6. \A i \in DOMAIN emitq : i \in DOMAIN emitq' /\ emitq'[i] = emitq[i]
    BY <1>1, <2>3, <2>4
  <2> QED
    BY <1>1, <2>1, <2>2, <2>3, <2>4, <2>5, <2>6
<1> QED
  BY <1>2, <1>3

\* The pages of a pass, from its view to its end.
LEMMA TypedPass ==
  ASSUME Typed, BeginPass \/ PassPage \/ EndPass \/ PassFails
  PROVE  Typed'
<1>1. /\ UNCHANGED <<made, log, logged, appending, file, off, awaiting, dropped, io,
                     ahead, batch, more, wake, edits>>
      /\ faults' \in 0 .. MaxFaults
  BY BoundsAssumption
  DEF Typed, BoundsTyped, BeginPass, PassPage, EndPass, PassFails, Fault, bounds, engine,
      journal, session
<1>2. BoundsTyped' /\ EngineTyped' /\ LinesTyped'
  BY <1>1 DEF Typed, BoundsTyped, EngineTyped, LinesTyped
<1>3. /\ pass \in [who : {"none", "drain", "boot"}, todo : SUBSET Rows, view : [Rows -> 0 .. made]]
      /\ pass.who = "none" => pass.todo = {}
      /\ pass.who = "drain" => drain = "mend"
      /\ pass.who = "boot" <=> boot = "runs"
      /\ made \in 0 .. MaxWrites
      /\ [r \in Rows |-> 0] \in [Rows -> 0 .. made]
  BY BoundsAssumption DEF Typed, PassTyped, BoundsTyped
<1>4. CASE BeginPass
  <2>1. PICK who \in {"drain", "boot"} :
          /\ who = "drain" => drain = "mend"
          /\ who = "boot" => boot = "owed"
          /\ pass' = [who |-> who, todo |-> {r \in Rows : log[r] # 0}, view |-> log]
          /\ boot' = (IF who = "boot" THEN "runs" ELSE boot)
    BY <1>4 DEF BeginPass
  <2>2. pass.who = "none" /\ UNCHANGED <<drain, needs, domain, edits, emitq, sending>>
    BY <1>4 DEF BeginPass, session
  <2>3. log \in [Rows -> 0 .. made]
    BY DEF Typed, EngineTyped
  <2>4. PassTyped'
    BY <1>1, <1>3, <2>1, <2>2, <2>3 DEF PassTyped
  <2>5. JournalTyped' /\ AdvanceTyped' /\ PageTyped' /\ DrainTyped' /\ SessionTyped'
    BY <1>1, <2>1, <2>2 DEF Typed, JournalTyped, AdvanceTyped, PageTyped, DrainTyped,
                             DrainStates, SessionTyped
  <2> QED
    BY <1>2, <2>4, <2>5 DEF Typed
<1>5. CASE PassPage
  <2>1. PICK r \in pass.todo :
          /\ domain' = [domain EXCEPT ![r] = pass.view[r]]
          /\ pass' = [pass EXCEPT !.todo = @ \ {r}]
    BY <1>5 DEF PassPage
  <2>2. UNCHANGED <<drain, needs, boot, emitq, sending>>
    BY <1>5 DEF PassPage
  <2>3. r \in Rows /\ pass.view[r] \in 0 .. made
    BY <1>3, <2>1
  <2>4. PassTyped'
    BY <1>1, <1>3, <2>1, <2>2 DEF PassTyped
  <2>5. domain' \in [Rows -> 0 .. made]
    BY <2>1, <2>3 DEF Typed, SessionTyped
  <2>6. JournalTyped' /\ AdvanceTyped' /\ PageTyped' /\ DrainTyped' /\ SessionTyped'
    BY <1>1, <2>2, <2>5 DEF Typed, JournalTyped, AdvanceTyped, PageTyped, DrainTyped,
                             DrainStates, SessionTyped
  <2> QED
    BY <1>2, <2>4, <2>6 DEF Typed
<1>6. CASE EndPass
  <2>1. /\ pass' = NoPass /\ pass.who # "none" /\ UNCHANGED <<needs, domain>>
        /\ drain' = (IF pass.who = "drain" THEN "idle" ELSE drain)
        /\ boot' = (IF pass.who = "boot" THEN "no" ELSE IF boot = "drain" THEN "owed" ELSE boot)
    BY <1>3, <1>6 DEF EndPass, Returned
  <2>2. PassTyped'
    BY <1>1, <1>3, <2>1 DEF PassTyped, NoPass
  <2>3. JournalTyped' /\ PageTyped'
    BY <1>1, <1>3, <2>1 DEF Typed, JournalTyped, PageTyped
  <2>4. DrainTyped'
    BY <1>1, <1>3, <2>1 DEF Typed, DrainTyped, DrainStates
  <2>5. AdvanceTyped'
    <3>1. io.step # "idle" => drain' = drain /\ drain # "pull"
      BY <1>3, <2>1, AdvancingDrain
    <3>2. drain' \notin {"skip", "acking", "commit", "ack"} \/ drain' = drain
      BY <2>1
    <3> QED
      BY <1>1, <3>1, <3>2 DEF Typed, AdvanceTyped
  <2>6. SessionTyped'
    <3>1. emitq' \in Seq(Line)
      BY <1>6, EndPassQueue
    <3>2. sending' \in BOOLEAN
      BY <1>6 DEF Typed, SessionTyped, EndPass
    <3> QED
      BY <1>1, <2>1, <3>1, <3>2 DEF Typed, SessionTyped
  <2> QED
    BY <1>2, <2>2, <2>3, <2>4, <2>5, <2>6 DEF Typed
<1>7. CASE PassFails
  <2>1. /\ pass.todo # {} /\ pass' = NoPass
        /\ drain' = (IF pass.who = "drain" THEN "idle" ELSE drain)
        /\ needs' = (needs \/ pass.who = "drain")
        /\ boot' = (IF pass.who = "boot" THEN "no" ELSE IF boot = "drain" THEN "owed" ELSE boot)
        /\ UNCHANGED <<domain, emitq, sending>>
    BY <1>7 DEF PassFails, session
  <2>2. PassTyped'
    BY <1>1, <1>3, <2>1 DEF PassTyped, NoPass
  <2>3. JournalTyped' /\ PageTyped' /\ SessionTyped'
    BY <1>1, <1>3, <2>1 DEF Typed, JournalTyped, PageTyped, SessionTyped
  <2>4. DrainTyped'
    BY <1>1, <1>3, <2>1 DEF Typed, DrainTyped, DrainStates
  <2>5. AdvanceTyped'
    <3>1. io.step # "idle" => drain' = drain /\ drain # "pull"
      BY <1>3, <2>1, AdvancingDrain
    <3>2. drain' \notin {"skip", "acking", "commit", "ack"} \/ drain' = drain
      BY <2>1
    <3> QED
      BY <1>1, <3>1, <3>2 DEF Typed, AdvanceTyped
  <2> QED
    BY <1>2, <2>2, <2>3, <2>4, <2>5 DEF Typed
<1> QED
  BY <1>4, <1>5, <1>6, <1>7

\* Types after the renderer died.
LEMMA TypedRendererDies ==
  ASSUME Typed, RendererDies
  PROVE  Typed'
<1>1. /\ drain' = "down" /\ ahead' = 0 /\ batch' = <<>> /\ more' = FALSE /\ needs' = FALSE
      /\ wake' = FALSE /\ boot' = "no" /\ pass' = NoPass /\ emitq' = <<>> /\ sending' = FALSE
      /\ UNCHANGED <<made, log, logged, appending, file, off, awaiting, dropped, io, domain, edits>>
      /\ faults' \in 0 .. MaxFaults
  BY BoundsAssumption DEF Typed, BoundsTyped, RendererDies, Fault, engine, journal
<1>2. BoundsTyped' /\ EngineTyped' /\ LinesTyped'
  BY <1>1 DEF Typed, BoundsTyped, EngineTyped, LinesTyped
<1>3. JournalTyped' /\ AdvanceTyped' /\ PageTyped' /\ DrainTyped'
  <2>1. JournalTyped'
    BY <1>1 DEF Typed, JournalTyped
  <2>2. AdvanceTyped'
    BY <1>1 DEF Typed, AdvanceTyped
  <2>3. PageTyped'
    BY <1>1 DEF PageTyped
  <2> QED
    BY <1>1, <2>1, <2>2, <2>3 DEF DrainTyped, DrainStates
<1>4. PassTyped'
  <2>1. [r \in Rows |-> 0] \in [Rows -> 0 .. made]
    BY BoundsAssumption DEF Typed, BoundsTyped
  <2> QED
    BY <1>1, <2>1 DEF PassTyped, NoPass
<1>5. SessionTyped'
  <2>1. emitq' \in Seq(Line)
    BY <1>1, EmptySeq
  <2> QED
    BY <1>1, <2>1 DEF Typed, SessionTyped
<1> QED
  BY <1>2, <1>3, <1>4, <1>5 DEF Typed

\* Types after an edit.
LEMMA TypedEdit ==
  ASSUME Typed, NEW r \in Rows, Edit(r)
  PROVE  Typed'
<1>1. /\ made \in 0 .. MaxWrites /\ made < MaxWrites /\ made' = made + 1
      /\ domain' = [domain EXCEPT ![r] = made']
      /\ edits' = edits \cup {[row |-> r, val |-> made']}
      /\ emitq' = Append(emitq, [row |-> r, val |-> made']) /\ sending' = TRUE
      /\ UNCHANGED <<faults, log, logged, appending, file, off, awaiting, dropped, io, drain,
                     ahead, batch, more, needs, wake, boot, pass>>
  BY DEF Typed, BoundsTyped, Edit, Write, engine, journal, renderer
<1>2. made' \in 1 .. MaxWrites /\ made' \in Nat /\ made \in Nat /\ made <= made'
  BY <1>1, BoundsAssumption
<1>3. 0 .. made \subseteq 0 .. made' /\ 1 .. made \subseteq 1 .. made'
  BY <1>2
<1>4. [Rows -> 0 .. made] \subseteq [Rows -> 0 .. made']
  BY <1>3
<1>5. BoundsTyped' /\ EngineTyped'
  BY <1>1, <1>2, <1>3, <1>4 DEF Typed, BoundsTyped, EngineTyped
<1>6. LinesTyped'
  <2>1. \A i \in DOMAIN file : file[i].val <= made'
    <3>1. \A i \in DOMAIN file : file[i] \in Segment /\ file[i].val <= made
      BY FilePlaces DEF Typed, LinesTyped
    <3> QED
      BY <1>2, <3>1 DEF Segment
  <2>2. ASSUME NEW i \in DOMAIN appending, NEW k \in DOMAIN appending[i]
        PROVE  appending[i][k].val <= made'
    <3>1. appending[i][k] \in Line
      BY DEF Typed, LinesTyped
    <3>2. appending[i][k].val <= made
      BY DEF Typed, LinesTyped
    <3> QED
      BY <1>2, <3>1, <3>2 DEF Line
  <2> QED
    BY <1>1, <2>1, <2>2 DEF Typed, LinesTyped
<1>7. JournalTyped' /\ AdvanceTyped' /\ PageTyped' /\ DrainTyped'
  BY <1>1 DEF Typed, JournalTyped, AdvanceTyped, PageTyped, DrainTyped
<1>8. PassTyped'
  BY <1>1, <1>4 DEF Typed, PassTyped
<1>9. SessionTyped'
  <2>1. domain' \in [Rows -> 0 .. made']
    BY <1>1, <1>2, <1>4 DEF Typed, SessionTyped
  <2>2. [row |-> r, val |-> made'] \in Line
    BY <1>2 DEF Line
  <2>3. emitq' \in Seq(Line)
    BY <1>1, <2>2 DEF Typed, SessionTyped
  <2>4. \A e \in edits' : e.val <= made'
    <3>1. \A e \in edits : e \in Line /\ e.val <= made
      BY DEF Typed, SessionTyped
    <3> QED
      BY <1>1, <1>2, <3>1 DEF Line
  <2>5. edits' \subseteq Line
    BY <1>1, <2>2 DEF Typed, SessionTyped
  <2> QED
    BY <1>1, <2>1, <2>3, <2>4, <2>5 DEF SessionTyped
<1> QED
  BY <1>5, <1>6, <1>7, <1>8, <1>9 DEF Typed

\* The entry the emission drain sends: an edit of a row, or one the boot
\* pass found again.
LEMMA EmittedFacts ==
  ASSUME Typed, emitq # <<>>
  PROVE  /\ Head(emitq) \in Line /\ 1 \in DOMAIN emitq /\ Head(emitq) = emitq[1]
         /\ Len(emitq) \in Nat /\ DOMAIN emitq = 1 .. Len(emitq)
         /\ Tail(emitq) \in Seq(Line) /\ Len(Tail(emitq)) = Len(emitq) - 1
         /\ DOMAIN Tail(emitq) = 1 .. Len(emitq) - 1
         /\ \A k \in 1 .. Len(emitq) - 1 : Tail(emitq)[k] = emitq[k + 1]
<1>1. emitq \in Seq(Line)
  BY DEF Typed, SessionTyped
<1>2. /\ Head(emitq) \in Line /\ Tail(emitq) \in Seq(Line) /\ Len(Tail(emitq)) = Len(emitq) - 1
      /\ \A i \in 1 .. Len(Tail(emitq)) : Tail(emitq)[i] = emitq[i + 1]
  BY <1>1, HeadTailProperties
<1>3. Len(emitq) \in Nat \ {0} /\ DOMAIN emitq = 1 .. Len(emitq)
  BY <1>1, EmptySeq, LenProperties
<1>4. Head(emitq) = emitq[1]
  BY <1>1
<1>5. DOMAIN Tail(emitq) = 1 .. Len(emitq) - 1
  BY <1>2, LenProperties
<1> QED
  BY <1>2, <1>3, <1>4, <1>5

\* Entries of the emission queue are no younger than the last write: they
\* are edits.  (What EmitsOwnEdits says, as the types need it.)
QueueBounded == \A k \in DOMAIN emitq : emitq[k].val <= made

\* Types after an emission: its value is no younger than the last write.
LEMMA TypedEmit ==
  ASSUME Typed, QueueBounded, Emit \/ EmitFails
  PROVE  Typed'
<1> DEFINE e == Head(emitq)
<1>1. /\ emitq # <<>>
      /\ \/ log' = [log EXCEPT ![e.row] = e.val] /\ logged' = logged \cup {e.val}
         \/ log' = log /\ logged' = logged
      /\ emitq' = Tail(emitq) \/ emitq' = emitq
      /\ sending' \in BOOLEAN
      /\ UNCHANGED <<made, appending, file, off, awaiting, dropped, io, drain, ahead, batch,
                     more, needs, wake, boot, pass, domain, edits>>
      /\ faults' \in 0 .. MaxFaults
  <2>1. CASE Emit
    BY <2>1 DEF Typed, BoundsTyped, Emit, bounds, journal, renderer
  <2>2. CASE EmitFails
    <3>1. PICK took \in BOOLEAN :
            /\ log' = IF took THEN [log EXCEPT ![e.row] = e.val] ELSE log
            /\ logged' = IF took THEN logged \cup {e.val} ELSE logged
      BY <2>2 DEF EmitFails
    <3>2. /\ emitq # <<>> /\ emitq' = emitq /\ sending' = FALSE
          /\ UNCHANGED <<made, appending, file, off, awaiting, dropped, io, drain, ahead,
                         batch, more, needs, wake, boot, pass, domain, edits>>
          /\ faults' \in 0 .. MaxFaults
      BY <2>2, BoundsAssumption
      DEF Typed, BoundsTyped, EmitFails, Fault, journal, renderer
    <3> HIDE DEF e
    <3> QED
      BY <3>1, <3>2
  <2> QED
    BY <2>1, <2>2
<1>2. /\ e \in Line /\ e.val <= made /\ Tail(emitq) \in Seq(Line)
  BY <1>1, EmittedFacts DEF QueueBounded
<1> HIDE DEF e
<1>3. e.row \in Rows /\ e.val \in 1 .. made /\ e.val \in 0 .. made
  BY <1>2, BoundsAssumption DEF Line, Typed, BoundsTyped
<1>4. EngineTyped'
  <2>1. log \in [Rows -> 0 .. made] /\ logged \subseteq 1 .. made
    BY DEF Typed, EngineTyped
  <2> QED
    BY <1>1, <1>3, <2>1 DEF EngineTyped
<1>5. BoundsTyped' /\ LinesTyped' /\ JournalTyped' /\ AdvanceTyped'
  BY <1>1 DEF Typed, BoundsTyped, LinesTyped, JournalTyped, AdvanceTyped
<1>6. PageTyped' /\ DrainTyped' /\ PassTyped'
  BY <1>1 DEF Typed, PageTyped, DrainTyped, PassTyped
<1>7. SessionTyped'
  BY <1>1, <1>2 DEF Typed, SessionTyped
<1> QED
  BY <1>4, <1>5, <1>6, <1>7 DEF Typed

\* The queue stays bounded.
LEMMA BoundedStep ==
  ASSUME Typed, QueueBounded, [Next]_vars
  PROVE  QueueBounded'
<1>0. emitq \in Seq(Line) /\ Len(emitq) \in Nat /\ DOMAIN emitq = 1 .. Len(emitq)
      /\ made \in Nat
  BY LenProperties, BoundsAssumption DEF Typed, SessionTyped, BoundsTyped
<1>1. CASE emitq' = emitq /\ made' = made
  BY <1>1 DEF QueueBounded
<1>2. ASSUME NEW rows \in SUBSET Rows, Apply(rows)
      PROVE  QueueBounded'
  <2>1. made' = made + 1 /\ emitq' = emitq
    BY <1>2 DEF Apply, Write, session
  <2>2. \A k \in DOMAIN emitq : emitq[k] \in Line /\ emitq[k].val <= made
    BY <1>0 DEF QueueBounded
  <2> QED
    BY <1>0, <2>1, <2>2 DEF QueueBounded, Line
<1>3. ASSUME NEW r \in Rows, Edit(r)
      PROVE  QueueBounded'
  <2>1. made' = made + 1 /\ emitq' = Append(emitq, [row |-> r, val |-> made'])
    BY <1>3 DEF Edit, Write
  <2>2. \A k \in DOMAIN emitq : emitq[k] \in Line /\ emitq[k].val <= made
    BY <1>0 DEF QueueBounded
  <2> DEFINE e == [row |-> r, val |-> made']
  <2>3. e.val = made'
    OBVIOUS
  <2> HIDE DEF e
  <2>4. /\ DOMAIN emitq' = 1 .. Len(emitq) + 1
        /\ \A k \in 1 .. Len(emitq) : emitq'[k] = emitq[k]
        /\ emitq'[Len(emitq) + 1] = e
    BY <1>0, <2>1 DEF e
  <2>5. ASSUME NEW k \in DOMAIN emitq'
        PROVE  emitq'[k].val <= made'
    <3>1. CASE k \in DOMAIN emitq
      BY <1>0, <2>1, <2>2, <2>4, <3>1 DEF Line
    <3>2. CASE k = Len(emitq) + 1
      BY <1>0, <2>1, <2>3, <2>4, <3>2
    <3> QED
      BY <1>0, <2>4, <3>1, <3>2
  <2> QED
    BY <2>5 DEF QueueBounded
<1>4. CASE Emit
  <2>1. emitq # <<>> /\ emitq' = Tail(emitq) /\ made' = made
    BY <1>4 DEF Emit, bounds
  <2>2. \A k \in DOMAIN emitq' : k + 1 \in DOMAIN emitq /\ emitq'[k] = emitq[k + 1]
    BY <2>1, EmittedFacts
  <2> QED
    BY <2>1, <2>2 DEF QueueBounded
<1>5. CASE EndPass
  <2>1. made' = made /\ domain \in [Rows -> 0 .. made]
    BY <1>5 DEF EndPass, bounds, Typed, SessionTyped
  <2>2. ASSUME NEW i \in DOMAIN emitq'
        PROVE  emitq'[i].val <= made
    <3>1. CASE i \in DOMAIN emitq
      BY <1>5, <3>1, EndPassQueue DEF QueueBounded
    <3>2. CASE i \notin DOMAIN emitq
      <4>1. emitq'[i].row \in Rows /\ emitq'[i].val = domain[emitq'[i].row]
        BY <1>5, <3>2, EndPassQueue DEF Unsynced
      <4> QED
        BY <1>0, <2>1, <4>1
    <3> QED
      BY <3>1, <3>2
  <2> QED
    BY <2>1, <2>2 DEF QueueBounded
<1>6. CASE RendererDies
  BY <1>6, EmptySeq DEF RendererDies, QueueBounded
<1>7. CASE Appended \/ AppendFails \/ UtilityDies \/ Advance \/ ZeroOffset \/ SwapFile
           \/ Skipped \/ Acked \/ AdvanceFails
  BY <1>1, <1>7 DEF Appended, AppendFails, UtilityDies, Advance, ZeroOffset, SwapFile,
                     Skipped, Acked, AdvanceFails, bounds, session, renderer
<1>8. CASE Boot \/ Woken \/ Pull \/ Commit \/ Ack \/ Loop \/ CommitFails
  BY <1>1, <1>8 DEF Boot, Woken, Pull, Commit, Ack, Loop, CommitFails, bounds, session
<1>9. CASE BeginPass \/ PassPage \/ PassFails \/ EmitFails
  BY <1>1, <1>9 DEF BeginPass, PassPage, PassFails, EmitFails, bounds, session
<1>10. CASE UNCHANGED vars
  BY <1>1, <1>10 DEF vars, bounds, session
<1> QED
  BY <1>2, <1>3, <1>4, <1>5, <1>6, <1>7, <1>8, <1>9, <1>10
  DEF Next, Advancing, Draining, Passing

\* Every step keeps the types.
LEMMA TypedStep ==
  ASSUME Typed, QueueBounded, [Next]_vars
  PROVE  Typed'
<1>1. CASE UNCHANGED vars
  <2>1. UNCHANGED <<bounds, engine, file, appending, off, awaiting, dropped, io, drain, ahead,
                    batch, more, needs, wake, boot, pass, session>>
    BY <1>1 DEF vars, journal, renderer
  <2>2. BoundsTyped' /\ EngineTyped' /\ LinesTyped' /\ JournalTyped' /\ AdvanceTyped'
    BY <2>1 DEF Typed, BoundsTyped, EngineTyped, LinesTyped, JournalTyped, AdvanceTyped, bounds,
                engine
  <2>3. PageTyped' /\ DrainTyped' /\ PassTyped' /\ SessionTyped'
    BY <2>1 DEF Typed, PageTyped, DrainTyped, PassTyped, SessionTyped, bounds, session
  <2> QED
    BY <2>2, <2>3 DEF Typed
<1> QED
  BY <1>1, TypedApply, TypedAppended, TypedAppendFails, TypedUtilityDies, TypedPull,
     TypedAdvancing, TypedAdvanceEnds, TypedDrain, TypedAck, TypedPass, TypedRendererDies,
     TypedEdit, TypedEmit
  DEF Next, Advancing, Draining, Passing

\* Every variable keeps its type, whatever fails and in whatever order the
\* journal, the drain and the passes interleave; the offset never leaves the
\* file, not even between the zeroed sidecar and the swapped file.
THEOREM TypeCorrect == Spec => []TypeOK
<1>1. Init => Typed /\ QueueBounded
  <2>1. Init => QueueBounded
    BY EmptySeq DEF Init, QueueBounded
  <2> QED
    BY <2>1, TypedInit
<1>2. Typed /\ QueueBounded /\ [Next]_vars => (Typed /\ QueueBounded)'
  BY TypedStep, BoundedStep
<1>3. Typed => TypeOK
  BY TypedIsTypeOK
<1> QED
  BY <1>1, <1>2, <1>3, PTL DEF Spec

-----------------------------------------------------------------------------
(* The inductive invariant of the runs without the schedules Faults names. *)

Plain == Faults = {}

\* A line of r with value v waits in the queue; a whole one stands in the
\* file past the n-th; either.
Queue(r, v) ==
  \E i \in DOMAIN appending : \E k \in DOMAIN appending[i] :
    appending[i][k].row = r /\ appending[i][k].val = v
Beyond(r, v, n) ==
  \E i \in DOMAIN file : n < i /\ file[i].whole /\ file[i].row = r /\ file[i].val = v
Left(r, v, n) == Beyond(r, v, n) \/ Queue(r, v)
AnyLeft(r, n) == \E v \in Nat : Left(r, v, n)

InFile(r) == \E i \in DOMAIN file : file[i].row = r
InQueue(r) == \E i \in DOMAIN appending : \E k \in DOMAIN appending[i] : appending[i][k].row = r

\* Lines are written in the order of their values, and the log is never
\* behind them.
FileOrdered == \A i, j \in DOMAIN file : i <= j => file[i].val <= file[j].val
QueueOrdered ==
  \A i, j \in DOMAIN appending : \A k \in DOMAIN appending[i] : \A m \in DOMAIN appending[j] :
    i <= j => appending[i][k].val <= appending[j][m].val
FileFirst ==
  \A i \in DOMAIN file : \A j \in DOMAIN appending : \A k \in DOMAIN appending[j] :
    file[i].val <= appending[j][k].val
LogAhead ==
  /\ \A i \in DOMAIN file : file[i].val <= log[file[i].row]
  /\ \A i \in DOMAIN appending : \A k \in DOMAIN appending[i] :
       appending[i][k].val <= log[appending[i][k].row]
QueueCurrent == \A r \in Rows : InQueue(r) => Queue(r, log[r])

Lines == FileOrdered /\ QueueOrdered /\ FileFirst /\ LogAhead /\ QueueCurrent

\* What the user wrote: one row per value, a last value per row, and a queue
\* of emissions in that order that ends on it.
EditsDistinct == \A e, f \in edits : e.val = f.val => e = f
LastEdits == \A r \in Rows : Edits(r) # {} => \E e \in Edits(r) : \A f \in Edits(r) : f.val <= e.val
QueueInOrder ==
  \A j, k \in DOMAIN emitq : j <= k /\ emitq[j].row = emitq[k].row => emitq[j].val <= emitq[k].val
QueueKnown ==
  \A k \in DOMAIN emitq : Unsent(emitq[k].row) \/ emitq[k].val = log[emitq[k].row]

Sends == EditsDistinct /\ LastEdits /\ EmitsOwnEdits /\ QueueInOrder /\ QueueKnown

\* An edit the log has not taken shows, and nothing in the pipeline or in a
\* pass can overwrite it; a row the log lacks shows nothing else.
Untouched == \A r \in Rows : Unsent(r) => domain[r] = LastEdit(r) /\ ~InFlight(r)
Bare == \A r \in Rows : log[r] = 0 => domain[r] = 0 \/ Unsent(r)

\* A pass pages rows the log has, and the boot pass runs beside an empty
\* pipeline: what it finds to differ from its view are the user's edits.
PassRows ==
  \A r \in Rows : /\ r \in pass.todo => pass.view[r] # 0
                  /\ pass.view[r] # 0 => log[r] # 0
BootAlone ==
  pass.who = "boot" =>
    /\ appending = <<>> /\ off = Len(file) /\ io.step = "idle"
    /\ drain \in {"idle", "pull", "next", "mend"}
BootFinds ==
  pass.who = "boot" =>
    \A r \in Rows :
      IF r \in pass.todo THEN pass.view[r] = log[r]
      ELSE \/ domain[r] = pass.view[r]
           \/ LastEdit(r) # 0 /\ domain[r] = LastEdit(r) /\ (Unsent(r) \/ log[r] = LastEdit(r))

\* The library's side of the invariant.
Held == Sends /\ Untouched /\ Bare /\ PassRows /\ BootFinds

\* A pass is owed for what was lost: it was reported, or will be, or the
\* boot pass is still to come.
Lossy == dropped \/ needs \/ drain \in {"down", "skip"} \/ boot \in {"drain", "owed"}

\* Where the page under way ends.
PageTo ==
  IF io.step \in {"advance", "copy"} THEN io.to
  ELSE IF drain \in {"commit", "ack"} THEN off + awaiting ELSE off

\* Each row shows the log's value, or will.
Shows ==
  \A r \in Rows :
    \/ Lossy \/ Unsent(r) \/ domain[r] = log[r]
    \/ drain = "mend" /\ pass.who # "drain"
    \/ r \in pass.todo /\ pass.view[r] = log[r]
    \/ AnyLeft(r, Start)

\* What is still to come of a row ends on the log's value.
Reaches == \A r \in Rows : AnyLeft(r, Start) => Left(r, log[r], Start) \/ Lossy

\* After the last page what the file or the queue gained meanwhile does so
\* whatever the pass for the pages before it will do.
ReachesBehind ==
  drain \in {"commit", "ack", "acking", "skip", "next"} /\ ~more =>
    \A r \in Rows : AnyLeft(r, PageTo) =>
      \/ Left(r, log[r], PageTo)
      \/ dropped /\ drain # "skip"
      \/ boot \in {"drain", "owed"}

\* The page under way: every whole line of it is served or reported, and once
\* committed it shows.
PageServed ==
  drain = "commit" =>
    \A i \in off + 1 .. off + awaiting : file[i].whole /\ i \notin DOMAIN batch => needs
PageShown ==
  drain = "ack" \/ (drain = "acking" /\ io.step = "advance") =>
    \A i \in off + 1 .. PageTo :
      file[i].whole /\ file[i].val = log[file[i].row] =>
        needs \/ domain[file[i].row] = log[file[i].row]

\* A pass pages what the log holds, unless what came since is on its way.
ViewHolds == \A r \in pass.todo : pass.view[r] = log[r] \/ AnyLeft(r, Start) \/ Lossy

\* An advance moves the offset on.
Forward == io.step = "advance" => off <= io.to

\* The journal's side: what is on its way, and the page under way.
OnItsWay == Shows /\ Reaches /\ ViewHolds
UnderWay == ReachesBehind /\ PageServed /\ PageShown
Flows == OnItsWay /\ UnderWay

IInv == Typed /\ QueueBounded /\ Lines /\ Held /\ BootAlone /\ Forward /\ Flows

-----------------------------------------------------------------------------
(* What each kind of step does to the lines on their way.                  *)

\* A delta adds its rows' outcomes behind everything else.
LEMMA ApplyFacts ==
  ASSUME Typed, NEW rows \in SUBSET Rows, Apply(rows)
  PROVE  /\ made \in Nat /\ made' = made + 1 /\ made' \in 1 .. MaxWrites
         /\ log' = [r \in Rows |-> IF r \in rows THEN made' ELSE log[r]]
         /\ logged' = logged \cup {made'}
         /\ UNCHANGED <<file, off, awaiting, dropped, io, drain, ahead, batch, more, needs,
                        boot, pass, domain, edits, emitq>>
         /\ DOMAIN appending \subseteq DOMAIN appending'
         /\ \A i \in DOMAIN appending : appending'[i] = appending[i]
         /\ \A i \in DOMAIN appending' : i \notin DOMAIN appending =>
              /\ \A j \in DOMAIN appending' : j <= i
              /\ \A k \in DOMAIN appending'[i] :
                   appending'[i][k].row \in rows /\ appending'[i][k].val = made'
         /\ \A r \in rows : \E i \in DOMAIN appending' : \E k \in DOMAIN appending'[i] :
              appending'[i][k].row = r /\ appending'[i][k].val = made'
<1> DEFINE list == [k \in 1 .. Cardinality(rows) |->
                      [row |-> SetToSeq(rows)[k], val |-> made']]
<1>1. /\ made \in 0 .. MaxWrites /\ made < MaxWrites /\ made' = made + 1
      /\ log' = [r \in Rows |-> IF r \in rows THEN made' ELSE log[r]]
      /\ logged' = logged \cup {made'} /\ appending' = Append(appending, list)
      /\ UNCHANGED <<file, off, awaiting, dropped, io, drain, ahead, batch,
                     more, needs, boot, pass, domain, edits, emitq>>
  BY DEF Typed, BoundsTyped, Apply, Write, session
<1>2. made' \in 1 .. MaxWrites /\ made \in Nat
  BY <1>1, BoundsAssumption
<1>3. /\ list \in Seq(Line)
      /\ \A k \in DOMAIN list : list[k].row \in rows /\ list[k].val = made'
      /\ \A r \in rows : \E k \in DOMAIN list : list[k].row = r /\ list[k].val = made'
  BY <1>2, ApplyList
<1> HIDE DEF list
<1>4. appending \in Seq(Seq(Line))
  BY DEF Typed, LinesTyped
<1>5. /\ Len(appending) \in Nat
      /\ \A i \in 1 .. Len(appending) : appending'[i] = appending[i]
      /\ appending'[Len(appending) + 1] = list
      /\ DOMAIN appending' = 1 .. Len(appending) + 1
      /\ DOMAIN appending = 1 .. Len(appending)
  BY <1>1, <1>3, <1>4
<1>6. ASSUME NEW i \in DOMAIN appending', i \notin DOMAIN appending
      PROVE  /\ \A j \in DOMAIN appending' : j <= i
             /\ \A k \in DOMAIN appending'[i] :
                  appending'[i][k].row \in rows /\ appending'[i][k].val = made'
  <2>1. i = Len(appending) + 1
    BY <1>5, <1>6
  <2> QED
    BY <1>3, <1>5, <2>1
<1>7. ASSUME NEW r \in rows
      PROVE  \E i \in DOMAIN appending' : \E k \in DOMAIN appending'[i] :
               appending'[i][k].row = r /\ appending'[i][k].val = made'
  <2>1. Len(appending) + 1 \in DOMAIN appending'
    BY <1>5
  <2> QED
    BY <1>3, <1>5, <2>1, Zenon
<1>8. DOMAIN appending \subseteq DOMAIN appending'
  BY <1>5
<1> QED
  BY <1>1, <1>2, <1>5, <1>6, <1>7, <1>8

\* A delta puts its rows at the end of the queue, and nothing else.
LEMMA ApplyLines ==
  ASSUME Typed, NEW rows \in SUBSET Rows, Apply(rows)
  PROVE  /\ \A r, v : Queue(r, v)' <=> Queue(r, v) \/ (r \in rows /\ v = made')
         /\ \A r, v, n : Beyond(r, v, n)' <=> Beyond(r, v, n)
         /\ \A r : InQueue(r)' <=> InQueue(r) \/ r \in rows
         /\ \A r : InFile(r)' <=> InFile(r)
<1>1. \A r, v : Queue(r, v)' => Queue(r, v) \/ (r \in rows /\ v = made')
  BY ApplyFacts DEF Queue
<1>2. \A r, v : Queue(r, v) \/ (r \in rows /\ v = made') => Queue(r, v)'
  BY ApplyFacts DEF Queue
<1>3. \A r, v, n : Beyond(r, v, n)' <=> Beyond(r, v, n)
  BY ApplyFacts DEF Beyond
<1>4. \A r : InQueue(r)' => InQueue(r) \/ r \in rows
  BY ApplyFacts DEF InQueue
<1>5. \A r : InQueue(r) \/ r \in rows => InQueue(r)'
  BY ApplyFacts DEF InQueue
<1>6. \A r : InFile(r)' <=> InFile(r)
  BY ApplyFacts DEF InFile
<1> QED
  BY <1>1, <1>2, <1>3, <1>4, <1>5, <1>6

\* An append loses lines, or moves them from the queue to the file.
LEMMA AppendsLines ==
  ASSUME Typed, Appends
  PROVE  /\ \A r, v : Queue(r, v)' => Queue(r, v)
         /\ \A r, v, n : Beyond(r, v, n)' => Beyond(r, v, n) \/ Queue(r, v)
         /\ \A r : InQueue(r)' => InQueue(r)
         /\ \A r : InFile(r)' => InFile(r) \/ InQueue(r)
<1>1. \A i \in DOMAIN appending' :
        i + 1 \in DOMAIN appending /\ appending'[i] = appending[i + 1]
  BY QueueShrinks
<1>2. \A r, v : Queue(r, v)' => Queue(r, v)
  BY <1>1 DEF Queue
<1>3. \A r : InQueue(r)' => InQueue(r)
  BY <1>1 DEF InQueue
<1>4. \A i \in DOMAIN file : file'[i] = file[i]
  BY DEF Appends, Grown
<1>5. ASSUME NEW i \in DOMAIN file', i \notin DOMAIN file
      PROVE  \E k \in DOMAIN appending[1] : /\ 1 \in DOMAIN appending
                                           /\ appending[1][k].row = file'[i].row
                                           /\ appending[1][k].val = file'[i].val
  <2>1. /\ appending # <<>>
        /\ \E j \in DOMAIN Head(appending) : /\ file'[i].row = Head(appending)[j].row
                                             /\ file'[i].val = Head(appending)[j].val
    BY <1>5 DEF Appends, Grown
  <2> QED
    BY <2>1, HeadOfQueue
<1>6. \A r, v, n : Beyond(r, v, n)' => Beyond(r, v, n) \/ Queue(r, v)
  BY <1>4, <1>5 DEF Beyond, Queue
<1>7. \A r : InFile(r)' => InFile(r) \/ InQueue(r)
  BY <1>4, <1>5 DEF InFile, InQueue
<1> QED
  BY <1>2, <1>3, <1>6, <1>7

\* An append that succeeds loses none.
LEMMA AppendedLines ==
  ASSUME Typed, Appended
  PROVE  \A r, v : \A n \in 0 .. Len(file) : Left(r, v, n)' <=> Left(r, v, n)
<1>1. /\ Appends /\ appending # <<>> /\ appending' = Tail(appending)
      /\ file' = file \o Written(Head(appending), TRUE, TRUE)
  BY AppendedAppends
<1> DEFINE list == Head(appending)
           left == Written(list, TRUE, TRUE)
<1>2. list = appending[1] /\ 1 \in DOMAIN appending /\ list \in Seq(Line)
  BY <1>1, HeadOfQueue
<1>3. /\ left \in Seq(Segment) /\ Len(left) = Len(list)
      /\ \A k \in 1 .. Len(list) :
           left[k] = [row |-> list[k].row, val |-> list[k].val, whole |-> TRUE, nl |-> TRUE]
  BY <1>2, WrittenFacts
<1>4. file' = file \o left
  BY <1>1
<1> HIDE DEF list, left
<1>5. /\ Len(list) \in Nat /\ DOMAIN list = 1 .. Len(list)
  BY <1>2, LenProperties
<1>6. /\ DOMAIN file' = 1 .. Len(file) + Len(list) /\ Len(file) \in Nat
      /\ DOMAIN file = 1 .. Len(file)
      /\ \A i \in 1 .. Len(file) : file'[i] = file[i]
      /\ \A k \in 1 .. Len(list) : file'[Len(file) + k] = left[k]
  <2>1. file \in Seq(Segment) /\ Len(file) \in Nat /\ DOMAIN file = 1 .. Len(file)
    BY FilePlaces
  <2>0. left \in Seq(Segment)
    BY <1>3
  <2>2. /\ file \o left \in Seq(Segment) /\ Len(file \o left) = Len(file) + Len(left)
        /\ \A i \in 1 .. Len(file) + Len(left) :
             (file \o left)[i] = IF i <= Len(file) THEN file[i] ELSE left[i - Len(file)]
    BY <2>0, <2>1, ConcatProperties
  <2>3. DOMAIN file' = 1 .. Len(file')
    BY <1>4, <2>2, LenProperties
  <2> QED
    BY <1>3, <1>4, <1>5, <2>1, <2>2, <2>3
<1>7. ASSUME NEW i \in DOMAIN appending, i # 1
      PROVE  i - 1 \in DOMAIN appending' /\ appending'[i - 1] = appending[i]
  <2>1. appending \in Seq(Seq(Line)) /\ Len(appending) \in Nat
    BY DEF Typed, LinesTyped
  <2>2. /\ Len(Tail(appending)) = Len(appending) - 1 /\ Tail(appending) \in Seq(Seq(Line))
        /\ \A j \in 1 .. Len(Tail(appending)) : Tail(appending)[j] = appending[j + 1]
    BY <1>1, <2>1, HeadTailProperties
  <2>3. DOMAIN appending = 1 .. Len(appending) /\ DOMAIN appending' = 1 .. Len(appending) - 1
    BY <1>1, <2>1, <2>2, LenProperties
  <2> QED
    BY <1>1, <1>7, <2>1, <2>2, <2>3
<1>8. ASSUME NEW r, NEW v, NEW n \in 0 .. Len(file), Beyond(r, v, n)
      PROVE  Beyond(r, v, n)'
  BY <1>6, <1>8 DEF Beyond
<1>9. ASSUME NEW r, NEW v, NEW n \in 0 .. Len(file), Queue(r, v)
      PROVE  Beyond(r, v, n)' \/ Queue(r, v)'
  <2>0. PICK i \in DOMAIN appending : \E k \in DOMAIN appending[i] :
          appending[i][k].row = r /\ appending[i][k].val = v
    BY <1>9 DEF Queue
  <2>1. PICK k \in DOMAIN appending[i] : appending[i][k].row = r /\ appending[i][k].val = v
    BY <2>0
  <2>2. CASE i = 1
    <3>1. k \in 1 .. Len(list) /\ list[k].row = r /\ list[k].val = v
      BY <1>2, <1>5, <2>1, <2>2
    <3> DEFINE m == Len(file) + k
    <3>2. m \in DOMAIN file' /\ n < m
      BY <1>5, <1>6, <3>1
    <3>3. file'[m] = left[k]
      BY <1>6, <3>1
    <3>4. left[k] = [row |-> list[k].row, val |-> list[k].val, whole |-> TRUE, nl |-> TRUE]
      BY <1>3, <3>1
    <3>5. left[k].whole /\ left[k].row = r /\ left[k].val = v
      BY <3>1, <3>4
    <3> HIDE DEF m
    <3> QED
      BY <3>2, <3>3, <3>5 DEF Beyond
  <2>3. CASE i # 1
    BY <1>7, <2>1, <2>3 DEF Queue
  <2> QED
    BY <2>2, <2>3
<1>10. \A r, v : \A n \in 0 .. Len(file) : Left(r, v, n) => Left(r, v, n)'
  BY <1>8, <1>9 DEF Left
<1>11. \A r, v : \A n \in 0 .. Len(file) : Left(r, v, n)' => Left(r, v, n)
  BY <1>1, AppendsLines DEF Left
<1> QED
  BY <1>10, <1>11

\* The swap keeps what lies past the point the advance went to.
LEMMA SwapLines ==
  ASSUME Typed, SwapFile
  PROVE  /\ \A r, v : Queue(r, v)' <=> Queue(r, v)
         /\ \A r, v : Beyond(r, v, 0)' <=> Beyond(r, v, io.to)
         /\ \A r : InQueue(r)' <=> InQueue(r)
         /\ \A r : InFile(r)' => InFile(r)
<1>1. appending' = appending
  BY DEF SwapFile
<1>2. \A r, v : Queue(r, v)' <=> Queue(r, v)
  BY <1>1 DEF Queue
<1>3. \A r : InQueue(r)' <=> InQueue(r)
  BY <1>1 DEF InQueue
<1>4. /\ io.to \in 0 .. Len(file) /\ Len(file) \in Nat /\ DOMAIN file = 1 .. Len(file)
      /\ DOMAIN file' = 1 .. Len(file) - io.to
      /\ \A i \in DOMAIN file' : i + io.to \in DOMAIN file /\ file'[i] = file[i + io.to]
  BY SwapFacts, FilePlaces
<1>5. \A r : InFile(r)' => InFile(r)
  BY <1>4 DEF InFile
<1>6. ASSUME NEW r, NEW v, Beyond(r, v, 0)'
      PROVE  Beyond(r, v, io.to)
  <2>1. PICK i \in DOMAIN file' : 0 < i /\ file'[i].whole /\ file'[i].row = r /\ file'[i].val = v
    BY <1>6 DEF Beyond
  <2>2. i + io.to \in DOMAIN file /\ io.to < i + io.to /\ file[i + io.to] = file'[i]
    BY <1>4, <2>1
  <2> QED
    BY <2>1, <2>2 DEF Beyond
<1>7. ASSUME NEW r, NEW v, Beyond(r, v, io.to)
      PROVE  Beyond(r, v, 0)'
  <2>1. PICK i \in DOMAIN file :
          io.to < i /\ file[i].whole /\ file[i].row = r /\ file[i].val = v
    BY <1>7 DEF Beyond
  <2>2. i - io.to \in DOMAIN file' /\ 0 < i - io.to /\ (i - io.to) + io.to = i
    BY <1>4, <2>1
  <2>3. file'[i - io.to] = file[i]
    BY <1>4, <2>2
  <2> QED
    BY <2>1, <2>2, <2>3 DEF Beyond
<1> QED
  BY <1>2, <1>3, <1>5, <1>6, <1>7

\* Steps that touch neither the file nor the queue.
LEMMA SameLines ==
  ASSUME UNCHANGED <<file, appending>>
  PROVE  /\ \A r, v : Queue(r, v)' <=> Queue(r, v)
         /\ \A r, v, n : Beyond(r, v, n)' <=> Beyond(r, v, n)
         /\ \A r : InQueue(r)' <=> InQueue(r)
         /\ \A r : InFile(r)' <=> InFile(r)
         /\ \A r, v, n : Left(r, v, n)' <=> Left(r, v, n)
<1>1. \A r, v : Queue(r, v)' <=> Queue(r, v)
  BY DEF Queue
<1>2. \A r, v, n : Beyond(r, v, n)' <=> Beyond(r, v, n)
  BY DEF Beyond
<1>3. \A r : InQueue(r)' <=> InQueue(r)
  BY DEF InQueue
<1>4. \A r : InFile(r)' <=> InFile(r)
  BY DEF InFile
<1>5. \A r, v, n : Left(r, v, n)' <=> Left(r, v, n)
  BY <1>1, <1>2 DEF Left
<1> QED
  BY <1>1, <1>2, <1>3, <1>4, <1>5

-----------------------------------------------------------------------------
(* The order of the lines, step by step.                                   *)

\* Lines carry numbers no younger than the last write.
LEMMA LineNumbers ==
  ASSUME Typed
  PROVE  /\ made \in Nat
         /\ \A i \in DOMAIN file : /\ file[i].row \in Rows /\ file[i].val \in 1 .. made
                                   /\ file[i].whole \in BOOLEAN
         /\ \A i \in DOMAIN appending : \A k \in DOMAIN appending[i] :
              /\ appending[i] \in Seq(Line) /\ appending[i][k] \in Line
              /\ appending[i][k].row \in Rows /\ appending[i][k].val \in 1 .. made
         /\ \A r \in Rows : log[r] \in 0 .. made
<1>1. made \in Nat /\ made <= MaxWrites /\ MaxWrites \in Nat
  BY BoundsAssumption DEF Typed, BoundsTyped
<1>2. \A i \in DOMAIN file : file[i] \in Segment /\ file[i].val <= made
  BY FilePlaces DEF Typed, LinesTyped
<1>3. ASSUME NEW i \in DOMAIN appending, NEW k \in DOMAIN appending[i]
      PROVE  /\ appending[i] \in Seq(Line) /\ appending[i][k] \in Line
             /\ appending[i][k].row \in Rows /\ appending[i][k].val \in 1 .. made
  <2>1. appending \in Seq(Seq(Line)) /\ appending[i][k].val <= made
    BY DEF Typed, LinesTyped
  <2>2. appending[i] \in Seq(Line)
    BY <2>1, LenProperties, ElementOfSeq
  <2>3. appending[i][k] \in Line
    BY <2>2, LenProperties, ElementOfSeq
  <2> QED
    BY <1>1, <2>1, <2>2, <2>3 DEF Line
<1>4. \A r \in Rows : log[r] \in 0 .. made
  BY DEF Typed, EngineTyped
<1> QED
  BY <1>1, <1>2, <1>3, <1>4 DEF Segment

\* A delta keeps the order: its value is above all others.
LEMMA LinesApply ==
  ASSUME Typed, Lines, NEW rows \in SUBSET Rows, Apply(rows)
  PROVE  Lines'
<1>1. \A r \in Rows : log[r] <= log'[r] /\ (r \in rows => log'[r] = made')
  BY ApplyFacts, LineNumbers
<1>2. FileOrdered'
  BY ApplyFacts DEF Lines, FileOrdered
<1>3. QueueOrdered'
  <2> SUFFICES ASSUME NEW i \in DOMAIN appending', NEW j \in DOMAIN appending',
                      NEW k \in DOMAIN appending'[i], NEW m \in DOMAIN appending'[j], i <= j
               PROVE  appending'[i][k].val <= appending'[j][m].val
    BY DEF QueueOrdered
  <2>0. i \in Nat /\ j \in Nat
    <3>1. appending' \in Seq(Seq(Line))
      BY TypedApply DEF Typed, LinesTyped
    <3> QED
      BY <3>1, LenProperties
  <2>1. CASE j \in DOMAIN appending /\ i \in DOMAIN appending
    BY <2>1, ApplyFacts DEF Lines, QueueOrdered
  <2>2. CASE j \notin DOMAIN appending
    <3>1. appending'[j][m].val = made'
      BY <2>2, ApplyFacts
    <3>2. CASE i \in DOMAIN appending
      <4>1. appending'[i] = appending[i]
        BY <3>2, ApplyFacts
      <4>2. appending[i][k].val \in 1 .. made
        BY <3>2, <4>1, LineNumbers
      <4> QED
        BY <3>1, <4>1, <4>2, ApplyFacts
    <3>3. CASE i \notin DOMAIN appending
      <4>1. appending'[i][k].val = made'
        BY <3>3, ApplyFacts
      <4> QED
        BY <3>1, <4>1, ApplyFacts
    <3> QED
      BY <3>2, <3>3
  <2>3. CASE j \in DOMAIN appending /\ i \notin DOMAIN appending
    <3>1. j <= i
      BY <2>3, ApplyFacts
    <3>2. i = j
      BY <2>0, <3>1
    <3> QED
      BY <2>3, <3>2
  <2> QED
    BY <2>1, <2>2, <2>3
<1>4. FileFirst'
  <2> SUFFICES ASSUME NEW i \in DOMAIN file, NEW j \in DOMAIN appending',
                      NEW k \in DOMAIN appending'[j]
               PROVE  file[i].val <= appending'[j][k].val
    BY ApplyFacts DEF FileFirst
  <2>1. CASE j \in DOMAIN appending
    BY <2>1, ApplyFacts DEF Lines, FileFirst
  <2>2. CASE j \notin DOMAIN appending
    <3>1. appending'[j][k].val = made'
      BY <2>2, ApplyFacts
    <3>2. file[i].val \in 1 .. made
      BY LineNumbers
    <3> QED
      BY <3>1, <3>2, ApplyFacts
  <2> QED
    BY <2>1, <2>2
<1>5. LogAhead'
  <2>1. ASSUME NEW i \in DOMAIN file
        PROVE  file[i].val <= log'[file[i].row]
    <3>1. file[i].row \in Rows /\ file[i].val \in 1 .. made
      BY LineNumbers
    <3>2. file[i].val <= log[file[i].row]
      BY DEF Lines, LogAhead
    <3>3. log[file[i].row] \in 0 .. made /\ log'[file[i].row] \in 0 .. made'
      BY <3>1, LineNumbers, TypedApply DEF Typed, EngineTyped
    <3> QED
      BY <1>1, <3>1, <3>2, <3>3, ApplyFacts
  <2>2. ASSUME NEW i \in DOMAIN appending', NEW k \in DOMAIN appending'[i]
        PROVE  appending'[i][k].val <= log'[appending'[i][k].row]
    <3>1. CASE i \in DOMAIN appending
      <4> DEFINE l == appending[i][k]
      <4>1. appending'[i][k] = l /\ k \in DOMAIN appending[i]
        BY <3>1, ApplyFacts
      <4>2. l.row \in Rows /\ l.val \in 1 .. made
        BY <3>1, <4>1, LineNumbers
      <4>3. l.val <= log[l.row]
        BY <3>1, <4>1 DEF Lines, LogAhead
      <4> HIDE DEF l
      <4>4. log[l.row] \in 0 .. made /\ log'[l.row] \in 0 .. made'
        BY <4>2, LineNumbers, TypedApply DEF Typed, EngineTyped
      <4> QED
        BY <1>1, <4>1, <4>2, <4>3, <4>4, ApplyFacts
    <3>2. CASE i \notin DOMAIN appending
      <4>1. appending'[i][k].row \in rows /\ appending'[i][k].val = made'
        BY <3>2, ApplyFacts
      <4>2. made' \in Nat /\ log'[appending'[i][k].row] = made'
        BY <1>1, <4>1, ApplyFacts
      <4> QED
        BY <4>1, <4>2
    <3> QED
      BY <3>1, <3>2
  <2> QED
    BY <2>1, <2>2, ApplyFacts DEF LogAhead
<1>6. QueueCurrent'
  <2> SUFFICES ASSUME NEW r \in Rows, InQueue(r)'
               PROVE  Queue(r, log[r])'
    BY DEF QueueCurrent
  <2>1. CASE r \in rows
    BY <1>1, <2>1, ApplyFacts DEF Queue
  <2>2. CASE r \notin rows
    <3>1. InQueue(r) /\ log'[r] = log[r]
      BY <2>2, ApplyLines, ApplyFacts
    <3>2. Queue(r, log[r])
      BY <3>1 DEF Lines, QueueCurrent
    <3> QED
      BY <3>1, <3>2, ApplyFacts DEF Queue
  <2> QED
    BY <2>1, <2>2
<1> QED
  BY <1>2, <1>3, <1>4, <1>5, <1>6 DEF Lines

\* An append keeps the order: it takes the head of the queue to the file's end.
LEMMA LinesAppends ==
  ASSUME Typed, Lines, Appends
  PROVE  Lines'
<1>1. /\ DOMAIN file \subseteq DOMAIN file' /\ \A i \in DOMAIN file : file'[i] = file[i]
      /\ log' = log
      /\ Len(file) \in Nat /\ DOMAIN file = 1 .. Len(file) /\ DOMAIN file' = 1 .. Len(file')
      /\ Len(file') \in Nat
  BY DEF Appends, Grown
<1>2. ASSUME NEW i \in DOMAIN file', i \notin DOMAIN file
      PROVE  /\ 1 \in DOMAIN appending
             /\ \E k \in DOMAIN appending[1] : /\ appending[1][k].row = file'[i].row
                                              /\ appending[1][k].val = file'[i].val
  <2>1. /\ appending # <<>>
        /\ \E j \in DOMAIN Head(appending) : /\ file'[i].row = Head(appending)[j].row
                                             /\ file'[i].val = Head(appending)[j].val
    BY <1>2 DEF Appends, Grown
  <2> QED
    BY <2>1, HeadOfQueue
<1>3. /\ Len(appending') \in Nat /\ DOMAIN appending' = 1 .. Len(appending')
      /\ Len(appending) \in Nat /\ DOMAIN appending = 1 .. Len(appending)
      /\ \A i \in DOMAIN appending' :
           i + 1 \in DOMAIN appending /\ appending'[i] = appending[i + 1]
  BY QueueShrinks
<1>4. FileOrdered'
  <2> SUFFICES ASSUME NEW i \in DOMAIN file', NEW j \in DOMAIN file', i <= j
               PROVE  file'[i].val <= file'[j].val
    BY DEF FileOrdered
  <2>1. CASE j \in DOMAIN file
    <3>1. i \in DOMAIN file
      BY <1>1, <2>1
    <3> QED
      BY <1>1, <2>1, <3>1 DEF Lines, FileOrdered
  <2>2. CASE j \notin DOMAIN file
    <3>1. PICK m \in DOMAIN appending[1] : appending[1][m].val = file'[j].val
      BY <1>2, <2>2
    <3>2. 1 \in DOMAIN appending
      BY <1>2, <2>2
    <3>3. CASE i \in DOMAIN file
      BY <1>1, <3>1, <3>2, <3>3 DEF Lines, FileFirst
    <3>4. CASE i \notin DOMAIN file
      <4>1. PICK k \in DOMAIN appending[1] : appending[1][k].val = file'[i].val
        BY <1>2, <3>4
      <4>2. appending[1][k].val <= appending[1][m].val
        BY <3>2 DEF Lines, QueueOrdered
      <4> QED
        BY <3>1, <4>1, <4>2
    <3> QED
      BY <3>3, <3>4
  <2> QED
    BY <2>1, <2>2
<1>5. QueueOrdered'
  <2> SUFFICES ASSUME NEW i \in DOMAIN appending', NEW j \in DOMAIN appending',
                      NEW k \in DOMAIN appending'[i], NEW m \in DOMAIN appending'[j], i <= j
               PROVE  appending'[i][k].val <= appending'[j][m].val
    BY DEF QueueOrdered
  <2>1. /\ i + 1 \in DOMAIN appending /\ j + 1 \in DOMAIN appending /\ i + 1 <= j + 1
        /\ appending'[i] = appending[i + 1] /\ appending'[j] = appending[j + 1]
    BY <1>3
  <2> QED
    BY <2>1 DEF Lines, QueueOrdered
<1>6. FileFirst'
  <2> SUFFICES ASSUME NEW i \in DOMAIN file', NEW j \in DOMAIN appending',
                      NEW k \in DOMAIN appending'[j]
               PROVE  file'[i].val <= appending'[j][k].val
    BY DEF FileFirst
  <2>1. j + 1 \in DOMAIN appending /\ appending'[j] = appending[j + 1] /\ 1 <= j + 1
    BY <1>3
  <2>2. CASE i \in DOMAIN file
    BY <1>1, <2>1, <2>2 DEF Lines, FileFirst
  <2>3. CASE i \notin DOMAIN file
    <3>1. 1 \in DOMAIN appending
      BY <1>2, <2>3
    <3>2. PICK m \in DOMAIN appending[1] : appending[1][m].val = file'[i].val
      BY <1>2, <2>3
    <3>3. appending[1][m].val <= appending[j + 1][k].val
      BY <2>1, <3>1 DEF Lines, QueueOrdered
    <3> QED
      BY <2>1, <3>2, <3>3
  <2> QED
    BY <2>2, <2>3
<1>7. LogAhead'
  <2>1. ASSUME NEW i \in DOMAIN file'
        PROVE  file'[i].val <= log[file'[i].row]
    <3>1. CASE i \in DOMAIN file
      BY <1>1, <3>1 DEF Lines, LogAhead
    <3>2. CASE i \notin DOMAIN file
      BY <1>2, <3>2 DEF Lines, LogAhead
    <3> QED
      BY <3>1, <3>2
  <2>2. \A i \in DOMAIN appending' : \A k \in DOMAIN appending'[i] :
          appending'[i][k].val <= log[appending'[i][k].row]
    BY <1>3 DEF Lines, LogAhead
  <2> QED
    BY <1>1, <2>1, <2>2 DEF LogAhead
<1>8. QueueCurrent'
  <2> SUFFICES ASSUME NEW r \in Rows, InQueue(r)'
               PROVE  Queue(r, log[r])'
    BY DEF QueueCurrent
  <2>0. PICK i \in DOMAIN appending' : \E k \in DOMAIN appending'[i] : appending'[i][k].row = r
    BY DEF InQueue
  <2>1. PICK k \in DOMAIN appending'[i] : appending'[i][k].row = r
    BY <2>0
  <2>2. appending' # <<>>
    BY <2>0, EmptySeq
  <2>3. appending' = Tail(appending) /\ appending # <<>>
    BY <2>2 DEF Appends
  <2>4. InQueue(r)
    BY AppendsLines
  <2>5. PICK j \in DOMAIN appending : \E m \in DOMAIN appending[j] :
          appending[j][m].row = r /\ appending[j][m].val = log[r]
    BY <2>4 DEF Lines, QueueCurrent, Queue
  <2>6. PICK m \in DOMAIN appending[j] : appending[j][m].row = r /\ appending[j][m].val = log[r]
    BY <2>5
  <2>7. CASE j = 1
    <3>1. i + 1 \in DOMAIN appending /\ appending'[i] = appending[i + 1] /\ j <= i + 1
      BY <1>3, <2>7
    <3>2. appending[j][m].val <= appending[i + 1][k].val
      BY <3>1 DEF Lines, QueueOrdered
    <3>3. appending[i + 1][k].val <= log[r]
      BY <2>1, <3>1 DEF Lines, LogAhead
    <3>4. appending[i + 1][k].val \in Nat /\ log[r] \in Nat
      BY <3>1, LineNumbers
    <3>5. appending'[i][k].val = log[r]
      BY <2>6, <3>1, <3>2, <3>3, <3>4
    <3> QED
      BY <1>1, <2>1, <3>5 DEF Queue
  <2>8. CASE j # 1
    <3>1. /\ Len(Tail(appending)) = Len(appending) - 1
          /\ \A n \in 1 .. Len(Tail(appending)) : Tail(appending)[n] = appending[n + 1]
      BY <2>3, HeadTailProperties DEF Typed, LinesTyped
    <3>2. j - 1 \in DOMAIN appending' /\ (j - 1) + 1 = j
      BY <1>3, <2>3, <2>8, <3>1
    <3>3. appending'[j - 1] = appending[j]
      BY <1>3, <3>2
    <3> QED
      BY <1>1, <2>6, <3>2, <3>3 DEF Queue
  <2> QED
    BY <2>7, <2>8
<1> QED
  BY <1>4, <1>5, <1>6, <1>7, <1>8 DEF Lines

\* A swap keeps the order: it drops a prefix.
LEMMA LinesSwap ==
  ASSUME Typed, Lines, SwapFile
  PROVE  Lines'
<1>1. appending' = appending /\ log' = log
  BY DEF SwapFile, engine
<1>2. /\ io.to \in Nat /\ DOMAIN file' \subseteq Nat
      /\ \A i \in DOMAIN file' : i + io.to \in DOMAIN file /\ file'[i] = file[i + io.to]
  BY SwapFacts, FilePlaces
<1>3. FileOrdered'
  <2> SUFFICES ASSUME NEW i \in DOMAIN file', NEW j \in DOMAIN file', i <= j
               PROVE  file'[i].val <= file'[j].val
    BY DEF FileOrdered
  <2>1. i + io.to <= j + io.to
    BY <1>2
  <2> QED
    BY <1>2, <2>1 DEF Lines, FileOrdered
<1>4. QueueOrdered' /\ FileFirst' /\ LogAhead'
  BY <1>1, <1>2 DEF Lines, QueueOrdered, FileFirst, LogAhead
<1>5. QueueCurrent'
  BY <1>1 DEF Lines, QueueCurrent, InQueue, Queue
<1> QED
  BY <1>3, <1>4, <1>5 DEF Lines

\* The order is about the file, the queue and the log.
LEMMA LinesSame ==
  ASSUME Lines, UNCHANGED <<file, appending, log>>
  PROVE  Lines'
BY DEF Lines, FileOrdered, QueueOrdered, FileFirst, LogAhead, QueueCurrent, InQueue, Queue

-----------------------------------------------------------------------------
(* The user's edits on their way to the log.                               *)

\* The last edit of a row is one of its edits, and no other is younger.
LEMMA LastEditFacts ==
  ASSUME Typed, Sends, NEW r \in Rows
  PROVE  /\ LastEdit(r) \in 0 .. made
         /\ LastEdit(r) # 0 => [row |-> r, val |-> LastEdit(r)] \in edits
         /\ \A e \in edits : e.row = r => LastEdit(r) # 0 /\ e.val <= LastEdit(r)
<1>0. made \in Nat /\ MaxWrites \in Nat
  BY BoundsAssumption DEF Typed, BoundsTyped
<1>1. \A e \in edits : e \in Line /\ e.val \in 1 .. made /\ e = [row |-> e.row, val |-> e.val]
  BY <1>0 DEF Typed, SessionTyped, Line
<1>2. CASE Edits(r) = {}
  <2>1. LastEdit(r) = 0
    BY <1>2 DEF LastEdit
  <2>2. \A e \in edits : e.row # r
    BY <1>2 DEF Edits
  <2> QED
    BY <1>0, <2>1, <2>2
<1>3. CASE Edits(r) # {}
  <2>1. \E e \in Edits(r) : \A f \in Edits(r) : f.val <= e.val
    BY <1>3 DEF Sends, LastEdits
  <2>2. PICK e \in Edits(r) : LastEdit(r) = e.val /\ \A f \in Edits(r) : f.val <= e.val
    BY <1>3, <2>1 DEF LastEdit
  <2>3. e \in edits /\ e.row = r
    BY DEF Edits
  <2>4. \A f \in edits : f.row = r => f.val <= LastEdit(r)
    BY <2>2 DEF Edits
  <2>5. LastEdit(r) \in 1 .. made
    BY <1>1, <2>2, <2>3
  <2>6. e = [row |-> r, val |-> LastEdit(r)]
    BY <1>1, <2>2, <2>3
  <2>7. [row |-> r, val |-> LastEdit(r)] \in edits
    BY <2>3, <2>6
  <2>8. LastEdit(r) \in 0 .. made /\ LastEdit(r) # 0
    BY <1>0, <2>5
  <2> QED
    BY <2>4, <2>7, <2>8
<1> QED
  BY <1>2, <1>3

\* A delta's number is no edit's: what is unsent stays so.
LEMMA ApplyUnsent ==
  ASSUME Typed, Sends, NEW rows \in SUBSET Rows, Apply(rows), NEW r \in Rows
  PROVE  /\ LastEdit(r)' = LastEdit(r)
         /\ Unsent(r)' <=> Unsent(r)
<1>1. edits' = edits /\ logged' = logged \cup {made'} /\ made' = made + 1 /\ made \in Nat
  BY ApplyFacts
<1>2. LastEdit(r)' = LastEdit(r)
  BY <1>1 DEF LastEdit, Edits
<1>3. LastEdit(r) # made'
  <2>1. LastEdit(r) \in 0 .. made
    BY LastEditFacts
  <2> QED
    BY <1>1, <2>1
<1> QED
  BY <1>1, <1>2, <1>3 DEF Unsent

\* Steps that leave the edits and the log alone.
LEMMA SameEdits ==
  ASSUME UNCHANGED <<edits, logged>>
  PROVE  \A r : LastEdit(r)' = LastEdit(r) /\ (Unsent(r)' <=> Unsent(r))
<1>1. \A r : LastEdit(r)' = LastEdit(r)
  BY DEF LastEdit, Edits
<1> QED
  BY <1>1 DEF Unsent

\* What an emission, taken or lost, does to a row.
Emitted(r) ==
  /\ log'[r] = log[r] \/ Unsent(r)
  /\ LastEdit(r)' = LastEdit(r)
  /\ Unsent(r)' => Unsent(r)
  /\ Unsent(r) => Unsent(r)' \/ log'[r] = LastEdit(r)
  /\ log'[r] = 0 => log[r] = 0

\* An emission touches the log and the queue of emissions only.
LEMMA EmissionFrame ==
  ASSUME Emit \/ EmitFails
  PROVE  /\ emitq # <<>>
         /\ UNCHANGED <<made, file, appending, off, awaiting, dropped, io, drain, batch, more,
                        needs, boot, pass, domain, edits>>
         /\ \/ /\ log' = [log EXCEPT ![Head(emitq).row] = Head(emitq).val]
               /\ logged' = logged \cup {Head(emitq).val}
            \/ UNCHANGED <<log, logged>> /\ emitq' = emitq
         /\ emitq' = Tail(emitq) \/ emitq' = emitq
<1>1. CASE Emit
  BY <1>1 DEF Emit, bounds, journal, renderer
<1>2. CASE EmitFails
  BY <1>2 DEF EmitFails, journal, renderer
<1> QED
  BY <1>1, <1>2

\* An emission gives the log a row's edit it lacked, or what it shows already.
LEMMA EmissionFacts ==
  ASSUME Typed, Sends, Emit \/ EmitFails, NEW r \in Rows
  PROVE  Emitted(r)
<1> DEFINE e == Head(emitq)
<1>1. /\ edits' = edits
      /\ \/ log' = [log EXCEPT ![e.row] = e.val] /\ logged' = logged \cup {e.val}
         \/ log' = log /\ logged' = logged
  BY EmissionFrame
<1>2. e \in Line /\ 1 \in DOMAIN emitq /\ e = emitq[1] /\ DOMAIN log = Rows
  BY EmissionFrame, EmittedFacts DEF Typed, EngineTyped
<1>3. e \in edits
  BY <1>2 DEF Sends, EmitsOwnEdits
<1>4. Unsent(e.row) \/ e.val = log[e.row]
  BY <1>2 DEF Sends, QueueKnown
<1> HIDE DEF e
<1>5. LastEdit(r)' = LastEdit(r)
  BY <1>1 DEF LastEdit, Edits
<1>6. CASE log' = log /\ logged' = logged
  BY <1>5, <1>6 DEF Emitted, Unsent
<1>7. CASE log' = [log EXCEPT ![e.row] = e.val] /\ logged' = logged \cup {e.val}
  <2>1. Unsent(r)' => Unsent(r)
    BY <1>5, <1>7 DEF Unsent
  <2>2. CASE r = e.row
    <3>1. log'[r] = e.val /\ e.val # 0
      BY <1>2, <1>7, <2>2, BoundsAssumption DEF Line
    <3>2. log'[r] = log[r] \/ Unsent(r)
      BY <1>4, <2>2, <3>1
    <3>3. Unsent(r) => Unsent(r)' \/ log'[r] = LastEdit(r)
      BY <1>5, <1>7, <3>1 DEF Unsent
    <3> QED
      BY <1>5, <2>1, <3>1, <3>2, <3>3 DEF Emitted
  <2>3. CASE r # e.row
    <3>1. log'[r] = log[r]
      BY <1>2, <1>7, <2>3
    <3>2. ASSUME Unsent(r)
          PROVE  LastEdit(r) # e.val
      <4> DEFINE f == [row |-> r, val |-> LastEdit(r)]
      <4>1. f \in edits /\ f.row = r /\ f.val = LastEdit(r)
        BY <3>2, LastEditFacts DEF Unsent
      <4> HIDE DEF f
      <4>2. f.val = e.val => f = e
        BY <1>3, <4>1 DEF Sends, EditsDistinct
      <4> QED
        BY <2>3, <4>1, <4>2
    <3>3. Unsent(r) => Unsent(r)'
      BY <1>5, <1>7, <3>2 DEF Unsent
    <3> QED
      BY <1>5, <2>1, <3>1, <3>3 DEF Emitted
  <2> QED
    BY <2>2, <2>3
<1> QED
  BY <1>1, <1>6, <1>7

\* An emission keeps the order: nothing of its row is on its way.
LEMMA LinesEmit ==
  ASSUME Typed, Lines, Sends, Untouched, Emit \/ EmitFails
  PROVE  Lines'
<1>1. file' = file /\ appending' = appending
  BY EmissionFrame
<1>2. ASSUME NEW r \in Rows, InFlight(r)
      PROVE  log'[r] = log[r]
  BY <1>2, EmissionFacts DEF Emitted, Untouched
<1>3. FileOrdered' /\ QueueOrdered' /\ FileFirst'
  BY <1>1 DEF Lines, FileOrdered, QueueOrdered, FileFirst
<1>4. LogAhead'
  <2>1. ASSUME NEW i \in DOMAIN file
        PROVE  file[i].val <= log'[file[i].row]
    <3>1. file[i].row \in Rows /\ InFlight(file[i].row)
      BY LineNumbers DEF InFlight
    <3> QED
      BY <1>2, <3>1 DEF Lines, LogAhead
  <2>2. ASSUME NEW i \in DOMAIN appending, NEW k \in DOMAIN appending[i]
        PROVE  appending[i][k].val <= log'[appending[i][k].row]
    <3>1. appending[i][k].row \in Rows /\ InFlight(appending[i][k].row)
      BY LineNumbers DEF InFlight
    <3> QED
      BY <1>2, <3>1 DEF Lines, LogAhead
  <2> QED
    BY <1>1, <2>1, <2>2 DEF LogAhead
<1>5. QueueCurrent'
  <2> SUFFICES ASSUME NEW r \in Rows, InQueue(r)'
               PROVE  Queue(r, log[r])'
    BY DEF QueueCurrent
  <2>1. InQueue(r)
    BY <1>1 DEF InQueue
  <2>2. InFlight(r)
    BY <2>1 DEF InQueue, InFlight
  <2>3. Queue(r, log[r]) /\ log'[r] = log[r]
    BY <1>2, <2>1, <2>2 DEF Lines, QueueCurrent
  <2> QED
    BY <1>1, <2>3 DEF Queue
<1> QED
  BY <1>3, <1>4, <1>5 DEF Lines

-----------------------------------------------------------------------------
(* The emission queue and the edits, step by step.                         *)

SendsBasis == <<log, logged, edits, emitq>>

\* The emissions are about the edits, their queue and the log.
LEMMA SendsSame ==
  ASSUME Sends, UNCHANGED SendsBasis
  PROVE  Sends'
<1>1. log' = log /\ logged' = logged /\ edits' = edits /\ emitq' = emitq
  BY DEF SendsBasis
<1>2. \A r : Unsent(r)' <=> Unsent(r)
  BY <1>1, SameEdits
<1>3. EditsDistinct' /\ LastEdits' /\ EmitsOwnEdits' /\ QueueInOrder'
  BY <1>1 DEF Sends, EditsDistinct, LastEdits, Edits, EmitsOwnEdits, QueueInOrder
<1>4. QueueKnown'
  BY <1>1, <1>2 DEF Sends, QueueKnown
<1> QED
  BY <1>3, <1>4 DEF Sends

\* What the queue holds of a row is the row's edits.
LEMMA EmissionRows ==
  ASSUME Typed, Sends, NEW k \in DOMAIN emitq
  PROVE  emitq[k] \in edits /\ emitq[k].row \in Rows /\ emitq[k].val \in 1 .. made
<1>1. emitq[k] \in edits
  BY DEF Sends, EmitsOwnEdits
<1>2. \A e \in edits : e \in Line /\ e.val <= made
  BY DEF Typed, SessionTyped
<1> QED
  BY <1>1, <1>2, BoundsAssumption DEF Line, Typed, BoundsTyped

\* A delta does not meet a queued emission.
LEMMA SendsApply ==
  ASSUME Typed, Sends, Plain, NEW rows \in SUBSET Rows, Apply(rows)
  PROVE  Sends'
<1>1. edits' = edits /\ emitq' = emitq
  BY ApplyFacts
<1>2. EditsDistinct' /\ LastEdits' /\ EmitsOwnEdits' /\ QueueInOrder'
  BY <1>1 DEF Sends, EditsDistinct, LastEdits, Edits, EmitsOwnEdits, QueueInOrder
<1>3. \A r \in rows : ~Queued(r)
  BY DEF Apply, Plain, Overlap
<1>4. QueueKnown'
  <2> SUFFICES ASSUME NEW k \in DOMAIN emitq, NEW q, q = emitq[k].row
               PROVE  Unsent(q)' \/ emitq[k].val = log'[q]
    BY <1>1 DEF QueueKnown, Unsent, LastEdit, Edits
  <2>1. q \in Rows
    BY EmissionRows
  <2>2. q \notin rows
    BY <1>3 DEF Queued
  <2>3. log'[q] = log[q]
    BY <2>1, <2>2, ApplyFacts
  <2>4. Unsent(q)' <=> Unsent(q)
    BY <2>1, ApplyUnsent
  <2>5. Unsent(q) \/ emitq[k].val = log[q]
    BY DEF Sends, QueueKnown
  <2> QED
    BY <2>3, <2>4, <2>5
<1> QED
  BY <1>2, <1>4 DEF Sends

\* An empty queue of emissions is in order.
LEMMA SendsCleared ==
  ASSUME Sends, UNCHANGED <<log, logged, edits>>, emitq' = <<>>
  PROVE  Sends'
<1>1. DOMAIN emitq' = {}
  BY EmptySeq
<1>2. EditsDistinct' /\ LastEdits'
  BY DEF Sends, EditsDistinct, LastEdits, Edits
<1> QED
  BY <1>1, <1>2 DEF Sends, EmitsOwnEdits, QueueInOrder, QueueKnown

\* What an edit changes, and the row it may change.
LEMMA EditFacts ==
  ASSUME Typed, Plain, NEW r \in Rows, Edit(r)
  PROVE  /\ made \in Nat /\ made' = made + 1 /\ made' \in 1 .. MaxWrites
         /\ UNCHANGED <<log, logged, file, appending, off, awaiting, dropped, io, drain, batch,
                        more, needs, boot, pass>>
         /\ domain' = [domain EXCEPT ![r] = made']
         /\ domain \in [Rows -> 0 .. made]
         /\ edits' = edits \cup {[row |-> r, val |-> made']}
         /\ Len(emitq) \in Nat /\ DOMAIN emitq = 1 .. Len(emitq)
         /\ DOMAIN emitq' = 1 .. Len(emitq) + 1
         /\ \A k \in DOMAIN emitq : emitq'[k] = emitq[k]
         /\ emitq'[Len(emitq) + 1] = [row |-> r, val |-> made']
         /\ ~InFlight(r)
<1>1. /\ made \in 0 .. MaxWrites /\ made < MaxWrites /\ made' = made + 1
      /\ domain' = [domain EXCEPT ![r] = made']
      /\ edits' = edits \cup {[row |-> r, val |-> made']}
      /\ emitq' = Append(emitq, [row |-> r, val |-> made'])
      /\ UNCHANGED <<log, logged, file, appending, off, awaiting, dropped, io, drain, batch,
                     more, needs, boot, pass>>
      /\ ~InFlight(r)
  BY DEF Typed, BoundsTyped, Edit, Write, engine, journal, renderer, Plain, Overlap
<1>2. made' \in 1 .. MaxWrites /\ made \in Nat
  BY <1>1, BoundsAssumption
<1>3. emitq \in Seq(Line) /\ [row |-> r, val |-> made'] \in Line
  BY <1>2 DEF Typed, SessionTyped, Line
<1>4. domain \in [Rows -> 0 .. made]
  BY DEF Typed, SessionTyped
<1>5. /\ Len(emitq) \in Nat /\ DOMAIN emitq = 1 .. Len(emitq)
      /\ DOMAIN emitq' = 1 .. Len(emitq) + 1
      /\ \A k \in DOMAIN emitq : emitq'[k] = emitq[k]
      /\ emitq'[Len(emitq) + 1] = [row |-> r, val |-> made']
  <2> DEFINE e == [row |-> r, val |-> made']
  <2>1. e \in Line /\ emitq' = Append(emitq, e)
    BY <1>1, <1>3
  <2> HIDE DEF e
  <2>2. /\ Append(emitq, e) \in Seq(Line) /\ Len(Append(emitq, e)) = Len(emitq) + 1
        /\ \A i \in 1 .. Len(emitq) : Append(emitq, e)[i] = emitq[i]
        /\ Append(emitq, e)[Len(emitq) + 1] = e
    BY <1>3, <2>1, AppendProperties
  <2>3. Len(emitq) \in Nat /\ DOMAIN emitq = 1 .. Len(emitq)
    BY <1>3, LenProperties
  <2>4. DOMAIN emitq' = 1 .. Len(emitq')
    BY <2>1, <2>2, LenProperties
  <2> QED
    BY <2>1, <2>2, <2>3, <2>4 DEF e
<1> QED
  BY <1>1, <1>2, <1>4, <1>5

\* A new edit is its row's last, and the log has not taken it.
LEMMA EditEdits ==
  ASSUME Typed, Sends, Plain, NEW r \in Rows, Edit(r)
  PROVE  /\ EditsDistinct' /\ LastEdits'
         /\ LastEdit(r)' = made' /\ Unsent(r)'
         /\ \A q \in Rows : q # r => LastEdit(q)' = LastEdit(q) /\ (Unsent(q)' <=> Unsent(q))
<1> DEFINE e == [row |-> r, val |-> made']
<1>1. /\ edits' = edits \cup {e} /\ e.row = r /\ e.val = made' /\ logged' = logged
      /\ made' = made + 1 /\ made \in Nat
  BY EditFacts
<1> HIDE DEF e
<1>2. \A f \in edits : f \in Line /\ f.val \in 1 .. made
  <2>1. \A f \in edits : f \in Line /\ f.val <= made
    BY DEF Typed, SessionTyped
  <2> QED
    BY <1>1, <2>1, BoundsAssumption DEF Line, Typed, BoundsTyped
<1>3. EditsDistinct'
  BY <1>1, <1>2 DEF Sends, EditsDistinct
<1>4. e \in Edits(r)' /\ \A f \in Edits(r)' : f.val <= e.val /\ (f.val = e.val => f = e)
  BY <1>1, <1>2 DEF Edits
<1>5. ASSUME NEW q \in Rows, q # r
      PROVE  Edits(q)' = Edits(q)
  BY <1>1, <1>5 DEF Edits
<1>6. LastEdits'
  <2> SUFFICES ASSUME NEW q \in Rows, Edits(q)' # {}
               PROVE  \E f \in Edits(q)' : \A g \in Edits(q)' : g.val <= f.val
    BY DEF LastEdits
  <2>1. CASE q = r
    BY <1>4, <2>1
  <2>2. CASE q # r
    BY <1>5, <2>2 DEF Sends, LastEdits
  <2> QED
    BY <2>1, <2>2
<1>7. LastEdit(r)' = made'
  <2>1. Edits(r)' # {}
    BY <1>4
  <2> DEFINE c == CHOOSE f \in Edits(r)' : \A g \in Edits(r)' : g.val <= f.val
  <2>2. c \in Edits(r)' /\ \A g \in Edits(r)' : g.val <= c.val
    BY <1>4
  <2>3. LastEdit(r)' = c.val
    BY <2>1 DEF LastEdit
  <2> HIDE DEF c
  <2>4. c \in edits \cup {e}
    BY <1>1, <2>2 DEF Edits
  <2>5. c.val \in Nat /\ c.val <= e.val /\ e.val <= c.val
    BY <1>1, <1>2, <1>4, <2>2, <2>4
  <2>6. c.val = e.val
    BY <1>1, <2>5
  <2> QED
    BY <1>1, <2>3, <2>6
<1>8. Unsent(r)'
  <2>1. logged \subseteq 1 .. made
    BY DEF Typed, EngineTyped
  <2>2. made' \notin logged' /\ made' # 0
    BY <1>1, <2>1
  <2> QED
    BY <1>7, <2>2 DEF Unsent
<1>9. ASSUME NEW q \in Rows, q # r
      PROVE  LastEdit(q)' = LastEdit(q) /\ (Unsent(q)' <=> Unsent(q))
  <2> DEFINE Largest(S) ==
        IF S = {} THEN 0 ELSE (CHOOSE f \in S : \A g \in S : g.val <= f.val).val
  <2>0. LastEdit(q) = Largest(Edits(q)) /\ LastEdit(q)' = Largest(Edits(q)')
    BY DEF LastEdit
  <2> HIDE DEF Largest
  <2>1. LastEdit(q)' = LastEdit(q)
    BY <1>5, <1>9, <2>0
  <2> QED
    BY <1>1, <2>1 DEF Unsent
<1> QED
  BY <1>3, <1>6, <1>7, <1>8, <1>9

\* An edit ends the queue of emissions with the row's last value.
LEMMA SendsEdit ==
  ASSUME Typed, Sends, Plain, NEW r \in Rows, Edit(r)
  PROVE  Sends'
<1>1. EditsDistinct' /\ LastEdits'
  BY EditEdits
<1> DEFINE e == [row |-> r, val |-> made']
           n == Len(emitq) + 1
<1>2. /\ Len(emitq) \in Nat /\ DOMAIN emitq = 1 .. Len(emitq) /\ DOMAIN emitq' = 1 .. n
      /\ \A k \in DOMAIN emitq : emitq'[k] = emitq[k]
      /\ emitq'[n] = e /\ edits' = edits \cup {e} /\ e.row = r /\ e.val = made'
      /\ made' = made + 1 /\ made \in Nat
      /\ log' = log
  BY EditFacts
<1> HIDE DEF e
<1>3. \A k \in DOMAIN emitq' : k = n \/ k \in DOMAIN emitq
  BY <1>2
<1>4. EmitsOwnEdits'
  <2>1. \A k \in DOMAIN emitq : emitq[k] \in edits
    BY DEF Sends, EmitsOwnEdits
  <2> QED
    BY <1>2, <1>3, <2>1 DEF EmitsOwnEdits
<1>5. QueueInOrder'
  <2> SUFFICES ASSUME NEW j \in DOMAIN emitq', NEW k \in DOMAIN emitq', j <= k,
                      emitq'[j].row = emitq'[k].row
               PROVE  emitq'[j].val <= emitq'[k].val
    BY DEF QueueInOrder
  <2>1. CASE k \in DOMAIN emitq
    <3>1. j \in DOMAIN emitq
      BY <1>2, <2>1
    <3> QED
      BY <1>2, <2>1, <3>1 DEF Sends, QueueInOrder
  <2>2. CASE k = n
    <3>1. CASE j = n
      BY <1>2, <2>2, <3>1
    <3>2. CASE j \in DOMAIN emitq
      <4>1. emitq'[j].val \in 1 .. made
        BY <1>2, <3>2, EmissionRows
      <4> QED
        BY <1>2, <2>2, <4>1
    <3> QED
      BY <1>3, <3>1, <3>2
  <2> QED
    BY <1>3, <2>1, <2>2
<1>6. QueueKnown'
  <2> SUFFICES ASSUME NEW k \in DOMAIN emitq', NEW q, q = emitq'[k].row
               PROVE  Unsent(q)' \/ emitq'[k].val = log[q]
    BY <1>2 DEF QueueKnown, Unsent, LastEdit, Edits
  <2>1. CASE q = r
    BY <2>1, EditEdits
  <2>2. CASE q # r
    <3>1. k \in DOMAIN emitq
      BY <1>2, <1>3, <2>2
    <3>2. q \in Rows /\ emitq'[k] = emitq[k]
      BY <1>2, <3>1, EmissionRows
    <3>3. Unsent(q) \/ emitq[k].val = log[q]
      BY <3>1, <3>2 DEF Sends, QueueKnown
    <3> QED
      BY <2>2, <3>2, <3>3, EditEdits
  <2> QED
    BY <2>1, <2>2
<1> QED
  BY <1>1, <1>4, <1>5, <1>6 DEF Sends

\* What the boot pass finds to differ is the user's.
LEMMA BootPassFinds ==
  ASSUME Typed, Sends, BootFinds, EndPass, pass.who = "boot", NEW r \in Unsynced
  PROVE  /\ r \in Rows /\ domain[r] = LastEdit(r) /\ LastEdit(r) # 0
         /\ [row |-> r, val |-> domain[r]] \in edits
         /\ Unsent(r) \/ log[r] = LastEdit(r)
<1>1. r \in Rows /\ domain[r] # pass.view[r]
  BY DEF Unsynced
<1>2. pass.todo = {}
  BY DEF EndPass
<1>3. LastEdit(r) # 0 /\ domain[r] = LastEdit(r) /\ (Unsent(r) \/ log[r] = LastEdit(r))
  BY <1>1, <1>2 DEF BootFinds
<1>4. [row |-> r, val |-> LastEdit(r)] \in edits
  BY <1>1, <1>3, LastEditFacts
<1> QED
  BY <1>1, <1>3, <1>4

\* What a boot pass re-emits is the last edit of its row.
LEMMA SendsEndPass ==
  ASSUME Typed, Sends, BootFinds, EndPass
  PROVE  Sends'
<1>1. log' = log /\ logged' = logged /\ edits' = edits
  BY DEF EndPass, engine
<1>2. EditsDistinct' /\ LastEdits'
  BY <1>1 DEF Sends, EditsDistinct, LastEdits, Edits
<1>3. /\ emitq' \in Seq(Line)
      /\ DOMAIN emitq = 1 .. Len(emitq) /\ DOMAIN emitq' = 1 .. Len(emitq')
      /\ Len(emitq) \in Nat /\ Len(emitq') \in Nat
      /\ \A i \in DOMAIN emitq : emitq'[i] = emitq[i]
  BY EndPassQueue
<1>4. ASSUME NEW k \in DOMAIN emitq', k \notin DOMAIN emitq
      PROVE  /\ emitq'[k] \in edits /\ emitq'[k].row \in Rows
             /\ emitq'[k].val = LastEdit(emitq'[k].row)
             /\ Unsent(emitq'[k].row) \/ log[emitq'[k].row] = LastEdit(emitq'[k].row)
  <2> DEFINE e == emitq'[k]
  <2>1. pass.who = "boot" /\ e.row \in Unsynced /\ e.val = domain[e.row]
    BY <1>4, EndPassQueue
  <2>2. e \in Line
    BY <1>3, ElementOfSeq
  <2> HIDE DEF e
  <2>3. e = [row |-> e.row, val |-> domain[e.row]]
    BY <2>1, <2>2 DEF Line
  <2> DEFINE q == e.row
  <2>4. q \in Unsynced
    BY <2>1
  <2> HIDE DEF q
  <2>5. /\ q \in Rows /\ domain[q] = LastEdit(q)
        /\ [row |-> q, val |-> domain[q]] \in edits
        /\ Unsent(q) \/ log[q] = LastEdit(q)
    BY <2>1, <2>4, BootPassFinds
  <2>6. /\ e \in edits /\ e.row \in Rows /\ e.val = LastEdit(e.row)
        /\ Unsent(e.row) \/ log[e.row] = LastEdit(e.row)
    BY <2>1, <2>3, <2>5 DEF q
  <2> QED
    BY <2>6 DEF e
<1>5. ASSUME NEW k \in DOMAIN emitq'
      PROVE  emitq'[k] \in edits /\ emitq'[k].row \in Rows /\ emitq'[k].val \in 1 .. made
  <2>1. emitq'[k] \in edits
    BY <1>3, <1>4, EmissionRows
  <2>2. \A e \in edits : e \in Line /\ e.val <= made
    BY DEF Typed, SessionTyped
  <2> QED
    BY <2>1, <2>2, BoundsAssumption DEF Line, Typed, BoundsTyped
<1>6. EmitsOwnEdits'
  BY <1>1, <1>5 DEF EmitsOwnEdits
<1>7. QueueInOrder'
  <2> SUFFICES ASSUME NEW j \in DOMAIN emitq', NEW k \in DOMAIN emitq', j <= k,
                      emitq'[j].row = emitq'[k].row
               PROVE  emitq'[j].val <= emitq'[k].val
    BY DEF QueueInOrder
  <2>1. CASE k \in DOMAIN emitq
    <3>1. j \in DOMAIN emitq
      BY <1>3, <2>1
    <3> QED
      BY <1>3, <2>1, <3>1 DEF Sends, QueueInOrder
  <2>2. CASE k \notin DOMAIN emitq
    <3> DEFINE q == emitq'[k].row
    <3>1. emitq'[k].val = LastEdit(q) /\ q \in Rows
      BY <1>4, <2>2
    <3>2. emitq'[j] \in edits /\ emitq'[j].row = q
      BY <1>5
    <3> HIDE DEF q
    <3>3. emitq'[j].val <= LastEdit(q)
      BY <3>1, <3>2, LastEditFacts
    <3> QED
      BY <3>1, <3>3
  <2> QED
    BY <2>1, <2>2
<1>8. QueueKnown'
  <2> SUFFICES ASSUME NEW k \in DOMAIN emitq', NEW q, q = emitq'[k].row
               PROVE  Unsent(q)' \/ emitq'[k].val = log[q]
    BY <1>1 DEF QueueKnown, Unsent, LastEdit, Edits
  <2>1. Unsent(q)' <=> Unsent(q)
    BY <1>1, SameEdits
  <2>2. CASE k \in DOMAIN emitq
    BY <1>3, <2>1, <2>2 DEF Sends, QueueKnown
  <2>3. CASE k \notin DOMAIN emitq
    BY <1>4, <2>1, <2>3
  <2> QED
    BY <2>2, <2>3
<1> QED
  BY <1>2, <1>6, <1>7, <1>8 DEF Sends

\* An entry behind the one emitted is known to the log or still unsent.
LEMMA SendsEmit ==
  ASSUME Typed, Sends, Emit \/ EmitFails
  PROVE  Sends'
<1>1. /\ emitq # <<>> /\ edits' = edits
      /\ \/ /\ log' = [log EXCEPT ![Head(emitq).row] = Head(emitq).val]
            /\ logged' = logged \cup {Head(emitq).val}
         \/ UNCHANGED <<log, logged>> /\ emitq' = emitq
      /\ emitq' = Tail(emitq) \/ emitq' = emitq
  BY EmissionFrame
<1>2. CASE UNCHANGED <<log, logged>> /\ emitq' = emitq
  BY <1>1, <1>2, SendsSame DEF SendsBasis
<1>3. CASE /\ log' = [log EXCEPT ![Head(emitq).row] = Head(emitq).val]
           /\ logged' = logged \cup {Head(emitq).val}
  <2> DEFINE e == Head(emitq)
  <2>1. /\ Head(emitq) \in Line /\ 1 \in DOMAIN emitq /\ Head(emitq) = emitq[1]
        /\ Len(emitq) \in Nat /\ DOMAIN emitq = 1 .. Len(emitq)
        /\ DOMAIN Tail(emitq) = 1 .. Len(emitq) - 1
        /\ \A k \in 1 .. Len(emitq) - 1 : Tail(emitq)[k] = emitq[k + 1]
    BY <1>1, EmittedFacts
  <2>2. ASSUME NEW k \in DOMAIN emitq'
        PROVE  \E j \in DOMAIN emitq : k <= j /\ emitq'[k] = emitq[j]
                                       /\ \A m \in DOMAIN emitq' : k <= m =>
                                            \E n \in DOMAIN emitq : j <= n /\ emitq'[m] = emitq[n]
    <3>1. CASE emitq' = emitq
      <4>1. k \in DOMAIN emitq /\ k <= k
        BY <2>1, <3>1
      <4> QED
        BY <3>1, <4>1
    <3>2. CASE emitq' = Tail(emitq)
      <4>1. k + 1 \in DOMAIN emitq /\ k <= k + 1 /\ emitq'[k] = emitq[k + 1]
        BY <2>1, <3>2
      <4>2. \A m \in DOMAIN emitq' : k <= m =>
              m + 1 \in DOMAIN emitq /\ k + 1 <= m + 1 /\ emitq'[m] = emitq[m + 1]
        BY <2>1, <3>2
      <4> QED
        BY <4>1, <4>2
    <3> QED
      BY <1>1, <3>1, <3>2
  <2>3. EditsDistinct' /\ LastEdits'
    BY <1>1 DEF Sends, EditsDistinct, LastEdits, Edits
  <2>4. EmitsOwnEdits'
    BY <1>1, <2>2 DEF Sends, EmitsOwnEdits
  <2>5. QueueInOrder'
    <3> SUFFICES ASSUME NEW j \in DOMAIN emitq', NEW k \in DOMAIN emitq', j <= k,
                        emitq'[j].row = emitq'[k].row
                 PROVE  emitq'[j].val <= emitq'[k].val
      BY DEF QueueInOrder
    <3>1. PICK m \in DOMAIN emitq : /\ emitq'[j] = emitq[m]
                                    /\ \E n \in DOMAIN emitq : m <= n /\ emitq'[k] = emitq[n]
      BY <2>2
    <3> QED
      BY <3>1 DEF Sends, QueueInOrder
  <2>6. QueueKnown'
    <3> SUFFICES ASSUME NEW k \in DOMAIN emitq', NEW q, q = emitq'[k].row
                 PROVE  Unsent(q)' \/ emitq'[k].val = log'[q]
      BY DEF QueueKnown, Unsent, LastEdit, Edits
    <3>1. PICK j \in DOMAIN emitq : emitq'[k] = emitq[j]
      BY <2>2
    <3>2. q \in Rows /\ emitq[j] \in edits /\ emitq[j].val \in 1 .. made
      BY <3>1, EmissionRows
    <3>3. Emitted(q)
      BY <3>2, EmissionFacts
    <3>4. Unsent(q) \/ emitq[j].val = log[q]
      BY <3>1 DEF Sends, QueueKnown
    <3>5. CASE ~Unsent(q)
      <4>1. log'[q] = log[q]
        BY <3>3, <3>5 DEF Emitted
      <4> QED
        BY <3>1, <3>4, <3>5, <4>1
    <3>6. CASE Unsent(q)
      <4>1. Unsent(q)' \/ log'[q] = LastEdit(q)
        BY <3>3, <3>6 DEF Emitted
      <4>2. ASSUME ~Unsent(q)', log'[q] = LastEdit(q)
            PROVE  emitq'[k].val = log'[q]
        <5>1. LastEdit(q) # 0 /\ LastEdit(q) \notin logged
          BY <3>6 DEF Unsent
        <5>2. LastEdit(q)' = LastEdit(q)
          BY <3>3 DEF Emitted
        <5>3. LastEdit(q) \in logged'
          BY <4>2, <5>1, <5>2 DEF Unsent
        <5>4. e.val = LastEdit(q)
          BY <1>3, <5>1, <5>3
        <5>5. emitq[1] \in edits /\ emitq[1] = e
          BY <2>1, EmissionRows
        <5>6. e.row = q
          <6> DEFINE f == [row |-> q, val |-> LastEdit(q)]
          <6>1. f \in edits /\ f.row = q /\ f.val = LastEdit(q)
            BY <3>2, <5>1, LastEditFacts
          <6> HIDE DEF f
          <6>2. f = e
            BY <5>4, <5>5, <6>1 DEF Sends, EditsDistinct
          <6> QED
            BY <6>1, <6>2
        <5> HIDE DEF e
        <5>7. 1 <= j /\ emitq[1].row = emitq[j].row
          BY <2>1, <3>1, <5>5, <5>6
        <5>8. e.val <= emitq[j].val
          BY <2>1, <5>5, <5>7 DEF Sends, QueueInOrder
        <5>9. emitq[j].val <= LastEdit(q) /\ LastEdit(q) \in Nat
          <6> DEFINE f == emitq[j]
          <6>1. f \in edits /\ f.row = q
            BY <3>1, <3>2
          <6> HIDE DEF f
          <6>2. f.val <= LastEdit(q) /\ LastEdit(q) \in 0 .. made
            BY <3>2, <6>1, LastEditFacts
          <6> QED
            BY <6>2 DEF f
        <5>10. emitq[j].val = LastEdit(q)
          BY <3>2, <5>4, <5>8, <5>9
        <5> QED
          BY <3>1, <4>2, <5>10
      <4> QED
        BY <4>1, <4>2
    <3> QED
      BY <3>5, <3>6
  <2> QED
    BY <2>3, <2>4, <2>5, <2>6 DEF Sends
<1> QED
  BY <1>1, <1>2, <1>3

-----------------------------------------------------------------------------
(* What the pipeline may still overwrite, step by step.                    *)

InBatch(r) == \E i \in DOMAIN batch : batch[i].row = r

\* Nothing comes into flight that was not.
FlightShrinks == \A r : InFlight(r)' => InFlight(r)

\* What is in flight shrinks when the queue, file, page and pass do.
LEMMA FlightFrom ==
  ASSUME \A r : InQueue(r)' => InQueue(r),
         \A r : InFile(r)' => InFile(r) \/ InQueue(r),
         \A r : InBatch(r)' => InBatch(r) \/ InFile(r),
         pass'.todo \subseteq pass.todo
  PROVE  FlightShrinks
<1>1. \A r : InFlight(r) <=> InQueue(r) \/ InFile(r) \/ InBatch(r) \/ r \in pass.todo
  BY DEF InFlight, InQueue, InFile, InBatch
<1>2. \A r : InFlight(r)' <=> InQueue(r)' \/ InFile(r)' \/ InBatch(r)' \/ r \in pass'.todo
  BY DEF InFlight, InQueue, InFile, InBatch
<1> QED
  BY <1>1, <1>2 DEF FlightShrinks

\* The steps that write neither the log nor the library.
Rest ==
  \/ Appended \/ AppendFails \/ UtilityDies \/ Pull \/ SwapFile
  \/ Advance \/ ZeroOffset \/ Skipped \/ Acked \/ AdvanceFails
  \/ Boot \/ Woken \/ CommitFails \/ Ack \/ Loop \/ PassFails \/ RendererDies
  \/ UNCHANGED vars

RestFrame ==
  /\ UNCHANGED <<log, logged, domain, edits>>
  /\ emitq' = emitq \/ emitq' = <<>>
  /\ pass' = pass \/ pass' = NoPass
  /\ FlightShrinks

\* The steps that leave the library and the log alone.
LEMMA RestFacts ==
  ASSUME Typed, Rest
  PROVE  RestFrame
<1>1. CASE Appended \/ AppendFails \/ UtilityDies
  <2>1. Appends
    BY <1>1, AppendedAppends, AppendFailsAppends, UtilityDiesAppends
  <2>2. UNCHANGED <<log, logged, domain, edits, emitq>>
    BY <1>1 DEF Appended, AppendFails, UtilityDies, engine, session
  <2>3. batch' = batch /\ pass' = pass
    BY <2>1 DEF Appends
  <2>4. \A r : InBatch(r)' => InBatch(r)
    BY <2>3 DEF InBatch
  <2>5. FlightShrinks
    BY <2>1, <2>3, <2>4, AppendsLines, FlightFrom
  <2> QED
    BY <2>2, <2>3, <2>5 DEF RestFrame
<1>2. CASE SwapFile
  <2>1. UNCHANGED <<log, logged, domain, edits, emitq, batch, pass>>
    BY <1>2 DEF SwapFile, engine, session, renderer
  <2>2. \A r : InBatch(r)' => InBatch(r)
    BY <2>1 DEF InBatch
  <2>3. FlightShrinks
    BY <1>2, <2>1, <2>2, SwapLines, FlightFrom
  <2> QED
    BY <2>1, <2>3 DEF RestFrame
<1>3. CASE Pull
  <2>1. UNCHANGED <<log, logged, domain, edits, emitq, pass, file, appending>>
    BY <1>3 DEF Pull, engine, session
  <2>2. batch' = batch \/ batch' = Outcomes
    BY <1>3 DEF Pull
  <2>3. ASSUME NEW r, InBatch(r)'
        PROVE  InBatch(r) \/ InFile(r)
    <3>1. CASE batch' = batch
      BY <2>3, <3>1 DEF InBatch
    <3>2. CASE batch' = Outcomes
      <4>1. PICK i \in DOMAIN Outcomes : Outcomes[i].row = r
        BY <2>3, <3>2 DEF InBatch
      <4>2. i \in DOMAIN file /\ file[i].row = r
        BY <4>1, OutcomesFacts
      <4> QED
        BY <4>2 DEF InFile
    <3> QED
      BY <2>2, <3>1, <3>2
  <2>4. FlightShrinks
    BY <2>1, <2>3, SameLines, FlightFrom
  <2> QED
    BY <2>1, <2>4 DEF RestFrame
<1>4. CASE \/ Advance \/ ZeroOffset \/ Skipped \/ Acked \/ AdvanceFails
           \/ Boot \/ Woken \/ CommitFails \/ Ack \/ Loop \/ PassFails \/ RendererDies
           \/ UNCHANGED vars
  <2>1. /\ UNCHANGED <<log, logged, domain, edits, file, appending>>
        /\ emitq' = emitq \/ emitq' = <<>>
        /\ pass' = pass \/ pass' = NoPass
        /\ batch' = batch \/ batch' = <<>>
    <3>1. CASE Advance \/ ZeroOffset \/ Skipped \/ Acked \/ AdvanceFails
      BY <3>1 DEF Advance, ZeroOffset, Skipped, Acked, AdvanceFails, engine, renderer, session
    <3>2. CASE Boot \/ Woken \/ CommitFails \/ Ack \/ Loop
      BY <3>2 DEF Boot, Woken, CommitFails, Ack, Loop, engine, journal, session
    <3>3. CASE PassFails \/ RendererDies \/ UNCHANGED vars
      BY <3>3 DEF PassFails, RendererDies, vars, engine, journal, renderer, session
    <3> QED
      BY <1>4, <3>1, <3>2, <3>3
  <2>2. \A r : InBatch(r)' => InBatch(r)
    BY <2>1 DEF InBatch
  <2>3. pass'.todo \subseteq pass.todo
    BY <2>1 DEF NoPass
  <2>4. FlightShrinks
    BY <2>1, <2>2, <2>3, SameLines, FlightFrom
  <2> QED
    BY <2>1, <2>4 DEF RestFrame
<1> QED
  BY <1>1, <1>2, <1>3, <1>4 DEF Rest

\* They keep the library's side of the invariant.
LEMMA HeldRest ==
  ASSUME Typed, Held, Rest
  PROVE  Held'
<1>1. RestFrame
  BY RestFacts
<1>2. /\ UNCHANGED <<log, logged, domain, edits>>
      /\ emitq' = emitq \/ emitq' = <<>>
      /\ pass' = pass \/ pass' = NoPass
      /\ \A r : InFlight(r)' => InFlight(r)
  BY <1>1 DEF RestFrame, FlightShrinks
<1>3. Sends'
  <2>1. CASE emitq' = emitq
    BY <1>2, <2>1, SendsSame DEF Held, SendsBasis
  <2>2. CASE emitq' = <<>>
    BY <1>2, <2>2, SendsCleared DEF Held
  <2> QED
    BY <1>2, <2>1, <2>2
<1>4. \A r : LastEdit(r)' = LastEdit(r) /\ (Unsent(r)' <=> Unsent(r))
  BY <1>2, SameEdits
<1>5. Untouched'
  BY <1>2, <1>4 DEF Held, Untouched
<1>6. Bare'
  BY <1>2, <1>4 DEF Held, Bare
<1>7. PassRows'
  <2>1. CASE pass' = pass
    BY <1>2, <2>1 DEF Held, PassRows
  <2>2. CASE pass' = NoPass
    <3>1. \A r \in Rows : pass'.view[r] = 0 /\ r \notin pass'.todo
      BY <2>2 DEF NoPass
    <3> QED
      BY <3>1 DEF PassRows
  <2> QED
    BY <1>2, <2>1, <2>2
<1>8. BootFinds'
  <2>1. CASE pass' = pass
    BY <1>2, <1>4, <2>1 DEF Held, BootFinds
  <2>2. CASE pass' = NoPass
    BY <2>2 DEF NoPass, BootFinds
  <2> QED
    BY <1>2, <2>1, <2>2
<1> QED
  BY <1>3, <1>5, <1>6, <1>7, <1>8 DEF Held

\* A delta wins rows without an edit of their own.
LEMMA HeldApply ==
  ASSUME Typed, Held, Plain, NEW rows \in SUBSET Rows, Apply(rows)
  PROVE  Held'
<1>1. Sends'
  BY SendsApply DEF Held
<1>2. /\ UNCHANGED <<file, batch, pass, domain>>
      /\ log' = [r \in Rows |-> IF r \in rows THEN made' ELSE log[r]]
      /\ made' # 0
  BY ApplyFacts
<1>3. \A r \in rows : ~Unsent(r)
  BY DEF Apply, Plain, Overlap
<1>4. pass.who # "boot"
  BY DEF Apply, Plain, Overlap
<1>5. \A r \in Rows : LastEdit(r)' = LastEdit(r) /\ (Unsent(r)' <=> Unsent(r))
  BY ApplyUnsent DEF Held
<1>6. ASSUME NEW r, InFlight(r)'
      PROVE  InFlight(r) \/ r \in rows
  <2>1. InQueue(r)' \/ InFile(r)' \/ InBatch(r)' \/ r \in pass'.todo
    BY <1>6 DEF InFlight, InQueue, InFile, InBatch
  <2>2. InQueue(r) \/ r \in rows \/ InFile(r) \/ InBatch(r)' \/ r \in pass.todo
    BY <1>2, <2>1, ApplyLines
  <2>3. InBatch(r)' => InBatch(r)
    BY <1>2 DEF InBatch
  <2> QED
    BY <2>2, <2>3 DEF InFlight, InQueue, InFile, InBatch
<1>7. Untouched'
  BY <1>2, <1>3, <1>5, <1>6 DEF Held, Untouched
<1>8. Bare'
  BY <1>2, <1>5 DEF Held, Bare
<1>9. PassRows'
  BY <1>2 DEF Held, PassRows
<1>10. BootFinds'
  BY <1>2, <1>4 DEF BootFinds
<1> QED
  BY <1>1, <1>7, <1>8, <1>9, <1>10 DEF Held

\* A page commits lines of the file: of rows the log has, and of none with
\* an edit the log has not taken.
LEMMA CommitFacts ==
  ASSUME Typed, Lines, Commit
  PROVE  /\ UNCHANGED <<made, log, logged, appending, file, off, awaiting, dropped, io, more,
                        needs, boot, pass, edits, emitq>>
         /\ drain = "commit" /\ drain' = "ack" /\ DOMAIN batch' = {}
         /\ \A r \in Rows :
              \/ ~Has(batch, r) /\ domain'[r] = domain[r]
              \/ \E i \in DOMAIN batch :
                   /\ i \in off + 1 .. off + awaiting /\ i \in DOMAIN file
                   /\ file[i].whole /\ file[i].row = r /\ batch[i].row = r
                   /\ domain'[r] = file[i].val
                   /\ \A j \in DOMAIN batch : batch[j].row = r => j <= i
<1>1. /\ UNCHANGED <<made, log, logged, appending, file, off, awaiting, dropped, io, more,
                     needs, boot, pass, edits, emitq>>
      /\ drain = "commit" /\ drain' = "ack" /\ batch' = <<>>
      /\ domain' = [r \in Rows |-> IF Has(batch, r) THEN LastOf(batch, r) ELSE domain[r]]
  BY DEF Commit, bounds, engine, journal
<1>2. DOMAIN batch \subseteq DOMAIN file /\ DOMAIN file = 1 .. Len(file) /\ Len(file) \in Nat
  BY FilePlaces DEF Typed, PageTyped
<1>3. ASSUME NEW r \in Rows, Has(batch, r)
      PROVE  \E i \in DOMAIN batch :
               /\ i \in off + 1 .. off + awaiting /\ i \in DOMAIN file
               /\ file[i].whole /\ file[i].row = r /\ batch[i].row = r
               /\ domain'[r] = file[i].val
               /\ \A j \in DOMAIN batch : batch[j].row = r => j <= i
  <2>0. DOMAIN batch \subseteq 0 .. Len(file)
    BY <1>2
  <2>1. PICK i \in DOMAIN batch :
          /\ batch[i].row = r /\ LastOf(batch, r) = batch[i].val
          /\ \A j \in DOMAIN batch : batch[j].row = r => j <= i
    BY <1>2, <1>3, <2>0, LastOfFacts
  <2>2. /\ i \in off + 1 .. off + awaiting /\ file[i].whole
        /\ batch[i].row = file[i].row /\ batch[i].val = file[i].val
    BY <1>1 DEF Typed, PageTyped
  <2>3. domain'[r] = batch[i].val
    BY <1>1, <1>3, <2>1
  <2> QED
    BY <1>2, <2>1, <2>2, <2>3
<1>4. \A r \in Rows : ~Has(batch, r) => domain'[r] = domain[r]
  BY <1>1
<1>5. DOMAIN batch' = {}
  BY <1>1, EmptySeq
<1> QED
  BY <1>1, <1>3, <1>4, <1>5

\* A page overwrites no edit the log has not taken.
LEMMA HeldCommit ==
  ASSUME Typed, Lines, Held, BootAlone, Commit
  PROVE  Held'
<1>1. /\ UNCHANGED <<log, logged, appending, file, pass, edits, emitq>>
      /\ drain = "commit" /\ DOMAIN batch' = {}
  BY CommitFacts
<1>2. Sends'
  BY <1>1, SendsSame DEF Held, SendsBasis
<1>3. \A r : LastEdit(r)' = LastEdit(r) /\ (Unsent(r)' <=> Unsent(r))
  BY <1>1, SameEdits
<1>4. FlightShrinks
  <2>1. \A r : InBatch(r)' => InBatch(r)
    BY <1>1 DEF InBatch
  <2>2. pass'.todo \subseteq pass.todo
    BY <1>1
  <2> QED
    BY <1>1, <2>1, <2>2, SameLines, FlightFrom
<1>5. ASSUME NEW r \in Rows, domain'[r] # domain[r]
      PROVE  InFlight(r) /\ log[r] # 0
  <2>1. PICK i \in DOMAIN file : file[i].row = r
    BY <1>5, CommitFacts
  <2>2. file[i].val <= log[r] /\ file[i].val \in 1 .. made /\ log[r] \in 0 .. made
    BY <2>1, LineNumbers DEF Lines, LogAhead
  <2>3. log[r] # 0
    BY <2>2, LineNumbers
  <2> QED
    BY <2>1, <2>3 DEF InFlight
<1>6. Untouched'
  BY <1>3, <1>4, <1>5 DEF Held, Untouched, FlightShrinks
<1>7. Bare'
  BY <1>1, <1>3, <1>5 DEF Held, Bare
<1>8. PassRows'
  BY <1>1 DEF Held, PassRows
<1>9. BootFinds'
  <2>1. pass.who # "boot"
    BY <1>1 DEF BootAlone
  <2> QED
    BY <1>1, <2>1 DEF BootFinds
<1> QED
  BY <1>2, <1>6, <1>7, <1>8, <1>9 DEF Held

\* A pass begins on the log's view, and touches no row whose edit the log
\* has not taken.
LEMMA BeginFacts ==
  ASSUME Typed, Plain, BeginPass
  PROVE  /\ UNCHANGED <<made, log, logged, appending, file, off, awaiting, dropped, io, drain,
                        batch, more, needs, domain, edits, emitq>>
         /\ pass.who = "none" /\ Unstranded
         /\ pass'.todo = {r \in Rows : log[r] # 0} /\ pass'.view = log
         /\ \/ pass'.who = "drain" /\ drain = "mend" /\ boot' = boot
            \/ pass'.who = "boot" /\ boot = "owed" /\ boot' = "runs" /\ PipelineEmpty
<1>1. /\ UNCHANGED <<made, log, logged, appending, file, off, awaiting, dropped, io, drain,
                     batch, more, needs, domain, edits, emitq>>
      /\ pass.who = "none" /\ Unstranded
  BY DEF BeginPass, Plain, Overlap, bounds, engine, journal, session
<1>2. PICK who \in {"drain", "boot"} :
        /\ who = "drain" => drain = "mend"
        /\ who = "boot" => boot = "owed" /\ PipelineEmpty
        /\ pass' = [who |-> who, todo |-> {r \in Rows : log[r] # 0}, view |-> log]
        /\ boot' = IF who = "boot" THEN "runs" ELSE boot
  BY DEF BeginPass, Plain, Overlap
<1> QED
  BY <1>1, <1>2

\* A pass begins over rows the log has, none of them with such an edit.
LEMMA HeldBegin ==
  ASSUME Typed, Held, Plain, BeginPass
  PROVE  Held'
<1>1. /\ UNCHANGED <<log, logged, appending, file, batch, domain, edits, emitq>>
      /\ Unstranded
      /\ pass'.todo = {r \in Rows : log[r] # 0} /\ pass'.view = log
  BY BeginFacts
<1>2. Sends'
  BY <1>1, SendsSame DEF Held, SendsBasis
<1>3. \A r : LastEdit(r)' = LastEdit(r) /\ (Unsent(r)' <=> Unsent(r))
  BY <1>1, SameEdits
<1>4. ASSUME NEW r \in Rows, Unsent(r)
      PROVE  domain'[r] = LastEdit(r)' /\ ~InFlight(r)'
  <2>1. domain[r] = LastEdit(r) /\ ~InFlight(r)
    BY <1>4 DEF Held, Untouched
  <2>2. r \notin pass'.todo
    BY <1>1, <1>4 DEF Unstranded
  <2>3. ~InFlight(r)'
    BY <1>1, <2>1, <2>2 DEF InFlight
  <2> QED
    BY <1>1, <1>3, <2>1, <2>3
<1>5. Untouched'
  BY <1>3, <1>4 DEF Untouched
<1>6. Bare'
  BY <1>1, <1>3 DEF Held, Bare
<1>7. PassRows'
  BY <1>1 DEF PassRows
<1>8. BootFinds'
  <2>1. ASSUME NEW r \in Rows
        PROVE  IF r \in pass'.todo THEN pass'.view[r] = log[r]
               ELSE \/ domain[r] = pass'.view[r]
                    \/ LastEdit(r) # 0 /\ domain[r] = LastEdit(r) /\ Unsent(r)
    <3>1. CASE log[r] # 0
      BY <1>1, <3>1
    <3>2. CASE log[r] = 0
      <4>1. r \notin pass'.todo /\ pass'.view[r] = 0
        BY <1>1, <3>2
      <4>2. domain[r] = 0 \/ Unsent(r)
        BY <3>2 DEF Held, Bare
      <4>3. Unsent(r) => LastEdit(r) # 0 /\ domain[r] = LastEdit(r)
        BY DEF Held, Untouched, Unsent
      <4> QED
        BY <4>1, <4>2, <4>3
    <3> QED
      BY <3>1, <3>2
  <2> QED
    BY <1>1, <1>3, <2>1 DEF BootFinds
<1> QED
  BY <1>2, <1>5, <1>6, <1>7, <1>8 DEF Held

\* A page of a pass puts its view of one row into the library.
LEMMA PageFacts ==
  ASSUME Typed, PassPage
  PROVE  /\ UNCHANGED <<made, log, logged, appending, file, off, awaiting, dropped, io, drain,
                        batch, more, needs, boot, edits, emitq>>
         /\ \E r \in pass.todo :
              /\ r \in Rows
              /\ domain'[r] = pass.view[r]
              /\ \A q \in Rows : q # r => domain'[q] = domain[q]
              /\ pass'.todo = pass.todo \ {r} /\ pass'.view = pass.view
              /\ pass'.who = pass.who
<1>1. UNCHANGED <<made, log, logged, appending, file, off, awaiting, dropped, io, drain,
                  batch, more, needs, boot, edits, emitq>>
  BY DEF PassPage, bounds, engine, journal
<1>2. PICK r \in pass.todo : /\ domain' = [domain EXCEPT ![r] = pass.view[r]]
                             /\ pass' = [pass EXCEPT !.todo = @ \ {r}]
  BY DEF PassPage
<1>3. /\ domain \in [Rows -> 0 .. made] /\ r \in Rows
      /\ pass \in [who : {"none", "drain", "boot"}, todo : SUBSET Rows, view : [Rows -> 0 .. made]]
  BY DEF Typed, SessionTyped, PassTyped
<1>4. /\ domain'[r] = pass.view[r]
      /\ \A q \in Rows : q # r => domain'[q] = domain[q]
  BY <1>2, <1>3
<1>5. pass'.todo = pass.todo \ {r} /\ pass'.view = pass.view /\ pass'.who = pass.who
  BY <1>2, <1>3
<1> QED
  BY <1>1, <1>3, <1>4, <1>5

\* A pass overwrites no edit the log has not taken.
LEMMA HeldPage ==
  ASSUME Typed, Held, PassPage
  PROVE  Held'
<1>1. UNCHANGED <<log, logged, appending, file, batch, edits, emitq>>
  BY PageFacts
<1>2. PICK r \in pass.todo :
        /\ r \in Rows
        /\ domain'[r] = pass.view[r]
        /\ \A q \in Rows : q # r => domain'[q] = domain[q]
        /\ pass'.todo = pass.todo \ {r} /\ pass'.view = pass.view
        /\ pass'.who = pass.who
  BY PageFacts
<1>3. Sends'
  BY <1>1, SendsSame DEF Held, SendsBasis
<1>4. \A q : LastEdit(q)' = LastEdit(q) /\ (Unsent(q)' <=> Unsent(q))
  BY <1>1, SameEdits
<1>5. \A q : InFlight(q)' => InFlight(q)
  BY <1>1, <1>2 DEF InFlight
<1>6. InFlight(r) /\ pass.view[r] # 0 /\ log[r] # 0
  BY <1>2 DEF Held, PassRows, InFlight
<1>7. Untouched'
  BY <1>2, <1>4, <1>5, <1>6 DEF Held, Untouched
<1>8. Bare'
  BY <1>1, <1>2, <1>4, <1>6 DEF Held, Bare
<1>9. PassRows'
  BY <1>1, <1>2 DEF Held, PassRows
<1>10. BootFinds'
  BY <1>1, <1>2, <1>4 DEF Held, BootFinds
<1> QED
  BY <1>3, <1>7, <1>8, <1>9, <1>10 DEF Held

\* A pass that ends re-emits edits only.
LEMMA HeldEnd ==
  ASSUME Typed, Held, BootAlone, EndPass
  PROVE  Held'
<1>1. UNCHANGED <<log, logged, appending, file, batch, domain, edits>> /\ pass' = NoPass
  BY DEF EndPass, engine, journal
<1>2. Sends'
  BY SendsEndPass DEF Held
<1>3. \A r : LastEdit(r)' = LastEdit(r) /\ (Unsent(r)' <=> Unsent(r))
  BY <1>1, SameEdits
<1>4. \A r : InFlight(r)' => InFlight(r)
  BY <1>1 DEF InFlight, NoPass
<1>5. Untouched' /\ Bare'
  BY <1>1, <1>3, <1>4 DEF Held, Untouched, Bare
<1>6. \A r \in Rows : pass'.view[r] = 0 /\ r \notin pass'.todo
  BY <1>1 DEF NoPass
<1>7. PassRows' /\ BootFinds'
  BY <1>1, <1>6 DEF PassRows, BootFinds, NoPass
<1> QED
  BY <1>2, <1>5, <1>7 DEF Held

\* An edit shows, and nothing of its row is in flight.
LEMMA HeldEdit ==
  ASSUME Typed, Held, Plain, NEW r \in Rows, Edit(r)
  PROVE  Held'
<1>1. /\ UNCHANGED <<log, logged, appending, file, batch, pass>>
      /\ domain' = [domain EXCEPT ![r] = made'] /\ domain \in [Rows -> 0 .. made]
      /\ ~InFlight(r) /\ made' \in 1 .. MaxWrites
  BY EditFacts
<1>2. Sends'
  BY SendsEdit DEF Held
<1>3. /\ LastEdit(r)' = made' /\ Unsent(r)'
      /\ \A q \in Rows : q # r => LastEdit(q)' = LastEdit(q) /\ (Unsent(q)' <=> Unsent(q))
  BY EditEdits DEF Held
<1>4. domain'[r] = made' /\ \A q \in Rows : q # r => domain'[q] = domain[q]
  BY <1>1
<1>5. \A q : InFlight(q)' <=> InFlight(q)
  BY <1>1 DEF InFlight
<1>6. Untouched'
  <2> SUFFICES ASSUME NEW q \in Rows, Unsent(q)'
               PROVE  domain'[q] = LastEdit(q)' /\ ~InFlight(q)'
    BY DEF Untouched
  <2>1. CASE q = r
    BY <1>1, <1>3, <1>4, <1>5, <2>1
  <2>2. CASE q # r
    BY <1>3, <1>4, <1>5, <2>2 DEF Held, Untouched
  <2> QED
    BY <2>1, <2>2
<1>7. Bare'
  BY <1>1, <1>3, <1>4 DEF Held, Bare
<1>8. PassRows'
  BY <1>1 DEF Held, PassRows
<1>9. BootFinds'
  <2> SUFFICES ASSUME pass.who = "boot", NEW q \in Rows
               PROVE  IF q \in pass.todo THEN pass.view[q] = log[q]
                      ELSE \/ domain'[q] = pass.view[q]
                           \/ /\ LastEdit(q)' # 0 /\ domain'[q] = LastEdit(q)'
                              /\ Unsent(q)' \/ log[q] = LastEdit(q)'
    BY <1>1 DEF BootFinds
  <2>1. CASE q = r
    <3>1. r \notin pass.todo
      BY <1>1 DEF InFlight
    <3> QED
      BY <1>1, <1>3, <1>4, <2>1, <3>1
  <2>2. CASE q # r
    BY <1>3, <1>4, <2>2 DEF Held, BootFinds
  <2> QED
    BY <2>1, <2>2
<1> QED
  BY <1>2, <1>6, <1>7, <1>8, <1>9 DEF Held

\* An emission leaves the library alone.
LEMMA HeldEmit ==
  ASSUME Typed, Held, Emit \/ EmitFails
  PROVE  Held'
<1>1. UNCHANGED <<file, appending, batch, pass, domain, edits>>
  BY EmissionFrame
<1>2. Sends'
  BY SendsEmit DEF Held
<1>3. \A r \in Rows : Emitted(r)
  BY EmissionFacts DEF Held
<1>4. \A r : InFlight(r)' <=> InFlight(r)
  BY <1>1 DEF InFlight
<1>5. Untouched'
  BY <1>1, <1>3, <1>4 DEF Held, Untouched, Emitted
<1>6. Bare'
  <2> SUFFICES ASSUME NEW r \in Rows, log'[r] = 0
               PROVE  domain[r] = 0 \/ Unsent(r)'
    BY <1>1 DEF Bare
  <2>1. log[r] = 0 /\ (Unsent(r) => Unsent(r)' \/ log'[r] = LastEdit(r))
    BY <1>3 DEF Emitted
  <2>2. domain[r] = 0 \/ Unsent(r)
    BY <2>1 DEF Held, Bare
  <2> QED
    BY <2>1, <2>2 DEF Unsent
<1>7. PassRows'
  BY <1>1, <1>3 DEF Held, PassRows, Emitted
<1>8. BootFinds'
  <2> SUFFICES ASSUME pass.who = "boot", NEW r \in Rows
               PROVE  IF r \in pass.todo THEN pass.view[r] = log'[r]
                      ELSE \/ domain[r] = pass.view[r]
                           \/ /\ LastEdit(r)' # 0 /\ domain[r] = LastEdit(r)'
                              /\ Unsent(r)' \/ log'[r] = LastEdit(r)'
    BY <1>1 DEF BootFinds
  <2>1. Emitted(r)
    BY <1>3
  <2>2. CASE r \in pass.todo
    <3>1. InFlight(r)
      BY <2>2 DEF InFlight
    <3>2. ~Unsent(r)
      BY <3>1 DEF Held, Untouched
    <3> QED
      BY <2>1, <2>2, <3>2 DEF Held, BootFinds, Emitted
  <2>3. CASE r \notin pass.todo
    <3>1. \/ domain[r] = pass.view[r]
          \/ LastEdit(r) # 0 /\ domain[r] = LastEdit(r) /\ (Unsent(r) \/ log[r] = LastEdit(r))
      BY <2>3 DEF Held, BootFinds
    <3> QED
      BY <2>1, <2>3, <3>1 DEF Emitted
  <2> QED
    BY <2>2, <2>3
<1> QED
  BY <1>2, <1>5, <1>6, <1>7, <1>8 DEF Held

\* Every step keeps the library's side.
LEMMA HeldStep ==
  ASSUME Typed, Lines, Held, BootAlone, Plain, [Next]_vars
  PROVE  Held'
<1>1. \/ \E rows \in SUBSET Rows \ {{}} : Apply(rows)
      \/ Rest \/ Commit \/ BeginPass \/ PassPage \/ EndPass
      \/ \E r \in Rows : Edit(r)
      \/ Emit \/ EmitFails
  BY DEF Next, Rest, Advancing, Draining, Passing
<1>2. ASSUME NEW rows \in SUBSET Rows \ {{}}, Apply(rows)
      PROVE  Held'
  BY <1>2, HeldApply
<1>3. ASSUME NEW r \in Rows, Edit(r)
      PROVE  Held'
  BY <1>3, HeldEdit
<1> QED
  BY <1>1, <1>2, <1>3, HeldRest, HeldCommit, HeldBegin, HeldPage, HeldEnd, HeldEmit

-----------------------------------------------------------------------------
(* The boot pass runs alone, and the lines stay in order.                  *)

\* The boot pass stays beside an empty pipeline: no delta joins it.
LEMMA BootAloneStep ==
  ASSUME Typed, BootAlone, Plain, [Next]_vars
  PROVE  BootAlone'
<1>1. ASSUME pass'.who = "boot", pass.who # "boot"
      PROVE  BootAlone'
  <2>1. BeginPass
    <3>1. CASE UNCHANGED vars
      BY <1>1, <3>1 DEF vars, renderer
    <3>2. ASSUME NEW rows \in SUBSET Rows, Apply(rows)
          PROVE  FALSE
      BY <1>1, <3>2, ApplyFacts
    <3>3. ASSUME NEW r \in Rows, Edit(r)
          PROVE  FALSE
      BY <1>1, <3>3 DEF Edit, renderer
    <3>4. ASSUME Rest
          PROVE  FALSE
      BY <1>1, <3>4, RestFacts DEF RestFrame, NoPass
    <3>5. ASSUME Emit \/ EmitFails
          PROVE  FALSE
      BY <1>1, <3>5, EmissionFrame
    <3>6. ASSUME Commit \/ PassPage \/ EndPass
          PROVE  FALSE
      <4>1. ASSUME PassPage
            PROVE  FALSE
        BY <1>1, <4>1, PageFacts
      <4>2. ASSUME Commit \/ EndPass
            PROVE  FALSE
        BY <1>1, <4>2 DEF Commit, EndPass, NoPass
      <4> QED
        BY <3>6, <4>1, <4>2
    <3> QED
      BY <3>1, <3>2, <3>3, <3>4, <3>5, <3>6 DEF Next, Rest, Advancing, Draining, Passing
  <2>2. PipelineEmpty /\ UNCHANGED <<appending, file, off, io, drain>>
    BY <1>1, <2>1, BeginFacts DEF Typed, PassTyped
  <2>3. drain = "idle" /\ io.step = "idle"
    BY <2>2 DEF Typed, AdvanceTyped, PipelineEmpty
  <2> QED
    BY <2>2, <2>3 DEF BootAlone, PipelineEmpty
<1>2. ASSUME pass'.who = "boot", pass.who = "boot"
      PROVE  BootAlone'
  <2>1. /\ appending = <<>> /\ off = Len(file) /\ io.step = "idle"
        /\ drain \in {"idle", "pull", "next", "mend"}
    BY <1>2 DEF BootAlone
  <2>2. ASSUME NEW rows \in SUBSET Rows, Apply(rows)
        PROVE  FALSE
    BY <1>2, <2>2 DEF Apply, Plain, Overlap
  <2>3. ASSUME Appended \/ AppendFails \/ Advance \/ ZeroOffset \/ SwapFile \/ Skipped \/ Acked
               \/ AdvanceFails \/ UtilityDies \/ Boot \/ Commit \/ CommitFails \/ Ack
        PROVE  FALSE
    BY <2>1, <2>3 DEF Appended, AppendFails, Advance, ZeroOffset, SwapFile, Skipped, Acked,
                      AdvanceFails, UtilityDies, Boot, Commit, CommitFails, Ack
  <2>4. ASSUME BeginPass \/ EndPass \/ PassFails \/ RendererDies
        PROVE  FALSE
    BY <1>2, <2>4 DEF BeginPass, EndPass, PassFails, RendererDies, NoPass
  <2>5. CASE Pull
    <3>1. PageEnd = off
      BY <2>1, PageEndFacts, FilePlaces
    <3>2. Served = {}
      BY <3>1, OutcomesFacts, FilePlaces
    <3>3. drain' = "next" /\ UNCHANGED <<appending, file, off, io>>
      BY <2>5, <3>1, <3>2, FilePlaces DEF Pull
    <3> QED
      BY <2>1, <3>3 DEF BootAlone
  <2>6. CASE Woken \/ Loop
    <3>1. UNCHANGED <<appending, file, off, io>> /\ drain' \in {"idle", "pull", "mend"}
      BY <2>6 DEF Woken, Loop, journal
    <3> QED
      BY <2>1, <3>1 DEF BootAlone
  <2>7. CASE \/ PassPage \/ Emit \/ EmitFails \/ (\E r \in Rows : Edit(r)) \/ UNCHANGED vars
    <3>1. UNCHANGED <<appending, file, off, io, drain>>
      BY <2>7 DEF PassPage, Emit, EmitFails, Edit, vars, journal, renderer
    <3> QED
      BY <2>1, <3>1 DEF BootAlone
  <2> QED
    BY <2>2, <2>3, <2>4, <2>5, <2>6, <2>7 DEF Next, Advancing, Draining, Passing
<1>3. CASE pass'.who # "boot"
  BY <1>3 DEF BootAlone
<1> QED
  BY <1>1, <1>2, <1>3

\* Every step keeps the order of the lines.
LEMMA LinesStep ==
  ASSUME Typed, Lines, Held, [Next]_vars
  PROVE  Lines'
<1>1. ASSUME NEW rows \in SUBSET Rows, Apply(rows)
      PROVE  Lines'
  BY <1>1, LinesApply
<1>2. ASSUME Appended \/ AppendFails \/ UtilityDies
      PROVE  Lines'
  BY <1>2, LinesAppends, AppendedAppends, AppendFailsAppends, UtilityDiesAppends
<1>3. ASSUME SwapFile
      PROVE  Lines'
  BY <1>3, LinesSwap
<1>4. ASSUME Emit \/ EmitFails
      PROVE  Lines'
  BY <1>4, LinesEmit DEF Held
<1>5. ASSUME \/ Advance \/ ZeroOffset \/ Skipped \/ Acked \/ AdvanceFails \/ Boot \/ Woken \/ Pull
             \/ Commit \/ Ack \/ Loop \/ CommitFails \/ BeginPass \/ PassPage \/ EndPass
             \/ PassFails \/ RendererDies \/ (\E r \in Rows : Edit(r)) \/ UNCHANGED vars
      PROVE  Lines'
  <2>1. CASE Advance \/ ZeroOffset \/ Skipped \/ Acked \/ AdvanceFails \/ Boot \/ Woken \/ Pull
    BY <2>1, LinesSame DEF Advance, ZeroOffset, Skipped, Acked, AdvanceFails, Boot, Woken, Pull,
                           engine, journal
  <2>2. CASE Commit \/ Ack \/ Loop \/ CommitFails \/ BeginPass \/ PassPage \/ EndPass
    BY <2>2, LinesSame DEF Commit, Ack, Loop, CommitFails, BeginPass, PassPage, EndPass,
                           engine, journal
  <2>3. CASE PassFails \/ RendererDies \/ (\E r \in Rows : Edit(r)) \/ UNCHANGED vars
    BY <2>3, LinesSame DEF PassFails, RendererDies, Edit, vars, engine, journal
  <2> QED
    BY <1>5, <2>1, <2>2, <2>3
<1> QED
  BY <1>1, <1>2, <1>3, <1>4, <1>5 DEF Next, Advancing, Draining, Passing

-----------------------------------------------------------------------------
(* What is on its way to a row, step by step.                              *)

\* A pass owed for everything owes each row.
LEMMA OwedByPass ==
  ASSUME Lossy'
  PROVE  OnItsWay'
BY DEF OnItsWay, Shows, Reaches, ViewHolds

\* Between pages there is no page to owe.
LEMMA NoPageUnderWay ==
  ASSUME drain' \in {"down", "idle", "pull", "mend"}
  PROVE  UnderWay'
BY DEF UnderWay, ReachesBehind, PageServed, PageShown

\* A step that moves no line, seen from where it leaves the offset, keeps
\* what is on its way.
LEMMA OnItsWaySame ==
  ASSUME OnItsWay, log' = log, NEW n, NEW m, Start = n, Start' = m,
         \A r, v : Left(r, v, m)' <=> Left(r, v, n),
         \A r \in Rows : Unsent(r) => Unsent(r)',
         \A r \in Rows : domain'[r] = domain[r] \/ Unsent(r)' \/ AnyLeft(r, n),
         Lossy => Lossy',
         drain = "mend" /\ pass.who # "drain" => drain' = "mend" /\ pass'.who # "drain",
         pass'.todo = pass.todo, \A r \in pass.todo : pass'.view[r] = pass.view[r]
  PROVE  OnItsWay'
<1>1. \A r : AnyLeft(r, m)' <=> AnyLeft(r, n)
  BY DEF AnyLeft
<1>2. Shows'
  <2> SUFFICES ASSUME NEW r \in Rows, ~Lossy', ~Unsent(r)', domain'[r] # log[r],
                      ~(drain' = "mend" /\ pass'.who # "drain"),
                      ~(r \in pass.todo /\ pass'.view[r] = log[r])
               PROVE  AnyLeft(r, m)'
    BY DEF Shows
  <2> QED
    BY <1>1 DEF OnItsWay, Shows
<1>3. Reaches'
  <2> SUFFICES ASSUME NEW r \in Rows, AnyLeft(r, m)', ~Lossy'
               PROVE  Left(r, log[r], m)'
    BY DEF Reaches
  <2>1. Left(r, log[r], n)
    BY <1>1 DEF OnItsWay, Reaches
  <2> QED
    BY <2>1
<1>4. ViewHolds'
  <2> SUFFICES ASSUME NEW r \in pass.todo, pass.view[r] # log[r], ~Lossy'
               PROVE  AnyLeft(r, m)'
    BY DEF ViewHolds
  <2> QED
    BY <1>1 DEF OnItsWay, ViewHolds
<1> QED
  BY <1>2, <1>3, <1>4 DEF OnItsWay

Answering == {"commit", "ack", "acking", "skip", "next"}

\* ReachesBehind survives a step that keeps what is past the page.
LEMMA BehindSame ==
  ASSUME ReachesBehind, UNCHANGED <<log, more>>, NEW p, NEW q, PageTo = p, PageTo' = q,
         \A r, v : Left(r, v, q)' <=> Left(r, v, p),
         drain' \in Answering => drain \in Answering,
         dropped /\ drain # "skip" => dropped' /\ drain' # "skip",
         boot \in {"drain", "owed"} => boot' \in {"drain", "owed"}
  PROVE  ReachesBehind'
<1>1. \A r : AnyLeft(r, q)' <=> AnyLeft(r, p)
  BY DEF AnyLeft
<1> SUFFICES ASSUME drain' \in Answering, ~more, NEW r \in Rows, AnyLeft(r, q)'
             PROVE  \/ Left(r, log[r], q)' \/ (dropped' /\ drain' # "skip")
                    \/ boot' \in {"drain", "owed"}
  BY DEF ReachesBehind, Answering
<1>2. \/ Left(r, log[r], p) \/ (dropped /\ drain # "skip")
      \/ boot \in {"drain", "owed"}
  BY <1>1 DEF ReachesBehind, Answering
<1>3. Left(r, log[r], p) => Left(r, log[r], q)'
  OBVIOUS
<1> QED
  BY <1>2, <1>3

\* The page under way ends inside the file.
LEMMA PageToFacts ==
  ASSUME Typed
  PROVE  PageTo \in 0 .. Len(file) /\ off \in Nat /\ Len(file) \in Nat
<1>1. /\ Len(file) \in Nat /\ off \in 0 .. Len(file) /\ awaiting \in Nat
      /\ io.to \in Nat /\ (io.step \in {"advance", "zero", "copy"} => io.to <= Len(file))
      /\ drain \in {"commit", "ack"} => off + awaiting <= Len(file)
  BY FilePlaces DEF Typed, JournalTyped, AdvanceTyped
<1> QED
  BY <1>1 DEF PageTo

\* So do PageServed and PageShown, when the page and its rows are kept.
LEMMA PageSame ==
  ASSUME Typed, PageServed, PageShown, UNCHANGED <<log, off, awaiting, drain, batch>>,
         io'.step = io.step, PageTo' = PageTo, needs => needs',
         \A i \in DOMAIN file : i \in DOMAIN file' /\ file'[i] = file[i],
         \A r \in Rows : domain'[r] = domain[r] \/ ~InFile(r)
  PROVE  PageServed' /\ PageShown'
<1>1. /\ DOMAIN file = 1 .. Len(file) /\ Len(file) \in Nat /\ off \in Nat
      /\ PageTo \in 0 .. Len(file)
  BY FilePlaces, PageToFacts
<1>2. PageServed'
  <2> SUFFICES ASSUME drain = "commit", NEW i \in off + 1 .. off + awaiting,
                      file'[i].whole, i \notin DOMAIN batch
               PROVE  needs'
    BY DEF PageServed
  <2>1. i \in DOMAIN file
    BY <1>1 DEF Typed, AdvanceTyped, JournalTyped
  <2> QED
    BY <2>1 DEF PageServed
<1>3. PageShown'
  <2> SUFFICES ASSUME drain = "ack" \/ (drain = "acking" /\ io.step = "advance"),
                      NEW i \in off + 1 .. PageTo,
                      file'[i].whole, file'[i].val = log[file'[i].row]
               PROVE  needs' \/ domain'[file'[i].row] = log[file'[i].row]
    BY DEF PageShown
  <2>1. i \in DOMAIN file
    BY <1>1
  <2>2. file'[i] = file[i] /\ InFile(file[i].row)
    BY <2>1 DEF InFile
  <2>3. file[i].row \in Rows
    BY <2>1, LineNumbers
  <2>4. needs \/ domain[file[i].row] = log[file[i].row]
    BY <2>2 DEF PageShown
  <2> QED
    BY <2>2, <2>3, <2>4
<1> QED
  BY <1>2, <1>3

\* Outside a page there is nothing to show.
LEMMA NoPageShown ==
  ASSUME drain' \notin {"commit", "ack"}, ~(drain' = "acking" /\ io'.step = "advance")
  PROVE  PageServed' /\ PageShown'
BY DEF PageServed, PageShown

\* A delta's outcome is on its way the moment the log shows it.
LEMMA FlowsApply ==
  ASSUME Typed, Lines, Held, Flows, NEW rows \in SUBSET Rows, Apply(rows)
  PROVE  Flows'
<1>1. UNCHANGED <<file, off, awaiting, dropped, io, drain, batch, more, needs, boot, pass, domain>>
  BY ApplyFacts
<1>2. \A r, v, n : Left(r, v, n)' <=> Left(r, v, n) \/ (r \in rows /\ v = made')
  BY ApplyLines DEF Left
<1>3. /\ \A r \in Rows : log'[r] = IF r \in rows THEN made' ELSE log[r]
      /\ made' \in Nat /\ made \in Nat /\ made' = made + 1
  BY ApplyFacts
<1>4. \A r \in Rows : Unsent(r)' <=> Unsent(r)
  BY ApplyUnsent DEF Held
<1>5. PICK n : n = Start
  OBVIOUS
<1>6. PICK p : p = PageTo
  OBVIOUS
<1>7. Start' = n /\ PageTo' = p /\ (Lossy' <=> Lossy)
  BY <1>1, <1>5, <1>6 DEF Start, PageTo, Lossy
<1>8. ASSUME NEW r \in rows, NEW m
      PROVE  AnyLeft(r, m)' /\ Left(r, log[r], m)'
  <2>1. log'[r] = made'
    BY <1>3
  <2>2. Left(r, made, m)'
    BY <1>2
  <2> QED
    BY <1>3, <2>1, <2>2 DEF AnyLeft
<1>9. ASSUME NEW r \in Rows, r \notin rows, NEW m
      PROVE  /\ AnyLeft(r, m)' <=> AnyLeft(r, m)
             /\ Left(r, log[r], m)' <=> Left(r, log[r], m)
  <2>1. log'[r] = log[r]
    BY <1>3, <1>9
  <2>2. \A v : Left(r, v, m)' <=> Left(r, v, m)
    BY <1>2, <1>9
  <2> QED
    BY <2>1, <2>2 DEF AnyLeft
<1>10. Shows'
  <2> SUFFICES ASSUME NEW r \in Rows
               PROVE  \/ Lossy' \/ Unsent(r)' \/ domain[r] = log'[r]
                      \/ drain = "mend" /\ pass.who # "drain"
                      \/ r \in pass.todo /\ pass.view[r] = log'[r]
                      \/ AnyLeft(r, n)'
    BY <1>1, <1>7 DEF Shows
  <2>1. CASE r \in rows
    BY <1>8, <2>1
  <2>2. CASE r \notin rows
    BY <1>3, <1>4, <1>5, <1>7, <1>9, <2>2 DEF Flows, OnItsWay, Shows
  <2> QED
    BY <2>1, <2>2
<1>11. Reaches'
  <2> SUFFICES ASSUME NEW r \in Rows, AnyLeft(r, n)'
               PROVE  Left(r, log[r], n)' \/ Lossy'
    BY <1>7 DEF Reaches
  <2>1. CASE r \in rows
    BY <1>8, <2>1
  <2>2. CASE r \notin rows
    BY <1>5, <1>7, <1>9, <2>2 DEF Flows, OnItsWay, Reaches
  <2> QED
    BY <2>1, <2>2
<1>12. ViewHolds'
  <2> SUFFICES ASSUME NEW r \in pass.todo
               PROVE  pass.view[r] = log'[r] \/ AnyLeft(r, n)' \/ Lossy'
    BY <1>1, <1>7 DEF ViewHolds
  <2>0. r \in Rows
    BY DEF Typed, PassTyped
  <2>1. CASE r \in rows
    BY <1>8, <2>1
  <2>2. CASE r \notin rows
    BY <1>3, <1>5, <1>7, <1>9, <2>0, <2>2 DEF Flows, OnItsWay, ViewHolds
  <2> QED
    BY <2>1, <2>2
<1>13. ReachesBehind'
  <2> SUFFICES ASSUME drain \in {"commit", "ack", "acking", "skip", "next"}, ~more,
                      NEW r \in Rows, AnyLeft(r, p)'
               PROVE  \/ Left(r, log[r], p)' \/ (dropped /\ drain # "skip")
                      \/ boot \in {"drain", "owed"}
    BY <1>1, <1>7 DEF ReachesBehind
  <2>1. CASE r \in rows
    BY <1>8, <2>1
  <2>2. CASE r \notin rows
    <3>1. AnyLeft(r, p)
      BY <1>9, <2>2
    <3>2. \/ Left(r, log[r], p) \/ (dropped /\ drain # "skip")
          \/ boot \in {"drain", "owed"}
      BY <1>6, <3>1 DEF Flows, UnderWay, ReachesBehind
    <3> QED
      BY <1>9, <2>2, <3>2
  <2> QED
    BY <2>1, <2>2
<1>14. PageServed'
  BY <1>1 DEF Flows, UnderWay, PageServed
<1>15. PageShown'
  <2> SUFFICES ASSUME drain = "ack" \/ (drain = "acking" /\ io.step = "advance"),
                      NEW i \in off + 1 .. p,
                      file[i].whole, file[i].val = log'[file[i].row]
               PROVE  needs \/ domain[file[i].row] = log'[file[i].row]
    BY <1>1, <1>7 DEF PageShown
  <2>1. i \in DOMAIN file
    <3>1. p \in Nat /\ p <= Len(file)
      BY <1>6, FilePlaces DEF Typed, AdvanceTyped, JournalTyped, PageTo
    <3> QED
      BY <3>1, FilePlaces
  <2>2. file[i].row \in Rows /\ file[i].val \in 1 .. made
    BY <2>1, LineNumbers
  <2>3. file[i].row \notin rows
    BY <1>3, <2>2
  <2>4. log'[file[i].row] = log[file[i].row]
    BY <1>3, <2>2, <2>3
  <2> QED
    BY <1>6, <2>4 DEF Flows, UnderWay, PageShown
<1> QED
  BY <1>10, <1>11, <1>12, <1>13, <1>14, <1>15 DEF Flows, OnItsWay, UnderWay

\* Where nothing of the journal is under way.
LEMMA StartFacts ==
  ASSUME Typed
  PROVE  /\ io.step # "copy" => Start = off
         /\ io.step = "copy" => Start = io.to
         /\ drain \in {"idle", "commit", "ack", "next", "mend"} => io.step = "idle"
         /\ Start \in 0 .. Len(file)
<1>1. /\ Len(file) \in Nat /\ off \in 0 .. Len(file) /\ io.to \in Nat
      /\ io.step \in {"advance", "zero", "copy"} => io.to <= Len(file)
  BY FilePlaces DEF Typed, AdvanceTyped
<1> QED
  BY <1>1 DEF Start, Typed, AdvanceTyped

\* An append moves lines within what is on its way.
LEMMA FlowsAppended ==
  ASSUME Typed, Lines, Flows, Appended
  PROVE  Flows'
<1>1. /\ UNCHANGED <<log, logged, edits, domain, off, awaiting, dropped, io, drain, batch, more,
                     needs, boot, pass>>
      /\ io.step = "idle"
  BY DEF Appended, AppendEnds, engine, session
<1>2. \A r, v : \A n \in 0 .. Len(file) : Left(r, v, n)' <=> Left(r, v, n)
  BY AppendedLines
<1>3. PICK n : n = Start
  OBVIOUS
<1>4. PICK p : p = PageTo
  OBVIOUS
<1>5. /\ Start' = n /\ PageTo' = p /\ (Lossy' <=> Lossy)
      /\ n \in 0 .. Len(file) /\ p \in 0 .. Len(file)
  BY <1>1, <1>3, <1>4, StartFacts, PageToFacts DEF Start, PageTo, Lossy
<1>6. \A r : Unsent(r)' <=> Unsent(r)
  BY <1>1, SameEdits
<1>7. OnItsWay'
  BY <1>1, <1>2, <1>3, <1>5, <1>6, OnItsWaySame DEF Flows
<1>8. ReachesBehind'
  BY <1>1, <1>2, <1>4, <1>5, BehindSame DEF Flows, UnderWay
<1>9. \A i \in DOMAIN file : i \in DOMAIN file' /\ file'[i] = file[i]
  BY AppendedAppends DEF Appends, Grown
<1>10. PageServed' /\ PageShown'
  BY <1>1, <1>4, <1>5, <1>9, PageSame DEF Flows, UnderWay
<1> QED
  BY <1>7, <1>8, <1>10 DEF Flows, UnderWay

\* A failed append is reported.
LEMMA FlowsAppendFails ==
  ASSUME Typed, Flows, AppendFails
  PROVE  Flows'
<1>1. /\ UNCHANGED <<log, domain, off, awaiting, io, drain, batch, more, needs, boot, pass>>
      /\ io.step = "idle" /\ dropped' = TRUE
  BY DEF AppendFails, AppendEnds, engine, session
<1>2. OnItsWay'
  BY <1>1, OwedByPass DEF Lossy
<1>3. ReachesBehind'
  BY <1>1 DEF Typed, AdvanceTyped, ReachesBehind
<1>4. \A i \in DOMAIN file : i \in DOMAIN file' /\ file'[i] = file[i]
  BY AppendFailsAppends DEF Appends, Grown
<1>5. PageTo' = PageTo
  BY <1>1 DEF PageTo
<1>6. PageServed' /\ PageShown'
  BY <1>1, <1>4, <1>5, PageSame DEF Flows, UnderWay
<1> QED
  BY <1>2, <1>3, <1>6 DEF Flows, UnderWay

\* The renderer is down, or starts: its boot pass is owed.
LEMMA FlowsDown ==
  ASSUME Typed, UtilityDies \/ Boot \/ RendererDies
  PROVE  Flows'
<1>1. /\ drain' \in {"down", "pull"}
      /\ drain' = "down" \/ boot' = "drain"
  BY DEF UtilityDies, Boot, RendererDies, renderer
<1> QED
  BY <1>1, OwedByPass, NoPageUnderWay DEF Lossy, Flows

\* What a line of a row says is no later than what the log says.
LEMMA LeftBounds ==
  ASSUME Typed, Lines, NEW r, NEW v, NEW n, Left(r, v, n)
  PROVE  r \in Rows /\ v \in 1 .. made /\ v <= log[r] /\ AnyLeft(r, n)
<1>1. CASE Beyond(r, v, n)
  <2>1. PICK i \in DOMAIN file : file[i].row = r /\ file[i].val = v
    BY <1>1 DEF Beyond
  <2>2. r \in Rows /\ v \in 1 .. made /\ v <= log[r]
    BY <2>1, LineNumbers DEF Lines, LogAhead
  <2>3. v \in Nat
    BY <2>2, LineNumbers
  <2> QED
    BY <2>2, <2>3 DEF AnyLeft
<1>2. CASE Queue(r, v)
  <2>1. PICK i \in DOMAIN appending : \E k \in DOMAIN appending[i] :
          appending[i][k].row = r /\ appending[i][k].val = v
    BY <1>2 DEF Queue
  <2>2. r \in Rows /\ v \in 1 .. made /\ v <= log[r]
    BY <2>1, LineNumbers DEF Lines, LogAhead
  <2>3. v \in Nat
    BY <2>2, LineNumbers
  <2> QED
    BY <2>2, <2>3 DEF AnyLeft
<1> QED
  BY <1>1, <1>2 DEF Left

\* A line that stands at or before a point is no later than those behind it.
LEMMA LeftOrdered ==
  ASSUME Typed, Lines, NEW i \in DOMAIN file, NEW m \in Nat, i <= m,
         NEW r, NEW w, Left(r, w, m)
  PROVE  file[i].val <= w
<1>1. DOMAIN file \subseteq Nat
  BY FilePlaces
<1>2. CASE Beyond(r, w, m)
  <2>1. PICK j \in DOMAIN file : m < j /\ file[j].val = w
    BY <1>2 DEF Beyond
  <2>2. i <= j
    BY <1>1, <2>1
  <2> QED
    BY <2>1, <2>2 DEF Lines, FileOrdered
<1>3. CASE Queue(r, w)
  BY <1>3 DEF Lines, FileFirst, Queue
<1> QED
  BY <1>2, <1>3 DEF Left

\* A point further on has the log's value ahead of it, if it has any.
LEMMA LeftBehind ==
  ASSUME Typed, Lines, NEW r, NEW n, NEW m \in Nat,
         Left(r, log[r], n), AnyLeft(r, m)
  PROVE  Left(r, log[r], m)
<1>1. CASE Queue(r, log[r])
  BY <1>1 DEF Left
<1>2. CASE Beyond(r, log[r], n)
  <2>1. PICK i \in DOMAIN file :
          file[i].whole /\ file[i].row = r /\ file[i].val = log[r]
    BY <1>2 DEF Beyond
  <2>2. i \in Nat
    BY FilePlaces
  <2>3. CASE m < i
    BY <2>1, <2>3 DEF Left, Beyond
  <2>4. CASE i <= m
    <3>1. PICK w \in Nat : Left(r, w, m)
      BY DEF AnyLeft
    <3>2. file[i].val <= w
      BY <2>4, <3>1, LeftOrdered
    <3>3. w <= log[r] /\ r \in Rows
      BY <3>1, LeftBounds
    <3>4. log[r] \in 0 .. made /\ made \in Nat
      BY <3>3, LineNumbers
    <3>5. w = log[r]
      BY <2>1, <3>2, <3>3, <3>4
    <3> QED
      BY <3>1, <3>5
  <2> QED
    BY <2>2, <2>3, <2>4
<1> QED
  BY <1>1, <1>2 DEF Left

\* No pass runs beside an advance.
LEMMA NoPassBesideAdvance ==
  ASSUME Typed, BootAlone, io.step # "idle"
  PROVE  pass.who = "none" /\ pass.todo = {}
BY AdvancingDrain DEF BootAlone, Typed, PassTyped

\* The offset moves past a page that was committed, or is to be mended.
LEMMA FlowsAdvance ==
  ASSUME Typed, Lines, Held, BootAlone, Forward, Flows, Advance
  PROVE  Flows'
<1>1. /\ io.step = "advance" /\ off' = io.to /\ io'.step \in {"zero", "done"}
      /\ UNCHANGED <<log, logged, appending, file, awaiting, dropped, drain, batch, more, needs,
                     boot, pass, domain, edits>>
  BY DEF Advance, Typed, AdvanceTyped, engine, renderer, session
<1>2. /\ off \in Nat /\ io.to \in Nat /\ off <= io.to /\ io.to <= Len(file)
      /\ DOMAIN file = 1 .. Len(file)
  BY <1>1, FilePlaces DEF Typed, AdvanceTyped, Forward
<1>3. PICK n : n = off
  OBVIOUS
<1>4. PICK p : p = io.to
  OBVIOUS
<1>5. /\ drain \in {"down", "pull", "skip", "acking"}
      /\ drain = "pull" => boot = "drain"
  BY <1>1, AdvancingDrain
<1>6. /\ Start = n /\ Start' = p /\ PageTo = p /\ PageTo' = p /\ (Lossy' <=> Lossy)
  BY <1>1, <1>3, <1>4, <1>5 DEF Start, PageTo, Lossy
<1>7. \A r, v, m : Left(r, v, m)' <=> Left(r, v, m)
  BY <1>1, SameLines
<1>8. UnderWay'
  <2>1. ReachesBehind'
    BY <1>1, <1>6, <1>7, BehindSame DEF Flows, UnderWay
  <2>2. PageServed' /\ PageShown'
    BY <1>1, <1>5, NoPageShown
  <2> QED
    BY <2>1, <2>2 DEF UnderWay
<1>9. OnItsWay'
  <2>1. CASE Lossy
    BY <1>6, <2>1, OwedByPass
  <2>2. CASE ~Lossy
    <3>1. drain = "acking" /\ pass.todo = {} /\ p \in Nat
      BY <1>1, <1>2, <1>4, <1>5, <2>2, NoPassBesideAdvance DEF Lossy
    <3>2. \A r : AnyLeft(r, p)' <=> AnyLeft(r, p)
      BY <1>7 DEF AnyLeft
    <3>3. \A r : AnyLeft(r, p) => AnyLeft(r, n)
      <4> SUFFICES ASSUME NEW r, NEW v \in Nat, Left(r, v, p)
                   PROVE  Left(r, v, n)
        BY DEF AnyLeft
      <4>1. \A i \in DOMAIN file : p < i => n < i
        BY <1>2, <1>3, <1>4
      <4> QED
        BY <4>1 DEF Left, Beyond
    <3>4. \A r : Unsent(r)' <=> Unsent(r)
      BY <1>1, SameEdits
    <3>5. Shows'
      <4> SUFFICES ASSUME NEW r \in Rows, ~AnyLeft(r, p), ~Unsent(r)
                   PROVE  domain[r] = log[r]
        BY <1>1, <1>6, <3>2, <3>4 DEF Shows
      <4>1. domain[r] = log[r] \/ AnyLeft(r, n)
        BY <1>6, <2>2, <3>1 DEF Flows, OnItsWay, Shows
      <4>2. ASSUME AnyLeft(r, n)
            PROVE  domain[r] = log[r]
        <5>1. Left(r, log[r], n)
          BY <1>6, <2>2, <4>2 DEF Flows, OnItsWay, Reaches
        <5>2. ~Queue(r, log[r])
          <6>1. Queue(r, log[r]) => Left(r, log[r], p)
            BY DEF Left
          <6> QED
            BY <6>1, LeftBounds
        <5>3. Beyond(r, log[r], n)
          BY <5>1, <5>2 DEF Left
        <5>4. PICK i \in DOMAIN file :
                n < i /\ file[i].whole /\ file[i].row = r /\ file[i].val = log[r]
          BY <5>3 DEF Beyond
        <5>5. ~(p < i)
          <6>1. p < i => Left(r, log[r], p)
            BY <5>4 DEF Left, Beyond
          <6> QED
            BY <6>1, LeftBounds
        <5>6. i \in off + 1 .. PageTo
          BY <1>2, <1>3, <1>4, <1>6, <5>4, <5>5
        <5> QED
          BY <1>1, <2>2, <3>1, <5>4, <5>6 DEF Flows, UnderWay, PageShown, Lossy
      <4> QED
        BY <4>1, <4>2
    <3>6. Reaches'
      <4> SUFFICES ASSUME NEW r \in Rows, AnyLeft(r, p)
                   PROVE  Left(r, log[r], p)
        BY <1>1, <1>6, <1>7, <3>2 DEF Reaches
      <4>1. Left(r, log[r], n)
        BY <1>6, <2>2, <3>3 DEF Flows, OnItsWay, Reaches
      <4> QED
        BY <3>1, <4>1, LeftBehind
    <3>7. ViewHolds'
      BY <1>1, <3>1 DEF ViewHolds
    <3> QED
      BY <3>5, <3>6, <3>7 DEF OnItsWay
  <2> QED
    BY <2>1, <2>2
<1> QED
  BY <1>8, <1>9 DEF Flows

\* While the sidecar is zeroed the consumed prefix is still not to come.
LEMMA FlowsZero ==
  ASSUME Typed, Flows, ZeroOffset
  PROVE  Flows'
<1>1. /\ io.step = "zero" /\ off' = 0 /\ io'.step = "copy" /\ io'.to = io.to /\ off = io.to
      /\ UNCHANGED <<log, logged, appending, file, awaiting, dropped, drain, batch, more, needs,
                     boot, pass, domain, edits>>
  BY DEF ZeroOffset, Typed, AdvanceTyped, engine, renderer, session
<1>2. PICK p : p = io.to
  OBVIOUS
<1>3. drain \in {"down", "pull", "skip", "acking"}
  BY <1>1, AdvancingDrain
<1>4. /\ Start = p /\ Start' = p /\ PageTo = p /\ PageTo' = p /\ (Lossy' <=> Lossy)
  BY <1>1, <1>2, <1>3 DEF Start, PageTo, Lossy
<1>5. \A r, v, m : Left(r, v, m)' <=> Left(r, v, m)
  BY <1>1, SameLines
<1>6. \A r : Unsent(r)' <=> Unsent(r)
  BY <1>1, SameEdits
<1>7. OnItsWay'
  BY <1>1, <1>4, <1>5, <1>6, OnItsWaySame DEF Flows
<1>8. ReachesBehind'
  BY <1>1, <1>4, <1>5, BehindSame DEF Flows, UnderWay
<1>9. PageServed' /\ PageShown'
  BY <1>1, <1>3, NoPageShown
<1> QED
  BY <1>7, <1>8, <1>9 DEF Flows, UnderWay

\* The swap makes that prefix gone.
LEMMA FlowsSwap ==
  ASSUME Typed, Flows, SwapFile
  PROVE  Flows'
<1>1. /\ io.step = "copy" /\ off = 0 /\ io'.step = "done"
      /\ UNCHANGED <<log, logged, appending, off, awaiting, dropped, drain, batch, more, needs,
                     boot, pass, domain, edits>>
  BY DEF SwapFile, Typed, AdvanceTyped, engine, renderer, session
<1>2. PICK p : p = io.to
  OBVIOUS
<1>3. drain \in {"down", "pull", "skip", "acking"}
  BY <1>1, AdvancingDrain
<1>4. /\ Start = p /\ Start' = 0 /\ PageTo = p /\ PageTo' = 0 /\ (Lossy' <=> Lossy)
  BY <1>1, <1>2, <1>3 DEF Start, PageTo, Lossy
<1>5. \A r, v : Left(r, v, 0)' <=> Left(r, v, p)
  BY <1>2, SwapLines DEF Left
<1>6. \A r : Unsent(r)' <=> Unsent(r)
  BY <1>1, SameEdits
<1>7. OnItsWay'
  BY <1>1, <1>4, <1>5, <1>6, OnItsWaySame DEF Flows
<1>8. ReachesBehind'
  BY <1>1, <1>4, <1>5, BehindSame DEF Flows, UnderWay
<1>9. PageServed' /\ PageShown'
  BY <1>1, <1>3, NoPageShown
<1> QED
  BY <1>7, <1>8, <1>9 DEF Flows, UnderWay

\* The end of an advance leaves the page behind.
LEMMA FlowsEnds ==
  ASSUME Typed, Flows, Skipped \/ Acked
  PROVE  Flows'
<1>1. /\ io.step = "done" /\ io' = Quiet
      /\ UNCHANGED <<log, logged, appending, file, off, batch, more, boot, pass, domain, edits>>
  BY DEF Skipped, Acked, engine, session
<1>2. /\ drain \in {"down", "pull", "skip", "acking"}
      /\ drain = "pull" => boot = "drain"
      /\ drain = "skip" => io.by = "drain"
      /\ drain = "acking" => io.by = "ack"
  BY <1>1, AdvancingDrain
<1>3. PICK p : p = off
  OBVIOUS
<1>4. Start = p /\ Start' = p
  BY <1>1, <1>3 DEF Start, Quiet
<1>5. \A r, v, m : Left(r, v, m)' <=> Left(r, v, m)
  BY <1>1, SameLines
<1>6. \A r : Unsent(r)' <=> Unsent(r)
  BY <1>1, SameEdits
<1>7. CASE drain \in {"down", "pull"}
  <2>1. drain' = drain
    BY <1>7 DEF Skipped, Acked
  <2> QED
    BY <1>1, <1>2, <1>7, <2>1, OwedByPass, NoPageUnderWay DEF Lossy, Flows
<1>8. CASE drain \in {"skip", "acking"}
  <2>1. /\ drain' = "next" /\ PageTo = p /\ PageTo' = p
        /\ PageServed' /\ PageShown'
    <3>1. drain' = "next"
      BY <1>2, <1>8 DEF Skipped, Acked
    <3> QED
      BY <1>1, <1>3, <1>8, <3>1, NoPageShown DEF PageTo, Quiet
  <2>2. drain = "acking" => UNCHANGED <<dropped, needs>>
    BY <1>2 DEF Skipped, Acked
  <2>3. drain = "skip" => needs'
    BY <1>2 DEF Skipped, Acked
  <2>4. ReachesBehind'
    BY <1>1, <1>5, <1>8, <2>1, <2>2, BehindSame DEF Flows, UnderWay, Answering
  <2>5. Lossy => Lossy'
    BY <1>1, <1>8, <2>1, <2>2, <2>3 DEF Lossy
  <2>6. OnItsWay'
    BY <1>1, <1>4, <1>5, <1>6, <1>8, <2>5, OnItsWaySame DEF Flows
  <2> QED
    BY <2>1, <2>4, <2>6 DEF Flows, UnderWay
<1> QED
  BY <1>2, <1>7, <1>8

\* A failed copy leaves the old file under the zeroed offset: what it serves
\* again ends, row by row, on what the log holds.
LEMMA FlowsAdvanceFails ==
  ASSUME Typed, Lines, Held, BootAlone, Flows, Plain, AdvanceFails
  PROVE  Flows'
<1>1. /\ io.step \in {"advance", "zero", "copy"} /\ io' = Quiet /\ boot # "drain"
      /\ UNCHANGED <<log, logged, appending, file, off, awaiting, dropped, batch, more, needs,
                     pass, domain, edits>>
      /\ io.step = "copy" /\ drain = "acking" => Replays
      /\ drain' = IF drain \in {"acking", "skip"} THEN "idle" ELSE drain
      /\ drain = "down" => boot' = boot
      /\ drain = "acking" => boot' = boot
  <2>1. io.step # "idle"
    BY DEF AdvanceFails
  <2>2. /\ drain = "skip" => io.by = "drain"
        /\ drain = "acking" => io.by = "ack"
    BY <2>1, AdvancingDrain
  <2>3. io.by \in {"ack", "drain"}
    BY DEF Typed, AdvanceTyped
  <2>4. /\ io.step \in {"advance", "zero", "copy"} /\ io' = Quiet /\ boot # "drain"
        /\ UNCHANGED <<log, logged, appending, file, off, awaiting, dropped, batch, more, needs,
                       pass, domain, edits>>
        /\ io.step = "copy" /\ drain = "acking" => Replays
    BY DEF AdvanceFails, BootHolds, Plain, engine, session
  <2>5. CASE io.by = "ack"
    BY <2>2, <2>4, <2>5 DEF AdvanceFails
  <2>6. CASE io.by = "drain"
    BY <2>2, <2>4, <2>6 DEF AdvanceFails
  <2> QED
    BY <2>3, <2>5, <2>6
<1>2. drain \in {"down", "skip", "acking"}
  BY <1>1, AdvancingDrain
<1>3. UnderWay'
  BY <1>1, <1>2, NoPageUnderWay
<1>4. CASE drain \in {"down", "skip"}
  <2>1. Lossy'
    BY <1>1, <1>4 DEF Lossy, Typed, AdvanceTyped
  <2> QED
    BY <1>3, <2>1, OwedByPass DEF Flows
<1>5. CASE drain = "acking"
  <2>1. Lossy' <=> Lossy
    BY <1>1, <1>5 DEF Lossy
  <2>2. \A r, v, m : Left(r, v, m)' <=> Left(r, v, m)
    BY <1>1, SameLines
  <2>3. \A r : Unsent(r)' <=> Unsent(r)
    BY <1>1, SameEdits
  <2>4. CASE io.step # "copy"
    <3>1. PICK n : n = off
      OBVIOUS
    <3>2. Start = n /\ Start' = n
      BY <1>1, <2>4, <3>1 DEF Start, Quiet
    <3>3. OnItsWay'
      BY <1>1, <1>5, <2>1, <2>2, <2>3, <3>2, OnItsWaySame DEF Flows
    <3> QED
      BY <1>3, <3>3 DEF Flows
  <2>5. CASE io.step = "copy"
    <3>1. PICK n : n = io.to
      OBVIOUS
    <3>2. Start = n /\ Start' = 0 /\ n \in Nat /\ pass.todo = {}
      <4>1. Start = n /\ io.to \in Nat
        BY <2>5, <3>1 DEF Start, Typed, AdvanceTyped
      <4>2. Start' = 0
        BY <1>1, <2>5 DEF Start, Quiet, Typed, AdvanceTyped
      <4> QED
        BY <1>1, <3>1, <4>1, <4>2, NoPassBesideAdvance
    <3>3. \A r : AnyLeft(r, n) => AnyLeft(r, 0)
      BY <3>2, FilePlaces DEF AnyLeft, Left, Beyond
    <3>4. \A r : AnyLeft(r, 0)' <=> AnyLeft(r, 0)
      BY <2>2 DEF AnyLeft
    <3>5. Shows'
      <4> SUFFICES ASSUME NEW r \in Rows, ~Unsent(r), domain[r] # log[r], ~Lossy
                   PROVE  AnyLeft(r, 0)
        BY <1>1, <2>1, <2>3, <3>2, <3>4 DEF Shows
      <4>1. AnyLeft(r, n)
        BY <1>5, <3>2 DEF Flows, OnItsWay, Shows
      <4> QED
        BY <3>3, <4>1
    <3>6. Reaches'
      <4> SUFFICES ASSUME NEW r \in Rows, AnyLeft(r, 0)
                   PROVE  Left(r, log[r], 0)
        BY <1>1, <2>2, <3>2, <3>4 DEF Reaches
      <4>1. PICK v \in Nat : Left(r, v, 0)
        BY DEF AnyLeft
      <4>2. CASE Queue(r, v)
        <5>1. InQueue(r)
          BY <4>2 DEF Queue, InQueue
        <5> QED
          BY <5>1 DEF Lines, QueueCurrent, Left
      <4>3. CASE Beyond(r, v, 0)
        <5>1. PICK i \in DOMAIN file : file[i].whole /\ file[i].row = r
          BY <4>3 DEF Beyond
        <5>2. Newest(r)
          BY <1>1, <1>5, <2>5, <5>1 DEF Replays
        <5>3. CASE \E j \in DOMAIN file :
                     file[j].whole /\ file[j].row = r /\ file[j].val = log[r]
          BY <5>3, FilePlaces DEF Left, Beyond
        <5>4. CASE \E j \in DOMAIN appending : \E k \in DOMAIN appending[j] :
                     appending[j][k] = [row |-> r, val |-> log[r]]
          BY <5>4 DEF Left, Queue
        <5> QED
          BY <5>2, <5>3, <5>4 DEF Newest
      <4> QED
        BY <4>1, <4>2, <4>3 DEF Left
    <3>7. ViewHolds'
      BY <1>1, <3>2 DEF ViewHolds
    <3> QED
      BY <1>3, <3>5, <3>6, <3>7 DEF Flows, OnItsWay
  <2> QED
    BY <2>4, <2>5
<1> QED
  BY <1>2, <1>4, <1>5

\* The moves of the drain that leave the journal and the library alone.
LEMMA FlowsIdles ==
  ASSUME Typed, Flows, Plain, Woken \/ CommitFails
  PROVE  Flows'
<1>1. /\ UNCHANGED <<log, logged, appending, file, off, awaiting, dropped, io, needs, boot, pass,
                     domain, edits>>
      /\ drain \in {"idle", "commit"} /\ drain' \in {"pull", "idle"}
  <2>1. CASE Woken
    BY <2>1 DEF Woken, engine, journal, session
  <2>2. CASE CommitFails
    BY <2>2 DEF CommitFails, Returned, BootHolds, Plain, engine, journal, session
  <2> QED
    BY <2>1, <2>2
<1>2. PICK n : n = Start
  OBVIOUS
<1>3. Start' = n /\ (Lossy' <=> Lossy)
  BY <1>1, <1>2 DEF Start, Lossy
<1>4. \A r, v, m : Left(r, v, m)' <=> Left(r, v, m)
  BY <1>1, SameLines
<1>5. \A r : Unsent(r)' <=> Unsent(r)
  BY <1>1, SameEdits
<1>6. OnItsWay'
  BY <1>1, <1>2, <1>3, <1>4, <1>5, OnItsWaySame DEF Flows
<1>7. UnderWay'
  BY <1>1, NoPageUnderWay
<1> QED
  BY <1>6, <1>7 DEF Flows

\* Past the end of the file only the queue is left, and it ends on the log.
LEMMA LeftAtEnd ==
  ASSUME Typed, Lines, NEW r, AnyLeft(r, Len(file))
  PROVE  Left(r, log[r], Len(file))
<1>1. PICK v \in Nat : Left(r, v, Len(file))
  BY DEF AnyLeft
<1>2. ~Beyond(r, v, Len(file))
  BY FilePlaces DEF Beyond
<1>3. Queue(r, v) /\ r \in Rows
  BY <1>1, <1>2, LeftBounds DEF Left
<1>4. InQueue(r)
  BY <1>3 DEF Queue, InQueue
<1> QED
  BY <1>3, <1>4 DEF Lines, QueueCurrent, Left

\* A page that is pulled is served, or reported.
LEMMA FlowsPull ==
  ASSUME Typed, Lines, Flows, Pull
  PROVE  Flows'
<1>1. /\ drain = "pull" /\ io.step = "idle" /\ more' = (PageEnd < Len(file))
      /\ UNCHANGED <<log, logged, appending, file, off, boot, pass, domain, edits>>
  BY DEF Pull, engine, session
<1>2. PageEnd \in off .. Len(file) /\ off \in Nat /\ Len(file) \in Nat
  BY PageEndFacts, FilePlaces
<1>3. PICK n : n = off
  OBVIOUS
<1>4. PICK p : p = PageEnd
  OBVIOUS
<1>5. Start = n
  BY <1>1, <1>3, StartFacts
<1>6. \A r, v, m : Left(r, v, m)' <=> Left(r, v, m)
  BY <1>1, SameLines
<1>7. \A r : Unsent(r)' <=> Unsent(r)
  BY <1>1, SameEdits
<1>8. ASSUME PageTo' = p
      PROVE  ReachesBehind'
  <2> SUFFICES ASSUME ~more', NEW r \in Rows, AnyLeft(r, p)'
               PROVE  Left(r, log[r], p)'
    BY <1>8 DEF ReachesBehind
  <2>0. ~(PageEnd < Len(file))
    BY <1>1, Zenon
  <2>1. p = Len(file)
    BY <1>2, <1>4, <2>0
  <2>2. AnyLeft(r, p)
    BY <1>6 DEF AnyLeft
  <2>3. Left(r, log[r], p)
    BY <2>1, <2>2, LeftAtEnd
  <2> QED
    BY <1>1, <1>6, <2>3
<1>9. CASE Served = {} /\ PageEnd > off
  <2>1. /\ dropped' = TRUE /\ drain' = "skip"
        /\ io' = [step |-> "advance", to |-> PageEnd, by |-> "drain"]
    BY <1>2, <1>9 DEF Pull
  <2>2. OnItsWay'
    BY <2>1, OwedByPass DEF Lossy
  <2>3. PageTo' = p
    BY <1>4, <2>1 DEF PageTo
  <2>4. PageServed' /\ PageShown'
    BY <2>1, NoPageShown
  <2> QED
    BY <1>8, <2>2, <2>3, <2>4 DEF Flows, UnderWay
<1>10. CASE ~(Served = {} /\ PageEnd > off)
  <2>1. /\ batch' = Outcomes /\ awaiting' = PageEnd - off
        /\ needs' = (needs \/ dropped \/ Poison) /\ dropped' = FALSE
        /\ drain' = (IF Served = {} THEN "next" ELSE "commit")
        /\ io' = io /\ (Served = {} => PageEnd = off)
    BY <1>2, <1>10 DEF Pull
  <2>2. Lossy => Lossy'
    BY <1>1, <2>1 DEF Lossy
  <2>3. Start' = n
    BY <1>1, <1>3, <2>1 DEF Start
  <2>4. OnItsWay'
    BY <1>1, <1>5, <1>6, <1>7, <2>2, <2>3, OnItsWaySame DEF Flows
  <2>5. off + awaiting' = PageEnd
    BY <1>2, <2>1
  <2>6. PageTo' = p
    BY <1>1, <1>4, <2>1, <2>5 DEF PageTo
  <2>7. PageServed'
    <3> SUFFICES ASSUME NEW i \in off + 1 .. off + awaiting', i \notin Served
                 PROVE  needs'
      BY <1>1, <2>1, OutcomesFacts DEF PageServed
    <3> QED
      BY <2>1, <2>5, OutcomesFacts
  <2>8. PageShown'
    BY <2>1 DEF PageShown
  <2> QED
    BY <1>8, <2>4, <2>6, <2>7, <2>8 DEF Flows, UnderWay
<1> QED
  BY <1>9, <1>10

\* A committed page shows the log's value, or a later line of its rows will.
LEMMA FlowsCommit ==
  ASSUME Typed, Lines, Flows, Commit
  PROVE  Flows'
<1>1. /\ UNCHANGED <<made, log, logged, appending, file, off, awaiting, dropped, io, more,
                     needs, boot, pass, edits>>
      /\ drain = "commit" /\ drain' = "ack"
  BY CommitFacts
<1>2. /\ off \in Nat /\ DOMAIN file = 1 .. Len(file) /\ Len(file) \in Nat
      /\ off + awaiting <= Len(file) /\ awaiting \in Nat
  BY <1>1, FilePlaces DEF Typed, JournalTyped, AdvanceTyped
<1>3. io.step = "idle"
  BY <1>1, StartFacts
<1>4. PICK n : n = off
  OBVIOUS
<1>5. PICK p : p = off + awaiting
  OBVIOUS
<1>6. Start = n /\ Start' = n /\ PageTo = p /\ PageTo' = p /\ (Lossy' <=> Lossy)
  BY <1>1, <1>3, <1>4, <1>5 DEF Start, PageTo, Lossy
<1>7. \A r, v, m : Left(r, v, m)' <=> Left(r, v, m)
  BY <1>1, SameLines
<1>8. \A r : Unsent(r)' <=> Unsent(r)
  BY <1>1, SameEdits
<1>9. ASSUME NEW r \in Rows, domain'[r] # domain[r]
      PROVE  AnyLeft(r, n)
  <2>1. PICK i \in DOMAIN file :
          i \in off + 1 .. off + awaiting /\ file[i].whole /\ file[i].row = r
    BY <1>9, CommitFacts
  <2>2. n < i /\ file[i].val \in Nat
    BY <1>2, <1>4, <2>1, LineNumbers
  <2>3. Left(r, file[i].val, n)
    BY <2>1, <2>2 DEF Left, Beyond
  <2> QED
    BY <2>2, <2>3 DEF AnyLeft
<1>10. OnItsWay'
  BY <1>1, <1>6, <1>7, <1>8, <1>9, OnItsWaySame DEF Flows
<1>11. ReachesBehind'
  BY <1>1, <1>6, <1>7, BehindSame DEF Flows, UnderWay, Answering
<1>12. PageServed'
  BY <1>1 DEF PageServed
<1>13. PageShown'
  <2> SUFFICES ASSUME NEW i \in off + 1 .. p,
                      file[i].whole, file[i].val = log[file[i].row], ~needs
               PROVE  domain'[file[i].row] = log[file[i].row]
    BY <1>1, <1>6 DEF PageShown
  <2>1. i \in DOMAIN file /\ i \in off + 1 .. off + awaiting
    BY <1>2, <1>5
  <2>2. i \in DOMAIN batch
    BY <1>1, <2>1 DEF Flows, UnderWay, PageServed
  <2> DEFINE r == file[i].row
  <2>3. r \in Rows /\ batch[i].row = r
    BY <1>1, <2>1, <2>2, LineNumbers DEF Typed, PageTyped
  <2>4. Has(batch, r)
    BY <2>2, <2>3 DEF Has
  <2>5. file[i].val = log[r]
    OBVIOUS
  <2> HIDE DEF r
  <2>6. PICK j \in DOMAIN batch :
          /\ j \in DOMAIN file /\ file[j].row = r /\ domain'[r] = file[j].val
          /\ \A k \in DOMAIN batch : batch[k].row = r => k <= j
    BY <2>3, <2>4, CommitFacts
  <2>7. i <= j
    BY <2>2, <2>3, <2>6
  <2>8. file[i].val <= file[j].val /\ file[j].val <= log[r]
    BY <2>1, <2>6, <2>7 DEF Lines, FileOrdered, LogAhead
  <2>9. file[j].val \in Nat /\ log[r] \in Nat
    BY <2>3, <2>6, LineNumbers
  <2>10. file[j].val = log[r]
    BY <2>5, <2>8, <2>9
  <2> QED
    BY <2>6, <2>10 DEF r
<1> QED
  BY <1>10, <1>11, <1>12, <1>13 DEF Flows, UnderWay

\* The ack takes the page that was committed.
LEMMA FlowsAck ==
  ASSUME Typed, Flows, Ack
  PROVE  Flows'
<1>1. /\ drain = "ack" /\ drain' = "acking" /\ io.step = "idle"
      /\ io' = [step |-> "advance", to |-> off + awaiting, by |-> "ack"]
      /\ UNCHANGED <<log, logged, appending, file, off, dropped, batch, more, needs, boot, pass,
                     domain, edits>>
  BY DEF Ack, engine, session
<1>2. PICK n : n = off
  OBVIOUS
<1>3. PICK p : p = off + awaiting
  OBVIOUS
<1>4. Start = n /\ Start' = n /\ PageTo = p /\ PageTo' = p /\ (Lossy' <=> Lossy)
  BY <1>1, <1>2, <1>3 DEF Start, PageTo, Lossy
<1>5. \A r, v, m : Left(r, v, m)' <=> Left(r, v, m)
  BY <1>1, SameLines
<1>6. \A r : Unsent(r)' <=> Unsent(r)
  BY <1>1, SameEdits
<1>7. OnItsWay'
  BY <1>1, <1>4, <1>5, <1>6, OnItsWaySame DEF Flows
<1>8. ReachesBehind'
  BY <1>1, <1>4, <1>5, BehindSame DEF Flows, UnderWay, Answering
<1>9. PageServed'
  BY <1>1 DEF PageServed
<1>10. PageShown'
  BY <1>1, <1>4 DEF Flows, UnderWay, PageShown
<1> QED
  BY <1>7, <1>8, <1>9, <1>10 DEF Flows, UnderWay

\* A drain that ends has nothing behind its last page, or is woken again.
LEMMA FlowsLoop ==
  ASSUME Typed, BootAlone, BootFinds, Flows, Loop
  PROVE  Flows'
<1>1. /\ drain = "next" /\ io.step = "idle"
      /\ UNCHANGED <<log, logged, appending, file, off, awaiting, dropped, io, batch, more, pass,
                     domain, edits>>
  BY StartFacts DEF Loop, engine, journal, session
<1>2. drain' \in {"idle", "pull", "mend"}
  BY DEF Loop
<1>3. UnderWay'
  BY <1>2, NoPageUnderWay
<1>4. PICK n : n = off
  OBVIOUS
<1>5. Start = n /\ Start' = n /\ PageTo = n
  BY <1>1, <1>4 DEF Start, PageTo
<1>6. \A r, v, m : Left(r, v, m)' <=> Left(r, v, m)
  BY <1>1, SameLines
<1>7. \A r : Unsent(r)' <=> Unsent(r)
  BY <1>1, SameEdits
<1>8. CASE more \/ ~needs
  <2>1. UNCHANGED needs /\ (boot \in {"drain", "owed"} => boot' \in {"drain", "owed"})
    BY <1>8 DEF Loop, Returned
  <2>2. Lossy => Lossy'
    BY <1>1, <2>1 DEF Lossy
  <2>3. OnItsWay'
    BY <1>1, <1>5, <1>6, <1>7, <2>2, OnItsWaySame DEF Flows
  <2> QED
    BY <1>3, <2>3 DEF Flows
<1>9. CASE ~more /\ needs
  <2>1. drain' = "mend" /\ needs' = FALSE /\ boot' = boot
    BY <1>9 DEF Loop
  <2>2. pass.who # "drain"
    BY <1>1 DEF Typed, PassTyped
  <2>3. Shows'
    BY <1>1, <2>1, <2>2 DEF Shows
  <2>4. Reaches'
    <3> SUFFICES ASSUME NEW r \in Rows, AnyLeft(r, n)
                 PROVE  Left(r, log[r], n) \/ dropped \/ boot \in {"drain", "owed"}
      BY <1>1, <1>5, <1>6, <2>1 DEF Reaches, AnyLeft, Lossy
    <3> QED
      BY <1>1, <1>5, <1>9 DEF Flows, UnderWay, ReachesBehind
  <2>5. ViewHolds'
    <3> SUFFICES ASSUME NEW r \in pass.todo
                 PROVE  pass.view[r] = log[r]
      BY <1>1 DEF ViewHolds
    <3>1. pass.who = "boot" /\ r \in Rows
      BY <2>2 DEF Typed, PassTyped
    <3> QED
      BY <3>1 DEF BootFinds
  <2> QED
    BY <1>3, <2>3, <2>4, <2>5 DEF Flows, OnItsWay
<1> QED
  BY <1>8, <1>9

\* A pass begins with every row either in its view or bare.
LEMMA FlowsBegin ==
  ASSUME Typed, Held, Flows, Plain, BeginPass
  PROVE  Flows'
<1>1. /\ UNCHANGED <<log, logged, appending, file, off, dropped, io, drain, needs, domain, edits>>
      /\ pass'.todo = {r \in Rows : log[r] # 0} /\ pass'.view = log
      /\ \/ pass'.who = "drain" /\ drain = "mend" /\ boot' = boot
         \/ pass'.who = "boot" /\ boot = "owed" /\ boot' = "runs" /\ PipelineEmpty
  BY BeginFacts
<1>2. drain \in {"mend", "idle"} /\ io.step = "idle"
  BY <1>1, StartFacts DEF PipelineEmpty
<1>3. UnderWay'
  BY <1>1, <1>2, NoPageUnderWay
<1>4. PICK n : n = off
  OBVIOUS
<1>5. Start = n /\ Start' = n
  BY <1>1, <1>2, <1>4 DEF Start
<1>6. \A r, v, m : Left(r, v, m)' <=> Left(r, v, m)
  BY <1>1, SameLines
<1>7. \A r : Unsent(r)' <=> Unsent(r)
  BY <1>1, SameEdits
<1>8. Shows'
  <2> SUFFICES ASSUME NEW r \in Rows
               PROVE  \/ Unsent(r)' \/ domain'[r] = log'[r]
                      \/ r \in pass'.todo /\ pass'.view[r] = log'[r]
    BY DEF Shows
  <2>1. CASE log[r] # 0
    BY <1>1, <2>1
  <2>2. CASE log[r] = 0
    BY <1>1, <1>7, <2>2 DEF Held, Bare
  <2> QED
    BY <2>1, <2>2
<1>9. Reaches'
  <2> SUFFICES ASSUME NEW r \in Rows, AnyLeft(r, n)
               PROVE  Left(r, log[r], n) \/ Lossy'
    BY <1>1, <1>5, <1>6 DEF Reaches, AnyLeft
  <2>1. CASE boot' = boot
    <3>1. Lossy' <=> Lossy
      BY <1>1, <2>1 DEF Lossy
    <3> QED
      BY <1>5, <3>1 DEF Flows, OnItsWay, Reaches
  <2>2. CASE PipelineEmpty
    <3>1. n = Len(file) /\ appending = <<>>
      BY <1>4, <2>2 DEF PipelineEmpty
    <3>2. \A v : ~Left(r, v, n)
      BY <3>1, FilePlaces, EmptySeq DEF Left, Beyond, Queue
    <3> QED
      BY <3>2 DEF AnyLeft
  <2> QED
    BY <1>1, <2>1, <2>2
<1>10. ViewHolds'
  BY <1>1 DEF ViewHolds
<1> QED
  BY <1>3, <1>8, <1>9, <1>10 DEF Flows, OnItsWay

\* While a pass runs no page is being committed or acknowledged.
LEMMA PassDrain ==
  ASSUME Typed, BootAlone, pass.who # "none"
  PROVE  drain \in {"idle", "pull", "next", "mend"} /\ io.step = "idle"
BY StartFacts DEF BootAlone, Typed, PassTyped

\* A page of a pass shows the log's value, or a later line will.
LEMMA FlowsPage ==
  ASSUME Typed, BootAlone, Flows, PassPage
  PROVE  Flows'
<1>1. UNCHANGED <<log, logged, appending, file, off, awaiting, dropped, io, drain, batch, more,
                  needs, boot, edits>>
  BY PageFacts
<1>2. PICK r \in pass.todo :
        /\ r \in Rows
        /\ domain'[r] = pass.view[r]
        /\ \A q \in Rows : q # r => domain'[q] = domain[q]
        /\ pass'.todo = pass.todo \ {r} /\ pass'.view = pass.view
        /\ pass'.who = pass.who
  BY PageFacts
<1>3. drain \in {"idle", "pull", "next", "mend"}
  BY <1>2, PassDrain DEF Typed, PassTyped
<1>4. PICK n : n = Start
  OBVIOUS
<1>5. PICK p : p = PageTo
  OBVIOUS
<1>6. Start' = n /\ PageTo' = p /\ (Lossy' <=> Lossy)
  BY <1>1, <1>4, <1>5 DEF Start, PageTo, Lossy
<1>7. \A q, v, m : Left(q, v, m)' <=> Left(q, v, m)
  BY <1>1, SameLines
<1>8. \A q : Unsent(q)' <=> Unsent(q)
  BY <1>1, SameEdits
<1>9. \A q : AnyLeft(q, n)' <=> AnyLeft(q, n)
  BY <1>7 DEF AnyLeft
<1>10. Shows'
  <2> SUFFICES ASSUME NEW q \in Rows
               PROVE  \/ Lossy \/ Unsent(q) \/ domain'[q] = log[q]
                      \/ drain = "mend" /\ pass.who # "drain"
                      \/ q \in pass'.todo /\ pass'.view[q] = log[q]
                      \/ AnyLeft(q, n)
    BY <1>1, <1>2, <1>6, <1>8, <1>9 DEF Shows
  <2>1. CASE q = r
    BY <1>2, <1>4, <2>1 DEF Flows, OnItsWay, ViewHolds
  <2>2. CASE q # r
    BY <1>2, <1>4, <2>2 DEF Flows, OnItsWay, Shows
  <2> QED
    BY <2>1, <2>2
<1>11. Reaches'
  <2> SUFFICES ASSUME NEW q \in Rows, AnyLeft(q, n)
               PROVE  Left(q, log[q], n) \/ Lossy
    BY <1>1, <1>6, <1>7, <1>9 DEF Reaches
  <2> QED
    BY <1>4 DEF Flows, OnItsWay, Reaches
<1>12. ViewHolds'
  BY <1>1, <1>2, <1>4, <1>6, <1>9 DEF Flows, OnItsWay, ViewHolds
<1>13. ReachesBehind'
  BY <1>1, <1>5, <1>6, <1>7, BehindSame DEF Flows, UnderWay
<1>14. PageServed' /\ PageShown'
  BY <1>1, <1>3, NoPageShown
<1> QED
  BY <1>10, <1>11, <1>12, <1>13, <1>14 DEF Flows, OnItsWay, UnderWay

\* A pass that ends has shown every row.
LEMMA FlowsEnd ==
  ASSUME Typed, BootAlone, Flows, EndPass
  PROVE  Flows'
<1>1. /\ UNCHANGED <<log, logged, appending, file, off, awaiting, dropped, io, batch, more, needs,
                     domain, edits>>
      /\ pass' = NoPass /\ pass.who # "none" /\ pass.todo = {} /\ pass'.todo = {}
  BY DEF EndPass, NoPass, engine, journal
<1>2. /\ boot \in {"drain", "owed"} => boot' \in {"drain", "owed"}
      /\ drain' = drain \/ (pass.who = "drain" /\ drain' = "idle")
  BY DEF EndPass, Returned, Typed, PassTyped
<1>3. drain \in {"idle", "pull", "next", "mend"} /\ io.step = "idle"
  BY <1>1, PassDrain
<1>4. PICK n : n = off
  OBVIOUS
<1>5. Start = n /\ Start' = n /\ PageTo = n /\ PageTo' = n
  BY <1>1, <1>2, <1>3, <1>4 DEF Start, PageTo
<1>6. Lossy => Lossy'
  BY <1>1, <1>2, <1>3 DEF Lossy
<1>7. \A r, v, m : Left(r, v, m)' <=> Left(r, v, m)
  BY <1>1, SameLines
<1>8. \A r : Unsent(r)' <=> Unsent(r)
  BY <1>1, SameEdits
<1>9. drain = "mend" /\ pass.who # "drain" => drain' = "mend" /\ pass'.who # "drain"
  BY <1>1, <1>2 DEF NoPass
<1>10. OnItsWay'
  BY <1>1, <1>5, <1>6, <1>7, <1>8, <1>9, OnItsWaySame DEF Flows
<1>11. ReachesBehind'
  BY <1>1, <1>2, <1>3, <1>5, <1>7, BehindSame DEF Flows, UnderWay, Answering
<1>12. PageServed' /\ PageShown'
  BY <1>2, <1>3, NoPageShown
<1> QED
  BY <1>10, <1>11, <1>12 DEF Flows, UnderWay

\* A drain's pass that failed is still owed.
LEMMA FlowsPassFails ==
  ASSUME Typed, Plain, PassFails
  PROVE  Flows'
<1>1. pass.who = "drain"
  BY DEF PassFails, Plain, Typed, PassTyped
<1>2. drain' = "idle" /\ needs'
  BY <1>1 DEF PassFails
<1> QED
  BY <1>2, OwedByPass, NoPageUnderWay DEF Lossy, Flows

\* An edited row is the edit's, until the log takes it.
LEMMA FlowsEdit ==
  ASSUME Typed, Held, Flows, Plain, NEW r \in Rows, Edit(r)
  PROVE  Flows'
<1>1. /\ UNCHANGED <<log, file, appending, off, awaiting, dropped, io, drain, batch, more, needs,
                     boot, pass>>
      /\ domain' = [domain EXCEPT ![r] = made'] /\ domain \in [Rows -> 0 .. made]
      /\ ~InFlight(r)
  BY EditFacts
<1>2. /\ Unsent(r)'
      /\ \A q \in Rows : q # r => (Unsent(q)' <=> Unsent(q))
  BY EditEdits DEF Held
<1>3. /\ \A q \in Rows : Unsent(q) => Unsent(q)'
      /\ \A q \in Rows : domain'[q] = domain[q] \/ q = r
  BY <1>1, <1>2
<1>4. PICK n : n = Start
  OBVIOUS
<1>5. PICK p : p = PageTo
  OBVIOUS
<1>6. Start' = n /\ PageTo' = p /\ (Lossy' <=> Lossy)
  BY <1>1, <1>4, <1>5 DEF Start, PageTo, Lossy
<1>7. \A q, v, m : Left(q, v, m)' <=> Left(q, v, m)
  BY <1>1, SameLines
<1>8. OnItsWay'
  BY <1>1, <1>2, <1>3, <1>4, <1>6, <1>7, OnItsWaySame DEF Flows
<1>9. ReachesBehind'
  BY <1>1, <1>5, <1>6, <1>7, BehindSame DEF Flows, UnderWay
<1>10. ~InFile(r)
  BY <1>1 DEF InFile, InFlight
<1>11. PageServed' /\ PageShown'
  BY <1>1, <1>3, <1>5, <1>6, <1>10, PageSame DEF Flows, UnderWay
<1> QED
  BY <1>8, <1>9, <1>11 DEF Flows, UnderWay

\* An emission moves the log only where nothing is on its way.
LEMMA FlowsEmit ==
  ASSUME Typed, Lines, Held, Flows, Emit \/ EmitFails
  PROVE  Flows'
<1>1. UNCHANGED <<file, appending, off, awaiting, dropped, io, drain, batch, more, needs, boot,
                  pass, domain>>
  BY EmissionFrame
<1>2. \A r \in Rows : Emitted(r)
  BY EmissionFacts DEF Held
<1>3. \A r \in Rows : InFlight(r) => log'[r] = log[r]
  BY <1>2 DEF Emitted, Held, Untouched
<1>4. \A r, m : AnyLeft(r, m) => InFlight(r) /\ r \in Rows
  <2> SUFFICES ASSUME NEW r, NEW m, NEW v \in Nat, Left(r, v, m)
               PROVE  InFlight(r) /\ r \in Rows
    BY DEF AnyLeft
  <2>1. InFlight(r)
    BY DEF Left, Beyond, Queue, InFlight
  <2> QED
    BY <2>1, LeftBounds
<1>5. \A r, v, m : Left(r, v, m)' <=> Left(r, v, m)
  BY <1>1, SameLines
<1>6. \A r, m : AnyLeft(r, m)' <=> AnyLeft(r, m)
  BY <1>5 DEF AnyLeft
<1>7. PICK n : n = Start
  OBVIOUS
<1>8. PICK p : p = PageTo
  OBVIOUS
<1>9. Start' = n /\ PageTo' = p /\ (Lossy' <=> Lossy)
  BY <1>1, <1>7, <1>8 DEF Start, PageTo, Lossy
<1>10. Shows'
  <2> SUFFICES ASSUME NEW r \in Rows
               PROVE  \/ Lossy \/ Unsent(r)' \/ domain[r] = log'[r]
                      \/ drain = "mend" /\ pass.who # "drain"
                      \/ r \in pass.todo /\ pass.view[r] = log'[r]
                      \/ AnyLeft(r, n)
    BY <1>1, <1>6, <1>9 DEF Shows
  <2>1. CASE Unsent(r)
    <3>1. Unsent(r)' \/ log'[r] = LastEdit(r)
      BY <1>2, <2>1 DEF Emitted
    <3>2. domain[r] = LastEdit(r)
      BY <2>1 DEF Held, Untouched
    <3> QED
      BY <3>1, <3>2
  <2>2. CASE ~Unsent(r)
    <3>1. log'[r] = log[r]
      BY <1>2, <2>2 DEF Emitted
    <3> QED
      BY <1>7, <2>2, <3>1 DEF Flows, OnItsWay, Shows
  <2> QED
    BY <2>1, <2>2
<1>11. Reaches'
  <2> SUFFICES ASSUME NEW r \in Rows, AnyLeft(r, n)
               PROVE  Left(r, log[r], n)' \/ Lossy
    BY <1>6, <1>9 DEF Reaches
  <2>1. log'[r] = log[r]
    BY <1>3, <1>4
  <2>2. Left(r, log[r], n) \/ Lossy
    BY <1>7 DEF Flows, OnItsWay, Reaches
  <2> QED
    BY <1>5, <2>1, <2>2
<1>12. ViewHolds'
  <2> SUFFICES ASSUME NEW r \in pass.todo
               PROVE  pass.view[r] = log'[r] \/ AnyLeft(r, n) \/ Lossy
    BY <1>1, <1>6, <1>9 DEF ViewHolds
  <2>1. InFlight(r) /\ r \in Rows
    BY DEF InFlight, Typed, PassTyped
  <2>2. log'[r] = log[r]
    BY <1>3, <2>1
  <2> QED
    BY <1>7, <2>2 DEF Flows, OnItsWay, ViewHolds
<1>13. ReachesBehind'
  <2> SUFFICES ASSUME drain \in Answering, ~more, NEW r \in Rows, AnyLeft(r, p)
               PROVE  \/ Left(r, log[r], p)' \/ (dropped /\ drain # "skip")
                      \/ boot \in {"drain", "owed"}
    BY <1>1, <1>6, <1>9 DEF ReachesBehind, Answering
  <2>1. log'[r] = log[r]
    BY <1>3, <1>4
  <2>2. \/ Left(r, log[r], p) \/ (dropped /\ drain # "skip")
        \/ boot \in {"drain", "owed"}
    BY <1>8 DEF Flows, UnderWay, ReachesBehind, Answering
  <2> QED
    BY <1>5, <2>1, <2>2
<1>14. PageServed'
  BY <1>1 DEF Flows, UnderWay, PageServed
<1>15. PageShown'
  <2> SUFFICES ASSUME drain = "ack" \/ (drain = "acking" /\ io.step = "advance"),
                      NEW i \in off + 1 .. p,
                      file[i].whole, file[i].val = log'[file[i].row]
               PROVE  needs \/ domain[file[i].row] = log'[file[i].row]
    BY <1>1, <1>9 DEF PageShown
  <2>1. i \in DOMAIN file
    BY <1>8, PageToFacts, FilePlaces
  <2>2. file[i].row \in Rows /\ InFlight(file[i].row)
    BY <2>1, LineNumbers DEF InFlight
  <2>3. log'[file[i].row] = log[file[i].row]
    BY <1>3, <2>2
  <2> QED
    BY <1>8, <2>3 DEF Flows, UnderWay, PageShown
<1> QED
  BY <1>10, <1>11, <1>12, <1>13, <1>14, <1>15 DEF Flows, OnItsWay, UnderWay

\* Every step keeps advances forward.
LEMMA ForwardStep ==
  ASSUME Typed, Forward, [Next]_vars
  PROVE  Forward'
<1>1. off \in Nat /\ awaiting \in Nat
  BY FilePlaces DEF Typed, JournalTyped
<1>2. CASE Pull
  BY <1>1, <1>2, PageEndFacts, FilePlaces DEF Pull, Forward
<1>3. CASE Ack
  BY <1>1, <1>3 DEF Ack, Forward
<1>4. CASE Appended \/ AppendFails \/ Boot \/ Woken \/ Commit \/ CommitFails \/ Loop
           \/ BeginPass \/ PassPage \/ EndPass \/ PassFails \/ RendererDies \/ Emit \/ EmitFails
           \/ (\E r \in Rows : Edit(r)) \/ (\E rows \in SUBSET Rows : Apply(rows))
           \/ UNCHANGED vars
  <2>1. UNCHANGED <<io, off>>
    BY <1>4
    DEF Appended, AppendFails, Boot, Woken, Commit, CommitFails, Loop, BeginPass, PassPage,
        EndPass, PassFails, RendererDies, Emit, EmitFails, Edit, Apply, journal, vars
  <2> QED
    BY <2>1 DEF Forward
<1>5. CASE Advance \/ ZeroOffset \/ SwapFile \/ Skipped \/ Acked \/ AdvanceFails \/ UtilityDies
  <2>1. io'.step # "advance"
    BY <1>5
    DEF Advance, ZeroOffset, SwapFile, Skipped, Acked, AdvanceFails, UtilityDies, Quiet, Typed,
        AdvanceTyped
  <2> QED
    BY <2>1 DEF Forward
<1> QED
  BY <1>2, <1>3, <1>4, <1>5 DEF Next, Advancing, Draining, Passing

\* A step that changes nothing keeps the journal's side.
LEMMA FlowsStutter ==
  ASSUME Flows, UNCHANGED vars
  PROVE  Flows'
<1>1. UNCHANGED <<log, logged, appending, file, off, awaiting, dropped, io, drain, batch, more,
                  needs, boot, pass, domain, edits>>
  BY DEF vars, engine, journal, renderer, session
<1>2. PICK n : n = Start
  OBVIOUS
<1>3. PICK p : p = PageTo
  OBVIOUS
<1>4. Start' = n /\ PageTo' = p /\ (Lossy' <=> Lossy)
  BY <1>1, <1>2, <1>3 DEF Start, PageTo, Lossy
<1>5. /\ \A r, v, m : Left(r, v, m)' <=> Left(r, v, m)
      /\ \A r : Unsent(r)' <=> Unsent(r)
  BY <1>1, SameLines, SameEdits
<1>6. OnItsWay'
  BY <1>1, <1>2, <1>4, <1>5, OnItsWaySame DEF Flows
<1>7. ReachesBehind'
  BY <1>1, <1>3, <1>4, <1>5, BehindSame DEF Flows, UnderWay
<1>8. PageServed' /\ PageShown'
  BY <1>1, <1>3, <1>4 DEF Flows, UnderWay, PageServed, PageShown
<1> QED
  BY <1>6, <1>7, <1>8 DEF Flows, UnderWay

\* Every step keeps the journal's side.
LEMMA FlowsStep ==
  ASSUME IInv, Plain, [Next]_vars
  PROVE  Flows'
<1> USE DEF IInv
<1>1. CASE UNCHANGED vars
  BY <1>1, FlowsStutter
<1>2. ASSUME NEW rows \in SUBSET Rows, Apply(rows)
      PROVE  Flows'
  BY <1>2, FlowsApply
<1>3. ASSUME NEW r \in Rows, Edit(r)
      PROVE  Flows'
  BY <1>3, FlowsEdit
<1>4. CASE Appended \/ AppendFails \/ UtilityDies \/ Boot \/ RendererDies
  BY <1>4, FlowsAppended, FlowsAppendFails, FlowsDown
<1>5. CASE Advance \/ ZeroOffset \/ SwapFile \/ Skipped \/ Acked \/ AdvanceFails
  BY <1>5, FlowsAdvance, FlowsZero, FlowsSwap, FlowsEnds, FlowsAdvanceFails
<1>6. CASE Woken \/ CommitFails \/ Pull \/ Commit \/ Ack \/ Loop
  BY <1>6, FlowsIdles, FlowsPull, FlowsCommit, FlowsAck, FlowsLoop DEF Held
<1>7. CASE BeginPass \/ PassPage \/ EndPass \/ PassFails
  BY <1>7, FlowsBegin, FlowsPage, FlowsEnd, FlowsPassFails
<1>8. CASE Emit \/ EmitFails
  BY <1>8, FlowsEmit
<1> QED
  BY <1>1, <1>2, <1>3, <1>4, <1>5, <1>6, <1>7, <1>8 DEF Next, Advancing, Draining, Passing

\* The invariant is inductive.
LEMMA InvariantHolds ==
  ASSUME IInv, Plain, [Next]_vars
  PROVE  IInv'
<1>1. Typed' /\ QueueBounded'
  BY TypedStep, BoundedStep DEF IInv
<1>2. Lines' /\ Held' /\ BootAlone'
  BY LinesStep, HeldStep, BootAloneStep DEF IInv
<1>3. Forward'
  BY ForwardStep DEF IInv
<1>4. Flows'
  BY FlowsStep
<1> QED
  BY <1>1, <1>2, <1>3, <1>4 DEF IInv

\* It holds at the start: nothing is written and the renderer is down.
LEMMA InvariantStarts == Init => IInv
<1> SUFFICES ASSUME Init
             PROVE  IInv
  OBVIOUS
<1>1. /\ DOMAIN appending = {} /\ DOMAIN file = {} /\ DOMAIN emitq = {} /\ DOMAIN batch = {}
  BY DEF Init
<1>2. /\ drain = "down" /\ io.step = "idle" /\ pass = NoPass /\ edits = {} /\ off = 0
      /\ log = [r \in Rows |-> 0] /\ domain = [r \in Rows |-> 0]
  BY DEF Init, Quiet
<1>3. Typed /\ QueueBounded
  BY <1>1, TypedInit DEF QueueBounded
<1>4. Lines
  BY <1>1 DEF Lines, FileOrdered, QueueOrdered, FileFirst, LogAhead, QueueCurrent, InQueue
<1>5. \A r : Edits(r) = {} /\ ~Unsent(r)
  <2>1. \A r : Edits(r) = {}
    BY <1>2 DEF Edits
  <2> QED
    BY <2>1 DEF Unsent, LastEdit
<1>6. Sends
  BY <1>1, <1>2, <1>5 DEF Sends, EditsDistinct, LastEdits, EmitsOwnEdits, QueueInOrder, QueueKnown
<1>7. Held
  BY <1>2, <1>5, <1>6 DEF Held, Untouched, Bare, PassRows, BootFinds, NoPass
<1>8. BootAlone /\ Forward
  BY <1>2 DEF BootAlone, Forward, NoPass
<1>9. Lossy
  BY <1>2 DEF Lossy
<1>10. OnItsWay
  BY <1>9 DEF OnItsWay, Shows, Reaches, ViewHolds
<1>11. UnderWay
  BY <1>2 DEF UnderWay, ReachesBehind, PageServed, PageShown
<1> QED
  BY <1>3, <1>4, <1>7, <1>8, <1>10, <1>11 DEF IInv, Flows

\* What waits in the queue ends on the log's value.
LEMMA QueueShows ==
  ASSUME Typed, Lines, NEW r \in Rows,
         NEW with, with = {i \in DOMAIN appending : Has(appending[i], r)}, with # {}
  PROVE  LastOf(appending[CHOOSE i \in with : \A j \in with : j <= i], r) = log[r]
<1>1. /\ appending \in Seq(Seq(Line)) /\ Len(appending) \in Nat
      /\ DOMAIN appending = 1 .. Len(appending)
  BY LenProperties DEF Typed, LinesTyped
<1>2. with \in SUBSET Nat /\ \A i \in with : i <= Len(appending)
  BY <1>1
<1>3. PICK m \in with : \A j \in with : j <= m
  BY <1>1, <1>2, LastPosition
<1>4. (CHOOSE i \in with : \A j \in with : j <= i) = m
  <2>1. \A i \in with : (\A j \in with : j <= i) => i = m
    BY <1>2, <1>3
  <2> QED
    BY <1>3, <2>1
<1>5. m \in DOMAIN appending /\ Has(appending[m], r)
  BY <1>3
<1>6. appending[m] \in Seq(Line) /\ DOMAIN appending[m] = 1 .. Len(appending[m])
      /\ Len(appending[m]) \in Nat
  BY <1>1, <1>5, ElementOfSeq, LenProperties
<1>7. DOMAIN appending[m] \subseteq 0 .. Len(appending[m])
  BY <1>6
<1>8. PICK k \in DOMAIN appending[m] :
        appending[m][k].row = r /\ LastOf(appending[m], r) = appending[m][k].val
  <2>0. PICK n \in Nat : n = Len(appending[m])
    BY <1>6, Zenon
  <2>1. PICK list : list = appending[m]
    OBVIOUS
  <2>2. DOMAIN list \subseteq 0 .. n /\ Has(list, r)
    BY <1>5, <1>7, <2>0, <2>1
  <2>3. PICK k \in DOMAIN list : list[k].row = r /\ LastOf(list, r) = list[k].val
    BY <2>2, LastOfFacts
  <2>4. k \in DOMAIN appending[m] /\ appending[m][k].row = r
    BY <2>1, <2>3
  <2>5. LastOf(appending[m], r) = appending[m][k].val
    BY <2>1, <2>3
  <2> QED
    BY <2>4, <2>5
<1>9. InQueue(r)
  BY <1>5, <1>8 DEF InQueue
<1>10. PICK i \in DOMAIN appending : \E q \in DOMAIN appending[i] :
         appending[i][q].row = r /\ appending[i][q].val = log[r]
  BY <1>9 DEF Lines, QueueCurrent, Queue
<1>11. PICK q \in DOMAIN appending[i] : appending[i][q].row = r /\ appending[i][q].val = log[r]
  BY <1>10
<1>12. i \in with
  BY <1>11 DEF Has
<1>13. i <= m
  BY <1>3, <1>12
<1>14. log[r] <= appending[m][k].val
  BY <1>5, <1>8, <1>11, <1>13 DEF Lines, QueueOrdered
<1>15. appending[m][k].val <= log[r]
  BY <1>5, <1>8 DEF Lines, LogAhead
<1>16. log[r] \in Nat /\ appending[m][k].val \in Nat
  <2>1. made \in Nat /\ log[r] \in 0 .. made /\ appending[m][k].val \in 1 .. made
    BY <1>5, <1>8, LineNumbers
  <2> QED
    BY <2>1
<1>17. appending[m][k].val = log[r]
  BY <1>14, <1>15, <1>16
<1>18. LastOf(appending[m], r) = log[r]
  BY <1>8, <1>17
<1> QED
  BY <1>4, <1>18

\* The lines no page has served, when all of the file past the offset can be
\* parsed.
LEMMA UnreadFacts ==
  ASSUME Typed, \A i \in off + 1 .. Len(file) : Parses(i)
  PROVE  /\ Start \in Nat /\ off <= Start
         /\ DOMAIN Unread = Start + 1 .. Len(file)
         /\ DOMAIN Unread \subseteq DOMAIN file
         /\ \A i \in DOMAIN Unread : Unread[i] = file[i] /\ file[i].whole
<1>1. off \in 0 .. Len(file) /\ Len(file) \in Nat /\ DOMAIN file = 1 .. Len(file)
  BY FilePlaces
<1>2. Start \in Nat /\ off <= Start
  <2>1. CASE io.step = "copy"
    <3>1. off = 0 /\ io.to \in Nat
      BY <2>1 DEF Typed, AdvanceTyped
    <3> QED
      BY <2>1, <3>1 DEF Start
  <2>2. CASE io.step # "copy"
    BY <1>1, <2>2 DEF Start
  <2> QED
    BY <2>1, <2>2
<1>3. PICK n \in Nat : n = Start
  BY <1>2
<1>4. \A i \in n + 1 .. Len(file) : i \in off + 1 .. Len(file) /\ i \in DOMAIN file
  BY <1>1, <1>2, <1>3
<1>5. \A i \in n + 1 .. Len(file) : Parses(i) /\ file[i].whole
  BY <1>4 DEF Parses
<1>6. DOMAIN Unread = n + 1 .. Len(file)
  <2>1. Unread = [i \in {i \in n + 1 .. Len(file) : Parses(i)} |-> file[i]]
    BY <1>3 DEF Unread
  <2>2. {i \in n + 1 .. Len(file) : Parses(i)} = n + 1 .. Len(file)
    BY <1>5
  <2> QED
    BY <2>1, <2>2
<1>7. \A i \in DOMAIN Unread : Unread[i] = file[i]
  BY DEF Unread
<1> QED
  BY <1>2, <1>3, <1>4, <1>5, <1>6, <1>7

\* What stands unread in the file ends on the log's value.
LEMMA UnreadShows ==
  ASSUME Typed, Lines, Reaches, ~Lossy, \A i \in off + 1 .. Len(file) : Parses(i),
         NEW r \in Rows, \A v : ~Queue(r, v), Has(Unread, r)
  PROVE  LastOf(Unread, r) = log[r]
<1>1. PICK n \in Nat : n = Start
  BY UnreadFacts
<1>2. /\ DOMAIN Unread = n + 1 .. Len(file) /\ DOMAIN Unread \subseteq DOMAIN file
      /\ \A i \in DOMAIN Unread : Unread[i] = file[i] /\ file[i].whole
      /\ Len(file) \in Nat /\ DOMAIN file = 1 .. Len(file)
  BY <1>1, UnreadFacts, FilePlaces
<1>3. DOMAIN Unread \subseteq 0 .. Len(file)
  BY <1>2
<1>4. PICK k \in DOMAIN Unread :
        /\ Unread[k].row = r /\ LastOf(Unread, r) = Unread[k].val
        /\ \A j \in DOMAIN Unread : Unread[j].row = r => j <= k
  BY <1>2, <1>3, LastOfFacts
<1>5. k \in DOMAIN file /\ file[k].whole /\ file[k].row = r /\ n < k
  BY <1>2, <1>4
<1>6. Left(r, file[k].val, n)
  BY <1>5 DEF Left, Beyond
<1>7. file[k].val \in Nat
  BY <1>5, LineNumbers
<1>8. Left(r, log[r], n)
  BY <1>1, <1>6, <1>7 DEF Reaches, AnyLeft
<1>9. PICK j \in DOMAIN file : n < j /\ file[j].whole /\ file[j].row = r /\ file[j].val = log[r]
  BY <1>8 DEF Left, Beyond
<1>10. j \in DOMAIN Unread
  BY <1>2, <1>9
<1>11. j <= k
  BY <1>2, <1>4, <1>9, <1>10
<1>12. log[r] <= file[k].val
  BY <1>5, <1>9, <1>11 DEF Lines, FileOrdered
<1>13. file[k].val <= log[r]
  BY <1>5 DEF Lines, LogAhead
<1>14. log[r] \in Nat
  BY LineNumbers
<1> QED
  BY <1>2, <1>4, <1>7, <1>12, <1>13, <1>14

\* The page being committed is unread until it is acknowledged.
LEMMA BatchUnread ==
  ASSUME Typed, \A i \in off + 1 .. Len(file) : Parses(i), NEW r \in Rows, Has(batch, r)
  PROVE  Has(Unread, r)
<1>1. PICK i \in DOMAIN batch : batch[i].row = r
  BY DEF Has
<1>2. drain = "commit"
  BY <1>1 DEF Typed, PageTyped
<1>3. io.step = "idle" /\ Start = off
  BY <1>2, StartFacts
<1>4. /\ i \in off + 1 .. off + awaiting /\ batch[i].row = file[i].row
      /\ i \in DOMAIN file
  BY <1>1, <1>2 DEF Typed, PageTyped
<1>5. i \in off + 1 .. Len(file)
  BY <1>4, FilePlaces DEF Typed, JournalTyped
<1>6. i \in DOMAIN Unread /\ Unread[i] = file[i]
  BY <1>3, <1>5, UnreadFacts
<1> QED
  BY <1>1, <1>4, <1>6 DEF Has

\* It says of each row what ProjectionOwed says.
LEMMA InvariantOwes == IInv => ProjectionOwed
<1> SUFFICES ASSUME IInv, NEW r \in Rows, ~Unsent(r), ~Recovering(r)
             PROVE  Coming(r) = log[r]
  BY DEF ProjectionOwed
<1>1. Typed /\ Lines /\ Shows /\ Reaches
  BY DEF IInv, Flows, OnItsWay
<1>2. ~Lossy
  BY DEF Recovering, Lossy
<1>3. \A i \in off + 1 .. Len(file) : Parses(i)
  BY DEF Recovering
<1>4. /\ ~(drain = "mend" /\ pass.who # "drain")
      /\ ~(r \in pass.todo /\ pass.view[r] = log[r])
  BY DEF Recovering
<1>5. PICK with : with = {i \in DOMAIN appending : Has(appending[i], r)}
  OBVIOUS
<1>6. CASE with # {}
  <2>1. Coming(r) = LastOf(appending[CHOOSE i \in with : \A j \in with : j <= i], r)
    BY <1>5, <1>6 DEF Coming
  <2> QED
    BY <1>1, <1>5, <1>6, <2>1, QueueShows
<1>7. CASE with = {}
  <2>1. \A v : ~Queue(r, v)
    BY <1>5, <1>7 DEF Queue, Has
  <2>2. CASE Has(Unread, r)
    <3>1. Coming(r) = LastOf(Unread, r)
      BY <1>5, <1>7, <2>2 DEF Coming
    <3> QED
      BY <1>1, <1>2, <1>3, <2>1, <2>2, <3>1, UnreadShows
  <2>3. CASE ~Has(Unread, r)
    <3>1. ~Has(batch, r)
      BY <1>1, <1>3, <2>3, BatchUnread
    <3>2. Coming(r) = domain[r]
      BY <1>5, <1>7, <2>3, <3>1 DEF Coming
    <3>3. ~AnyLeft(r, Start)
      <4> SUFFICES ASSUME NEW v \in Nat, Left(r, v, Start)
                   PROVE  FALSE
        BY DEF AnyLeft
      <4>1. PICK i \in DOMAIN file : Start < i /\ file[i].row = r
        BY <2>1 DEF Left, Beyond
      <4>2. i \in DOMAIN Unread /\ Unread[i] = file[i]
        BY <1>1, <1>3, <4>1, UnreadFacts, FilePlaces
      <4> QED
        BY <2>3, <4>1, <4>2 DEF Has
    <3> QED
      BY <1>1, <1>2, <1>4, <3>2, <3>3 DEF Shows
  <2> QED
    BY <2>2, <2>3
<1> QED
  BY <1>6, <1>7

-----------------------------------------------------------------------------
(* The theorems of the schedules the code is written for.                  *)

\* So it holds of every behaviour without those schedules.
LEMMA InvariantAlways == Plain => (Spec => []IInv)
<1> SUFFICES ASSUME Plain
             PROVE  Spec => []IInv
  OBVIOUS
<1>1. Init => IInv
  BY InvariantStarts
<1>2. IInv /\ [Next]_vars => IInv'
  BY InvariantHolds
<1> QED
  BY <1>1, <1>2, PTL DEF Spec

\* Only the user's own edits are emitted: neither the emission queue nor the
\* boot pass's diff ever hands the log a peer's write as this device's, even
\* when the diff is taken beside a retried emission or after a crash lost the
\* queue.
THEOREM EmitsOnlyEdits == Plain => (Spec => []EmitsOwnEdits)
<1> SUFFICES ASSUME Plain
             PROVE  Spec => []EmitsOwnEdits
  OBVIOUS
<1>1. IInv => EmitsOwnEdits
  BY DEF IInv, Held, Sends
<1>2. Spec => []IInv
  BY InvariantAlways
<1> QED
  BY <1>1, <1>2, PTL

\* Nothing the log holds is lost to the library: through torn appends, pages
\* that are stepped over, commits that fail, acks that never come, crashes of
\* either process and compactions, each row shows the log's value, will once
\* the pipeline is read, or is owed a pass.
THEOREM OwesProjection == Plain => (Spec => []ProjectionOwed)
<1> SUFFICES ASSUME Plain
             PROVE  Spec => []ProjectionOwed
  OBVIOUS
<1>1. IInv => ProjectionOwed
  BY InvariantOwes
<1>2. Spec => []IInv
  BY InvariantAlways
<1> QED
  BY <1>1, <1>2, PTL
=============================================================================
