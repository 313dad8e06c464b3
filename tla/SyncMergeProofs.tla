--------------------------- MODULE SyncMergeProofs ---------------------------
(***************************************************************************)
(* The theorems of SyncMerge.                                              *)
(*                                                                         *)
(* The inductive invariant Inv adds to the checked invariants only that a  *)
(* device accepted what it wrote itself.  Its core is FrontierSound: the   *)
(* tombstones, candidates and caches of a device stand for everything it   *)
(* accepted.  NoSilentLoss needs a winner in every non-empty partition     *)
(* too, and so that only finitely many entries were ever written.          *)
(***************************************************************************)
EXTENDS SyncMerge, SyncRulesProofs

\* The wall clock reads stamps' wall times.
LEMMA TimesAreNat == Times \subseteq 0 .. MaxInt
BY InputsAssumption

-----------------------------------------------------------------------------
(* The inductive invariant.                                                *)

\* A device has accepted whatever it wrote itself.
OwnAccepted == \A e \in emitted : e \in acc[e.dev]

Inv ==
  /\ TypeOK
  /\ KeysIdentify
  /\ ClockCoversAccepted
  /\ OwnAccepted
  /\ FrontierSound

\* One entry is accepted by d: what Emit and Accept have in common.
LEMMA AcceptSound ==
  ASSUME Inv, NEW d \in Devices, NEW e \in Entry, e \notin acc[d],
         KeyDistinct(emitted' ), emitted' = emitted \cup {e},
         acc' = [acc EXCEPT ![d] = @ \cup {e}],
         merge' = [merge EXCEPT ![d] = Reduce(@, e)],
         NEW s \in Stamp, clock' = [clock EXCEPT ![d] = s],
         StampLeq(clock[d], s), StampLeq(e, s),
         e \in emitted \/ e.dev = d,
         localSeq' \in [Devices -> Nat]
  PROVE  Inv'
<1>1. /\ emitted \subseteq Entry /\ acc \in [Devices -> SUBSET emitted]
      /\ clock \in [Devices -> Stamp]
      /\ \A x \in Devices : DeviceSound(merge[x], acc[x])
      /\ merge = [x \in Devices |-> merge[x]]
  BY DEF Inv, TypeOK, FrontierSound, DeviceSound
<1>2. /\ acc'[d] = acc[d] \cup {e} /\ merge'[d] = Reduce(merge[d], e) /\ clock'[d] = s
      /\ \A x \in Devices \ {d} :
           acc'[x] = acc[x] /\ merge'[x] = merge[x] /\ clock'[x] = clock[x]
  BY <1>1
<1>3. Arriving(merge[d], acc[d], e)
  <2>1. KeyDistinct(acc[d] \cup {e})
    BY <1>1 DEF KeyDistinct
  <2>2. e \notin merge[d].live
    BY <1>1 DEF DeviceSound
  <2> QED
    BY <1>1, <2>1, <2>2 DEF Arriving, DeviceSound
<1>4. \A x \in Devices : DeviceSound(merge'[x], acc'[x])
  <2>1. DeviceSound(merge'[d], acc'[d])
    <3>1. merge[d].rows \subseteq acc[d]
      BY <1>1 DEF DeviceSound
    <3> QED
      BY <1>2, <1>3, <3>1, ReduceSound
  <2> QED
    BY <1>1, <1>2, <2>1
<1>5. TypeOK'
  <2>1. acc' \in [Devices -> SUBSET emitted'] /\ clock' \in [Devices -> Stamp]
        /\ emitted' \subseteq Entry
    BY <1>1
  <2>2. merge' = [x \in Devices |-> merge'[x]]
    BY <1>1
  <2> QED
    BY <1>4, <2>1, <2>2 DEF TypeOK, DeviceSound
<1>6. KeysIdentify'
  BY DEF KeysIdentify, KeyDistinct
<1>7. ClockCoversAccepted'
  <2>1. ASSUME NEW y \in acc[d]
        PROVE  StampLeq(y, s)
    <3>1. /\ y.l \in Nat /\ y.c \in Nat /\ clock[d].l \in Nat /\ clock[d].c \in Nat
          /\ s.l \in Nat /\ s.c \in Nat /\ StampLeq(y, clock[d])
      BY <1>1, EntryFacts, ConstantsAssumption DEF Inv, ClockCoversAccepted, Stamp
    <3> QED
      BY <3>1 DEF StampLeq
  <2>2. ASSUME NEW x \in Devices, NEW y \in acc'[x]
        PROVE  StampLeq(y, clock'[x])
    BY <1>2, <2>1 DEF Inv, ClockCoversAccepted
  <2> QED
    BY <2>2 DEF ClockCoversAccepted
<1>8. OwnAccepted'
  BY <1>1, <1>2, EntryFacts DEF Inv, OwnAccepted
<1>9. FrontierSound'
  BY <1>4 DEF FrontierSound, DeviceSound
<1> QED
  BY <1>5, <1>6, <1>7, <1>8, <1>9 DEF Inv

\* A local write: the ticked stamp is above everything the device accepted,
\* so the new entry is a new key.
LEMMA EmitSound ==
  ASSUME Inv, NEW d \in Devices, NEW now \in Times, NEW s \in Tick(clock[d], now),
         NEW e \in Entry, e.l = s.l, e.c = s.c, e.dev = d, Emit(d, e, s)
  PROVE  Inv'
<1>1. /\ acc \in [Devices -> SUBSET emitted] /\ clock \in [Devices -> Stamp]
      /\ emitted \subseteq Entry /\ localSeq \in [Devices -> Nat]
      /\ KeyDistinct(emitted)
  BY DEF Inv, TypeOK, KeysIdentify, KeyDistinct
<1>2. s \in Stamp /\ StampLeq(clock[d], s) /\ ~StampLeq(s, clock[d])
  BY <1>1, TimesAreNat, TickFacts
<1>3. ASSUME NEW y \in emitted
      PROVE  KeyOf(y) # KeyOf(e)
  <2>1. SUFFICES ASSUME y.dev = d, y.l = s.l, y.c = s.c
                 PROVE  FALSE
    BY DEF KeyOf
  <2>2. StampLeq(y, clock[d])
    BY <1>1, <2>1 DEF Inv, OwnAccepted, ClockCoversAccepted
  <2> QED
    BY <1>2, <2>1, <2>2 DEF StampLeq
<1>4. KeyDistinct(emitted') /\ e \notin acc[d]
  BY <1>1, <1>3 DEF Emit, KeyDistinct
<1>5. StampLeq(e, s)
  BY <1>2, ConstantsAssumption DEF StampLeq, Stamp
<1>6. localSeq' \in [Devices -> Nat]
  BY <1>1 DEF Emit
<1> QED
  BY <1>2, <1>4, <1>5, <1>6, AcceptSound DEF Emit

\* The invariant holds at the start.
LEMMA InitSound == Init => Inv
<1>1. \A x : x \notin {}
  OBVIOUS
<1>2. CachesFresh(EmptyMerge)
  BY DEF CachesFresh, EmptyMerge, CellWinners, CellValue, Cell
<1>3. DeviceSound(EmptyMerge, {})
  BY <1>2 DEF DeviceSound, EmptyMerge, IsMerge, TombsNewest, LiveCovers, Alive
<1>4. SUFFICES ASSUME Init PROVE Inv
  OBVIOUS
<1>5. \A d \in Devices : DeviceSound(merge[d], acc[d])
  BY <1>3, <1>4 DEF Init
<1>6. TypeOK
  BY <1>4, <1>5, ConstantsAssumption DEF Init, TypeOK, DeviceSound, Stamp
<1> QED
  BY <1>4, <1>5, <1>6
     DEF Init, Inv, KeysIdentify, ClockCoversAccepted, OwnAccepted, FrontierSound, DeviceSound

\* A step is a local write, stamped by a tick, or takes one entry in.
LEMMA StepCases ==
  ASSUME Inv, Next
  PROVE  \E d \in Devices, now \in Times :
           \/ \E s \in Tick(clock[d], now), e \in Entry :
                e.l = s.l /\ e.c = s.c /\ e.dev = d /\ Emit(d, e, s)
           \/ \E e \in emitted : Accept(d, e, now)
<1>0. clock \in [Devices -> Stamp] /\ localSeq \in [Devices -> Nat]
  BY DEF Inv, TypeOK
<1>1. ASSUME NEW d \in Devices, NEW now \in Times, NEW rec \in Records,
             NEW field \in Fields, NEW val \in Values, WriteField(d, rec, field, val, now)
      PROVE  \E s \in Tick(clock[d], now), e \in Entry :
               e.l = s.l /\ e.c = s.c /\ e.dev = d /\ Emit(d, e, s)
  <2>1. PICK s \in Tick(clock[d], now) : Emit(d, FieldChange(d, rec, field, val, s), s)
    BY <1>1 DEF WriteField
  <2> DEFINE e == FieldChange(d, rec, field, val, s)
  <2>2. s \in Stamp
    BY <1>0, TimesAreNat, TickFacts
  <2>3. e \in Entry /\ e.l = s.l /\ e.c = s.c /\ e.dev = d
    BY <1>0, <2>2, InputsAssumption DEF FieldChange, Entry, FieldEntry, Stamp
  <2> HIDE DEF e
  <2> QED
    BY <2>1, <2>3 DEF e
<1>2. ASSUME NEW d \in Devices, NEW now \in Times, NEW rec \in Records,
             WriteTomb(d, rec, now)
      PROVE  \E s \in Tick(clock[d], now), e \in Entry :
               e.l = s.l /\ e.c = s.c /\ e.dev = d /\ Emit(d, e, s)
  <2>1. PICK s \in Tick(clock[d], now) : Emit(d, TombChange(d, rec, s), s)
    BY <1>2 DEF WriteTomb
  <2> DEFINE e == TombChange(d, rec, s)
  <2>2. s \in Stamp
    BY <1>0, TimesAreNat, TickFacts
  <2>3. e \in Entry /\ e.l = s.l /\ e.c = s.c /\ e.dev = d
    BY <1>0, <2>2 DEF TombChange, Entry, TombEntry, Stamp
  <2> HIDE DEF e
  <2> QED
    BY <2>1, <2>3 DEF e
<1> QED
  BY <1>1, <1>2 DEF Next

\* Every step preserves the invariant.
LEMMA NextSound == Inv /\ [Next]_vars => Inv'
<1> SUFFICES ASSUME Inv, [Next]_vars PROVE Inv'
  OBVIOUS
<1>0. /\ acc \in [Devices -> SUBSET emitted] /\ clock \in [Devices -> Stamp]
      /\ emitted \subseteq Entry /\ localSeq \in [Devices -> Nat]
  BY DEF Inv, TypeOK
<1>1. ASSUME NEW d \in Devices, NEW now \in Times, NEW e \in emitted, Accept(d, e, now)
      PROVE  Inv'
  <2>1. PICK s \in Receive(clock[d], e, now) : clock' = [clock EXCEPT ![d] = s]
    BY <1>1 DEF Accept
  <2>2. s \in Stamp /\ StampLeq(clock[d], s) /\ StampLeq(e, s)
    BY <1>0, <2>1, TimesAreNat, ReceiveFacts
  <2>3. KeyDistinct(emitted') /\ emitted' = emitted \cup {e} /\ localSeq' \in [Devices -> Nat]
    BY <1>0, <1>1 DEF Inv, KeysIdentify, KeyDistinct, Accept
  <2> QED
    BY <1>0, <1>1, <2>1, <2>2, <2>3, AcceptSound DEF Accept
<1>2. CASE Next
  BY <1>1, <1>2, StepCases, EmitSound
<1>3. CASE UNCHANGED vars
  BY <1>3 DEF vars, Inv, TypeOK, KeysIdentify, ClockCoversAccepted, OwnAccepted, FrontierSound
<1> QED
  BY <1>2, <1>3

\* The invariant holds in every reachable state, for any devices, records,
\* fields, values, clock readings and bound on the writes.
THEOREM Invariance == Spec => []Inv
BY InitSound, NextSound, PTL DEF Spec

\* The state keeps its shape: what a device accepted was emitted, and its
\* merge state is made of what it accepted.
THEOREM TypeCorrect == Spec => []TypeOK
BY Invariance, PTL DEF Inv

\* entryKey identifies an entry, so the dedupe never drops a new change.
THEOREM KeysAreIdentities == Spec => []KeysIdentify
BY Invariance, PTL DEF Inv

\* The frontier a device keeps stands for everything it accepted.
THEOREM FrontierIsSound == Spec => []FrontierSound
BY Invariance, PTL DEF Inv

\* The clock of a device never falls behind what it has accepted.
THEOREM ClockCovers == Spec => []ClockCoversAccepted
BY Invariance, PTL DEF Inv

\* The incremental merge shows what the accepted set means.
THEOREM ViewIsCorrect == Spec => []ViewCorrect
<1>1. Inv => ViewCorrect
  <2> SUFFICES ASSUME Inv, NEW d \in Devices
               PROVE  merge[d].shown = View(acc[d])
    BY DEF ViewCorrect
  <2>1. acc[d] \in SUBSET Entry
    BY DEF Inv, TypeOK
  <2> QED
    BY <2>1, FrontierView DEF Inv, FrontierSound
<1> QED
  BY <1>1, Invariance, PTL

\* Devices that accepted the same entries show the same library, whatever
\* the order in which the entries reached them.
THEOREM Converges == Spec => []Convergence
<1>1. ViewCorrect => Convergence
  BY DEF ViewCorrect, Convergence
<1> QED
  BY <1>1, ViewIsCorrect, PTL

-----------------------------------------------------------------------------
(* The shared library.                                                     *)

\* In every state of the invariant, what a device shows is the view of what
\* it accepted.
LEMMA ShownIsView ==
  ASSUME Inv
  PROVE  \A d \in Devices : merge[d].shown = View(acc[d])
<1> SUFFICES ASSUME NEW d \in Devices
             PROVE  merge[d].shown = View(acc[d])
  OBVIOUS
<1>1. acc[d] \in SUBSET Entry
  BY DEF Inv, TypeOK
<1> QED
  BY <1>1, FrontierView DEF Inv, FrontierSound

\* A step that gives d one more entry moves d's view alone.
LEMMA ShowingMoves ==
  ASSUME Inv, Inv', NEW d \in Devices,
         \A x \in Devices \ {d} : merge'[x] = merge[x]
  PROVE  Library!Showing(d)
<1> DEFINE old == [x \in Devices |-> merge[x].shown]
           new == [x \in Devices |-> merge'[x].shown]
<1>1. new[d] = View(acc'[d])
  <2>1. acc'[d] \in SUBSET Entry
    BY DEF Inv, TypeOK
  <2> QED
    BY <2>1, FrontierView DEF Inv, FrontierSound
<1>2. new = [old EXCEPT ![d] = View(acc'[d])]
  BY <1>1
<1> QED
  BY <1>2 DEF Library!Showing

\* A local write is new, and above everything its device had accepted.
LEMMA EmitAbove ==
  ASSUME Inv, NEW d \in Devices, NEW now \in Times, NEW s \in Tick(clock[d], now),
         NEW e \in Entry, e.l = s.l, e.c = s.c, e.dev = d
  PROVE  e \notin emitted /\ \A k \in acc[d] : Less(k, e)
<1>1. /\ acc \in [Devices -> SUBSET emitted] /\ clock \in [Devices -> Stamp]
      /\ emitted \subseteq Entry
  BY DEF Inv, TypeOK
<1>2. s \in Stamp /\ StampLeq(clock[d], s) /\ ~StampLeq(s, clock[d])
  BY <1>1, TimesAreNat, TickFacts
<1>3. ASSUME NEW k \in acc[d]
      PROVE  Less(k, e)
  <2>1. StampLeq(k, clock[d]) /\ k \in Entry /\ clock[d] \in Stamp
    BY <1>1 DEF Inv, ClockCoversAccepted
  <2>2. /\ k.l \in Nat /\ k.c \in Nat /\ clock[d].l \in Nat /\ clock[d].c \in Nat
        /\ s.l \in Nat /\ s.c \in Nat
    BY <1>2, <2>1, EntryFacts, ConstantsAssumption DEF Stamp
  <2> QED
    BY <1>2, <2>1, <2>2 DEF StampLeq, Less
<1>4. e \in emitted => e \in acc[d]
  BY DEF Inv, OwnAccepted
<1> QED
  BY <1>3, <1>4, LessOrder

\* A local write is a step of the library.
LEMMA EmitIsWrite ==
  ASSUME Inv, Inv', NEW d \in Devices, NEW now \in Times, NEW s \in Tick(clock[d], now),
         NEW e \in Entry, e.l = s.l, e.c = s.c, e.dev = d, Emit(d, e, s)
  PROVE  Library!LibWrite(d)
<1>1. e \notin emitted /\ \A k \in acc[d] : Less(k, e)
  BY EmitAbove
<1>2. /\ emitted' = emitted \cup {e} /\ acc' = [acc EXCEPT ![d] = @ \cup {e}]
      /\ \A x \in Devices \ {d} : merge'[x] = merge[x]
  BY DEF Emit, Inv, TypeOK
<1>3. Library!Showing(d)
  BY <1>2, ShowingMoves
<1> QED
  BY <1>1, <1>2, <1>3 DEF Library!LibWrite

\* An entry taken in from outside is a step of the library.
LEMMA AcceptIsLearn ==
  ASSUME Inv, Inv', NEW d \in Devices, NEW now \in Times, NEW e \in emitted,
         Accept(d, e, now)
  PROVE  Library!LibLearn(d)
<1>1. acc \in [Devices -> SUBSET emitted]
  BY DEF Inv, TypeOK
<1>2. /\ emitted' = emitted /\ acc' = [acc EXCEPT ![d] = @ \cup {e}]
      /\ \A x \in Devices \ {d} : merge'[x] = merge[x]
  BY DEF Accept, Inv, TypeOK
<1>3. Library!Showing(d)
  BY <1>2, ShowingMoves
<1>4. /\ acc'[d] \subseteq emitted /\ acc[d] \subseteq acc'[d]
      /\ acc' = [acc EXCEPT ![d] = acc'[d]]
  BY <1>1, <1>2
<1> QED
  BY <1>2, <1>3, <1>4 DEF Library!LibLearn

\* Every step of the merge is a step of the library or leaves it alone.
LEMMA StepIsLibrary == Inv /\ Inv' /\ [Next]_vars => [Library!LibNext]_(Library!libVars)
<1> SUFFICES ASSUME Inv, Inv', [Next]_vars
             PROVE  [Library!LibNext]_(Library!libVars)
  OBVIOUS
<1>1. CASE Next
  BY <1>1, StepCases, EmitIsWrite, AcceptIsLearn DEF Library!LibNext
<1>2. CASE UNCHANGED vars
  BY <1>2 DEF vars, Library!libVars
<1> QED
  BY <1>1, <1>2

\* The merge implements the shared library: nothing a device shows ever
\* depends on the order in which changes reached it.
THEOREM MergeImplementsLibrary == Spec => ImplementsLibrary
<1>1. Init => Library!LibInit
  <2> SUFFICES ASSUME Init PROVE Library!LibInit
    OBVIOUS
  <2>1. Inv
    BY InitSound
  <2>2. \A d \in Devices : acc[d] = {}
    BY DEF Init
  <2>3. [d \in Devices |-> merge[d].shown] = [d \in Devices |-> View({})]
    BY <2>1, <2>2, ShownIsView
  <2> QED
    BY <2>3 DEF Init, Library!LibInit
<1> QED
  BY <1>1, StepIsLibrary, Invariance, PTL DEF Spec, ImplementsLibrary, Library!LibSpec

-----------------------------------------------------------------------------
(* Local writes.                                                           *)

\* A device that takes an entry in emits none.
LEMMA AcceptEmitsNone ==
  ASSUME NEW d \in Devices, NEW now \in Times, NEW e \in emitted, Accept(d, e, now)
  PROVE  WriteShown
BY DEF Accept, WriteShown

\* What a device writes is what it shows at once.
LEMMA EmitShows ==
  ASSUME Inv, Inv', NEW d \in Devices, NEW now \in Times, NEW s \in Tick(clock[d], now),
         NEW e \in Entry, e.l = s.l, e.c = s.c, e.dev = d, Emit(d, e, s)
  PROVE  WriteShown
<1>1. \A k \in acc[d] : Less(k, e)
  BY EmitAbove
<1>2. emitted' = emitted \cup {e} /\ acc'[d] = acc[d] \cup {e}
  BY DEF Emit, Inv, TypeOK
<1>3. acc'[d] \in SUBSET Entry
  BY DEF Inv, TypeOK
<1>4. merge'[d].shown = View(acc'[d])
  BY <1>3, FrontierView DEF Inv, FrontierSound
<1>5. /\ e.field \in LwwFields => merge'[d].shown[SlotOf(e)] = e.val
      /\ IsTomb(e) => \A f \in Fields : merge'[d].shown[<<e.rec, f>>] = Absent
  BY <1>1, <1>2, <1>3, <1>4, NewestShows
<1> QED
  BY <1>2, <1>5 DEF WriteShown

\* What a user writes never loses to what their device already had.
THEOREM LocalWritesShow == Spec => LocalWriteShows
<1>1. Inv /\ Inv' /\ [Next]_vars => [WriteShown]_vars
  <2> SUFFICES ASSUME Inv, Inv', Next PROVE WriteShown
    OBVIOUS
  <2> QED
    BY StepCases, EmitShows, AcceptEmitsNone
<1> QED
  BY <1>1, Invariance, PTL DEF Spec, LocalWriteShows

-----------------------------------------------------------------------------
(* Nothing is lost silently.                                               *)

\* The candidates that compete with e.
Partition(L, e) == {x \in L : SamePartition(x, e)}

\* Partitions are equivalence classes.
LEMMA PartitionFacts ==
  ASSUME NEW L, NEW x, NEW y, SamePartition(x, y)
  PROVE  /\ SamePartition(y, x)
         /\ Partition(L, x) = Partition(L, y)
BY DEF SamePartition, Partition, SlotOf

\* The contest of a new entry is with the winners of its partition.
LEMMA RivalsAreWinners ==
  ASSUME NEW m, NEW S, NEW e, Arriving(m, S, e)
  PROVE  Rivals(m, e) = Winners(Partition(m.live, e))
<1>1. CASE e.field \in SumFields
  BY <1>1 DEF Rivals, Partition
<1>2. CASE e.field \notin SumFields
  <2>1. Partition(m.live, e) = Cell(m.live, SlotOf(e))
    BY <1>2 DEF Partition, SamePartition, Cell, SlotOf
  <2>2. m.win = CellWinners(m.live)
    BY DEF Arriving, CachesFresh
  <2>3. Cell(m.win, SlotOf(e)) = Winners(Cell(m.live, SlotOf(e)))
    BY <2>2 DEF Cell, CellWinners, Winners
  <2> QED
    BY <1>2, <2>1, <2>3 DEF Rivals
<1> QED
  BY <1>1, <1>2

\* A newcomer touches no other partition.
LEMMA OtherPartitions ==
  ASSUME NEW L \in SUBSET Entry, NEW e \in Entry, NEW y \in Entry, ~SamePartition(y, e),
         NEW N,
         N = IF Numeric(e.field) THEN LiveInsert(L, e)
             ELSE (L \ Cell(L, SlotOf(e))) \cup {e}
  PROVE  Partition(N, y) = Partition(L, y)
<1>1. ~SamePartition(e, y)
  BY PartitionFacts
<1>2. CASE Numeric(e.field)
  <2>1. \A x \in L : SamePartition(x, y) => ~Dominates(e, x)
    BY <1>1 DEF Dominates, SamePartition, SlotOf
  <2> QED
    BY <1>1, <1>2, <2>1 DEF Partition, LiveInsert
<1>3. CASE ~Numeric(e.field)
  <2>1. \A x \in L : SamePartition(x, y) => x \notin Cell(L, SlotOf(e))
    BY <1>1, <1>3 DEF Cell, SamePartition, SlotOf, Numeric
  <2> QED
    BY <1>1, <1>3, <2>1 DEF Partition
<1> QED
  BY <1>2, <1>3

KeptAll(m, S) == \A y \in S : ~IsTomb(y) => Kept(m, y)

\* Kept, with the partition by name.
LEMMA KeptByPartition ==
  ASSUME NEW m, NEW y
  PROVE  Kept(m, y) <=> \E k \in m.rows \cup Winners(Partition(m.live, y)) :
                          SamePartition(k, y) /\ k.val = y.val
BY DEF Kept, Partition

\* A superseded or dead write leaves a row for itself.
LEMMA KeptBuried ==
  ASSUME NEW m, NEW S, NEW e, Arriving(m, S, e), KeptAll(m, S)
  PROVE  KeptAll(ReduceBuried(m, e), S \cup {e})
<1> DEFINE n == ReduceBuried(m, e)
<1>1. n.live = m.live /\ n.rows = m.rows \cup {e}
  BY BuriedFields DEF Arriving
<1> HIDE DEF n
<1> QED
  BY <1>1 DEF KeptAll, Kept, SamePartition, n

\* A tombstone leaves rows for the candidates it kills; what survives still
\* wins.
LEMMA KeptTomb ==
  ASSUME NEW m, NEW S, NEW e, Arriving(m, S, e), KeptAll(m, S), IsTomb(e)
  PROVE  KeptAll(ReduceTomb(m, e), S \cup {e})
<1> DEFINE n == ReduceTomb(m, e)
           killed == {x \in m.live : x.rec = e.rec /\ ~Less(e, x)}
<1>1. /\ n.live = m.live \ killed
      /\ m.rows \cup killed \subseteq n.rows
  BY DEF ReduceTomb
<1> HIDE DEF n, killed
<1>2. ASSUME NEW y \in S, ~IsTomb(y)
      PROVE  Kept(n, y)
  <2>1. PICK k \in m.rows \cup Winners(Partition(m.live, y)) :
               SamePartition(k, y) /\ k.val = y.val
    BY <1>2, KeptByPartition DEF KeptAll
  <2>2. CASE k \in n.rows
    BY <2>1, <2>2, KeptByPartition
  <2>3. CASE k \notin n.rows
    <3>1. k \in Winners(Partition(m.live, y)) /\ k \notin killed
      BY <1>1, <2>1, <2>3
    <3>2. k \in Winners(Partition(n.live, y))
      BY <1>1, <3>1 DEF Winners, Partition
    <3> QED
      BY <2>1, <3>2, KeptByPartition
  <2> QED
    BY <2>2, <2>3
<1> QED
  BY <1>2 DEF KeptAll, n

\* A loser either agrees with the winner or leaves a row, and it moves no
\* winner.
LEMMA KeptLoser ==
  ASSUME NEW m, NEW S, NEW e, Arriving(m, S, e), KeptAll(m, S), ~IsTomb(e),
         NEW r \in Rivals(m, e), ~Beats(e, r)
  PROVE  KeptAll(ReduceLoser(m, e), S \cup {e})
<1> DEFINE n == ReduceLoser(m, e)
           P == Partition(m.live, e)
           Q == Partition(n.live, e)
<1>1. /\ n.live = IF Numeric(e.field) THEN LiveInsert(m.live, e) ELSE m.live
      /\ m.rows \subseteq n.rows
      /\ \A x \in Rivals(m, e) : x.val # e.val => e \in n.rows
  BY LoserFields DEF Arriving
<1> HIDE DEF n
<1>2. r \in Winners(P)
  BY RivalsAreWinners
<1>3. Winners(Q) = Winners(P)
  <2>1. CASE ~Numeric(e.field)
    BY <1>1, <2>1
  <2>2. CASE Numeric(e.field)
    <3>1. /\ P \in SUBSET Entry /\ e \in Entry /\ m.live \in SUBSET Entry
          /\ \A x \in P : x.field = e.field
      BY ArrivingFacts DEF Partition, SamePartition, SlotOf
    <3>2. r \in P /\ Beats(r, e)
      <4>1. r \in P /\ r \in m.live
        BY <1>2 DEF Winners, Partition
      <4>2. KeyOf(r) # KeyOf(e)
        BY <4>1, ArrivingFacts
      <4> QED
        BY <3>1, <4>1, <4>2, BeatsOrder
    <3>3. Q \in SUBSET Entry /\ Q \subseteq P \cup {e}
      BY <1>1, <2>2, <3>1 DEF LiveInsert, Partition
    <3>4. Q = P \/ (e \in Q /\ \A x \in P \ Q : Dominates(e, x))
      BY <1>1, <2>2 DEF LiveInsert, Partition, SamePartition
    <3>5. \A x \in P : Dominates(e, x) => Beats(e, x)
      BY <2>2, <3>1, DominatesBeats
    <3> HIDE DEF P, Q
    <3> QED
      BY <3>1, <3>2, <3>3, <3>4, <3>5, LoserKeepsWinners
  <2> QED
    BY <2>1, <2>2
<1>4. Kept(n, e)
  <2>1. CASE r.val # e.val
    BY <1>1, <2>1 DEF Kept, SamePartition
  <2>2. CASE r.val = e.val
    <3>1. r \in Winners(Q) /\ SamePartition(r, e)
      BY <1>2, <1>3 DEF Winners, Partition
    <3> QED
      BY <2>2, <3>1, KeptByPartition
  <2> QED
    BY <2>1, <2>2
<1>5. ASSUME NEW y \in S, ~IsTomb(y)
      PROVE  Kept(n, y)
  <2>1. Winners(Partition(n.live, y)) = Winners(Partition(m.live, y))
    <3>1. CASE SamePartition(y, e)
      <4>1. Partition(n.live, y) = Q /\ Partition(m.live, y) = P
        BY <3>1, PartitionFacts
      <4> QED
        BY <1>3, <4>1
    <3>2. CASE ~SamePartition(y, e) /\ Numeric(e.field)
      BY <1>1, <3>2, OtherPartitions, ArrivingFacts
    <3>3. CASE ~Numeric(e.field)
      BY <1>1, <3>3
    <3> QED
      BY <3>1, <3>2, <3>3
  <2> QED
    BY <1>1, <1>5, <2>1, KeptByPartition DEF KeptAll
<1> QED
  BY <1>4, <1>5 DEF KeptAll, n

\* A winner wins its partition; the winner it displaces agrees with it or
\* leaves a row.
LEMMA KeptWinner ==
  ASSUME NEW m, NEW S, NEW e, Arriving(m, S, e), IsFiniteSet(S), KeptAll(m, S), ~IsTomb(e),
         \A r \in Rivals(m, e) : Beats(e, r)
  PROVE  KeptAll(ReduceWinner(m, e), S \cup {e})
<1> DEFINE n == ReduceWinner(m, e)
           P == Partition(m.live, e)
           Q == Partition(n.live, e)
<1>1. /\ n.live = IF Numeric(e.field) THEN LiveInsert(m.live, e)
                  ELSE (m.live \ Cell(m.live, SlotOf(e))) \cup {e}
      /\ m.rows \subseteq n.rows
      /\ \A r \in Rivals(m, e) : r.val # e.val => r \in n.rows
  BY WinnerFields DEF Arriving
<1> HIDE DEF n
<1>2. /\ P \in SUBSET Entry /\ e \in Entry /\ IsFiniteSet(P)
      /\ \A x \in P : x.field = e.field
  <2>1. P \in SUBSET S
    BY ArrivingFacts DEF Partition
  <2>2. IsFiniteSet(P)
    BY <2>1, FS_Subset
  <2> QED
    BY <2>1, <2>2, ArrivingFacts DEF Partition, SamePartition, SlotOf
<1>3. ASSUME NEW x \in P
      PROVE  Beats(e, x)
  <2>1. PICK w \in Winners(P) : w = x \/ Beats(w, x)
    <3> HIDE DEF P
    <3> QED
      BY <1>2, WinnerAbove
  <2>2. Beats(e, w) /\ w \in P
    BY <2>1, RivalsAreWinners DEF Winners
  <2> QED
    BY <1>2, <2>1, <2>2, BeatsOrder
<1>4. e \in n.live
  <2>1. ASSUME NEW w \in m.live, Dominates(w, e), Numeric(e.field)
        PROVE  FALSE
    <3>1. w \in P /\ w.field = e.field
      BY <2>1 DEF Dominates, Partition, SamePartition, SlotOf
    <3>2. Beats(w, e) /\ Beats(e, w)
      BY <1>2, <1>3, <2>1, <3>1, DominatesBeats
    <3> QED
      BY <1>2, <3>1, <3>2, BeatsOrder
  <2> QED
    BY <1>1, <2>1 DEF LiveInsert
<1>5. e \in Winners(Q)
  <2>1. Q \subseteq P \cup {e} /\ e \in Q
    BY <1>1, <1>4 DEF Partition, LiveInsert, SamePartition
  <2>2. ASSUME NEW x \in Q, x # e
        PROVE  ~Beats(x, e)
    BY <1>2, <1>3, <2>1, <2>2, BeatsOrder
  <2> HIDE DEF Q
  <2> QED
    BY <2>1, <2>2 DEF Winners
<1>6. ASSUME NEW y, SamePartition(e, y), y.val = e.val
      PROVE  Kept(n, y)
  <2>1. Partition(n.live, y) = Q
    BY <1>6, PartitionFacts
  <2> QED
    BY <1>5, <1>6, <2>1, KeptByPartition
<1>7. Kept(n, e)
  BY <1>6 DEF SamePartition
<1>8. ASSUME NEW y \in S, ~IsTomb(y)
      PROVE  Kept(n, y)
  <2>1. PICK k \in m.rows \cup Winners(Partition(m.live, y)) :
               SamePartition(k, y) /\ k.val = y.val
    BY <1>8, KeptByPartition DEF KeptAll
  <2>2. CASE k \in n.rows
    BY <2>1, <2>2, KeptByPartition
  <2>3. CASE k \notin n.rows /\ SamePartition(y, e)
    <3>1. Partition(m.live, y) = P
      BY <2>3, PartitionFacts
    <3>2. k \in Rivals(m, e)
      BY <1>1, <2>1, <2>3, <3>1, RivalsAreWinners
    <3>3. k.val = e.val
      BY <1>1, <2>3, <3>2
    <3> QED
      BY <1>6, <2>1, <2>3, <3>3, PartitionFacts
  <2>4. CASE k \notin n.rows /\ ~SamePartition(y, e)
    <3>1. Partition(n.live, y) = Partition(m.live, y)
      BY <1>1, <2>4, OtherPartitions, ArrivingFacts
    <3> QED
      BY <1>1, <2>1, <2>4, <3>1, KeptByPartition
  <2> QED
    BY <2>2, <2>3, <2>4
<1> QED
  BY <1>7, <1>8 DEF KeptAll, n

\* One entry reaches a device: nothing accepted before, nor the entry, is lost.
LEMMA KeptStep ==
  ASSUME NEW m, NEW S, NEW e, Arriving(m, S, e), IsFiniteSet(S), KeptAll(m, S)
  PROVE  KeptAll(Reduce(m, e), S \cup {e})
<1>1. CASE Buried(m, e)
  BY <1>1, KeptBuried DEF Reduce
<1>2. CASE ~Buried(m, e) /\ IsTomb(e)
  BY <1>2, KeptTomb DEF Reduce
<1>3. CASE ~Buried(m, e) /\ ~IsTomb(e)
  BY <1>3, KeptLoser, KeptWinner DEF Reduce
<1> QED
  BY <1>1, <1>2, <1>3

-----------------------------------------------------------------------------
(* The invariant with the history.                                         *)

FiniteHistory == IsFiniteSet(emitted)

LossInv == Inv /\ FiniteHistory /\ NoSilentLoss

\* One entry is accepted by d: what a write and an acceptance have in common.
LEMMA AcceptKeeps ==
  ASSUME LossInv, NEW d \in Devices, NEW e \in Entry, e \notin acc[d],
         emitted' = emitted \cup {e}, KeyDistinct(emitted'),
         acc' = [acc EXCEPT ![d] = @ \cup {e}],
         merge' = [merge EXCEPT ![d] = Reduce(@, e)]
  PROVE  FiniteHistory' /\ NoSilentLoss'
<1>1. FiniteHistory'
  BY FS_AddElement DEF LossInv, FiniteHistory
<1>2. /\ acc[d] \subseteq emitted /\ emitted \subseteq Entry
      /\ acc'[d] = acc[d] \cup {e} /\ merge'[d] = Reduce(merge[d], e)
      /\ \A x \in Devices \ {d} : acc'[x] = acc[x] /\ merge'[x] = merge[x]
  BY DEF LossInv, Inv, TypeOK
<1>3. IsFiniteSet(acc[d])
  BY <1>2, FS_Subset DEF LossInv, FiniteHistory
<1>4. Arriving(merge[d], acc[d], e)
  <2>1. KeyDistinct(acc[d] \cup {e})
    BY <1>2 DEF KeyDistinct
  <2> QED
    BY <1>2, <2>1 DEF Arriving, LossInv, Inv, TypeOK, FrontierSound
<1>5. KeptAll(merge'[d], acc'[d])
  BY <1>2, <1>3, <1>4, KeptStep DEF LossInv, NoSilentLoss, KeptAll
<1> QED
  BY <1>1, <1>2, <1>5 DEF NoSilentLoss, KeptAll, LossInv

\* Every step preserves it.
LEMMA NextKeeps == LossInv /\ [Next]_vars => LossInv'
<1> SUFFICES ASSUME LossInv, [Next]_vars PROVE LossInv'
  OBVIOUS
<1>1. Inv'
  BY NextSound DEF LossInv
<1>2. KeyDistinct(emitted')
  BY <1>1 DEF Inv, KeysIdentify, KeyDistinct
<1>3. ASSUME NEW d \in Devices, NEW now \in Times, NEW s \in Tick(clock[d], now),
             NEW e \in Entry, e.l = s.l, e.c = s.c, e.dev = d, Emit(d, e, s)
      PROVE  FiniteHistory' /\ NoSilentLoss'
  <2>1. e \notin acc[d]
    BY <1>3, EmitAbove DEF LossInv, Inv, TypeOK
  <2> QED
    BY <1>2, <1>3, <2>1, AcceptKeeps DEF Emit
<1>4. ASSUME NEW d \in Devices, NEW now \in Times, NEW e \in emitted, Accept(d, e, now)
      PROVE  FiniteHistory' /\ NoSilentLoss'
  <2>1. e \in Entry /\ e \notin acc[d] /\ emitted' = emitted \cup {e}
    BY <1>4 DEF Accept, LossInv, Inv, TypeOK
  <2> QED
    BY <1>2, <1>4, <2>1, AcceptKeeps DEF Accept
<1>5. CASE Next
  BY <1>1, <1>3, <1>4, <1>5, StepCases DEF LossInv
<1>6. CASE UNCHANGED vars
  BY <1>1, <1>6 DEF vars, LossInv, FiniteHistory, NoSilentLoss
<1> QED
  BY <1>5, <1>6

\* Every loser lands in the divergence history: an accepted value is the one
\* its partition shows, or history holds a row for it.
THEOREM NothingIsLostSilently == Spec => []NoSilentLoss
<1>1. Init => LossInv
  <2> SUFFICES ASSUME Init PROVE LossInv
    OBVIOUS
  <2>1. FiniteHistory
    BY FS_EmptySet DEF Init, FiniteHistory
  <2>2. NoSilentLoss
    BY DEF Init, NoSilentLoss
  <2> QED
    BY <2>1, <2>2, InitSound DEF LossInv
<1>2. LossInv => NoSilentLoss
  BY DEF LossInv
<1> QED
  BY <1>1, <1>2, NextKeeps, PTL DEF Spec

=============================================================================
