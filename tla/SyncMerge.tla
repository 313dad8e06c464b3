------------------------------ MODULE SyncMerge ------------------------------
(***************************************************************************)
(* The merge of the sync engine on every device of one library, with the   *)
(* transport abstracted to "any entry once emitted may reach any device    *)
(* that has not accepted it, in any order".  What the durable log, the     *)
(* cursors and the compaction add is SyncEngine; this module is the        *)
(* promise the merge keeps whatever they deliver.                          *)
(*                                                                         *)
(* The bound of the checked instances is MaxEntries (writes in all); Times *)
(* is what Date.now() may return, on any device at any moment.             *)
(***************************************************************************)
EXTENDS SyncRules

CONSTANTS Times, Values, MaxEntries

ASSUME InputsAssumption ==
  /\ Times \subseteq 0 .. MaxInt
  /\ Values \subseteq 0 .. MaxInt
  /\ MaxEntries \in Nat

VARIABLES
  emitted,   \* every change entry any device ever wrote
  acc,       \* acc[d]: the entries device d's engine has accepted (its log)
  merge,     \* merge[d]: the merge state they were folded into
  clock,     \* clock[d]: the hybrid clock
  localSeq   \* localSeq[d]: the last emission ordinal d used

vars == <<emitted, acc, merge, clock, localSeq>>

Init ==
  /\ emitted = {}
  /\ acc = [d \in Devices |-> {}]
  /\ merge = [d \in Devices |-> EmptyMerge]
  /\ clock = [d \in Devices |-> [l |-> 0, c |-> 0]]
  /\ localSeq = [d \in Devices |-> 0]

FieldChange(d, rec, field, val, stamp) ==
  [rec |-> rec, field |-> field, val |-> val,
   l |-> stamp.l, c |-> stamp.c, dev |-> d, seq |-> localSeq[d] + 1]

TombChange(d, rec, stamp) ==
  [rec |-> rec, field |-> TombField, val |-> 0,
   l |-> stamp.l, c |-> stamp.c, dev |-> d, seq |-> localSeq[d] + 1]

\* An entry this device stamped enters its log and its merge state.
Emit(d, e, stamp) ==
  /\ emitted' = emitted \cup {e}
  /\ acc' = [acc EXCEPT ![d] = @ \cup {e}]
  /\ merge' = [merge EXCEPT ![d] = Reduce(@, e)]
  /\ clock' = [clock EXCEPT ![d] = stamp]
  /\ localSeq' = [localSeq EXCEPT ![d] = @ + 1]

\* writeChanges of one field change.
WriteField(d, rec, field, val, now) ==
  /\ Cardinality(emitted) < MaxEntries
  /\ \E stamp \in Tick(clock[d], now) :
       Emit(d, FieldChange(d, rec, field, val, stamp), stamp)

\* writeChanges of one tombstone.
WriteTomb(d, rec, now) ==
  /\ Cardinality(emitted) < MaxEntries
  /\ \E stamp \in Tick(clock[d], now) :
       Emit(d, TombChange(d, rec, stamp), stamp)

\* One fresh entry of applyDelta: its stamp is folded, then the entry.
Accept(d, e, now) ==
  /\ e \in emitted \ acc[d]
  /\ \E stamp \in Receive(clock[d], e, now) :
       clock' = [clock EXCEPT ![d] = stamp]
  /\ acc' = [acc EXCEPT ![d] = @ \cup {e}]
  /\ merge' = [merge EXCEPT ![d] = Reduce(@, e)]
  /\ UNCHANGED <<emitted, localSeq>>

Next ==
  \E d \in Devices, now \in Times :
    \/ \E rec \in Records, field \in Fields, val \in Values :
         WriteField(d, rec, field, val, now)
    \/ \E rec \in Records : WriteTomb(d, rec, now)
    \/ \E e \in emitted : Accept(d, e, now)

Spec == Init /\ [][Next]_vars

-----------------------------------------------------------------------------
(* Properties.                                                             *)

\* The shape of the state: accepted entries were emitted, every merge state
\* is made of entries its device accepted, every clock is a stamp.
TypeOK ==
  /\ emitted \subseteq Entry
  /\ acc \in [Devices -> SUBSET emitted]
  /\ clock \in [Devices -> Stamp]
  /\ localSeq \in [Devices -> Nat]
  /\ merge = [d \in Devices |-> merge[d]]
  /\ \A d \in Devices :
       /\ IsMerge(merge[d])
       /\ merge[d].tomb \cup merge[d].live \cup merge[d].rows \subseteq acc[d]
       /\ merge[d].win \subseteq merge[d].live

\* entryKey is an identity: no two entries share device and stamp, so the
\* dedupe of applyDelta never drops a change it has not seen.
KeysIdentify ==
  \A a, b \in emitted : KeyOf(a) = KeyOf(b) => a = b

\* A device's clock is at or above every stamp it has accepted, so what it
\* writes next orders after everything its user could see.
ClockCoversAccepted ==
  \A d \in Devices : \A e \in acc[d] : StampLeq(e, clock[d])

\* The incremental merge shows exactly what the accepted set means: dropping
\* dominated candidates and caching winners and sums never shows a value the
\* whole set would not, in any order of arrival.
ViewCorrect ==
  \A d \in Devices : merge[d].shown = View(acc[d])

\* Two devices that accepted the same entries show the same library.
Convergence ==
  \A d, x \in Devices : acc[d] = acc[x] => merge[d].shown = merge[x].shown

\* e's value is the one its partition shows, or history holds a row for it.
Kept(m, e) ==
  \E k \in m.rows \cup Winners({x \in m.live : SamePartition(x, e)}) :
    SamePartition(k, e) /\ k.val = e.val

\* "Every loser lands in divergence": no accepted value disappears from both
\* the library and the divergence history.
NoSilentLoss ==
  \A d \in Devices : \A e \in acc[d] : ~IsTomb(e) => Kept(merge[d], e)

\* What a user writes is what their device shows at once: a local write of a
\* newest-wins field, or a local delete, never loses to what it already had.
WriteShown ==
  \A d \in Devices : \A e \in emitted' \ emitted :
    e.dev = d =>
      /\ e.field \in LwwFields => merge'[d].shown[SlotOf(e)] = e.val
      /\ IsTomb(e) => \A f \in Fields : merge'[d].shown[<<e.rec, f>>] = Absent

LocalWriteShows == [][WriteShown]_vars

\* The merge implements the shared library: whatever the interleaving, every
\* step is a device writing above all it knows, or learning, or nothing.
Library == INSTANCE SharedLibrary WITH
  written <- emitted, known <- acc,
  shown <- [d \in Devices |-> merge[d].shown]
ImplementsLibrary == Library!LibSpec

\* The frontier each device keeps stands for everything it accepted.
FrontierSound ==
  \A d \in Devices :
    /\ TombsNewest(merge[d], acc[d])
    /\ LiveCovers(merge[d], acc[d])
    /\ CachesFresh(merge[d])
=============================================================================
