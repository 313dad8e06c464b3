------------------------------ MODULE SyncRules ------------------------------
(***************************************************************************)
(* The pure part of the library-sync merge engine                          *)
(* (packages/application/src/sync): the hybrid clock, the total order on   *)
(* change entries, and the merge rule that folds one entry into one        *)
(* device's materialized state.  No variables: SyncMerge and SyncEngine    *)
(* both build on it.                                                       *)
(*                                                                         *)
(* A change entry is a record [rec, field, val, l, c, dev, seq]: (l, c) is *)
(* the hybrid stamp, dev the emitting device, seq that device's own        *)
(* emission ordinal.  A tombstone is the entry with field = TombField.     *)
(* Values are natural numbers: the merge only compares them, and adds      *)
(* those of 'sum' fields.                                                  *)
(***************************************************************************)
EXTENDS Integers, FiniteSets, Functions, FiniteSetsExt

CONSTANTS
  Devices,     \* device ids; numbers, because the code orders the strings
  Records,     \* (kind, recordId) pairs
  LwwFields,   \* fields merged by newest stamp
  MaxFields,   \* fields merged by largest value (playCount.lastMs)
  SumFields,   \* per-device grow-only counters (playCount.count)
  TombField,   \* the '*' marker of a record-wide delete
  MaxInt       \* Number.MAX_SAFE_INTEGER

Fields == LwwFields \cup MaxFields \cup SumFields

ASSUME ConstantsAssumption ==
  /\ Devices \subseteq Nat
  /\ IsFiniteSet(Devices)
  /\ MaxInt \in Nat
  /\ TombField \notin Fields
  /\ LwwFields \cap (MaxFields \cup SumFields) = {}
  /\ MaxFields \cap SumFields = {}

Slots == Records \X Fields

FieldEntry ==
  [rec : Records, field : Fields, val : 0 .. MaxInt,
   l : 0 .. MaxInt, c : 0 .. MaxInt, dev : Devices, seq : Nat]

TombEntry ==
  [rec : Records, field : {TombField}, val : {0},
   l : 0 .. MaxInt, c : 0 .. MaxInt, dev : Devices, seq : Nat]

Entry == FieldEntry \cup TombEntry

IsTomb(e) == e.field = TombField

Stamp == [l : 0 .. MaxInt, c : 0 .. MaxInt]

SlotOf(e) == <<e.rec, e.field>>

-----------------------------------------------------------------------------
(* The order on entries and the hybrid clock.                              *)

\* compareEntryTs(a, b) < 0: by l, then c, then device id.
Less(a, b) ==
  \/ a.l < b.l
  \/ a.l = b.l /\ a.c < b.c
  \/ a.l = b.l /\ a.c = b.c /\ a.dev < b.dev

\* compareStamp(a, b) <= 0 on bare stamps.
StampLeq(a, b) == a.l < b.l \/ (a.l = b.l /\ a.c <= b.c)

\* entryKey: one stamp from one device is one entry.
KeyOf(e) == <<e.dev, e.l, e.c>>

\* A clock is a stamp [l, c].  Tick and Receive return the empty set where
\* the code throws 'hlc exhausted', and a singleton otherwise.
\* Mutant of Tick: an exhausted counter restarts without moving the clock on.
TickWithoutCarry(clock, now) ==
  IF now > clock.l THEN {[l |-> now, c |-> 0]}
  ELSE {[l |-> clock.l, c |-> IF clock.c < MaxInt THEN clock.c + 1 ELSE 0]}

Tick(clock, now) ==
  IF now > clock.l THEN {[l |-> now, c |-> 0]}
  ELSE IF clock.c < MaxInt THEN {[l |-> clock.l, c |-> clock.c + 1]}
  ELSE IF clock.l < MaxInt THEN {[l |-> clock.l + 1, c |-> 0]}
  ELSE {}

\* Mutants of Receive: the remote stamp is ignored; the clock ends below it.
ReceiveIgnoringRemote(clock, remote, now) ==
  IF clock.c < MaxInt THEN {[l |-> Max({clock.l, now}), c |-> clock.c + 1]} ELSE {}

ReceiveBelowRemote(clock, remote, now) ==
  LET l == Max({clock.l, remote.l, now})
  IN {[l |-> l, c |-> IF l = remote.l /\ remote.c > 0 THEN remote.c - 1 ELSE 0]}

Receive(clock, remote, now) ==
  LET l == Max({clock.l, remote.l, now})
      c == IF l = clock.l /\ l = remote.l THEN Max({clock.c, remote.c}) + 1
           ELSE IF l = clock.l THEN clock.c + 1
           ELSE IF l = remote.l THEN remote.c + 1
           ELSE 0
  IN IF c <= MaxInt THEN {[l |-> l, c |-> c]}
     ELSE IF l < MaxInt THEN {[l |-> l + 1, c |-> 0]}
     ELSE {}

-----------------------------------------------------------------------------
(* The merge rule.  One device's merge state is a record:                  *)
(*   tomb  - the winning tombstones, at most one per record                *)
(*   live  - the candidates of every field cell                            *)
(*   win   - the winner cached in every field cell                         *)
(*   shown - the value cached in every field cell, Absent when no cell     *)
(*   rows  - the losers the divergence history was handed                  *)
(* mergeLive of the code is tomb \cup live.                                *)

Absent == -1

EmptyMerge ==
  [tomb |-> {}, live |-> {}, win |-> {},
   shown |-> [s \in Slots |-> Absent], rows |-> {}]

IsMerge(m) ==
  m = [tomb |-> m.tomb, live |-> m.live, win |-> m.win, shown |-> m.shown,
       rows |-> m.rows]

Numeric(f) == f \in MaxFields \cup SumFields

Beats(a, b) ==
  IF Numeric(a.field)
  THEN a.val > b.val \/ (a.val = b.val /\ Less(b, a))
  ELSE Less(b, a)

\* Entries of one merge partition: 'sum' fields split by emitting device.
SamePartition(a, b) ==
  SlotOf(a) = SlotOf(b) /\ (a.field \in SumFields => a.dev = b.dev)

\* Mutant of Dominates: a newer candidate prunes an older, larger one.
DominatesByStamp(w, e) == SamePartition(w, e) /\ Less(e, w)

\* Every tombstone that spares e spares w too, and w is worth as much.
Dominates(w, e) == SamePartition(w, e) /\ Less(e, w) /\ w.val >= e.val

\* pickWinner: the candidates no other one beats.
Winners(S) == {e \in S : \A x \in S : x # e => ~Beats(x, e)}

WinningValue(S) == (CHOOSE e \in Winners(S) : TRUE).val

Cell(S, slot) == {e \in S : SlotOf(e) = slot}

CellWinners(S) == {e \in S : e \in Winners(Cell(S, SlotOf(e)))}

\* componentWinner: what one device contributes to a 'sum' cell.
Component(S, d) ==
  LET own == {e \in S : e.dev = d}
  IN IF own = {} THEN 0 ELSE WinningValue(own)

Saturated(components) ==
  LET total == FoldFunction(+, 0, components)
  IN IF total > MaxInt THEN MaxInt ELSE total

SumValue(S) == Saturated([d \in Devices |-> Component(S, d)])

\* The value a cell with the candidates S shows.
CellValue(f, S) ==
  IF S = {} THEN Absent
  ELSE IF f \in SumFields THEN SumValue(S)
  ELSE WinningValue(S)

\* liveInsert: a dominated entry stays out of the frontier, an inserted one
\* prunes the members it dominates.
LiveInsert(live, e) ==
  IF \E w \in live : Dominates(w, e)
  THEN live
  ELSE {x \in live : ~Dominates(e, x)} \cup {e}

\* The losers liveInsert reports: an equal value is not a loss.
LiveInsertRows(live, e) ==
  IF \E w \in live : Dominates(w, e)
  THEN {x \in {e} : \E w \in live : Dominates(w, e) /\ w.val # e.val}
  ELSE {x \in live : Dominates(e, x) /\ x.val # e.val}

-----------------------------------------------------------------------------
(* reduce(entry): the tombstone branch, the field branch.                  *)

\* The record's winning tombstone is stamped at or above e.
Buried(m, e) == \E t \in m.tomb : t.rec = e.rec /\ ~Less(t, e)

\* A superseded tombstone, or a write dead on arrival, only leaves a row.
ReduceBuried(m, e) == [m EXCEPT !.rows = m.rows \cup {e}]

\* A newer tombstone: the record's cells are recomputed from its survivors.
ReduceTomb(m, e) ==
  LET killed    == {x \in m.live : x.rec = e.rec /\ ~Less(e, x)}
      displaced == {t \in m.tomb : t.rec = e.rec}
      survivors == m.live \ killed
  IN [tomb  |-> (m.tomb \ displaced) \cup {e},
      live  |-> survivors,
      win   |-> {w \in m.win : w.rec # e.rec}
                  \cup {w \in CellWinners(survivors) : w.rec = e.rec},
      shown |-> [s \in Slots |->
                   IF s[1] = e.rec THEN CellValue(s[2], Cell(survivors, s))
                   ELSE m.shown[s]],
      rows  |-> m.rows \cup displaced \cup killed]

\* The entry's contest: its own component in a 'sum' field, the cached
\* winner of the cell otherwise.
Rivals(m, e) ==
  IF e.field \in SumFields
  THEN Winners({x \in m.live : SamePartition(x, e)})
  ELSE Cell(m.win, SlotOf(e))

\* Mutant of ReduceLoser: the frontier takes the loser, the history does not.
ReduceLoserQuiet(m, e) ==
  IF Numeric(e.field)
  THEN [m EXCEPT !.live = LiveInsert(m.live, e),
                 !.rows = m.rows \cup LiveInsertRows(m.live, e)]
  ELSE m

\* A loser leaves winner and value alone; it joins a numeric frontier.
ReduceLoser(m, e) ==
  LET lost == {x \in {e} : \E r \in Rivals(m, e) : r.val # e.val}
  IN IF Numeric(e.field)
     THEN [m EXCEPT !.live = LiveInsert(m.live, e),
                    !.rows = m.rows \cup lost \cup LiveInsertRows(m.live, e)]
     ELSE [m EXCEPT !.rows = m.rows \cup lost]

\* Mutant of ReduceWinner: the displaced winner stays cached.
ReduceWinnerKeepsOld(m, e) ==
  LET slot == SlotOf(e)
      live == IF Numeric(e.field) THEN LiveInsert(m.live, e)
              ELSE (m.live \ Cell(m.live, slot)) \cup {e}
  IN [m EXCEPT !.live = live,
               !.win = @ \cup Winners(Cell(live, slot)),
               !.shown = [@ EXCEPT ![slot] = CellValue(e.field, Cell(live, slot))]]

ReduceWinner(m, e) ==
  LET slot == SlotOf(e)
      live == IF Numeric(e.field) THEN LiveInsert(m.live, e)
              ELSE (m.live \ Cell(m.live, slot)) \cup {e}
      displaced == {r \in Rivals(m, e) : r.val # e.val}
      pruned == IF Numeric(e.field) THEN LiveInsertRows(m.live, e) ELSE {}
  IN [m EXCEPT !.live = live,
               !.win = (m.win \ Cell(m.win, slot)) \cup Winners(Cell(live, slot)),
               !.shown = [m.shown EXCEPT ![slot] = CellValue(e.field, Cell(live, slot))],
               !.rows = m.rows \cup displaced \cup pruned]

Reduce(m, e) ==
  IF Buried(m, e) THEN ReduceBuried(m, e)
  ELSE IF IsTomb(e) THEN ReduceTomb(m, e)
  ELSE IF \E r \in Rivals(m, e) : ~Beats(e, r) THEN ReduceLoser(m, e)
  ELSE ReduceWinner(m, e)

-----------------------------------------------------------------------------
(* The reference: what a set of accepted entries means, whatever the order *)
(* it arrived in.                                                          *)

\* The field entries no tombstone of the set reaches.
Alive(S) ==
  {e \in S : ~IsTomb(e) /\ \A t \in S : IsTomb(t) /\ t.rec = e.rec => Less(t, e)}

View(S) == [s \in Slots |-> CellValue(s[2], Cell(Alive(S), s))]

-----------------------------------------------------------------------------
(* Why the view is correct: the invariant the merge maintains, in terms of *)
(* one device's merge state m and the set S of entries it accepted.        *)

\* One tombstone per record is kept, the newest of those accepted.
TombsNewest(m, S) ==
  /\ m.tomb \subseteq {t \in S : IsTomb(t)}
  /\ \A t \in S : IsTomb(t) => \E u \in m.tomb : u.rec = t.rec /\ ~Less(u, t)
  /\ \A t, u \in m.tomb : t.rec = u.rec => t = u

\* The candidate w makes e irrelevant for good: whatever tombstone comes, w
\* outlives e and beats it.
Covers(w, e) ==
  /\ SlotOf(w) = SlotOf(e)
  /\ Less(e, w)
  /\ Numeric(e.field) => Dominates(w, e)

\* Candidates are living entries; an entry left out is covered by one; a
\* newest-wins cell has one candidate.
LiveCovers(m, S) ==
  /\ m.live \subseteq Alive(S)
  /\ \A e \in Alive(S) : e \in m.live \/ \E w \in m.live : Covers(w, e)
  /\ \A a, b \in m.live : SlotOf(a) = SlotOf(b) /\ ~Numeric(a.field) => a = b

\* The cached winners and values are those of the candidates.
CachesFresh(m) ==
  /\ m.win = CellWinners(m.live)
  /\ m.shown = [s \in Slots |-> CellValue(s[2], Cell(m.live, s))]
=============================================================================
