------------------------------ MODULE SyncEngine ------------------------------
(***************************************************************************)
(* The sync engine of every device of one library                          *)
(* (packages/application/src/sync/sync-engine.ts): the durable change log, *)
(* the contiguous cursors, delta export and import, the table of peer      *)
(* claims, compaction, and the rebuild from the log after a crash.         *)
(*                                                                         *)
(* An operation of the engine is one step here because runOp serializes    *)
(* them; the two durable writes inside an operation succeed or fail        *)
(* independently, and a crash may come between any two operations.  Both   *)
(* stores commit an append atomically.                                     *)
(*                                                                         *)
(* Bounds: MaxWrites local writes in all, MaxDocs documents in flight.     *)
(* Faults names what may go wrong in an instance.                          *)
(***************************************************************************)
EXTENDS SyncRules, Folds

CONSTANTS
  Times, Values,
  PlayRecords,  \* records of kind playEvent: history with a retention window
  Links,        \* <<a, b>>: a's documents reach b over an authenticated session
  Imports,      \* <<a, b>>: a's clipboard exports may be pasted into b
  PageLimit,    \* entries per document
  MaxWrites, MaxDocs,
  Faults        \* what may go wrong: a subset of AllFaults

AllFaults ==
  {"append",   \* a durable write may fail
   "crash",    \* a device may restart at any moment
   "stale",    \* a sender may start from a cursor it remembers of the receiver
   "replay",   \* an applied document may be delivered again
   "age"}      \* play events may leave the retention window

ASSUME EngineAssumption ==
  /\ Times \subseteq 0 .. MaxInt /\ Values \subseteq 0 .. MaxInt
  /\ PlayRecords \subseteq Records
  /\ Links \cup Imports \subseteq Devices \X Devices
  /\ PageLimit \in Nat \ {0}
  /\ MaxWrites \in Nat /\ MaxDocs \in Nat
  /\ Faults \subseteq AllFaults

VARIABLES
  emitted,    \* history: every entry any device ever made durable
  accepted,   \* history: accepted[d], every entry d's log ever took
  log,        \* log[d]: d's change log, the durable rows and the lanes
  merge,      \* merge[d]: the materialized state
  mark,       \* mark[d][s]: contiguous watermark, durable and in memory
  ahead,      \* ahead[d]: seqs seen above the mark, as <<device, seq>>
  localSeq,   \* localSeq[d]: d's last emission ordinal
  clock,      \* clock[d]: the hybrid clock
  peerMarks,  \* peerMarks[d]: senders' claims folded since d started
  peerRows,   \* peerRows[d]: senders' claims in d's store
  stale,      \* stale[d]: senders remembered from the store, silent so far
  dirty,      \* dirty[d]: senders whose claim is not durable yet
  docs,       \* documents exported and not yet applied or lost
  aged        \* play records past the retention window

vars == <<emitted, accepted, log, merge, mark, ahead, localSeq, clock,
          peerMarks, peerRows, stale, dirty, docs, aged>>

NoMarks == [s \in Devices |-> 0]
NoClaims == <<>>

Init ==
  /\ emitted = {}
  /\ accepted = [d \in Devices |-> {}]
  /\ log = [d \in Devices |-> {}]
  /\ merge = [d \in Devices |-> EmptyMerge]
  /\ mark = [d \in Devices |-> NoMarks]
  /\ ahead = [d \in Devices |-> {}]
  /\ localSeq = [d \in Devices |-> 0]
  /\ clock = [d \in Devices |-> [l |-> 0, c |-> 0]]
  /\ peerMarks = [d \in Devices |-> NoClaims]
  /\ peerRows = [d \in Devices |-> NoClaims]
  /\ stale = [d \in Devices |-> {}]
  /\ dirty = [d \in Devices |-> {}]
  /\ docs = {}
  /\ aged = {}

-----------------------------------------------------------------------------
(* Helpers.                                                                *)

SeqId(e) == <<e.dev, e.seq>>

\* Mutant of FoldedMark: a scalar high-water mark.
FoldedHighWater(marks, seen) ==
  [s \in Devices |-> Max({marks[s]} \cup {p[2] : p \in {q \in seen : q[1] = s}})]

\* foldSeq over a set of seqs: a mark runs on while the next seq was seen.
FoldedMark(marks, seen) ==
  [s \in Devices |->
     CHOOSE n \in marks[s] .. marks[s] + Cardinality(seen) :
       /\ \A i \in marks[s] + 1 .. n : <<s, i>> \in seen
       /\ <<s, n + 1>> \notin seen]

Above(seen, marks) == {p \in seen : p[2] > marks[p[1]]}

\* The last of some entries in canonical order.
Newest(entries) == CHOOSE e \in entries : \A x \in entries : ~Less(e, x)

\* reduce over entries in canonical order.  The divergence rows are
\* SyncMerge's subject and are not kept here.
Merged(m, entries) ==
  MapThenFoldSet(LAMBDA e, state : [Reduce(state, e) EXCEPT !.rows = {}], m,
                 LAMBDA e : e, Newest, entries)

\* The clocks that can result from folding entries in canonical order;
\* empty when one of them throws.
Received(k, entries, now) ==
  MapThenFoldSet(LAMBDA e, ks : UNION {Receive(x, e, now) : x \in ks}, {k},
                 LAMBDA e : e, Newest, entries)

\* Put f's value at x, adding x to the domain.
With(f, x, v) == [y \in DOMAIN f \cup {x} |-> IF y = x THEN v ELSE f[y]]

Live(m) == m.tomb \cup m.live

\* The claims appendDivergence re-issues, and the rows once they are stored.
PendingStored(rows, claims, senders) ==
  [y \in DOMAIN rows \cup (senders \cap DOMAIN claims) |->
     IF y \in senders \cap DOMAIN claims THEN claims[y] ELSE rows[y]]

\* Does the second, best-effort write of an operation succeed?
SecondWrite == IF "append" \in Faults THEN BOOLEAN ELSE {TRUE}

-----------------------------------------------------------------------------
(* Local writes.                                                           *)

\* sumComponentFor: a count asserts the total; the entry carries the part
\* the other devices do not already contribute.
ComponentFor(d, rec, field, val) ==
  IF field \notin SumFields THEN val
  ELSE LET others == {e \in Cell(merge[d].live, <<rec, field>>) : e.dev # d}
           share == SumValue(others)
       IN IF val > share THEN val - share ELSE 0

\* writeChanges with one change, the append and the best-effort second
\* write: the log, the merge and the cursor of the writer move together.
Write(d, rec, field, val, now) ==
  /\ Cardinality(emitted) < MaxWrites
  /\ \E stamp \in Tick(clock[d], now), second \in SecondWrite :
       LET e == [rec |-> rec, field |-> field,
                 val |-> IF field = TombField THEN 0
                         ELSE ComponentFor(d, rec, field, val),
                 l |-> stamp.l, c |-> stamp.c, dev |-> d, seq |-> localSeq[d] + 1]
           seen == ahead[d] \cup {SeqId(e)}
           marks == FoldedMark(mark[d], seen)
       IN /\ emitted' = emitted \cup {e}
          /\ accepted' = [accepted EXCEPT ![d] = @ \cup {e}]
          /\ log' = [log EXCEPT ![d] = @ \cup {e}]
          /\ merge' = [merge EXCEPT ![d] = Merged(@, {e})]
          /\ mark' = [mark EXCEPT ![d] = marks]
          /\ ahead' = [ahead EXCEPT ![d] = Above(seen, marks)]
          /\ localSeq' = [localSeq EXCEPT ![d] = @ + 1]
          /\ clock' = [clock EXCEPT ![d] = stamp]
          /\ IF second
             THEN /\ peerRows' = [peerRows EXCEPT
                                    ![d] = PendingStored(@, peerMarks[d], dirty[d])]
                  /\ dirty' = [dirty EXCEPT ![d] = {}]
             ELSE UNCHANGED <<peerRows, dirty>>
  /\ UNCHANGED <<peerMarks, stale, docs, aged>>

\* Mutant of WriteFails: the entry is merged before it is durable.
WriteFailsMerged(d, now) ==
  /\ "append" \in Faults
  /\ Cardinality(emitted) < MaxWrites
  /\ \E stamp \in Tick(clock[d], now), rec \in Records :
       /\ clock' = [clock EXCEPT ![d] = stamp]
       /\ merge' = [merge EXCEPT ![d] =
                      Merged(@, {[rec |-> rec, field |-> TombField, val |-> 0, l |-> stamp.l,
                                  c |-> stamp.c, dev |-> d, seq |-> localSeq[d] + 1]})]
  /\ UNCHANGED <<emitted, accepted, log, mark, ahead, localSeq,
                 peerMarks, peerRows, stale, dirty, docs, aged>>

\* The append fails: the ticks stay, nothing else moves.  (Bounded like the
\* writes: the failures that leave a counter above MaxWrites are cut off.)
WriteFails(d, now) ==
  /\ "append" \in Faults
  /\ Cardinality(emitted) < MaxWrites
  /\ \E stamp \in Tick(clock[d], now) :
       /\ stamp.c <= MaxWrites
       /\ clock' = [clock EXCEPT ![d] = stamp]
  /\ UNCHANGED <<emitted, accepted, log, merge, mark, ahead, localSeq,
                 peerMarks, peerRows, stale, dirty, docs, aged>>

-----------------------------------------------------------------------------
(* Export.                                                                 *)

\* A play event beyond the retention window never ships.
Retired(e) == e.rec \in aged /\ ~IsTomb(e)

\* The heads of the lanes above `since`, merged in canonical order.  (A
\* lane is sorted by seq, and a device's stamps rise with its seqs.)
Window(d, since) == {e \in log[d] : e.seq > since[e.dev] /\ ~Retired(e)}

Page(d, since) ==
  {e \in Window(d, since) :
     Cardinality({x \in Window(d, since) : Less(x, e)}) < PageLimit}

\* Mutant of Skipped: every hole of the window is claimed absent.
SkippedUnknown(d, since, page) ==
  LET shippedMax(s) == Max({0} \cup {e.seq : e \in {x \in page : x.dev = s}})
      present == {SeqId(e) : e \in {x \in log[d] : ~Retired(x)}}
  IN {p \in Devices \X (1 .. MaxWrites) :
        p[2] > since[p[1]] /\ p[2] <= shippedMax(p[1]) /\ p \notin present}

\* Mutant of Skipped: retired play events are left out and not mentioned.
SkippedCompacted(d, since, page) ==
  LET shippedMax(s) == Max({0} \cup {e.seq : e \in {x \in page : x.dev = s}})
      present == {SeqId(e) : e \in log[d]}
  IN {p \in Devices \X (1 .. MaxWrites) :
        /\ p[2] > since[p[1]] /\ p[2] <= shippedMax(p[1])
        /\ p[2] <= mark[d][p[1]] /\ p \notin present}

\* Seqs at or below the largest shipped one that the receiver will never
\* see: holes this replica accounts for, and retired play events.
Skipped(d, since, page) ==
  LET shippedMax(s) == Max({0} \cup {e.seq : e \in {x \in page : x.dev = s}})
      present == {SeqId(e) : e \in log[d]}
  IN UNION {{<<s, n>> : n \in {i \in since[s] + 1 .. shippedMax(s) :
                \/ i <= mark[d][s] /\ <<s, i>> \notin present
                \/ \E e \in log[d] : SeqId(e) = <<s, i>> /\ Retired(e)}} :
              s \in Devices}

Document(d, since) ==
  LET page == Page(d, since)
  IN [from |-> d, cursor |-> mark[d], entries |-> page,
      skipped |-> Skipped(d, since, page),
      more |-> page # Window(d, since)]

\* The cursors a may export from, towards b: the one b's request carries, or
\* the last one a heard from b (none, right after pairing).
Sinces(a, b) ==
  IF "stale" \in Faults
  THEN {mark[b], NoMarks} \cup {claims[b] : claims \in {c \in {peerMarks[a], peerRows[a]} : b \in DOMAIN c}}
  ELSE {mark[b]}

Ship(doc, b, auth) ==
  /\ Cardinality(docs) < MaxDocs
  /\ docs' = docs \cup {[doc |-> doc, to |-> b, auth |-> auth]}
  /\ UNCHANGED <<emitted, accepted, log, merge, mark, ahead, localSeq, clock,
                 peerMarks, peerRows, stale, dirty, aged>>

\* exportDelta on a, the page sent to b over their session.
Export(a, b) ==
  /\ <<a, b>> \in Links
  /\ \E since \in Sinces(a, b) : Ship(Document(a, since), b, TRUE)

\* collectSyncDeltaDocs: the cursor each page of a clipboard export starts
\* from, raised past everything the page before ships or skips.
Coverage(a) ==
  LET covered[k \in 0 .. MaxWrites] ==
        IF k = 0 THEN NoMarks
        ELSE LET doc == Document(a, covered[k - 1])
                 passed == {SeqId(e) : e \in doc.entries} \cup doc.skipped
             IN [s \in Devices |->
                   Max({covered[k - 1][s]} \cup {p[2] : p \in {q \in passed : q[1] = s}})]
  IN covered

\* Any single document of a's clipboard export pasted into b, by hand and so
\* under no authenticated session.
Paste(a, b) ==
  /\ <<a, b>> \in Imports
  /\ \E k \in 0 .. MaxWrites - 1 :
       /\ \A i \in 0 .. k - 1 : Document(a, Coverage(a)[i]).more
       /\ Ship(Document(a, Coverage(a)[k]), b, FALSE)

Lose(doc) ==
  /\ docs' = docs \ {doc}
  /\ UNCHANGED <<emitted, accepted, log, merge, mark, ahead, localSeq, clock,
                 peerMarks, peerRows, stale, dirty, aged>>

-----------------------------------------------------------------------------
(* Apply.                                                                  *)

\* notePeerCursor: an authenticated sender's cursor replaces its row.
Noted(d, doc) == With(peerMarks[d], doc.from, doc.cursor)

ClaimMoves(d, doc) ==
  \/ doc.from \in stale[d]
  \/ doc.from \notin DOMAIN peerMarks[d]
  \/ peerMarks[d][doc.from] # doc.cursor

\* Mutants of Compactable: without the merge's veto, without the newest own
\* entry, without waiting for the silent peers.
CompactableLive(d, lanes, m, claims, silent) ==
  IF DOMAIN claims = {} \/ silent # {} THEN {}
  ELSE {e \in lanes : /\ \A p \in DOMAIN claims : e.seq <= claims[p][e.dev]
                      /\ ~(e.dev = d /\ e.seq = localSeq[d])}

CompactableNewest(d, lanes, m, claims, silent) ==
  IF DOMAIN claims = {} \/ silent # {} THEN {}
  ELSE {e \in lanes : /\ \A p \in DOMAIN claims : e.seq <= claims[p][e.dev]
                      /\ e \notin Live(m)}

CompactableUnheard(d, lanes, m, claims, silent) ==
  IF DOMAIN claims = {} THEN {}
  ELSE {e \in lanes : /\ \A p \in DOMAIN claims : e.seq <= claims[p][e.dev]
                      /\ e \notin Live(m)
                      /\ ~(e.dev = d /\ e.seq = localSeq[d])}

\* planCompaction: entries at or below every peer's claim that no merge
\* state refers to; the device's newest own entry always stays.
Compactable(d, lanes, m, claims, silent) ==
  IF DOMAIN claims = {} \/ silent # {} THEN {}
  ELSE {e \in lanes :
          /\ \A p \in DOMAIN claims : e.seq <= claims[p][e.dev]
          /\ e \notin Live(m)
          /\ ~(e.dev = d /\ e.seq = localSeq[d])}

\* The claim table and the unsaved claims once the document was read.
ClaimsWith(pkt) == IF pkt.auth THEN Noted(pkt.to, pkt.doc) ELSE peerMarks[pkt.to]
SilentWith(pkt) == IF pkt.auth THEN stale[pkt.to] \ {pkt.doc.from} ELSE stale[pkt.to]
UnsavedWith(pkt) ==
  IF pkt.auth /\ ClaimMoves(pkt.to, pkt.doc)
  THEN dirty[pkt.to] \cup {pkt.doc.from} ELSE dirty[pkt.to]

Fresh(pkt) == pkt.doc.entries \ log[pkt.to]

NeedsLog(pkt) ==
  Fresh(pkt) # {} \/ pkt.doc.skipped # {} \/ pkt.doc.from \in UnsavedWith(pkt)

\* The clock fold of the whole document does not throw.
ClockAdmits(pkt, now) == Received(clock[pkt.to], pkt.doc.entries, now) # {}

\* applyDelta, its append durable or not needed.
Apply(pkt, now) ==
  LET doc == pkt.doc
      d == pkt.to
      fresh == Fresh(pkt)
      claims == ClaimsWith(pkt)
      saved == IF NeedsLog(pkt) /\ pkt.auth THEN {doc.from} ELSE {}
      pending == UnsavedWith(pkt) \ saved
      rows == PendingStored(peerRows[d], claims, saved)
      seen == ahead[d] \cup {SeqId(e) : e \in fresh} \cup doc.skipped
      marks == FoldedMark(mark[d], Above(seen, mark[d]))
      m == Merged(merge[d], fresh)
      drop == Compactable(d, log[d] \cup fresh, m, claims, SilentWith(pkt))
  IN /\ ClockAdmits(pkt, now)
     /\ clock' = [clock EXCEPT ![d] = CHOOSE k \in Received(clock[d], fresh, now) : TRUE]
     /\ accepted' = [accepted EXCEPT ![d] = @ \cup fresh]
     /\ merge' = [merge EXCEPT ![d] = m]
     /\ mark' = [mark EXCEPT ![d] = marks]
     /\ ahead' = [ahead EXCEPT ![d] = Above(seen, marks)]
     /\ peerMarks' = [peerMarks EXCEPT ![d] = claims]
     /\ stale' = [stale EXCEPT ![d] = SilentWith(pkt)]
     /\ \E second \in SecondWrite :
          IF second
          THEN /\ log' = [log EXCEPT ![d] = (@ \cup fresh) \ drop]
               /\ peerRows' = [peerRows EXCEPT ![d] = PendingStored(rows, claims, pending)]
               /\ dirty' = [dirty EXCEPT ![d] = {}]
          ELSE /\ log' = [log EXCEPT ![d] = @ \cup fresh]
               /\ peerRows' = [peerRows EXCEPT ![d] = rows]
               /\ dirty' = [dirty EXCEPT ![d] = pending]
     /\ docs' \in {docs \ {pkt}} \cup (IF "replay" \in Faults THEN {docs} ELSE {})
     /\ UNCHANGED <<emitted, localSeq, aged>>

\* Mutant of ApplyFails: the seqs are committed before the append.
ApplyFailsCommitted(pkt, now) ==
  LET d == pkt.to
      seen == ahead[d] \cup {SeqId(e) : e \in Fresh(pkt)} \cup pkt.doc.skipped
      marks == FoldedMark(mark[d], Above(seen, mark[d]))
  IN /\ "append" \in Faults
     /\ NeedsLog(pkt)
     /\ docs' = docs \ {pkt}
     /\ mark' = [mark EXCEPT ![d] = marks]
     /\ ahead' = [ahead EXCEPT ![d] = Above(seen, marks)]
     /\ peerMarks' = [peerMarks EXCEPT ![d] = ClaimsWith(pkt)]
     /\ stale' = [stale EXCEPT ![d] = SilentWith(pkt)]
     /\ dirty' = [dirty EXCEPT ![d] = UnsavedWith(pkt)]
     /\ UNCHANGED <<emitted, accepted, log, merge, localSeq, clock, peerRows, aged>>

\* applyDelta whose append fails: only the claim table moved.
ApplyFails(pkt, now) ==
  LET d == pkt.to
  IN /\ "append" \in Faults
     /\ ClockAdmits(pkt, now)
     /\ NeedsLog(pkt)
     /\ docs' = docs \ {pkt}
     /\ peerMarks' = [peerMarks EXCEPT ![d] = ClaimsWith(pkt)]
     /\ stale' = [stale EXCEPT ![d] = SilentWith(pkt)]
     /\ dirty' = [dirty EXCEPT ![d] = UnsavedWith(pkt)]
     /\ UNCHANGED <<emitted, accepted, log, merge, mark, ahead, localSeq, clock,
                    peerRows, aged>>

-----------------------------------------------------------------------------
(* Restart.                                                                *)

\* Mutant of HighestStamp: the stamp of whichever row came first.
FirstStamp(entries) ==
  IF entries = {} THEN [l |-> 0, c |-> 0]
  ELSE LET row == CHOOSE e \in entries : \A x \in entries : StampLeq(e, x)
       IN [l |-> row.l, c |-> row.c]

HighestStamp(entries) ==
  IF entries = {} THEN [l |-> 0, c |-> 0]
  ELSE LET top == CHOOSE e \in entries : \A x \in entries : StampLeq(x, e)
       IN [l |-> top.l, c |-> top.c]

\* Mutant of Restart: the next ordinal follows the number of rows.
RestartCounting(d) ==
  /\ "crash" \in Faults
  /\ localSeq' = [localSeq EXCEPT ![d] = Cardinality({x \in log[d] : x.dev = d})]
  /\ stale' = [stale EXCEPT ![d] = DOMAIN peerRows[d]]
  /\ dirty' = [dirty EXCEPT ![d] = {}]
  /\ peerMarks' = [peerMarks EXCEPT ![d] = NoClaims]
  /\ UNCHANGED <<emitted, accepted, log, merge, mark, ahead, clock, peerRows, docs, aged>>

\* hydrate: everything is rebuilt from the durable rows.
Restart(d) ==
  /\ "crash" \in Faults
  /\ merge' = [merge EXCEPT ![d] = Merged(EmptyMerge, log[d])]
  /\ localSeq' = [localSeq EXCEPT ![d] =
                    Max({0} \cup {e.seq : e \in {x \in log[d] : x.dev = d}})]
  /\ clock' = [clock EXCEPT ![d] = HighestStamp(log[d])]
  /\ ahead' = [ahead EXCEPT ![d] = Above({SeqId(e) : e \in log[d]}, mark[d])]
  /\ peerMarks' = [peerMarks EXCEPT ![d] = NoClaims]
  /\ stale' = [stale EXCEPT ![d] = DOMAIN peerRows[d]]
  /\ dirty' = [dirty EXCEPT ![d] = {}]
  /\ UNCHANGED <<emitted, accepted, log, mark, peerRows, docs, aged>>

\* A play event leaves the retention window.
Age(rec) ==
  /\ "age" \in Faults
  /\ aged' = aged \cup {rec}
  /\ UNCHANGED <<emitted, accepted, log, merge, mark, ahead, localSeq, clock,
                 peerMarks, peerRows, stale, dirty, docs>>

-----------------------------------------------------------------------------
\* A play event is written once, under an id of its own.
LocalWrite(d, now) ==
  \E rec \in Records :
    \/ /\ rec \notin PlayRecords
       /\ \E field \in Fields, val \in Values : Write(d, rec, field, val, now)
    \/ /\ rec \in PlayRecords
       /\ \A e \in emitted : e.rec # rec
       /\ \E field \in LwwFields, val \in Values : Write(d, rec, field, val, now)
    \/ Write(d, rec, TombField, 0, now)

Next ==
  \/ \E d \in Devices, now \in Times : LocalWrite(d, now) \/ WriteFails(d, now)
  \/ \E l \in Links : Export(l[1], l[2])
  \/ \E i \in Imports : Paste(i[1], i[2])
  \/ \E pkt \in docs, now \in Times : Apply(pkt, now) \/ ApplyFails(pkt, now)
  \/ \E pkt \in docs : Lose(pkt)
  \/ \E d \in Devices : Restart(d)
  \/ \E rec \in PlayRecords : Age(rec)

Spec == Init /\ [][Next]_vars

\* The scheduler keeps running rounds on every link; a link that keeps
\* carrying documents keeps getting one through; and every request times out,
\* so no document stays in flight for ever.
FairSpec ==
  /\ Spec
  /\ WF_vars(\E pkt \in docs : Lose(pkt) \/ \E now \in Times : Apply(pkt, now))
  /\ \A l \in Links :
       /\ SF_vars(Export(l[1], l[2]))
       /\ SF_vars(\E pkt \in docs, now \in Times :
                    pkt.auth /\ pkt.doc.from = l[1] /\ pkt.to = l[2] /\ Apply(pkt, now))

-----------------------------------------------------------------------------
(* Properties.                                                             *)

\* The shape of the state: logs hold accepted entries, accepted entries were
\* emitted, documents carry what was emitted, marks count emissions.
TypeOK ==
  /\ emitted \subseteq Entry
  /\ \A d \in Devices :
       /\ log[d] \subseteq accepted[d] /\ accepted[d] \subseteq emitted
       /\ Live(merge[d]) \subseteq log[d]
       /\ clock[d] \in Stamp
       /\ \A s \in Devices : mark[d][s] \in 0 .. localSeq[s]
       /\ DOMAIN peerMarks[d] \cup DOMAIN peerRows[d] \cup stale[d] \subseteq Devices
       /\ stale[d] \subseteq DOMAIN peerRows[d]
  /\ \A pkt \in docs : pkt.doc.entries \subseteq emitted

\* w makes e irrelevant wherever both are known.
Supersedes(w, e) ==
  /\ w.rec = e.rec
  /\ Less(e, w)
  /\ \/ IsTomb(w)
     \/ /\ SamePartition(w, e)
        /\ Numeric(e.field) => w.val >= e.val

\* A cursor is honest: a device that claims to hold a change either took it
\* in, or will never show it, because something that supersedes it is
\* already in or still to come.  (A play event past retention may be claimed.)
ClaimsAreBacked ==
  \A d \in Devices : \A e \in emitted :
    e.seq <= mark[d][e.dev] /\ ~Retired(e) =>
      \/ e \in accepted[d]
      \/ \E w \in emitted :
           Supersedes(w, e) /\ (w \in accepted[d] \/ w.seq > mark[d][w.dev])

\* Two devices whose cursors claim everything show the same library.
CaughtUpConverges ==
  \A d \in Devices :
    (\A s \in Devices : mark[d][s] = localSeq[s]) =>
      \A slot \in Slots :
        slot[1] \notin aged => merge[d].shown[slot] = View(emitted)[slot]

\* Neither compaction nor a restart makes a device forget: the rows its log
\* still holds mean what everything it ever accepted means, so the next
\* hydrate, and a peer that copies the log, show the same library.
NothingLost ==
  \A d \in Devices : View(log[d]) = View(accepted[d])

\* The clock a device restarts with is at or above all it ever accepted,
\* although compaction dropped rows the stamp is recovered from.
ClockCoversAccepted ==
  \A d \in Devices : \A e \in accepted[d] : StampLeq(e, clock[d])

\* No seq is used twice and seqs rise with stamps, across restarts.
SeqsIdentify ==
  \A a, b \in emitted :
    a.dev = b.dev /\ a.seq <= b.seq => a = b \/ (a.seq < b.seq /\ Less(a, b))

\* A row leaves a log only when every peer that log remembers claims it.
CompactionWaits ==
  [][\A d \in Devices : \A e \in log[d] \ log'[d] :
       \A p \in DOMAIN peerRows[d] \cup DOMAIN peerMarks[d] :
         e.seq <= mark[p][e.dev]]_vars

\* The engines implement the shared library.
Library == INSTANCE SharedLibrary WITH
  written <- emitted, known <- accepted,
  shown <- [d \in Devices |-> merge[d].shown]
ImplementsLibrary == Library!LibSpec

\* Whatever documents are lost: once writing stops, rounds bring the two ends of
\* every link to one library (retired play events aside).  Of Faults, "age" only:
\* no fairness is stated that would bring crashes to an end.
EventuallyConsistent ==
  <>[](\A l \in Links : \A slot \in Slots :
         slot[1] \notin aged => merge[l[1]].shown[slot] = merge[l[2]].shown[slot])

\* "Contiguity costs a stalled cursor while a hole is unfilled - chattier,
\* never lossy": what one end of a link holds, the other end gets to hold, or
\* its cursor gets to account for.
NeverLossy ==
  <>[](\A l \in Links : \A e \in log[l[1]] :
         e \in accepted[l[2]] \/ e.seq <= mark[l[2]][e.dev])
=============================================================================
