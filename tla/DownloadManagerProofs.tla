------------------------ MODULE DownloadManagerProofs ------------------------
(***************************************************************************)
(* The invariants of DownloadManager.                                      *)
(*                                                                         *)
(* LInv is about the ledger.  A commit in the queue, the runner and the    *)
(* removal it belongs to agree on where they stand (Awaits, Leaving), a    *)
(* row in memory fits the stage of its runner or of its removal (Attended, *)
(* Removing), and the old row a failed commit would put back is one that   *)
(* may be put back (Restored).  FInv is about the files.  A part file is   *)
(* of the encoding that its row names (Described), or its runner knows     *)
(* better and has not let the ledger hear of it, or the row will be        *)
(* corrected by a commit that waits (OnDisk); a finished file is the whole *)
(* of one encoding.  GInv says that a download that is gone has no file.   *)
(***************************************************************************)
EXTENDS DownloadManager, FiniteSetTheorems, TLAPS

-----------------------------------------------------------------------------
(* The inductive invariant.                                                *)

\* The commits, the stages of a runner, and the commits a runner awaits.
Kinds == {"request", "retry", "cancel", "claim", "minted", "checkpoint", "reset", "fail",
          "done", "demote", "mark", "drop"}
Stages == {"claim", "mint", "minted", "begin", "fetch", "reset", "fail", "done", "reclaim"}
Awaited == {"claim", "minted", "reset", "fail", "done"}

\* The records that occur: rows, commits that wait, runners, removals.
Entries == [id : Ids, rec : Recordings, state : States, off : Sizes, len : Sizes]
Commits == [kind : Kinds, old : Entries]
Transfers == [id : Ids, at : Stages, cancelled : BOOLEAN, off : Sizes, len : Sizes,
              first : {0} \cup Encodings, enc : {0} \cup Encodings, start : Sizes, tries : Nat]
Departures == [id : Ids, row : Entries, replacing : BOOLEAN, at : {"mark", "delete", "drop"},
               waits : BOOLEAN]

\* The commits that may fail.
Mild == {"request", "retry", "claim", "checkpoint", "done", "drop"}

\* The hypothesis of the theorems: no fault of the list Faults occurs, and of the
\* commits only those of Mild fail.
Reliable == Faults = {} /\ Failing \subseteq Mild

\* Does a commit of this kind and download wait?
Queued(kind, id) == \E i \in 1..Len(saves) : saves[i].kind = kind /\ saves[i].old.id = id

\* The rows that commits in the queue would put back, and every row held anywhere.
Olds == {saves[i].old : i \in 1..Len(saves)}
Known == rows \cup pump \cup Olds \cup {x.row : x \in removals}

\* The types of the variables.
Shapes ==
  /\ phase \in {"down", "up", "demoting", "stopping", "stopped", "swapped"} /\ net \in BOOLEAN
  /\ rows \subseteq Entries /\ disk \subseteq Entries /\ pump \subseteq Entries
  /\ saves \in Seq(Commits)
  /\ removals \subseteq Departures /\ runner \subseteq Transfers
  /\ mark \in [Ids -> Sizes]
  /\ minted \in 0..MaxIds

\* Ids are those that were minted; no offset lies behind the length.
Numbers ==
  /\ \A r \in Known \cup disk : r.id <= minted /\ r.off <= r.len
  /\ \A t \in runner : t.id <= minted
  /\ gone \subseteq 1..minted /\ told \subseteq 1..minted

\* One transfer at a time, and no pump beside it.  No pump waits behind a stop, no
\* transfer outlasts it, and nothing at all is under way when down or swapped.
Phases ==
  /\ phase \in {"down", "swapped"} => runner = {} /\ pump = {} /\ saves = <<>> /\ removals = {}
  /\ phase \in {"demoting", "stopping", "stopped"} => pump = {}
  /\ phase = "stopped" => runner = {}
  /\ pump # {} => runner = {}
  /\ \A s, t \in runner : s = t
  /\ \A r, s \in pump : r = s

\* A runner and the one commit it awaits.
Awaits ==
  /\ \A i \in 1..Len(saves) : saves[i].kind \in Awaited =>
       \E t \in runner : t.at = saves[i].kind /\ t.id = saves[i].old.id
  /\ \A i, j \in 1..Len(saves) :
       saves[i].kind \in Awaited /\ saves[j].kind \in Awaited => i = j
  /\ \A t \in runner : t.at \in Awaited => Queued(t.at, t.id)

\* A removal and the one commit it awaits; one removal per recording.
Leaving ==
  /\ \A x \in removals : x.row.id = x.id
  /\ \A x, y \in removals : x.id = y.id \/ x.row.rec = y.row.rec => x = y
  /\ \A i \in 1..Len(saves) : saves[i].kind \in {"mark", "drop"} =>
       \E x \in removals : x.id = saves[i].old.id /\ x.at = saves[i].kind
  /\ \A i, j \in 1..Len(saves) :
       /\ saves[i].kind \in {"mark", "drop"} /\ saves[j].kind \in {"mark", "drop"}
       /\ saves[i].old.id = saves[j].old.id
       => i = j

\* A row on its way out belongs to a removal, and no other row of its recording
\* exists; the files go only after the mark is durable.
Removing ==
  /\ \A x \in removals, r \in rows : r.rec = x.row.rec =>
       r.id = x.id /\ r.state = "removing" /\ x.at # "drop"
  /\ \A r \in rows : r.state = "removing" => \E x \in removals : x.id = r.id
  /\ \A x \in removals, t \in runner : t.id = x.id => x.waits /\ x.at # "drop"
  /\ \A x \in removals, r \in disk : r.id = x.id /\ x.at # "mark" => r.state = "removing"

\* A download is of one recording, wherever its row is held.
Owners == \A r, s \in Known : r.id = s.id => r.rec = s.rec

\* A ledger has one row per download.
Unique(ledger) == \A r, s \in ledger : r.id = s.id => r = s
Ledgers == Storable(rows) /\ Storable(disk) /\ Unique(rows) /\ Unique(disk)

\* A picked row is still one that may be claimed when the answer comes.
Picked ==
  \A r \in pump :
    /\ r.state = "requested"
    /\ \A x \in removals : x.row.rec # r.rec /\ x.id # r.id
    /\ \A s \in rows : s.rec = r.rec => s.id = r.id
    /\ \A s \in rows : s.id = r.id => s.state \in {"requested", "failed_with_retry"}

\* The rows a command may make the row of its download again: they agree on how
\* much of the file is there.
Versions == rows \cup pump \cup
  {saves[i].old : i \in {i \in 1..Len(saves) : saves[i].kind \in {"claim", "retry"}}}
Agreed == \A r, s \in Versions : r.id = s.id => r.off = s.off /\ r.len = s.len

\* A download reported as removed is held nowhere, and one that an import replaced
\* only by the rows that the next launch drops.
Forgotten ==
  /\ gone \cap (IdsOf(disk) \cup IdsOf(pump)) = {}
  /\ phase # "swapped" => gone \cap IdsOf(rows) = {}
  /\ \A t \in runner : t.id \notin gone

\* The claim of a runner waits before, or its minted row behind, a demotion.
ClaimedThenDemoted(id) ==
  \E i, j \in 1..Len(saves) :
    i < j /\ saves[i].kind = "claim" /\ saves[j].kind = "demote" /\ saves[j].old.id = id
DemotedThenMinted(id) ==
  \E i, j \in 1..Len(saves) :
    i < j /\ saves[j].kind = "minted" /\ saves[i].kind = "demote" /\ saves[i].old.id = id

\* The runner ends before it opens its sink.
Doomed(t) ==
  \/ t.at = "claim" /\ ClaimedThenDemoted(t.id)
  \/ t.at = "mint" /\ (t.cancelled \/ Queued("demote", t.id))
  \/ t.at = "minted" /\ (t.cancelled \/ DemotedThenMinted(t.id))
  \/ t.at = "begin" /\ t.cancelled

\* The state of a row at each stage of its runner.
Fits(r, t) ==
  /\ t.at \in {"claim", "mint", "minted", "begin"} => r.state # "available"
  /\ t.at \in {"fetch", "reset"} => r.state \in {"transferring", "requested", "removing"}
  /\ t.at = "fail" => r.state \in {"failed_with_retry", "requested", "removing"}
  /\ t.at = "done" => r.state \in {"available", "removing"}
  /\ t.at = "reclaim" => r.state \in {"transferring", "requested"}
  /\ r.state = "failed_with_retry" => t.at = "fail" \/ Doomed(t)
  /\ r.state = "requested" /\ t.at = "claim" => Doomed(t)
  /\ r.state = "requested" /\ t.at \in {"mint", "minted", "begin", "fetch", "reset"} =>
       t.cancelled \/ Queued("demote", t.id)
  /\ r.state = "removing" => t.cancelled \/ Queued("mark", t.id)

\* A runner that goes on has its row, the row fits it, and a row shown as
\* transferring has a runner.
Attended ==
  /\ \A t \in runner : t.at \in {"minted", "begin", "fetch", "reset", "reclaim"} =>
       t.id \in IdsOf(rows)
  /\ \A t \in runner, r \in rows : r.id = t.id => Fits(r, t)
  /\ \A r \in rows : r.state = "transferring" => \E t \in runner : t.id = r.id

\* A commit that waits ahead of every claim.
BeforeClaim(i) == \A j \in 1..Len(saves) : saves[j].kind = "claim" => i < j

\* What a commit that fails puts back, given where the runner stands.
Restored ==
  \A i \in 1..Len(saves) :
    /\ saves[i].kind = "request" => \A t \in runner : t.id = saves[i].old.id =>
         t.at = "claim" /\ BeforeClaim(i)
    /\ saves[i].kind = "retry" =>
         /\ saves[i].old.state = "failed_with_retry"
         /\ \A t \in runner : t.id = saves[i].old.id =>
              \/ t.at = "fail" \/ Doomed(t)
              \/ t.at = "claim" /\ BeforeClaim(i)
    /\ saves[i].kind = "claim" => saves[i].old.state = "requested"
    /\ saves[i].kind = "done" => saves[i].old.state = "transferring"

\* The part file holds the encoding that the row names by its length.
Described(r) == r.off > 0 => \A k \in 1..Len(parts[r.id]) : parts[r.id][k] = r.len

\* No file, or all of one encoding.
Whole(file) == file = <<>> \/ \E n \in Encodings : file = [k \in 1..n |-> n]

\* What a runner knows of its part file.
Fed(t) ==
  /\ t.at \in {"minted", "begin", "fetch"} => t.enc \in Encodings
  /\ t.at \in {"minted", "begin", "fetch", "reset"} => t.first \in Encodings
  /\ t.at \in {"minted", "begin"} =>
       /\ t.off <= t.len
       /\ t.off > 0 => \A k \in 1..Len(parts[t.id]) : parts[t.id][k] = t.len
  /\ t.at = "fetch" => t.start <= t.enc /\ parts[t.id] = [k \in 1..t.start |-> t.enc]

\* The types of the files.
FileShapes ==
  /\ parts \in [Ids -> Seq(Encodings)] /\ owned \in [Ids -> Seq(Encodings)]
  /\ \A id \in Ids : Len(parts[id]) \in Sizes /\ Len(owned[id]) \in Sizes

\* The ledger in memory, the rows that may come back, and the runner describe the
\* files.
Files ==
  /\ \A id \in Ids : Whole(owned[id])
  /\ phase # "swapped" => \A r \in rows : r.state = "available" => Intact(r)
  /\ \A r \in Versions : Described(r)
  /\ \A i \in 1..Len(saves) : saves[i].kind = "done" => parts[saves[i].old.id] = <<>>
  /\ \A t \in runner : Fed(t)

\* The commits that do not fail.
Sure == {"cancel", "minted", "reset", "fail", "demote", "mark"}

\* The file is ahead of the committed row, and the runner is there to say so.
Moving(r) ==
  \E t \in runner : t.id = r.id /\ t.at = "fetch" /\
    \E s \in rows : s.id = r.id /\ (s.state = "transferring" \/ (s.off = r.off /\ s.len = r.len))

\* The committed row describes the file, and nobody writes to it.
Settled(r) == Described(r) /\ \A t \in runner : t.id = r.id => t.at # "fetch"

\* A commit that does not fail will rewrite the ledger on disk.
Corrected == \E i \in 1..Len(saves) : saves[i].kind \in Sure

\* The committed ledger describes the files, or is about to.
OnDisk ==
  \/ Corrected
  \/ \A r \in disk : r.state # "removing" => Moving(r) \/ Settled(r)

\* What was reported available is finished or on its way out.
Told ==
  /\ \A r \in rows \cup disk : r.id \in told => r.state \in {"available", "removing"}
  /\ \A r \in pump : r.id \notin told
  /\ \A t \in runner : t.id \notin told
  /\ \A i \in 1..Len(saves) : saves[i].kind = "request" => saves[i].old.id \notin told

\* It has its whole file, and its row while the manager runs.
Kept ==
  \A r \in disk : r.id \in told /\ r.state = "available" =>
       Intact(r) /\ (phase # "down" => r.id \in IdsOf(rows))

\* A row that may be transferred has something to wait for.
Waiting ==
  phase = "up" => \A r \in rows : r.state = "requested" /\ net =>
    pump # {} \/ runner # {} \/ Queued("request", r.id) \/ Queued("retry", r.id)

\* The ledger, the files, and both.
LInv ==
  /\ Shapes /\ Numbers /\ Phases /\ Awaits /\ Leaving /\ Removing /\ Owners /\ Ledgers
  /\ Picked /\ Agreed /\ Forgotten /\ Attended /\ Restored /\ Told /\ Waiting
FInv == FileShapes /\ Files /\ OnDisk /\ Kept
IInv == LInv /\ FInv

-----------------------------------------------------------------------------
(* Ledgers.                                                                *)

\* The sizes that occur: nothing, and every part of an encoding.
LEMMA Sized ==
  /\ Sizes \subseteq Nat /\ 0 \in Sizes /\ Encodings \subseteq Sizes
  /\ Encodings \subseteq Nat \ {0}
  /\ \A e \in Encodings, n \in Nat : n <= e => n \in Sizes
BY DownloadAssumption DEF Sizes

\* A ledger has one row per download: At finds it.
LEMMA TheRow ==
  ASSUME NEW ledger, Unique(ledger), NEW r \in ledger
  PROVE  At(ledger, r.id) = r
BY DEF At, Unique

\* A row found by its id is in the ledger and has the id.
LEMMA SomeRow ==
  ASSUME NEW ledger, NEW id \in IdsOf(ledger)
  PROVE  At(ledger, id) \in ledger /\ At(ledger, id).id = id
BY DEF At, IdsOf

\* A row put in a ledger replaces the one of its download.
LEMMA Putting ==
  ASSUME NEW ledger, NEW row, NEW r
  PROVE  r \in Put(ledger, row) <=> r = row \/ (r \in ledger /\ r.id # row.id)
BY DEF Put, Without

\* A ledger with one row per download keeps that when a row is put in it.
LEMMA PutUnique ==
  ASSUME NEW ledger, Unique(ledger), NEW row
  PROVE  Unique(Put(ledger, row))
BY DEF Put, Without, Unique

\* A ledger the table accepts stays one when the row put in it is of a recording
\* no other download has.
LEMMA PutStorable ==
  ASSUME NEW ledger, Storable(ledger), NEW row,
         \A s \in ledger : s.rec = row.rec => s.id = row.id
  PROVE  Storable(Put(ledger, row))
BY DEF Put, Without, Storable

\* What a row is after a change of state.
LEMMA Changed ==
  ASSUME NEW r \in Entries, NEW state \in States
  PROVE  /\ In(r, state) \in Entries /\ In(r, state).id = r.id /\ In(r, state).rec = r.rec
         /\ In(r, state).state = state /\ In(r, state).off = r.off /\ In(r, state).len = r.len
BY DEF In, Entries

\* A runner's row that is not taken from it is in the ledger, neither put back
\* nor on its way out.
LEMMA Owned ==
  ASSUME NEW id, ~Unowned(id), Unique(rows)
  PROVE  /\ At(rows, id) \in rows /\ At(rows, id).id = id
         /\ At(rows, id).state \notin {"removing", "requested"}
<1>1. PICK r \in rows : r.id = id /\ r.state \notin {"removing", "requested"}
  BY DEF Unowned
<1> QED
  BY <1>1, TheRow

-----------------------------------------------------------------------------
(* Commits.                                                                *)

\* A commit joins the queue.
LEMMA Joins ==
  ASSUME NEW q, q \in Seq(Commits), NEW c \in Commits
  PROVE  /\ Append(q, c) \in Seq(Commits)
         /\ Len(q) \in Nat
         /\ Len(Append(q, c)) = Len(q) + 1
         /\ \A i \in 1..Len(q) : Append(q, c)[i] = q[i]
         /\ Append(q, c)[Len(q) + 1] = c
OBVIOUS

\* The oldest commit is taken from it.
LEMMA Leaves ==
  ASSUME NEW q, q \in Seq(Commits), q # <<>>
  PROVE  /\ Tail(q) \in Seq(Commits)
         /\ Len(q) \in Nat \ {0}
         /\ Len(Tail(q)) = Len(q) - 1
         /\ \A i \in 1..Len(Tail(q)) : Tail(q)[i] = q[i + 1] /\ i + 1 \in 1..Len(q)
         /\ Head(q) = q[1] /\ Head(q) \in Commits
OBVIOUS

\* What is in the queue after a commit has joined it.
LEMMA Joined ==
  ASSUME Shapes, NEW kind \in Kinds, NEW o \in Entries, saves' = Queue(kind, o)
  PROVE  /\ saves' \in Seq(Commits)
         /\ Len(saves) \in Nat /\ Len(saves') = Len(saves) + 1
         /\ \A i \in 1..Len(saves) : saves'[i] = saves[i]
         /\ saves'[Len(saves) + 1].kind = kind /\ saves'[Len(saves) + 1].old = o
         /\ \A i \in 1..Len(saves') : i \in 1..Len(saves) \/ i = Len(saves) + 1
         /\ \A k, id : Queued(k, id)' <=> Queued(k, id) \/ (k = kind /\ id = o.id)
         /\ Olds' = Olds \cup {o}
         /\ \A id : ClaimedThenDemoted(id) => ClaimedThenDemoted(id)'
         /\ \A id : DemotedThenMinted(id) => DemotedThenMinted(id)'
         /\ \A id : kind = "demote" /\ Queued("claim", id) => ClaimedThenDemoted(o.id)'
         /\ \A id : kind = "minted" /\ Queued("demote", id) => DemotedThenMinted(id)'
<1> DEFINE c == [kind |-> kind, old |-> o]
           n == Len(saves)
<1>1. c \in Commits /\ c.kind = kind /\ c.old = o
  BY DEF Commits
<1>2. saves \in Seq(Commits) /\ saves' = Append(saves, c)
  BY DEF Shapes, Queue
<1> HIDE DEF c
<1>3. /\ saves' \in Seq(Commits)
      /\ n \in Nat /\ Len(saves') = n + 1
      /\ \A i \in 1..n : saves'[i] = saves[i]
      /\ saves'[n + 1] = c
  BY <1>1, <1>2, Joins
<1>4. /\ \A i \in 1..Len(saves') : i \in 1..n \/ i = n + 1
      /\ \A i \in 1..n : i \in 1..Len(saves')
      /\ n + 1 \in 1..Len(saves')
      /\ \A i \in 1..n : i < n + 1
  BY <1>3
<1> HIDE DEF n
<1>5. ASSUME NEW k, NEW id
      PROVE  Queued(k, id)' <=> Queued(k, id) \/ (k = kind /\ id = o.id)
  BY <1>1, <1>3, <1>4 DEF Queued, n
<1>6. Olds' = Olds \cup {o}
  BY <1>1, <1>3, <1>4 DEF Olds, n
<1>7. ASSUME NEW id, ClaimedThenDemoted(id)
      PROVE  ClaimedThenDemoted(id)'
  BY <1>7, <1>1, <1>3, <1>4 DEF ClaimedThenDemoted, n
<1>8. ASSUME NEW id, DemotedThenMinted(id)
      PROVE  DemotedThenMinted(id)'
  BY <1>8, <1>1, <1>3, <1>4 DEF DemotedThenMinted, n
<1>9. ASSUME NEW id, kind = "demote", Queued("claim", id)
      PROVE  ClaimedThenDemoted(o.id)'
  BY <1>9, <1>1, <1>3, <1>4 DEF ClaimedThenDemoted, Queued, n
<1>10. ASSUME NEW id, kind = "minted", Queued("demote", id)
       PROVE  DemotedThenMinted(id)'
  BY <1>10, <1>1, <1>3, <1>4 DEF DemotedThenMinted, Queued, n
<1> QED
  BY <1>1, <1>3, <1>4, <1>5, <1>6, <1>7, <1>8, <1>9, <1>10 DEF n

\* What is in the queue when its oldest commit has been served.
LEMMA Served ==
  ASSUME Shapes, saves # <<>>, saves' = Tail(saves)
  PROVE  LET head == Head(saves) IN
         /\ saves' \in Seq(Commits)
         /\ Len(saves) \in Nat \ {0} /\ Len(saves') = Len(saves) - 1
         /\ \A i \in 1..Len(saves') : saves'[i] = saves[i + 1] /\ i + 1 \in 1..Len(saves)
         /\ 1 \in 1..Len(saves) /\ head = saves[1] /\ head.kind \in Kinds /\ head.old \in Entries
         /\ \A k, id : Queued(k, id) <=> Queued(k, id)' \/ (k = head.kind /\ id = head.old.id)
         /\ Olds' \subseteq Olds /\ head.old \in Olds
         /\ \A id : ClaimedThenDemoted(id) =>
              Queued("demote", id)' /\ (head.kind # "claim" => ClaimedThenDemoted(id)')
         /\ \A id : DemotedThenMinted(id) =>
              DemotedThenMinted(id)' \/ (head.kind = "demote" /\ head.old.id = id)
         /\ \A i \in 1..Len(saves') : BeforeClaim(i + 1) => BeforeClaim(i)'
         /\ head.kind = "claim" => \A i \in 1..Len(saves) : ~BeforeClaim(i)
<1> DEFINE head == Head(saves)
           n == Len(saves)
<1>1. saves \in Seq(Commits)
  BY DEF Shapes
<1>2. /\ saves' \in Seq(Commits)
      /\ n \in Nat \ {0} /\ Len(saves') = n - 1
      /\ \A i \in 1..Len(saves') : saves'[i] = saves[i + 1] /\ i + 1 \in 1..n
      /\ head = saves[1] /\ head \in Commits
  BY <1>1, Leaves
<1>3. /\ \A i \in 1..n : i = 1 \/ (i - 1 \in 1..Len(saves') /\ saves[i] = saves'[i - 1])
      /\ 1 \in 1..n
      /\ \A i, j \in 1..n : i < j => j # 1 /\ (i # 1 => i - 1 < j - 1)
      /\ \A i, j \in 1..Len(saves') : i < j <=> i + 1 < j + 1
      /\ \A i \in 1..n : ~(i < 1)
  BY <1>2
<1>4. head.kind \in Kinds /\ head.old \in Entries
  BY <1>2 DEF Commits
<1> HIDE DEF n, head
<1>5. ASSUME NEW k, NEW id
      PROVE  Queued(k, id) <=> Queued(k, id)' \/ (k = head.kind /\ id = head.old.id)
  <2>1. ASSUME Queued(k, id) PROVE Queued(k, id)' \/ (k = head.kind /\ id = head.old.id)
    <3>1. PICK i \in 1..n : saves[i].kind = k /\ saves[i].old.id = id
      BY <2>1 DEF Queued, n
    <3>2. i = 1 \/ (i - 1 \in 1..Len(saves') /\ saves[i] = saves'[i - 1])
      BY <1>3
    <3> QED
      BY <3>1, <3>2, <1>2 DEF Queued
  <2>2. ASSUME Queued(k, id)' PROVE Queued(k, id)
    <3>1. PICK i \in 1..Len(saves') : saves'[i].kind = k /\ saves'[i].old.id = id
      BY <2>2 DEF Queued
    <3>2. saves'[i] = saves[i + 1] /\ i + 1 \in 1..n
      BY <1>2
    <3> QED
      BY <3>1, <3>2 DEF Queued, n
  <2>3. k = head.kind /\ id = head.old.id => Queued(k, id)
    BY <1>2, <1>3 DEF Queued, n
  <2> QED
    BY <2>1, <2>2, <2>3
<1>6. Olds' \subseteq Olds /\ head.old \in Olds
  BY <1>2, <1>3 DEF Olds, n
<1>7. ASSUME NEW id, ClaimedThenDemoted(id)
      PROVE  Queued("demote", id)' /\ (head.kind # "claim" => ClaimedThenDemoted(id)')
  <2>1. PICK i, j \in 1..n : i < j /\ saves[i].kind = "claim" /\ saves[j].kind = "demote"
                             /\ saves[j].old.id = id
    BY <1>7 DEF ClaimedThenDemoted, n
  <2>2. j - 1 \in 1..Len(saves') /\ saves[j] = saves'[j - 1]
    BY <2>1, <1>3
  <2>3. Queued("demote", id)'
    BY <2>1, <2>2 DEF Queued
  <2>4. ASSUME head.kind # "claim" PROVE ClaimedThenDemoted(id)'
    <3>1. i - 1 \in 1..Len(saves') /\ saves[i] = saves'[i - 1] /\ i - 1 < j - 1
      BY <2>1, <2>4, <1>2, <1>3
    <3> QED
      BY <2>1, <2>2, <3>1 DEF ClaimedThenDemoted
  <2> QED
    BY <2>3, <2>4
<1>8. ASSUME NEW id, DemotedThenMinted(id)
      PROVE  DemotedThenMinted(id)' \/ (head.kind = "demote" /\ head.old.id = id)
  <2>1. PICK i, j \in 1..n : i < j /\ saves[j].kind = "minted" /\ saves[i].kind = "demote"
                             /\ saves[i].old.id = id
    BY <1>8 DEF DemotedThenMinted, n
  <2>2. j - 1 \in 1..Len(saves') /\ saves[j] = saves'[j - 1]
    BY <2>1, <1>3
  <2>3. CASE i = 1
    BY <2>1, <2>3, <1>2
  <2>4. CASE i # 1
    <3>1. i - 1 \in 1..Len(saves') /\ saves[i] = saves'[i - 1] /\ i - 1 < j - 1
      BY <2>1, <2>4, <1>3
    <3> QED
      BY <2>1, <2>2, <3>1 DEF DemotedThenMinted
  <2> QED
    BY <2>3, <2>4
<1>9. ASSUME NEW i \in 1..Len(saves'), BeforeClaim(i + 1)
      PROVE  BeforeClaim(i)'
  BY <1>9, <1>2, <1>3 DEF BeforeClaim, n
<1>10. ASSUME head.kind = "claim", NEW i \in 1..n, BeforeClaim(i)
       PROVE  FALSE
  BY <1>10, <1>2, <1>3 DEF BeforeClaim, n
<1> QED
  BY <1>2, <1>3, <1>4, <1>5, <1>6, <1>7, <1>8, <1>9, <1>10 DEF n, head

-----------------------------------------------------------------------------
(* What several steps share.                                               *)

\* The pump picks nothing, or a row that is requested; it picks one if there is
\* one and nothing runs.
LEMMA Picking ==
  ASSUME NEW ledger, NEW running, pump' \in Picks(ledger, running)
  PROVE  /\ \/ pump' = pump
            \/ /\ pump = {} /\ phase \in {"up", "blind"} /\ running = {}
               /\ \E r \in ledger : r.state = "requested" /\ pump' = {r}
         /\ \A r \in ledger : phase = "up" /\ running = {} /\ r.state = "requested" => pump' # {}
BY DEF Picks

\* A row fresh from the ledger is fit to be picked.
LEMMA FitToPick ==
  ASSUME Removing', Leaving', Owners', Ledgers',
         \A r \in pump' : r \in rows' /\ r.state = "requested"
  PROVE  Picked'
<1> SUFFICES ASSUME NEW r \in pump'
             PROVE  /\ r.state = "requested"
                    /\ \A x \in removals' : x.row.rec # r.rec /\ x.id # r.id
                    /\ \A s \in rows' : s.rec = r.rec => s.id = r.id
                    /\ \A s \in rows' : s.id = r.id => s.state \in {"requested", "failed_with_retry"}
  BY DEF Picked
<1>1. r \in rows' /\ r.state = "requested"
  OBVIOUS
<1>2. \A s \in rows' : s.rec = r.rec => s = r
  BY <1>1 DEF Ledgers, Storable
<1>3. \A s \in rows' : s.id = r.id => s = r
  BY <1>1 DEF Ledgers, Unique
<1>4. ASSUME NEW x \in removals' PROVE x.row.rec # r.rec /\ x.id # r.id
  <2>1. x.row.rec # r.rec
    BY <1>1 DEF Removing
  <2>2. x.row \in Known' /\ r \in Known' /\ x.row.id = x.id
    BY <1>1 DEF Known, Leaving
  <2> QED
    BY <2>1, <2>2 DEF Owners
<1> QED
  BY <1>1, <1>2, <1>3, <1>4

\* The recording of a download is fixed when its id is minted.
LEMMA SameOwners ==
  ASSUME Owners, Numbers, NEW rec,
         \A r \in Known' : \/ \E s \in Known : s.id = r.id /\ s.rec = r.rec
                           \/ r.id = minted + 1 /\ r.rec = rec,
         minted \in Int
  PROVE  Owners'
<1> SUFFICES ASSUME NEW r \in Known', NEW s \in Known', r.id = s.id PROVE r.rec = s.rec
  BY DEF Owners
<1>1. \A q \in Known : q.id # minted + 1
  BY DEF Numbers
<1>2. CASE r.id = minted + 1
  <2>1. ~\E q \in Known : q.id = r.id /\ q.rec = r.rec
    BY <1>1, <1>2
  <2>2. ~\E q \in Known : q.id = s.id /\ q.rec = s.rec
    BY <1>1, <1>2
  <2> QED
    BY <2>1, <2>2
<1>3. CASE r.id # minted + 1
  <2>1. PICK q \in Known : q.id = r.id /\ q.rec = r.rec
    BY <1>3
  <2>2. PICK p \in Known : p.id = s.id /\ p.rec = s.rec
    BY <1>3
  <2> QED
    BY <2>1, <2>2 DEF Owners
<1> QED
  BY <1>2, <1>3

\* While a transfer runs there is no other, no pump waits, and none of its
\* commits but the one it awaits is in the queue.
LEMMA OneRuns ==
  ASSUME Phases, Awaits, NEW t \in runner
  PROVE  /\ runner = {t} /\ pump = {} /\ phase \notin {"down", "swapped"}
         /\ \A i \in 1..Len(saves) : saves[i].kind \in Awaited =>
              t.at = saves[i].kind /\ t.id = saves[i].old.id
BY DEF Phases, Awaits

\* A transfer whose row is gone, put back or on its way out ends alone.
LEMMA EndsAlone ==
  ASSUME LInv, NEW t \in runner, t.at \notin Awaited, Unowned(t.id),
         runner' = {}, pump' \in Picks(rows, {}),
         UNCHANGED <<phase, net, rows, disk, mark, removals, saves, minted, gone, told>>
  PROVE  LInv'
<1> USE DEF LInv
<1>1. runner = {t} /\ pump = {} /\ phase \notin {"down", "swapped"}
  BY OneRuns
<1>2. \A i \in 1..Len(saves) : saves[i].kind \notin Awaited
  BY OneRuns
<1>3. /\ pump' = {} \/ \E r \in rows : r.state = "requested" /\ pump' = {r}
      /\ phase \in {"demoting", "stopping", "stopped"} => pump' = {}
      /\ \A r \in rows : phase = "up" /\ r.state = "requested" => pump' # {}
  BY <1>1, Picking
<1>4. /\ Known' \subseteq Known /\ Versions' \subseteq Versions
  BY <1>3 DEF Known, Versions, Olds
<1>5. \A r \in pump' : r \in rows /\ r.state = "requested"
  BY <1>3
<1>6. \A k, id : Queued(k, id)' <=> Queued(k, id)
  BY DEF Queued
<1>11. Shapes'
  BY <1>3 DEF Shapes
<1>12. Numbers'
  BY <1>4 DEF Numbers
<1>13. Phases'
  BY <1>1, <1>3 DEF Phases
<1>14. Awaits'
  BY <1>2 DEF Awaits
<1>15. Leaving'
  BY DEF Leaving
<1>16. Removing'
  BY DEF Removing
<1>17. Owners'
  BY <1>4 DEF Owners
<1>18. Ledgers'
  BY DEF Ledgers, Storable
<1>19. Picked'
  BY <1>5, <1>15, <1>16, <1>17, <1>18, FitToPick
<1>20. Agreed'
  BY <1>4 DEF Agreed
<1>21. Forgotten'
  BY <1>1, <1>5 DEF Forgotten, IdsOf
<1>22. Attended'
  <2>1. ~\E r \in rows : r.id = t.id /\ r.state = "transferring"
    BY DEF Unowned
  <2> QED
    BY <1>1, <2>1 DEF Attended
<1>23. Restored'
  BY DEF Restored
<1>24. Told'
  BY <1>5 DEF Told
<1>25. Waiting'
  BY <1>3 DEF Waiting
<1> QED
  BY <1>11, <1>12, <1>13, <1>14, <1>15, <1>16, <1>17, <1>18, <1>19, <1>20, <1>21, <1>22, <1>23, <1>24, <1>25

\* A transfer that fails takes its row with it.
LEMMA FailsWithRow ==
  ASSUME LInv, NEW t \in runner, t.at \in {"mint", "begin", "fetch", "reclaim"},
         NEW after \in rows, after.id = t.id, t.at # "reclaim" => after.state \notin {"removing", "requested"},
         NEW o \in {after, In(after, "transferring")},
         rows' = Put(rows, In(after, "failed_with_retry")), saves' = Queue("fail", o),
         runner' = {Runner(t.id, "fail")},
         UNCHANGED <<phase, net, disk, mark, pump, removals, minted, gone, told>>
  PROVE  LInv'
<1> USE DEF LInv
<1> DEFINE row == In(after, "failed_with_retry")
           u == Runner(t.id, "fail")
<1>1. runner = {t} /\ pump = {} /\ phase \notin {"down", "swapped"}
  BY OneRuns
<1>2. \A i \in 1..Len(saves) : saves[i].kind \notin Awaited
  BY OneRuns DEF Awaited
<1>3. /\ after \in Entries /\ after.off <= after.len /\ after.id <= minted
      /\ t \in Transfers /\ t.id \in Ids
  BY DEF Shapes, Numbers, Known, Transfers
<1>4. /\ row \in Entries /\ row.id = t.id /\ row.rec = after.rec
      /\ row.state = "failed_with_retry" /\ row.off = after.off /\ row.len = after.len
      /\ o \in Entries /\ o.id = t.id /\ o.rec = after.rec /\ o.off = after.off /\ o.len = after.len
  BY <1>3, Changed DEF States
<1>5. u \in Transfers /\ u.id = t.id /\ u.at = "fail"
  BY <1>3, Sized DEF Runner, Transfers, Stages
<1>6. after.state # "removing"
  BY DEF Attended, Fits
<1> HIDE DEF row, u
<1>7. \A r : r \in rows' <=> r = row \/ (r \in rows /\ r.id # t.id)
  BY <1>4, Putting DEF row
<1>8. runner' = {u}
  BY DEF u
<1>9. /\ saves' \in Seq(Commits)
      /\ Len(saves) \in Nat /\ Len(saves') = Len(saves) + 1
      /\ \A i \in 1..Len(saves) : saves'[i] = saves[i]
      /\ saves'[Len(saves) + 1].kind = "fail" /\ saves'[Len(saves) + 1].old = o
      /\ \A i \in 1..Len(saves') : i \in 1..Len(saves) \/ i = Len(saves) + 1
      /\ \A k, id : Queued(k, id)' <=> Queued(k, id) \/ (k = "fail" /\ id = t.id)
      /\ Olds' = Olds \cup {o}
  BY <1>4, Joined DEF Kinds
<1>10. /\ \A r \in Known' : r \in Known \/ r \in {row, o}
       /\ \A r \in Versions' : r \in Versions \/ r = row
       /\ after \in Known /\ after \in Versions
  BY <1>7, <1>9 DEF Known, Versions
<1>11. Shapes'
  BY <1>4, <1>5, <1>7, <1>8, <1>9 DEF Shapes
<1>12. Numbers'
  BY <1>3, <1>4, <1>5, <1>8, <1>10 DEF Numbers
<1>13. Phases'
  BY <1>1, <1>8 DEF Phases
<1>14. Awaits'
  <2>1. /\ \A i \in 1..Len(saves) : saves'[i].kind \notin Awaited
        /\ "fail" \in Awaited
    BY <1>2, <1>9 DEF Awaited
  <2>2. \A i \in 1..Len(saves') : saves'[i].kind \in Awaited =>
          i = Len(saves) + 1 /\ saves'[i].kind = "fail" /\ saves'[i].old.id = t.id
    BY <2>1, <1>4, <1>9
  <2>3. \A s \in runner' : s.at = "fail" /\ s.id = t.id /\ Queued("fail", t.id)'
    BY <1>5, <1>8, <1>9
  <2> QED
    BY <2>2, <2>3, <1>5, <1>8 DEF Awaits
<1>15. Leaving'
  BY <1>9, SMTT(20) DEF Leaving
<1>16. Removing'
  BY <1>1, <1>4, <1>5, <1>6, <1>7, <1>8 DEF Removing
<1>17. Owners'
  BY <1>4, <1>10 DEF Owners
<1>18. Ledgers'
  <2>1. \A s \in rows : s.rec = row.rec => s.id = row.id
    BY <1>4 DEF Ledgers, Storable
  <2> QED
    BY <2>1, PutUnique, PutStorable DEF Ledgers, row, Unique, Storable
<1>19. Picked'
  BY <1>1 DEF Picked
<1>20. Agreed'
  BY <1>4, <1>10 DEF Agreed
<1>21. Forgotten'
  BY <1>1, <1>4, <1>5, <1>7, <1>8 DEF Forgotten, IdsOf
<1>22. Attended'
  BY <1>1, <1>4, <1>5, <1>7, <1>8 DEF Attended, Fits
<1>23. Restored'
  <2>1. \A i \in 1..Len(saves) : saves[i].kind = "request" => saves[i].old.id # t.id
    BY DEF Restored
  <2>2. ASSUME NEW i \in 1..Len(saves')
        PROVE  /\ saves'[i].kind = "request" => saves'[i].old.id # t.id
               /\ saves'[i].kind = "retry" => saves'[i].old.state = "failed_with_retry"
               /\ saves'[i].kind = "claim" => saves'[i].old.state = "requested"
               /\ saves'[i].kind = "done" => saves'[i].old.state = "transferring"
    <3>1. CASE i \in 1..Len(saves)
      BY <2>1, <3>1, <1>9 DEF Restored
    <3>2. CASE i = Len(saves) + 1
      BY <3>2, <1>9
    <3> QED
      BY <3>1, <3>2, <1>9
  <2>3. \A s \in runner' : s.id = t.id /\ s.at = "fail"
    BY <1>5, <1>8
  <2> QED
    BY <2>2, <2>3 DEF Restored
<1>24. Told'
  BY <1>4, <1>5, <1>7, <1>8, <1>9, <1>1 DEF Told
<1>25. Waiting'
  BY <1>8 DEF Waiting
<1> QED
  BY <1>11, <1>12, <1>13, <1>14, <1>15, <1>16, <1>17, <1>18, <1>19, <1>20, <1>21, <1>22, <1>23, <1>24, <1>25

\* A transfer whose bytes were refused starts over, once.
LEMMA StartsOver ==
  ASSUME LInv, NEW t \in runner, t.at \in {"begin", "fetch"}, ~t.cancelled,
         NEW after \in rows, after.id = t.id, after.state \notin {"removing", "requested"},
         rows' = Put(rows, [after EXCEPT !.off = 0]), saves' = Queue("reset", after),
         runner' = {[t EXCEPT !.at = "reset", !.enc = 0, !.start = 0]},
         UNCHANGED <<phase, net, disk, mark, pump, removals, minted, gone, told>>
  PROVE  LInv'
<1> USE DEF LInv
<1> DEFINE row == [after EXCEPT !.off = 0]
           u == [t EXCEPT !.at = "reset", !.enc = 0, !.start = 0]
<1>1. runner = {t} /\ pump = {} /\ phase \notin {"down", "swapped"}
  BY OneRuns
<1>2. \A i \in 1..Len(saves) : saves[i].kind \notin Awaited
  BY OneRuns DEF Awaited
<1>3. /\ after \in Entries /\ after.off <= after.len /\ after.id <= minted
      /\ t \in Transfers /\ t.id \in Ids
  BY DEF Shapes, Numbers, Known, Transfers
<1>4. /\ row \in Entries /\ row.id = t.id /\ row.rec = after.rec
      /\ row.state = after.state /\ row.off = 0 /\ row.len = after.len /\ 0 <= row.len
  BY <1>3, Sized DEF Entries
<1>5. u \in Transfers /\ u.id = t.id /\ u.at = "reset" /\ ~u.cancelled
  BY <1>3, Sized DEF Transfers, Stages
<1>6. after.state = "transferring"
  BY <1>3 DEF Attended, Fits, Doomed, Entries, States
<1>71. rows' = Put(rows, row)
  OBVIOUS
<1> HIDE DEF row, u
<1>7. \A r : r \in rows' <=> r = row \/ (r \in rows /\ r.id # t.id)
  BY <1>4, <1>71, Putting
<1>8. runner' = {u}
  BY DEF u
<1>9. /\ saves' \in Seq(Commits)
      /\ Len(saves) \in Nat /\ Len(saves') = Len(saves) + 1
      /\ \A i \in 1..Len(saves) : saves'[i] = saves[i]
      /\ saves'[Len(saves) + 1].kind = "reset" /\ saves'[Len(saves) + 1].old = after
      /\ \A i \in 1..Len(saves') : i \in 1..Len(saves) \/ i = Len(saves) + 1
      /\ \A k, id : Queued(k, id)' <=> Queued(k, id) \/ (k = "reset" /\ id = t.id)
      /\ Olds' = Olds \cup {after}
  BY <1>3, Joined DEF Kinds
<1>10. \A i \in 1..Len(saves) : saves[i].kind \in {"request", "retry", "claim"} => saves[i].old.id # t.id
  BY <1>2 DEF Restored, Doomed, Awaited
<1>100. /\ \A r \in Known' : r \in Known \/ r = row
        /\ \A r \in Versions' : (r \in Versions /\ r.id # t.id) \/ r = row
        /\ after \in Known
  BY <1>1, <1>4, <1>7, <1>9, <1>10 DEF Known, Versions
<1>11. Shapes'
  BY <1>3, <1>4, <1>5, <1>7, <1>8, <1>9 DEF Shapes
<1>12. Numbers'
  BY <1>3, <1>4, <1>5, <1>8, <1>100 DEF Numbers
<1>13. Phases'
  BY <1>1, <1>8 DEF Phases
<1>14. Awaits'
  <2>1. /\ \A i \in 1..Len(saves) : saves'[i].kind \notin Awaited
        /\ "reset" \in Awaited
    BY <1>2, <1>9 DEF Awaited
  <2>2. \A i \in 1..Len(saves') : saves'[i].kind \in Awaited =>
          i = Len(saves) + 1 /\ saves'[i].kind = "reset" /\ saves'[i].old.id = t.id
    BY <2>1, <1>4, <1>9
  <2>3. \A s \in runner' : s.at = "reset" /\ s.id = t.id /\ Queued("reset", t.id)'
    BY <1>5, <1>8, <1>9
  <2> QED
    BY <2>2, <2>3, <1>5, <1>8 DEF Awaits
<1>15. Leaving'
  BY SMTT(30), <1>9 DEF Leaving
<1>16. Removing'
  BY <1>1, <1>4, <1>5, <1>6, <1>7, <1>8 DEF Removing
<1>17. Owners'
  BY <1>4, <1>100 DEF Owners
<1>18. Ledgers'
  <2>1. \A s \in rows : s.rec = row.rec => s.id = row.id
    BY <1>4 DEF Ledgers, Storable
  <2> QED
    BY <2>1, <1>71, PutUnique, PutStorable DEF Ledgers, Unique, Storable
<1>19. Picked'
  BY <1>1 DEF Picked
<1>20. Agreed'
  BY <1>4, <1>100 DEF Agreed
<1>21. Forgotten'
  BY <1>1, <1>4, <1>5, <1>7, <1>8 DEF Forgotten, IdsOf
<1>22. Attended'
  <2>1. t.id \in IdsOf(rows)'
    BY <1>4, <1>7 DEF IdsOf
  <2> QED
    BY <1>1, <1>4, <1>5, <1>6, <1>7, <1>8, <2>1 DEF Attended, Fits
<1>23. Restored'
  <2>2. ASSUME NEW i \in 1..Len(saves')
        PROVE  /\ saves'[i].kind \in {"request", "retry"} => saves'[i].old.id # t.id
               /\ saves'[i].kind = "retry" => saves'[i].old.state = "failed_with_retry"
               /\ saves'[i].kind = "claim" => saves'[i].old.state = "requested"
               /\ saves'[i].kind = "done" => saves'[i].old.state = "transferring"
    <3>1. CASE i \in 1..Len(saves)
      BY <1>10, <3>1, <1>9 DEF Restored
    <3>2. CASE i = Len(saves) + 1
      BY <3>2, <1>9
    <3> QED
      BY <3>1, <3>2, <1>9
  <2>3. \A s \in runner' : s.id = t.id
    BY <1>5, <1>8
  <2> QED
    BY <2>2, <2>3 DEF Restored
<1>24. Told'
  BY SMTT(30), <1>4, <1>5, <1>7, <1>8, <1>9, <1>1 DEF Told
<1>25. Waiting'
  BY <1>8 DEF Waiting
<1> QED
  BY <1>11, <1>12, <1>13, <1>14, <1>15, <1>16, <1>17, <1>18, <1>19, <1>20, <1>21, <1>22, <1>23, <1>24, <1>25

\* A transfer goes on, or is told to stop: nothing but its own record changes.
LEMMA GoesOn ==
  ASSUME LInv, NEW t \in runner, NEW u \in Transfers, u.id = t.id, t.cancelled => u.cancelled,
         u.at = t.at \/ (t.at = "begin" /\ u.at = "fetch" /\ ~t.cancelled),
         runner' = {u}, phase' \in {phase, "demoting", "stopping"}, net' \in BOOLEAN,
         UNCHANGED <<rows, disk, mark, pump, removals, saves, minted, gone, told>>
  PROVE  LInv'
<1> USE DEF LInv
<1>1. runner = {t} /\ pump = {} /\ phase \notin {"down", "swapped"}
  BY OneRuns
<1>2. \A k, id : Queued(k, id)' <=> Queued(k, id)
  BY DEF Queued
<1>3. \A id : /\ ClaimedThenDemoted(id)' <=> ClaimedThenDemoted(id)
              /\ DemotedThenMinted(id)' <=> DemotedThenMinted(id)
  BY DEF ClaimedThenDemoted, DemotedThenMinted
<1>4. Doomed(t) => Doomed(u)' /\ u.at = t.at
  BY <1>2, <1>3 DEF Doomed
<1>5. Known' = Known /\ Versions' = Versions
  BY DEF Known, Versions, Olds
<1>11. Shapes'
  BY DEF Shapes
<1>12. Numbers'
  BY <1>5 DEF Numbers
<1>13. Phases'
  BY <1>1 DEF Phases
<1>14. Awaits'
  BY <1>1, <1>2 DEF Awaits, Awaited
<1>15. Leaving'
  BY DEF Leaving
<1>16. Removing'
  BY DEF Removing
<1>17. Owners'
  BY <1>5 DEF Owners
<1>18. Ledgers'
  BY DEF Ledgers, Storable
<1>19. Picked'
  BY <1>1 DEF Picked
<1>20. Agreed'
  BY <1>5 DEF Agreed
<1>21. Forgotten'
  BY <1>1 DEF Forgotten, IdsOf
<1>22. Attended'
  <2>1. ASSUME NEW r \in rows, r.id = t.id PROVE Fits(r, u)'
    <3>1. Fits(r, t)
      BY <2>1 DEF Attended
    <3>2. r.state \in States
      BY DEF Shapes, Entries
    <3> QED
      BY <2>1, <3>1, <3>2, <1>2, <1>4 DEF Fits, Doomed, States
  <2> QED
    BY <1>1, <2>1 DEF Attended, IdsOf
<1>23. Restored'
  BY <1>1, <1>4 DEF Restored, BeforeClaim, Doomed
<1>24. Told'
  BY DEF Told
<1>25. Waiting'
  BY DEF Waiting
<1> QED
  BY <1>11, <1>12, <1>13, <1>14, <1>15, <1>16, <1>17, <1>18, <1>19, <1>20, <1>21, <1>22, <1>23, <1>24, <1>25

\* A chunk is recorded, and the checkpoint queued when it is due.
LEMMA Records ==
  ASSUME LInv, NEW t \in runner, t.at = "fetch",
         NEW c \in Sizes, NEW e \in Encodings, c <= e,
         NEW current \in rows, current.id = t.id,
         NEW u \in Transfers, u.id = t.id, u.at = "fetch", u.cancelled = t.cancelled,
         rows' = Put(rows, [current EXCEPT !.off = c, !.len = e]),
         saves' = saves \/ saves' = Queue("checkpoint", [current EXCEPT !.off = c, !.len = e]),
         mark' = mark \/ mark' = [mark EXCEPT ![t.id] = c],
         runner' = {u},
         UNCHANGED <<phase, net, disk, pump, removals, minted, gone, told>>
  PROVE  LInv'
<1> USE DEF LInv
<1> DEFINE row == [current EXCEPT !.off = c, !.len = e]
<1>1. runner = {t} /\ pump = {} /\ phase \notin {"down", "swapped"}
  BY OneRuns
<1>2. \A i \in 1..Len(saves) : saves[i].kind \notin Awaited
  BY OneRuns DEF Awaited
<1>3. current \in Entries /\ current.id <= minted /\ t \in Transfers /\ t.id \in Ids
  BY DEF Shapes, Numbers, Known, Transfers
<1>4. /\ row \in Entries /\ row.id = t.id /\ row.rec = current.rec
      /\ row.state = current.state /\ row.off = c /\ row.len = e
  BY <1>3, Sized DEF Entries
<1>71. /\ rows' = Put(rows, row)
       /\ saves' = saves \/ saves' = Queue("checkpoint", row)
  OBVIOUS
<1> HIDE DEF row
<1>7. \A r : r \in rows' <=> r = row \/ (r \in rows /\ r.id # t.id)
  BY <1>4, <1>71, Putting
<1>9. /\ saves' \in Seq(Commits)
      /\ Len(saves) \in Nat /\ Len(saves') \in {Len(saves), Len(saves) + 1}
      /\ \A i \in 1..Len(saves) : saves'[i] = saves[i]
      /\ \A i \in 1..Len(saves') :
           \/ i \in 1..Len(saves)
           \/ saves'[i].kind = "checkpoint" /\ saves'[i].old = row
      /\ \A k, id : Queued(k, id) => Queued(k, id)'
      /\ \A r \in Olds' : r \in Olds \/ r = row
  <2>1. CASE saves' = saves
    <3>1. saves \in Seq(Commits) /\ Len(saves) \in Nat
      BY DEF Shapes
    <3> QED
      BY <2>1, <3>1 DEF Queued, Olds
  <2>2. CASE saves' = Queue("checkpoint", row)
    <3>1. /\ saves' \in Seq(Commits)
          /\ Len(saves) \in Nat /\ Len(saves') = Len(saves) + 1
          /\ \A i \in 1..Len(saves) : saves'[i] = saves[i]
          /\ saves'[Len(saves) + 1].kind = "checkpoint" /\ saves'[Len(saves) + 1].old = row
          /\ \A i \in 1..Len(saves') : i \in 1..Len(saves) \/ i = Len(saves) + 1
          /\ \A k, id : Queued(k, id)' <=> Queued(k, id) \/ (k = "checkpoint" /\ id = t.id)
          /\ Olds' = Olds \cup {row}
      BY <2>2, <1>4, Joined DEF Kinds
    <3> QED
      BY <3>1
  <2> QED
    BY <1>71, <2>1, <2>2
<1>10. \A i \in 1..Len(saves) : saves[i].kind \in {"request", "retry", "claim"} => saves[i].old.id # t.id
  BY <1>2 DEF Restored, Doomed, Awaited
<1>100. /\ \A r \in Known' : r \in Known \/ r = row
        /\ \A r \in Versions' : (r \in Versions /\ r.id # t.id) \/ r = row
        /\ current \in Known
  BY <1>1, <1>4, <1>7, <1>9, <1>10 DEF Known, Versions
<1>11. Shapes'
  BY <1>3, <1>4, <1>7, <1>9 DEF Shapes
<1>12. Numbers'
  BY <1>3, <1>4, <1>100 DEF Numbers
<1>13. Phases'
  BY <1>1 DEF Phases
<1>14. Awaits'
  <2>1. "checkpoint" \notin Awaited /\ "fetch" \notin Awaited
    BY DEF Awaited
  <2>2. \A i \in 1..Len(saves') : saves'[i].kind \notin Awaited
    BY <2>1, <1>2, <1>9
  <2> QED
    BY <2>1, <2>2 DEF Awaits
<1>15. Leaving'
  BY SMTT(30), <1>9 DEF Leaving
<1>16. Removing'
  BY <1>1, <1>4, <1>7 DEF Removing
<1>17. Owners'
  BY <1>4, <1>100 DEF Owners
<1>18. Ledgers'
  <2>1. \A s \in rows : s.rec = row.rec => s.id = row.id
    BY <1>4 DEF Ledgers, Storable
  <2> QED
    BY <2>1, <1>71, PutUnique, PutStorable DEF Ledgers, Unique, Storable
<1>19. Picked'
  BY <1>1 DEF Picked
<1>20. Agreed'
  BY <1>4, <1>100 DEF Agreed
<1>21. Forgotten'
  BY <1>1, <1>4, <1>7 DEF Forgotten, IdsOf
<1>22. Attended'
  <2>1. t.id \in IdsOf(rows)'
    BY <1>4, <1>7 DEF IdsOf
  <2>2. Fits(row, u)'
    <3>1. Fits(current, t)
      BY DEF Attended
    <3> QED
      BY <3>1, <1>4, <1>9 DEF Fits, Doomed
  <2> QED
    BY <1>1, <1>4, <1>7, <2>1, <2>2 DEF Attended
<1>23. Restored'
  <2>2. ASSUME NEW i \in 1..Len(saves')
        PROVE  /\ saves'[i].kind \in {"request", "retry"} => saves'[i].old.id # t.id
               /\ saves'[i].kind = "retry" => saves'[i].old.state = "failed_with_retry"
               /\ saves'[i].kind = "claim" => saves'[i].old.state = "requested"
               /\ saves'[i].kind = "done" => saves'[i].old.state = "transferring"
    BY <1>10, <1>9 DEF Restored
  <2> QED
    BY <2>2 DEF Restored
<1>24. Told'
  BY <1>4, <1>7, <1>9, <1>1 DEF Told
<1>25. Waiting'
  BY DEF Waiting
<1> QED
  BY <1>11, <1>12, <1>13, <1>14, <1>15, <1>16, <1>17, <1>18, <1>19, <1>20, <1>21, <1>22, <1>23, <1>24, <1>25

\* A command or a step of the runner rewrites a row and queues the commit.
LEMMA Rewritten ==
  ASSUME LInv, NEW r \in rows, NEW row \in Entries, row.id = r.id, row.rec = r.rec,
         row.off <= row.len, NEW kind \in Kinds,
         rows' = Put(rows, row), saves' = Queue(kind, r), disk' = disk
  PROVE  /\ r \in Entries /\ r.off <= r.len /\ r.id <= minted /\ r.id \in Ids
         /\ r \in Known /\ r \in Versions
         /\ \A q : q \in rows' <=> q = row \/ (q \in rows /\ q.id # r.id)
         /\ rows' \subseteq Entries
         /\ Ledgers'
         /\ saves' \in Seq(Commits)
         /\ Len(saves) \in Nat /\ Len(saves') = Len(saves) + 1
         /\ \A i \in 1..Len(saves) : saves'[i] = saves[i]
         /\ saves'[Len(saves) + 1].kind = kind /\ saves'[Len(saves) + 1].old = r
         /\ \A i \in 1..Len(saves') : i \in 1..Len(saves) \/ i = Len(saves) + 1
         /\ \A k, id : Queued(k, id)' <=> Queued(k, id) \/ (k = kind /\ id = r.id)
         /\ Olds' = Olds \cup {r}
         /\ \A id : ClaimedThenDemoted(id) => ClaimedThenDemoted(id)'
         /\ \A id : DemotedThenMinted(id) => DemotedThenMinted(id)'
         /\ \A id : kind = "demote" /\ Queued("claim", id) => ClaimedThenDemoted(r.id)'
         /\ \A id : kind = "minted" /\ Queued("demote", id) => DemotedThenMinted(id)'
<1> USE DEF LInv
<1>1. r \in Entries /\ r.off <= r.len /\ r.id <= minted /\ r.id \in Ids
  BY DEF Shapes, Numbers, Known, Entries
<1>2. r \in Known /\ r \in Versions
  BY DEF Known, Versions
<1>3. \A q : q \in rows' <=> q = row \/ (q \in rows /\ q.id # r.id)
  BY Putting
<1>4. rows' \subseteq Entries
  BY <1>3 DEF Shapes
<1>5. Ledgers'
  <2>1. \A s \in rows : s.rec = row.rec => s.id = row.id
    BY DEF Ledgers, Storable
  <2> QED
    BY <2>1, PutUnique, PutStorable DEF Ledgers, Unique, Storable
<1>6. /\ saves' \in Seq(Commits)
      /\ Len(saves) \in Nat /\ Len(saves') = Len(saves) + 1
      /\ \A i \in 1..Len(saves) : saves'[i] = saves[i]
      /\ saves'[Len(saves) + 1].kind = kind /\ saves'[Len(saves) + 1].old = r
      /\ \A i \in 1..Len(saves') : i \in 1..Len(saves) \/ i = Len(saves) + 1
      /\ \A k, id : Queued(k, id)' <=> Queued(k, id) \/ (k = kind /\ id = r.id)
      /\ Olds' = Olds \cup {r}
      /\ \A id : ClaimedThenDemoted(id) => ClaimedThenDemoted(id)'
      /\ \A id : DemotedThenMinted(id) => DemotedThenMinted(id)'
      /\ \A id : kind = "demote" /\ Queued("claim", id) => ClaimedThenDemoted(r.id)'
      /\ \A id : kind = "minted" /\ Queued("demote", id) => DemotedThenMinted(id)'
  BY <1>1, Joined
<1> QED
  BY <1>1, <1>2, <1>3, <1>4, <1>5, <1>6

\* The commit a runner queues is the only one it awaits.
LEMMA AwaitsOne ==
  ASSUME LInv, NEW t \in runner, t.at \notin Awaited, NEW kind \in Awaited,
         NEW u, u.id = t.id, u.at = kind, runner' = {u},
         Len(saves) \in Nat, Len(saves') = Len(saves) + 1,
         \A i \in 1..Len(saves) : saves'[i] = saves[i],
         saves'[Len(saves) + 1].kind = kind, saves'[Len(saves) + 1].old.id = t.id
  PROVE  Awaits'
<1> USE DEF LInv
<1> DEFINE n == Len(saves)
<1>1. \A i \in 1..n : saves'[i].kind \notin Awaited
  BY OneRuns
<1>2. /\ \A i \in 1..Len(saves') : i \in 1..n \/ i = n + 1
      /\ n + 1 \in 1..Len(saves')
  OBVIOUS
<1> HIDE DEF n
<1>3. \A i \in 1..Len(saves') : saves'[i].kind \in Awaited =>
        i = n + 1 /\ saves'[i].kind = kind /\ saves'[i].old.id = t.id
  BY <1>1, <1>2 DEF n
<1>4. Queued(kind, t.id)'
  BY <1>2 DEF Queued, n
<1> QED
  BY <1>3, <1>4 DEF Awaits

\* A transfer whose row must wait is put back before it is told.
LEMMA PutBack ==
  ASSUME LInv, NEW t \in runner, NEW r \in rows, r.id = t.id, r.state = "transferring",
         rows' = Put(rows, In(r, "requested")), saves' = Queue("demote", r),
         phase' \in {phase, "demoting", "stopping"}, net' \in BOOLEAN,
         UNCHANGED <<disk, mark, pump, runner, removals, minted, gone, told>>
  PROVE  LInv'
<1> USE DEF LInv
<1> DEFINE row == In(r, "requested")
<1>1. runner = {t} /\ pump = {} /\ phase \notin {"down", "swapped"}
  BY OneRuns
<1>2. r \in Entries /\ r.off <= r.len
  BY DEF Shapes, Numbers, Known
<1>3. /\ row \in Entries /\ row.id = r.id /\ row.rec = r.rec
      /\ row.state = "requested" /\ row.off = r.off /\ row.len = r.len
  BY <1>2, Changed DEF States
<1>4. rows' = Put(rows, row)
  OBVIOUS
<1> HIDE DEF row
<1>5. /\ r \in Entries /\ r.off <= r.len /\ r.id <= minted /\ r.id \in Ids
      /\ r \in Known /\ r \in Versions
      /\ \A q : q \in rows' <=> q = row \/ (q \in rows /\ q.id # r.id)
      /\ rows' \subseteq Entries
      /\ Ledgers'
      /\ saves' \in Seq(Commits)
      /\ Len(saves) \in Nat /\ Len(saves') = Len(saves) + 1
      /\ \A i \in 1..Len(saves) : saves'[i] = saves[i]
      /\ saves'[Len(saves) + 1].kind = "demote" /\ saves'[Len(saves) + 1].old = r
      /\ \A i \in 1..Len(saves') : i \in 1..Len(saves) \/ i = Len(saves) + 1
      /\ \A k, id : Queued(k, id)' <=> Queued(k, id) \/ (k = "demote" /\ id = r.id)
      /\ Olds' = Olds \cup {r}
      /\ \A id : ClaimedThenDemoted(id) => ClaimedThenDemoted(id)'
      /\ \A id : DemotedThenMinted(id) => DemotedThenMinted(id)'
      /\ \A id : Queued("claim", id) => ClaimedThenDemoted(r.id)'
  BY <1>2, <1>3, <1>4, Rewritten DEF Kinds
<1>6. /\ \A q \in Known' : q \in Known \/ q = row
      /\ \A q \in Versions' : q \in Versions \/ q = row
  BY <1>1, <1>5 DEF Known, Versions
<1>7. "demote" \notin Awaited
  BY DEF Awaited
<1>8. \A id : Doomed(t) => Doomed(t)'
  BY <1>5 DEF Doomed
<1>11. Shapes'
  BY <1>5 DEF Shapes
<1>12. Numbers'
  BY <1>3, <1>5, <1>6 DEF Numbers
<1>13. Phases'
  BY <1>1 DEF Phases
<1>14. Awaits'
  BY SMTT(30), <1>5, <1>7 DEF Awaits
<1>15. Leaving'
  BY <1>5, SMTT(60) DEF Leaving
<1>16. Removing'
  BY <1>3, <1>5 DEF Removing
<1>17. Owners'
  BY <1>3, <1>5, <1>6 DEF Owners
<1>19. Picked'
  BY <1>1 DEF Picked
<1>20. Agreed'
  BY <1>3, <1>5, <1>6 DEF Agreed
<1>21. Forgotten'
  BY <1>1, <1>3, <1>5 DEF Forgotten, IdsOf
<1>22. Attended'
  <2>1. Fits(r, t) /\ (t.at \in {"minted", "begin", "fetch", "reset", "reclaim"} => t.id \in IdsOf(rows)')
    BY <1>3, <1>5 DEF Attended, IdsOf
  <2>2. t.at = "claim" => Doomed(t)'
    BY <1>5 DEF Awaits, Awaited, Doomed
  <2>3. Fits(row, t)'
    BY <2>1, <2>2, <1>3, <1>5 DEF Fits
  <2> QED
    BY <1>1, <1>3, <1>5, <2>1, <2>3 DEF Attended
<1>23. Restored'
  <2>1. ASSUME NEW i \in 1..Len(saves), BeforeClaim(i) PROVE BeforeClaim(i)'
    BY <2>1, <1>5 DEF BeforeClaim
  <2>2. ASSUME NEW i \in 1..Len(saves')
        PROVE  /\ i \in 1..Len(saves) /\ saves'[i] = saves[i]
               \/ saves'[i].kind = "demote"
    BY <1>5
  <2>3. \A s \in runner' : Doomed(s) => Doomed(s)'
    BY <1>1, <1>8
  <2> QED
    BY <2>1, <2>2, <2>3 DEF Restored
<1>24. Told'
  BY <1>1, <1>3, <1>5 DEF Told
<1>25. Waiting'
  BY DEF Waiting
<1> QED
  BY <1>5, <1>11, <1>12, <1>13, <1>14, <1>15, <1>16, <1>17, <1>19, <1>20, <1>21, <1>22, <1>23, <1>24, <1>25

\* Commits that are no part of a removal leave the removals as they are.
LEMMA LeavingKept ==
  ASSUME Leaving, removals' = removals,
         \A i \in 1..Len(saves') : saves'[i].kind \in {"mark", "drop"} =>
           i \in 1..Len(saves) /\ saves'[i] = saves[i]
  PROVE  Leaving'
BY SMTT(30) DEF Leaving

\* A runner that is doomed is cancelled, or its demotion is queued.
LEMMA DoomedBy ==
  ASSUME NEW t, Doomed(t)
  PROVE  t.cancelled \/ Queued("demote", t.id)
<1>1. DemotedThenMinted(t.id) \/ ClaimedThenDemoted(t.id) => Queued("demote", t.id)
  BY DEF DemotedThenMinted, ClaimedThenDemoted, Queued
<1> QED
  BY <1>1 DEF Doomed

\* A failed row is asked for again.
LEMMA AsksAgain ==
  ASSUME LInv, pump = {}, phase \notin {"down", "swapped"},
         NEW r \in rows, r.state = "failed_with_retry",
         rows' = Put(rows, In(r, "requested")), saves' = Queue("retry", r),
         UNCHANGED <<phase, net, disk, mark, pump, runner, removals, minted, gone, told>>
  PROVE  LInv'
<1> USE DEF LInv
<1> DEFINE row == In(r, "requested")
<1>2. r \in Entries /\ r.off <= r.len
  BY DEF Shapes, Numbers, Known
<1>3. /\ row \in Entries /\ row.id = r.id /\ row.rec = r.rec
      /\ row.state = "requested" /\ row.off = r.off /\ row.len = r.len
  BY <1>2, Changed DEF States
<1>4. rows' = Put(rows, row)
  OBVIOUS
<1> HIDE DEF row
<1>5. /\ r \in Entries /\ r.off <= r.len /\ r.id <= minted /\ r.id \in Ids
      /\ r \in Known /\ r \in Versions
      /\ \A q : q \in rows' <=> q = row \/ (q \in rows /\ q.id # r.id)
      /\ rows' \subseteq Entries
      /\ Ledgers'
      /\ saves' \in Seq(Commits)
      /\ Len(saves) \in Nat /\ Len(saves') = Len(saves) + 1
      /\ \A i \in 1..Len(saves) : saves'[i] = saves[i]
      /\ saves'[Len(saves) + 1].kind = "retry" /\ saves'[Len(saves) + 1].old = r
      /\ \A i \in 1..Len(saves') : i \in 1..Len(saves) \/ i = Len(saves) + 1
      /\ \A k, id : Queued(k, id)' <=> Queued(k, id) \/ (k = "retry" /\ id = r.id)
      /\ Olds' = Olds \cup {r}
      /\ \A id : ClaimedThenDemoted(id) => ClaimedThenDemoted(id)'
      /\ \A id : DemotedThenMinted(id) => DemotedThenMinted(id)'
  BY <1>2, <1>3, <1>4, Rewritten DEF Kinds
<1>6. /\ \A q \in Known' : q \in Known \/ q = row
      /\ \A q \in Versions' : q \in Versions \/ q = row
  BY <1>5 DEF Known, Versions
<1>7. "retry" \notin Awaited
  BY DEF Awaited
<1>8. \A t \in runner : Doomed(t) => Doomed(t)'
  BY <1>5 DEF Doomed
<1>11. Shapes'
  BY <1>5 DEF Shapes
<1>12. Numbers'
  BY <1>3, <1>5, <1>6 DEF Numbers
<1>13. Phases'
  BY DEF Phases
<1>14. Awaits'
  <2>1. UNCHANGED runner
    OBVIOUS
  <2>2. \A i \in 1..Len(saves') : saves'[i].kind \in Awaited =>
          i \in 1..Len(saves) /\ saves'[i] = saves[i]
    BY <1>5, <1>7
  <2>3. \A k, id : Queued(k, id) => Queued(k, id)'
    BY <1>5
  <2>4. \A i \in 1..Len(saves') : saves'[i].kind \in Awaited =>
          \E t \in runner' : t.at = saves'[i].kind /\ t.id = saves'[i].old.id
    BY <2>1, <2>2 DEF LInv, Awaits
  <2>5. \A i, j \in 1..Len(saves') :
          saves'[i].kind \in Awaited /\ saves'[j].kind \in Awaited => i = j
    BY <2>2 DEF LInv, Awaits
  <2>6. \A t \in runner' : t.at \in Awaited => Queued(t.at, t.id)'
    BY <2>1, <2>3 DEF LInv, Awaits
  <2> QED
    BY <2>4, <2>5, <2>6 DEF Awaits
<1>15. Leaving'
  <2>1. ASSUME NEW i \in 1..Len(saves'), saves'[i].kind \in {"mark", "drop"}
        PROVE  i \in 1..Len(saves) /\ saves'[i] = saves[i]
    BY <2>1, <1>5
  <2> QED
    BY <2>1, LeavingKept
<1>16. Removing'
  BY <1>3, <1>5 DEF Removing
<1>17. Owners'
  BY <1>3, <1>5, <1>6 DEF Owners
<1>19. Picked'
  BY DEF Picked
<1>20. Agreed'
  BY <1>3, <1>5, <1>6 DEF Agreed
<1>21. Forgotten'
  BY <1>3, <1>5 DEF Forgotten, IdsOf
<1>22. Attended'
  <2>1. ASSUME NEW t \in runner, t.id = r.id PROVE Fits(row, t)'
    <3>1. Fits(r, t)
      BY <2>1 DEF Attended
    <3>2. t.at = "fail" \/ (Doomed(t) /\ (t.cancelled \/ Queued("demote", t.id)))
      BY <3>1, DoomedBy DEF Fits
    <3>3. t.at = "fail" \/ (Doomed(t)' /\ (t.cancelled \/ Queued("demote", t.id)'))
      BY <3>2, <1>5, <1>8
    <3> QED
      BY <3>3, <2>1, <1>3 DEF Fits, Doomed
  <2>2. ASSUME NEW t \in runner, NEW q \in rows, Fits(q, t) PROVE Fits(q, t)'
    BY <2>2, <1>5, <1>8 DEF Fits
  <2> QED
    BY <1>3, <1>5, <2>1, <2>2 DEF Attended, IdsOf
<1>23. Restored'
  <2>1. ASSUME NEW i \in 1..Len(saves), BeforeClaim(i) PROVE BeforeClaim(i)'
    BY <2>1, <1>5 DEF BeforeClaim
  <2>2. \A t \in runner : t.id = r.id => t.at = "fail" \/ Doomed(t)'
    BY <1>8 DEF Attended, Fits
  <2>3. ASSUME NEW i \in 1..Len(saves')
        PROVE  \/ i \in 1..Len(saves) /\ saves'[i] = saves[i]
               \/ saves'[i].kind = "retry" /\ saves'[i].old = r
    BY <1>5
  <2> QED
    BY <2>1, <2>2, <2>3, <1>8 DEF Restored
<1>24. Told'
  BY <1>3, <1>5 DEF Told
<1>25. Waiting'
  BY <1>3, <1>5 DEF Waiting
<1> QED
  BY <1>5, <1>11, <1>12, <1>13, <1>14, <1>15, <1>16, <1>17, <1>19, <1>20, <1>21, <1>22, <1>23, <1>24, <1>25

\* A row that no transfer works on is cancelled where it stands.
LEMMA CancelledRow ==
  ASSUME LInv, pump = {}, phase \notin {"down", "swapped"},
         NEW r \in rows, r.state = "requested", \A t \in runner : t.id # r.id,
         rows' = Put(rows, In(r, "failed_with_retry")), saves' = Queue("cancel", r),
         UNCHANGED <<phase, net, disk, mark, pump, runner, removals, minted, gone, told>>
  PROVE  LInv'
<1> USE DEF LInv
<1> DEFINE row == In(r, "failed_with_retry")
<1>2. r \in Entries /\ r.off <= r.len
  BY DEF Shapes, Numbers, Known
<1>3. /\ row \in Entries /\ row.id = r.id /\ row.rec = r.rec
      /\ row.state = "failed_with_retry" /\ row.off = r.off /\ row.len = r.len
  BY <1>2, Changed DEF States
<1>4. rows' = Put(rows, row)
  OBVIOUS
<1> HIDE DEF row
<1>5. /\ r \in Entries /\ r.off <= r.len /\ r.id <= minted /\ r.id \in Ids
      /\ r \in Known /\ r \in Versions
      /\ \A q : q \in rows' <=> q = row \/ (q \in rows /\ q.id # r.id)
      /\ rows' \subseteq Entries
      /\ Ledgers'
      /\ saves' \in Seq(Commits)
      /\ Len(saves) \in Nat /\ Len(saves') = Len(saves) + 1
      /\ \A i \in 1..Len(saves) : saves'[i] = saves[i]
      /\ saves'[Len(saves) + 1].kind = "cancel" /\ saves'[Len(saves) + 1].old = r
      /\ \A i \in 1..Len(saves') : i \in 1..Len(saves) \/ i = Len(saves) + 1
      /\ \A k, id : Queued(k, id)' <=> Queued(k, id) \/ (k = "cancel" /\ id = r.id)
      /\ Olds' = Olds \cup {r}
      /\ \A id : ClaimedThenDemoted(id) => ClaimedThenDemoted(id)'
      /\ \A id : DemotedThenMinted(id) => DemotedThenMinted(id)'
  BY <1>2, <1>3, <1>4, Rewritten DEF Kinds
<1>6. /\ \A q \in Known' : q \in Known \/ q = row
      /\ \A q \in Versions' : q \in Versions \/ q = row
  BY <1>5 DEF Known, Versions
<1>7. "cancel" \notin Awaited
  BY DEF Awaited
<1>8. \A t \in runner : Doomed(t) => Doomed(t)'
  BY <1>5 DEF Doomed
<1>11. Shapes'
  BY <1>5 DEF Shapes
<1>12. Numbers'
  BY <1>3, <1>5, <1>6 DEF Numbers
<1>13. Phases'
  BY DEF Phases
<1>14. Awaits'
  BY SMTT(30), <1>5, <1>7 DEF Awaits
<1>15. Leaving'
  <2>1. ASSUME NEW i \in 1..Len(saves'), saves'[i].kind \in {"mark", "drop"}
        PROVE  i \in 1..Len(saves) /\ saves'[i] = saves[i]
    BY <2>1, <1>5
  <2> QED
    BY <2>1, LeavingKept
<1>16. Removing'
  BY <1>3, <1>5 DEF Removing
<1>17. Owners'
  BY <1>3, <1>5, <1>6 DEF Owners
<1>19. Picked'
  BY DEF Picked
<1>20. Agreed'
  BY <1>3, <1>5, <1>6 DEF Agreed
<1>21. Forgotten'
  BY <1>3, <1>5 DEF Forgotten, IdsOf
<1>22. Attended'
  <2>2. ASSUME NEW t \in runner, NEW q \in rows, Fits(q, t) PROVE Fits(q, t)'
    BY <2>2, <1>5, <1>8 DEF Fits
  <2> QED
    BY <1>3, <1>5, <2>2 DEF Attended, IdsOf
<1>23. Restored'
  <2>1. ASSUME NEW i \in 1..Len(saves), BeforeClaim(i) PROVE BeforeClaim(i)'
    BY <2>1, <1>5 DEF BeforeClaim
  <2>3. ASSUME NEW i \in 1..Len(saves')
        PROVE  \/ i \in 1..Len(saves) /\ saves'[i] = saves[i]
               \/ saves'[i].kind = "cancel" /\ saves'[i].old = r
    BY <1>5
  <2> QED
    BY <2>1, <2>3, <1>8 DEF Restored
<1>24. Told'
  BY <1>3, <1>5 DEF Told
<1>25. Waiting'
  BY <1>3, <1>5 DEF Waiting
<1> QED
  BY <1>5, <1>11, <1>12, <1>13, <1>14, <1>15, <1>16, <1>17, <1>19, <1>20, <1>21, <1>22, <1>23, <1>24, <1>25

\* A removal begins: the row is marked, and its runner is to wait for.
LEMMA LeaveBegins ==
  ASSUME LInv, pump = {}, phase \notin {"down", "swapped"},
         NEW r \in rows, ~BeingRemoved(r.rec), \A t \in runner : t.at = "reclaim" => t.id # r.id,
         NEW x \in Departures, x.id = r.id, x.row = r, x.at = "mark",
         x.waits <=> \E t \in runner : t.id = r.id,
         rows' = Put(rows, In(r, "removing")), saves' = Queue("mark", r),
         removals' = removals \cup {x},
         UNCHANGED <<phase, net, disk, mark, pump, runner, minted, gone, told>>
  PROVE  LInv'
<1> USE DEF LInv
<1> DEFINE row == In(r, "removing")
<1>2. r \in Entries /\ r.off <= r.len
  BY DEF Shapes, Numbers, Known
<1>3. /\ row \in Entries /\ row.id = r.id /\ row.rec = r.rec
      /\ row.state = "removing" /\ row.off = r.off /\ row.len = r.len
  BY <1>2, Changed DEF States
<1>4. rows' = Put(rows, row)
  OBVIOUS
<1> HIDE DEF row
<1>5. /\ r \in Entries /\ r.off <= r.len /\ r.id <= minted /\ r.id \in Ids
      /\ r \in Known /\ r \in Versions
      /\ \A q : q \in rows' <=> q = row \/ (q \in rows /\ q.id # r.id)
      /\ rows' \subseteq Entries
      /\ Ledgers'
      /\ saves' \in Seq(Commits)
      /\ Len(saves) \in Nat /\ Len(saves') = Len(saves) + 1
      /\ \A i \in 1..Len(saves) : saves'[i] = saves[i]
      /\ saves'[Len(saves) + 1].kind = "mark" /\ saves'[Len(saves) + 1].old = r
      /\ \A i \in 1..Len(saves') : i \in 1..Len(saves) \/ i = Len(saves) + 1
      /\ \A k, id : Queued(k, id)' <=> Queued(k, id) \/ (k = "mark" /\ id = r.id)
      /\ Olds' = Olds \cup {r}
      /\ \A id : ClaimedThenDemoted(id) => ClaimedThenDemoted(id)'
      /\ \A id : DemotedThenMinted(id) => DemotedThenMinted(id)'
  BY <1>2, <1>3, <1>4, Rewritten DEF Kinds
<1>6. /\ \A q \in Known' : q \in Known \/ q = row
      /\ \A q \in Versions' : q \in Versions \/ q = row
  BY <1>5 DEF Known, Versions
<1>9. \A y \in removals : y.id # r.id /\ y.row.rec # r.rec
  <2>1. ASSUME NEW y \in removals PROVE y.row.rec # r.rec
    BY DEF BeingRemoved
  <2>2. ASSUME NEW y \in removals PROVE y.row \in Known /\ y.row.id = y.id
    BY DEF Known, Leaving
  <2> QED
    BY <2>1, <2>2, <1>5 DEF Owners
<1>10. \A y : y \in removals' <=> y \in removals \/ y = x
  OBVIOUS
<1>7. "mark" \notin Awaited
  BY DEF Awaited
<1>8. \A t \in runner : Doomed(t) => Doomed(t)'
  BY <1>5 DEF Doomed
<1>11. Shapes'
  BY <1>5, <1>10 DEF Shapes
<1>12. Numbers'
  BY <1>3, <1>5, <1>6 DEF Numbers
<1>13. Phases'
  BY DEF Phases
<1>14. Awaits'
  BY SMTT(30), <1>5, <1>7 DEF Awaits
<1>15. Leaving'
  <2>1. \A i \in 1..Len(saves) : saves[i].kind \in {"mark", "drop"} => saves[i].old.id # r.id
    BY <1>9 DEF Leaving
  <2>2. ASSUME NEW i \in 1..Len(saves'), saves'[i].kind \in {"mark", "drop"}
        PROVE  \/ i \in 1..Len(saves) /\ saves'[i] = saves[i] /\ saves'[i].old.id # r.id
               \/ i = Len(saves) + 1 /\ saves'[i].kind = "mark" /\ saves'[i].old = r
    BY <2>1, <2>2, <1>5
  <2>3. /\ \A y \in removals' : y.row.id = y.id
        /\ \A y, z \in removals' : y.id = z.id \/ y.row.rec = z.row.rec => y = z
    BY <1>9, <1>10 DEF Leaving
  <2>4. \A i \in 1..Len(saves') : saves'[i].kind \in {"mark", "drop"} =>
          \E y \in removals' : y.id = saves'[i].old.id /\ y.at = saves'[i].kind
    BY <2>2, <1>10 DEF Leaving
  <2>5. \A i, j \in 1..Len(saves') :
          /\ saves'[i].kind \in {"mark", "drop"} /\ saves'[j].kind \in {"mark", "drop"}
          /\ saves'[i].old.id = saves'[j].old.id
          => i = j
    BY <2>2 DEF Leaving
  <2> QED
    BY <2>3, <2>4, <2>5 DEF Leaving
<1>16. Removing'
  <2>1. \A q \in rows : q.rec = r.rec => q = r
    BY DEF Ledgers, Storable
  <2> QED
    BY <2>1, <1>3, <1>5, <1>9, <1>10 DEF Removing
<1>17. Owners'
  BY <1>3, <1>5, <1>6 DEF Owners
<1>19. Picked'
  BY DEF Picked
<1>20. Agreed'
  BY <1>3, <1>5, <1>6 DEF Agreed
<1>21. Forgotten'
  BY <1>3, <1>5 DEF Forgotten, IdsOf
<1>22. Attended'
  <2>1. ASSUME NEW t \in runner, t.id = r.id PROVE Fits(row, t)'
    <3>1. Fits(r, t)
      BY <2>1 DEF Attended
    <3> QED
      BY <3>1, <2>1, <1>3, <1>5, <1>8 DEF Fits, Doomed
  <2>2. ASSUME NEW t \in runner, NEW q \in rows, Fits(q, t) PROVE Fits(q, t)'
    BY <2>2, <1>5, <1>8 DEF Fits
  <2> QED
    BY <1>3, <1>5, <2>1, <2>2 DEF Attended, IdsOf
<1>23. Restored'
  <2>1. ASSUME NEW i \in 1..Len(saves), BeforeClaim(i) PROVE BeforeClaim(i)'
    BY <2>1, <1>5 DEF BeforeClaim
  <2>3. ASSUME NEW i \in 1..Len(saves')
        PROVE  \/ i \in 1..Len(saves) /\ saves'[i] = saves[i]
               \/ saves'[i].kind = "mark" /\ saves'[i].old = r
    BY <1>5
  <2> QED
    BY <2>1, <2>3, <1>8 DEF Restored
<1>24. Told'
  BY <1>3, <1>5 DEF Told
<1>25. Waiting'
  BY <1>3, <1>5 DEF Waiting
<1> QED
  BY <1>5, <1>11, <1>12, <1>13, <1>14, <1>15, <1>16, <1>17, <1>19, <1>20, <1>21, <1>22, <1>23, <1>24, <1>25

\* A runner whose file is whole hands over its row.
LEMMA Finishes ==
  ASSUME LInv, NEW t \in runner, t.at = "fetch",
         NEW r \in rows, r.id = t.id, r.state \notin {"removing", "requested"}, NEW c \in Sizes,
         rows' = Put(rows, [r EXCEPT !.state = "available", !.off = c, !.len = c]),
         saves' = Queue("done", r), runner' = {Runner(t.id, "done")},
         UNCHANGED <<phase, net, disk, mark, pump, removals, minted, gone, told>>
  PROVE  LInv'
<1> USE DEF LInv
<1> DEFINE row == [r EXCEPT !.state = "available", !.off = c, !.len = c]
           u == Runner(t.id, "done")
<1>1. runner = {t} /\ pump = {} /\ phase \notin {"down", "swapped"}
  BY OneRuns
<1>2. /\ r \in Entries /\ t \in Transfers /\ t.id \in Ids
      /\ \A i \in 1..Len(saves) : saves[i].kind \notin Awaited
  BY OneRuns DEF Shapes, Transfers, Awaited
<1>3. /\ row \in Entries /\ row.id = r.id /\ row.rec = r.rec
      /\ row.state = "available" /\ row.off = c /\ row.len = c /\ row.off <= row.len
  <2>1. row \in Entries /\ row.id = r.id /\ row.rec = r.rec
        /\ row.state = "available" /\ row.off = c /\ row.len = c
    BY <1>2 DEF Entries, States
  <2>2. c \in Nat
    BY Sized
  <2> QED
    BY <2>1, <2>2
<1>4. rows' = Put(rows, row) /\ runner' = {u}
  OBVIOUS
<1>6. u \in Transfers /\ u.id = t.id /\ u.at = "done"
  BY <1>2, Sized DEF Runner, Transfers, Stages
<1>7. r.state = "transferring"
  BY DEF Attended, Fits
<1> HIDE DEF row, u
<1>5. /\ r \in Entries /\ r.off <= r.len /\ r.id <= minted /\ r.id \in Ids
      /\ r \in Known /\ r \in Versions
      /\ \A q : q \in rows' <=> q = row \/ (q \in rows /\ q.id # r.id)
      /\ rows' \subseteq Entries
      /\ Ledgers'
      /\ saves' \in Seq(Commits)
      /\ Len(saves) \in Nat /\ Len(saves') = Len(saves) + 1
      /\ \A i \in 1..Len(saves) : saves'[i] = saves[i]
      /\ saves'[Len(saves) + 1].kind = "done" /\ saves'[Len(saves) + 1].old = r
      /\ \A i \in 1..Len(saves') : i \in 1..Len(saves) \/ i = Len(saves) + 1
      /\ \A k, id : Queued(k, id)' <=> Queued(k, id) \/ (k = "done" /\ id = r.id)
      /\ Olds' = Olds \cup {r}
  BY <1>2, <1>3, <1>4, Rewritten DEF Kinds
<1>8. \A i \in 1..Len(saves') :
        \/ i \in 1..Len(saves) /\ saves'[i] = saves[i]
        \/ saves'[i].kind = "done" /\ saves'[i].old = r
  BY <1>5
<1>10. \A i \in 1..Len(saves) : saves[i].kind \in {"request", "retry", "claim"} => saves[i].old.id # t.id
  BY <1>2 DEF Restored, Doomed, Awaited
<1>9. /\ \A q \in Known' : q \in Known \/ q = row
      /\ \A q \in Versions' : (q \in Versions /\ q.id # t.id) \/ q = row
  BY <1>1, <1>5, <1>8, <1>10 DEF Known, Versions
<1>11. Shapes'
  BY <1>4, <1>5, <1>6 DEF Shapes
<1>12. Numbers'
  BY <1>3, <1>4, <1>5, <1>6, <1>9 DEF Numbers
<1>13. Phases'
  BY <1>1, <1>4 DEF Phases
<1>14. Awaits'
  <2>1. t.at \notin Awaited /\ "done" \in Awaited
    BY DEF Awaited
  <2> QED
    BY <2>1, <1>4, <1>5, <1>6, AwaitsOne
<1>15. Leaving'
  BY <1>8, LeavingKept
<1>16. Removing'
  <2>1. \A x \in removals : x.row.rec # r.rec
    BY <1>7 DEF Removing
  <2> QED
    BY <2>1, <1>1, <1>3, <1>4, <1>5, <1>6, SMTT(60) DEF Removing
<1>17. Owners'
  BY <1>3, <1>5, <1>9 DEF Owners
<1>19. Picked'
  BY <1>1 DEF Picked
<1>20. Agreed'
  BY <1>3, <1>5, <1>9 DEF Agreed
<1>21. Forgotten'
  <2>1. \A q \in rows' \cup disk \cup pump : q.id \notin gone
    BY <1>1, <1>3, <1>5 DEF Forgotten, IdsOf
  <2>2. t.id \notin gone /\ runner' = {u} /\ u.id = t.id
    BY <1>4, <1>6 DEF Forgotten
  <2> QED
    BY <2>1, <2>2 DEF Forgotten, IdsOf
<1>22. Attended'
  <2>1. Fits(row, u)'
    BY <1>3, <1>6 DEF Fits
  <2>2. \A q \in rows : q.state = "transferring" => q.id = r.id
    BY <1>1 DEF Attended
  <2> QED
    BY <2>1, <2>2, <1>3, <1>4, <1>5, <1>6 DEF Attended
<1>23. Restored'
  <2>1. \A s \in runner' : s.id = t.id
    BY <1>4, <1>6
  <2>2. ASSUME NEW i \in 1..Len(saves')
        PROVE  /\ saves'[i].kind \in {"request", "retry"} => saves'[i].old.id # t.id
               /\ saves'[i].kind = "retry" => saves'[i].old.state = "failed_with_retry"
               /\ saves'[i].kind = "claim" => saves'[i].old.state = "requested"
               /\ saves'[i].kind = "done" => saves'[i].old.state = "transferring"
    BY <1>7, <1>8, <1>10 DEF Restored
  <2> QED
    BY <2>1, <2>2 DEF Restored
<1>24. Told'
  BY <1>1, <1>3, <1>4, <1>5, <1>6, <1>8 DEF Told
<1>25. Waiting'
  BY <1>4 DEF Waiting
<1> QED
  BY <1>5, <1>11, <1>12, <1>13, <1>14, <1>15, <1>16, <1>17, <1>19, <1>20, <1>21, <1>22, <1>23, <1>24, <1>25

\* A runner that has its address checkpoints its row as it is.
LEMMA Mints ==
  ASSUME LInv, NEW t \in runner, t.at = "mint", ~Unowned(t.id),
         NEW r \in rows, r.id = t.id, NEW e \in Encodings,
         saves' = Queue("minted", r),
         runner' = {[t EXCEPT !.at = "minted", !.first = e, !.enc = e, !.off = r.off, !.len = r.len]},
         UNCHANGED <<phase, net, rows, disk, mark, pump, removals, minted, gone, told>>
  PROVE  LInv'
<1> USE DEF LInv
<1> DEFINE u == [t EXCEPT !.at = "minted", !.first = e, !.enc = e, !.off = r.off, !.len = r.len]
<1>1. runner = {t} /\ pump = {} /\ phase \notin {"down", "swapped"}
  BY OneRuns
<1>2. /\ r \in Entries /\ t \in Transfers /\ t.id \in Ids
      /\ \A i \in 1..Len(saves) : saves[i].kind \notin Awaited
  BY OneRuns DEF Shapes, Transfers, Awaited
<1>3. runner' = {u}
  OBVIOUS
<1>4. u \in Transfers /\ u.id = t.id /\ u.at = "minted" /\ u.cancelled = t.cancelled
  BY <1>2 DEF Entries, Transfers, Stages
<1>6. r.state \notin {"removing", "requested"}
  BY DEF Unowned, Ledgers, Unique
<1> HIDE DEF u
<1>5. /\ saves' \in Seq(Commits)
      /\ Len(saves) \in Nat /\ Len(saves') = Len(saves) + 1
      /\ \A i \in 1..Len(saves) : saves'[i] = saves[i]
      /\ saves'[Len(saves) + 1].kind = "minted" /\ saves'[Len(saves) + 1].old = r
      /\ \A i \in 1..Len(saves') : i \in 1..Len(saves) \/ i = Len(saves) + 1
      /\ \A k, id : Queued(k, id)' <=> Queued(k, id) \/ (k = "minted" /\ id = r.id)
      /\ Olds' = Olds \cup {r}
      /\ \A id : Queued("demote", id) => DemotedThenMinted(id)'
  BY <1>2, Joined DEF Kinds
<1>8. \A i \in 1..Len(saves') :
        \/ i \in 1..Len(saves) /\ saves'[i] = saves[i]
        \/ saves'[i].kind = "minted" /\ saves'[i].old = r
  BY <1>5
<1>9. /\ \A q \in Known' : q \in Known
      /\ \A q \in Versions' : q \in Versions
  BY <1>5, <1>8 DEF Known, Versions
<1>10. Doomed(t) => Doomed(u)'
  BY <1>4, <1>5 DEF Doomed
<1>11. Shapes'
  BY <1>3, <1>4, <1>5 DEF Shapes
<1>12. Numbers'
  BY <1>3, <1>4, <1>9 DEF Numbers
<1>13. Phases'
  BY <1>1, <1>3 DEF Phases
<1>14. Awaits'
  <2>1. t.at \notin Awaited /\ "minted" \in Awaited
    BY DEF Awaited
  <2>2. u.id = t.id /\ u.at = "minted" /\ runner' = {u}
    BY <1>3, <1>4
  <2>3. /\ Len(saves) \in Nat /\ Len(saves') = Len(saves) + 1
        /\ \A i \in 1..Len(saves) : saves'[i] = saves[i]
        /\ saves'[Len(saves) + 1].kind = "minted" /\ saves'[Len(saves) + 1].old.id = t.id
    BY <1>5
  <2> HIDE DEF LInv
  <2> QED
    BY <2>1, <2>2, <2>3, AwaitsOne, ZenonT(30)
<1>15. Leaving'
  BY <1>8, LeavingKept
<1>16. Removing'
  BY <1>1, <1>3, <1>4 DEF Removing
<1>17. Owners'
  BY <1>9 DEF Owners
<1>18. Ledgers'
  BY DEF Ledgers, Unique, Storable
<1>19. Picked'
  BY <1>1 DEF Picked
<1>20. Agreed'
  BY <1>9 DEF Agreed
<1>21. Forgotten'
  BY <1>1, <1>3, <1>4 DEF Forgotten, IdsOf
<1>22. Attended'
  <2>1. Fits(r, t) /\ \A q \in rows : q.id = t.id => q = r
    BY DEF Attended, Ledgers, Unique
  <2>2. Fits(r, u)'
    BY <2>1, <1>4, <1>6, <1>10 DEF Fits
  <2>3. t.id \in IdsOf(rows)'
    BY DEF IdsOf
  <2> QED
    BY <2>1, <2>2, <2>3, <1>1, <1>3, <1>4 DEF Attended
<1>23. Restored'
  <2>1. \A i \in 1..Len(saves) : saves[i].kind = "request" => saves[i].old.id # t.id
    BY DEF Restored
  <2>2. \A i \in 1..Len(saves) : saves[i].kind = "retry" /\ saves[i].old.id = t.id => Doomed(u)'
    BY <1>10 DEF Restored
  <2> QED
    BY <2>1, <2>2, <1>3, <1>4, <1>8, SMTT(20) DEF Restored
<1>24. Told'
  BY <1>1, <1>3, <1>4, <1>8 DEF Told
<1>25. Waiting'
  BY <1>3 DEF Waiting
<1> QED
  BY <1>11, <1>12, <1>13, <1>14, <1>15, <1>16, <1>17, <1>18, <1>19, <1>20, <1>21, <1>22, <1>23, <1>24, <1>25

\* The files of a row that leaves are gone, and then the row.
LEMMA RowLeaves ==
  ASSUME LInv, NEW x \in removals, x.at = "delete", x.waits => \A t \in runner : t.id # x.id,
         NEW y \in Departures, y.id = x.id, y.row = x.row, y.at = "drop", y.waits = x.waits,
         rows' = Without(rows, x.id), mark' = [mark EXCEPT ![x.id] = 0],
         saves' = Queue("drop", x.row), removals' = Put(removals, y),
         UNCHANGED <<phase, net, disk, pump, runner, minted, gone, told>>
  PROVE  LInv'
<1> USE DEF LInv
<1>1. /\ x.row \in Entries /\ x.row.id = x.id /\ x.row \in Known /\ x \in Departures
      /\ phase \notin {"down", "swapped"}
  BY DEF Shapes, Departures, Leaving, Known, Phases
<1>2. \A r : r \in rows' <=> r \in rows /\ r.id # x.id
  BY DEF Without
<1>3. \A z : z \in removals' <=> z = y \/ (z \in removals /\ z.id # x.id)
  BY Putting
<1>4. \A t \in runner : t.id # x.id
  BY DEF Removing
<1>5. /\ saves' \in Seq(Commits)
      /\ Len(saves) \in Nat /\ Len(saves') = Len(saves) + 1
      /\ \A i \in 1..Len(saves) : saves'[i] = saves[i]
      /\ saves'[Len(saves) + 1].kind = "drop" /\ saves'[Len(saves) + 1].old = x.row
      /\ \A i \in 1..Len(saves') : i \in 1..Len(saves) \/ i = Len(saves) + 1
      /\ \A k, id : Queued(k, id)' <=> Queued(k, id) \/ (k = "drop" /\ id = x.row.id)
      /\ Olds' = Olds \cup {x.row}
      /\ \A id : ClaimedThenDemoted(id) => ClaimedThenDemoted(id)'
      /\ \A id : DemotedThenMinted(id) => DemotedThenMinted(id)'
  BY <1>1, Joined DEF Kinds
<1>6. \A i \in 1..Len(saves') :
        \/ i \in 1..Len(saves) /\ saves'[i] = saves[i]
        \/ i = Len(saves) + 1 /\ saves'[i].kind = "drop" /\ saves'[i].old = x.row
  BY <1>5
<1>7. Known' \subseteq Known /\ Versions' \subseteq Versions
  <2>1. ASSUME NEW q \in Known' PROVE q \in Known
    BY <1>1, <1>2, <1>3, <1>5 DEF Known
  <2>2. ASSUME NEW q \in Versions' PROVE q \in Versions
    BY <1>2, <1>6 DEF Versions
  <2> QED
    BY <2>1, <2>2
<1>8. \A t \in runner : Doomed(t) => Doomed(t)'
  BY <1>5 DEF Doomed
<1>11. Shapes'
  BY <1>1, <1>2, <1>3, <1>5, Sized DEF Shapes
<1>12. Numbers'
  BY <1>7 DEF Numbers
<1>13. Phases'
  BY <1>1 DEF Phases
<1>14. Awaits'
  <2>1. "drop" \notin Awaited
    BY DEF Awaited
  <2> QED
    BY SMTT(30), <2>1, <1>5, <1>6 DEF Awaits
<1>15. Leaving'
  <2>1. \A i \in 1..Len(saves) : saves[i].kind \in {"mark", "drop"} => saves[i].old.id # x.id
    BY DEF Leaving
  <2>2. ASSUME NEW i \in 1..Len(saves'), saves'[i].kind \in {"mark", "drop"}
        PROVE  \/ i \in 1..Len(saves) /\ saves'[i] = saves[i] /\ saves'[i].old.id # x.id
               \/ i = Len(saves) + 1 /\ saves'[i].kind = "drop" /\ saves'[i].old.id = x.id
    BY <2>1, <2>2, <1>1, <1>6
  <2>3. /\ \A z \in removals' : z.row.id = z.id
        /\ \A z, w \in removals' : z.id = w.id \/ z.row.rec = w.row.rec => z = w
    BY <1>1, <1>3 DEF Leaving
  <2>4. \A i \in 1..Len(saves') : saves'[i].kind \in {"mark", "drop"} =>
          \E z \in removals' : z.id = saves'[i].old.id /\ z.at = saves'[i].kind
    BY <2>2, <1>3 DEF Leaving
  <2>5. \A i, j \in 1..Len(saves') :
          /\ saves'[i].kind \in {"mark", "drop"} /\ saves'[j].kind \in {"mark", "drop"}
          /\ saves'[i].old.id = saves'[j].old.id
          => i = j
    BY <2>2 DEF Leaving
  <2> QED
    BY <2>3, <2>4, <2>5 DEF Leaving
<1>16. Removing'
  <2>1. \A r \in rows : r.rec = x.row.rec => r.id = x.id
    BY DEF Removing
  <2> QED
    BY <2>1, <1>1, <1>2, <1>3, <1>4 DEF Removing
<1>17. Owners'
  BY <1>7 DEF Owners
<1>18. Ledgers'
  BY <1>2 DEF Ledgers, Unique, Storable
<1>19. Picked'
  BY <1>2, <1>3 DEF Picked
<1>20. Agreed'
  BY <1>7 DEF Agreed
<1>21. Forgotten'
  BY <1>2 DEF Forgotten, IdsOf
<1>22. Attended'
  <2>1. ASSUME NEW t \in runner, NEW q \in rows, Fits(q, t) PROVE Fits(q, t)'
    BY <2>1, <1>5, <1>8 DEF Fits
  <2> QED
    BY <2>1, <1>2, <1>4 DEF Attended, IdsOf
<1>23. Restored'
  <2>1. ASSUME NEW i \in 1..Len(saves), BeforeClaim(i) PROVE BeforeClaim(i)'
    BY <2>1, <1>5 DEF BeforeClaim
  <2> QED
    BY <2>1, <1>6, <1>8 DEF Restored
<1>24. Told'
  BY <1>2, <1>6 DEF Told
<1>25. Waiting'
  BY <1>2, <1>5 DEF Waiting
<1> QED
  BY <1>11, <1>12, <1>13, <1>14, <1>15, <1>16, <1>17, <1>18, <1>19, <1>20, <1>21, <1>22, <1>23, <1>24, <1>25

\* The pump claims the row it picked.
LEMMA Claims ==
  ASSUME LInv, NEW r \in pump,
         rows' = Put(rows, In(r, "transferring")), saves' = Queue("claim", r),
         runner' = {Runner(r.id, "claim")}, pump' = {},
         UNCHANGED <<phase, net, disk, mark, removals, minted, gone, told>>
  PROVE  LInv'
<1> USE DEF LInv
<1> DEFINE row == In(r, "transferring")
           u == Runner(r.id, "claim")
<1>1. /\ runner = {} /\ phase \notin {"down", "swapped"}
      /\ r \in Entries /\ r.id \in Ids /\ r.id <= minted /\ r.off <= r.len
      /\ r \in Known /\ r \in Versions
  BY DEF Phases, Shapes, Numbers, Known, Versions, Entries
<1>2. \A i \in 1..Len(saves) : saves[i].kind \notin Awaited
  BY <1>1 DEF Awaits
<1>3. /\ row \in Entries /\ row.id = r.id /\ row.rec = r.rec
      /\ row.state = "transferring" /\ row.off = r.off /\ row.len = r.len
  BY <1>1, Changed DEF States
<1>4. rows' = Put(rows, row) /\ runner' = {u}
  OBVIOUS
<1>6. u \in Transfers /\ u.id = r.id /\ u.at = "claim"
  BY <1>1, Sized DEF Runner, Transfers, Stages
<1>7. /\ r.state = "requested"
      /\ \A x \in removals : x.row.rec # r.rec /\ x.id # r.id
      /\ \A s \in rows : s.rec = r.rec => s.id = r.id
      /\ \A s \in rows : s.id = r.id => s.state \in {"requested", "failed_with_retry"}
  BY DEF Picked
<1> HIDE DEF row, u
<1>8. \A q : q \in rows' <=> q = row \/ (q \in rows /\ q.id # r.id)
  BY <1>3, <1>4, Putting
<1>5. /\ saves' \in Seq(Commits)
      /\ Len(saves) \in Nat /\ Len(saves') = Len(saves) + 1
      /\ \A i \in 1..Len(saves) : saves'[i] = saves[i]
      /\ saves'[Len(saves) + 1].kind = "claim" /\ saves'[Len(saves) + 1].old = r
      /\ \A i \in 1..Len(saves') : i \in 1..Len(saves) \/ i = Len(saves) + 1
      /\ \A k, id : Queued(k, id)' <=> Queued(k, id) \/ (k = "claim" /\ id = r.id)
      /\ Olds' = Olds \cup {r}
  BY <1>1, Joined DEF Kinds
<1>9. \A i \in 1..Len(saves') :
        \/ i \in 1..Len(saves) /\ saves'[i] = saves[i] /\ saves[i].kind # "claim"
        \/ i = Len(saves) + 1 /\ saves'[i].kind = "claim" /\ saves'[i].old = r
  BY <1>2, <1>5 DEF Awaited
<1>10. /\ \A q \in Known' : q \in Known \/ q = row
       /\ \A q \in Versions' : q \in Versions \/ q = row
  <2>1. \A q \in Known' : q \in Known \/ q = row
    BY <1>1, <1>5, <1>8 DEF Known
  <2>2. \A q \in Versions' : q \in Versions \/ q = row
    BY <1>1, <1>8, <1>9 DEF Versions
  <2> QED
    BY <2>1, <2>2
<1>11. Shapes'
  BY <1>3, <1>4, <1>5, <1>6, <1>8 DEF Shapes
<1>12. Numbers'
  BY <1>1, <1>3, <1>4, <1>6, <1>10 DEF Numbers
<1>13. Phases'
  BY <1>1, <1>4 DEF Phases
<1>14. Awaits'
  <2>1. \A i \in 1..Len(saves') : saves'[i].kind \in Awaited =>
          i = Len(saves) + 1 /\ saves'[i].kind = "claim" /\ saves'[i].old.id = r.id
    BY <1>2, <1>9
  <2>2. Queued("claim", r.id)'
    BY <1>5
  <2> QED
    BY SMTT(30), <2>1, <2>2, <1>4, <1>6 DEF Awaits
<1>15. Leaving'
  <2>1. \A i \in 1..Len(saves') : saves'[i].kind \in {"mark", "drop"} =>
          i \in 1..Len(saves) /\ saves'[i] = saves[i]
    BY <1>9
  <2> QED
    BY <2>1, LeavingKept
<1>16. Removing'
  BY <1>3, <1>4, <1>6, <1>7, <1>8 DEF Removing
<1>17. Owners'
  BY <1>1, <1>3, <1>10 DEF Owners
<1>18. Ledgers'
  BY <1>3, <1>4, <1>7, PutUnique, PutStorable DEF Ledgers, Unique, Storable
<1>19. Picked'
  BY DEF Picked
<1>20. Agreed'
  BY <1>1, <1>3, <1>10 DEF Agreed
<1>21. Forgotten'
  BY <1>3, <1>4, <1>6, <1>8 DEF Forgotten, IdsOf
<1>22. Attended'
  <2>1. \A q \in rows' : q.state = "transferring" => q = row
    BY <1>1, <1>8 DEF Attended
  <2>2. \A q \in rows' : q.id = u.id => q = row
    BY <1>6, <1>8
  <2>3. Fits(row, u)'
    BY <1>3, <1>6 DEF Fits
  <2> QED
    BY <2>1, <2>2, <2>3, <1>3, <1>4, <1>6 DEF Attended
<1>23. Restored'
  <2>1. \A i \in 1..Len(saves) : BeforeClaim(i)'
    BY <1>5, <1>9 DEF BeforeClaim
  <2> QED
    BY <2>1, <1>4, <1>6, <1>7, <1>9, SMTT(20) DEF Restored
<1>24. Told'
  BY <1>3, <1>4, <1>6, <1>8, <1>9 DEF Told
<1>25. Waiting'
  BY <1>4 DEF Waiting
<1> QED
  BY <1>11, <1>12, <1>13, <1>14, <1>15, <1>16, <1>17, <1>18, <1>19, <1>20, <1>21, <1>22, <1>23, <1>24, <1>25

\* Every row that is known has the shape of one.
LEMMA KnownRows ==
  ASSUME Shapes
  PROVE  /\ Known \subseteq Entries /\ Versions \subseteq Known /\ Olds \subseteq Entries
         /\ \A r \in Known \cup disk : r.id \in Ids /\ r.id \in Nat
         /\ \A t \in runner : t.id \in Ids /\ t.id \in Nat
<1>1. Olds \subseteq Entries
  <2>1. saves \in Seq(Commits)
    BY DEF Shapes
  <2>2. \A i \in 1..Len(saves) : saves[i] \in Commits
    BY <2>1
  <2>3. \A i \in 1..Len(saves) : saves[i].old \in Entries
    BY <2>2 DEF Commits
  <2> QED
    BY <2>3 DEF Olds
<1>2. \A x \in removals : x.row \in Entries
  BY DEF Shapes, Departures
<1>3. Known \subseteq Entries
  BY <1>1, <1>2 DEF Known, Shapes
<1>4. Versions \subseteq Known
  BY DEF Versions, Known, Olds
<1>5. \A r \in Entries : r.id \in Ids /\ r.id \in Nat
  BY DownloadAssumption DEF Entries, Ids
<1>6. \A t \in runner : t.id \in Ids /\ t.id \in Nat
  BY DownloadAssumption DEF Shapes, Transfers, Ids
<1> QED
  BY <1>1, <1>3, <1>4, <1>5, <1>6 DEF Shapes

\* A recording that has no row and is not being removed is requested under a
\* new id.
LEMMA Requested ==
  ASSUME LInv, pump = {}, phase \notin {"down", "swapped"}, NEW rec \in Recordings,
         RecordFor(rec) = {}, ~BeingRemoved(rec), NewRow(rec),
         saves' = Queue("request", CHOOSE r \in rows' : r.id = minted'),
         UNCHANGED <<phase, net, disk, pump, runner, removals, gone, told>>
  PROVE  LInv'
<1> USE DEF LInv
<1> DEFINE row == Row(minted + 1, rec, "requested", 0, 0)
<1>1. /\ minted \in 0..MaxIds /\ minted < MaxIds /\ minted' = minted + 1
      /\ minted + 1 \in Ids /\ minted \in Nat
  BY DownloadAssumption DEF Shapes, NewRow, Ids
<1>2. /\ row \in Entries /\ row.id = minted + 1 /\ row.rec = rec
      /\ row.state = "requested" /\ row.off = 0 /\ row.len = 0
  BY <1>1, Sized DEF Row, Entries, States
<1>3. rows' = rows \cup {row} /\ mark' = [mark EXCEPT ![minted + 1] = 0]
  BY DEF NewRow
<1> HIDE DEF row
<1>4. /\ \A r \in Known : r.id <= minted /\ r.id # minted + 1
      /\ \A t \in runner : t.id # minted + 1
      /\ minted + 1 \notin gone /\ minted + 1 \notin told
  <2>1. \A r \in Known : r.id <= minted /\ r \in Entries
    BY KnownRows DEF Numbers
  <2>2. \A t \in runner : t.id <= minted /\ t.id \in Ids
    BY DEF Numbers, Shapes, Transfers
  <2>3. \A n \in Ids : n <= minted => n # minted + 1
    BY <1>1 DEF Ids
  <2> QED
    BY <2>1, <2>2, <2>3, <1>1 DEF Numbers, Entries
<1>5. \A r \in rows : r.id # minted + 1 /\ r.rec # rec
  <2>1. ASSUME NEW r \in rows, r.rec = rec PROVE FALSE
    <3>1. r.state = "removing"
      BY <2>1 DEF RecordFor
    <3>2. PICK x \in removals : x.id = r.id
      BY <3>1 DEF Removing
    <3>3. x.row.rec = rec
      BY <2>1, <3>2 DEF Owners, Known, Leaving
    <3> QED
      BY <3>3 DEF BeingRemoved
  <2> QED
    BY <2>1, <1>4 DEF Known
<1>6. (CHOOSE r \in rows' : r.id = minted') = row
  BY <1>1, <1>2, <1>3, <1>5
<1>7. /\ saves' \in Seq(Commits)
      /\ Len(saves) \in Nat /\ Len(saves') = Len(saves) + 1
      /\ \A i \in 1..Len(saves) : saves'[i] = saves[i]
      /\ saves'[Len(saves) + 1].kind = "request" /\ saves'[Len(saves) + 1].old = row
      /\ \A i \in 1..Len(saves') : i \in 1..Len(saves) \/ i = Len(saves) + 1
      /\ \A k, id : Queued(k, id)' <=> Queued(k, id) \/ (k = "request" /\ id = row.id)
      /\ Olds' = Olds \cup {row}
      /\ \A id : ClaimedThenDemoted(id) => ClaimedThenDemoted(id)'
      /\ \A id : DemotedThenMinted(id) => DemotedThenMinted(id)'
  BY ZenonT(60), <1>2, <1>6, Joined DEF Kinds
<1>8. \A i \in 1..Len(saves') :
        \/ i \in 1..Len(saves) /\ saves'[i] = saves[i]
        \/ i = Len(saves) + 1 /\ saves'[i].kind = "request" /\ saves'[i].old = row
  BY <1>7
<1>9. /\ \A q \in Known' : q \in Known \/ q = row
      /\ \A q \in Versions' : q \in Versions \/ q = row
      /\ \A q \in Versions : q.id # minted + 1
  <2>1. \A q \in Known' : q \in Known \/ q = row
    BY <1>3, <1>7 DEF Known
  <2>2. \A q \in Versions' : q \in Versions \/ q = row
    <3>1. ASSUME NEW q \in Versions', q \notin rows', q \notin pump' PROVE q \in Versions \/ q = row
      <4>1. PICK i \in 1..Len(saves') : saves'[i].kind \in {"claim", "retry"} /\ q = saves'[i].old
        BY <3>1 DEF Versions
      <4> QED
        BY <4>1, <1>8 DEF Versions
    <3> QED
      BY <3>1, <1>3 DEF Versions
  <2>3. Versions \subseteq Known
    BY DEF Versions, Known, Olds
  <2> QED
    BY <2>1, <2>2, <2>3, <1>4
<1>10. \A t \in runner : Doomed(t) => Doomed(t)'
  BY <1>7 DEF Doomed
<1>11. Shapes'
  <2>1. minted' \in 0..MaxIds /\ rows' \subseteq Entries /\ mark' \in [Ids -> Sizes]
    BY <1>1, <1>2, <1>3, Sized, DownloadAssumption DEF Shapes
  <2> QED
    BY <2>1, <1>7 DEF Shapes
<1>12. Numbers'
  <2>1. \A r \in Known' : r.id <= minted' /\ r.off <= r.len
    <3>1. \A r \in Known : r.id <= minted' /\ r.off <= r.len
      <4>1. \A r \in Known : r.id \in Nat /\ r.id <= minted /\ r.off <= r.len
        BY KnownRows DEF Numbers
      <4> QED
        BY <4>1, <1>1
    <3> QED
      BY <3>1, <1>1, <1>2, <1>9
  <2>2. \A r \in disk : r.id <= minted' /\ r.off <= r.len
    <3>1. \A r \in disk : r.id \in Ids /\ r.id <= minted /\ r.off <= r.len
      BY DEF Numbers, Shapes, Entries
    <3> QED
      BY <3>1, <1>1 DEF Ids
  <2>3. \A t \in runner : t.id <= minted'
    <3>1. \A t \in runner : t.id \in Ids /\ t.id <= minted
      BY DEF Numbers, Shapes, Transfers
    <3> QED
      BY <3>1, <1>1 DEF Ids
  <2>4. 1..minted \subseteq 1..minted'
    BY <1>1
  <2> QED
    BY <2>1, <2>2, <2>3, <2>4 DEF Numbers
<1>13. Phases'
  BY DEF Phases
<1>14. Awaits'
  <2>1. "request" \notin Awaited
    BY DEF Awaited
  <2> QED
    BY <2>1, <1>7, <1>8, SMTT(30) DEF Awaits
<1>15. Leaving'
  <2>1. \A i \in 1..Len(saves') : saves'[i].kind \in {"mark", "drop"} =>
          i \in 1..Len(saves) /\ saves'[i] = saves[i]
    BY <1>8
  <2> QED
    BY <2>1, LeavingKept
<1>16. Removing'
  <2>1. \A x \in removals : x.row.rec # rec
    BY DEF BeingRemoved
  <2> QED
    BY <2>1, <1>2, <1>3 DEF Removing
<1>17. Owners'
  BY <1>2, <1>4, <1>9 DEF Owners
<1>18. Ledgers'
  BY <1>2, <1>3, <1>5 DEF Ledgers, Unique, Storable
<1>19. Picked'
  BY DEF Picked
<1>20. Agreed'
  BY <1>2, <1>9 DEF Agreed
<1>21. Forgotten'
  BY <1>2, <1>3, <1>4 DEF Forgotten, IdsOf
<1>22. Attended'
  <2>1. ASSUME NEW t \in runner, NEW q \in rows, Fits(q, t) PROVE Fits(q, t)'
    BY <2>1, <1>7, <1>10 DEF Fits
  <2> QED
    BY <2>1, <1>2, <1>3, <1>4 DEF Attended, IdsOf
<1>23. Restored'
  <2>1. ASSUME NEW i \in 1..Len(saves), BeforeClaim(i) PROVE BeforeClaim(i)'
    BY <2>1, <1>7 DEF BeforeClaim
  <2> QED
    BY <2>1, <1>2, <1>4, <1>8, <1>10 DEF Restored
<1>24. Told'
  BY <1>2, <1>3, <1>4, <1>8 DEF Told
<1>25. Waiting'
  BY <1>2, <1>3, <1>7 DEF Waiting
<1> QED
  BY <1>11, <1>12, <1>13, <1>14, <1>15, <1>16, <1>17, <1>18, <1>19, <1>20, <1>21, <1>22, <1>23, <1>24, <1>25

\* Nothing but the phase, the network and the pump changes.
LEMMA Idles ==
  ASSUME LInv, net' \in BOOLEAN, runner = {} \/ pump' = pump,
         \/ phase' = phase
         \/ phase' \in {"demoting", "stopping"} /\ pump' = {} /\ phase \notin {"down", "swapped"}
         \/ phase' = "stopped" /\ pump' = {} /\ runner = {} /\ phase \notin {"down", "swapped"},
         pump' \in {{}, pump} \/ (phase = "up" /\ \E r \in rows : r.state = "requested" /\ pump' = {r}),
         Waiting',
         UNCHANGED <<rows, disk, mark, runner, removals, saves, minted, gone, told>>
  PROVE  LInv'
<1> USE DEF LInv
<1>1. \A k, id : Queued(k, id)' <=> Queued(k, id)
  BY DEF Queued
<1>2. \A t : Doomed(t)' <=> Doomed(t)
  BY DEF Doomed, Queued, ClaimedThenDemoted, DemotedThenMinted
<1>3. \A r \in pump' : r \in pump \/ (r \in rows /\ r.state = "requested")
  OBVIOUS
<1>4. Known' \subseteq Known /\ Versions' \subseteq Versions
  BY <1>3 DEF Known, Versions, Olds
<1>11. Shapes'
  BY <1>3 DEF Shapes
<1>12. Numbers'
  BY <1>4 DEF Numbers
<1>13. Phases'
  BY DEF Phases
<1>14. Awaits'
  BY <1>1 DEF Awaits
<1>15. Leaving'
  BY DEF Leaving
<1>16. Removing'
  BY DEF Removing
<1>17. Owners'
  BY <1>4 DEF Owners
<1>18. Ledgers'
  BY DEF Ledgers, Unique, Storable
<1>19. Picked'
  <2>1. CASE pump' \in {{}, pump}
    BY <2>1 DEF Picked
  <2>2. CASE \E r \in rows : r.state = "requested" /\ pump' = {r}
    BY <2>2, <1>15, <1>16, <1>17, <1>18, FitToPick
  <2> QED
    BY <2>1, <2>2
<1>20. Agreed'
  BY <1>4 DEF Agreed
<1>21. Forgotten'
  BY <1>3 DEF Forgotten, IdsOf
<1>22. Attended'
  <2>1. \A q, t : Fits(q, t)' <=> Fits(q, t)
    BY <1>1, <1>2 DEF Fits
  <2> QED
    BY <2>1 DEF Attended, IdsOf
<1>23. Restored'
  BY <1>2 DEF Restored, BeforeClaim
<1>24. Told'
  BY <1>3 DEF Told
<1> QED
  BY <1>11, <1>12, <1>13, <1>14, <1>15, <1>16, <1>17, <1>18, <1>19, <1>20, <1>21, <1>22, <1>23, <1>24

-----------------------------------------------------------------------------
(* The life of the process.                                                *)

\* Nothing runs and nothing is known before the first launch.
LEMMA Begins ==
  ASSUME Init
  PROVE  LInv
<1>1. /\ rows = {} /\ disk = {} /\ pump = {} /\ runner = {} /\ saves = <<>> /\ removals = {}
      /\ minted = 0 /\ gone = {} /\ told = {} /\ phase = "down" /\ net \in BOOLEAN
      /\ mark = [id \in Ids |-> 0]
  BY DEF Init
<1>2. Len(saves) = 0 /\ saves \in Seq(Commits) /\ 1..Len(saves) = {}
  BY <1>1
<1>3. Known = {} /\ Versions = {}
  BY <1>1, <1>2 DEF Known, Versions, Olds
<1>4. Shapes
  BY <1>1, <1>2, Sized, DownloadAssumption DEF Shapes
<1>5. Numbers /\ Phases
  BY <1>1, <1>3 DEF Numbers, Phases
<1>6. Awaits /\ Leaving /\ Removing
  BY <1>1, <1>2 DEF Awaits, Leaving, Removing
<1>7. Owners /\ Ledgers /\ Picked /\ Agreed /\ Forgotten
  BY <1>1, <1>3 DEF Owners, Ledgers, Unique, Storable, Picked, Agreed, Forgotten, IdsOf
<1>8. Attended /\ Restored /\ Told /\ Waiting
  BY <1>1, <1>2 DEF Attended, Restored, Told, Waiting
<1> QED
  BY <1>4, <1>5, <1>6, <1>7, <1>8 DEF LInv

\* A kill leaves the committed ledger, and nothing else of what is in memory.
LEMMA Killed ==
  ASSUME LInv, Crash
  PROVE  LInv'
<1> USE DEF LInv
<1>1. /\ rows' = {} /\ disk' = disk /\ pump' = {} /\ runner' = {} /\ saves' = <<>> /\ removals' = {}
      /\ minted' = minted /\ gone' = gone /\ told' = told /\ phase' = "down" /\ net' = net
      /\ mark' = [id \in Ids |-> 0]
  BY DEF Crash
<1>2. Len(saves') = 0 /\ saves' \in Seq(Commits) /\ 1..Len(saves') = {}
  BY <1>1
<1>3. Known' = {} /\ Versions' = {}
  BY <1>1, <1>2 DEF Known, Versions, Olds
<1>4. Shapes'
  BY <1>1, <1>2, Sized DEF Shapes
<1>5. Numbers' /\ Phases'
  BY <1>1, <1>3 DEF Numbers, Phases
<1>6. Awaits' /\ Leaving' /\ Removing'
  BY <1>1, <1>2 DEF Awaits, Leaving, Removing
<1>7. Owners' /\ Ledgers' /\ Picked' /\ Agreed' /\ Forgotten'
  BY <1>1, <1>3 DEF Owners, Ledgers, Unique, Storable, Picked, Agreed, Forgotten, IdsOf
<1>8. Attended' /\ Restored' /\ Told' /\ Waiting'
  BY <1>1, <1>2 DEF Attended, Restored, Told, Waiting
<1> QED
  BY <1>4, <1>5, <1>6, <1>7, <1>8

\* What the integrity pass leaves of the ledger.
LEMMA Checked ==
  ASSUME Shapes
  PROVE  \A r \in Verified :
           /\ r \in Entries
           /\ r.state \in {"requested", "available", "failed_with_retry"}
           /\ r.state = "available" => r \in disk /\ Intact(r)
           /\ \E s \in disk :
                /\ s.id = r.id /\ s.rec = r.rec /\ s.off = r.off /\ s.len = r.len
                /\ s.state # "removing"
                /\ s.state = r.state \/ (s.state = "transferring" /\ r.state = "requested")
<1> SUFFICES ASSUME NEW r \in Verified
             PROVE  /\ r \in Entries
                    /\ r.state \in {"requested", "available", "failed_with_retry"}
                    /\ r.state = "available" => r \in disk /\ Intact(r)
                    /\ \E s \in disk :
                        /\ s.id = r.id /\ s.rec = r.rec /\ s.off = r.off /\ s.len = r.len
                        /\ s.state # "removing"
                        /\ s.state = r.state \/ (s.state = "transferring" /\ r.state = "requested")
  OBVIOUS
<1>1. PICK s \in disk : /\ s.state # "removing" /\ (s.state = "available" => Intact(s))
                        /\ r = IF s.state = "transferring" THEN In(s, "requested") ELSE s
  BY DEF Verified
<1>2. s \in Entries /\ s.state \in States
  BY DEF Shapes, Entries
<1>3. CASE s.state = "transferring"
  <2>1. r = In(s, "requested")
    BY <1>1, <1>3
  <2>2. /\ r \in Entries /\ s.id = r.id /\ s.rec = r.rec /\ s.off = r.off /\ s.len = r.len
        /\ r.state = "requested"
    BY <2>1, <1>2, Changed DEF States
  <2> QED
    BY <2>2, <1>1, <1>3
<1>4. CASE s.state # "transferring"
  BY <1>1, <1>2, <1>4 DEF States
<1> QED
  BY <1>3, <1>4

\* The rows that are left are those of the ledger, one for each.
LEMMA CheckedLedger ==
  ASSUME Shapes, Ledgers
  PROVE  Storable(Verified) /\ Unique(Verified)
<1> DEFINE checked(s) == IF s.state = "transferring" THEN In(s, "requested") ELSE s
<1>1. \A r \in Verified : \E s \in disk : r = checked(s) /\ s.id = r.id /\ s.rec = r.rec
  <2> SUFFICES ASSUME NEW r \in Verified
               PROVE  \E s \in disk : r = checked(s) /\ s.id = r.id /\ s.rec = r.rec
    OBVIOUS
  <2>1. PICK s \in disk : r = checked(s)
    BY DEF Verified
  <2>2. s \in Entries
    BY DEF Shapes
  <2>3. checked(s).id = s.id /\ checked(s).rec = s.rec
    BY <2>2, Changed DEF States
  <2> QED
    BY <2>1, <2>3
<1> HIDE DEF checked
<1> QED
  BY <1>1 DEF Ledgers, Storable, Unique

\* A launch takes over what the integrity pass leaves of the committed ledger.
LEMMA Launched ==
  ASSUME LInv, Reliable, Launch
  PROVE  LInv' /\ phase' = "up" /\ rows' = Verified /\ disk' = Verified /\ pump' \in {{}} \cup {{r} : r \in rows'}
<1> USE DEF LInv
<1>1. runner = {} /\ pump = {} /\ saves = <<>> /\ removals = {}
  BY DEF Launch, Quiesced, Reliable, Phases
<1>2. /\ phase' = "up" /\ rows' = Verified /\ disk' = Verified
      /\ mark' = [id \in Ids |-> IF id \in IdsOf(Verified) THEN At(Verified, id).off ELSE 0]
      /\ pump' \in IF {r \in Verified : r.state = "requested"} = {} THEN {{}}
                   ELSE {{r} : r \in {r \in Verified : r.state = "requested"}}
      /\ told' = told \cup IdsOf({r \in Verified : r.state = "available"})
      /\ net' = net /\ runner' = {} /\ removals' = {} /\ saves' = <<>> /\ minted' = minted /\ gone' = gone
  BY <1>1 DEF Launch, Reliable
<1>3. /\ \A r \in pump' : r \in rows' /\ r.state = "requested"
      /\ \A r, s \in pump' : r = s
      /\ pump' \in {{}} \cup {{r} : r \in rows'}
      /\ \A r \in rows' : r.state = "requested" => pump' # {}
  BY <1>2
<1>4. \A r \in Verified :
           /\ r \in Entries
           /\ r.state \in {"requested", "available", "failed_with_retry"}
           /\ r.state = "available" => r \in disk /\ Intact(r)
           /\ \E s \in disk :
                /\ s.id = r.id /\ s.rec = r.rec /\ s.off = r.off /\ s.len = r.len
                /\ s.state # "removing"
                /\ s.state = r.state \/ (s.state = "transferring" /\ r.state = "requested")
  BY Checked
<1>5. Storable(Verified) /\ Unique(Verified)
  BY CheckedLedger
<1>6. Len(saves') = 0 /\ saves' \in Seq(Commits) /\ 1..Len(saves') = {}
  BY <1>2
<1>7. Olds' = {} /\ Known' = rows' /\ Versions' = rows'
  BY <1>2, <1>3, <1>6 DEF Known, Versions, Olds
<1>11. Shapes'
  <2>1. mark' \in [Ids -> Sizes]
    <3>1. ASSUME NEW id \in IdsOf(Verified) PROVE At(Verified, id).off \in Sizes
      BY <1>4, SomeRow DEF Entries
    <3> QED
      BY <1>2, <3>1, Sized
  <2> QED
    BY <2>1, <1>2, <1>3, <1>4, <1>6 DEF Shapes
<1>12. Numbers'
  <2>1. \A r \in Verified : r.id <= minted /\ r.off <= r.len
    BY <1>4 DEF Numbers
  <2>2. told' \subseteq 1..minted
    <3>1. \A r \in Verified : r.id \in 1..minted
      BY <1>4, <2>1, DownloadAssumption DEF Entries, Ids, Shapes
    <3> QED
      BY <3>1, <1>2 DEF IdsOf, Numbers
  <2> QED
    BY <2>1, <2>2, <1>2, <1>7 DEF Numbers
<1>13. Phases'
  BY <1>2, <1>3 DEF Phases
<1>14. Awaits' /\ Leaving'
  BY <1>2, <1>6 DEF Awaits, Leaving
<1>16. Removing'
  BY <1>2, <1>4 DEF Removing
<1>17. Owners'
  BY <1>5, <1>7, <1>2 DEF Owners, Unique
<1>18. Ledgers'
  BY <1>2, <1>5 DEF Ledgers, Storable, Unique
<1>19. Picked'
  BY <1>3, <1>14, <1>16, <1>17, <1>18, FitToPick
<1>20. Agreed'
  BY <1>2, <1>5, <1>7 DEF Agreed, Unique
<1>21. Forgotten'
  <2>1. \A r \in Verified : r.id \notin gone
    BY <1>4 DEF Forgotten, IdsOf
  <2> QED
    BY <2>1, <1>2, <1>3 DEF Forgotten, IdsOf
<1>22. Attended' /\ Restored'
  BY <1>2, <1>4, <1>6 DEF Attended, Restored
<1>24. Told'
  <2>1. ASSUME NEW r \in Verified, r.id \in told' PROVE r.state = "available"
    <3>1. CASE r.id \in told
      BY <3>1, <1>4 DEF Told
    <3>2. CASE r.id \notin told
      BY <2>1, <3>2, <1>2, <1>5 DEF IdsOf, Unique
    <3> QED
      BY <3>1, <3>2
  <2> QED
    BY <2>1, <1>2, <1>3, <1>6 DEF Told
<1>25. Waiting'
  BY <1>3 DEF Waiting
<1> QED
  BY <1>2, <1>3, <1>11, <1>12, <1>13, <1>14, <1>16, <1>17, <1>18, <1>19, <1>20, <1>21, <1>22, <1>24, <1>25

-----------------------------------------------------------------------------
(* Commits that land.                                                      *)

\* What every landing that is no part of a removal has in common: the disk is
\* the ledger in memory, the queue is a commit shorter, and the pump waits for
\* what it waited for or for a row that is requested.
LEMMA Lands ==
  ASSUME LInv, saves # <<>>, Head(saves).kind \notin {"mark", "drop"}, saves' = Tail(saves),
         disk' = rows, mark' \in [Ids -> Sizes], told' \subseteq 1..minted,
         runner' \subseteq Transfers, \A u \in runner' : \E t \in runner : u.id = t.id,
         \A u, v \in runner' : u = v,
         pump' = pump \/ (runner' = {} /\ phase = "up" /\ \E r \in rows : r.state = "requested" /\ pump' = {r}),
         pump' # {} => runner' = {},
         UNCHANGED <<phase, net, rows, removals, minted, gone>>
  PROVE  /\ Shapes' /\ Numbers' /\ Phases' /\ Leaving' /\ Removing' /\ Owners' /\ Ledgers'
         /\ Picked' /\ Agreed' /\ Forgotten'
<1> USE DEF LInv
<1>1. /\ saves' \in Seq(Commits)
      /\ Len(saves) \in Nat \ {0} /\ Len(saves') = Len(saves) - 1
      /\ \A i \in 1..Len(saves') : saves'[i] = saves[i + 1] /\ i + 1 \in 1..Len(saves)
      /\ Olds' \subseteq Olds
  BY Served
<1>2. \A r \in pump' : r \in pump \/ (r \in rows /\ r.state = "requested")
  OBVIOUS
<1>3. Known' \subseteq Known
  BY <1>1, <1>2 DEF Known
<1>4. Versions' \subseteq Versions
  <2> SUFFICES ASSUME NEW q \in Versions' PROVE q \in Versions
    OBVIOUS
  <2>1. CASE q \in rows' \cup pump'
    BY <2>1, <1>2 DEF Versions
  <2>2. CASE q \notin rows' \cup pump'
    <3>1. PICK i \in 1..Len(saves') : saves'[i].kind \in {"claim", "retry"} /\ q = saves'[i].old
      BY <2>2 DEF Versions
    <3>2. saves'[i] = saves[i + 1] /\ i + 1 \in 1..Len(saves)
      BY <1>1
    <3> QED
      BY <3>1, <3>2 DEF Versions
  <2> QED
    BY <2>1, <2>2
<1>5. phase \notin {"down", "swapped"}
  BY DEF Phases
<1>11. Shapes'
  BY <1>1, <1>2 DEF Shapes
<1>12. Numbers'
  BY <1>3 DEF Numbers, Known
<1>13. Phases'
  BY <1>5 DEF Phases
<1>15. Leaving'
  <2>1. \A i, j \in 1..Len(saves') : i + 1 = j + 1 => i = j
    BY <1>1
  <2> QED
    BY <2>1, <1>1 DEF Leaving
<1>16. Removing'
  <2>1. ASSUME NEW x \in removals, NEW r \in rows, r.id = x.id PROVE r.state = "removing"
    <3>1. x.row \in Known /\ r \in Known /\ x.row.id = r.id
      BY <2>1 DEF Known, Leaving
    <3>2. r.rec = x.row.rec
      BY <3>1 DEF Owners
    <3> QED
      BY <3>2 DEF Removing
  <2> QED
    BY <2>1 DEF Removing
<1>17. Owners'
  BY <1>3 DEF Owners
<1>18. Ledgers'
  BY DEF Ledgers, Unique, Storable
<1>19. Picked'
  <2>1. CASE pump' = pump
    BY <2>1 DEF Picked
  <2>2. CASE \E r \in rows : r.state = "requested" /\ pump' = {r}
    BY <2>2, <1>15, <1>16, <1>17, <1>18, FitToPick
  <2> QED
    BY <2>1, <2>2
<1>20. Agreed'
  BY <1>4 DEF Agreed
<1>21. Forgotten'
  BY <1>2, <1>5 DEF Forgotten, IdsOf
<1> QED
  BY <1>11, <1>12, <1>13, <1>15, <1>16, <1>17, <1>18, <1>19, <1>20, <1>21

\* What the queue holds, one place further on.
LEMMA RestoredOn ==
  ASSUME LInv, saves # <<>>, saves' = Tail(saves),
         NEW i \in 1..Len(saves')
  PROVE  /\ saves'[i] = saves[i + 1] /\ i + 1 \in 1..Len(saves)
         /\ saves'[i].kind = "request" => \A t \in runner : t.id = saves'[i].old.id =>
              t.at = "claim" /\ BeforeClaim(i)' /\ Head(saves).kind # "claim"
         /\ saves'[i].kind = "retry" =>
              /\ saves'[i].old.state = "failed_with_retry"
              /\ \A t \in runner : t.id = saves'[i].old.id =>
                   \/ t.at = "fail" \/ Doomed(t)
                   \/ t.at = "claim" /\ BeforeClaim(i)' /\ Head(saves).kind # "claim"
         /\ saves'[i].kind = "claim" => saves'[i].old.state = "requested"
         /\ saves'[i].kind = "done" => saves'[i].old.state = "transferring"
<1>1. /\ saves'[i] = saves[i + 1] /\ i + 1 \in 1..Len(saves)
      /\ BeforeClaim(i + 1) => BeforeClaim(i)' /\ Head(saves).kind # "claim"
  BY Served DEF LInv
<1>2. DEFINE j == i + 1
<1> HIDE DEF j
<1>3. /\ j \in 1..Len(saves) /\ saves'[i] = saves[j]
      /\ BeforeClaim(j) => BeforeClaim(i)' /\ Head(saves).kind # "claim"
  BY <1>1 DEF j
<1> QED
  BY <1>1, <1>3 DEF LInv, Restored

\* A commit nobody awaits lands.
LEMMA LandsPlain ==
  ASSUME LInv, saves # <<>>, Head(saves).kind \in {"request", "retry", "cancel", "checkpoint"},
         saves' = Tail(saves), disk' = rows,
         pump' \in IF Head(saves).kind \in {"request", "retry"} THEN Picks(rows, runner) ELSE {pump},
         UNCHANGED <<phase, net, rows, mark, runner, removals, minted, gone, told>>
  PROVE  LInv'
<1> USE DEF LInv
<1> DEFINE kind == Head(saves).kind
<1>1. /\ \A k, id : Queued(k, id) <=> Queued(k, id)' \/ (k = kind /\ id = Head(saves).old.id)
      /\ \A id : ClaimedThenDemoted(id) => ClaimedThenDemoted(id)'
      /\ \A id : DemotedThenMinted(id) => DemotedThenMinted(id)'
      /\ \A i \in 1..Len(saves') : saves'[i] = saves[i + 1] /\ i + 1 \in 1..Len(saves)
      /\ Len(saves') \in Nat
  BY Served
<1>2. /\ pump' = pump \/ (runner' = {} /\ phase = "up" /\ \E r \in rows : r.state = "requested" /\ pump' = {r})
      /\ pump' # {} => runner' = {}
      /\ phase = "up" /\ runner = {} /\ kind \in {"request", "retry"} =>
           \A r \in rows : r.state = "requested" => pump' # {}
  BY Picking DEF Phases, Shapes
<1>3. kind \notin Awaited
  BY DEF Awaited
<1>4. \A t \in runner : Doomed(t) => Doomed(t)'
  BY <1>1 DEF Doomed
<1> HIDE DEF kind
<1>5. /\ Shapes' /\ Numbers' /\ Phases' /\ Leaving' /\ Removing' /\ Owners' /\ Ledgers'
      /\ Picked' /\ Agreed' /\ Forgotten'
  BY <1>2, Lands DEF Shapes, Numbers, Phases
<1>14. Awaits'
  <2>1. \A i, j \in 1..Len(saves') : i + 1 = j + 1 => i = j
    BY <1>1
  <2> QED
    BY <2>1, <1>1, <1>3 DEF Awaits
<1>22. Attended'
  <2>1. ASSUME NEW t \in runner, NEW q \in rows, Fits(q, t) PROVE Fits(q, t)'
    <3>1. /\ Queued("demote", t.id) => Queued("demote", t.id)'
          /\ Queued("mark", t.id) => Queued("mark", t.id)'
      BY <1>1 DEF kind
    <3> QED
      BY <2>1, <3>1, <1>4 DEF Fits
  <2> QED
    BY <2>1 DEF Attended, IdsOf
<1>23. Restored'
  BY <1>4, RestoredOn DEF Restored
<1>24. Told'
  BY <1>1, <1>2 DEF Told
<1>25. Waiting'
  <2>1. CASE kind \in {"request", "retry"}
    BY <2>1, <1>2 DEF Waiting
  <2>2. CASE kind \notin {"request", "retry"}
    BY <2>2, <1>1 DEF Waiting, kind
  <2> QED
    BY <2>1, <2>2
<1> QED
  BY <1>5, <1>14, <1>22, <1>23, <1>24, <1>25

\* The commit a runner awaits lands, and the runner takes its next step.
LEMMA LandsOnRunner ==
  ASSUME LInv, saves # <<>>, Head(saves).kind \in {"claim", "minted", "reset"},
         saves' = Tail(saves), disk' = rows, mark' \in [Ids -> Sizes],
         NEW t \in runner, NEW u \in Transfers, u.id = t.id, u.cancelled = t.cancelled,
         u.at = IF Head(saves).kind = "claim" THEN "mint" ELSE "begin",
         runner' = {u},
         UNCHANGED <<phase, net, rows, pump, removals, minted, gone, told>>
  PROVE  LInv'
<1> USE DEF LInv
<1> DEFINE kind == Head(saves).kind
<1>1. /\ \A k, id : Queued(k, id) <=> Queued(k, id)' \/ (k = kind /\ id = Head(saves).old.id)
      /\ \A id : ClaimedThenDemoted(id) => Queued("demote", id)'
      /\ \A i \in 1..Len(saves') : saves'[i] = saves[i + 1] /\ i + 1 \in 1..Len(saves)
      /\ Len(saves') \in Nat /\ 1 \in 1..Len(saves) /\ Head(saves) = saves[1]
  BY Served
<1>2. runner = {t} /\ pump = {} /\ phase \notin {"down", "swapped"}
  BY OneRuns
<1>3. kind \in Awaited /\ kind \in {"claim", "minted", "reset"} /\ u.at \notin Awaited
  BY DEF Awaited
<1>31. kind = t.at
  BY <1>1, <1>3, OneRuns
<1>32. u.at = IF kind = "claim" THEN "mint" ELSE "begin"
  OBVIOUS
<1> HIDE DEF kind
<1>4. /\ Shapes' /\ Numbers' /\ Phases' /\ Leaving' /\ Removing' /\ Owners' /\ Ledgers'
      /\ Picked' /\ Agreed' /\ Forgotten'
  BY <1>2, <1>3, Lands DEF kind, Numbers
<1>5. \A i \in 1..Len(saves') : saves'[i].kind \notin Awaited
  <2>1. ASSUME NEW i \in 1..Len(saves'), saves'[i].kind \in Awaited PROVE i + 1 = 1
    BY <2>1, <1>1, <1>3 DEF Awaits, kind
  <2>2. Len(saves') \in Nat
    BY <1>1
  <2> QED
    BY <2>1, <2>2
<1>6. Doomed(t) => Doomed(u)'
  <2>1. ~DemotedThenMinted(t.id) \/ kind # "minted"
    BY <1>1, <1>3 DEF DemotedThenMinted, Awaits, Awaited, kind
  <2>2. CASE kind = "claim"
    BY <2>2, <1>1, <1>31, <1>32 DEF Doomed
  <2>3. CASE kind = "minted"
    BY <2>1, <2>3, <1>31, <1>32 DEF Doomed
  <2>4. CASE kind = "reset"
    BY <2>4, <1>31 DEF Doomed
  <2> QED
    BY <2>2, <2>3, <2>4, <1>3
<1>14. Awaits'
  BY <1>3, <1>5 DEF Awaits
<1>22. Attended'
  <2>1. ASSUME NEW r \in rows, r.id = t.id PROVE Fits(r, u)'
    <3>1. Fits(r, t) /\ r.state \in States
      BY <2>1 DEF Attended, Shapes, Entries
    <3>2. /\ Queued("demote", t.id) => Queued("demote", t.id)'
          /\ Queued("mark", t.id) => Queued("mark", t.id)'
      BY <1>1, <1>3
    <3>3. r.state = "failed_with_retry" => Doomed(u)'
      BY <3>1, <1>3, <1>31, <1>6 DEF Fits
    <3>4. r.state = "requested" => u.cancelled \/ Queued("demote", t.id)'
      BY <3>1, <3>2, <1>1, <1>3, <1>31 DEF Fits, Doomed
    <3>5. r.state # "available" /\ (r.state = "removing" => u.cancelled \/ Queued("mark", t.id)')
      BY <3>1, <3>2, <1>3, <1>31 DEF Fits
    <3> QED
      BY <3>3, <3>4, <3>5, <1>32 DEF Fits
  <2>2. u.at = "begin" => t.id \in IdsOf(rows)'
    BY <1>31, <1>32, <1>3 DEF Attended, IdsOf
  <2> QED
    BY <2>1, <2>2, <1>2, <1>32 DEF Attended
<1>23. Restored'
  <2>1. ASSUME NEW i \in 1..Len(saves')
        PROVE  /\ saves'[i].kind = "request" => saves'[i].old.id # t.id
               /\ saves'[i].kind = "retry" =>
                    /\ saves'[i].old.state = "failed_with_retry"
                    /\ saves'[i].old.id = t.id => Doomed(u)'
               /\ saves'[i].kind = "claim" => saves'[i].old.state = "requested"
               /\ saves'[i].kind = "done" => saves'[i].old.state = "transferring"
    BY <1>31, <1>3, <1>6, RestoredOn DEF kind
  <2> QED
    BY <2>1 DEF Restored
<1>24. Told'
  BY <1>1, <1>2 DEF Told
<1>25. Waiting'
  BY DEF Waiting
<1> QED
  BY <1>4, <1>14, <1>22, <1>23, <1>24, <1>25

\* A demotion lands: the runner it was about is told to stop.
LEMMA LandsDemote ==
  ASSUME LInv, saves # <<>>, Head(saves).kind = "demote",
         saves' = Tail(saves), disk' = rows,
         runner' = {IF t.id = Head(saves).old.id /\ t.at # "claim" THEN Signalled(t) ELSE t : t \in runner},
         UNCHANGED <<phase, net, rows, mark, pump, removals, minted, gone, told>>
  PROVE  LInv'
<1> USE DEF LInv
<1> DEFINE id0 == Head(saves).old.id
           told0(t) == IF t.id = id0 /\ t.at # "claim" THEN Signalled(t) ELSE t
<1>1. /\ \A k, id : Queued(k, id) <=> Queued(k, id)' \/ (k = "demote" /\ id = id0)
      /\ \A id : ClaimedThenDemoted(id) => ClaimedThenDemoted(id)'
      /\ \A id : DemotedThenMinted(id) => DemotedThenMinted(id)' \/ id0 = id
      /\ \A i \in 1..Len(saves') : saves'[i] = saves[i + 1] /\ i + 1 \in 1..Len(saves)
      /\ Len(saves') \in Nat
  BY Served
<1>2. \A u \in runner' : \E t \in runner : u = told0(t)
  OBVIOUS
<1>3. ASSUME NEW t \in runner
      PROVE  /\ told0(t) \in Transfers /\ told0(t).id = t.id /\ told0(t).at = t.at
             /\ t.cancelled => told0(t).cancelled
             /\ t.id = id0 /\ t.at # "claim" => told0(t).cancelled
  <2>1. t \in Transfers
    BY DEF Shapes
  <2> QED
    BY <2>1 DEF Transfers, Signalled
<1>31. "demote" \notin Awaited /\ Head(saves).kind = "demote"
  BY DEF Awaited
<1> HIDE DEF id0, told0
<1>32. ASSUME NEW u \in runner' PROVE \E t \in runner : u = told0(t) /\ u.id = t.id /\ u.at = t.at
  BY <1>2, <1>3
<1>33. /\ runner' \subseteq Transfers
       /\ \A u \in runner' : \E t \in runner : u.id = t.id
       /\ \A u, v \in runner' : u = v
       /\ pump # {} => runner' = {}
       /\ runner # {} => runner' # {}
  <2>1. \A u \in runner' : \E t \in runner : u = told0(t) /\ u.id = t.id /\ u \in Transfers
    BY <1>2, <1>3
  <2>2. \A t \in runner : told0(t) \in runner'
    BY DEF told0, id0
  <2> QED
    BY <2>1, <2>2 DEF Phases
<1>4. /\ Shapes' /\ Numbers' /\ Phases' /\ Leaving' /\ Removing' /\ Owners' /\ Ledgers'
      /\ Picked' /\ Agreed' /\ Forgotten'
  BY <1>31, <1>33, Lands DEF Numbers, Shapes
<1>6. ASSUME NEW t \in runner, NEW u, u = told0(t), Doomed(t) PROVE Doomed(u)'
  <2>1. /\ u.id = t.id /\ u.at = t.at /\ (t.cancelled => u.cancelled)
        /\ t.id = id0 /\ t.at # "claim" => u.cancelled
    BY <1>3, <1>6
  <2>2. CASE t.at = "claim"
    BY <2>1, <2>2, <1>6, <1>1 DEF Doomed
  <2>3. CASE t.at = "mint"
    BY <2>1, <2>3, <1>6, <1>1 DEF Doomed
  <2>4. CASE t.at = "minted"
    BY <2>1, <2>4, <1>6, <1>1 DEF Doomed
  <2>5. CASE t.at = "begin"
    BY <2>1, <2>5, <1>6 DEF Doomed
  <2> QED
    BY <2>2, <2>3, <2>4, <2>5, <1>6 DEF Doomed
<1>14. Awaits'
  <2>1. \A i, j \in 1..Len(saves') : i + 1 = j + 1 => i = j
    BY <1>1
  <2>2. \A t \in runner : told0(t) \in runner'
    BY DEF told0, id0
  <2>3. \A i \in 1..Len(saves') : saves'[i].kind \in Awaited =>
       \E u \in runner' : u.at = saves'[i].kind /\ u.id = saves'[i].old.id
    BY <2>2, <1>1, <1>3 DEF Awaits
  <2>4. \A i, j \in 1..Len(saves') :
       saves'[i].kind \in Awaited /\ saves'[j].kind \in Awaited => i = j
    BY <2>1, <1>1 DEF Awaits
  <2>5. \A u \in runner' : u.at \in Awaited => Queued(u.at, u.id)'
    BY <1>32, <1>1, <1>31 DEF Awaits
  <2> QED
    BY <2>3, <2>4, <2>5 DEF Awaits
<1>22. Attended'
  <2>1. ASSUME NEW t \in runner, NEW u, u = told0(t), NEW r \in rows, Fits(r, t), r.id = t.id
        PROVE  Fits(r, u)'
    <3>1. /\ Queued("demote", t.id) => Queued("demote", t.id)' \/ t.id = id0
          /\ Queued("mark", t.id) => Queued("mark", t.id)'
      BY <1>1
    <3>2. /\ u.id = t.id /\ u.at = t.at /\ (t.cancelled => u.cancelled)
          /\ t.id = id0 /\ t.at # "claim" => u.cancelled
      BY <1>3, <2>1
    <3>3. Doomed(t) => Doomed(u)'
      BY <1>6, <2>1
    <3>4. t.at # "claim" /\ (t.cancelled \/ Queued("demote", t.id)) => u.cancelled \/ Queued("demote", u.id)'
      BY <3>1, <3>2
    <3>5. t.cancelled \/ Queued("mark", t.id) => u.cancelled \/ Queued("mark", u.id)'
      BY <3>1, <3>2
    <3> QED
      BY <2>1, <3>2, <3>3, <3>4, <3>5 DEF Fits
  <2>2. ASSUME NEW u \in runner', NEW r \in rows, r.id = u.id PROVE Fits(r, u)'
    <3>1. PICK t \in runner : u = told0(t) /\ u.id = t.id
      BY <1>32
    <3> QED
      BY <2>1, <2>2, <3>1 DEF Attended
  <2>3. \A u \in runner' : u.at \in {"minted", "begin", "fetch", "reset", "reclaim"} =>
          u.id \in IdsOf(rows)'
    BY <1>32 DEF Attended, IdsOf
  <2>4. \A r \in rows : r.state = "transferring" => \E u \in runner' : u.id = r.id
    <3>1. \A t \in runner : told0(t) \in runner'
      BY DEF told0, id0
    <3> QED
      BY <3>1, <1>3 DEF Attended
  <2> QED
    BY <2>2, <2>3, <2>4 DEF Attended
<1>23. Restored'
  <2>1. ASSUME NEW i \in 1..Len(saves'), NEW u \in runner', u.id = saves'[i].old.id
        PROVE  /\ saves'[i].kind = "request" => u.at = "claim" /\ BeforeClaim(i)'
               /\ saves'[i].kind = "retry" =>
                   \/ u.at = "fail" \/ Doomed(u)'
                   \/ u.at = "claim" /\ BeforeClaim(i)'
    <3>1. PICK t \in runner : u = told0(t) /\ u.id = t.id /\ u.at = t.at
      BY <1>32
    <3>2. Doomed(t) => Doomed(u)'
      BY <3>1, <1>6
    <3> QED
      BY <2>1, <3>1, <3>2, RestoredOn
  <2> QED
    BY <2>1, RestoredOn DEF Restored
<1>24. Told'
  BY <1>1, <1>32 DEF Told
<1>25. Waiting'
  BY <1>1, <1>33 DEF Waiting
<1> QED
  BY <1>4, <1>14, <1>22, <1>23, <1>24, <1>25

\* The last commit of a runner lands.
LEMMA LandsLast ==
  ASSUME LInv, saves # <<>>, Head(saves).kind \in {"fail", "done"},
         saves' = Tail(saves), disk' = rows, mark' \in [Ids -> Sizes],
         runner' = {}, pump' \in Picks(rows, {}),
         told' = IF Head(saves).kind = "done" THEN told \cup {Head(saves).old.id} ELSE told,
         UNCHANGED <<phase, net, rows, removals, minted, gone>>
  PROVE  LInv'
<1> USE DEF LInv
<1> DEFINE kind == Head(saves).kind
           id0 == Head(saves).old.id
<1>1. /\ \A i \in 1..Len(saves') : saves'[i] = saves[i + 1] /\ i + 1 \in 1..Len(saves)
      /\ Len(saves') \in Nat /\ 1 \in 1..Len(saves) /\ Head(saves) = saves[1]
      /\ Head(saves).old \in Olds
  BY Served
<1>2. PICK t \in runner : t.at = kind /\ t.id = id0
  BY <1>1 DEF Awaits, Awaited
<1>3. runner = {t} /\ pump = {} /\ phase \notin {"down", "swapped"}
  BY OneRuns
<1>4. /\ pump' = {} \/ (phase = "up" /\ \E r \in rows : r.state = "requested" /\ pump' = {r})
      /\ \A r \in rows : phase = "up" /\ r.state = "requested" => pump' # {}
  BY <1>3, Picking DEF Shapes
<1>31. kind \in Awaited /\ kind \in {"fail", "done"}
  BY DEF Awaited
<1>32. told' = IF kind = "done" THEN told \cup {id0} ELSE told
  OBVIOUS
<1>33. id0 \in 1..minted
  BY <1>2, KnownRows DEF Numbers, Shapes, Ids
<1>34. \A r \in rows : r.id = id0 => r.state # "transferring"
                                      /\ (kind = "done" => r.state \in {"available", "removing"})
  BY <1>2, <1>31 DEF Attended, Fits
<1> HIDE DEF id0, kind
<1>5. /\ Shapes' /\ Numbers' /\ Phases' /\ Leaving' /\ Removing' /\ Owners' /\ Ledgers'
      /\ Picked' /\ Agreed' /\ Forgotten'
  BY <1>3, <1>31, <1>32, <1>33, <1>4, Lands DEF kind, Numbers
<1>6. \A i \in 1..Len(saves') : saves'[i].kind \notin Awaited
  <2>1. ASSUME NEW i \in 1..Len(saves'), saves'[i].kind \in Awaited PROVE i + 1 = 1
    BY <2>1, <1>1, <1>31 DEF Awaits, kind
  <2> QED
    BY <2>1, <1>1
<1>14. Awaits'
  BY <1>6 DEF Awaits
<1>22. Attended'
  BY <1>2, <1>3, <1>34 DEF Attended
<1>23. Restored'
  BY RestoredOn DEF Restored
<1>24. Told'
  <2>1. \A i \in 1..Len(saves') : saves'[i].kind = "request" => saves'[i].old.id # id0
    BY RestoredOn, <1>2, <1>31
  <2>2. \A r \in pump' : r.id \notin told'
    BY <1>4, <1>32, <1>34 DEF Told
  <2>3. \A r \in rows : r.id \in told' => r.state \in {"available", "removing"}
    BY <1>32, <1>34 DEF Told
  <2> QED
    BY <2>1, <2>2, <2>3, <1>1, <1>32 DEF Told
<1>25. Waiting'
  BY <1>4 DEF Waiting
<1> QED
  BY <1>5, <1>14, <1>22, <1>23, <1>24, <1>25

\* The mark of a removal lands: the runner of its row is told to stop.
LEMMA LandsMark ==
  ASSUME LInv, saves # <<>>, Head(saves).kind = "mark",
         saves' = Tail(saves), disk' = rows,
         runner' = {IF t.id = Head(saves).old.id /\ At(removals, Head(saves).old.id).waits
                    THEN Signalled(t) ELSE t : t \in runner},
         removals' = Put(removals, [At(removals, Head(saves).old.id) EXCEPT !.at = "delete"]),
         UNCHANGED <<phase, net, rows, mark, pump, minted, gone, told>>
  PROVE  LInv'
<1> USE DEF LInv
<1> DEFINE id0 == Head(saves).old.id
           x0 == At(removals, id0)
           y0 == [x0 EXCEPT !.at = "delete"]
           told0(t) == IF t.id = id0 /\ x0.waits THEN Signalled(t) ELSE t
<1>1. /\ \A k, id : Queued(k, id) <=> Queued(k, id)' \/ (k = "mark" /\ id = id0)
      /\ \A id : ClaimedThenDemoted(id) => ClaimedThenDemoted(id)'
      /\ \A id : DemotedThenMinted(id) => DemotedThenMinted(id)'
      /\ \A i \in 1..Len(saves') : saves'[i] = saves[i + 1] /\ i + 1 \in 1..Len(saves)
      /\ Len(saves') \in Nat /\ 1 \in 1..Len(saves) /\ Head(saves) = saves[1]
      /\ saves' \in Seq(Commits) /\ Olds' \subseteq Olds
  BY Served
<1>2. x0 \in removals /\ x0.id = id0 /\ x0.at = "mark" /\ x0.row.id = id0
  <2>1. PICK x \in removals : x.id = id0 /\ x.at = "mark"
    BY <1>1 DEF Leaving
  <2>2. Unique(removals)
    BY DEF Unique, Leaving
  <2>3. At(removals, x.id) = x
    BY <2>2, TheRow
  <2> QED
    BY <2>1, <2>3 DEF Leaving
<1>3. /\ y0 \in Departures /\ y0.id = id0 /\ y0.at = "delete" /\ y0.row = x0.row /\ y0.waits = x0.waits
  <2>1. x0 \in Departures
    BY <1>2 DEF Shapes
  <2> HIDE DEF x0
  <2> QED
    BY <2>1, <1>2 DEF Departures
<1>4. \A u \in runner' : \E t \in runner : u = told0(t)
  OBVIOUS
<1>5. ASSUME NEW t \in runner
      PROVE  /\ told0(t) \in Transfers /\ told0(t).id = t.id /\ told0(t).at = t.at
             /\ t.cancelled => told0(t).cancelled
             /\ t.id = id0 => told0(t).cancelled
             /\ told0(t) \in runner'
  <2>1. t \in Transfers
    BY DEF Shapes
  <2>2. t.id = id0 => x0.waits
    BY <1>2 DEF Removing
  <2>3. told0(t) \in runner'
    OBVIOUS
  <2> HIDE DEF x0, id0
  <2> QED
    BY <2>1, <2>2, <2>3 DEF Transfers, Signalled
<1>6. removals' = Put(removals, y0)
  OBVIOUS
<1>7. "mark" \notin Awaited /\ phase \notin {"down", "swapped"}
  BY DEF Awaited, Phases
<1> HIDE DEF id0, x0, y0, told0
<1>8. \A z : z \in removals' <=> z = y0 \/ (z \in removals /\ z.id # id0)
  BY <1>3, <1>6, Putting
<1>9. ASSUME NEW u \in runner'
      PROVE  \E t \in runner : u = told0(t) /\ u.id = t.id /\ u.at = t.at /\ u \in Transfers
  BY <1>4, <1>5
<1>10. Known' \subseteq Known /\ Versions' \subseteq Versions
  <2>1. Known' \subseteq Known
    BY <1>1, <1>2, <1>3, <1>8 DEF Known
  <2>2. ASSUME NEW q \in Versions', q \notin rows' \cup pump' PROVE q \in Versions
    <3>1. PICK i \in 1..Len(saves') : saves'[i].kind \in {"claim", "retry"} /\ q = saves'[i].old
      BY <2>2 DEF Versions
    <3>2. saves'[i] = saves[i + 1] /\ i + 1 \in 1..Len(saves)
      BY <1>1
    <3> QED
      BY <3>1, <3>2 DEF Versions
  <2>3. \A q \in rows' \cup pump' : q \in Versions
    BY DEF Versions
  <2> QED
    BY <2>1, <2>2, <2>3
<1>100. ASSUME NEW t \in runner, NEW u, u = told0(t) PROVE u.id = t.id /\ u.at = t.at /\ (Doomed(t) => Doomed(u)')
  <2>1. u.id = t.id /\ u.at = t.at /\ (t.cancelled => u.cancelled)
    BY <1>5, <1>100
  <2>2. Queued("demote", t.id) => Queued("demote", t.id)'
    BY <1>1
  <2> QED
    BY <2>1, <2>2, <1>1 DEF Doomed
<1>11. Shapes'
  BY <1>1, <1>3, <1>8, <1>9 DEF Shapes
<1>12. Numbers'
  BY <1>9, <1>10 DEF Numbers, Known
<1>13. Phases'
  BY <1>7, <1>9 DEF Phases
<1>14. Awaits'
  <2>1. \A i, j \in 1..Len(saves') : i + 1 = j + 1 => i = j
    BY <1>1
  <2>3. \A i \in 1..Len(saves') : saves'[i].kind \in Awaited =>
       \E u \in runner' : u.at = saves'[i].kind /\ u.id = saves'[i].old.id
    BY <1>1, <1>5 DEF Awaits
  <2>4. \A i, j \in 1..Len(saves') :
       saves'[i].kind \in Awaited /\ saves'[j].kind \in Awaited => i = j
    BY <2>1, <1>1 DEF Awaits
  <2>5. \A u \in runner' : u.at \in Awaited => Queued(u.at, u.id)'
    BY <1>9, <1>1, <1>7 DEF Awaits
  <2> QED
    BY <2>3, <2>4, <2>5 DEF Awaits
<1>15. Leaving'
  <2>1. \A i \in 1..Len(saves') : i + 1 # 1
    <3>1. Len(saves') \in Nat
      BY <1>1
    <3> QED
      BY <3>1
  <2>2. \A i \in 1..Len(saves') : saves'[i].kind \in {"mark", "drop"} => saves'[i].old.id # id0
    BY <2>1, <1>1 DEF Leaving, id0
  <2>3. /\ \A z \in removals' : z.row.id = z.id
        /\ \A z, w \in removals' : z.id = w.id \/ z.row.rec = w.row.rec => z = w
    BY <1>2, <1>3, <1>8 DEF Leaving
  <2>4. \A i \in 1..Len(saves') : saves'[i].kind \in {"mark", "drop"} =>
          \E z \in removals' : z.id = saves'[i].old.id /\ z.at = saves'[i].kind
    BY <2>2, <1>1, <1>8 DEF Leaving
  <2>5. \A i, j \in 1..Len(saves') :
          /\ saves'[i].kind \in {"mark", "drop"} /\ saves'[j].kind \in {"mark", "drop"}
          /\ saves'[i].old.id = saves'[j].old.id
          => i = j
    <3>1. \A i, j \in 1..Len(saves') : i + 1 = j + 1 => i = j
      BY <1>1
    <3> QED
      BY <3>1, <1>1 DEF Leaving
  <2> QED
    BY <2>3, <2>4, <2>5 DEF Leaving
<1>16. Removing'
  <2>1. ASSUME NEW x \in removals, NEW r \in rows, r.id = x.id PROVE r.state = "removing"
    <3>1. x.row \in Known /\ r \in Known /\ x.row.id = r.id
      BY <2>1 DEF Known, Leaving
    <3>2. r.rec = x.row.rec
      BY <3>1 DEF Owners
    <3> QED
      BY <3>2 DEF Removing
  <2>2. \A z \in removals' : \E x \in removals : x.id = z.id /\ x.row = z.row /\ x.waits = z.waits
                                                /\ (z.at = x.at \/ z.at = "delete")
    BY <1>2, <1>3, <1>8
  <2>3. /\ \A z \in removals', r \in rows : r.rec = z.row.rec =>
             r.id = z.id /\ r.state = "removing" /\ z.at # "drop"
        /\ \A z \in removals', r \in rows : r.id = z.id => r.state = "removing"
    BY <2>1, <2>2 DEF Removing
  <2>4. \A r \in rows : r.state = "removing" => \E z \in removals' : z.id = r.id
    BY <1>2, <1>3, <1>8 DEF Removing
  <2>5. \A z \in removals', u \in runner' : u.id = z.id => z.waits /\ z.at # "drop"
    BY <2>2, <1>9 DEF Removing
  <2> QED
    BY SMTT(30), <2>3, <2>4, <2>5 DEF Removing
<1>17. Owners'
  BY <1>10 DEF Owners
<1>18. Ledgers'
  BY DEF Ledgers, Unique, Storable
<1>19. Picked'
  BY <1>2, <1>3, <1>8 DEF Picked
<1>20. Agreed'
  BY <1>10 DEF Agreed
<1>21. Forgotten'
  BY <1>7, <1>9 DEF Forgotten, IdsOf
<1>22. Attended'
  <2>1. ASSUME NEW t \in runner, NEW u, u = told0(t), NEW r \in rows, Fits(r, t), r.id = t.id
        PROVE  Fits(r, u)'
    <3>1. /\ Queued("demote", t.id) => Queued("demote", t.id)'
          /\ Queued("mark", t.id) => Queued("mark", t.id)' \/ t.id = id0
      BY <1>1
    <3>2. /\ u.id = t.id /\ u.at = t.at /\ (t.cancelled => u.cancelled)
          /\ t.id = id0 => u.cancelled
      BY <1>5, <2>1
    <3>3. Doomed(t) => Doomed(u)'
      BY <1>100, <2>1
    <3>4. t.cancelled \/ Queued("demote", t.id) => u.cancelled \/ Queued("demote", u.id)'
      BY <3>1, <3>2
    <3>5. t.cancelled \/ Queued("mark", t.id) => u.cancelled \/ Queued("mark", u.id)'
      BY <3>1, <3>2
    <3>6. r.state = "requested" /\ u.at = "claim" => Doomed(u)'
      BY <2>1, <3>2, <3>3 DEF Fits
    <3> QED
      BY <2>1, <3>2, <3>3, <3>4, <3>5, <3>6 DEF Fits
  <2>2. ASSUME NEW u \in runner', NEW r \in rows, r.id = u.id PROVE Fits(r, u)'
    <3>1. PICK t \in runner : u = told0(t) /\ u.id = t.id
      BY <1>9
    <3> QED
      BY <2>1, <2>2, <3>1 DEF Attended
  <2>3. \A u \in runner' : u.at \in {"minted", "begin", "fetch", "reset", "reclaim"} =>
          u.id \in IdsOf(rows)'
    BY <1>9 DEF Attended, IdsOf
  <2>4. \A r \in rows : r.state = "transferring" => \E u \in runner' : u.id = r.id
    BY <1>5 DEF Attended
  <2> QED
    BY <2>2, <2>3, <2>4 DEF Attended
<1>23. Restored'
  <2>1. ASSUME NEW i \in 1..Len(saves'), NEW u \in runner', u.id = saves'[i].old.id
        PROVE  /\ saves'[i].kind = "request" => u.at = "claim" /\ BeforeClaim(i)'
               /\ saves'[i].kind = "retry" =>
                   \/ u.at = "fail" \/ Doomed(u)'
                   \/ u.at = "claim" /\ BeforeClaim(i)'
    <3>1. PICK t \in runner : u = told0(t) /\ u.id = t.id /\ u.at = t.at
      BY <1>9
    <3>2. Doomed(t) => Doomed(u)'
      BY <3>1, <1>100
    <3> QED
      BY <2>1, <3>1, <3>2, RestoredOn
  <2> QED
    BY <2>1, RestoredOn DEF Restored
<1>24. Told'
  BY <1>1, <1>9 DEF Told
<1>25. Waiting'
  <2>1. runner # {} => runner' # {}
    BY <1>5
  <2> QED
    BY <2>1, <1>1 DEF Waiting
<1> QED
  BY <1>11, <1>12, <1>13, <1>14, <1>15, <1>16, <1>17, <1>18, <1>19, <1>20, <1>21, <1>22, <1>23, <1>24, <1>25

\* The queue after its oldest commit was served and, perhaps, a request joined.
LEMMA ServedAndJoined ==
  ASSUME Shapes, saves # <<>>, NEW joins \in BOOLEAN, NEW row, joins => row \in Entries,
         saves' = IF joins THEN Append(Tail(saves), [kind |-> "request", old |-> row]) ELSE Tail(saves)
  PROVE  /\ saves' \in Seq(Commits)
         /\ Len(saves) \in Nat \ {0} /\ 1 \in 1..Len(saves) /\ Head(saves) = saves[1]
         /\ Head(saves).old \in Entries
         /\ \A i \in 1..Len(saves') :
              \/ i + 1 \in 1..Len(saves) /\ saves'[i] = saves[i + 1]
              \/ joins /\ i = Len(saves) /\ saves'[i].kind = "request" /\ saves'[i].old = row
         /\ \A i \in 1..Len(saves) : i # 1 => i - 1 \in 1..Len(saves') /\ saves'[i - 1] = saves[i]
         /\ joins => Len(saves) \in 1..Len(saves') /\ saves'[Len(saves)].kind = "request"
                     /\ saves'[Len(saves)].old = row
         /\ Len(saves') \in Nat
<1> DEFINE c == [kind |-> "request", old |-> row]
           q == Tail(saves)
           n == Len(saves)
<1>1. /\ q \in Seq(Commits)
      /\ n \in Nat \ {0}
      /\ Len(q) = n - 1
      /\ \A i \in 1..Len(q) : q[i] = saves[i + 1] /\ i + 1 \in 1..n
      /\ Head(saves) = saves[1] /\ Head(saves) \in Commits
  BY Leaves DEF Shapes
<1>2. c.kind = "request" /\ c.old = row /\ (joins => c \in Commits)
  BY DEF Commits, Kinds
<1>3. Head(saves).old \in Entries
  BY <1>1 DEF Commits
<1>4. saves' = IF joins THEN Append(q, c) ELSE q
  OBVIOUS
<1>5. n = Len(saves)
  OBVIOUS
<1> HIDE DEF c, q, n
<1>6. /\ saves' \in Seq(Commits) /\ Len(saves') \in Nat
      /\ \A i \in 1..Len(saves') : (i \in 1..(n - 1) /\ saves'[i] = q[i]) \/ (joins /\ i = n /\ saves'[i] = c)
      /\ \A i \in 1..(n - 1) : i \in 1..Len(saves') /\ saves'[i] = q[i]
      /\ joins => n \in 1..Len(saves') /\ saves'[n] = c
  <2>1. CASE joins
    <3>1. saves' = Append(q, c) /\ c \in Commits /\ q \in Seq(Commits)
      BY <2>1, <1>1, <1>2, <1>4
    <3>2. /\ Append(q, c) \in Seq(Commits)
          /\ Len(Append(q, c)) = Len(q) + 1
          /\ \A i \in 1..Len(q) : Append(q, c)[i] = q[i]
          /\ Append(q, c)[Len(q) + 1] = c
      BY <3>1, Joins
    <3>3. /\ n \in Nat /\ n \in 1..n
          /\ Len(q) + 1 = n /\ 1..Len(q) = 1..(n - 1)
          /\ \A i \in 1..n : i \in 1..(n - 1) \/ i = n
          /\ \A i \in 1..(n - 1) : i \in 1..n
      BY <1>1
    <3>4. saves' \in Seq(Commits) /\ Len(saves') = n /\ saves'[n] = c
      BY <3>1, <3>2, <3>3, Zenon
    <3>5. \A i \in 1..(n - 1) : saves'[i] = q[i]
      BY <3>1, <3>2, <3>3, Zenon
    <3>6. \A i \in 1..Len(saves') : (i \in 1..(n - 1) /\ saves'[i] = q[i]) \/ (joins /\ i = n /\ saves'[i] = c)
      BY <3>3, <3>4, <3>5, <2>1, Zenon
    <3>7. \A i \in 1..(n - 1) : i \in 1..Len(saves') /\ saves'[i] = q[i]
      BY <3>3, <3>4, <3>5, Zenon
    <3>8. n \in 1..Len(saves') /\ Len(saves') \in Nat
      BY <3>3, <3>4, Zenon
    <3> QED
      BY <3>4, <3>6, <3>7, <3>8, Zenon
  <2>2. CASE ~joins
    <3>1. saves' = q
      BY <1>4, <2>2
    <3>2. Len(saves') = n - 1 /\ n - 1 \in Nat /\ saves' \in Seq(Commits)
      <4>1. n - 1 \in Nat
        BY <1>1
      <4> QED
        BY <3>1, <1>1, <4>1, Zenon
    <3>3. \A i \in 1..Len(saves') : i \in 1..(n - 1) /\ saves'[i] = q[i]
      BY <3>1, <3>2
    <3>4. \A i \in 1..(n - 1) : i \in 1..Len(saves') /\ saves'[i] = q[i]
      BY <3>1, <3>2
    <3> QED
      BY <3>2, <3>3, <3>4, <2>2, Zenon
  <2> QED
    BY <2>1, <2>2
<1>7. \A i \in 1..n : i # 1 => i - 1 \in 1..Len(saves') /\ saves'[i - 1] = saves[i]
  <2> SUFFICES ASSUME NEW i \in 1..n, i # 1
               PROVE  i - 1 \in 1..Len(saves') /\ saves'[i - 1] = saves[i]
    OBVIOUS
  <2> DEFINE j == i - 1
  <2>1. j \in 1..(n - 1) /\ j + 1 = i /\ j \in 1..Len(q)
    BY <1>1
  <2>2. j \in 1..Len(saves') /\ saves'[j] = q[j]
    BY <2>1, <1>6
  <2>3. q[j] = saves[j + 1]
    BY <2>1, <1>1
  <2> QED
    BY <2>1, <2>2, <2>3
<1>8. \A i \in 1..Len(saves') :
        \/ i + 1 \in 1..n /\ saves'[i] = saves[i + 1]
        \/ joins /\ i = n /\ saves'[i] = c
  BY <1>1, <1>6
<1>9. 1 \in 1..n
  BY <1>1
<1> QED
  BY <1>1, <1>2, <1>3, <1>5, <1>6, <1>7, <1>8, <1>9, Zenon

\* The drop of a removed row lands, and a request that replaces it may follow.
LEMMA LandsDrop ==
  ASSUME LInv, saves # <<>>, Head(saves).kind = "drop", disk' = rows,
         removals' = Without(removals, Head(saves).old.id),
         gone' = gone \cup {Head(saves).old.id}, told' = told \ {Head(saves).old.id},
         NEW joins \in BOOLEAN, NEW row,
         row = Row(minted + 1, Head(saves).old.rec, "requested", 0, 0),
         joins => minted < MaxIds,
         saves' = IF joins THEN Append(Tail(saves), [kind |-> "request", old |-> row]) ELSE Tail(saves),
         rows' = IF joins THEN rows \cup {row} ELSE rows,
         minted' = IF joins THEN minted + 1 ELSE minted,
         mark' \in [Ids -> Sizes],
         UNCHANGED <<phase, net, pump, runner>>
  PROVE  LInv'
<1> USE DEF LInv
<1> DEFINE id0 == Head(saves).old.id
           rec0 == Head(saves).old.rec
<1>1. minted \in Nat /\ MaxIds \in Nat /\ minted <= MaxIds /\ (joins => minted + 1 \in Ids)
  BY DownloadAssumption DEF Shapes, Ids
<1>2. Head(saves).old \in Entries
  BY Leaves DEF Shapes, Commits
<1>3. joins => row \in Entries
  BY <1>1, <1>2, Sized DEF Row, Entries, States
<1>4. /\ row.id = minted + 1 /\ row.rec = rec0
      /\ row.state = "requested" /\ row.off = 0 /\ row.len = 0
  BY DEF Row
<1>5. /\ saves' \in Seq(Commits)
      /\ Len(saves) \in Nat \ {0} /\ 1 \in 1..Len(saves) /\ Head(saves) = saves[1]
      /\ \A i \in 1..Len(saves') :
           \/ i + 1 \in 1..Len(saves) /\ saves'[i] = saves[i + 1]
           \/ joins /\ i = Len(saves) /\ saves'[i].kind = "request" /\ saves'[i].old = row
      /\ \A i \in 1..Len(saves) : i # 1 => i - 1 \in 1..Len(saves') /\ saves'[i - 1] = saves[i]
      /\ joins => Len(saves) \in 1..Len(saves') /\ saves'[Len(saves)].kind = "request"
                  /\ saves'[Len(saves)].old = row
      /\ Len(saves') \in Nat
  BY <1>3, ServedAndJoined
<1>6. PICK x0 \in removals : x0.id = id0 /\ x0.at = "drop"
  BY <1>5 DEF Leaving
<1>7. x0.row.id = id0 /\ x0.row.rec = rec0
  <2>1. x0.row.id = id0 /\ x0.row \in Known /\ Head(saves).old \in Known
    BY <1>5, <1>6 DEF Leaving, Known, Olds
  <2> QED
    BY <2>1 DEF Owners
<1>8. rows' = IF joins THEN rows \cup {row} ELSE rows
  OBVIOUS
<1>9. /\ removals' = {x \in removals : x.id # id0}
      /\ gone' = gone \cup {id0} /\ told' = told \ {id0} /\ disk' = rows
      /\ Head(saves).kind = "drop" /\ Head(saves).old.id = id0 /\ phase \notin {"down", "swapped"}
  BY DEF Without, Phases
<1> HIDE DEF id0, rec0
<1>10. /\ \A r \in rows : r.id # id0 /\ r.rec # rec0
       /\ \A t \in runner : t.id # id0
       /\ \A r \in pump : r.id # id0 /\ r.rec # rec0
  <2>1. \A r \in rows : r.rec # rec0
    BY <1>6, <1>7 DEF Removing
  <2>2. ASSUME NEW r \in rows, r.id = id0 PROVE FALSE
    <3>1. r \in Known /\ x0.row \in Known
      BY <1>6 DEF Known
    <3> QED
      BY <2>1, <2>2, <3>1, <1>7 DEF Owners
  <2> QED
    BY <2>1, <2>2, <1>6, <1>7 DEF Removing, Picked
<1>11. /\ \A r \in Known : r.id <= minted /\ r.id # minted + 1 /\ r.id \in Nat /\ r.id <= minted' /\ r.off <= r.len
       /\ \A t \in runner : t.id <= minted' /\ t.id # minted + 1
       /\ minted + 1 \notin gone /\ minted + 1 \notin told /\ 1..minted \subseteq 1..minted'
       /\ id0 \in 1..minted
  <2>1. \A r \in Known : r.id <= minted /\ r.id \in Nat /\ r.off <= r.len
    BY KnownRows DEF Numbers
  <2>2. \A t \in runner : t.id <= minted /\ t.id \in Nat
    BY KnownRows DEF Numbers
  <2>3. \A n \in Nat : n <= minted => n # minted + 1 /\ n <= minted'
    BY <1>1
  <2>4. id0 \in 1..minted
    <3>1. x0.row \in Known /\ x0.row.id \in Ids
      BY <1>6, KnownRows DEF Known
    <3> QED
      BY <3>1, <2>1, <1>7 DEF Ids
  <2>5. minted + 1 \notin 1..minted /\ 1..minted \subseteq 1..minted'
    BY <1>1
  <2> QED
    BY <2>1, <2>2, <2>3, <2>4, <2>5 DEF Numbers
<1>12. /\ \A q \in Known' : q \in Known \/ (joins /\ q = row)
       /\ \A q \in Versions' : q \in Versions \/ (joins /\ q = row)
  <2>1. \A q \in Olds' : q \in Olds \/ (joins /\ q = row)
    BY <1>5 DEF Olds
  <2>2. ASSUME NEW q \in Versions', q \notin rows', q \notin pump' PROVE q \in Versions
    <3>1. PICK i \in 1..Len(saves') : saves'[i].kind \in {"claim", "retry"} /\ q = saves'[i].old
      BY <2>2 DEF Versions
    <3>2. saves'[i] = saves[i + 1] /\ i + 1 \in 1..Len(saves)
      BY <3>1, <1>5
    <3> QED
      BY <3>1, <3>2 DEF Versions
  <2>3. \A q \in Known' : q \in Known \/ (joins /\ q = row)
    BY <2>1, <1>8, <1>9 DEF Known
  <2>4. \A q \in rows' \cup pump' : q \in Versions \/ (joins /\ q = row)
    BY <1>8 DEF Versions
  <2> QED
    BY <2>2, <2>3, <2>4
<1>13. \A q \in Versions : q.id # minted + 1
  BY <1>11, KnownRows
<1>14. \A k, id : k # "drop" /\ Queued(k, id) => Queued(k, id)'
  <2> SUFFICES ASSUME NEW k, NEW id, k # "drop", Queued(k, id) PROVE Queued(k, id)'
    OBVIOUS
  <2>1. PICK i \in 1..Len(saves) : saves[i].kind = k /\ saves[i].old.id = id
    BY DEF Queued
  <2>2. i # 1
    BY <2>1, <1>5, <1>9
  <2>3. i - 1 \in 1..Len(saves') /\ saves'[i - 1] = saves[i]
    BY <2>2, <1>5
  <2> QED
    BY <2>1, <2>3 DEF Queued
<1>15. \A id : /\ ClaimedThenDemoted(id) => ClaimedThenDemoted(id)'
               /\ DemotedThenMinted(id) => DemotedThenMinted(id)'
  <2>1. ASSUME NEW i \in 1..Len(saves), NEW j \in 1..Len(saves), i < j, saves[i].kind # "drop"
        PROVE  /\ i - 1 \in 1..Len(saves') /\ saves'[i - 1] = saves[i]
               /\ j - 1 \in 1..Len(saves') /\ saves'[j - 1] = saves[j]
               /\ i - 1 < j - 1
    <3>1. i # 1 /\ j # 1
      BY <2>1, <1>5, <1>9
    <3> QED
      BY <2>1, <3>1, <1>5
  <2>2. ASSUME NEW id, ClaimedThenDemoted(id) PROVE ClaimedThenDemoted(id)'
    <3>1. PICK i, j \in 1..Len(saves) : i < j /\ saves[i].kind = "claim" /\ saves[j].kind = "demote"
                                        /\ saves[j].old.id = id
      BY <2>2 DEF ClaimedThenDemoted
    <3> DEFINE k == i - 1
               l == j - 1
    <3>2. k \in 1..Len(saves') /\ saves'[k] = saves[i] /\ l \in 1..Len(saves') /\ saves'[l] = saves[j] /\ k < l
      BY <3>1, <2>1
    <3> HIDE DEF k, l
    <3> QED
      BY <3>1, <3>2 DEF ClaimedThenDemoted
  <2>3. ASSUME NEW id, DemotedThenMinted(id) PROVE DemotedThenMinted(id)'
    <3>1. PICK i, j \in 1..Len(saves) : i < j /\ saves[j].kind = "minted" /\ saves[i].kind = "demote"
                                        /\ saves[i].old.id = id
      BY <2>3 DEF DemotedThenMinted
    <3> DEFINE k == i - 1
               l == j - 1
    <3>2. k \in 1..Len(saves') /\ saves'[k] = saves[i] /\ l \in 1..Len(saves') /\ saves'[l] = saves[j] /\ k < l
      BY <3>1, <2>1
    <3> HIDE DEF k, l
    <3> QED
      BY <3>1, <3>2 DEF DemotedThenMinted
  <2> QED
    BY <2>2, <2>3
<1>16. \A t \in runner : Doomed(t) => Doomed(t)'
  BY <1>14, <1>15 DEF Doomed
<1>17. \A i \in 1..Len(saves') : i + 1 \in 1..Len(saves) /\ BeforeClaim(i + 1) => BeforeClaim(i)'
  <2> SUFFICES ASSUME NEW i \in 1..Len(saves'), i + 1 \in 1..Len(saves), BeforeClaim(i + 1),
                      NEW j \in 1..Len(saves'), saves'[j].kind = "claim"
               PROVE  i < j
    BY DEF BeforeClaim
  <2>1. j + 1 \in 1..Len(saves) /\ saves'[j] = saves[j + 1]
    BY <1>5
  <2>2. i + 1 < j + 1
    BY <2>1 DEF BeforeClaim
  <2> QED
    BY <2>2, <1>5
<1>21. Shapes'
  <2>1. minted' \in 0..MaxIds /\ rows' \subseteq Entries /\ removals' \subseteq Departures
    BY <1>1, <1>3, <1>8, <1>9 DEF Shapes
  <2> QED
    BY <2>1, <1>5 DEF Shapes
<1>22. Numbers'
  <2>1. \A q \in Known' : q.id <= minted' /\ q.off <= q.len
    BY <1>1, <1>4, <1>11, <1>12
  <2>2. \A q \in disk' : q.id <= minted' /\ q.off <= q.len
    BY <1>9, <1>11 DEF Known
  <2>3. gone' \subseteq 1..minted' /\ told' \subseteq 1..minted'
    BY <1>9, <1>11 DEF Numbers
  <2> QED
    BY <2>1, <2>2, <2>3, <1>11 DEF Numbers
<1>23. Phases'
  BY <1>9 DEF Phases
<1>24. Awaits'
  <2>1. "drop" \notin Awaited /\ "request" \notin Awaited
    BY DEF Awaited
  <2>2. \A i \in 1..Len(saves') : saves'[i].kind \in Awaited =>
          i + 1 \in 1..Len(saves) /\ saves'[i] = saves[i + 1]
    BY <2>1, <1>5
  <2>3. \A i, j \in 1..Len(saves') : i + 1 = j + 1 => i = j
    BY <1>5
  <2>4. \A i, j \in 1..Len(saves') :
       saves'[i].kind \in Awaited /\ saves'[j].kind \in Awaited => i = j
    BY <2>2, <2>3 DEF Awaits
  <2>5. \A t \in runner : t.at \in Awaited => Queued(t.at, t.id)'
    BY <2>1, <1>14 DEF Awaits
  <2> QED
    BY <2>2, <2>4, <2>5 DEF Awaits
<1>25. Leaving'
  <2>1. \A i \in 1..Len(saves') : i + 1 # 1
    <3>1. Len(saves') \in Nat
      BY <1>5
    <3> QED
      BY <3>1
  <2>2. \A i \in 1..Len(saves') : saves'[i].kind \in {"mark", "drop"} =>
          /\ i + 1 \in 1..Len(saves) /\ saves'[i] = saves[i + 1] /\ saves'[i].old.id # id0
    <3> SUFFICES ASSUME NEW i \in 1..Len(saves'), saves'[i].kind \in {"mark", "drop"}
                 PROVE  i + 1 \in 1..Len(saves) /\ saves'[i] = saves[i + 1] /\ saves'[i].old.id # id0
      OBVIOUS
    <3>1. i + 1 \in 1..Len(saves) /\ saves'[i] = saves[i + 1]
      BY <1>5
    <3>2. i + 1 # 1
      BY <2>1
    <3> QED
      BY <3>1, <3>2, <1>5, <1>9 DEF Leaving
  <2>3. /\ \A z \in removals' : z.row.id = z.id
        /\ \A z, w \in removals' : z.id = w.id \/ z.row.rec = w.row.rec => z = w
    BY <1>9 DEF Leaving
  <2>4. \A i \in 1..Len(saves') : saves'[i].kind \in {"mark", "drop"} =>
          \E z \in removals' : z.id = saves'[i].old.id /\ z.at = saves'[i].kind
    BY <2>2, <1>9 DEF Leaving
  <2>5. \A i, j \in 1..Len(saves') :
          /\ saves'[i].kind \in {"mark", "drop"} /\ saves'[j].kind \in {"mark", "drop"}
          /\ saves'[i].old.id = saves'[j].old.id
          => i = j
    <3>1. \A i, j \in 1..Len(saves') : i + 1 = j + 1 => i = j
      BY <1>5
    <3> QED
      BY <3>1, <2>2 DEF Leaving
  <2> QED
    BY <2>3, <2>4, <2>5 DEF Leaving
<1>26. Removing'
  <2>1. \A x \in removals' : x \in removals /\ x.id # id0 /\ x.row.rec # rec0
    BY <1>6, <1>7, <1>9 DEF Leaving
  <2>2. ASSUME NEW x \in removals, NEW r \in rows, r.id = x.id PROVE r.state = "removing"
    <3>1. x.row \in Known /\ r \in Known /\ x.row.id = r.id
      BY <2>2 DEF Known, Leaving
    <3>2. r.rec = x.row.rec
      BY <3>1 DEF Owners
    <3> QED
      BY <3>2 DEF Removing
  <2>3. \A x \in removals', r \in rows' : r.rec = x.row.rec =>
          r.id = x.id /\ r.state = "removing" /\ x.at # "drop"
    BY <2>1, <1>4, <1>8 DEF Removing
  <2>4. \A r \in rows' : r.state = "removing" => \E x \in removals' : x.id = r.id
    BY <1>4, <1>8, <1>9, <1>10 DEF Removing
  <2>5. \A x \in removals', t \in runner : t.id = x.id => x.waits /\ x.at # "drop"
    BY <2>1 DEF Removing
  <2> QED
    BY <2>1, <2>2, <2>3, <2>4, <2>5, <1>9 DEF Removing
<1>27. Owners'
  BY <1>4, <1>11, <1>12 DEF Owners
<1>28. Ledgers'
  <2>1. \A r \in rows : r.id # row.id /\ r.rec # row.rec
    BY <1>4, <1>10, <1>11 DEF Known
  <2> QED
    BY <2>1, <1>8, <1>9 DEF Ledgers, Unique, Storable
<1>29. Picked'
  <2>1. \A r \in pump : r.id # row.id /\ r.rec # row.rec
    BY <1>4, <1>10, <1>11 DEF Known
  <2> QED
    BY <2>1, <1>8, <1>9 DEF Picked
<1>30. Agreed'
  BY <1>4, <1>12, <1>13 DEF Agreed
<1>31. Forgotten'
  <2>1. row.id \notin gone /\ row.id # id0
    BY <1>1, <1>4, <1>11
  <2> QED
    BY <2>1, <1>8, <1>9, <1>10 DEF Forgotten, IdsOf
<1>32. Attended'
  <2>1. ASSUME NEW t \in runner, NEW q \in rows, Fits(q, t) PROVE Fits(q, t)'
    BY <2>1, <1>14, <1>16 DEF Fits
  <2>2. \A t \in runner : t.id # row.id
    BY <1>4, <1>11
  <2> QED
    BY <2>1, <2>2, <1>4, <1>8 DEF Attended, IdsOf
<1>33. Restored'
  <2>1. \A t \in runner : t.id # row.id
    BY <1>4, <1>11
  <2>2. ASSUME NEW i \in 1..Len(saves'), i + 1 \in 1..Len(saves), saves'[i] = saves[i + 1]
        PROVE  /\ saves'[i].kind = "request" => \A t \in runner : t.id = saves'[i].old.id =>
                    t.at = "claim" /\ BeforeClaim(i)'
               /\ saves'[i].kind = "retry" =>
                    /\ saves'[i].old.state = "failed_with_retry"
                    /\ \A t \in runner : t.id = saves'[i].old.id =>
                         \/ t.at = "fail" \/ Doomed(t)'
                         \/ t.at = "claim" /\ BeforeClaim(i)'
               /\ saves'[i].kind = "claim" => saves'[i].old.state = "requested"
               /\ saves'[i].kind = "done" => saves'[i].old.state = "transferring"
    <3> DEFINE j == i + 1
    <3>1. j \in 1..Len(saves) /\ saves'[i] = saves[j] /\ (BeforeClaim(j) => BeforeClaim(i)')
      BY <2>2, <1>17
    <3> HIDE DEF j
    <3> QED
      BY SMTT(30), <3>1, <1>16 DEF Restored
  <2> QED
    BY SMTT(30), <2>1, <2>2, <1>5 DEF Restored
<1>34. Told'
  <2>1. row.id \notin told
    BY <1>4, <1>11
  <2>2. \A r \in rows' \cup disk' : r.id \in told' => r.state \in {"available", "removing"}
    BY <2>1, <1>8, <1>9 DEF Told
  <2>3. \A i \in 1..Len(saves') : saves'[i].kind = "request" => saves'[i].old.id \notin told'
    BY <2>1, <1>5, <1>9 DEF Told
  <2>4. (\A r \in pump' : r.id \notin told') /\ (\A t \in runner' : t.id \notin told')
    BY <1>9 DEF Told
  <2> QED
    BY <2>2, <2>3, <2>4 DEF Told
<1>35. Waiting'
  <2>1. joins => Queued("request", row.id)'
    BY <1>5 DEF Queued
  <2> QED
    BY <2>1, <1>8, <1>14 DEF Waiting
<1> QED
  BY <1>21, <1>22, <1>23, <1>24, <1>25, <1>26, <1>27, <1>28, <1>29, <1>30, <1>31, <1>32, <1>33, <1>34, <1>35

\* A request or a checkpoint that could not be committed.
LEMMA RefusedPlain ==
  ASSUME LInv, saves # <<>>, Head(saves).kind \in {"request", "checkpoint"}, saves' = Tail(saves),
         rows' = IF Head(saves).kind = "request" THEN Without(rows, Head(saves).old.id) ELSE rows,
         UNCHANGED <<phase, net, disk, mark, pump, runner, removals, minted, gone, told>>
  PROVE  LInv'
<1> USE DEF LInv
<1> DEFINE kind == Head(saves).kind
           id0 == Head(saves).old.id
<1>1. /\ \A k, id : Queued(k, id) <=> Queued(k, id)' \/ (k = kind /\ id = id0)
      /\ \A id : ClaimedThenDemoted(id) => ClaimedThenDemoted(id)'
      /\ \A id : DemotedThenMinted(id) => DemotedThenMinted(id)'
      /\ \A i \in 1..Len(saves') : saves'[i] = saves[i + 1] /\ i + 1 \in 1..Len(saves)
      /\ saves' \in Seq(Commits) /\ Len(saves') \in Nat /\ 1 \in 1..Len(saves) /\ Head(saves) = saves[1]
      /\ Olds' \subseteq Olds
  BY Served
<1>2. /\ \A q \in rows' : q \in rows /\ (kind = "request" => q.id # id0)
      /\ \A q \in rows : q \in rows' \/ (kind = "request" /\ q.id = id0)
  BY DEF Without
<1>3. kind \notin Awaited /\ kind \notin {"claim", "retry", "mark", "drop"}
  BY DEF Awaited
<1>4. \A t \in runner : Doomed(t) => Doomed(t)'
  BY <1>1, <1>3 DEF Doomed
<1>5. \A t \in runner : kind = "request" /\ t.id = id0 => t.at = "claim"
  BY <1>1 DEF Restored
<1> HIDE DEF kind, id0
<1>6. Known' \subseteq Known /\ Versions' \subseteq Versions
  <2>1. Known' \subseteq Known
    BY <1>1, <1>2 DEF Known
  <2>2. ASSUME NEW q \in Versions', q \notin rows' \cup pump' PROVE q \in Versions
    <3>1. PICK i \in 1..Len(saves') : saves'[i].kind \in {"claim", "retry"} /\ q = saves'[i].old
      BY <2>2 DEF Versions
    <3> QED
      BY <3>1, <1>1 DEF Versions
  <2> QED
    BY <2>1, <2>2, <1>2 DEF Versions
<1>11. Shapes'
  BY <1>1, <1>2 DEF Shapes
<1>12. Numbers'
  BY <1>6 DEF Numbers
<1>13. Phases'
  BY DEF Phases
<1>20. \A i, j \in 1..Len(saves') : i + 1 = j + 1 => i = j
  BY <1>1
<1>14. Awaits'
  BY <1>20, <1>1, <1>3 DEF Awaits
<1>15. Leaving'
  BY <1>20, <1>1 DEF Leaving
<1>16. Removing'
  BY <1>2 DEF Removing
<1>17. Owners'
  BY <1>6 DEF Owners
<1>18. Ledgers'
  BY <1>2 DEF Ledgers, Unique, Storable
<1>19. Picked'
  BY <1>2 DEF Picked
<1>21. Agreed'
  BY <1>6 DEF Agreed
<1>22. Forgotten'
  BY <1>2 DEF Forgotten, IdsOf
<1>23. Attended'
  <2>1. ASSUME NEW t \in runner, NEW q \in rows, Fits(q, t) PROVE Fits(q, t)'
    <3>1. /\ Queued("demote", t.id) => Queued("demote", t.id)'
          /\ Queued("mark", t.id) => Queued("mark", t.id)'
      BY <1>1 DEF kind
    <3> QED
      BY <2>1, <3>1, <1>4 DEF Fits
  <2> QED
    BY <2>1, <1>2, <1>5 DEF Attended, IdsOf
<1>24. Restored'
  BY <1>4, RestoredOn DEF Restored
<1>25. Told'
  BY <1>1, <1>2 DEF Told
<1>26. Waiting'
  BY <1>1, <1>2, <1>3 DEF Waiting
<1> QED
  BY <1>11, <1>12, <1>13, <1>14, <1>15, <1>16, <1>17, <1>18, <1>19, <1>21, <1>22, <1>23, <1>24, <1>25, <1>26

\* A commit that could not be made puts its row back.
LEMMA Restores ==
  ASSUME LInv, saves # <<>>, Head(saves).kind \in {"retry", "claim", "done"}, saves' = Tail(saves),
         NEW o, o = Head(saves).old,
         NEW r \in rows, r.id = o.id, r.state # "removing",
         rows' = Put(rows, o),
         runner' \subseteq Transfers, \A u \in runner' : \E t \in runner : u.id = t.id,
         \A u, v \in runner' : u = v,
         pump' = pump \/ (runner' = {} /\ phase = "up" /\ \E q \in rows' : q.state = "requested" /\ pump' = {q}),
         pump' # {} => runner' = {},
         Forgotten',
         UNCHANGED <<phase, net, disk, mark, removals, minted, gone, told>>
  PROVE  /\ Shapes' /\ Numbers' /\ Phases' /\ Leaving' /\ Removing' /\ Owners' /\ Ledgers'
         /\ Picked' /\ Agreed'
<1> USE DEF LInv
<1> DEFINE kind == Head(saves).kind
<1>1. /\ \A i \in 1..Len(saves') : saves'[i] = saves[i + 1] /\ i + 1 \in 1..Len(saves)
      /\ saves' \in Seq(Commits) /\ Len(saves') \in Nat /\ 1 \in 1..Len(saves) /\ saves[1].kind = kind
      /\ Olds' \subseteq Olds /\ o \in Olds /\ saves[1].old = o /\ o \in Entries
  BY Served
<1>2. \A q : q \in rows' <=> q = o \/ (q \in rows /\ q.id # o.id)
  BY Putting
<1>3. /\ o \in Known /\ r \in Known /\ r.rec = o.rec /\ r.id = o.id
      /\ o.state = IF kind = "retry" THEN "failed_with_retry"
                   ELSE IF kind = "claim" THEN "requested" ELSE "transferring"
      /\ kind \in {"retry", "claim", "done"}
  BY <1>1 DEF Known, Owners, Restored
<1>4. kind # "retry" => \E t \in runner : t.at = kind /\ t.id = o.id
  BY <1>1 DEF Awaits, Awaited
<1> HIDE DEF kind
<1>5. Known' \subseteq Known
  <2>1. \A q \in pump' : q \in pump \/ q \in rows'
    OBVIOUS
  <2> QED
    BY <1>1, <1>2, <1>3, <2>1 DEF Known
<1>6. \A q \in Versions' : q \in Versions \/ q = o
  <2>1. ASSUME NEW q \in Versions', q \notin rows' \cup pump' PROVE q \in Versions
    <3>1. PICK i \in 1..Len(saves') : saves'[i].kind \in {"claim", "retry"} /\ q = saves'[i].old
      BY <2>1 DEF Versions
    <3> QED
      BY <3>1, <1>1 DEF Versions
  <2>2. \A q \in pump' : q \in pump \/ q \in rows'
    OBVIOUS
  <2> QED
    BY <2>1, <2>2, <1>2 DEF Versions
<1>7. kind # "done" => o \in Versions
  BY <1>1, <1>3 DEF Versions
<1>8. kind = "done" => \A q \in Versions' : q.id = o.id => q = o
  <2> SUFFICES ASSUME kind = "done", NEW q \in Versions', q.id = o.id PROVE q = o
    OBVIOUS
  <2>1. PICK t \in runner : t.at = "done" /\ t.id = o.id
    BY <1>4
  <2>2. pump = {}
    BY <2>1 DEF Phases
  <2>3. CASE q \in rows'
    BY <2>3, <1>2
  <2>4. CASE q \in pump'
    BY <2>4, <2>2, <1>2
  <2>5. CASE q \notin rows' \cup pump'
    <3>1. PICK i \in 1..Len(saves') : saves'[i].kind \in {"claim", "retry"} /\ q = saves'[i].old
      BY <2>5 DEF Versions
    <3> DEFINE j == i + 1
    <3>2. j \in 1..Len(saves) /\ j # 1 /\ saves[j].kind \in {"claim", "retry"} /\ q = saves[j].old
      BY <3>1, <1>1
    <3> HIDE DEF j
    <3>3. saves[j].kind # "claim"
      BY <3>2, <1>1 DEF Awaits, Awaited
    <3>4. saves[j].kind = "retry" /\ saves[j].old.id = t.id
      BY <3>2, <3>3, <2>1
    <3> QED
      BY <3>2, <3>4, <2>1 DEF Restored, Doomed
  <2> QED
    BY <2>3, <2>4, <2>5
<1>9. phase \notin {"down", "swapped"}
  BY DEF Phases
<1>11. Shapes'
  BY <1>1, <1>2 DEF Shapes
<1>12. Numbers'
  <2>1. \A u \in runner' : u.id <= minted
    BY DEF Numbers
  <2> QED
    BY <1>5, <2>1 DEF Numbers
<1>13. Phases'
  BY <1>9 DEF Phases
<1>14. \A i, j \in 1..Len(saves') : i + 1 = j + 1 => i = j
  BY <1>1
<1>15. Leaving'
  BY <1>14, <1>1 DEF Leaving
<1>16. Removing'
  <2>1. \A x \in removals : x.row.rec # o.rec /\ x.id # o.id
    <3>1. \A x \in removals : x.row.rec # o.rec
      BY <1>3 DEF Removing
    <3>2. ASSUME NEW x \in removals, x.id = o.id PROVE FALSE
      <4>1. x.row \in Known /\ x.row.id = o.id
        BY <3>2 DEF Known, Leaving
      <4> QED
        BY <4>1, <3>1, <1>3 DEF Owners
    <3> QED
      BY <3>1, <3>2
  <2>2. o.state # "removing"
    BY <1>3
  <2>3. \A x \in removals, q \in rows' : q.rec = x.row.rec =>
          q.id = x.id /\ q.state = "removing" /\ x.at # "drop"
    BY <2>1, <1>2 DEF Removing
  <2>4. \A q \in rows' : q.state = "removing" => \E x \in removals : x.id = q.id
    BY <2>2, <1>2 DEF Removing
  <2>5. \A x \in removals, u \in runner' : u.id = x.id => x.waits /\ x.at # "drop"
    BY DEF Removing
  <2> QED
    BY <2>3, <2>4, <2>5 DEF Removing
<1>17. Owners'
  BY <1>5 DEF Owners
<1>18. Ledgers'
  BY <1>3, PutUnique, PutStorable DEF Ledgers, Storable
<1>19. Picked'
  <2>1. CASE pump' = pump
    <3>1. kind # "retry" => pump = {}
      BY <1>4 DEF Phases
    <3> QED
      BY <2>1, <3>1, <1>2, <1>3 DEF Picked
  <2>2. CASE \E q \in rows' : q.state = "requested" /\ pump' = {q}
    BY <2>2, <1>15, <1>16, <1>17, <1>18, FitToPick
  <2> QED
    BY <2>1, <2>2
<1>20. Agreed'
  <2>1. CASE kind = "done"
    BY <2>1, <1>6, <1>8 DEF Agreed
  <2>2. CASE kind # "done"
    BY <2>2, <1>6, <1>7 DEF Agreed
  <2> QED
    BY <2>1, <2>2
<1> QED
  BY <1>11, <1>12, <1>13, <1>15, <1>16, <1>17, <1>18, <1>19, <1>20

\* A retry that could not be committed.
LEMMA RefusedRetry ==
  ASSUME LInv, saves # <<>>, Head(saves).kind = "retry", saves' = Tail(saves),
         NEW o, o = Head(saves).old, NEW r \in rows, r.id = o.id, r.state = "requested",
         rows' = Put(rows, o),
         UNCHANGED <<phase, net, disk, mark, pump, runner, removals, minted, gone, told>>
  PROVE  LInv'
<1> USE DEF LInv
<1>1. /\ \A k, id : Queued(k, id) <=> Queued(k, id)' \/ (k = "retry" /\ id = o.id)
      /\ \A id : ClaimedThenDemoted(id) => ClaimedThenDemoted(id)'
      /\ \A id : DemotedThenMinted(id) => DemotedThenMinted(id)'
      /\ \A i \in 1..Len(saves') : saves'[i] = saves[i + 1] /\ i + 1 \in 1..Len(saves)
      /\ Len(saves') \in Nat /\ 1 \in 1..Len(saves) /\ Head(saves) = saves[1]
  BY Served
<1>2. \A q : q \in rows' <=> q = o \/ (q \in rows /\ q.id # o.id)
  BY Putting
<1>3. o.state = "failed_with_retry"
  BY <1>1 DEF Restored
<1>4. \A t \in runner : Doomed(t) => Doomed(t)'
  BY <1>1 DEF Doomed
<1>5. Forgotten'
  BY <1>2 DEF Forgotten, IdsOf
<1>6. /\ Shapes' /\ Numbers' /\ Phases' /\ Leaving' /\ Removing' /\ Owners' /\ Ledgers'
      /\ Picked' /\ Agreed'
  BY <1>5, Restores DEF Shapes, Phases
<1>7. \A i, j \in 1..Len(saves') : i + 1 = j + 1 => i = j
  BY <1>1
<1>8. Awaits'
  BY <1>1, <1>7 DEF Awaits, Awaited
<1>9. \A t \in runner : t.id = o.id => t.at = "fail" \/ (Doomed(t)' /\ t.at \in {"claim", "mint", "minted", "begin"})
  <2> SUFFICES ASSUME NEW t \in runner, t.id = o.id, t.at # "fail"
               PROVE  Doomed(t)
    BY <1>4 DEF Doomed
  <2>1. Doomed(t) \/ t.at = "claim"
    BY <1>1 DEF Restored
  <2> QED
    BY <2>1 DEF Attended, Fits
<1>10. Attended'
  <2>1. ASSUME NEW t \in runner, NEW q \in rows, Fits(q, t) PROVE Fits(q, t)'
    <3>1. /\ Queued("demote", t.id) => Queued("demote", t.id)'
          /\ Queued("mark", t.id) => Queued("mark", t.id)'
      BY <1>1
    <3> QED
      BY <2>1, <3>1, <1>4 DEF Fits
  <2>2. \A t \in runner : t.id = o.id => Fits(o, t)'
    BY <1>3, <1>9 DEF Fits
  <2>3. \A q \in rows' : q.state = "transferring" => q \in rows
    BY <1>2, <1>3
  <2>4. \A id \in IdsOf(rows) : id \in IdsOf(rows')
    BY <1>2 DEF IdsOf
  <2> QED
    BY <2>1, <2>2, <2>3, <2>4, <1>2 DEF Attended
<1>11. Restored'
  BY <1>4, RestoredOn DEF Restored
<1>12. Told'
  <2>1. o.id \notin told
    BY DEF Told
  <2> QED
    BY <2>1, <1>1, <1>2 DEF Told
<1>13. Waiting'
  BY <1>1, <1>2, <1>3 DEF Waiting
<1> QED
  BY <1>5, <1>6, <1>8, <1>10, <1>11, <1>12, <1>13

\* A claim that could not be committed: its runner ends.
LEMMA RefusedClaim ==
  ASSUME LInv, saves # <<>>, Head(saves).kind = "claim", saves' = Tail(saves),
         NEW o, o = Head(saves).old, NEW r \in rows, r.id = o.id, r.state = "transferring",
         rows' = Put(rows, o), runner' = {}, pump' \in Picks(rows', {}),
         UNCHANGED <<phase, net, disk, mark, removals, minted, gone, told>>
  PROVE  LInv'
<1> USE DEF LInv
<1>1. /\ \A i \in 1..Len(saves') : saves'[i] = saves[i + 1] /\ i + 1 \in 1..Len(saves)
      /\ Len(saves') \in Nat /\ 1 \in 1..Len(saves) /\ Head(saves) = saves[1]
  BY Served
<1>2. \A q : q \in rows' <=> q = o \/ (q \in rows /\ q.id # o.id)
  BY Putting
<1>3. o.state = "requested"
  BY <1>1 DEF Restored
<1>4. PICK t \in runner : t.at = "claim" /\ t.id = o.id
  BY <1>1 DEF Awaits, Awaited
<1>5. runner = {t} /\ pump = {} /\ phase \notin {"down", "swapped"}
  BY <1>4, OneRuns
<1>6. /\ pump' = {} \/ (phase = "up" /\ \E q \in rows' : q.state = "requested" /\ pump' = {q})
      /\ \A q \in rows' : phase = "up" /\ q.state = "requested" => pump' # {}
  BY <1>5, Picking DEF Shapes
<1>7. Forgotten'
  BY <1>2, <1>6 DEF Forgotten, IdsOf
<1>8. /\ Shapes' /\ Numbers' /\ Phases' /\ Leaving' /\ Removing' /\ Owners' /\ Ledgers'
      /\ Picked' /\ Agreed'
  BY <1>5, <1>6, <1>7, Restores DEF Shapes, Phases
<1>9. \A i \in 1..Len(saves') : saves'[i].kind \notin Awaited
  <2>1. ASSUME NEW i \in 1..Len(saves'), saves'[i].kind \in Awaited PROVE i + 1 = 1
    BY <2>1, <1>1 DEF Awaits, Awaited
  <2> QED
    BY <2>1, <1>1
<1>10. Awaits'
  BY <1>9 DEF Awaits
<1>11. Attended'
  BY <1>2, <1>3, <1>4, <1>5 DEF Attended
<1>12. Restored'
  BY RestoredOn DEF Restored
<1>13. Told'
  <2>1. o.id \notin told
    BY DEF Told
  <2>2. \A q \in pump' : q \in rows' /\ q.state = "requested"
    BY <1>6
  <2>3. \A q \in rows' : q.id \in told => q.state \in {"available", "removing"}
    BY <2>1, <1>2 DEF Told
  <2> QED
    BY <2>2, <2>3, <1>1 DEF Told
<1>14. Waiting'
  BY <1>6 DEF Waiting
<1> QED
  BY <1>7, <1>8, <1>10, <1>11, <1>12, <1>13, <1>14

\* The ledger could not record a finished file: the runner reclaims it.
LEMMA RefusedDone ==
  ASSUME LInv, saves # <<>>, Head(saves).kind = "done", saves' = Tail(saves),
         NEW o, o = Head(saves).old, NEW r \in rows, r.id = o.id, r.state = "available",
         rows' = Put(rows, o), runner' = {AtStep(t, "reclaim") : t \in runner},
         UNCHANGED <<phase, net, disk, mark, pump, removals, minted, gone, told>>
  PROVE  LInv'
<1> USE DEF LInv
<1>1. /\ \A k, id : Queued(k, id) <=> Queued(k, id)' \/ (k = "done" /\ id = o.id)
      /\ \A i \in 1..Len(saves') : saves'[i] = saves[i + 1] /\ i + 1 \in 1..Len(saves)
      /\ Len(saves') \in Nat /\ 1 \in 1..Len(saves) /\ Head(saves) = saves[1]
  BY Served
<1>2. \A q : q \in rows' <=> q = o \/ (q \in rows /\ q.id # o.id)
  BY Putting
<1>3. o.state = "transferring"
  BY <1>1 DEF Restored
<1>4. PICK t \in runner : t.at = "done" /\ t.id = o.id
  BY <1>1 DEF Awaits, Awaited
<1>5. runner = {t} /\ pump = {} /\ phase \notin {"down", "swapped"}
  BY <1>4, OneRuns
<1> DEFINE u == AtStep(t, "reclaim")
<1>6. runner' = {u}
  BY <1>5
<1>7. u \in Transfers /\ u.id = o.id /\ u.at = "reclaim"
  BY <1>4 DEF AtStep, Shapes, Transfers, Stages
<1> HIDE DEF u
<1>8. Forgotten'
  BY <1>2, <1>4, <1>5, <1>6, <1>7 DEF Forgotten, IdsOf
<1>9. /\ Shapes' /\ Numbers' /\ Phases' /\ Leaving' /\ Removing' /\ Owners' /\ Ledgers'
      /\ Picked' /\ Agreed'
  BY <1>4, <1>5, <1>6, <1>7, <1>8, Restores
<1>10. \A i \in 1..Len(saves') : saves'[i].kind \notin Awaited
  <2>1. ASSUME NEW i \in 1..Len(saves'), saves'[i].kind \in Awaited PROVE i + 1 = 1
    BY <2>1, <1>1 DEF Awaits, Awaited
  <2> QED
    BY <2>1, <1>1
<1>11. Awaits'
  BY <1>6, <1>7, <1>10 DEF Awaits, Awaited
<1>12. Attended'
  <2>1. Fits(o, u)'
    BY <1>3, <1>7 DEF Fits
  <2>2. \A q \in rows : q.state = "transferring" => q.id = o.id
    BY <1>4, <1>5 DEF Attended
  <2>3. o.id \in IdsOf(rows')
    BY <1>2 DEF IdsOf
  <2> QED
    BY <2>1, <2>2, <2>3, <1>2, <1>6, <1>7 DEF Attended
<1>13. Restored'
  <2>1. \A i \in 1..Len(saves') : saves'[i].kind \in {"request", "retry"} => saves'[i].old.id # o.id
    BY <1>4, RestoredOn DEF Doomed
  <2>2. \A i \in 1..Len(saves') :
          /\ saves'[i].kind = "retry" => saves'[i].old.state = "failed_with_retry"
          /\ saves'[i].kind = "claim" => saves'[i].old.state = "requested"
          /\ saves'[i].kind = "done" => saves'[i].old.state = "transferring"
    BY RestoredOn
  <2>3. \A i \in 1..Len(saves') : saves'[i].kind \in {"request", "retry"} =>
          \A v \in runner' : v.id # saves'[i].old.id
    BY <2>1, <1>6, <1>7
  <2> QED
    BY SMTT(30), <2>2, <2>3 DEF Restored
<1>14. Told'
  <2>1. o.id \notin told
    BY <1>4 DEF Told
  <2>2. \A q \in rows' \cup disk' : q.id \in told' => q.state \in {"available", "removing"}
    BY <2>1, <1>2 DEF Told
  <2>3. \A v \in runner' : v.id \notin told'
    BY <2>1, <1>6, <1>7
  <2>4. \A i \in 1..Len(saves') : saves'[i].kind = "request" => saves'[i].old.id \notin told'
    BY <1>1 DEF Told
  <2>5. \A q \in pump' : q.id \notin told'
    BY <1>5
  <2> QED
    BY <2>2, <2>3, <2>4, <2>5 DEF Told
<1>15. Waiting'
  BY <1>6 DEF Waiting
<1> QED
  BY <1>8, <1>9, <1>11, <1>12, <1>13, <1>14, <1>15

\* The drop of a removed row could not be committed: the removal ends.
LEMMA RefusedDrop ==
  ASSUME LInv, saves # <<>>, Head(saves).kind = "drop", saves' = Tail(saves),
         removals' = Without(removals, Head(saves).old.id),
         UNCHANGED <<phase, net, rows, disk, mark, pump, runner, minted, gone, told>>
  PROVE  LInv'
<1> USE DEF LInv
<1> DEFINE id0 == Head(saves).old.id
<1>1. /\ \A k, id : Queued(k, id) <=> Queued(k, id)' \/ (k = "drop" /\ id = id0)
      /\ \A id : ClaimedThenDemoted(id) => ClaimedThenDemoted(id)'
      /\ \A id : DemotedThenMinted(id) => DemotedThenMinted(id)'
      /\ \A i \in 1..Len(saves') : saves'[i] = saves[i + 1] /\ i + 1 \in 1..Len(saves)
      /\ saves' \in Seq(Commits) /\ Len(saves') \in Nat /\ 1 \in 1..Len(saves)
      /\ saves[1].kind = "drop" /\ saves[1].old.id = id0
      /\ Olds' \subseteq Olds
  BY Served
<1>2. removals' = {x \in removals : x.id # id0}
  BY DEF Without
<1> HIDE DEF id0
<1>3. PICK x0 \in removals : x0.id = id0 /\ x0.at = "drop"
  BY <1>1 DEF Leaving
<1>4. \A t \in runner : Doomed(t) => Doomed(t)'
  BY <1>1 DEF Doomed
<1>5. \A r \in rows : r.id # id0
  <2> SUFFICES ASSUME NEW r \in rows, r.id = id0 PROVE FALSE
    OBVIOUS
  <2>1. r \in Known /\ x0.row \in Known /\ x0.row.id = id0
    BY <1>3 DEF Known, Leaving
  <2> QED
    BY <2>1, <1>3 DEF Owners, Removing
<1>6. Known' \subseteq Known /\ Versions' \subseteq Versions
  <2>1. Known' \subseteq Known
    BY <1>1, <1>2 DEF Known
  <2>2. ASSUME NEW q \in Versions', q \notin rows' \cup pump' PROVE q \in Versions
    <3>1. PICK i \in 1..Len(saves') : saves'[i].kind \in {"claim", "retry"} /\ q = saves'[i].old
      BY <2>2 DEF Versions
    <3> QED
      BY <3>1, <1>1 DEF Versions
  <2> QED
    BY <2>1, <2>2 DEF Versions
<1>11. Shapes'
  BY <1>1, <1>2 DEF Shapes
<1>12. Numbers'
  BY <1>6 DEF Numbers
<1>13. Phases'
  BY <1>2 DEF Phases
<1>14. \A i, j \in 1..Len(saves') : i + 1 = j + 1 => i = j
  BY <1>1
<1>15. Awaits'
  BY <1>14, <1>1 DEF Awaits, Awaited
<1>16. Leaving'
  <2>1. \A i \in 1..Len(saves') : saves'[i].kind \in {"mark", "drop"} => saves'[i].old.id # id0
    <3> SUFFICES ASSUME NEW i \in 1..Len(saves'), saves'[i].kind \in {"mark", "drop"}, saves'[i].old.id = id0
                 PROVE  FALSE
      OBVIOUS
    <3>1. i + 1 = 1
      BY <1>1 DEF Leaving
    <3> QED
      BY <3>1, <1>1
  <2>2. /\ \A x \in removals' : x.row.id = x.id
        /\ \A x, y \in removals' : x.id = y.id \/ x.row.rec = y.row.rec => x = y
    BY <1>2 DEF Leaving
  <2>3. \A i \in 1..Len(saves') : saves'[i].kind \in {"mark", "drop"} =>
          \E x \in removals' : x.id = saves'[i].old.id /\ x.at = saves'[i].kind
    BY <2>1, <1>1, <1>2 DEF Leaving
  <2>4. \A i, j \in 1..Len(saves') :
          /\ saves'[i].kind \in {"mark", "drop"} /\ saves'[j].kind \in {"mark", "drop"}
          /\ saves'[i].old.id = saves'[j].old.id
          => i = j
    BY <1>1, <1>14 DEF Leaving
  <2> QED
    BY <2>2, <2>3, <2>4 DEF Leaving
<1>17. Removing'
  BY <1>2, <1>5 DEF Removing
<1>18. Owners'
  BY <1>6 DEF Owners
<1>19. Ledgers'
  BY DEF Ledgers, Unique, Storable
<1>20. Picked'
  BY <1>2 DEF Picked
<1>21. Agreed'
  BY <1>6 DEF Agreed
<1>22. Forgotten'
  BY DEF Forgotten, IdsOf
<1>23. Attended'
  <2>1. ASSUME NEW t \in runner, NEW q \in rows, Fits(q, t) PROVE Fits(q, t)'
    <3>1. /\ Queued("demote", t.id) => Queued("demote", t.id)'
          /\ Queued("mark", t.id) => Queued("mark", t.id)'
      BY <1>1
    <3> QED
      BY <2>1, <3>1, <1>4 DEF Fits
  <2> QED
    BY <2>1 DEF Attended, IdsOf
<1>24. Restored'
  BY <1>4, RestoredOn DEF Restored
<1>25. Told'
  BY <1>1 DEF Told
<1>26. Waiting'
  BY <1>1 DEF Waiting
<1> QED
  BY <1>11, <1>12, <1>13, <1>15, <1>16, <1>17, <1>18, <1>19, <1>20, <1>21, <1>22, <1>23, <1>24, <1>25, <1>26

\* A runner that settles without its file.
LEMMA Settles ==
  ASSUME LInv, NEW t \in runner, t.at \in {"mint", "begin", "fetch"}, NEW kind, SettleFailed(t, kind),
         kind = "invalid-response" => ~t.cancelled /\ t.at # "mint",
         UNCHANGED <<phase, net, disk, mark, removals, minted, gone, told>>
  PROVE  LInv'
<1>1. CASE Unowned(t.id)
  <2>1. runner' = {} /\ pump' \in Picks(rows, {}) /\ rows' = rows /\ saves' = saves
    BY <1>1 DEF SettleFailed, End
  <2>2. t.at \notin Awaited
    BY DEF Awaited
  <2> QED
    BY <1>1, <2>1, <2>2, EndsAlone
<1>2. CASE ~Unowned(t.id)
  <2> DEFINE after == At(rows, t.id)
             reset == kind = "invalid-response" /\ t.tries = 0 /\ t.off > 0
  <2>1. /\ rows' = Put(rows, IF reset THEN [after EXCEPT !.off = 0] ELSE In(after, "failed_with_retry"))
        /\ saves' = Queue(IF reset THEN "reset" ELSE "fail", after)
        /\ runner' = {IF reset THEN [t EXCEPT !.at = "reset", !.enc = 0, !.start = 0]
                      ELSE Runner(t.id, "fail")}
        /\ pump' = pump
    BY <1>2 DEF SettleFailed
  <2>2. after \in rows /\ after.id = t.id /\ after.state \notin {"removing", "requested"}
    BY <1>2, Owned DEF LInv, Ledgers
  <2> HIDE DEF after
  <2>3. CASE reset
    BY <2>1, <2>2, <2>3, StartsOver
  <2>4. CASE ~reset
    BY <2>1, <2>2, <2>4, FailsWithRow
  <2> QED
    BY <2>3, <2>4
<1> QED
  BY <1>1, <1>2

\* A commit that lands keeps the invariant of the ledger.
LEMMA CommitLandsKeeps ==
  ASSUME LInv, CommitLands
  PROVE  LInv'
<1> DEFINE kind == Head(saves).kind
           o == Head(saves).old
<1>1. saves # <<>> /\ disk' = rows /\ Landed(kind, o) /\ UNCHANGED <<phase, net, parts, owned>>
  BY DEF CommitLands
<1>2. kind \in Kinds /\ o \in Entries /\ saves[1].kind = kind /\ saves[1].old = o /\ 1 \in 1..Len(saves)
  <2>1. saves \in Seq(Commits) /\ saves # <<>>
    BY <1>1 DEF LInv, Shapes
  <2>2. Head(saves) = saves[1] /\ Head(saves) \in Commits /\ Len(saves) \in Nat \ {0}
    BY <2>1, Leaves
  <2> QED
    BY <2>2 DEF Commits
<1>3. mark \in [Ids -> Sizes] /\ 0 \in Sizes /\ o.off \in Sizes /\ o.id \in Ids
  BY <1>2, Sized DEF LInv, Shapes, Entries
<1>4. kind # "drop" => /\ saves' = Tail(saves) /\ UNCHANGED <<rows, minted, gone>>
                       /\ mark' = CASE kind = "reset" -> [mark EXCEPT ![o.id] = 0]
                                    [] kind = "done"  -> [mark EXCEPT ![o.id] = o.off]
                                    [] OTHER          -> mark
  BY <1>1 DEF Landed
<1>5. kind # "drop" => mark' \in [Ids -> Sizes]
  BY <1>3, <1>4
<1> HIDE DEF kind, o
<1>6. CASE kind \in {"request", "retry", "cancel", "checkpoint"}
  <2>1. runner' = runner /\ removals' = removals /\ told' = told /\ mark' = mark
        /\ pump' \in IF kind \in {"request", "retry"} THEN Picks(rows, runner) ELSE {pump}
    BY <1>1, <1>4, <1>6 DEF Landed
  <2> QED
    BY <2>1, <1>1, <1>4, <1>6, LandsPlain DEF kind
<1>7. CASE kind \in {"claim", "minted", "reset"}
  <2>1. PICK t \in runner : t.at = kind /\ t.id = o.id
    BY <1>2, <1>7 DEF LInv, Awaits, Awaited
  <2>2. runner = {t} /\ t \in Transfers
    BY OneRuns DEF LInv, Shapes
  <2> DEFINE u == IF kind = "claim" THEN AtStep(t, "mint")
                  ELSE IF kind = "minted" THEN AtStep(t, "begin") ELSE Again(t)
  <2>3. runner' = {u} /\ removals' = removals /\ told' = told /\ pump' = pump
    BY <1>1, <1>7, <2>2 DEF Landed
  <2>4. u \in Transfers /\ u.id = t.id /\ u.cancelled = t.cancelled
        /\ u.at = IF kind = "claim" THEN "mint" ELSE "begin"
    BY <1>3, <1>7, <2>2 DEF AtStep, Again, Transfers, Stages
  <2> HIDE DEF u
  <2> QED
    BY <2>1, <2>3, <2>4, <1>1, <1>4, <1>5, <1>7, LandsOnRunner DEF kind
<1>8. CASE kind = "demote"
  <2>1. /\ runner' = {IF t.id = o.id /\ t.at # "claim" THEN Signalled(t) ELSE t : t \in runner}
        /\ removals' = removals /\ told' = told /\ pump' = pump /\ mark' = mark
    BY <1>1, <1>4, <1>8 DEF Landed
  <2> QED
    BY <2>1, <1>1, <1>4, <1>8, LandsDemote DEF kind, o
<1>9. CASE kind = "mark"
  <2>1. /\ runner' = {IF t.id = o.id /\ At(removals, o.id).waits THEN Signalled(t) ELSE t : t \in runner}
        /\ removals' = Put(removals, [At(removals, o.id) EXCEPT !.at = "delete"])
        /\ told' = told /\ pump' = pump /\ mark' = mark
    BY <1>1, <1>4, <1>9 DEF Landed
  <2> QED
    BY <2>1, <1>1, <1>4, <1>9, LandsMark DEF kind, o
<1>10. CASE kind \in {"fail", "done"}
  <2>1. /\ runner' = {} /\ pump' \in Picks(rows, runner') /\ removals' = removals
        /\ told' = IF kind = "done" THEN told \cup {o.id} ELSE told
    BY <1>1, <1>10 DEF Landed
  <2> QED
    BY <2>1, <1>1, <1>4, <1>5, <1>10, LandsLast DEF kind, o
<1>11. CASE kind = "drop"
  <2> DEFINE joins == At(removals, o.id).replacing /\ minted < MaxIds
             row == Row(minted + 1, o.rec, "requested", 0, 0)
  <2>1. /\ runner' = runner /\ pump' = pump /\ removals' = Without(removals, o.id)
        /\ gone' = gone \cup {o.id} /\ told' = told \ {o.id}
    BY <1>1, <1>11 DEF Landed
  <2>2. IF joins
        THEN /\ NewRow(o.rec)
             /\ saves' = Append(Tail(saves), [kind |-> "request", old |-> CHOOSE r \in rows' : r.id = minted'])
        ELSE /\ mark' = mark
             /\ saves' = Tail(saves)
             /\ UNCHANGED <<rows, minted>>
    BY <1>1, <1>11 DEF Landed
  <2>3. joins => minted < MaxIds
    OBVIOUS
  <2>4. row = Row(minted + 1, o.rec, "requested", 0, 0) /\ row.id = minted + 1
    BY DEF Row
  <2> HIDE DEF joins, row
  <2>5. joins => /\ rows' = rows \cup {row} /\ minted' = minted + 1
                 /\ mark' = [mark EXCEPT ![minted + 1] = 0]
    BY <2>2, <2>4 DEF NewRow
  <2>6. minted + 1 \notin IdsOf(rows) /\ minted \in Nat
    BY KnownRows DEF LInv, Numbers, Known, IdsOf, Shapes
  <2>7. joins => (CHOOSE r \in rows' : r.id = minted') = row
    BY <2>4, <2>5, <2>6 DEF IdsOf
  <2>8. mark' \in [Ids -> Sizes]
    BY <2>2, <2>5, <1>3
  <2>9. /\ saves' = IF joins THEN Append(Tail(saves), [kind |-> "request", old |-> row]) ELSE Tail(saves)
        /\ rows' = IF joins THEN rows \cup {row} ELSE rows
        /\ minted' = IF joins THEN minted + 1 ELSE minted
    BY <2>2, <2>5, <2>7
  <2>10. joins \in BOOLEAN
    BY DEF joins
  <2> QED
    BY <2>1, <2>3, <2>4, <2>8, <2>9, <2>10, <1>1, <1>11, LandsDrop DEF kind, o
<1> QED
  BY <1>2, <1>6, <1>7, <1>8, <1>9, <1>10, <1>11 DEF Kinds

\* So does a commit that fails.
LEMMA CommitFailsKeeps ==
  ASSUME LInv, Reliable, CommitFails
  PROVE  LInv' /\ Head(saves).kind \in Mild /\ phase' = phase
<1> DEFINE kind == Head(saves).kind
           o == Head(saves).old
<1>1. /\ saves # <<>> /\ Refused(kind, o) /\ ~Overtaken(kind, o)
      /\ UNCHANGED <<phase, net, disk, parts, owned>> /\ kind \in Mild
  <2>1. /\ saves # <<>> /\ Refused(kind, o) /\ ~Overtaken(kind, o) /\ kind \in Mild
        /\ phase' = (IF StopRefused THEN "halted" ELSE phase) /\ UNCHANGED <<net, disk, parts, owned>>
    BY DEF CommitFails, Reliable, LInv, Ledgers
  <2>2. ~StopRefused
    BY <2>1 DEF StopRefused, Mild
  <2> QED
    BY <2>1, <2>2
<1>2. o \in Entries /\ saves[1].kind = kind /\ saves[1].old = o /\ 1 \in 1..Len(saves)
  <2>1. saves \in Seq(Commits) /\ saves # <<>>
    BY <1>1 DEF LInv, Shapes
  <2>2. Head(saves) = saves[1] /\ Head(saves) \in Commits /\ Len(saves) \in Nat \ {0}
    BY <2>1, Leaves
  <2> QED
    BY <2>2 DEF Commits
<1>3. saves' = Tail(saves) /\ UNCHANGED <<mark, minted, gone, told>>
  BY <1>1 DEF Refused
<1> HIDE DEF kind, o
<1>4. CASE kind \in {"request", "checkpoint"}
  <2>1. runner' = runner /\ pump' = pump /\ removals' = removals
        /\ rows' = IF kind = "request" THEN Without(rows, o.id) ELSE rows
    BY <1>1, <1>4 DEF Refused
  <2> QED
    BY <2>1, <1>1, <1>3, <1>4, RefusedPlain DEF kind, o
<1>5. CASE kind \in {"retry", "claim", "done"}
  <2> DEFINE s == IF kind = "retry" THEN "requested" ELSE IF kind = "claim" THEN "transferring" ELSE "available"
  <2>1. PICK r \in rows : r.id = o.id /\ r.state = s
    <3> DEFINE wrote == [claim |-> "transferring", retry |-> "requested", done |-> "available"]
               pairs == {[id |-> r.id, state |-> r.state] : r \in rows}
    <3>1. kind \in DOMAIN wrote /\ wrote[kind] = s
      BY <1>5
    <3>2. ~(kind \in DOMAIN wrote /\ [id |-> o.id, state |-> wrote[kind]] \notin pairs)
      BY <1>1 DEF Overtaken
    <3>3. [id |-> o.id, state |-> s] \in pairs
      BY <3>1, <3>2
    <3>4. PICK r \in rows : [id |-> o.id, state |-> s] = [id |-> r.id, state |-> r.state]
      BY <3>3
    <3> QED
      BY <3>4
  <2>2. rows' = Put(rows, o) /\ removals' = removals
    BY <1>1, <1>5 DEF Refused
  <2>3. CASE kind = "retry"
    <3>1. runner' = runner /\ pump' = pump
      BY <1>1, <2>3 DEF Refused
    <3> QED
      BY <3>1, <1>1, <1>3, <2>1, <2>2, <2>3, RefusedRetry DEF kind, o
  <2>4. CASE kind = "claim"
    <3>1. runner' = {} /\ pump' \in Picks(rows', {})
      BY <1>1, <2>4 DEF Refused, End
    <3> QED
      BY <3>1, <1>1, <1>3, <2>1, <2>2, <2>4, RefusedClaim DEF kind, o
  <2>5. CASE kind = "done"
    <3>1. runner' = {AtStep(t, "reclaim") : t \in runner} /\ pump' = pump
      BY <1>1, <2>5 DEF Refused
    <3> QED
      BY <3>1, <1>1, <1>3, <2>1, <2>2, <2>5, RefusedDone DEF kind, o
  <2> QED
    BY <1>1, <1>5, <2>3, <2>4, <2>5 DEF kind
<1>6. CASE kind = "drop"
  <2>1. runner' = runner /\ pump' = pump /\ rows' = rows /\ removals' = Without(removals, o.id)
    BY <1>1, <1>6 DEF Refused
  <2> QED
    BY <2>1, <1>1, <1>3, <1>6, RefusedDrop DEF kind, o
<1> QED
  BY <1>1, <1>4, <1>5, <1>6 DEF Mild, kind

\* The scheduling steps and the life cycle keep the invariant of the ledger.
LEMMA PumpAnswerKeeps ==
  ASSUME LInv, PumpAnswer
  PROVE  LInv'
<1>1. CASE ~net
  <2>1. pump' = {} /\ UNCHANGED <<phase, net, rows, disk, mark, runner, removals, saves, minted, gone, told>>
    BY <1>1 DEF PumpAnswer
  <2>2. runner = {} /\ net' \in BOOLEAN
    BY <2>1 DEF PumpAnswer, LInv, Phases, Shapes
  <2>3. Waiting'
    BY <1>1, <2>1 DEF Waiting
  <2> QED
    BY <2>1, <2>2, <2>3, Idles
<1>2. CASE net
  <2>1. PICK r \in pump : rows' = Put(rows, In(r, "transferring")) /\ saves' = Queue("claim", r)
                          /\ runner' = {Runner(r.id, "claim")}
    BY <1>2 DEF PumpAnswer
  <2> QED
    BY <2>1, Claims DEF PumpAnswer
<1> QED
  BY <1>1, <1>2

\* The demotion of the transfer under way keeps the invariant of the ledger.
LEMMA DemoteKeeps ==
  ASSUME LInv, Demote, pump = {}, phase' = phase \/ (phase' \in {"demoting", "stopping"} /\ phase \notin {"down", "swapped"}),
         net' \in BOOLEAN, net' = FALSE \/ phase' \in {"demoting", "stopping"},
         UNCHANGED <<disk, mark, pump, removals, minted, gone, told>>
  PROVE  LInv'
<1>1. CASE runner = {}
  <2>1. UNCHANGED <<rows, saves, runner>>
    BY <1>1 DEF Demote
  <2>2. Waiting'
    BY DEF Waiting
  <2> QED
    BY <1>1, <2>1, <2>2, Idles
<1>2. CASE runner # {}
  <2>1. PICK t \in runner :
          IF t.id \in IdsOf(rows) /\ At(rows, t.id).state = "transferring"
          THEN /\ Room
               /\ rows' = Put(rows, In(At(rows, t.id), "requested"))
               /\ saves' = Queue("demote", At(rows, t.id))
               /\ UNCHANGED runner
          ELSE runner' = {[t EXCEPT !.cancelled = TRUE]} /\ UNCHANGED <<rows, saves>>
    BY <1>2 DEF Demote
  <2>2. CASE t.id \in IdsOf(rows) /\ At(rows, t.id).state = "transferring"
    <3> DEFINE r == At(rows, t.id)
    <3>1. r \in rows /\ r.id = t.id /\ r.state = "transferring"
      BY <2>2, SomeRow
    <3>2. rows' = Put(rows, In(r, "requested")) /\ saves' = Queue("demote", r) /\ runner' = runner
      BY <2>1, <2>2
    <3> HIDE DEF r
    <3> QED
      BY <3>1, <3>2, PutBack
  <2>3. CASE ~(t.id \in IdsOf(rows) /\ At(rows, t.id).state = "transferring")
    <3> DEFINE u == [t EXCEPT !.cancelled = TRUE]
    <3>1. runner' = {u} /\ UNCHANGED <<rows, saves>>
      BY <2>1, <2>3
    <3>2. u \in Transfers /\ u.id = t.id /\ u.at = t.at /\ u.cancelled
      BY DEF LInv, Shapes, Transfers
    <3> HIDE DEF u
    <3> QED
      BY <3>1, <3>2, GoesOn
  <2> QED
    BY <2>2, <2>3
<1> QED
  BY <1>1, <1>2

\* So do the edges of the network and the two halves of a stop.
LEMMA EdgesKeep ==
  ASSUME LInv, Reliable, GoesIneligible \/ GoesEligible \/ Stop \/ Stopped
  PROVE  LInv'
<1>1. CASE GoesIneligible
  <2>1. pump = {} /\ net' = FALSE /\ UNCHANGED <<phase, disk, mark, pump, removals, minted, gone, told>>
    BY <1>1 DEF GoesIneligible, Quiet, Reliable
  <2>2. CASE phase = "up"
    BY <1>1, <2>1, <2>2, DemoteKeeps DEF GoesIneligible
  <2>3. CASE phase # "up"
    <3>1. UNCHANGED <<rows, saves, runner>>
      BY <1>1, <2>3 DEF GoesIneligible
    <3>2. Waiting'
      BY <2>1 DEF Waiting
    <3> QED
      BY <2>1, <3>1, <3>2, Idles
  <2> QED
    BY <2>2, <2>3
<1>2. CASE GoesEligible
  <2>1. net' = TRUE /\ UNCHANGED <<phase, rows, disk, mark, runner, removals, saves, minted, gone, told>>
        /\ pump = {}
    BY <1>2 DEF GoesEligible, Quiet, Reliable
  <2>2. CASE phase = "up"
    <3>1. pump' \in Picks(rows, runner)
      BY <1>2, <2>2 DEF GoesEligible
    <3>2. /\ \/ pump' = pump
             \/ /\ runner = {}
                /\ \E r \in rows : r.state = "requested" /\ pump' = {r}
          /\ \A r \in rows : runner = {} /\ r.state = "requested" => pump' # {}
      BY <3>1, <2>2, Picking
    <3>3. Waiting'
      BY <2>1, <3>2 DEF Waiting
    <3>4. pump' \in {{}, pump} \/ \E r \in rows : r.state = "requested" /\ pump' = {r}
      BY <3>2
    <3> QED
      BY <2>1, <2>2, <3>2, <3>3, <3>4, Idles
  <2>3. CASE phase # "up"
    <3>1. pump' = pump
      BY <1>2, <2>3 DEF GoesEligible
    <3>2. Waiting'
      BY <2>1, <2>3 DEF Waiting
    <3> QED
      BY <2>1, <3>1, <3>2, Idles
  <2> QED
    BY <2>2, <2>3
<1>3. CASE Stop
  <2>1. /\ pump = {} /\ phase \notin {"down", "swapped"} /\ phase' \in {"demoting", "stopping"} /\ Demote
        /\ UNCHANGED <<net, disk, mark, pump, removals, minted, gone, told>>
    BY <1>3 DEF Stop, Quiet, Reliable
  <2>2. net' \in BOOLEAN
    BY <2>1 DEF LInv, Shapes
  <2> QED
    BY <2>1, <2>2, DemoteKeeps
<1>4. CASE Stopped
  <2>1. /\ phase \in {"demoting", "stopping"} /\ phase' = "stopped" /\ runner = {}
        /\ UNCHANGED <<net, rows, disk, mark, pump, runner, removals, saves, minted, gone, told>>
    BY <1>4 DEF Stopped
  <2>2. pump' = {} /\ net' \in BOOLEAN
    BY <2>1 DEF LInv, Phases, Shapes
  <2>3. Waiting'
    BY <2>1 DEF Waiting
  <2> QED
    BY <2>1, <2>2, <2>3, Idles
<1> QED
  BY <1>1, <1>2, <1>3, <1>4

\* An import keeps the invariant of the ledger: nothing is under way, and every
\* row of the ledger that it replaces is gone.
LEMMA ImportKeeps ==
  ASSUME LInv, Reliable, Import
  PROVE  LInv'
<1> USE DEF LInv
<1>1. /\ phase' = "swapped" /\ disk' = {} /\ rows' = rows /\ gone' = gone \cup IdsOf(rows)
      /\ runner = {} /\ pump = {} /\ saves = <<>> /\ Len(saves) = 0 /\ removals = {}
      /\ told' = told \ IdsOf(rows)
      /\ UNCHANGED <<net, mark, pump, runner, removals, saves, minted>>
  BY DEF Import, Quiesced, Reliable, Phases
<1>2. Known' = rows /\ Versions' = rows /\ rows \subseteq Known /\ rows \subseteq Versions
  BY <1>1 DEF Known, Versions, Olds
<1>3. Shapes' /\ Phases'
  BY <1>1 DEF Shapes, Phases
<1>4. Numbers'
  <2>1. \A id \in IdsOf(rows) : id \in 1..minted
    BY <1>2, KnownRows DEF Numbers, Ids, IdsOf, Shapes
  <2> QED
    BY <2>1, <1>1, <1>2 DEF Numbers
<1>5. Awaits' /\ Leaving' /\ Restored'
  BY <1>1 DEF Awaits, Leaving, Restored
<1>6. Removing'
  BY <1>1 DEF Removing
<1>7. Owners' /\ Agreed'
  BY <1>2 DEF Owners, Agreed
<1>8. Ledgers'
  BY <1>1 DEF Ledgers, Unique, Storable
<1>9. Picked' /\ Waiting'
  BY <1>1 DEF Picked, Waiting
<1>10. Forgotten'
  BY <1>1 DEF Forgotten, IdsOf
<1>11. Attended'
  BY <1>1 DEF Attended
<1>12. Told'
  BY <1>1 DEF Told
<1> QED
  BY <1>3, <1>4, <1>5, <1>6, <1>7, <1>8, <1>9, <1>10, <1>11, <1>12

\* So do the commands.
LEMMA CommandsKeep ==
  ASSUME LInv, Reliable,
         \/ \E rec \in Recordings : Request(rec)
         \/ \E row \in rows : Retry(row) \/ Cancel(row) \/ Remove(row) \/ Replace(row)
         \/ \E x \in removals : DeleteFiles(x)
  PROVE  LInv'
<1>1. ASSUME NEW rec \in Recordings, Request(rec) PROVE LInv'
  BY <1>1, Requested DEF Request, Running, Quiet, Reliable
<1>2. ASSUME NEW r \in rows, Retry(r) PROVE LInv'
  BY <1>2, AsksAgain DEF Retry, Running, Quiet, Reliable
<1>3. ASSUME NEW r \in rows, Cancel(r) PROVE LInv'
  <2>1. /\ pump = {} /\ phase \notin {"down", "swapped"}
        /\ UNCHANGED <<phase, net, disk, mark, pump, removals, minted, gone, told>>
    BY <1>3 DEF Cancel, Running, Quiet, Reliable
  <2>2. ASSUME NEW t \in runner, runner' = {[t EXCEPT !.cancelled = TRUE]}, UNCHANGED <<rows, saves>>
        PROVE  LInv'
    <3> DEFINE u == [t EXCEPT !.cancelled = TRUE]
    <3>1. u \in Transfers /\ u.id = t.id /\ u.at = t.at /\ u.cancelled
      BY DEF LInv, Shapes, Transfers
    <3>2. net' \in BOOLEAN /\ runner' = {u}
      BY <2>1, <2>2 DEF LInv, Shapes
    <3> HIDE DEF u
    <3> QED
      BY <2>1, <2>2, <3>1, <3>2, GoesOn
  <2>3. CASE /\ Room /\ r.state = "requested" /\ \A t \in runner : t.id # r.id
             /\ rows' = Put(rows, In(r, "failed_with_retry"))
             /\ saves' = Queue("cancel", r)
             /\ UNCHANGED runner
    BY <2>1, <2>3, CancelledRow
  <2> QED
    BY <1>3, <2>2, <2>3 DEF Cancel
<1>4. ASSUME NEW r \in rows, NEW replacing \in BOOLEAN, StartRemoval(r, replacing) PROVE LInv'
  <2> DEFINE x == [id |-> r.id, row |-> r, replacing |-> replacing, at |-> "mark",
                   waits |-> \E t \in runner : t.id = r.id]
  <2>1. x \in Departures /\ x.id = r.id /\ x.row = r /\ x.at = "mark"
        /\ (x.waits <=> \E t \in runner : t.id = r.id)
    BY DEF Departures, LInv, Shapes, Entries
  <2>2. removals' = removals \cup {x}
    BY <1>4 DEF StartRemoval
  <2> HIDE DEF x
  <2> QED
    BY <1>4, <2>1, <2>2, LeaveBegins DEF StartRemoval, Running, Quiet, Reliable
<1>5. ASSUME NEW x \in removals, DeleteFiles(x) PROVE LInv'
  <2> DEFINE y == [x EXCEPT !.at = "drop"]
  <2>1. y \in Departures /\ y.id = x.id /\ y.row = x.row /\ y.at = "drop" /\ y.waits = x.waits
    BY DEF Departures, LInv, Shapes
  <2>2. removals' = Put(removals, y)
    BY <1>5 DEF DeleteFiles
  <2> HIDE DEF y
  <2> QED
    BY <1>5, <2>1, <2>2, RowLeaves DEF DeleteFiles
<1> QED
  BY <1>1, <1>2, <1>3, <1>4, <1>5 DEF Remove, Replace

\* And so do the steps of the runner.
LEMMA RunnerKeeps ==
  ASSUME LInv, Files, NEW t \in runner,
         \/ Minted(t) \/ Begin(t) \/ Chunk(t) \/ ChunkFails(t) \/ Remint(t) \/ Finalize(t) \/ Reclaim(t)
  PROVE  LInv'
<1>1. /\ t \in Transfers /\ runner = {t}
      /\ t.off \in Sizes /\ t.start \in Sizes /\ t.enc \in {0} \cup Encodings
  BY OneRuns DEF LInv, Shapes, Transfers
<1>2. Unique(rows) /\ net \in BOOLEAN
  BY DEF LInv, Ledgers, Shapes
<1>3. CASE Minted(t)
  <2>1. t.at = "mint" /\ UNCHANGED <<phase, net, disk, mark, removals, minted, gone, told>>
    BY <1>3 DEF Minted
  <2>2. CASE SettleFailed(t, "transient")
    BY <2>1, <2>2, Settles
  <2>3. CASE Unowned(t.id) /\ End(rows) /\ UNCHANGED <<rows, saves>>
    <3>1. t.at \notin Awaited
      BY <2>1 DEF Awaited
    <3> QED
      BY <2>1, <2>3, <3>1, EndsAlone DEF End
  <2>4. CASE /\ ~Unowned(t.id) /\ Room
             /\ \E e \in Encodings :
                  LET fresh == At(rows, t.id)
                  IN  /\ saves' = Queue("minted", fresh)
                      /\ runner' = {[t EXCEPT !.at = "minted", !.first = e, !.enc = e,
                                              !.off = fresh.off, !.len = fresh.len]}
             /\ UNCHANGED <<rows, pump>>
    <3> DEFINE r == At(rows, t.id)
    <3>1. r \in rows /\ r.id = t.id
      BY <2>4, <1>2, Owned
    <3>2. PICK e \in Encodings :
            /\ saves' = Queue("minted", r)
            /\ runner' = {[t EXCEPT !.at = "minted", !.first = e, !.enc = e, !.off = r.off, !.len = r.len]}
      BY <2>4
    <3> HIDE DEF r
    <3> QED
      BY <2>1, <2>4, <3>1, <3>2, Mints
  <2> QED
    BY <1>3, <2>2, <2>3, <2>4 DEF Minted
<1>4. CASE Begin(t)
  <2> DEFINE start == ResumeAt(t)
             u == [t EXCEPT !.at = "fetch", !.start = start, !.len = 0]
  <2>1. t.at = "begin" /\ UNCHANGED <<phase, net, disk, mark, removals, minted, gone, told>>
    BY <1>4 DEF Begin
  <2>2. \/ \E kind : SettleFailed(t, kind) /\ (kind = "invalid-response" => ~t.cancelled)
        \/ ~t.cancelled /\ runner' = {u} /\ UNCHANGED <<rows, saves, pump>>
    <3>1. CASE /\ t.cancelled \/ start <= Len(parts[t.id])
               /\ SettleFailed(t, IF t.cancelled THEN "cancelled" ELSE "internal")
      <4>1. (IF t.cancelled THEN "cancelled" ELSE "internal") # "invalid-response"
        OBVIOUS
      <4> QED
        BY <3>1, <4>1
    <3>2. CASE ~t.cancelled /\ SettleFailed(t, "invalid-response")
      BY <3>2
    <3> QED
      BY <1>4, <3>1, <3>2 DEF Begin
  <2>3. start \in Sizes
    BY <1>1, Sized DEF ResumeAt
  <2>4. u \in Transfers /\ u.id = t.id /\ u.at = "fetch" /\ u.cancelled = t.cancelled
    BY <2>3, <1>1, Sized DEF Transfers, Stages
  <2> HIDE DEF start, u
  <2>5. ASSUME NEW kind, SettleFailed(t, kind), kind = "invalid-response" => ~t.cancelled
        PROVE  LInv'
    BY <2>1, <2>5, Settles
  <2>6. CASE ~t.cancelled /\ runner' = {u} /\ UNCHANGED <<rows, saves, pump>>
    BY <2>1, <2>4, <2>6, <1>2, GoesOn
  <2> QED
    BY <2>2, <2>5, <2>6
<1>5. CASE Chunk(t)
  <2>1. t.at = "fetch" /\ t.start < t.enc
        /\ UNCHANGED <<phase, net, disk, removals, minted, gone, told>>
    BY <1>5 DEF Chunk
  <2>2. CASE t.cancelled
    BY <1>5, <2>1, <2>2, Settles DEF Chunk
  <2>3. CASE ~t.cancelled
    <3> DEFINE c == t.start + 1
               u == [t EXCEPT !.start = @ + 1]
    <3>1. Progress(t, c) /\ runner' = {u} /\ pump' = pump
      BY <1>5, <2>3 DEF Chunk
    <3>2. t.enc \in Encodings /\ c <= t.enc /\ c \in Nat
      <4>1. t.enc \in Encodings
        BY <2>1 DEF Files, Fed
      <4>2. t.enc \in Nat /\ t.start \in Nat
        BY <4>1, <1>1, Sized
      <4> QED
        BY <4>1, <4>2, <2>1
    <3>3. c \in Sizes
      BY <3>2, Sized
    <3>4. u \in Transfers /\ u.id = t.id /\ u.at = "fetch" /\ u.cancelled = t.cancelled
      BY <2>1, <3>3, <1>1 DEF Transfers
    <3>5. t.id \in IdsOf(rows)
      BY <2>1 DEF LInv, Attended
    <3> DEFINE r == At(rows, t.id)
               next == [r EXCEPT !.off = c, !.len = t.enc]
    <3>6. r \in rows /\ r.id = t.id
      BY <3>5, SomeRow
    <3>7. /\ rows' = Put(rows, next)
          /\ saves' = saves \/ saves' = Queue("checkpoint", next)
          /\ mark' = mark \/ mark' = [mark EXCEPT ![t.id] = c]
      BY <3>1, <3>5 DEF Progress
    <3> HIDE DEF c, u, r
    <3> QED
      BY <2>1, <3>1, <3>2, <3>3, <3>4, <3>6, <3>7, Records
  <2> QED
    BY <2>2, <2>3
<1>6. CASE ChunkFails(t)
  <2>1. t.at = "fetch" /\ UNCHANGED <<phase, net, disk, mark, removals, minted, gone, told>>
    BY <1>6 DEF ChunkFails
  <2>2. PICK kind \in IF t.cancelled THEN {"cancelled"} ELSE {"transient", "invalid-response"} :
          SettleFailed(t, kind)
    BY <1>6 DEF ChunkFails
  <2> QED
    BY <2>1, <2>2, Settles
<1>7. CASE Remint(t)
  <2>1. PICK e \in Encodings \ {t.enc} : runner' = {[t EXCEPT !.enc = e, !.start = 0]}
    BY <1>7 DEF Remint
  <2>2. t.at = "fetch" /\ UNCHANGED <<phase, net, rows, disk, mark, pump, removals, saves, minted, gone, told>>
    BY <1>7 DEF Remint
  <2> DEFINE u == [t EXCEPT !.enc = e, !.start = 0]
  <2>3. u \in Transfers /\ u.id = t.id /\ u.at = t.at /\ u.cancelled = t.cancelled
    BY <1>1, Sized DEF Transfers
  <2> HIDE DEF u
  <2> QED
    BY <2>1, <2>2, <2>3, <1>2, GoesOn DEF u
<1>8. CASE Finalize(t)
  <2>1. t.at = "fetch" /\ UNCHANGED <<phase, net, disk, mark, removals, minted, gone, told>>
    BY <1>8 DEF Finalize
  <2>2. CASE Unowned(t.id)
    <3>1. t.at \notin Awaited
      BY <2>1 DEF Awaited
    <3> QED
      BY <1>8, <2>1, <2>2, <3>1, EndsAlone DEF End, Finalize
  <2>3. CASE ~Unowned(t.id)
    <3> DEFINE r == At(rows, t.id)
    <3>1. r \in rows /\ r.id = t.id /\ r.state \notin {"removing", "requested"}
      BY <2>3, <1>2, Owned
    <3>2. /\ rows' = Put(rows, [r EXCEPT !.state = "available", !.off = t.start, !.len = t.start])
          /\ saves' = Queue("done", r) /\ runner' = {Runner(t.id, "done")} /\ pump' = pump
      BY <1>8, <2>3 DEF Finalize
    <3> HIDE DEF r
    <3> QED
      BY <2>1, <3>1, <3>2, <1>1, Finishes
  <2> QED
    BY <2>2, <2>3
<1>9. CASE Reclaim(t)
  <2>1. t.at = "reclaim" /\ UNCHANGED <<phase, net, disk, mark, pump, removals, minted, gone, told>>
    BY <1>9 DEF Reclaim
  <2> DEFINE r == At(rows, t.id)
             after == In(r, "transferring")
  <2>2. r \in rows /\ r.id = t.id
    BY <2>1, SomeRow DEF LInv, Attended
  <2>3. rows' = Put(rows, In(after, "failed_with_retry")) /\ saves' = Queue("fail", after)
        /\ runner' = {Runner(t.id, "fail")}
    BY <1>9 DEF Reclaim
  <2>4. In(after, "failed_with_retry") = In(r, "failed_with_retry")
    BY DEF In
  <2> HIDE DEF r
  <2> QED
    BY <2>1, <2>2, <2>3, <2>4, FailsWithRow
<1> QED
  BY <1>3, <1>4, <1>5, <1>6, <1>7, <1>8, <1>9

-----------------------------------------------------------------------------
(* The files.                                                              *)

\* What a step that touches no file has to respect.
LEMMA FilesStay ==
  ASSUME FileShapes, Files, parts' = parts, owned' = owned,
         rows' = {} \/ phase' = "swapped" \/ phase # "swapped",
         \A r \in rows' : r.state = "available" => r \in rows,
         \A r \in Versions' : r.off > 0 =>
           \E s \in Versions : s.id = r.id /\ s.off = r.off /\ s.len = r.len,
         \A i \in 1..Len(saves') : saves'[i].kind = "done" =>
           \E j \in 1..Len(saves) : saves[j].kind = "done" /\ saves[j].old.id = saves'[i].old.id,
         \A u \in runner' : Fed(u)
  PROVE  FileShapes' /\ Files'
<1>1. FileShapes'
  BY DEF FileShapes
<1>2. \A id \in Ids : Whole(owned[id])'
  BY DEF Files, Whole
<1>3. phase' # "swapped" => \A r \in rows' : r.state = "available" => Intact(r)'
  BY DEF Files, Intact
<1>4. \A r \in Versions' : Described(r)'
  BY DEF Files, Described
<1>5. \A i \in 1..Len(saves') : saves'[i].kind = "done" => parts'[saves'[i].old.id] = <<>>
  BY DEF Files
<1>6. \A u \in runner' : Fed(u)'
  BY DEF Fed
<1> QED
  BY <1>1, <1>2, <1>3, <1>4, <1>5, <1>6 DEF Files, Whole

\* A row is rewritten and its commit queued, and no file is touched.
LEMMA RowMoves ==
  ASSUME LInv, FInv, NEW row, row.off = 0 \/ \E s \in Versions : s.id = row.id /\ s.off = row.off /\ s.len = row.len,
         row.state # "available", NEW kind \in Kinds \ {"done"}, NEW o \in Entries,
         kind \in {"claim", "retry"} => o \in Versions,
         rows' = Put(rows, row), saves' = Queue(kind, o), pump' \subseteq pump,
         \A u \in runner' : Fed(u), phase' = "swapped" \/ phase # "swapped",
         UNCHANGED <<parts, owned>>
  PROVE  FileShapes' /\ Files'
<1>1. /\ Len(saves) \in Nat /\ Len(saves') = Len(saves) + 1
      /\ \A i \in 1..Len(saves) : saves'[i] = saves[i]
      /\ saves'[Len(saves) + 1].kind = kind /\ saves'[Len(saves) + 1].old = o
      /\ \A i \in 1..Len(saves') : i \in 1..Len(saves) \/ i = Len(saves) + 1
  BY Joined DEF LInv
<1>2. \A q : q \in rows' <=> q = row \/ (q \in rows /\ q.id # row.id)
  BY Putting
<1>3. \A q \in Versions' : q \in Versions \/ q = row
  <2>1. ASSUME NEW q \in Versions', q \notin rows' \cup pump' PROVE q \in Versions
    <3>1. PICK i \in 1..Len(saves') : saves'[i].kind \in {"claim", "retry"} /\ q = saves'[i].old
      BY <2>1 DEF Versions
    <3>2. CASE i \in 1..Len(saves)
      BY <3>1, <3>2, <1>1 DEF Versions
    <3>3. CASE i = Len(saves) + 1
      BY <3>1, <3>3, <1>1
    <3> QED
      BY <3>2, <3>3, <1>1
  <2> QED
    BY <2>1, <1>2 DEF Versions
<1>4. \A r \in Versions' : r.off > 0 =>
        \E s \in Versions : s.id = r.id /\ s.off = r.off /\ s.len = r.len
  <2> SUFFICES ASSUME NEW r \in Versions', r.off > 0
               PROVE  \E s \in Versions : s.id = r.id /\ s.off = r.off /\ s.len = r.len
    OBVIOUS
  <2>1. CASE r \in Versions
    BY <2>1
  <2>2. CASE r = row
    BY <2>2
  <2> QED
    BY <2>1, <2>2, <1>3
<1>5. \A i \in 1..Len(saves') : saves'[i].kind = "done" =>
        \E j \in 1..Len(saves) : saves[j].kind = "done" /\ saves[j].old.id = saves'[i].old.id
  BY <1>1
<1>6. \A r \in rows' : r.state = "available" => r \in rows
  BY <1>2
<1> QED
  BY <1>4, <1>5, <1>6, FilesStay DEF FInv

\* What it takes for the committed ledger to go on describing the files.
LEMMA DiskStays ==
  ASSUME OnDisk, disk' = disk, Corrected => Corrected',
         ~Corrected => \A r \in disk : r.state # "removing" /\ (Moving(r) \/ Settled(r)) => Moving(r)' \/ Settled(r)'
  PROVE  OnDisk'
BY DEF OnDisk

\* A commit joined the queue, or none did.
LEMMA Corrects ==
  ASSUME Shapes, NEW kind \in Kinds, NEW o \in Entries, saves' = Queue(kind, o)
  PROVE  /\ Corrected => Corrected'
         /\ kind \in Sure => Corrected'
<1>1. /\ Len(saves) \in Nat /\ Len(saves') = Len(saves) + 1
      /\ \A i \in 1..Len(saves) : saves'[i] = saves[i]
      /\ saves'[Len(saves) + 1].kind = kind
  BY Joined
<1>2. Corrected => Corrected'
  BY <1>1 DEF Corrected
<1>3. Len(saves) + 1 \in 1..Len(saves')
  BY <1>1
<1> QED
  BY <1>1, <1>2, <1>3 DEF Corrected

\* No runner is fetching afterwards that was not before, and the rows that count stay.
LEMMA DiskStaysPut ==
  ASSUME OnDisk, UNCHANGED <<disk, parts>>, Corrected => Corrected',
         \A u \in runner' : u.at = "fetch" =>
           /\ \E t \in runner : t.at = "fetch" /\ t.id = u.id
           /\ \A s \in rows : s.id = u.id => s \in rows',
         \A t \in runner : t.at = "fetch" => \E u \in runner' : u.at = "fetch" /\ u.id = t.id
  PROVE  OnDisk'
<1> SUFFICES ASSUME ~Corrected, NEW r \in disk, r.state # "removing", Moving(r) \/ Settled(r)
             PROVE  Moving(r)' \/ Settled(r)'
  BY DiskStays
<1>1. CASE Moving(r)
  BY <1>1 DEF Moving
<1>2. CASE Settled(r)
  BY <1>2 DEF Settled, Described
<1> QED
  BY <1>1, <1>2

\* The ledger on disk and the finished files stay as they are.
LEMMA KeptStays ==
  ASSUME Kept, disk' = disk, told' \subseteq told,
         \A r \in disk : r.id \in told' /\ r.state = "available" =>
           owned'[r.id] = owned[r.id] /\ (phase' # "down" => phase # "down" /\ (r.id \in IdsOf(rows) => r.id \in IdsOf(rows')))
  PROVE  Kept'
BY DEF Kept, Intact

\* Nothing but the runner and the pump moves.
LEMMA FilesIdle ==
  ASSUME LInv, FInv, UNCHANGED <<rows, disk, parts, owned, saves, told>>,
         pump' \subseteq pump \cup rows, phase' = phase \/ phase \notin {"down", "swapped"},
         \A u \in runner' : Fed(u), OnDisk'
  PROVE  FInv'
<1>1. Versions' \subseteq Versions
  BY DEF Versions
<1>2. FileShapes' /\ Files'
  BY <1>1, FilesStay DEF FInv
<1>3. Kept'
  BY KeptStays DEF FInv
<1> QED
  BY <1>2, <1>3 DEF FInv

\* A signalled runner is where it was.
LEMMA SameStage ==
  ASSUME FInv, NEW t \in runner, \A s \in runner : s = t, runner' = {[t EXCEPT !.cancelled = TRUE]},
         LInv, UNCHANGED <<rows, disk, parts, saves>>
  PROVE  OnDisk' /\ \A u \in runner' : Fed(u)
<1> DEFINE u == [t EXCEPT !.cancelled = TRUE]
<1>1. /\ u.id = t.id /\ u.at = t.at /\ u.off = t.off /\ u.len = t.len /\ u.first = t.first
      /\ u.enc = t.enc /\ u.start = t.start /\ runner' = {u}
  BY DEF LInv, Shapes, Transfers
<1> HIDE DEF u
<1>2. Fed(t) => Fed(u)
  BY <1>1 DEF Fed
<1>3. Corrected => Corrected'
  BY DEF Corrected
<1>4. OnDisk'
  BY <1>1, <1>3, DiskStaysPut DEF FInv
<1> QED
  BY <1>1, <1>2, <1>4 DEF FInv, Files

\* A row is put back and a correcting commit queued.
LEMMA FilesCorrected ==
  ASSUME LInv, FInv, NEW row, row.off = 0 \/ \E s \in Versions : s.id = row.id /\ s.off = row.off /\ s.len = row.len,
         row.state # "available", NEW kind \in Sure, NEW o \in Entries,
         rows' = Put(rows, row), saves' = Queue(kind, o), pump' \subseteq pump,
         phase' = phase \/ phase \notin {"down", "swapped"},
         \A u \in runner' : Fed(u),
         UNCHANGED <<disk, parts, owned, told>>
  PROVE  FInv'
<1>1. kind \in Kinds \ {"done"} /\ kind \notin {"claim", "retry"}
  BY DEF Sure, Kinds
<1>2. FileShapes' /\ Files'
  BY <1>1, RowMoves
<1>3. OnDisk'
  BY <1>1, Corrects DEF OnDisk, LInv
<1>4. \A id \in IdsOf(rows) : id \in IdsOf(rows')
  BY Putting DEF IdsOf
<1>5. Kept'
  BY <1>4, KeptStays DEF FInv
<1> QED
  BY <1>2, <1>3, <1>5 DEF FInv

\* The answer of the network claims a row and touches no file.
LEMMA FilesPumpAnswer ==
  ASSUME LInv, FInv, PumpAnswer
  PROVE  FInv'
<1>1. runner = {} /\ pump' = {} /\ UNCHANGED <<phase, disk, parts, owned, told>>
  BY DEF PumpAnswer, LInv, Phases
<1>2. CASE ~net
  <2>1. UNCHANGED <<rows, saves, runner>>
    BY <1>2 DEF PumpAnswer
  <2>2. OnDisk'
    BY <1>1, <2>1 DEF FInv, OnDisk, Corrected, Moving, Settled, Described
  <2> QED
    BY <1>1, <2>1, <2>2, FilesIdle
<1>3. CASE net
  <2>1. PICK r \in pump : rows' = Put(rows, In(r, "transferring")) /\ saves' = Queue("claim", r)
                          /\ runner' = {Runner(r.id, "claim")}
    BY <1>3 DEF PumpAnswer
  <2>2. r \in Entries /\ r \in Versions
    BY DEF LInv, Shapes, Versions
  <2> DEFINE row == In(r, "transferring")
             u == Runner(r.id, "claim")
  <2>3. row.id = r.id /\ row.state = "transferring" /\ row.off = r.off /\ row.len = r.len
    BY <2>2, Changed DEF States
  <2>4. u.at = "claim"
    BY DEF Runner
  <2>5. Fed(u)
    BY <2>4 DEF Fed
  <2>6. rows' = Put(rows, row) /\ runner' = {u}
    BY <2>1
  <2> HIDE DEF row, u
  <2>7. FileShapes' /\ Files'
    BY <1>1, <2>1, <2>2, <2>3, <2>5, <2>6, RowMoves DEF Kinds
  <2>8. Corrected => Corrected'
    BY <2>1, <2>2, Corrects DEF LInv, Kinds
  <2>9. OnDisk'
    BY <1>1, <2>4, <2>6, <2>8, DiskStaysPut DEF FInv
  <2>10. \A id \in IdsOf(rows) : id \in IdsOf(rows')
    BY <2>6, Putting DEF IdsOf
  <2>11. Kept'
    BY <1>1, <2>10, KeptStays DEF FInv
  <2> QED
    BY <2>7, <2>9, <2>11 DEF FInv
<1> QED
  BY <1>2, <1>3

\* The demotion touches no file.
LEMMA FilesDemote ==
  ASSUME LInv, FInv, Demote, phase' = phase \/ phase \notin {"down", "swapped"},
         UNCHANGED <<disk, parts, owned, pump, told>>
  PROVE  FInv'
<1>1. CASE runner = {}
  <2>1. UNCHANGED <<rows, saves, runner>>
    BY <1>1 DEF Demote
  <2>2. OnDisk'
    BY <1>1, <2>1 DEF FInv, OnDisk, Corrected, Moving, Settled, Described
  <2> QED
    BY <1>1, <2>1, <2>2, FilesIdle
<1>2. CASE runner # {}
  <2>1. PICK t \in runner :
          IF t.id \in IdsOf(rows) /\ At(rows, t.id).state = "transferring"
          THEN /\ Room
               /\ rows' = Put(rows, In(At(rows, t.id), "requested"))
               /\ saves' = Queue("demote", At(rows, t.id))
               /\ UNCHANGED runner
          ELSE runner' = {[t EXCEPT !.cancelled = TRUE]} /\ UNCHANGED <<rows, saves>>
    BY <1>2 DEF Demote
  <2>2. CASE t.id \in IdsOf(rows) /\ At(rows, t.id).state = "transferring"
    <3> DEFINE r == At(rows, t.id)
               row == In(r, "requested")
    <3>1. r \in rows /\ r \in Entries /\ r \in Versions
      BY <2>2, SomeRow DEF LInv, Shapes, Versions
    <3>2. rows' = Put(rows, row) /\ saves' = Queue("demote", r) /\ runner' = runner
      BY <2>1, <2>2
    <3>3. row.id = r.id /\ row.state = "requested" /\ row.off = r.off /\ row.len = r.len
      BY <3>1, Changed DEF States
    <3>4. \A u \in runner' : Fed(u)
      BY <3>2 DEF FInv, Files
    <3> HIDE DEF r, row
    <3> QED
      BY <3>1, <3>2, <3>3, <3>4, FilesCorrected DEF Sure
  <2>3. CASE ~(t.id \in IdsOf(rows) /\ At(rows, t.id).state = "transferring")
    <3>1. runner' = {[t EXCEPT !.cancelled = TRUE]} /\ UNCHANGED <<rows, saves>>
      BY <2>1, <2>3
    <3>2. \A s \in runner : s = t
      BY DEF LInv, Phases
    <3>3. OnDisk' /\ \A u \in runner' : Fed(u)
      BY <3>1, <3>2, SameStage
    <3> QED
      BY <3>1, <3>3, FilesIdle
  <2> QED
    BY <2>2, <2>3
<1> QED
  BY <1>1, <1>2

\* Neither do the edges of the network and the two halves of a stop.
LEMMA FilesEdges ==
  ASSUME LInv, FInv, GoesIneligible \/ GoesEligible \/ Stop \/ Stopped
  PROVE  FInv'
<1>1. ASSUME UNCHANGED <<rows, disk, parts, owned, saves, told, runner>>, pump' \subseteq pump \cup rows,
             phase' = phase \/ phase \notin {"down", "swapped"}
      PROVE  FInv'
  <2>1. OnDisk'
    BY <1>1 DEF FInv, OnDisk, Corrected, Moving, Settled, Described
  <2>2. \A u \in runner' : Fed(u)
    BY <1>1 DEF FInv, Files
  <2> QED
    BY <1>1, <2>1, <2>2, FilesIdle
<1>2. CASE GoesIneligible
  <2>1. CASE phase = "up"
    BY <1>2, <2>1, FilesDemote DEF GoesIneligible
  <2>2. CASE phase # "up"
    BY <1>1, <1>2, <2>2 DEF GoesIneligible
  <2> QED
    BY <2>1, <2>2
<1>3. CASE GoesEligible
  <2>1. pump' \subseteq pump \cup rows
    <3>1. CASE phase = "up"
      <4>1. pump' = pump \/ \E r \in rows : r.state = "requested" /\ pump' = {r}
        BY <1>3, <3>1, Picking DEF GoesEligible
      <4> QED
        BY <4>1
    <3>2. CASE phase # "up"
      BY <1>3, <3>2 DEF GoesEligible
    <3> QED
      BY <3>1, <3>2
  <2> QED
    BY <1>1, <1>3, <2>1 DEF GoesEligible
<1>4. CASE Stop
  BY <1>4, FilesDemote DEF Stop
<1>5. CASE Stopped
  BY <1>1, <1>5 DEF Stopped
<1> QED
  BY <1>2, <1>3, <1>4, <1>5

\* Before the first launch there are no files.
LEMMA FilesBegin ==
  ASSUME Init
  PROVE  FInv
<1>1. /\ rows = {} /\ disk = {} /\ pump = {} /\ runner = {} /\ saves = <<>> /\ Len(saves) = 0
      /\ parts = [id \in Ids |-> <<>>] /\ owned = [id \in Ids |-> <<>>]
  BY DEF Init
<1>2. FileShapes
  BY <1>1, Sized DEF FileShapes
<1>3. Files
  <2>1. Versions = {}
    BY <1>1 DEF Versions
  <2>2. \A id \in Ids : Whole(owned[id])
    BY <1>1 DEF Whole
  <2> QED
    BY <1>1, <2>1, <2>2 DEF Files
<1>4. OnDisk /\ Kept
  BY <1>1 DEF OnDisk, Kept
<1> QED
  BY <1>2, <1>3, <1>4 DEF FInv

\* A kill leaves the files and the committed ledger, which describes them.
LEMMA FilesCrash ==
  ASSUME LInv, FInv, Reliable, Crash
  PROVE  FInv'
<1>1. /\ phase' = "down" /\ LedgerDescribesParts
      /\ rows' = {} /\ pump' = {} /\ runner' = {} /\ saves' = <<>> /\ Len(saves') = 0
      /\ UNCHANGED <<disk, parts, owned, told>>
  BY DEF Crash, Reliable
<1>2. Versions' = {}
  BY <1>1 DEF Versions
<1>3. FileShapes' /\ Files'
  BY <1>1, <1>2, FilesStay DEF FInv
<1>4. OnDisk'
  BY <1>1 DEF OnDisk, Settled, Described, LedgerDescribesParts
<1>5. Kept'
  BY <1>1, KeptStays DEF FInv
<1> QED
  BY <1>3, <1>4, <1>5 DEF FInv

\* The integrity pass keeps a whole file and its row, and sweeps the rest.
LEMMA FilesLaunch ==
  ASSUME LInv, FInv, Reliable, Launch
  PROVE  /\ FInv'
         /\ \A r \in disk : r.state = "available" /\ r.id \in told =>
              owned'[r.id] = owned[r.id] /\ r \in disk'
<1>1. /\ phase' = "up" /\ rows' = Verified /\ disk' = Verified /\ pump' \subseteq rows'
  BY Launched
<1>2. /\ runner' = {} /\ saves' = <<>> /\ Len(saves') = 0 /\ runner = {} /\ saves = <<>> /\ Len(saves) = 0
  BY DEF Launch, LInv, Phases, Quiesced, Reliable
<1>3. PICK stays, lets : parts' = Swept(parts, lets) /\ owned' = Swept(owned, stays) /\ stays = IdsOf(Verified)
  BY DEF Launch, Reliable
<1>4. /\ \A id \in Ids : parts'[id] = parts[id] \/ parts'[id] = <<>>
      /\ \A id \in Ids : owned'[id] = owned[id] \/ owned'[id] = <<>>
      /\ \A id \in Ids : id \in IdsOf(Verified) => owned'[id] = owned[id]
      /\ DOMAIN parts' = Ids /\ DOMAIN owned' = Ids
  BY <1>3 DEF Swept
<1>5. FileShapes'
  <2>1. <<>> \in Seq(Encodings) /\ Len(<<>>) = 0 /\ 0 \in Sizes
    BY Sized
  <2>2. parts' \in [Ids -> Seq(Encodings)] /\ owned' \in [Ids -> Seq(Encodings)]
    BY <1>3, <2>1 DEF Swept, FInv, FileShapes
  <2>3. \A id \in Ids : Len(parts'[id]) \in Sizes /\ Len(owned'[id]) \in Sizes
    BY <1>4, <2>1 DEF FInv, FileShapes
  <2> QED
    BY <2>2, <2>3 DEF FileShapes
<1>6. \A r \in Verified :
        /\ r.id \in Ids /\ r.id \in IdsOf(Verified)
        /\ r.state # "removing"
        /\ r.state = "available" => Intact(r)
        /\ \E s \in disk : s.id = r.id /\ s.off = r.off /\ s.len = r.len /\ s.state # "removing"
  BY Checked DEF LInv, Shapes, Entries, IdsOf
<1>7. \A r \in Verified : Described(r)'
  <2> SUFFICES ASSUME NEW r \in Verified, r.off > 0, NEW k \in 1..Len(parts'[r.id])
               PROVE  parts'[r.id][k] = r.len
    BY DEF Described
  <2>1. PICK s \in disk : s.id = r.id /\ s.off = r.off /\ s.len = r.len /\ s.state # "removing"
    BY <1>6
  <2>2. Described(s)
    BY <1>2, <2>1 DEF FInv, OnDisk, Corrected, Moving, Settled
  <2>3. parts'[r.id] = parts[r.id]
    <3>1. parts'[r.id] # <<>>
      OBVIOUS
    <3> QED
      BY <3>1, <1>4, <1>6
  <2> QED
    BY <2>1, <2>2, <2>3 DEF Described
<1>8. \A r \in Verified : r.state = "available" => Intact(r)'
  BY <1>4, <1>6 DEF Intact
<1>9. Files'
  <2>1. Versions' \subseteq Verified
    BY <1>1, <1>2 DEF Versions
  <2>2. \A id \in Ids : Whole(owned'[id])
    <3>1. \A id \in Ids : Whole(owned[id])
      BY DEF FInv, Files
    <3>2. Whole(<<>>)
      BY DEF Whole
    <3> QED
      BY <1>4, <3>1, <3>2
  <2>3. \A r \in Versions' : Described(r)'
    BY <2>1, <1>7
  <2>4. \A r \in rows' : r.state = "available" => Intact(r)'
    BY <1>1, <1>8
  <2>5. \A id \in Ids : Whole(owned'[id])
    BY <2>2
  <2> QED
    BY <2>3, <2>4, <2>5, <1>2 DEF Files, Whole
<1>10. OnDisk'
  BY <1>1, <1>2, <1>7 DEF OnDisk, Settled
<1>11. Kept'
  BY <1>1, <1>6, <1>8 DEF Kept
<1>12. ASSUME NEW r \in disk, r.state = "available", r.id \in told
       PROVE  owned'[r.id] = owned[r.id] /\ r \in disk'
  <2>1. Intact(r) /\ r.id \in Ids
    BY <1>12 DEF FInv, Kept, LInv, Shapes, Entries
  <2>2. r \in Verified
    BY <1>12, <2>1 DEF Verified
  <2> QED
    BY <2>1, <2>2, <1>1, <1>4, <1>6
<1> QED
  BY <1>5, <1>9, <1>10, <1>11, <1>12 DEF FInv

\* An import leaves no committed row, and deletes the files of the rows it replaces.
LEMMA FilesImport ==
  ASSUME LInv, FInv, Reliable, Import
  PROVE  FInv'
<1>1. /\ phase' = "swapped" /\ disk' = {} /\ rows' = rows /\ pump' = {} /\ runner' = {}
      /\ saves' = <<>> /\ Len(saves') = 0
      /\ parts' = Swept(parts, Ids \ IdsOf(rows)) /\ owned' = Swept(owned, Ids \ IdsOf(rows))
  BY DEF Import, Quiesced, Reliable, LInv, Phases
<1>2. /\ \A id \in Ids : parts'[id] = parts[id] \/ parts'[id] = <<>>
      /\ \A id \in Ids : owned'[id] = owned[id] \/ owned'[id] = <<>>
      /\ \A id \in Ids : id \in IdsOf(rows) => parts'[id] = <<>>
  BY <1>1 DEF Swept
<1>3. FileShapes'
  <2>1. <<>> \in Seq(Encodings) /\ Len(<<>>) = 0 /\ 0 \in Sizes
    BY Sized
  <2>2. parts' \in [Ids -> Seq(Encodings)] /\ owned' \in [Ids -> Seq(Encodings)]
    BY <1>1, <2>1 DEF Swept, FInv, FileShapes
  <2>3. \A id \in Ids : Len(parts'[id]) \in Sizes /\ Len(owned'[id]) \in Sizes
    BY <1>2, <2>1 DEF FInv, FileShapes
  <2> QED
    BY <2>2, <2>3 DEF FileShapes
<1>4. Files'
  <2>1. ASSUME NEW id \in Ids PROVE Whole(owned'[id])
    <3>1. owned'[id] = <<>> \/ owned'[id] = owned[id]
      BY <1>2
    <3>2. Whole(<<>>) /\ Whole(owned[id])
      BY DEF Whole, FInv, Files
    <3> QED
      BY <3>1, <3>2, Zenon
  <2>2. \A r \in Versions' : r \in rows
    BY <1>1 DEF Versions
  <2>3. \A r \in rows : parts'[r.id] = <<>>
    BY <1>2 DEF LInv, Shapes, Entries, IdsOf
  <2>4. \A r \in Versions' : Described(r)'
    BY <2>2, <2>3 DEF Described
  <2>5. \A id \in Ids : Whole(owned[id])'
    BY <2>1 DEF Whole
  <2>6. \A i \in 1..Len(saves') : saves'[i].kind # "done"
    BY <1>1
  <2> QED
    BY <2>4, <2>5, <2>6, <1>1 DEF Files
<1>5. OnDisk' /\ Kept'
  BY <1>1 DEF OnDisk, Kept
<1> QED
  BY <1>3, <1>4, <1>5 DEF FInv

\* A new download has no files.
LEMMA FilesRequest ==
  ASSUME LInv, FInv, NEW rec \in Recordings, Request(rec)
  PROVE  FInv'
<1>1. UNCHANGED <<phase, disk, parts, owned, pump, runner, told>>
  BY DEF Request
<1> DEFINE row == Row(minted + 1, rec, "requested", 0, 0)
<1>2. rows' = rows \cup {row} /\ row.id = minted + 1 /\ row.off = 0 /\ row.state = "requested"
      /\ minted' = minted + 1 /\ minted + 1 \in Ids /\ row.rec = rec /\ row.len = 0
  BY DownloadAssumption DEF Request, NewRow, Row, LInv, Shapes, Ids
<1>3. row \in Entries
  BY Sized, <1>2 DEF Row, Entries, States
<1> HIDE DEF row
<1>4. minted + 1 \notin IdsOf(rows)
  BY KnownRows DEF LInv, Numbers, Known, IdsOf, Shapes
<1>5. saves' = Queue("request", row)
  <2>1. (CHOOSE r \in rows' : r.id = minted') = row
    BY <1>2, <1>4 DEF IdsOf
  <2> QED
    BY <2>1 DEF Request
<1>6. /\ Len(saves) \in Nat /\ Len(saves') = Len(saves) + 1
      /\ \A i \in 1..Len(saves) : saves'[i] = saves[i]
      /\ saves'[Len(saves) + 1].kind = "request"
      /\ \A i \in 1..Len(saves') : i \in 1..Len(saves) \/ i = Len(saves) + 1
  BY <1>3, <1>5, Joined DEF LInv, Kinds
<1>7. \A q \in Versions' : q \in Versions \/ q = row
  <2>1. ASSUME NEW q \in Versions', q \notin rows' \cup pump' PROVE q \in Versions
    <3>1. PICK i \in 1..Len(saves') : saves'[i].kind \in {"claim", "retry"} /\ q = saves'[i].old
      BY <2>1 DEF Versions
    <3>2. i \in 1..Len(saves)
      BY <3>1, <1>6
    <3> QED
      BY <3>1, <3>2, <1>6 DEF Versions
  <2> QED
    BY <2>1, <1>1, <1>2 DEF Versions
<1>8. FileShapes' /\ Files'
  <2>1. \A r \in Versions' : r.off > 0 => \E s \in Versions : s.id = r.id /\ s.off = r.off /\ s.len = r.len
    BY <1>2, <1>7
  <2>2. \A i \in 1..Len(saves') : saves'[i].kind = "done" =>
          \E j \in 1..Len(saves) : saves[j].kind = "done" /\ saves[j].old.id = saves'[i].old.id
    BY <1>6
  <2>3. \A r \in rows' : r.state = "available" => r \in rows
    BY <1>2
  <2>4. \A u \in runner' : Fed(u)
    BY <1>1 DEF FInv, Files
  <2> QED
    BY <1>1, <2>1, <2>2, <2>3, <2>4, FilesStay DEF FInv
<1>9. OnDisk'
  <2>1. Corrected => Corrected'
    BY <1>3, <1>5, Corrects DEF LInv, Kinds
  <2> QED
    BY <2>1, <1>1, <1>2, DiskStaysPut DEF FInv
<1>10. Kept'
  BY <1>1, <1>2, KeptStays DEF FInv, IdsOf
<1> QED
  BY <1>8, <1>9, <1>10 DEF FInv

\* The commands on a row rewrite it and touch no file.
LEMMA FilesRows ==
  ASSUME LInv, FInv, NEW r \in rows,
         Retry(r) \/ Cancel(r) \/ \E replacing \in BOOLEAN : StartRemoval(r, replacing)
  PROVE  FInv'
<1>1. r \in Entries /\ r \in Versions
  BY DEF LInv, Shapes, Versions
<1>2. \A s \in States : In(r, s).id = r.id /\ In(r, s).state = s /\ In(r, s).off = r.off /\ In(r, s).len = r.len
  BY <1>1, Changed
<1>3. \A u \in runner : Fed(u)
  BY DEF FInv, Files
<1>4. CASE Retry(r)
  <2> DEFINE row == In(r, "requested")
  <2>1. rows' = Put(rows, row) /\ saves' = Queue("retry", r) /\ r.state = "failed_with_retry"
        /\ UNCHANGED <<phase, disk, parts, owned, pump, runner, told>>
    BY <1>4 DEF Retry
  <2>2. row.id = r.id /\ row.state = "requested" /\ row.off = r.off /\ row.len = r.len
    BY <1>2 DEF States
  <2> HIDE DEF row
  <2>3. FileShapes' /\ Files'
    BY <1>1, <1>3, <2>1, <2>2, RowMoves DEF Kinds
  <2>4. Corrected => Corrected'
    BY <1>1, <2>1, Corrects DEF LInv, Kinds
  <2>5. \A t \in runner : t.at = "fetch" => t.id # r.id
    BY <2>1 DEF LInv, Attended, Fits
  <2>6. OnDisk'
    BY <2>1, <2>2, <2>4, <2>5, Putting, DiskStaysPut DEF FInv
  <2>7. \A id \in IdsOf(rows) : id \in IdsOf(rows')
    BY <2>1, Putting DEF IdsOf
  <2>8. Kept'
    BY <2>1, <2>7, KeptStays DEF FInv
  <2> QED
    BY <2>3, <2>6, <2>8 DEF FInv
<1>5. CASE Cancel(r)
  <2>1. UNCHANGED <<phase, disk, parts, owned, pump, told>> /\ phase # "down"
    BY <1>5 DEF Cancel, Running
  <2>2. ASSUME NEW t \in runner, runner' = {[t EXCEPT !.cancelled = TRUE]}, UNCHANGED <<rows, saves>>
        PROVE  FInv'
    <3>1. \A s \in runner : s = t
      BY DEF LInv, Phases
    <3>2. OnDisk' /\ \A u \in runner' : Fed(u)
      BY <2>1, <2>2, <3>1, SameStage
    <3> QED
      BY <2>1, <2>2, <3>2, FilesIdle
  <2>3. CASE /\ rows' = Put(rows, In(r, "failed_with_retry"))
             /\ saves' = Queue("cancel", r)
             /\ UNCHANGED runner
    <3> DEFINE row == In(r, "failed_with_retry")
    <3>1. row.id = r.id /\ row.state = "failed_with_retry" /\ row.off = r.off /\ row.len = r.len
          /\ rows' = Put(rows, row)
      BY <1>2, <2>3 DEF States
    <3> HIDE DEF row
    <3> QED
      BY <1>1, <1>3, <2>1, <2>3, <3>1, FilesCorrected DEF Sure
  <2> QED
    BY <1>5, <2>2, <2>3 DEF Cancel
<1>6. ASSUME NEW replacing \in BOOLEAN, StartRemoval(r, replacing) PROVE FInv'
  <2> DEFINE row == In(r, "removing")
  <2>1. rows' = Put(rows, row) /\ saves' = Queue("mark", r)
        /\ UNCHANGED <<phase, disk, parts, owned, pump, runner, told>>
    BY <1>6 DEF StartRemoval
  <2>2. row.id = r.id /\ row.state = "removing" /\ row.off = r.off /\ row.len = r.len
    BY <1>2 DEF States
  <2> HIDE DEF row
  <2> QED
    BY <1>1, <1>3, <2>1, <2>2, FilesCorrected DEF Sure
<1> QED
  BY <1>4, <1>5, <1>6

\* The files of a removal go only when no ledger calls them available.
LEMMA FilesDelete ==
  ASSUME LInv, FInv, NEW x \in removals, DeleteFiles(x)
  PROVE  /\ FInv'
         /\ \A r \in disk : r.state = "available" => owned'[r.id] = owned[r.id]
<1>1. /\ x.at = "delete" /\ x.id \in Ids /\ x.row \in Entries /\ x.row.id = x.id
      /\ UNCHANGED <<phase, disk, pump, runner, told>>
      /\ saves' = Queue("drop", x.row)
      /\ parts' = [parts EXCEPT ![x.id] = <<>>] /\ owned' = [owned EXCEPT ![x.id] = <<>>]
  BY DEF DeleteFiles, LInv, Shapes, Departures, Leaving
<1>2. \A q : q \in rows' <=> q \in rows /\ q.id # x.id
  BY DEF DeleteFiles, Without
<1>3. /\ Len(saves) \in Nat /\ Len(saves') = Len(saves) + 1
      /\ \A i \in 1..Len(saves) : saves'[i] = saves[i]
      /\ saves'[Len(saves) + 1].kind = "drop"
      /\ \A i \in 1..Len(saves') : i \in 1..Len(saves) \/ i = Len(saves) + 1
  BY <1>1, Joined DEF LInv, Kinds
<1>4. /\ \A id \in Ids : parts'[id] = (IF id = x.id THEN <<>> ELSE parts[id])
      /\ \A id \in Ids : owned'[id] = (IF id = x.id THEN <<>> ELSE owned[id])
  BY <1>1 DEF FInv, FileShapes
<1>5. \A r \in disk : r.id = x.id => r.state = "removing"
  BY <1>1 DEF LInv, Removing
<1>6. FileShapes'
  <2>1. <<>> \in Seq(Encodings) /\ Len(<<>>) = 0 /\ 0 \in Sizes
    BY Sized
  <2>2. parts' \in [Ids -> Seq(Encodings)] /\ owned' \in [Ids -> Seq(Encodings)]
    BY <1>1, <2>1 DEF FInv, FileShapes
  <2>3. \A id \in Ids : Len(parts'[id]) \in Sizes /\ Len(owned'[id]) \in Sizes
    BY <1>4, <2>1 DEF FInv, FileShapes
  <2> QED
    BY <2>2, <2>3 DEF FileShapes
<1>7. Versions' \subseteq Versions
  <2>1. ASSUME NEW q \in Versions', q \notin rows' \cup pump' PROVE q \in Versions
    <3>1. PICK i \in 1..Len(saves') : saves'[i].kind \in {"claim", "retry"} /\ q = saves'[i].old
      BY <2>1 DEF Versions
    <3>2. i \in 1..Len(saves)
      BY <3>1, <1>3
    <3> QED
      BY <3>1, <3>2, <1>3 DEF Versions
  <2> QED
    BY <2>1, <1>1, <1>2 DEF Versions
<1>8. \A r \in Entries : Described(r) => Described(r)'
  BY <1>4 DEF Described, Entries
<1>9. Files'
  <2>1. ASSUME NEW id \in Ids PROVE Whole(owned'[id])
    <3>1. owned'[id] = <<>> \/ owned'[id] = owned[id]
      BY <1>4
    <3>2. Whole(<<>>) /\ Whole(owned[id])
      BY DEF Whole, FInv, Files
    <3> QED
      BY <3>1, <3>2, Zenon
  <2>2. phase' # "swapped" => \A r \in rows' : r.state = "available" => Intact(r)'
    BY <1>1, <1>2, <1>4 DEF Intact, FInv, Files, LInv, Shapes, Entries
  <2>3. \A r \in Versions' : Described(r)'
    <3>1. \A r \in Versions' : r \in Entries
      BY <1>7, KnownRows DEF LInv
    <3> QED
      BY <3>1, <1>7, <1>8 DEF FInv, Files
  <2>4. \A i \in 1..Len(saves') : saves'[i].kind = "done" => parts'[saves'[i].old.id] = <<>>
    <3>1. \A i \in 1..Len(saves) : saves[i].old.id \in Ids
      <4>1. \A i \in 1..Len(saves) : saves[i] \in Commits
        BY DEF LInv, Shapes
      <4> QED
        BY <4>1 DEF Commits, Entries
    <3> QED
      BY <3>1, <1>3, <1>4 DEF FInv, Files
  <2>5. ASSUME NEW t \in runner PROVE Fed(t)'
    <3>1. t.id \in Ids /\ Fed(t)
      BY DEF LInv, Shapes, Transfers, FInv, Files
    <3>2. CASE t.id # x.id
      BY <3>1, <3>2, <1>4 DEF Fed
    <3>3. CASE t.id = x.id
      <4>1. x.waits
        BY <3>3 DEF LInv, Removing
      <4> QED
        BY <4>1, <3>3 DEF DeleteFiles
    <3> QED
      BY <3>2, <3>3
  <2> QED
    BY <2>1, <2>2, <2>3, <2>4, <2>5, <1>1 DEF Files, Whole
<1>10. OnDisk'
  <2>1. Corrected => Corrected'
    BY <1>1, Corrects DEF LInv, Kinds
  <2>2. ASSUME NEW r \in disk, r.state # "removing", Moving(r) \/ Settled(r) PROVE Moving(r)' \/ Settled(r)'
    <3>1. r.id # x.id /\ r \in Entries
      BY <2>2, <1>5 DEF LInv, Shapes
    <3>2. Moving(r) => Moving(r)'
      BY <3>1, <1>1, <1>2 DEF Moving
    <3>3. Settled(r) => Settled(r)'
      BY <3>1, <1>1, <1>8 DEF Settled
    <3> QED
      BY <2>2, <3>2, <3>3
  <2> QED
    BY <2>1, <2>2, <1>1, DiskStays DEF FInv
<1>11. \A r \in disk : r.state = "available" => owned'[r.id] = owned[r.id]
  BY <1>4, <1>5 DEF LInv, Shapes, Entries
<1>12. Kept'
  <2>1. \A r \in disk : r.state = "available" /\ r.id \in IdsOf(rows) => r.id \in IdsOf(rows')
    BY <1>2, <1>5 DEF IdsOf
  <2> QED
    BY <2>1, <1>1, <1>11, KeptStays DEF FInv
<1> QED
  BY <1>6, <1>9, <1>10, <1>11, <1>12 DEF FInv

\* A file that is the beginning of one encoding.
LEMMA Uniform ==
  ASSUME NEW e \in Encodings, NEW n \in Nat
  PROVE  /\ [k \in 1..n |-> e] \in Seq(Encodings)
         /\ Len([k \in 1..n |-> e]) = n
         /\ Append([k \in 1..n |-> e], e) = [k \in 1..(n + 1) |-> e]
<1> DEFINE s == [k \in 1..n |-> e]
<1>1. s \in Seq(Encodings) /\ Len(s) = n /\ \A k \in 1..n : s[k] = e
  OBVIOUS
<1> DEFINE a == Append(s, e)
           b == [k \in 1..(n + 1) |-> e]
<1>2. a \in Seq(Encodings) /\ Len(a) = n + 1 /\ \A k \in 1..(n + 1) : a[k] = e
  <2> HIDE DEF s
  <2> QED
    BY <1>1
<1>3. b \in Seq(Encodings) /\ Len(b) = n + 1 /\ \A k \in 1..(n + 1) : b[k] = e
  OBVIOUS
<1>4. a = b
  <2> HIDE DEF a, b
  <2> QED
    BY <1>2, <1>3
<1> QED
  BY <1>1, <1>4

\* A part file cut to an offset.
LEMMA Prefix ==
  ASSUME NEW s \in Seq(Encodings), NEW n \in Nat, n <= Len(s)
  PROVE  /\ SubSeq(s, 1, n) \in Seq(Encodings)
         /\ Len(SubSeq(s, 1, n)) = n
         /\ \A k \in 1..n : SubSeq(s, 1, n)[k] = s[k] /\ k \in 1..Len(s)
OBVIOUS

\* A file whose chunks are all of one encoding is a piece of it.
LEMMA AllOfOne ==
  ASSUME NEW s \in Seq(Encodings), NEW e \in Encodings, \A k \in 1..Len(s) : s[k] = e
  PROVE  s = [k \in 1..Len(s) |-> e]
OBVIOUS

\* While bytes are fetched the row is the only version of its download.
LEMMA OnlyRow ==
  ASSUME LInv, NEW t \in runner, t.at = "fetch" \/ (t.at = "begin" /\ ~t.cancelled)
  PROVE  /\ pump = {}
         /\ \A i \in 1..Len(saves) :
              /\ saves[i].kind # "done"
              /\ saves[i].kind \in {"claim", "retry"} => saves[i].old.id # t.id
<1>1. pump = {} /\ \A i \in 1..Len(saves) : saves[i].kind \notin Awaited
  BY OneRuns DEF LInv, Awaited
<1>2. \A i \in 1..Len(saves) : saves[i].kind = "retry" => saves[i].old.id # t.id
  BY DEF LInv, Restored, Doomed
<1> QED
  BY <1>1, <1>2 DEF Awaited

\* What a step that changes the files of one download has to respect.
LEMMA FilesMove ==
  ASSUME FInv, NEW id0 \in Ids, phase' = "swapped" \/ phase # "swapped",
         NEW file \in Seq(Encodings), Len(file) \in Sizes,
         NEW final \in Seq(Encodings), Len(final) \in Sizes, Whole(final),
         parts' = [parts EXCEPT ![id0] = file], owned' = [owned EXCEPT ![id0] = final],
         \A r \in rows' : r.id \in Ids /\ (r.state = "available" =>
           IF r.id = id0 THEN final # <<>> /\ Len(final) = r.len ELSE r \in rows),
         \A r \in Versions' : r.id \in Ids /\ (r.off > 0 =>
           IF r.id = id0 THEN \A k \in 1..Len(file) : file[k] = r.len
           ELSE \E s \in Versions : s.id = r.id /\ s.off = r.off /\ s.len = r.len),
         \A i \in 1..Len(saves') : saves'[i].kind = "done" =>
           /\ saves'[i].old.id \in Ids
           /\ IF saves'[i].old.id = id0 THEN file = <<>>
              ELSE \E j \in 1..Len(saves) : saves[j].kind = "done" /\ saves[j].old.id = saves'[i].old.id,
         \A u \in runner' : Fed(u)'
  PROVE  FileShapes' /\ Files'
<1>1. /\ \A id \in Ids : parts'[id] = (IF id = id0 THEN file ELSE parts[id])
      /\ \A id \in Ids : owned'[id] = (IF id = id0 THEN final ELSE owned[id])
      /\ parts' \in [Ids -> Seq(Encodings)] /\ owned' \in [Ids -> Seq(Encodings)]
  BY DEF FInv, FileShapes
<1>2. FileShapes'
  BY <1>1 DEF FInv, FileShapes
<1>3. \A id \in Ids : Whole(owned'[id])
  <2> SUFFICES ASSUME NEW id \in Ids PROVE Whole(owned'[id])
    OBVIOUS
  <2>1. owned'[id] = final \/ owned'[id] = owned[id]
    BY <1>1
  <2>2. Whole(owned[id])
    BY DEF FInv, Files
  <2> QED
    BY <2>1, <2>2, Zenon
<1>4. phase' # "swapped" => \A r \in rows' : r.state = "available" => Intact(r)'
  BY <1>1 DEF FInv, Files, Intact
<1>5. \A r \in Versions' : Described(r)'
  <2> SUFFICES ASSUME NEW r \in Versions', r.off > 0, NEW k \in 1..Len(parts'[r.id])
               PROVE  parts'[r.id][k] = r.len
    BY DEF Described
  <2>1. CASE r.id = id0
    BY <2>1, <1>1
  <2>2. CASE r.id # id0
    <3>1. PICK s \in Versions : s.id = r.id /\ s.off = r.off /\ s.len = r.len
      BY <2>2
    <3>2. Described(s) /\ parts'[r.id] = parts[r.id]
      BY <2>2, <1>1 DEF FInv, Files
    <3> QED
      BY <3>1, <3>2 DEF Described
  <2> QED
    BY <2>1, <2>2
<1>6. \A i \in 1..Len(saves') : saves'[i].kind = "done" => parts'[saves'[i].old.id] = <<>>
  <2> SUFFICES ASSUME NEW i \in 1..Len(saves'), saves'[i].kind = "done"
               PROVE  parts'[saves'[i].old.id] = <<>>
    OBVIOUS
  <2>1. CASE saves'[i].old.id = id0
    BY <2>1, <1>1
  <2>2. CASE saves'[i].old.id # id0
    <3>1. PICK j \in 1..Len(saves) : saves[j].kind = "done" /\ saves[j].old.id = saves'[i].old.id
      BY <2>2
    <3> QED
      BY <2>2, <3>1, <1>1 DEF FInv, Files
  <2> QED
    BY <2>1, <2>2
<1> QED
  BY <1>2, <1>3, <1>4, <1>5, <1>6 DEF Files, Whole

\* A runner that settles without its file touches none.
LEMMA FilesSettles ==
  ASSUME LInv, FInv, NEW t \in runner, t.at \in {"mint", "begin", "fetch"}, NEW kind, SettleFailed(t, kind),
         kind = "invalid-response" => t.at # "mint",
         UNCHANGED <<phase, disk, parts, owned, told>>
  PROVE  FInv'
<1>1. CASE Unowned(t.id)
  <2>1. runner' = {} /\ pump' \in Picks(rows, {}) /\ rows' = rows /\ saves' = saves
    BY <1>1 DEF SettleFailed, End
  <2>2. pump' \subseteq pump \cup rows
    BY <2>1, Picking
  <2>3. OnDisk'
    <3>1. Corrected => Corrected'
      BY <2>1 DEF Corrected
    <3>2. ASSUME NEW r \in disk, Moving(r) PROVE Described(r)
      <4>1. PICK s \in rows : s.id = t.id /\ s.id = r.id /\ (s.state = "transferring" \/ (s.off = r.off /\ s.len = r.len))
        BY <3>2, OneRuns DEF Moving, LInv
      <4>2. s.off = r.off /\ s.len = r.len
        BY <1>1, <4>1 DEF Unowned
      <4>3. Described(s)
        BY DEF FInv, Files, Versions
      <4> QED
        BY <4>1, <4>2, <4>3 DEF Described
    <3>3. \A r \in disk : Moving(r) \/ Settled(r) => Settled(r)'
      BY <2>1, <3>2 DEF Settled, Described
    <3> QED
      BY <3>1, <3>3, DiskStays DEF FInv
  <2> QED
    BY <2>1, <2>2, <2>3, FilesIdle
<1>2. CASE ~Unowned(t.id)
  <2> DEFINE after == At(rows, t.id)
             reset == kind = "invalid-response" /\ t.tries = 0 /\ t.off > 0
             row == IF reset THEN [after EXCEPT !.off = 0] ELSE In(after, "failed_with_retry")
             u == IF reset THEN [t EXCEPT !.at = "reset", !.enc = 0, !.start = 0] ELSE Runner(t.id, "fail")
             k == IF reset THEN "reset" ELSE "fail"
  <2>1. /\ rows' = Put(rows, row) /\ saves' = Queue(k, after) /\ runner' = {u} /\ pump' = pump
    BY <1>2 DEF SettleFailed
  <2>2. after \in rows /\ after.id = t.id /\ after.state \notin {"removing", "requested"}
        /\ after \in Entries /\ after \in Versions
    BY <1>2, Owned DEF LInv, Ledgers, Shapes, Versions
  <2>3. after.state # "available"
    BY <2>2 DEF LInv, Attended, Fits
  <2> HIDE DEF after
  <2>4. /\ row.state # "available" /\ row.id = t.id
        /\ row.off = 0 \/ (row.off = after.off /\ row.len = after.len)
    <3>1. CASE reset
      BY <2>2, <2>3, <3>1 DEF Entries
    <3>2. CASE ~reset
      BY <2>2, <3>2, Changed DEF States
    <3> QED
      BY <3>1, <3>2
  <2>5. Fed(u)
    <3>1. CASE reset
      <4>1. u.at = "reset" /\ u.first = t.first
        BY <3>1 DEF LInv, Shapes, Transfers
      <4>2. Fed(t) /\ t.at \in {"begin", "fetch"}
        BY <3>1 DEF FInv, Files
      <4>3. u.first \in Encodings
        BY <4>1, <4>2 DEF Fed
      <4> HIDE DEF u
      <4> QED
        BY <4>1, <4>3 DEF Fed
    <3>2. CASE ~reset
      <4>1. u.at = "fail"
        BY <3>2 DEF Runner
      <4> HIDE DEF u
      <4> QED
        BY <4>1 DEF Fed
    <3> QED
      BY <3>1, <3>2
  <2>6. k \in Sure
    BY DEF Sure
  <2> HIDE DEF row, u, k
  <2>7. row.off = 0 \/ \E s \in Versions : s.id = row.id /\ s.off = row.off /\ s.len = row.len
    BY <2>2, <2>4
  <2> QED
    BY <2>1, <2>2, <2>4, <2>5, <2>6, <2>7, FilesCorrected
<1> QED
  BY <1>1, <1>2

\* A runner that has minted knows where its part file can be resumed.
LEMMA FilesMinted ==
  ASSUME LInv, FInv, NEW t \in runner, Minted(t)
  PROVE  FInv'
<1>1. t.at = "mint" /\ UNCHANGED <<phase, disk, parts, owned, told>> /\ runner = {t}
  BY OneRuns DEF Minted, LInv
<1>2. CASE SettleFailed(t, "transient")
  BY <1>1, <1>2, FilesSettles
<1>3. ASSUME \A u \in runner' : u.at # "fetch" /\ Fed(u), Corrected => Corrected'
      PROVE  OnDisk'
  BY <1>1, <1>3, DiskStaysPut DEF FInv
<1>4. CASE Unowned(t.id) /\ End(rows) /\ UNCHANGED <<rows, saves>>
  <2>1. runner' = {} /\ pump' \subseteq pump \cup rows
    BY <1>4, Picking DEF End
  <2>2. OnDisk'
    BY <1>3, <1>4, <2>1 DEF Corrected
  <2> QED
    BY <1>1, <1>4, <2>1, <2>2, FilesIdle
<1>5. CASE /\ ~Unowned(t.id) /\ Room
           /\ \E e \in Encodings :
                LET fresh == At(rows, t.id)
                IN  /\ saves' = Queue("minted", fresh)
                    /\ runner' = {[t EXCEPT !.at = "minted", !.first = e, !.enc = e,
                                            !.off = fresh.off, !.len = fresh.len]}
           /\ UNCHANGED <<rows, pump>>
  <2> DEFINE r == At(rows, t.id)
  <2>1. r \in rows /\ r.id = t.id /\ r \in Entries /\ r \in Versions
    BY <1>5, Owned DEF LInv, Ledgers, Shapes, Versions
  <2>2. PICK e \in Encodings :
          /\ saves' = Queue("minted", r)
          /\ runner' = {[t EXCEPT !.at = "minted", !.first = e, !.enc = e, !.off = r.off, !.len = r.len]}
    BY <1>5
  <2> DEFINE u == [t EXCEPT !.at = "minted", !.first = e, !.enc = e, !.off = r.off, !.len = r.len]
  <2>3. u.at = "minted" /\ u.first = e /\ u.enc = e /\ u.off = r.off /\ u.len = r.len /\ u.id = t.id
        /\ runner' = {u}
    BY <2>2 DEF LInv, Shapes, Transfers
  <2>4. r.off <= r.len /\ Described(r)
    BY <2>1 DEF LInv, Numbers, Known, FInv, Files
  <2> HIDE DEF r, u
  <2>5. Fed(u)
    BY <2>1, <2>3, <2>4 DEF Fed, Described
  <2>6. Put(rows, r) = rows
    BY <2>1 DEF Put, Without, LInv, Ledgers, Unique
  <2>7. (Corrected => Corrected') /\ OnDisk'
    BY <2>1, <2>2, Corrects DEF Sure, LInv, OnDisk, Kinds
  <2>8. r.off = 0 \/ \E s \in Versions : s.id = r.id /\ s.off = r.off /\ s.len = r.len
    BY <2>1
  <2>9. \A q \in Versions' : q \in Versions
    <3>1. /\ \A i \in 1..Len(saves) : saves'[i] = saves[i]
          /\ saves'[Len(saves) + 1].kind = "minted"
          /\ \A i \in 1..Len(saves') : i \in 1..Len(saves) \/ i = Len(saves) + 1
      BY <2>1, <2>2, Joined DEF LInv, Kinds
    <3>2. ASSUME NEW q \in Versions', q \notin rows' \cup pump' PROVE q \in Versions
      <4>1. PICK i \in 1..Len(saves') : saves'[i].kind \in {"claim", "retry"} /\ q = saves'[i].old
        BY <3>2 DEF Versions
      <4> QED
        BY <4>1, <3>1 DEF Versions
    <3> QED
      BY <3>2, <1>5 DEF Versions
  <2>10. \A i \in 1..Len(saves') : saves'[i].kind = "done" =>
          \E j \in 1..Len(saves) : saves[j].kind = "done" /\ saves[j].old.id = saves'[i].old.id
    <3>1. /\ \A i \in 1..Len(saves) : saves'[i] = saves[i]
          /\ saves'[Len(saves) + 1].kind = "minted"
          /\ \A i \in 1..Len(saves') : i \in 1..Len(saves) \/ i = Len(saves) + 1
      BY <2>1, <2>2, Joined DEF LInv, Kinds
    <3> QED
      BY <3>1
  <2>11. FileShapes' /\ Files'
    BY <1>1, <1>5, <2>3, <2>5, <2>9, <2>10, FilesStay DEF FInv
  <2>12. Kept'
    BY <1>1, <1>5, KeptStays DEF FInv
  <2> QED
    BY <2>7, <2>11, <2>12 DEF FInv
<1> QED
  BY <1>2, <1>4, <1>5, Zenon DEF Minted

\* The sink opens: what is kept of the .part file is of the encoding to be fetched.
LEMMA FilesOpens ==
  ASSUME LInv, FInv, NEW t \in runner, t.at = "begin", ~t.cancelled,
         NEW start, start = ResumeAt(t), start <= Len(parts[t.id]),
         parts' = [parts EXCEPT ![t.id] = SubSeq(@, 1, start)],
         runner' = {[t EXCEPT !.at = "fetch", !.start = start, !.len = 0]},
         UNCHANGED <<phase, rows, disk, owned, pump, saves, told>>
  PROVE  FInv'
<1> DEFINE id0 == t.id
           old == parts[id0]
           file == SubSeq(old, 1, start)
           u == [t EXCEPT !.at = "fetch", !.start = start, !.len = 0]
<1>1. /\ t \in Transfers /\ id0 \in Ids /\ old \in Seq(Encodings) /\ owned[id0] \in Seq(Encodings)
      /\ Len(owned[id0]) \in Sizes /\ Whole(owned[id0])
      /\ t.off \in Nat /\ t.len \in Nat /\ runner = {t} /\ pump = {}
  BY Sized, OneRuns DEF LInv, Shapes, Transfers, FInv, FileShapes, Files
<1>2. Fed(t) /\ t.enc \in Encodings /\ t.first \in Encodings /\ t.off <= t.len
      /\ (t.off > 0 => \A k \in 1..Len(old) : old[k] = t.len)
  BY DEF FInv, Files, Fed
<1>3. start \in Sizes /\ start \in Nat /\ (start > 0 => start = t.off /\ t.len = t.enc)
  <2>1. t.off \in Sizes /\ 0 \in Sizes
    BY Sized DEF LInv, Shapes, Transfers
  <2> QED
    BY <1>1, <1>2, <2>1 DEF ResumeAt
<1>4. /\ file \in Seq(Encodings) /\ Len(file) = start
      /\ \A k \in 1..start : file[k] = old[k] /\ k \in 1..Len(old)
  BY <1>1, <1>3, Prefix
<1>5. u.at = "fetch" /\ u.start = start /\ u.id = id0 /\ u.enc = t.enc /\ u.first = t.first
      /\ runner' = {u}
  BY <1>1 DEF Transfers
<1>6. /\ \A id \in Ids : parts'[id] = (IF id = id0 THEN file ELSE parts[id])
      /\ parts' = [parts EXCEPT ![id0] = file]
      /\ owned' = [owned EXCEPT ![id0] = owned[id0]]
  BY <1>1 DEF FInv, FileShapes
<1> HIDE DEF id0, old, file, u
<1>7. start <= t.enc /\ file = [k \in 1..start |-> t.enc]
  <2>1. \A k \in 1..Len(file) : file[k] = t.enc
    BY <1>2, <1>3, <1>4
  <2>2. start <= t.enc
    <3>1. t.enc \in Nat
      BY <1>2, Sized
    <3> QED
      BY <3>1, <1>1, <1>2, <1>3
  <2> QED
    BY <2>1, <2>2, <1>2, <1>4, AllOfOne
<1>8. Fed(u)'
  BY ZenonT(60), <1>1, <1>2, <1>5, <1>6, <1>7 DEF Fed
<1>9. Versions' = Versions /\ \A q \in Versions : q.id \in Ids
  BY KnownRows DEF Versions, LInv
<1>10. \A q \in Versions : q.off > 0 /\ q.id = id0 => \A k \in 1..Len(file) : file[k] = q.len
  BY <1>4 DEF FInv, Files, Described, old
<1>11. \A q \in rows : q.state = "available" => q.id # id0
  BY DEF LInv, Attended, Fits, id0
<1>12. \A i \in 1..Len(saves) : saves[i].kind # "done"
  BY OneRuns DEF LInv, Awaited
<1>13. FileShapes' /\ Files'
  <2>1. \A r \in rows' : r.id \in Ids /\ (r.state = "available" =>
           IF r.id = id0 THEN owned[id0] # <<>> /\ Len(owned[id0]) = r.len ELSE r \in rows)
    BY <1>11, KnownRows DEF LInv, Known
  <2>2. \A r \in Versions' : r.id \in Ids /\ (r.off > 0 =>
           IF r.id = id0 THEN \A k \in 1..Len(file) : file[k] = r.len
           ELSE \E s \in Versions : s.id = r.id /\ s.off = r.off /\ s.len = r.len)
    BY <1>9, <1>10
  <2>3. \A i \in 1..Len(saves') : saves'[i].kind = "done" =>
           /\ saves'[i].old.id \in Ids
           /\ IF saves'[i].old.id = id0 THEN file = <<>>
              ELSE \E j \in 1..Len(saves) : saves[j].kind = "done" /\ saves[j].old.id = saves'[i].old.id
    BY <1>12
  <2>4. \A v \in runner' : Fed(v)'
    BY <1>5, <1>8
  <2>5. Len(file) \in Sizes
    BY <1>3, <1>4
  <2> QED
    BY <1>1, <1>4, <1>6, <2>1, <2>2, <2>3, <2>4, <2>5, FilesMove
<1>14. OnDisk'
  <2>1. Corrected => Corrected'
    BY DEF Corrected
  <2>2. ASSUME ~Corrected, NEW r \in disk, r.state # "removing", Moving(r) \/ Settled(r)
        PROVE  Moving(r)' \/ Settled(r)'
    <3>1. Settled(r)
      BY <2>2, <1>1 DEF Moving
    <3>2. CASE r.id = id0
      <4>1. PICK s \in rows : s.id = id0
        BY DEF LInv, Attended, IdsOf, id0
      <4>2. s.state = "transferring"
        <5>1. ~Queued("demote", t.id) /\ ~Queued("mark", t.id)
          BY <2>2 DEF Corrected, Queued, Sure
        <5>2. Fits(s, t) /\ s.state \in States
          BY <4>1 DEF LInv, Attended, Shapes, Entries, id0
        <5> QED
          BY <5>1, <5>2 DEF Fits, Doomed, States
      <4>3. Moving(r)'
        BY <3>2, <4>1, <4>2, <1>5 DEF Moving
      <4> QED
        BY <4>3
    <3>3. CASE r.id # id0
      <4>1. r.id \in Ids
        BY KnownRows DEF LInv
      <4>2. parts'[r.id] = parts[r.id]
        BY <4>1, <3>3, <1>6
      <4> QED
        BY <3>1, <3>3, <4>2, <1>5 DEF Settled, Described
    <3> QED
      BY <3>2, <3>3
  <2> QED
    BY <2>1, <2>2, DiskStays DEF FInv
<1>15. Kept'
  BY KeptStays DEF FInv
<1> QED
  BY <1>13, <1>14, <1>15 DEF FInv

\* A runner that opens its sink, or does not.
LEMMA FilesBeginStep ==
  ASSUME LInv, FInv, NEW t \in runner, Begin(t)
  PROVE  FInv'
<1>1. t.at = "begin" /\ UNCHANGED <<phase, disk, owned, told>>
  BY DEF Begin
<1>2. CASE \E kind : SettleFailed(t, kind) /\ UNCHANGED parts
  BY <1>1, <1>2, FilesSettles
<1>3. CASE /\ ~t.cancelled /\ ResumeAt(t) <= Len(parts[t.id])
           /\ parts' = [parts EXCEPT ![t.id] = SubSeq(@, 1, ResumeAt(t))]
           /\ runner' = {[t EXCEPT !.at = "fetch", !.start = ResumeAt(t), !.len = 0]}
           /\ UNCHANGED <<rows, saves, pump>>
  BY <1>1, <1>3, FilesOpens
<1> QED
  BY <1>2, <1>3 DEF Begin

\* A chunk is appended to the .part file.
LEMMA Appended ==
  ASSUME LInv, FInv, NEW t \in runner, t.at = "fetch", t.start < t.enc,
         parts' = [parts EXCEPT ![t.id] = Append(@, t.enc)]
  PROVE  /\ t \in Transfers /\ t.id \in Ids /\ runner = {t}
         /\ t.enc \in Encodings /\ t.first \in Encodings /\ t.start + 1 <= t.enc
         /\ t.start + 1 \in Sizes /\ t.start + 1 \in Nat
         /\ parts'[t.id] = [k \in 1..(t.start + 1) |-> t.enc]
         /\ parts'[t.id] \in Seq(Encodings) /\ Len(parts'[t.id]) = t.start + 1
         /\ parts' = [parts EXCEPT ![t.id] = parts'[t.id]]
         /\ \A id \in Ids : id # t.id => parts'[id] = parts[id]
         /\ \A k \in 1..Len(parts'[t.id]) : parts'[t.id][k] = t.enc
<1>1. /\ t \in Transfers /\ t.id \in Ids /\ runner = {t} /\ t.start \in Nat
  BY Sized, OneRuns DEF LInv, Shapes, Transfers
<1>2. /\ t.enc \in Encodings /\ t.first \in Encodings /\ parts[t.id] = [k \in 1..t.start |-> t.enc]
  BY DEF FInv, Files, Fed
<1>3. t.start + 1 <= t.enc /\ t.start + 1 \in Sizes /\ t.start + 1 \in Nat
  <2>1. t.enc \in Nat
    BY <1>2, Sized
  <2>2. t.start + 1 <= t.enc /\ t.start + 1 \in Nat
    BY <2>1, <1>1
  <2> QED
    BY <2>2, <1>2, Sized
<1>4. parts'[t.id] = Append(parts[t.id], t.enc) /\ parts' = [parts EXCEPT ![t.id] = Append(parts[t.id], t.enc)]
      /\ \A id \in Ids : id # t.id => parts'[id] = parts[id]
  BY <1>1 DEF FInv, FileShapes
<1>5. parts'[t.id] = [k \in 1..(t.start + 1) |-> t.enc]
  BY <1>1, <1>2, <1>4, Uniform
<1>6. parts'[t.id] \in Seq(Encodings) /\ Len(parts'[t.id]) = t.start + 1
  <2> DEFINE n == t.start + 1
  <2>1. n \in Nat /\ parts'[t.id] = [k \in 1..n |-> t.enc]
    BY <1>3, <1>5
  <2> HIDE DEF n
  <2>2. parts'[t.id] \in Seq(Encodings) /\ Len(parts'[t.id]) = n
    <3>1. [k \in 1..n |-> t.enc] \in Seq(Encodings) /\ Len([k \in 1..n |-> t.enc]) = n
      BY <2>1, <1>2, Uniform
    <3> QED
      BY <2>1, <3>1
  <2> QED
    BY <2>2 DEF n
<1>7. \A k \in 1..Len(parts'[t.id]) : parts'[t.id][k] = t.enc
  BY <1>5, <1>6
<1> QED
  BY <1>1, <1>2, <1>3, <1>4, <1>5, <1>6, <1>7

\* The chunk is recorded in the row.
LEMMA FilesRecorded ==
  ASSUME LInv, FInv, NEW t \in runner, t.at = "fetch", t.start < t.enc, ~t.cancelled,
         parts' = [parts EXCEPT ![t.id] = Append(@, t.enc)],
         Progress(t, t.start + 1), runner' = {[t EXCEPT !.start = @ + 1]},
         UNCHANGED <<phase, disk, owned, pump, told>>
  PROVE  FInv'
<1> DEFINE id0 == t.id
           c == t.start + 1
           file == parts'[id0]
           u == [t EXCEPT !.start = @ + 1]
           r == At(rows, id0)
           next == [r EXCEPT !.off = c, !.len = t.enc]
<1>1. /\ t \in Transfers /\ id0 \in Ids /\ runner = {t}
      /\ t.enc \in Encodings /\ t.first \in Encodings /\ c <= t.enc /\ c \in Sizes /\ c \in Nat
      /\ file = [k \in 1..c |-> t.enc] /\ file \in Seq(Encodings) /\ Len(file) = c
      /\ parts' = [parts EXCEPT ![id0] = file]
      /\ \A id \in Ids : id # id0 => parts'[id] = parts[id]
      /\ \A k \in 1..Len(file) : file[k] = t.enc
  BY Appended
<1>2. /\ owned[id0] \in Seq(Encodings) /\ Len(owned[id0]) \in Sizes /\ Whole(owned[id0])
      /\ owned' = [owned EXCEPT ![id0] = owned[id0]]
  BY <1>1 DEF FInv, FileShapes, Files
<1>3. r \in rows /\ r.id = id0 /\ r \in Entries
  BY SomeRow DEF LInv, Attended, Shapes
<1>4. id0 \in IdsOf(rows)
  BY DEF LInv, Attended
<1>5. /\ rows' = Put(rows, next)
      /\ saves' = saves \/ saves' = Queue("checkpoint", next)
  BY <1>4 DEF Progress
<1>6. next \in Entries /\ next.id = id0 /\ next.off = c /\ next.len = t.enc /\ next.state = r.state
  BY <1>1, <1>3, Sized DEF Entries
<1>7. u.at = "fetch" /\ u.id = id0 /\ u.start = c /\ u.enc = t.enc /\ u.first = t.first /\ runner' = {u}
  BY DEF LInv, Shapes, Transfers
<1>8. Fits(r, t)
  BY <1>3 DEF LInv, Attended
<1> HIDE DEF id0, c, file, u, r, next
<1>9. Fed(u)'
  BY <1>1, <1>7 DEF Fed, file
<1>10. \A q : q \in rows' <=> q = next \/ (q \in rows /\ q.id # id0)
  BY <1>5, <1>6, Putting
<1>11. /\ \A i \in 1..Len(saves') : saves'[i].kind # "checkpoint" => i \in 1..Len(saves) /\ saves'[i] = saves[i]
       /\ Corrected => Corrected'
  <2>1. CASE saves' = saves
    BY <2>1 DEF Corrected
  <2>2. CASE saves' = Queue("checkpoint", next)
    BY <2>2, <1>6, Joined, Corrects DEF LInv, Kinds
  <2> QED
    BY <2>1, <2>2, <1>5
<1>12. /\ pump = {}
       /\ \A i \in 1..Len(saves) : saves[i].kind # "done" /\ (saves[i].kind \in {"claim", "retry"} => saves[i].old.id # id0)
  BY OnlyRow DEF id0
<1>13. \A q \in Versions' : q = next \/ (q \in Versions /\ q.id # id0)
  <2>1. ASSUME NEW q \in Versions', q \notin rows' PROVE q \in Versions /\ q.id # id0
    <3>1. PICK i \in 1..Len(saves') : saves'[i].kind \in {"claim", "retry"} /\ q = saves'[i].old
      BY <2>1, <1>12 DEF Versions
    <3> QED
      BY <3>1, <1>11, <1>12 DEF Versions
  <2> QED
    BY <2>1, <1>10 DEF Versions
<1>14. FileShapes' /\ Files'
  <2>1. \A q \in rows' : q.id \in Ids /\ (q.state = "available" =>
           IF q.id = id0 THEN owned[id0] # <<>> /\ Len(owned[id0]) = q.len ELSE q \in rows)
    <3>1. next.state # "available"
      BY <1>6, <1>8 DEF Fits
    <3> QED
      BY <3>1, <1>1, <1>6, <1>10, KnownRows DEF LInv, Known
  <2>2. \A q \in Versions' : q.id \in Ids /\ (q.off > 0 =>
           IF q.id = id0 THEN \A k \in 1..Len(file) : file[k] = q.len
           ELSE \E s \in Versions : s.id = q.id /\ s.off = q.off /\ s.len = q.len)
    <3>1. \A q \in Versions : q.id \in Ids
      BY KnownRows DEF LInv
    <3> QED
      BY <3>1, <1>1, <1>6, <1>13
  <2>3. \A i \in 1..Len(saves') : saves'[i].kind # "done"
    BY <1>11, <1>12
  <2>4. \A v \in runner' : Fed(v)'
    BY <1>7, <1>9
  <2>5. /\ Len(file) \in Sizes /\ id0 \in Ids /\ file \in Seq(Encodings)
        /\ parts' = [parts EXCEPT ![id0] = file]
    BY <1>1
  <2>6. \A i \in 1..Len(saves') : saves'[i].kind = "done" =>
           /\ saves'[i].old.id \in Ids
           /\ IF saves'[i].old.id = id0 THEN file = <<>>
              ELSE \E j \in 1..Len(saves) : saves[j].kind = "done" /\ saves[j].old.id = saves'[i].old.id
    BY <2>3
  <2> QED
    BY <1>2, <2>1, <2>2, <2>4, <2>5, <2>6, FilesMove
<1>15. OnDisk'
  <2>1. ASSUME ~Corrected, NEW d \in disk, d.state # "removing", Moving(d) \/ Settled(d)
        PROVE  Moving(d)' \/ Settled(d)'
    <3>1. CASE d.id = id0
      <4>1. ~Queued("demote", t.id) /\ ~Queued("mark", t.id)
        BY <2>1 DEF Corrected, Queued, Sure
      <4>2. r.state \in States
        BY <1>3 DEF Entries
      <4>3. r.state = "transferring"
        BY <4>1, <4>2, <1>8 DEF Fits, Doomed, States
      <4>4. next \in rows' /\ next.state = "transferring"
        BY <4>3, <1>6, <1>10
      <4>5. Moving(d)'
        BY <3>1, <4>4, <1>6, <1>7 DEF Moving
      <4> QED
        BY <4>5
    <3>2. CASE d.id # id0
      <4>1. Settled(d)
        BY <2>1, <3>2, <1>1 DEF Moving, id0
      <4>2. parts'[d.id] = parts[d.id]
        BY <3>2, <1>1, KnownRows DEF LInv
      <4> QED
        BY <3>2, <4>1, <4>2, <1>7 DEF Settled, Described
    <3> QED
      BY <3>1, <3>2
  <2> QED
    BY <2>1, <1>11, DiskStays DEF FInv
<1>16. Kept'
  <2>1. \A id \in IdsOf(rows) : id \in IdsOf(rows')
    BY <1>6, <1>10 DEF IdsOf
  <2> QED
    BY <2>1, KeptStays DEF FInv
<1> QED
  BY <1>14, <1>15, <1>16 DEF FInv

\* The chunk of a cancelled transfer: written, but the ledger does not hear of it.
LEMMA FilesUnrecorded ==
  ASSUME LInv, FInv, Reliable, NEW t \in runner, Chunk(t), t.cancelled
  PROVE  FInv'
<1> DEFINE id0 == t.id
           file == parts'[id0]
<1>1. /\ t.at = "fetch" /\ t.start < t.enc
      /\ parts' = [parts EXCEPT ![t.id] = Append(@, t.enc)]
      /\ SettleFailed(t, "cancelled")
      /\ \A q \in rows : q.id = t.id => q.off = 0 \/ q.len = t.enc
      /\ UNCHANGED <<phase, disk, owned, told>>
  BY DEF Chunk, Reliable
<1>2. /\ id0 \in Ids /\ runner = {t}
      /\ file \in Seq(Encodings) /\ Len(file) \in Sizes
      /\ parts' = [parts EXCEPT ![id0] = file]
      /\ \A id \in Ids : id # id0 => parts'[id] = parts[id]
      /\ \A k \in 1..Len(file) : file[k] = t.enc
  BY <1>1, Appended
<1>3. /\ owned[id0] \in Seq(Encodings) /\ Len(owned[id0]) \in Sizes /\ Whole(owned[id0])
      /\ owned' = [owned EXCEPT ![id0] = owned[id0]]
  BY <1>1, <1>2 DEF FInv, FileShapes, Files
<1>4. /\ pump = {}
      /\ \A i \in 1..Len(saves) : saves[i].kind # "done" /\ (saves[i].kind \in {"claim", "retry"} => saves[i].old.id # id0)
  BY <1>1, OnlyRow
<1>5. \A q \in Versions : q.id = id0 => q \in rows
  BY <1>4 DEF Versions
<1>6. \A q \in rows : q.id = id0 => q.off = 0 \/ q.len = t.enc
  BY <1>1
<1> HIDE DEF id0, file
<1>7. /\ \A q \in Versions' : q.id = id0 => q.off = 0 \/ q.len = t.enc
      /\ \A q \in Versions' : q.id # id0 => \E s \in Versions : s.id = q.id /\ s.off = q.off /\ s.len = q.len
      /\ \A q \in Versions' : q.id \in Ids
      /\ \A q \in rows' : q.state = "available" => q \in rows
      /\ \A q \in rows' : q.id \in Ids
      /\ \A i \in 1..Len(saves') : saves'[i].kind # "done"
      /\ \A u \in runner' : u.at = "fail"
      /\ OnDisk'
      /\ \A id \in IdsOf(rows) : id \in IdsOf(rows')
  <2>0. /\ \A q \in Versions : q.id \in Ids
        /\ \A q \in rows : q.id \in Ids /\ q \in Versions /\ q \in Entries
    BY KnownRows DEF LInv, Versions, Shapes
  <2>1. CASE Unowned(id0)
    <3>1. runner' = {} /\ pump' \in Picks(rows, {}) /\ rows' = rows /\ saves' = saves
      BY <1>1, <2>1 DEF SettleFailed, End, id0
    <3>2. pump' \subseteq pump \cup rows
      BY <3>1, Picking
    <3>3. Versions' \subseteq Versions
      BY <3>1, <3>2 DEF Versions
    <3>4. OnDisk'
      <4>1. Corrected => Corrected'
        BY <3>1 DEF Corrected
      <4>2. ASSUME NEW d \in disk, Moving(d) \/ Settled(d), d.id = id0, d.off > 0 PROVE d.len = t.enc
        <5>1. PICK s \in rows : s.id = d.id /\ (s.state = "transferring" \/ (s.off = d.off /\ s.len = d.len))
          BY <4>2, <1>1 DEF Moving, Settled, id0
        <5>2. s.off = d.off /\ s.len = d.len
          BY <2>1, <4>2, <5>1 DEF Unowned
        <5>3. s.off = 0 \/ s.len = t.enc
          BY <1>6, <4>2, <5>1
        <5> QED
          BY <4>2, <5>2, <5>3
      <4>3. ASSUME NEW d \in disk, Moving(d) \/ Settled(d) PROVE Described(d)'
        <5>1. CASE d.id = id0
          BY <5>1, <4>2, <4>3, <1>2 DEF Described, file
        <5>2. CASE d.id # id0
          <6>1. Settled(d) /\ d.id \in Ids
            BY <4>3, <5>2, <1>2, KnownRows DEF Moving, id0, LInv
          <6> QED
            BY <5>2, <6>1, <1>2 DEF Settled, Described
        <5> QED
          BY <5>1, <5>2
      <4>4. \A d \in disk : Moving(d) \/ Settled(d) => Settled(d)'
        BY <3>1, <4>3 DEF Settled
      <4> QED
        BY <4>1, <4>4, <1>1, DiskStays DEF FInv
    <3> QED
      BY <2>0, <3>1, <3>3, <3>4, <1>4, <1>5, <1>6
  <2>2. CASE ~Unowned(id0)
    <3> DEFINE after == At(rows, id0)
               row == In(after, "failed_with_retry")
    <3>1. /\ rows' = Put(rows, row) /\ saves' = Queue("fail", after)
          /\ runner' = {Runner(id0, "fail")} /\ pump' = pump
      BY <1>1, <2>2 DEF SettleFailed, id0
    <3>2. after \in rows /\ after.id = id0 /\ after \in Entries /\ after \in Versions
      BY <2>2, Owned DEF LInv, Ledgers, Shapes, Versions
    <3> HIDE DEF after
    <3>3. row.id = id0 /\ row.state = "failed_with_retry" /\ row.off = after.off /\ row.len = after.len
      BY <3>2, Changed DEF States
    <3>4. \A q : q \in rows' <=> q = row \/ (q \in rows /\ q.id # id0)
      BY <3>1, <3>3, Putting
    <3> HIDE DEF row
    <3>5. /\ \A i \in 1..Len(saves') : saves'[i].kind # "fail" => i \in 1..Len(saves) /\ saves'[i] = saves[i]
          /\ Corrected'
      BY <3>1, <3>2, Joined, Corrects DEF LInv, Kinds, Sure
    <3>6. \A q \in Versions' : q = row \/ q \in Versions
      <4>1. ASSUME NEW q \in Versions', q \notin rows' \cup pump' PROVE q \in Versions
        <5>1. PICK i \in 1..Len(saves') : saves'[i].kind \in {"claim", "retry"} /\ q = saves'[i].old
          BY <4>1 DEF Versions
        <5> QED
          BY <5>1, <3>5 DEF Versions
      <4> QED
        BY <4>1, <3>1, <3>4 DEF Versions
    <3>7. \A u \in runner' : u.at = "fail"
      BY <3>1 DEF Runner
    <3>8. OnDisk'
      BY <3>5 DEF OnDisk
    <3>9. \A q \in Versions' : q.id = id0 => q.off = 0 \/ q.len = t.enc
      BY <3>2, <3>3, <3>6, <1>5, <1>6
    <3>10. /\ \A q \in Versions' : q.id # id0 => \E s \in Versions : s.id = q.id /\ s.off = q.off /\ s.len = q.len
           /\ \A q \in Versions' : q.id \in Ids
      BY <2>0, <3>3, <3>6, <1>2
    <3>11. /\ \A q \in rows' : q.state = "available" => q \in rows
           /\ \A q \in rows' : q.id \in Ids
           /\ \A id \in IdsOf(rows) : id \in IdsOf(rows')
      BY <2>0, <3>3, <3>4, <1>2 DEF IdsOf
    <3>12. \A i \in 1..Len(saves') : saves'[i].kind # "done"
      BY <3>5, <1>4
    <3> QED
      BY <3>7, <3>8, <3>9, <3>10, <3>11, <3>12
  <2> QED
    BY <2>1, <2>2
<1>8. \A q \in rows : q.state = "available" => q.id # id0
  BY <1>1 DEF LInv, Attended, Fits, id0
<1>9. FileShapes' /\ Files'
  <2>1. \A q \in rows' : q.id \in Ids /\ (q.state = "available" =>
           IF q.id = id0 THEN owned[id0] # <<>> /\ Len(owned[id0]) = q.len ELSE q \in rows)
    BY <1>7, <1>8
  <2>2. \A q \in Versions' : q.id \in Ids /\ (q.off > 0 =>
           IF q.id = id0 THEN \A k \in 1..Len(file) : file[k] = q.len
           ELSE \E s \in Versions : s.id = q.id /\ s.off = q.off /\ s.len = q.len)
    <3> SUFFICES ASSUME NEW q \in Versions', q.off > 0
                 PROVE  IF q.id = id0 THEN \A k \in 1..Len(file) : file[k] = q.len
                        ELSE \E s \in Versions : s.id = q.id /\ s.off = q.off /\ s.len = q.len
      BY <1>7
    <3>1. CASE q.id = id0
      <4>1. q.len = t.enc
        BY <3>1, <1>7
      <4> QED
        BY <3>1, <4>1, <1>2
    <3>2. CASE q.id # id0
      BY <3>2, <1>7
    <3> QED
      BY <3>1, <3>2
  <2>4. \A v \in runner' : Fed(v)'
    BY <1>7 DEF Fed
  <2>6. \A i \in 1..Len(saves') : saves'[i].kind = "done" =>
           /\ saves'[i].old.id \in Ids
           /\ IF saves'[i].old.id = id0 THEN file = <<>>
              ELSE \E j \in 1..Len(saves) : saves[j].kind = "done" /\ saves[j].old.id = saves'[i].old.id
    BY <1>7
  <2>7. id0 \in Ids /\ file \in Seq(Encodings) /\ Len(file) \in Sizes /\ parts' = [parts EXCEPT ![id0] = file]
    BY <1>2
  <2> QED
    BY <1>1, <1>3, <2>1, <2>2, <2>4, <2>6, <2>7, FilesMove
<1>10. Kept'
  BY <1>1, <1>7, KeptStays DEF FInv
<1> QED
  BY <1>7, <1>9, <1>10 DEF FInv

\* A chunk that arrives, or does not.
LEMMA FilesFetch ==
  ASSUME LInv, FInv, Reliable, NEW t \in runner, Chunk(t) \/ ChunkFails(t)
  PROVE  FInv'
<1>1. CASE Chunk(t) /\ t.cancelled
  BY <1>1, FilesUnrecorded
<1>2. CASE Chunk(t) /\ ~t.cancelled
  BY <1>2, FilesRecorded DEF Chunk
<1>3. CASE ChunkFails(t)
  <2>1. \E kind : SettleFailed(t, kind)
    BY <1>3 DEF ChunkFails
  <2> QED
    BY <1>3, <2>1, FilesSettles DEF ChunkFails
<1> QED
  BY <1>1, <1>2, <1>3

\* Another encoding answers: the bytes of the first are discarded.
LEMMA FilesRemint ==
  ASSUME LInv, FInv, NEW t \in runner, Remint(t)
  PROVE  FInv'
<1> DEFINE id0 == t.id
<1>1. /\ t.at = "fetch" /\ ~t.cancelled /\ parts' = [parts EXCEPT ![id0] = <<>>]
      /\ UNCHANGED <<phase, rows, disk, owned, pump, saves, told>>
  BY DEF Remint
<1>2. PICK e \in Encodings : runner' = {[t EXCEPT !.enc = e, !.start = 0]}
  BY DEF Remint
<1> DEFINE u == [t EXCEPT !.enc = e, !.start = 0]
<1>3. /\ u.id = id0 /\ u.at = "fetch" /\ u.enc = e /\ u.start = 0 /\ u.first = t.first /\ runner' = {u}
      /\ id0 \in Ids /\ runner = {t}
  BY <1>1, <1>2, OneRuns DEF LInv, Shapes, Transfers
<1>4. <<>> \in Seq(Encodings) /\ Len(<<>>) = 0 /\ 0 \in Sizes /\ <<>> = [k \in 1..0 |-> e] /\ e \in Nat
  BY Sized, AllOfOne
<1>5. /\ owned[id0] \in Seq(Encodings) /\ Len(owned[id0]) \in Sizes /\ Whole(owned[id0])
      /\ owned' = [owned EXCEPT ![id0] = owned[id0]]
      /\ \A id \in Ids : parts'[id] = (IF id = id0 THEN <<>> ELSE parts[id])
  BY <1>1, <1>3 DEF FInv, FileShapes, Files
<1>6. \A q \in rows : q.state = "available" => q.id # id0
  BY <1>1 DEF LInv, Attended, Fits
<1>7. /\ \A i \in 1..Len(saves) : saves[i].kind # "done"
      /\ \A q \in Versions : q.id \in Ids
      /\ \A q \in rows : q.id \in Ids
      /\ \A d \in disk : d.id \in Ids
  BY <1>1, OnlyRow, KnownRows DEF LInv, Known
<1>8. t.first \in Encodings
  BY <1>1 DEF FInv, Files, Fed
<1> HIDE DEF id0, u
<1>9. \A v \in runner' : Fed(v)'
  BY <1>3, <1>4, <1>5, <1>8 DEF Fed
<1>10. Versions' = Versions
  BY <1>1 DEF Versions
<1>11. FileShapes' /\ Files'
  <2>1. \A r \in rows' : r.id \in Ids /\ (r.state = "available" =>
           IF r.id = id0 THEN owned[id0] # <<>> /\ Len(owned[id0]) = r.len ELSE r \in rows)
    BY <1>1, <1>6, <1>7
  <2>2. \A r \in Versions' : r.id \in Ids /\ (r.off > 0 =>
           IF r.id = id0 THEN \A k \in 1..Len(<<>>) : <<>>[k] = r.len
           ELSE \E s \in Versions : s.id = r.id /\ s.off = r.off /\ s.len = r.len)
    BY <1>4, <1>7, <1>10
  <2>3. \A i \in 1..Len(saves') : saves'[i].kind = "done" =>
           /\ saves'[i].old.id \in Ids
           /\ IF saves'[i].old.id = id0 THEN <<>> = <<>>
              ELSE \E j \in 1..Len(saves) : saves[j].kind = "done" /\ saves[j].old.id = saves'[i].old.id
    BY <1>1, <1>7
  <2>4. parts' = [parts EXCEPT ![id0] = <<>>]
    BY <1>1 DEF id0
  <2> DEFINE file == <<>>
  <2>5. file \in Seq(Encodings) /\ Len(file) \in Sizes
    BY <1>4
  <2> QED
    BY <1>1, <1>3, <1>5, <1>9, <2>1, <2>2, <2>3, <2>4, <2>5, FilesMove
<1>12. OnDisk'
  <2>1. Corrected => Corrected'
    BY <1>1 DEF Corrected
  <2>2. ASSUME NEW d \in disk, Moving(d) \/ Settled(d) PROVE Moving(d)' \/ Settled(d)'
    <3>1. CASE d.id = id0
      BY <2>2, <3>1, <1>1, <1>3 DEF Moving, Settled, id0
    <3>2. CASE d.id # id0
      <4>1. Settled(d)
        BY <2>2, <3>2, <1>3 DEF Moving, id0
      <4> QED
        BY <3>2, <4>1, <1>3, <1>5, <1>7 DEF Settled, Described
    <3> QED
      BY <3>1, <3>2
  <2> QED
    BY <2>1, <2>2, <1>1, DiskStays DEF FInv
<1>13. Kept'
  BY <1>1, KeptStays DEF FInv
<1> QED
  BY <1>11, <1>12, <1>13 DEF FInv

\* The .part file becomes the owned file.
LEMMA FilesFinalize ==
  ASSUME LInv, FInv, NEW t \in runner, Finalize(t)
  PROVE  /\ FInv'
         /\ \A r \in disk : r.id \in told => owned'[r.id] = owned[r.id]
<1> DEFINE id0 == t.id
           final == parts[id0]
<1>1. /\ t.at = "fetch" /\ ~t.cancelled /\ t.start >= t.enc
      /\ parts' = [parts EXCEPT ![id0] = <<>>] /\ owned' = [owned EXCEPT ![id0] = final]
      /\ UNCHANGED <<phase, disk, told>>
  BY DEF Finalize
<1>2. /\ id0 \in Ids /\ runner = {t} /\ t.enc \in Encodings /\ t.start \in Nat /\ t.enc \in Nat \ {0}
      /\ t.start <= t.enc /\ final = [k \in 1..t.start |-> t.enc]
  BY <1>1, OneRuns, Sized DEF LInv, Shapes, Transfers, FInv, Files, Fed
<1>3. t.start = t.enc
  BY <1>1, <1>2
<1>4. /\ final \in Seq(Encodings) /\ Len(final) = t.start /\ Len(final) \in Sizes /\ final # <<>>
      /\ Whole(final)
  <2>1. final \in Seq(Encodings) /\ Len(final) = t.start
    BY <1>2, Uniform
  <2>2. Whole(final)
    BY <1>2, <1>3 DEF Whole
  <2> HIDE DEF final
  <2>3. final # <<>> /\ Len(final) \in Sizes
    BY <2>1, <1>2, <1>3, Sized
  <2> QED
    BY <2>1, <2>2, <2>3
<1>5. <<>> \in Seq(Encodings) /\ Len(<<>>) = 0 /\ 0 \in Sizes
  BY Sized
<1>6. /\ \A id \in Ids : parts'[id] = (IF id = id0 THEN <<>> ELSE parts[id])
      /\ \A id \in Ids : owned'[id] = (IF id = id0 THEN final ELSE owned[id])
  BY <1>1 DEF FInv, FileShapes
<1>7. /\ \A i \in 1..Len(saves) : saves[i].kind # "done"
      /\ pump = {}
      /\ \A q \in Versions : q.id \in Ids
      /\ \A q \in rows : q.id \in Ids /\ q \in Versions /\ q \in Entries
      /\ \A d \in disk : d.id \in Ids
  BY <1>1, OnlyRow, KnownRows DEF LInv, Known, Versions, Shapes
<1>8. t.start \in Sizes
  BY DEF LInv, Shapes, Transfers
<1>81. id0 \notin told
  BY DEF LInv, Told
<1> HIDE DEF final
<1>9. /\ \A v \in runner' : v.at = "done"
      /\ \A q \in rows' : q.id \in Ids /\ (q.state = "available" => IF q.id = id0 THEN q.len = t.start ELSE q \in rows)
      /\ \A q \in Versions' : q.id \in Ids /\ (q.id # id0 => q \in Versions)
      /\ \A i \in 1..Len(saves') : saves'[i].kind = "done" => saves'[i].old.id = id0
      /\ Corrected => Corrected'
      /\ \A id \in IdsOf(rows) : id \in IdsOf(rows')
  <2>1. CASE Unowned(id0)
    <3>1. runner' = {} /\ pump' \in Picks(rows, {}) /\ rows' = rows /\ saves' = saves
      BY <2>1 DEF Finalize, End
    <3>2. pump' \subseteq pump \cup rows
      BY <3>1, Picking
    <3>3. Versions' \subseteq Versions
      BY <3>1, <3>2 DEF Versions
    <3>4. \A q \in rows : q.state = "available" => q.id # id0
      BY <2>1 DEF Unowned
    <3> QED
      BY <3>1, <3>3, <3>4, <1>7 DEF Corrected
  <2>2. CASE ~Unowned(id0)
    <3> DEFINE after == At(rows, id0)
               row == [after EXCEPT !.state = "available", !.off = t.start, !.len = t.start]
    <3>1. /\ rows' = Put(rows, row) /\ saves' = Queue("done", after)
          /\ runner' = {Runner(id0, "done")} /\ pump' = pump
      BY <2>2 DEF Finalize
    <3>2. after \in rows /\ after.id = id0 /\ after \in Entries
      BY <2>2, <1>7, Owned DEF LInv, Ledgers
    <3> HIDE DEF after
    <3>3. row.id = id0 /\ row.len = t.start
      BY <3>2 DEF Entries
    <3> HIDE DEF row, id0
    <3>4. \A q : q \in rows' <=> q = row \/ (q \in rows /\ q.id # id0)
      BY <3>1, <3>3, Putting
    <3>5. /\ \A i \in 1..Len(saves') :
               \/ i \in 1..Len(saves) /\ saves'[i] = saves[i]
               \/ saves'[i].kind = "done" /\ saves'[i].old = after
          /\ Corrected => Corrected'
      BY <3>1, <3>2, Joined, Corrects DEF LInv, Kinds
    <3>6. \A q \in Versions' : q = row \/ q \in Versions
      <4>1. ASSUME NEW q \in Versions', q \notin rows' \cup pump' PROVE q \in Versions
        <5>1. PICK i \in 1..Len(saves') : saves'[i].kind \in {"claim", "retry"} /\ q = saves'[i].old
          BY <4>1 DEF Versions
        <5> QED
          BY <5>1, <3>5 DEF Versions
      <4> QED
        BY <4>1, <3>1, <3>4 DEF Versions
    <3>7. \A v \in runner' : v.at = "done"
      BY <3>1 DEF Runner
    <3>8. \A q \in rows' : q.id \in Ids /\ (q.state = "available" => IF q.id = id0 THEN q.len = t.start ELSE q \in rows)
      BY <3>3, <3>4, <1>2, <1>7
    <3>9. \A q \in Versions' : q.id \in Ids /\ (q.id # id0 => q \in Versions)
      BY <3>3, <3>6, <1>2, <1>7
    <3>10. \A i \in 1..Len(saves') : saves'[i].kind = "done" => saves'[i].old.id = id0
      BY <3>2, <3>5, <1>7
    <3>11. \A id \in IdsOf(rows) : id \in IdsOf(rows')
      BY <3>3, <3>4 DEF IdsOf
    <3> QED
      BY <3>5, <3>7, <3>8, <3>9, <3>10, <3>11
  <2> QED
    BY <2>1, <2>2
<1> HIDE DEF id0
<1>10. FileShapes' /\ Files'
  <2> DEFINE file == <<>>
  <2>1. \A r \in rows' : r.id \in Ids /\ (r.state = "available" =>
           IF r.id = id0 THEN final # <<>> /\ Len(final) = r.len ELSE r \in rows)
    BY <1>4, <1>9
  <2>2. \A r \in Versions' : r.id \in Ids /\ (r.off > 0 =>
           IF r.id = id0 THEN \A k \in 1..Len(file) : file[k] = r.len
           ELSE \E s \in Versions : s.id = r.id /\ s.off = r.off /\ s.len = r.len)
    BY <1>5, <1>9
  <2>3. \A i \in 1..Len(saves') : saves'[i].kind = "done" =>
           /\ saves'[i].old.id \in Ids
           /\ IF saves'[i].old.id = id0 THEN file = <<>>
              ELSE \E j \in 1..Len(saves) : saves[j].kind = "done" /\ saves[j].old.id = saves'[i].old.id
    BY <1>2, <1>9
  <2>4. \A v \in runner' : Fed(v)'
    BY <1>9 DEF Fed
  <2>5. file \in Seq(Encodings) /\ Len(file) \in Sizes /\ parts' = [parts EXCEPT ![id0] = file]
        /\ owned' = [owned EXCEPT ![id0] = final]
    BY <1>1, <1>5
  <2> HIDE DEF file
  <2>6. id0 \in Ids
    BY <1>2
  <2>7. final \in Seq(Encodings) /\ Len(final) \in Sizes /\ Whole(final)
    BY <1>4
  <2> QED
    BY <1>1, <2>1, <2>2, <2>3, <2>4, <2>5, <2>6, <2>7, FilesMove
<1>11. OnDisk'
  <2>1. ASSUME NEW d \in disk, Moving(d) \/ Settled(d) PROVE Settled(d)'
    <3>1. Described(d)'
      <4>1. CASE d.id = id0
        BY <4>1, <1>5, <1>6, <1>7 DEF Described
      <4>2. CASE d.id # id0
        <5>1. Settled(d)
          BY <2>1, <4>2, <1>2 DEF Moving, id0
        <5> QED
          BY <5>1, <4>2, <1>6, <1>7 DEF Settled, Described
      <4> QED
        BY <4>1, <4>2
    <3> QED
      BY <3>1, <1>9 DEF Settled
  <2> QED
    BY <2>1, <1>1, <1>9, DiskStays DEF FInv
<1>12. \A r \in disk : r.id \in told => owned'[r.id] = owned[r.id]
  BY <1>6, <1>7, <1>81
<1>13. Kept'
  BY <1>1, <1>9, <1>12, KeptStays DEF FInv
<1> QED
  BY <1>10, <1>11, <1>12, <1>13 DEF FInv

\* The finished file is reclaimed.
LEMMA FilesReclaim ==
  ASSUME LInv, FInv, NEW t \in runner, Reclaim(t)
  PROVE  /\ FInv'
         /\ \A r \in disk : r.id \in told => owned'[r.id] = owned[r.id]
<1> DEFINE id0 == t.id
           r == At(rows, id0)
           after == In(r, "transferring")
           row == In(after, "failed_with_retry")
<1>1. /\ t.at = "reclaim"
      /\ parts' = [parts EXCEPT ![id0] = <<>>] /\ owned' = [owned EXCEPT ![id0] = <<>>]
      /\ rows' = Put(rows, row) /\ saves' = Queue("fail", after) /\ runner' = {Runner(id0, "fail")}
      /\ UNCHANGED <<phase, disk, pump, told>>
  BY DEF Reclaim
<1>2. /\ id0 \in Ids /\ runner = {t} /\ id0 \notin told
  BY OneRuns DEF LInv, Shapes, Transfers, Told
<1>3. r \in rows /\ r.id = id0 /\ r \in Entries
  BY <1>1, SomeRow DEF LInv, Attended, Shapes
<1> HIDE DEF r
<1>4. after \in Entries /\ after.id = id0 /\ row.id = id0 /\ row.state = "failed_with_retry"
  BY <1>3, Changed DEF States
<1> HIDE DEF after, row
<1>5. <<>> \in Seq(Encodings) /\ Len(<<>>) = 0 /\ 0 \in Sizes /\ Whole(<<>>)
  BY Sized DEF Whole
<1>6. /\ \A id \in Ids : parts'[id] = (IF id = id0 THEN <<>> ELSE parts[id])
      /\ \A id \in Ids : owned'[id] = (IF id = id0 THEN <<>> ELSE owned[id])
  BY <1>1 DEF FInv, FileShapes
<1>7. /\ \A q \in Versions : q.id \in Ids
      /\ \A q \in rows : q.id \in Ids
      /\ \A d \in disk : d.id \in Ids
      /\ \A i \in 1..Len(saves) : saves[i].kind # "done"
  BY <1>1, OneRuns, KnownRows DEF LInv, Known, Awaited, Awaits
<1>8. \A q : q \in rows' <=> q = row \/ (q \in rows /\ q.id # id0)
  BY <1>1, <1>4, Putting
<1>9. /\ \A i \in 1..Len(saves') : saves'[i].kind # "fail" => i \in 1..Len(saves) /\ saves'[i] = saves[i]
      /\ Corrected'
  BY <1>1, <1>4, Joined, Corrects DEF LInv, Kinds, Sure
<1>10. \A v \in runner' : v.at = "fail"
  BY <1>1 DEF Runner
<1> HIDE DEF id0
<1>11. \A q \in Versions' : q = row \/ q \in Versions
  <2>1. ASSUME NEW q \in Versions', q \notin rows' \cup pump' PROVE q \in Versions
    <3>1. PICK i \in 1..Len(saves') : saves'[i].kind \in {"claim", "retry"} /\ q = saves'[i].old
      BY <2>1 DEF Versions
    <3> QED
      BY <3>1, <1>9 DEF Versions
  <2> QED
    BY <2>1, <1>1, <1>8 DEF Versions
<1>12. FileShapes' /\ Files'
  <2> DEFINE file == <<>>
  <2>1. \A q \in rows' : q.id \in Ids /\ (q.state = "available" =>
           IF q.id = id0 THEN file # <<>> /\ Len(file) = q.len ELSE q \in rows)
    BY <1>2, <1>4, <1>7, <1>8
  <2>2. \A q \in Versions' : q.id \in Ids /\ (q.off > 0 =>
           IF q.id = id0 THEN \A k \in 1..Len(file) : file[k] = q.len
           ELSE \E s \in Versions : s.id = q.id /\ s.off = q.off /\ s.len = q.len)
    BY <1>2, <1>4, <1>5, <1>7, <1>11
  <2>3. \A i \in 1..Len(saves') : saves'[i].kind # "done"
    BY <1>7, <1>9
  <2>4. \A v \in runner' : Fed(v)'
    BY <1>10 DEF Fed
  <2>5. file \in Seq(Encodings) /\ Len(file) \in Sizes /\ Whole(file) /\ parts' = [parts EXCEPT ![id0] = file]
        /\ owned' = [owned EXCEPT ![id0] = file]
    BY <1>1, <1>5
  <2>6. phase' = "swapped" \/ phase # "swapped"
    <3>1. phase # "swapped" /\ phase' = phase
      BY <1>1, OneRuns DEF LInv
    <3> QED
      BY <3>1
  <2> HIDE DEF file
  <2> QED
    BY ZenonT(60), <2>6, <1>2, <2>1, <2>2, <2>3, <2>4, <2>5, FilesMove
<1>13. OnDisk'
  BY <1>9 DEF OnDisk
<1>14. \A d \in disk : d.id \in told => owned'[d.id] = owned[d.id]
  BY <1>2, <1>6, <1>7
<1>15. Kept'
  <2>1. \A id \in IdsOf(rows) : id \in IdsOf(rows')
    BY <1>4, <1>8 DEF IdsOf
  <2> QED
    BY <2>1, <1>1, <1>14, KeptStays DEF FInv
<1> QED
  BY <1>12, <1>13, <1>14, <1>15 DEF FInv

\* A commit that lands: the ledger in memory becomes the one on disk, and a
\* download that was reported available is still in it or on its way out.
LEMMA FilesLands ==
  ASSUME LInv, FInv, CommitLands
  PROVE  /\ FInv'
         /\ owned' = owned
         /\ \A r \in disk : r.state = "available" /\ r.id \in told =>
              \E s \in disk' : s.id = r.id /\ s.state \in {"available", "removing"}
<1> DEFINE kind == Head(saves).kind
           o == Head(saves).old
           joins == kind = "drop" /\ At(removals, o.id).replacing /\ minted < MaxIds
           row == Row(minted + 1, o.rec, "requested", 0, 0)
<1>1. /\ saves # <<>> /\ disk' = rows /\ Landed(kind, o)
      /\ UNCHANGED <<phase, net, parts, owned>>
  BY DEF CommitLands
<1>2. 1 \in 1..Len(saves) /\ saves[1].kind = kind /\ kind \in Kinds /\ o \in Entries /\ phase \notin {"down", "swapped"}
  <2>1. saves \in Seq(Commits) /\ saves # <<>>
    BY <1>1 DEF LInv, Shapes
  <2>2. Head(saves) = saves[1] /\ Head(saves) \in Commits /\ Len(saves) \in Nat \ {0}
    BY <2>1, Leaves
  <2> QED
    BY <2>1, <2>2 DEF Commits, LInv, Phases
<1>3. /\ row.id = minted + 1 /\ row.off = 0 /\ row.state = "requested" /\ row.len = 0
      /\ minted \in Nat /\ \A r \in rows : r.id <= minted /\ r.id \in Ids
  BY KnownRows DEF Row, LInv, Numbers, Known, Shapes
<1>4. joins => row \in Entries /\ row.id \in Ids
  <2>1. joins => minted + 1 \in Ids
    BY <1>3, DownloadAssumption DEF Ids
  <2> QED
    BY <2>1, <1>2, <1>3, Sized DEF Row, Entries, States
<1>5. joins => (CHOOSE r \in rows \cup {row} : r.id = minted + 1) = row
  BY <1>3
<1>6. IF joins
      THEN /\ NewRow(o.rec)
           /\ saves' = Append(Tail(saves), [kind |-> "request", old |-> CHOOSE r \in rows' : r.id = minted'])
      ELSE saves' = Tail(saves) /\ UNCHANGED rows
  BY <1>1 DEF Landed
<1>7. joins => rows' = rows \cup {row} /\ minted' = minted + 1
  BY <1>6 DEF NewRow
<1> HIDE DEF row
<1>8. rows' = (IF joins THEN rows \cup {row} ELSE rows)
      /\ saves' = (IF joins THEN Append(Tail(saves), [kind |-> "request", old |-> row]) ELSE Tail(saves))
  BY <1>5, <1>6, <1>7
<1>9. joins \in BOOLEAN
  OBVIOUS
<1> HIDE DEF joins
<1>10. \A i \in 1..Len(saves') :
         \/ \E j \in 1..Len(saves) : saves'[i] = saves[j]
         \/ saves'[i].kind = "request"
  BY <1>1, <1>4, <1>8, <1>9, ServedAndJoined DEF LInv, Shapes
<1>11. pump' \subseteq pump \cup rows
  <2>1. pump' \in Picks(rows, runner') \/ pump' = pump
    BY <1>1 DEF Landed
  <2> QED
    BY <2>1, Picking
<1>12. \A r \in Versions' : r.off > 0 => r \in Versions
  <2>1. \A r \in rows' : r \in rows \/ r.off = 0
    BY <1>3, <1>8
  <2>2. ASSUME NEW r \in Versions', r \notin rows' \cup pump' PROVE r \in Versions
    <3>1. PICK i \in 1..Len(saves') : saves'[i].kind \in {"claim", "retry"} /\ r = saves'[i].old
      BY <2>2 DEF Versions
    <3>2. PICK j \in 1..Len(saves) : saves'[i] = saves[j]
      BY <1>10, <3>1
    <3> QED
      BY <3>1, <3>2 DEF Versions
  <2> QED
    BY <2>1, <2>2, <1>11 DEF Versions
<1>13. ASSUME NEW u \in runner' PROVE Fed(u)
  <2>1. runner' = CASE kind = "claim"  -> {AtStep(t, "mint") : t \in runner}
                 [] kind = "minted" -> {AtStep(t, "begin") : t \in runner}
                 [] kind = "reset"  -> {Again(t) : t \in runner}
                 [] kind = "demote" -> {IF t.id = o.id /\ t.at # "claim" THEN Signalled(t) ELSE t
                                          : t \in runner}
                 [] kind = "mark"   -> {IF t.id = o.id /\ At(removals, o.id).waits
                                        THEN Signalled(t) ELSE t : t \in runner}
                 [] kind \in {"fail", "done"} -> {}
                 [] OTHER           -> runner
    BY <1>1 DEF Landed
  <2>2. PICK t \in runner : \/ kind = "claim" /\ u = AtStep(t, "mint")
                            \/ kind = "minted" /\ u = AtStep(t, "begin")
                            \/ kind = "reset" /\ u = Again(t)
                            \/ u = Signalled(t) \/ u = t
    BY <1>13, <2>1, <1>2 DEF Kinds
  <2>3. t \in Transfers /\ Fed(t) /\ (kind \in {"minted", "reset"} => t.at = kind)
    <3>1. kind \in {"minted", "reset"} => t.at = kind
      BY <1>2, OneRuns DEF LInv, Awaited
    <3> QED
      BY <3>1 DEF LInv, Shapes, FInv, Files
  <2>4. CASE u = AtStep(t, "mint")
    <3>1. u.at = "mint"
      BY <2>3, <2>4 DEF AtStep, Transfers
    <3> QED
      BY <3>1 DEF Fed
  <2>5. CASE kind = "minted" /\ u = AtStep(t, "begin")
    <3>1. u.at = "begin" /\ u.id = t.id /\ u.off = t.off /\ u.len = t.len /\ u.enc = t.enc /\ u.first = t.first
          /\ t.at = "minted"
      BY <2>3, <2>5 DEF AtStep, Transfers
    <3> QED
      BY <3>1, <2>3 DEF Fed
  <2>6. CASE kind = "reset" /\ u = Again(t)
    <3>1. u.at = "begin" /\ u.id = t.id /\ u.off = 0 /\ u.len = t.len /\ u.enc = t.first /\ u.first = t.first
          /\ t.at = "reset" /\ t.len \in Nat
      BY <2>3, <2>6, Sized DEF Again, Transfers
    <3> QED
      BY <3>1, <2>3 DEF Fed
  <2>7. CASE u = Signalled(t)
    <3>1. /\ u.at = t.at /\ u.id = t.id /\ u.off = t.off /\ u.len = t.len /\ u.enc = t.enc /\ u.first = t.first
          /\ u.start = t.start
      BY <2>3, <2>7 DEF Signalled, Transfers
    <3> QED
      BY <3>1, <2>3 DEF Fed
  <2> QED
    BY <2>2, <2>3, <2>4, <2>5, <2>6, <2>7
<1>14. FileShapes' /\ Files'
  <2>1. \A r \in rows' : r.state = "available" => r \in rows
    BY <1>3, <1>8
  <2>2. \A r \in Versions' : r.off > 0 => \E s \in Versions : s.id = r.id /\ s.off = r.off /\ s.len = r.len
    BY <1>12
  <2>3. \A i \in 1..Len(saves') : saves'[i].kind = "done" =>
           \E j \in 1..Len(saves) : saves[j].kind = "done" /\ saves[j].old.id = saves'[i].old.id
    BY <1>10
  <2> QED
    BY <2>1, <2>2, <2>3, <1>1, <1>13, FilesStay DEF FInv
<1>15. OnDisk'
  <2>1. ASSUME NEW r \in rows PROVE Moving(r)' \/ Settled(r)'
    <3>1. Described(r)'
      BY <1>1 DEF FInv, Files, Versions, Described
    <3>2. r \in rows'
      BY <1>8
    <3>3. CASE \E t \in runner' : t.id = r.id /\ t.at = "fetch"
      BY <3>2, <3>3 DEF Moving
    <3>4. CASE ~\E t \in runner' : t.id = r.id /\ t.at = "fetch"
      BY <3>1, <3>4 DEF Settled
    <3> QED
      BY <3>3, <3>4
  <2> QED
    BY <2>1, <1>1 DEF OnDisk
<1>16. Kept'
  <2>1. ASSUME NEW r \in rows, r.state = "available" PROVE Intact(r)' /\ r.id \in IdsOf(rows')
    BY <2>1, <1>1, <1>2, <1>8 DEF FInv, Files, Intact, IdsOf
  <2> QED
    BY <2>1, <1>1 DEF Kept
<1>17. ASSUME NEW r \in disk, r.state = "available", r.id \in told
       PROVE  \E s \in disk' : s.id = r.id /\ s.state \in {"available", "removing"}
  <2>1. r.id \in IdsOf(rows)
    BY <1>2, <1>17 DEF FInv, Kept
  <2>2. PICK s \in rows : s.id = r.id
    BY <2>1 DEF IdsOf
  <2> QED
    BY <2>2, <1>1, <1>17 DEF LInv, Told
<1> QED
  BY <1>1, <1>14, <1>15, <1>16, <1>17 DEF FInv

\* A commit that fails: what the queue held and the ledger in memory are all it
\* moves.
LEMMA FilesFails ==
  ASSUME LInv, FInv, Reliable, CommitFails
  PROVE  FInv' /\ disk' = disk /\ owned' = owned
<1> DEFINE kind == Head(saves).kind
           o == Head(saves).old
<1>1. /\ saves # <<>> /\ Refused(kind, o) /\ kind \in Mild
      /\ UNCHANGED <<phase, net, disk, parts, owned>>
  BY CommitFailsKeeps DEF CommitFails
<1>2. saves' = Tail(saves) /\ UNCHANGED <<mark, minted, gone, told>>
  BY <1>1 DEF Refused
<1>3. /\ o \in Entries /\ saves[1].kind = kind /\ saves[1].old = o /\ 1 \in 1..Len(saves)
      /\ \A i \in 1..Len(saves') : saves'[i] = saves[i + 1] /\ i + 1 \in 1..Len(saves)
      /\ \A i \in 1..Len(saves) : i # 1 => i - 1 \in 1..Len(saves') /\ saves'[i - 1] = saves[i]
  BY <1>1, <1>2, ServedAndJoined, Served DEF LInv, Shapes
<1> HIDE DEF kind, o
<1>4. \A i \in 1..Len(saves') : \E j \in 1..Len(saves) : saves'[i] = saves[j]
  BY <1>3
<1>5. Corrected => Corrected'
  <2>1. ASSUME NEW i \in 1..Len(saves), saves[i].kind \in Sure PROVE Corrected'
    <3>1. i # 1
      BY <2>1, <1>1, <1>3 DEF Mild, Sure
    <3> DEFINE j == i - 1
    <3>2. j \in 1..Len(saves') /\ saves'[j] = saves[i]
      BY <3>1, <1>3
    <3> HIDE DEF j
    <3> QED
      BY <3>2, <2>1 DEF Corrected
  <2> QED
    BY <2>1 DEF Corrected
<1>6. /\ \A r \in Versions : r.id \in Ids
      /\ o.id \in Ids
  BY <1>3, KnownRows DEF LInv, Known, Entries
<1>7. \A r \in Versions' : r \in rows' \/ r \in pump' \/ r \in Versions
  <2>1. ASSUME NEW r \in Versions', r \notin rows' \cup pump' PROVE r \in Versions
    <3>1. PICK i \in 1..Len(saves') : saves'[i].kind \in {"claim", "retry"} /\ r = saves'[i].old
      BY <2>1 DEF Versions
    <3>2. PICK j \in 1..Len(saves) : saves'[i] = saves[j]
      BY <1>4, <3>1
    <3> QED
      BY <3>1, <3>2 DEF Versions
  <2> QED
    BY <2>1
<1>8. CASE kind \in {"request", "checkpoint", "drop"}
  <2>1. /\ runner' = runner /\ pump' = pump
        /\ rows' = IF kind = "request" THEN Without(rows, o.id) ELSE rows
    BY <1>1, <1>8 DEF Refused
  <2>2. rows' \subseteq rows
    BY <2>1 DEF Without
  <2>3. FileShapes' /\ Files'
    <3>1. \A r \in rows' : r.state = "available" => r \in rows
      BY <2>2
    <3>2. \A r \in Versions' : r.off > 0 => \E s \in Versions : s.id = r.id /\ s.off = r.off /\ s.len = r.len
      BY <1>7, <2>1, <2>2 DEF Versions
    <3>3. \A i \in 1..Len(saves') : saves'[i].kind = "done" =>
             \E j \in 1..Len(saves) : saves[j].kind = "done" /\ saves[j].old.id = saves'[i].old.id
      BY <1>4
    <3>4. \A u \in runner' : Fed(u)
      BY <2>1 DEF FInv, Files
    <3> QED
      BY <3>1, <3>2, <3>3, <3>4, <1>1, FilesStay DEF FInv
  <2>4. \A t \in runner, s \in rows : t.at = "fetch" /\ s.id = t.id => s \in rows'
    <3>1. kind = "request" => \A t \in runner : t.at = "fetch" => t.id # o.id
      BY <1>3 DEF LInv, Restored
    <3> QED
      BY <3>1, <2>1 DEF Without
  <2>5. OnDisk'
    BY <2>1, <2>4, <1>1, <1>5, DiskStaysPut DEF FInv
  <2>6. \A id \in told : id \in IdsOf(rows) => id \in IdsOf(rows')
    <3>1. kind = "request" => o.id \notin told
      BY <1>3 DEF LInv, Told
    <3> QED
      BY <3>1, <2>1 DEF Without, IdsOf
  <2>7. Kept'
    BY <2>6, <1>1, <1>2, KeptStays DEF FInv
  <2> QED
    BY <2>3, <2>5, <2>7, <1>1 DEF FInv
<1>9. CASE kind \in {"retry", "claim", "done"}
  <2>1. rows' = Put(rows, o)
    BY <1>1, <1>9 DEF Refused
  <2>2. /\ \A u \in runner' : (kind = "done" /\ u.at = "reclaim") \/ (kind = "retry" /\ u \in runner)
        /\ pump' \subseteq pump \cup rows'
    <3>1. CASE kind = "retry"
      BY <3>1, <1>1 DEF Refused
    <3>2. CASE kind = "claim"
      <4>1. runner' = {} /\ pump' \in Picks(rows', {})
        BY <3>2, <1>1 DEF Refused, End
      <4> QED
        BY <4>1, Picking
    <3>3. CASE kind = "done"
      <4>1. runner' = {AtStep(t, "reclaim") : t \in runner} /\ pump' = pump
        BY <3>3, <1>1 DEF Refused
      <4>2. \A t \in runner : AtStep(t, "reclaim").at = "reclaim"
        BY DEF AtStep, LInv, Shapes, Transfers
      <4>3. \A u \in runner' : u.at = "reclaim"
        BY <4>1, <4>2
      <4> QED
        BY <3>3, <4>1, <4>3
    <3> QED
      BY <1>9, <3>1, <3>2, <3>3
  <2>3. o.state # "available" /\ Described(o)
    <3>1. o.state # "available"
      BY <1>3, <1>9 DEF LInv, Restored
    <3>2. kind \in {"retry", "claim"} => Described(o)
      BY <1>3 DEF FInv, Files, Versions
    <3>3. kind = "done" => parts[o.id] = <<>>
      BY <1>3 DEF FInv, Files
    <3>4. kind = "done" => Described(o)
      BY <3>3, Sized DEF Described
    <3> QED
      BY <1>9, <3>1, <3>2, <3>4
  <2>4. \A q : q \in rows' <=> q = o \/ (q \in rows /\ q.id # o.id)
    BY <2>1, Putting
  <2>5. FileShapes' /\ Files'
    <3>1. FileShapes' /\ \A id \in Ids : Whole(owned[id])'
      BY <1>1 DEF FInv, FileShapes, Files, Whole
    <3>2. phase' # "swapped" => \A r \in rows' : r.state = "available" => Intact(r)'
      BY <2>3, <2>4, <1>1 DEF FInv, Files, Intact
    <3>3. \A r \in Versions' : Described(r)'
      <4>1. \A r \in Versions' : r = o \/ r \in Versions
        BY <1>7, <2>2, <2>4 DEF Versions
      <4> QED
        BY <4>1, <2>3, <1>1 DEF FInv, Files, Described
    <3>4. \A i \in 1..Len(saves') : saves'[i].kind = "done" => parts'[saves'[i].old.id] = <<>>
      BY <1>1, <1>4 DEF FInv, Files
    <3>5. \A u \in runner' : Fed(u)'
      BY <2>2, <1>1 DEF FInv, Files, Fed
    <3> QED
      BY <3>1, <3>2, <3>3, <3>4, <3>5 DEF Files, Whole
  <2>6. OnDisk'
    <3>1. \A t \in runner : t.at = "fetch" => kind = "retry" /\ t.id # o.id
      <4>1. ASSUME NEW t \in runner, kind \in {"claim", "done"} PROVE t.at = kind
        BY <4>1, <1>3, OneRuns DEF LInv, Awaited
      <4>2. ASSUME NEW t \in runner, kind = "retry", t.at = "fetch" PROVE t.id # o.id
        BY <4>2, <1>3 DEF LInv, Restored, Doomed
      <4> QED
        BY <4>1, <4>2, <1>9
    <3>2. kind = "retry" => runner' = runner
      BY <1>1 DEF Refused
    <3>3. \A u \in runner' : u.at = "fetch" =>
             /\ \E t \in runner : t.at = "fetch" /\ t.id = u.id
             /\ \A s \in rows : s.id = u.id => s \in rows'
      BY <2>2, <2>4, <3>1
    <3>4. \A t \in runner : t.at = "fetch" => \E u \in runner' : u.at = "fetch" /\ u.id = t.id
      BY <3>1, <3>2
    <3> QED
      BY <3>3, <3>4, <1>1, <1>5, DiskStaysPut DEF FInv
  <2>7. Kept'
    <3>1. \A id \in IdsOf(rows) : id \in IdsOf(rows')
      BY <2>4 DEF IdsOf
    <3> QED
      BY <3>1, <1>1, <1>2, KeptStays DEF FInv
  <2> QED
    BY <2>5, <2>6, <2>7, <1>1 DEF FInv
<1> QED
  BY <1>1, <1>8, <1>9 DEF Mild

\* The step of a runner, whatever its stage, keeps the whole invariant, and
\* neither the committed ledger nor the file of a row reported available moves.
LEMMA RunnerStep ==
  ASSUME IInv, Reliable, NEW t \in runner,
         \/ Minted(t) \/ Begin(t) \/ Chunk(t) \/ ChunkFails(t)
         \/ Remint(t) \/ Finalize(t) \/ Reclaim(t)
  PROVE  /\ IInv'
         /\ disk' = disk
         /\ \A r \in disk : r.id \in told => owned'[r.id] = owned[r.id]
<1>1. LInv /\ FInv
  BY DEF IInv
<1>2. LInv'
  BY <1>1, RunnerKeeps DEF FInv
<1>3. CASE Minted(t) \/ Begin(t) \/ Chunk(t) \/ ChunkFails(t) \/ Remint(t)
  <2>1. disk' = disk /\ owned' = owned
    BY <1>3 DEF Minted, Begin, Chunk, ChunkFails, Remint
  <2>2. FInv'
    BY <1>1, <1>3, FilesMinted, FilesBeginStep, FilesFetch, FilesRemint
  <2> QED
    BY <2>1, <2>2, <1>2 DEF IInv
<1>4. CASE Finalize(t)
  <2>1. disk' = disk
    BY <1>4 DEF Finalize
  <2> QED
    BY <2>1, <1>1, <1>2, <1>4, FilesFinalize DEF IInv
<1>5. CASE Reclaim(t)
  <2>1. disk' = disk
    BY <1>5 DEF Reclaim
  <2> QED
    BY <2>1, <1>1, <1>2, <1>5, FilesReclaim DEF IInv
<1> QED
  BY <1>3, <1>4, <1>5

\* What a step may do to a row on disk that was reported available.
Keeps(r) ==
  /\ owned'[r.id] = owned[r.id]
  /\ \E s \in disk' : s.id = r.id /\ s.state \in {"available", "removing"}

\* Every step keeps the invariant, and what was reported available.
LEMMA Inductive ==
  ASSUME IInv, Reliable, [Next]_vars
  PROVE  /\ IInv'
         /\ \A r \in disk : r.state = "available" /\ r.id \in told /\ ~Import => Keeps(r)
<1>1. LInv /\ FInv
  BY DEF IInv
<1>2. ASSUME disk' = disk,
             \A r \in disk : r.state = "available" /\ r.id \in told => owned'[r.id] = owned[r.id]
      PROVE  \A r \in disk : r.state = "available" /\ r.id \in told => Keeps(r)
  BY <1>2 DEF Keeps
<1>3. CASE PumpAnswer
  <2>1. disk' = disk /\ owned' = owned
    BY <1>3 DEF PumpAnswer
  <2> QED
    BY <2>1, <1>1, <1>2, <1>3, PumpAnswerKeeps, FilesPumpAnswer DEF IInv
<1>4. CASE GoesIneligible \/ GoesEligible \/ Stop \/ Stopped
  <2>1. disk' = disk /\ owned' = owned
    BY <1>4 DEF GoesIneligible, GoesEligible, Stop, Stopped
  <2>2. LInv' /\ FInv'
    BY <1>1, <1>4, EdgesKeep, FilesEdges
  <2> QED
    BY <2>1, <2>2, <1>2 DEF IInv
<1>5. CASE Launch
  <2>1. LInv' /\ FInv'
    BY <1>1, <1>5, Launched, FilesLaunch
  <2>2. \A r \in disk : r.state = "available" /\ r.id \in told => Keeps(r)
    BY <1>1, <1>5, FilesLaunch DEF Keeps
  <2> QED
    BY <2>1, <2>2 DEF IInv
<1>6. CASE Crash
  <2>1. disk' = disk /\ owned' = owned
    BY <1>6 DEF Crash
  <2> QED
    BY <2>1, <1>1, <1>2, <1>6, Killed, FilesCrash DEF IInv
<1>7. ASSUME NEW rec \in Recordings, Request(rec)
      PROVE  IInv' /\ \A r \in disk : r.state = "available" /\ r.id \in told => Keeps(r)
  <2>1. disk' = disk /\ owned' = owned
    BY <1>7 DEF Request
  <2>2. LInv'
    BY <1>1, <1>7, CommandsKeep
  <2>3. FInv'
    BY <1>1, <1>7, FilesRequest
  <2> QED
    BY <2>1, <2>2, <2>3, <1>2 DEF IInv
<1>8. ASSUME NEW row \in rows, Retry(row) \/ Cancel(row) \/ Remove(row) \/ Replace(row)
      PROVE  IInv' /\ \A r \in disk : r.state = "available" /\ r.id \in told => Keeps(r)
  <2>1. disk' = disk /\ owned' = owned
    BY <1>8 DEF Retry, Cancel, Remove, Replace, StartRemoval
  <2>2. LInv'
    BY <1>1, <1>8, CommandsKeep
  <2>3. Retry(row) \/ Cancel(row) \/ \E replacing \in BOOLEAN : StartRemoval(row, replacing)
    BY <1>8 DEF Remove, Replace
  <2>4. FInv'
    BY <2>3, <1>1, <1>8, FilesRows
  <2> QED
    BY <2>1, <2>2, <2>4, <1>2 DEF IInv
<1>9. ASSUME NEW x \in removals, DeleteFiles(x)
      PROVE  IInv' /\ \A r \in disk : r.state = "available" /\ r.id \in told => Keeps(r)
  <2>1. disk' = disk
    BY <1>9 DEF DeleteFiles
  <2>2. LInv'
    BY <1>1, <1>9, CommandsKeep
  <2>3. FInv' /\ \A r \in disk : r.state = "available" => owned'[r.id] = owned[r.id]
    BY <1>1, <1>9, FilesDelete
  <2> QED
    BY <2>1, <2>2, <2>3, <1>2 DEF IInv
<1>10. ASSUME NEW t \in runner,
              \/ Minted(t) \/ Begin(t) \/ Chunk(t) \/ ChunkFails(t)
              \/ Remint(t) \/ Finalize(t) \/ Reclaim(t)
       PROVE  IInv' /\ \A r \in disk : r.state = "available" /\ r.id \in told => Keeps(r)
  BY <1>2, <1>10, RunnerStep
<1>11. CASE CommitLands
  <2>1. LInv' /\ FInv' /\ owned' = owned
    BY <1>1, <1>11, CommitLandsKeeps, FilesLands
  <2>2. \A r \in disk : r.state = "available" /\ r.id \in told =>
          \E s \in disk' : s.id = r.id /\ s.state \in {"available", "removing"}
    BY <1>1, <1>11, FilesLands
  <2> QED
    BY <2>1, <2>2 DEF IInv, Keeps
<1>12. CASE CommitFails
  <2>1. LInv' /\ FInv' /\ disk' = disk /\ owned' = owned
    BY <1>1, <1>12, CommitFailsKeeps, FilesFails
  <2> QED
    BY <2>1, <1>2 DEF IInv
<1>13. CASE UNCHANGED vars
  <2>1. UNCHANGED <<phase, net, rows, disk, parts, owned, mark, pump, runner, removals, saves, minted, gone, told>>
    BY SMTT(30), <1>13 DEF vars
  <2>2. LInv'
    <3>1. Shapes' /\ Numbers' /\ Phases' /\ Leaving' /\ Removing'
      BY <2>1, <1>1 DEF LInv, Shapes, Numbers, Phases, Leaving, Removing, Known, Olds
    <3>2. Owners' /\ Ledgers' /\ Picked' /\ Agreed' /\ Forgotten' /\ Told' /\ Waiting'
      BY <2>1, <1>1 DEF LInv, Owners, Ledgers, Picked, Agreed, Forgotten, Told, Waiting, Known, Olds,
        Versions, Queued, Unique, Storable, IdsOf
    <3>3. Awaits' /\ Attended' /\ Restored'
      BY <2>1, <1>1 DEF LInv, Awaits, Attended, Restored, Queued, Fits, Doomed, ClaimedThenDemoted,
        DemotedThenMinted, BeforeClaim
    <3> QED
      BY <3>1, <3>2, <3>3 DEF LInv
  <2>3. FInv'
    <3>1. FileShapes' /\ OnDisk' /\ Kept'
      BY <2>1, <1>1 DEF FInv, FileShapes, OnDisk, Kept, Intact, Described, Corrected, Moving, Settled, IdsOf
    <3>2. Files'
      BY <2>1, <1>1 DEF FInv, Files, Versions, Whole, Intact, Described, Fed
    <3> QED
      BY <3>1, <3>2 DEF FInv
  <2> QED
    BY <2>1, <2>2, <2>3, <1>2 DEF IInv
<1>14. CASE Import
  BY <1>1, <1>14, ImportKeeps, FilesImport DEF IInv
<1> QED
  BY <1>3, <1>4, <1>5, <1>6, <1>7, <1>8, <1>9, <1>10, <1>11, <1>12, <1>13, <1>14 DEF Next

\* The inductive invariant holds.
THEOREM DownloadInvariance == Reliable => (Spec => []IInv)
<1> SUFFICES ASSUME Reliable PROVE Spec => []IInv
  OBVIOUS
<1>1. Init => IInv
  BY Begins, FilesBegin DEF IInv
<1>2. IInv /\ [Next]_vars => IInv'
  BY Inductive
<1> QED
  BY <1>1, <1>2, PTL DEF Spec

\* Every variable keeps its shape: a ledger has one row per download, files hold
\* chunks of encodings, and there is at most one transfer and one pump.
THEOREM DownloadTypes == Reliable => (Spec => []TypeOK)
<1>1. ASSUME IInv PROVE TypeOK
  <2> USE <1>1 DEF IInv, LInv, FInv
  <2>1. \A r \in Known \cup disk : RowOK(r)
    <3>1. Known \cup disk \subseteq Entries
      BY KnownRows DEF Shapes
    <3>2. \A r \in Known \cup disk : r.id \in Nat /\ r.id >= 1 /\ r.id <= minted
      BY KnownRows DEF Numbers, Ids
    <3>3. minted \in Nat
      BY DEF Shapes
    <3> QED
      BY <3>1, <3>2, <3>3 DEF RowOK, Entries
  <2>2. \A ledger \in {rows, disk, pump} :
          /\ \A r \in ledger : RowOK(r)
          /\ \A r, s \in ledger : r.id = s.id => r = s
    BY <2>1 DEF Known, Ledgers, Unique, Phases
  <2>3. \A id \in Ids : \A file \in {parts[id], owned[id]} :
          Len(file) \in Sizes /\ \A k \in 1..Len(file) : file[k] \in Encodings
    BY DEF FileShapes
  <2>4. Cardinality(runner) <= 1 /\ Cardinality(pump) <= 1
    <3>1. ASSUME NEW S, \A a, b \in S : a = b PROVE Cardinality(S) <= 1
      <4>1. CASE S = {}
        BY <4>1, FS_EmptySet
      <4>2. ASSUME NEW a \in S PROVE Cardinality(S) = 1
        <5>1. S = {a}
          BY <3>1, <4>2
        <5> QED
          BY <5>1, FS_Singleton
      <4> QED
        BY <4>1, <4>2
    <3> QED
      BY <3>1 DEF Phases
  <2>5. \A i \in 1..Len(saves) : RowOK(saves[i].old)
    BY <2>1 DEF Known, Olds
  <2>6. \A id \in Ids : mark[id] \in Sizes
    BY DEF Shapes
  <2> QED
    BY <2>2, <2>3, <2>4, <2>5, <2>6 DEF TypeOK, Shapes, Numbers
<1> QED
  BY <1>1, DownloadInvariance, PTL

\* What the player is given for a downloaded recording is the whole of one
\* encoding, whatever was resumed, started over or minted again on the way.
THEOREM PlayedFilesAreWhole == Reliable => (Spec => []PlayableIsWhole)
<1>1. ASSUME IInv PROVE PlayableIsWhole
  <2>1. SUFFICES ASSUME NEW r \in rows, r.state = "available", phase # "swapped"
                 PROVE  r.len > 0 /\ owned[r.id] = [k \in 1..r.len |-> r.len]
    BY DEF PlayableIsWhole
  <2>2. owned[r.id] # <<>> /\ Len(owned[r.id]) = r.len
    BY <1>1, <2>1 DEF IInv, FInv, Files, Intact
  <2>3. r.id \in Ids
    BY <1>1, <2>1, KnownRows DEF IInv, LInv, Known
  <2>4. PICK n \in Encodings : owned[r.id] = [k \in 1..n |-> n]
    BY <1>1, <2>2, <2>3 DEF IInv, FInv, Files, Whole
  <2>5. n \in Nat \ {0} /\ Len(owned[r.id]) = n
    BY <2>4, Sized, Uniform
  <2> QED
    BY <2>2, <2>4, <2>5
<1> QED
  BY <1>1, DownloadInvariance, PTL

\* A download whose removal was reported done, or that an import replaced, is in no
\* ledger again.
THEOREM RemovalsAreFinal == Reliable => (Spec => []RemovedStaysRemoved)
<1>1. IInv => RemovedStaysRemoved
  BY DEF IInv, LInv, Forgotten, RemovedStaysRemoved
<1> QED
  BY <1>1, DownloadInvariance, PTL

\* A row that may be transferred has a pump or a transfer to wait for, and a row
\* shown as transferring has its runner.
THEOREM NoDownloadIsStranded == Reliable => (Spec => []NoneStranded)
<1>1. IInv => NoneStranded
  BY DEF IInv, LInv, Waiting, Attended, Queued, NoneStranded
<1> QED
  BY <1>1, DownloadInvariance, PTL

\* No step takes the file of a download that was reported available, or its row
\* on disk, but by way of a durable removal or of an import.
THEOREM AvailableIsKept == Reliable => (Spec => AvailableIsTerminal)
<1> SUFFICES ASSUME Reliable PROVE Spec => AvailableIsTerminal
  OBVIOUS
<1>1. IInv /\ [Next]_vars =>
        [\A r \in disk : r.state = "available" /\ r.id \in told /\ ~Import =>
           /\ owned'[r.id] = owned[r.id]
           /\ \E s \in disk' : s.id = r.id /\ s.state \in {"available", "removing"}]_vars
  BY Inductive DEF Keeps
<1> QED
  BY <1>1, DownloadInvariance, PTL DEF Spec, AvailableIsTerminal

\* No file is left of a download that is gone, or whose row is about to go.
Emptied(id) == parts[id] = <<>> /\ owned[id] = <<>>
GInv ==
  /\ \A id \in gone : Emptied(id)
  /\ \A x \in removals : x.at = "drop" => Emptied(x.id)

\* Only a runner writes to a file, and it has no such download.
LEMMA FilesOfOthers ==
  ASSUME IInv, GInv, NEW t \in runner, NEW file, NEW final,
         parts' = [parts EXCEPT ![t.id] = file], owned' = [owned EXCEPT ![t.id] = final],
         gone' = gone, removals' = removals
  PROVE  GInv'
<1>1. \A id \in Ids : id # t.id => parts'[id] = parts[id] /\ owned'[id] = owned[id]
  BY DEF IInv, FInv, FileShapes
<1>2. \A id \in gone : id \in Ids /\ id # t.id
  <2>1. \A id \in 1..minted : id \in Ids
    BY DownloadAssumption DEF IInv, LInv, Shapes, Ids
  <2> QED
    BY <2>1 DEF IInv, LInv, Numbers, Forgotten
<1>3. \A x \in removals : x.at = "drop" => x.id \in Ids /\ x.id # t.id
  BY DEF IInv, LInv, Shapes, Departures, Removing
<1> QED
  BY <1>1, <1>2, <1>3 DEF GInv, Emptied

\* A commit that lands reports only a removal whose files are gone.
LEMMA LandsEmptied ==
  ASSUME IInv, GInv, CommitLands
  PROVE  GInv'
<1> DEFINE kind == Head(saves).kind
           o == Head(saves).old
<1>1. /\ saves # <<>> /\ Landed(kind, o) /\ parts' = parts /\ owned' = owned
  BY DEF CommitLands
<1>2. 1 \in 1..Len(saves) /\ saves[1].kind = kind /\ saves[1].old = o
  <2>1. saves \in Seq(Commits) /\ saves # <<>>
    BY <1>1 DEF IInv, LInv, Shapes
  <2> QED
    BY <2>1, Leaves
<1> HIDE DEF kind, o
<1>3. gone' = (IF kind = "drop" THEN gone \cup {o.id} ELSE gone)
  BY <1>1 DEF Landed
<1>4. kind = "drop" => \E x \in removals : x.id = o.id /\ x.at = "drop"
  BY <1>2 DEF IInv, LInv, Leaving
<1>5. \A id \in gone' : Emptied(id)
  BY <1>3, <1>4 DEF GInv
<1>6. \A x \in removals' : x.at = "drop" => x \in removals
  <2>1. CASE kind = "mark"
    <3>1. PICK y \in removals : y.id = o.id
      BY <2>1, <1>2 DEF IInv, LInv, Leaving
    <3>2. At(removals, o.id) \in removals
      BY <3>1, SomeRow DEF IdsOf
    <3>3. removals' = Put(removals, [At(removals, o.id) EXCEPT !.at = "delete"])
      BY <2>1, <1>1 DEF Landed
    <3>4. [At(removals, o.id) EXCEPT !.at = "delete"].at = "delete"
      BY <3>2 DEF IInv, LInv, Shapes, Departures
    <3> QED
      BY <3>3, <3>4, Putting
  <2>2. CASE kind = "drop"
    BY <2>2, <1>1 DEF Landed, Without
  <2>3. CASE kind \notin {"mark", "drop"}
    BY <2>3, <1>1 DEF Landed
  <2> QED
    BY <2>1, <2>2, <2>3
<1> QED
  BY <1>1, <1>5, <1>6 DEF GInv, Emptied

\* Every step keeps them empty.
LEMMA StaysEmptied ==
  ASSUME IInv, GInv, Reliable, [Next]_vars
  PROVE  GInv'
<1>1. ASSUME UNCHANGED <<parts, owned, gone>>, \A x \in removals' : x.at = "drop" => x \in removals
      PROVE  GInv'
  BY <1>1 DEF GInv, Emptied
<1>2. \A id \in gone : id \in Ids
  BY DownloadAssumption DEF IInv, LInv, Numbers, Shapes, Ids
<1>3. CASE PumpAnswer \/ GoesIneligible \/ GoesEligible \/ Stop \/ Stopped
  BY <1>1, <1>3 DEF PumpAnswer, GoesIneligible, GoesEligible, Stop, Stopped
<1>4. CASE Launch
  <2>1. PICK kept, stays : parts' = Swept(parts, kept) /\ owned' = Swept(owned, stays)
    BY <1>4 DEF Launch
  <2>2. removals' = {} /\ gone' = gone
    BY <1>4 DEF Launch, Quiesced, Reliable, IInv, LInv, Phases
  <2> QED
    BY <2>1, <2>2, <1>2 DEF GInv, Emptied, Swept
<1>5. CASE Import
  <2>1. /\ parts' = Swept(parts, Ids \ IdsOf(rows)) /\ owned' = Swept(owned, Ids \ IdsOf(rows))
        /\ removals' = {} /\ gone' = gone \cup IdsOf(rows)
    BY <1>5 DEF Import, Quiesced, Reliable
  <2>2. \A id \in IdsOf(rows) : id \in Ids
    BY DEF IInv, LInv, Shapes, Entries, IdsOf
  <2> QED
    BY <2>1, <2>2, <1>2 DEF GInv, Emptied, Swept
<1>6. CASE Crash
  BY <1>1, <1>6 DEF Crash
<1>7. ASSUME NEW rec \in Recordings, Request(rec) PROVE GInv'
  BY <1>1, <1>7 DEF Request
<1>8. ASSUME NEW row \in rows, Retry(row) \/ Cancel(row) \/ Remove(row) \/ Replace(row) PROVE GInv'
  BY <1>1, <1>8 DEF Retry, Cancel, Remove, Replace, StartRemoval
<1>9. ASSUME NEW x \in removals, DeleteFiles(x) PROVE GInv'
  <2>1. /\ parts' = [parts EXCEPT ![x.id] = <<>>] /\ owned' = [owned EXCEPT ![x.id] = <<>>]
        /\ gone' = gone /\ removals' = Put(removals, [x EXCEPT !.at = "drop"])
    BY <1>9 DEF DeleteFiles
  <2>2. /\ \A id \in Ids : Emptied(id) => Emptied(id)'
        /\ x.id \in Ids => Emptied(x.id)'
    BY <2>1 DEF Emptied, IInv, FInv, FileShapes
  <2>3. [x EXCEPT !.at = "drop"].id = x.id
    OBVIOUS
  <2>4. \A y \in removals' : y \in removals \/ y.id = x.id
    BY <2>1, <2>3, Putting
  <2>5. \A y \in removals : y.id \in Ids
    BY DEF IInv, LInv, Shapes, Departures
  <2> QED
    BY <2>1, <2>2, <2>4, <2>5, <1>2 DEF GInv
<1>10. ASSUME NEW t \in runner,
              \/ Minted(t) \/ Begin(t) \/ Chunk(t) \/ ChunkFails(t)
              \/ Remint(t) \/ Finalize(t) \/ Reclaim(t)
       PROVE  GInv'
  <2>1. gone' = gone /\ removals' = removals
    BY <1>10 DEF Minted, Begin, Chunk, ChunkFails, Remint, Finalize, Reclaim
  <2>2. parts' = parts \/ \E file : parts' = [parts EXCEPT ![t.id] = file]
    BY <1>10 DEF Minted, Begin, Chunk, ChunkFails, Remint, Finalize, Reclaim
  <2>3. owned' = owned \/ \E final : owned' = [owned EXCEPT ![t.id] = final]
    BY <1>10 DEF Minted, Begin, Chunk, ChunkFails, Remint, Finalize, Reclaim
  <2>4. /\ parts = [parts EXCEPT ![t.id] = parts[t.id]]
        /\ owned = [owned EXCEPT ![t.id] = owned[t.id]]
    BY DEF IInv, FInv, FileShapes
  <2>5. PICK file, final : parts' = [parts EXCEPT ![t.id] = file] /\ owned' = [owned EXCEPT ![t.id] = final]
    BY <2>2, <2>3, <2>4
  <2> QED
    BY <2>1, <2>5, FilesOfOthers
<1>11. CASE CommitLands
  BY <1>11, LandsEmptied
<1>12. CASE CommitFails
  <2>1. UNCHANGED <<parts, owned, gone>> /\ removals' \subseteq removals
    BY <1>12 DEF CommitFails, Refused, Without
  <2> QED
    BY <2>1, <1>1
<1>13. CASE UNCHANGED vars
  BY <1>1, <1>13 DEF vars
<1> QED
  BY <1>3, <1>4, <1>5, <1>6, <1>7, <1>8, <1>9, <1>10, <1>11, <1>12, <1>13 DEF Next

\* Once the removal of a download is reported done, or an import has replaced it,
\* no runner writes to its files and no step brings them back: neither remove nor
\* stop returns before the runner has settled.
THEOREM NothingIsLeftBehind == Reliable => (Spec => []NoFileLeftBehind)
<1> SUFFICES ASSUME Reliable PROVE Spec => []NoFileLeftBehind
  OBVIOUS
<1>1. Init => IInv /\ GInv
  <2>1. Init => IInv
    BY Begins, FilesBegin DEF IInv
  <2>2. Init => GInv
    BY DEF Init, GInv
  <2> QED
    BY <2>1, <2>2
<1>2. (IInv /\ GInv) /\ [Next]_vars => (IInv /\ GInv)'
  BY Inductive, StaysEmptied
<1>3. GInv => NoFileLeftBehind
  BY DEF GInv, Emptied, NoFileLeftBehind
<1> QED
  BY <1>1, <1>2, <1>3, PTL DEF Spec
=============================================================================
