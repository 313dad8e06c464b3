--------------------------- MODULE DownloadManager ---------------------------
(***************************************************************************)
(* The download manager (packages/application/src/downloads): the ledger   *)
(* in memory and on disk, the files, one transfer at a time, and the       *)
(* commands of the user, the network and the operating system that arrive  *)
(* between any two awaits.  One action runs from one await to the next.    *)
(*                                                                         *)
(* A file is a sequence of chunks, each named by the encoding it came      *)
(* from; an encoding is named by its length, which is what the guards of   *)
(* the transfer compare.                                                   *)
(***************************************************************************)
EXTENDS Integers, Sequences, FiniteSets

CONSTANTS
  Recordings,         \* what is downloaded
  MaxIds,             \* download ids ever minted
  Encodings,          \* lengths, in chunks
  Checkpoint,         \* chunks between two checkpoints of the offset
  MaxSaves,           \* bound on commits that wait
  Failing,            \* kinds of commit that may fail
  Faults              \* further faults: "slow", "stale", "init", "restore", "late"

ASSUME DownloadAssumption ==
  /\ MaxIds \in Nat \ {0} /\ Checkpoint \in Nat \ {0} /\ MaxSaves \in Nat \ {0}
  /\ Encodings \subseteq Nat \ {0}
  /\ Failing \subseteq {"request", "retry", "cancel", "claim", "minted", "checkpoint",
                        "reset", "fail", "done", "demote", "mark", "drop"}
  /\ Faults \subseteq {"slow", "stale", "init", "restore", "late"}

VARIABLES
  phase,      \* "down" (no process); "up", "blind" (up after a failed init);
              \* "demoting", "stopping" (stop under way, with a demotion to commit
              \* or without), "stopped", "halted" (it returned, the latter with an
              \* error); "swapped" (stopped, and an import replaced the ledger)
  net,        \* the network may be used for transfers
  rows,       \* the ledger in memory: a set of rows, one per id
  disk,       \* the ledger last committed
  parts,      \* the .part file of each id
  owned,      \* the finished file of each id
  mark,       \* offset the ledger durably holds, per id (#persistedOffset)
  pump,       \* rows picked by a pump that awaits the network's state
  runner,     \* transfers under way: none or one
  removals,   \* removals under way, one record per id
  saves,      \* commits that wait, the oldest first
  minted,     \* ids minted so far
  gone,       \* ids whose removal was reported done, or that an import deleted (history)
  told        \* ids reported to be available (history)

vars == <<phase, net, rows, disk, parts, owned, mark, pump, runner, removals, saves,
          minted, gone, told>>

Ids == 1..MaxIds

Row(id, rec, state, off, len) ==
  [id |-> id, rec |-> rec, state |-> state, off |-> off, len |-> len]

IdsOf(ledger) == {r.id : r \in ledger}
At(ledger, id) == CHOOSE r \in ledger : r.id = id
Without(ledger, id) == {r \in ledger : r.id # id}
PutBeside(ledger, row) == ledger \cup {row}   \* mutant: the map keyed by the row, not the id
Put(ledger, row) == Without(ledger, row.id) \cup {row}
In(row, state) == [row EXCEPT !.state = state]

(* A row that is gone, marked for removal or put back is no longer its runner's. *)
Unowned(id) == ~\E r \in rows : r.id = id /\ r.state \notin {"removing", "requested"}

(* recording_id is UNIQUE in the table. *)
Storable(ledger) == \A r, s \in ledger : r.rec = s.rec => r = s

Queue(kind, old) == Append(saves, [kind |-> kind, old |-> old])
Room == Len(saves) < MaxSaves

Init ==
  /\ phase = "down" /\ net \in BOOLEAN
  /\ rows = {} /\ disk = {}
  /\ parts = [id \in Ids |-> <<>>] /\ owned = [id \in Ids |-> <<>>]
  /\ mark = [id \in Ids |-> 0]
  /\ pump = {} /\ runner = {} /\ saves = <<>>
  /\ removals = {}
  /\ minted = 0 /\ gone = {} /\ told = {}

------------------------------------------------------------------------------
(* Scheduling. *)

(* The synchronous part of #pump, run over the rows and runners a step leaves
   behind: a pump that waits already, a stop or a transfer under way suppress it. *)
PicksMarked(ledger, running) ==   \* mutant: any unfinished row is pending
  LET pending == {r \in ledger : r.state \in {"requested", "removing"}}
  IN  IF pump # {} \/ phase \notin {"up", "blind"} \/ running # {} \/ pending = {}
      THEN {pump} ELSE {{r} : r \in pending}

Picks(ledger, running) ==
  LET pending == {r \in ledger : r.state = "requested"}
  IN  IF pump # {} \/ phase \notin {"up", "blind"} \/ running # {} \/ pending = {}
      THEN {pump} ELSE {{r} : r \in pending}

(* A runner that is at a point where nothing but its row matters. *)
Runner(id, at) == [id |-> id, at |-> at, cancelled |-> FALSE, off |-> 0, len |-> 0,
                   first |-> 0, enc |-> 0, start |-> 0, tries |-> 0]

(* Events between the pick and the network's answer are a fault of their own. *)
Quiet == "slow" \in Faults \/ pump = {}

(* The network's answer: the picked row, as it was picked, is claimed. *)
PumpAnswer ==
  /\ pump # {} /\ Room
  /\ pump' = {}
  /\ IF ~net
     THEN UNCHANGED <<rows, runner, saves>>
     ELSE \E row \in pump :
            /\ rows' = Put(rows, In(row, "transferring"))
            /\ saves' = Queue("claim", row)
            /\ runner' = {Runner(row.id, "claim")}
  /\ UNCHANGED <<phase, net, disk, parts, owned, mark, removals, minted, gone, told>>

(* A runner settles: #active forgets it, demotions under way can cancel it no
   more, and the pump runs. *)
EndQuiet(ledger) == runner' = {} /\ UNCHANGED pump   \* mutant: the settled runner forgets the pump

End(ledger) ==
  /\ runner' = {}
  /\ pump' \in Picks(ledger, {})

(* #demoteActive: the row goes back to 'requested' before the cancel edge.
   MAX_ACTIVE is 1: there is one transfer at most. *)
Demote ==
  \/ /\ runner = {} /\ UNCHANGED <<rows, saves, runner>>
  \/ \E t \in runner :
       IF t.id \in IdsOf(rows) /\ At(rows, t.id).state = "transferring"
       THEN /\ Room
            /\ rows' = Put(rows, In(At(rows, t.id), "requested"))
            /\ saves' = Queue("demote", At(rows, t.id))
            /\ UNCHANGED runner
       ELSE /\ runner' = {[t EXCEPT !.cancelled = TRUE]} /\ UNCHANGED <<rows, saves>>

(* A connectivity edge, or the metered setting toggled. *)
GoesIneligible ==
  /\ Quiet /\ net /\ net' = FALSE
  /\ IF phase = "up" THEN Demote ELSE UNCHANGED <<rows, saves, runner>>
  /\ UNCHANGED <<phase, disk, parts, owned, mark, pump, removals, minted, gone, told>>

GoesEligible ==
  /\ Quiet /\ ~net /\ net' = TRUE
  /\ IF phase = "up" THEN pump' \in Picks(rows, runner) ELSE UNCHANGED pump
  /\ UNCHANGED <<phase, rows, disk, parts, owned, mark, runner, removals, saves, minted, gone, told>>

------------------------------------------------------------------------------
(* Life cycle. *)

Resumable == {"requested", "transferring", "failed_with_retry"}
Intact(row) == owned[row.id] # <<>> /\ Len(owned[row.id]) = row.len

(* What the integrity pass makes of the loaded ledger. *)
Verified ==
  {IF r.state = "transferring" THEN In(r, "requested") ELSE r :
     r \in {r \in disk : r.state # "removing" /\ (r.state = "available" => Intact(r))}}

Swept(files, kept) == [id \in Ids |-> IF id \in kept THEN files[id] ELSE <<>>]

(* Nothing of the stopped manager is under way. *)
Quiesced == "late" \in Faults \/ (saves = <<>> /\ removals = {})

(* init: sweeps, checks, persists the fixups, publishes the rows, runs the pump.
   When it fails, memory stays empty and the disk as it was, nothing is subscribed,
   and the application goes on ("blind").  That commits and removals of the stopped
   manager are still under way is a fault of its own. *)
Launch ==
  /\ phase \in {"down", "stopped", "swapped"} /\ Quiesced
  /\ \E ok \in IF "init" \in Faults THEN BOOLEAN ELSE {TRUE} :
       LET ledger == IF ok THEN Verified ELSE {}
           stays  == IF ok THEN IdsOf(ledger) ELSE Ids
       IN  /\ phase' = IF ok THEN "up" ELSE "blind"
           /\ rows' = ledger
           /\ disk' = IF ok THEN ledger ELSE disk
           /\ parts' = Swept(parts, stays \ {r.id : r \in {r \in ledger : r.state \notin Resumable}})
           /\ owned' = Swept(owned, stays)
           /\ mark' = [id \in Ids |-> IF id \in IdsOf(ledger) THEN At(ledger, id).off ELSE 0]
           /\ LET pending == {r \in ledger : r.state = "requested"}
              IN  pump' \in IF pending = {} \/ pump # {} \/ runner # {} THEN {pump}
                            ELSE {{r} : r \in pending}
           /\ told' = told \cup IdsOf({r \in ledger : r.state = "available"})
  /\ UNCHANGED <<net, runner, removals, saves, minted, gone>>

(* stop up to its first await: latch, unsubscribe, demote. *)
Stop ==
  /\ Quiet /\ phase \in {"up", "blind", "halted"}
  /\ Demote
  /\ phase' = IF saves' = saves THEN "stopping" ELSE "demoting"
  /\ UNCHANGED <<net, disk, parts, owned, mark, pump, removals, minted, gone, told>>

(* The demotion stop awaits is the last one of the queue. *)
Demoting == phase = "demoting" /\ \E i \in 1..Len(saves) : saves[i].kind = "demote"

StoppedEarly ==   \* mutant: stop returns after the demotion, without the runner's teardown
  /\ phase \in {"demoting", "stopping"} /\ ~Demoting /\ phase' = "stopped"
  /\ UNCHANGED <<net, rows, disk, parts, owned, mark, pump, runner, removals, saves, minted, gone, told>>

(* stop returns: its demotion has landed and the runner has settled.  It awaits
   neither removals nor the other commits. *)
Stopped ==
  /\ phase \in {"demoting", "stopping"} /\ ~Demoting /\ phase' = "stopped"
  /\ runner = {}
  /\ UNCHANGED <<net, rows, disk, parts, owned, mark, pump, runner, removals, saves, minted, gone, told>>

(* replaceLibrary, once stop has returned: the library is swapped for one without
   downloads and the files of the ledger are deleted; the rows in memory stay until
   the manager is launched again. *)
Import ==
  /\ phase = "stopped" /\ Quiesced /\ phase' = "swapped"
  /\ disk' = {}
  /\ parts' = Swept(parts, Ids \ IdsOf(rows)) /\ owned' = Swept(owned, Ids \ IdsOf(rows))
  /\ gone' = gone \cup IdsOf(rows) /\ told' = told \ IdsOf(rows)
  /\ UNCHANGED <<net, rows, mark, pump, runner, removals, saves, minted>>

(* The part file of every resumable row holds the encoding the ledger names. *)
LedgerDescribesParts ==
  \A r \in disk : \A k \in 1..Len(parts[r.id]) : r.off > 0 => parts[r.id][k] = r.len

(* The process is killed: files and the committed ledger remain. *)
Crash ==
  /\ phase # "down" /\ phase' = "down"
  /\ "stale" \in Faults \/ LedgerDescribesParts
  /\ rows' = {} /\ mark' = [id \in Ids |-> 0]
  /\ pump' = {} /\ runner' = {} /\ saves' = <<>>
  /\ removals' = {}
  /\ UNCHANGED <<net, disk, parts, owned, minted, gone, told>>

------------------------------------------------------------------------------
(* Commands. *)

(* Commands of a stopped manager belong to the same fault. *)
Running == \/ phase \in {"up", "blind", "demoting", "stopping", "halted"}
           \/ "late" \in Faults /\ phase \in {"stopped", "swapped"}

(* recordFor ignores rows on their way out; a request waits for a removal. *)
RecordFor(rec) == {r \in rows : r.rec = rec /\ r.state # "removing"}
BeingRemoved(rec) == \E x \in removals : x.row.rec = rec

NewRow(rec) ==
  /\ minted < MaxIds /\ minted' = minted + 1
  /\ rows' = rows \cup {Row(minted + 1, rec, "requested", 0, 0)}
  /\ mark' = [mark EXCEPT ![minted + 1] = 0]

Request(rec) ==
  /\ Running /\ Room /\ Quiet
  /\ RecordFor(rec) = {} /\ ~BeingRemoved(rec)
  /\ NewRow(rec)
  /\ saves' = Queue("request", CHOOSE r \in rows' : r.id = minted')
  /\ UNCHANGED <<phase, net, disk, parts, owned, pump, runner, removals, gone, told>>

(* retry, or a request of a failed row under the same mapping. *)
Retry(row) ==
  /\ Running /\ Room /\ Quiet
  /\ row.state = "failed_with_retry"
  /\ rows' = Put(rows, In(row, "requested"))
  /\ saves' = Queue("retry", row)
  /\ UNCHANGED <<phase, net, disk, parts, owned, mark, pump, runner, removals, minted, gone, told>>

Cancel(row) ==
  /\ Running /\ Quiet
  /\ \/ /\ \E t \in runner : t.id = row.id /\ runner' = {[t EXCEPT !.cancelled = TRUE]}
        /\ UNCHANGED <<rows, saves>>
     \/ /\ Room /\ row.state = "requested" /\ \A t \in runner : t.id # row.id
        /\ rows' = Put(rows, In(row, "failed_with_retry"))
        /\ saves' = Queue("cancel", row)
        /\ UNCHANGED runner
  /\ UNCHANGED <<phase, net, disk, parts, owned, mark, pump, removals, minted, gone, told>>

(* removeRow up to its first commit; a replacing removal belongs to the request
   of the recording under another mapping.  One removal of a recording at a time. *)
StartRemovalAtOnce(row, replacing) ==   \* mutant: the files go before the mark is durable
  /\ Running /\ Room /\ Quiet
  /\ ~BeingRemoved(row.rec)
  /\ rows' = Put(rows, In(row, "removing"))
  /\ removals' = removals \cup {[id |-> row.id, row |-> row, replacing |-> replacing, at |-> "delete",
                                waits |-> \E t \in runner : t.id = row.id]}
  /\ UNCHANGED <<phase, net, disk, parts, owned, mark, pump, runner, saves, minted, gone, told>>

StartRemoval(row, replacing) ==
  /\ Running /\ Room /\ Quiet
  /\ ~BeingRemoved(row.rec)
  /\ "restore" \in Faults \/ \A t \in runner : t.at = "reclaim" => t.id # row.id
  /\ rows' = Put(rows, In(row, "removing"))
  /\ saves' = Queue("mark", row)
  /\ removals' = removals \cup {[id |-> row.id, row |-> row, replacing |-> replacing, at |-> "mark",
                                waits |-> \E t \in runner : t.id = row.id]}
  /\ UNCHANGED <<phase, net, disk, parts, owned, mark, pump, runner, minted, gone, told>>

Remove(row) == StartRemoval(row, FALSE)

Replace(row) ==
  /\ row \in RecordFor(row.rec) /\ minted < MaxIds
  /\ StartRemoval(row, TRUE)

(* The runner is down: the files go, then the row. *)
DeleteFiles(x) ==
  LET id == x.id IN
  /\ x.at = "delete" /\ Room
  /\ x.waits => \A t \in runner : t.id # id
  /\ parts' = [parts EXCEPT ![id] = <<>>] /\ owned' = [owned EXCEPT ![id] = <<>>]
  /\ rows' = Without(rows, id)
  /\ mark' = [mark EXCEPT ![id] = 0]
  /\ saves' = Queue("drop", x.row)
  /\ removals' = Put(removals, [x EXCEPT !.at = "drop"])
  /\ UNCHANGED <<phase, net, disk, pump, runner, minted, gone, told>>

------------------------------------------------------------------------------
(* The runner, between its commits. *)

SettleFailed(t, kind) ==
  IF Unowned(t.id)
  THEN /\ End(rows) /\ UNCHANGED <<rows, saves>>
  ELSE LET after == At(rows, t.id)
           reset == kind = "invalid-response" /\ t.tries = 0 /\ t.off > 0
       IN  /\ Room
           /\ rows' = Put(rows, IF reset THEN [after EXCEPT !.off = 0]
                                ELSE In(after, "failed_with_retry"))
           /\ saves' = Queue(IF reset THEN "reset" ELSE "fail", after)
           /\ runner' = {IF reset THEN [t EXCEPT !.at = "reset", !.enc = 0, !.start = 0]
                         ELSE Runner(t.id, "fail")}
           /\ UNCHANGED pump

(* resolvePlayback answers with some encoding, pinned or not, or fails. *)
Minted(t) ==
  /\ t.at = "mint"
  /\ \/ SettleFailed(t, "transient")
     \/ /\ Unowned(t.id)
        /\ End(rows) /\ UNCHANGED <<rows, saves>>
     \/ /\ ~Unowned(t.id) /\ Room
        /\ \E e \in Encodings :
             LET fresh == At(rows, t.id)
             IN  /\ saves' = Queue("minted", fresh)
                 /\ runner' = {[t EXCEPT !.at = "minted", !.first = e, !.enc = e,
                                               !.off = fresh.off, !.len = fresh.len]}
        /\ UNCHANGED <<rows, pump>>
  /\ UNCHANGED <<phase, net, disk, parts, owned, mark, removals, minted, gone, told>>

ResumeAnyway(t) == t.off   \* mutant: the recorded length is not compared

(* Bytes of another encoding are no prefix: start over. *)
ResumeAt(t) == IF t.off > 0 /\ t.len > 0 /\ t.len # t.enc THEN 0 ELSE t.off

(* runTransfer up to its open sink: a longer .part is cut to the offset, a
   shorter one refused. *)
Begin(t) ==
  /\ t.at = "begin"
  /\ LET start == ResumeAt(t)
     IN  \/ /\ t.cancelled \/ start <= Len(parts[t.id])
            /\ SettleFailed(t, IF t.cancelled THEN "cancelled" ELSE "internal")
            /\ UNCHANGED parts
         \/ /\ ~t.cancelled /\ start > Len(parts[t.id])
            /\ SettleFailed(t, "invalid-response")
            /\ UNCHANGED parts
         \/ /\ ~t.cancelled /\ start <= Len(parts[t.id])
            /\ parts' = [parts EXCEPT ![t.id] = SubSeq(@, 1, start)]
            /\ runner' = {[t EXCEPT !.at = "fetch", !.start = start, !.len = 0]}
            /\ UNCHANGED <<rows, saves, pump>>
  /\ UNCHANGED <<phase, net, disk, owned, mark, removals, minted, gone, told>>

(* onProgress: the live row moves, and a checkpoint is queued when due. *)
Progress(t, committed) ==
  IF t.id \notin IdsOf(rows)
  THEN UNCHANGED <<rows, mark, saves>>
  ELSE LET current == At(rows, t.id)
           next    == [current EXCEPT !.off = committed, !.len = t.enc]
       IN  /\ rows' = Put(rows, next)
           /\ IF committed - mark[t.id] >= Checkpoint
              THEN /\ Room
                   /\ mark' = [mark EXCEPT ![t.id] = committed]
                   /\ saves' = Queue("checkpoint", next)
              ELSE UNCHANGED <<mark, saves>>

(* A chunk is written and committed; a cancelled transfer stops after it, before
   the ledger hears of it. *)
Chunk(t) ==
  /\ t.at = "fetch" /\ t.start < t.enc
  /\ t.cancelled => "stale" \in Faults \/ \A r \in rows : r.id = t.id => r.off = 0 \/ r.len = t.enc
  /\ parts' = [parts EXCEPT ![t.id] = Append(@, t.enc)]
  /\ IF t.cancelled
     THEN SettleFailed(t, "cancelled") /\ UNCHANGED mark
     ELSE /\ Progress(t, t.start + 1)
          /\ runner' = {[t EXCEPT !.start = @ + 1]}
          /\ UNCHANGED pump
  /\ UNCHANGED <<phase, net, disk, owned, removals, minted, gone, told>>

(* A timeout, a broken answer, a full disk, or the signal. *)
ChunkFails(t) ==
  /\ t.at = "fetch"
  /\ \E kind \in IF t.cancelled THEN {"cancelled"} ELSE {"transient", "invalid-response"} :
       SettleFailed(t, kind)
  /\ UNCHANGED <<phase, net, disk, parts, owned, mark, removals, minted, gone, told>>

(* 403 or 416: mint again.  Another encoding discards the bytes and starts over. *)
Remint(t) ==
  /\ t.at = "fetch" /\ t.start < t.enc /\ ~t.cancelled
  /\ \E e \in Encodings \ {t.enc} :
       /\ parts' = [parts EXCEPT ![t.id] = <<>>]
       /\ runner' = {[t EXCEPT !.enc = e, !.start = 0]}
  /\ UNCHANGED <<phase, net, rows, disk, owned, mark, pump, removals, saves, minted, gone, told>>

(* finalize renames the .part; the row becomes 'available'. *)
Finalize(t) ==
  /\ t.at = "fetch" /\ t.start >= t.enc /\ ~t.cancelled
  /\ owned' = [owned EXCEPT ![t.id] = parts[t.id]]
  /\ parts' = [parts EXCEPT ![t.id] = <<>>]
  /\ IF Unowned(t.id)
     THEN /\ End(rows) /\ UNCHANGED <<rows, saves>>
     ELSE LET after == At(rows, t.id)
          IN  /\ Room
              /\ rows' = Put(rows, [after EXCEPT !.state = "available", !.off = t.start, !.len = t.start])
              /\ saves' = Queue("done", after)
              /\ runner' = {Runner(t.id, "done")}
              /\ UNCHANGED pump
  /\ UNCHANGED <<phase, net, disk, mark, removals, minted, gone, told>>

(* The ledger could not record the finished file: reclaim it, then fail the row
   as it was before the commit. *)
Reclaim(t) ==
  /\ t.at = "reclaim" /\ Room
  /\ owned' = [owned EXCEPT ![t.id] = <<>>] /\ parts' = [parts EXCEPT ![t.id] = <<>>]
  /\ LET after == In(At(rows, t.id), "transferring")
     IN  rows' = Put(rows, In(after, "failed_with_retry")) /\ saves' = Queue("fail", after)
  /\ runner' = {Runner(t.id, "fail")}
  /\ UNCHANGED <<phase, net, disk, mark, pump, removals, minted, gone, told>>

------------------------------------------------------------------------------
(* Commits: one at a time, each of the ledger as it stands when its turn comes.
   A commit that fails puts the row back as it was before, whatever happened to
   it since. *)

AtStep(t, at) == [t EXCEPT !.at = at]
Again(t) == [t EXCEPT !.at = "begin", !.off = 0, !.enc = t.first, !.tries = 1]
Signalled(t) == [t EXCEPT !.cancelled = TRUE]

(* What follows a commit that landed.  A runner of the demoted id that is still
   at its claim is a later one: its claim waits behind the demotion. *)
Landed(kind, old) ==
  /\ runner' = CASE kind = "claim"  -> {AtStep(t, "mint") : t \in runner}
                 [] kind = "minted" -> {AtStep(t, "begin") : t \in runner}
                 [] kind = "reset"  -> {Again(t) : t \in runner}
                 [] kind = "demote" -> {IF t.id = old.id /\ t.at # "claim" THEN Signalled(t) ELSE t
                                          : t \in runner}
                 [] kind = "mark"   -> {IF t.id = old.id /\ At(removals, old.id).waits
                                        THEN Signalled(t) ELSE t : t \in runner}
                 [] kind \in {"fail", "done"} -> {}
                 [] OTHER           -> runner
  /\ pump' \in IF kind \in {"request", "retry", "fail", "done"} THEN Picks(rows, runner') ELSE {pump}
  /\ removals' = CASE kind = "mark" -> Put(removals, [At(removals, old.id) EXCEPT !.at = "delete"])
                   [] kind = "drop" -> Without(removals, old.id)
                   [] OTHER         -> removals
  /\ gone' = IF kind = "drop" THEN gone \cup {old.id} ELSE gone
  /\ told' = CASE kind = "drop" -> told \ {old.id}
               [] kind = "done" -> told \cup {old.id}
               [] OTHER         -> told
  /\ IF kind = "drop" /\ At(removals, old.id).replacing /\ minted < MaxIds
     THEN /\ NewRow(old.rec)
          /\ saves' = Append(Tail(saves), [kind |-> "request", old |-> CHOOSE r \in rows' : r.id = minted'])
     ELSE /\ mark' = CASE kind = "reset" -> [mark EXCEPT ![old.id] = 0]
                       [] kind = "done"  -> [mark EXCEPT ![old.id] = old.off]
                       [] OTHER          -> mark
          /\ saves' = Tail(saves)
          /\ UNCHANGED <<rows, minted>>

(* What follows a commit that failed. *)
Refused(kind, old) ==
  /\ rows' = CASE kind = "request" -> Without(rows, old.id)
               [] kind \in {"checkpoint", "drop"} -> rows
               [] OTHER -> Put(rows, old)
  /\ IF kind \in {"claim", "minted", "reset", "fail"}
     THEN End(rows')
     ELSE /\ runner' = IF kind = "done" THEN {AtStep(t, "reclaim") : t \in runner} ELSE runner
          /\ UNCHANGED pump
  /\ removals' = IF kind \in {"mark", "drop"} THEN Without(removals, old.id) ELSE removals
  /\ saves' = Tail(saves)
  /\ UNCHANGED <<mark, minted, gone, told>>

(* The row is no longer as the command of this commit left it: to restore its
   old form undoes what another command did. *)
Overtaken(kind, old) ==
  LET wrote == [claim |-> "transferring", retry |-> "requested", done |-> "available"]
  IN  kind \in DOMAIN wrote /\ [id |-> old.id, state |-> wrote[kind]] \notin
                                {[id |-> r.id, state |-> r.state] : r \in rows}

CommitLands ==
  /\ saves # <<>> /\ Storable(rows)
  /\ disk' = rows
  /\ Landed(Head(saves).kind, Head(saves).old)
  /\ UNCHANGED <<phase, net, parts, owned>>

(* stop returns the error of its demotion; the runner goes on. *)
StopRefused ==
  /\ phase = "demoting" /\ Head(saves).kind = "demote"
  /\ \A i \in 2..Len(saves) : saves[i].kind # "demote"

CommitFails ==
  /\ saves # <<>> /\ (Head(saves).kind \in Failing \/ ~Storable(rows))
  /\ "restore" \in Faults \/ ~Overtaken(Head(saves).kind, Head(saves).old)
  /\ Refused(Head(saves).kind, Head(saves).old)
  /\ phase' = IF StopRefused THEN "halted" ELSE phase
  /\ UNCHANGED <<net, disk, parts, owned>>

------------------------------------------------------------------------------
Next ==
  \/ PumpAnswer \/ GoesIneligible \/ GoesEligible
  \/ Launch \/ Stop \/ Stopped \/ Import \/ Crash
  \/ \E rec \in Recordings : Request(rec)
  \/ \E row \in rows : Retry(row) \/ Cancel(row) \/ Remove(row) \/ Replace(row)
  \/ \E x \in removals : DeleteFiles(x)
  \/ \E t \in runner : \/ Minted(t) \/ Begin(t) \/ Chunk(t) \/ ChunkFails(t)
                       \/ Remint(t) \/ Finalize(t) \/ Reclaim(t)
  \/ CommitLands \/ CommitFails

Spec == Init /\ [][Next]_vars

------------------------------------------------------------------------------
States == {"requested", "transferring", "available", "failed_with_retry", "removing"}
Sizes == {0} \cup UNION {1..e : e \in Encodings}
RowOK(r) == /\ r.id \in 1..minted /\ r.rec \in Recordings
            /\ r.state \in States /\ r.off \in Sizes /\ r.len \in Sizes

(* Every variable keeps its shape, and a ledger has one row per download. *)
TypeOK ==
  /\ phase \in {"down", "up", "blind", "demoting", "stopping", "stopped", "halted", "swapped"}
  /\ net \in BOOLEAN
  /\ \A ledger \in {rows, disk, pump} :
       /\ \A r \in ledger : RowOK(r)
       /\ \A r, s \in ledger : r.id = s.id => r = s
  /\ \A id \in Ids : \A file \in {parts[id], owned[id]} :
       Len(file) \in Sizes /\ \A k \in 1..Len(file) : file[k] \in Encodings
  /\ \A id \in Ids : mark[id] \in Sizes
  /\ Cardinality(runner) <= 1 /\ Cardinality(pump) <= 1
  /\ \A i \in 1..Len(saves) : RowOK(saves[i].old)
  /\ minted \in 0..MaxIds /\ gone \subseteq 1..minted /\ told \subseteq 1..minted

(* What the player is given for a downloaded recording is the whole of one
   encoding: no bytes are missing, none belong to another stream
   (transfer-policy.ts: bytes from another encoding cannot be spliced).  Between an
   import and the launch after it the rows in memory are of files just deleted. *)
PlayableIsWhole ==
  \A r \in rows : r.state = "available" /\ phase # "swapped" =>
    r.len > 0 /\ owned[r.id] = [k \in 1..r.len |-> r.len]

(* "available is the durable terminal - owned files never expire and are never
   evicted": a download that was reported available leaves the ledger on disk,
   and its file goes, only by way of a durable 'removing' or of an import. *)
AvailableIsTerminal ==
  [][\A r \in disk : r.state = "available" /\ r.id \in told /\ ~Import =>
       /\ owned'[r.id] = owned[r.id]
       /\ \E s \in disk' : s.id = r.id /\ s.state \in {"available", "removing"}]_vars

(* A download whose removal was reported done, or that an import replaced, is in
   no ledger again, whatever stale row a runner, a commit that failed, the stopped
   manager or a restart still holds ("a live runner could repersist a row the
   import is about to swap out from under it"). *)
RemovedStaysRemoved ==
  gone \cap (IdsOf(disk) \cup IF phase = "swapped" THEN {} ELSE IdsOf(rows)) = {}

(* Nor has it a file again.  remove and stop both outlast the runner that writes
   to it, "so a caller that deletes the files right after stop (library import)
   must not race an open handle": a chunk or a rename after the deletion would
   leave bytes that no row owns. *)
NoFileLeftBehind == \A id \in gone : parts[id] = <<>> /\ owned[id] = <<>>

(* No download is forgotten: a row that may be transferred now has a pump or a
   transfer to wait for, and a row shown as transferring has its runner. *)
NoneStranded ==
  phase = "up" =>
    /\ \A r \in rows : r.state = "requested" /\ net =>
         \/ pump # {} \/ runner # {}
         \/ \E i \in 1..Len(saves) : saves[i].kind \in {"request", "retry"} /\ saves[i].old.id = r.id
    /\ \A r \in rows : r.state = "transferring" => \E t \in runner : t.id = r.id
=============================================================================
