------------------------- MODULE DomainProjection -------------------------
(***************************************************************************)
(* The desktop's path between the sync log and the library the user sees. *)
(* The utility process merges a peer's delta into the log and spills the  *)
(* applied outcomes to a file (apps/desktop/src/utility/sync-journal.ts); *)
(* the renderer drains the file page by page, commits each page to the    *)
(* domain database and acknowledges it (apps/desktop/src/renderer/        *)
(* controller.ts, packages/application/src/session/sync-ingress.ts).  The *)
(* user's edits go the other way: committed first, then emitted to the    *)
(* log from a queue in memory.  A pass over the log's materialized view   *)
(* repairs what either direction lost.                                    *)
(*                                                                         *)
(* A row is one field of one record.  Its values are numbered in the      *)
(* order they are written, 0 is "no such record".                         *)
(***************************************************************************)
EXTENDS Integers, Sequences, FiniteSets, SequencesExt

CONSTANTS
  Rows,        \* the synced fields
  MaxWrites,   \* bound: deltas applied and edits made
  MaxFaults,   \* bound: failures and crashes
  Page,        \* what one drain may serve, in segments of the file
  CompactAt,   \* the consumed prefix worth compacting, in segments
  Faults       \* the schedules the invariants do not survive: "overlap",
               \* "strand", "boot", "rewind"

ASSUME BoundsAssumption ==
  /\ IsFiniteSet(Rows)
  /\ MaxWrites \in Nat /\ MaxFaults \in Nat /\ Page \in Nat /\ CompactAt \in Nat

ASSUME FaultsAssumption ==
  Faults \subseteq {"overlap", "strand", "boot", "rewind"}

VARIABLES
  made,      \* writes so far: deltas applied and edits made
  faults,    \* failures so far
  log,       \* what the engine materializes for each row
  logged,    \* history: the values the log has held
  appending, \* spillTail: the outcome lists still to be appended
  file,      \* the spill: segments [row, val, whole, nl]
  off,       \* the sidecar: segments consumed
  awaiting,  \* awaitingAckBytes
  dropped,   \* appliedDropped
  io,        \* the offset advance that holds spillTail
  drain,     \* where drainApplied is
  ahead,     \* the appends queued on spillTail before its pull
  batch,     \* the page it serves: the outcome at each position of the file
  more,      \* remaining > 0
  needs,     \* reconcileNeeded
  wake,      \* a push, drainAgain or the ack's retry timer
  boot,      \* the boot pass: "no" | "drain" | "owed" | "runs"
  pass,      \* the reconcile pass: rows to come and the view it pages
  domain,    \* the committed library
  edits,     \* history: what the user wrote
  emitq,     \* #syncEmitPending
  sending    \* whether the emission drain runs

journal == <<appending, file, off, awaiting, dropped, io>>
renderer == <<drain, ahead, batch, more, needs, wake, boot, pass>>
session == <<domain, edits, emitq, sending>>
engine == <<log, logged>>
bounds == <<made, faults>>
vars == <<bounds, engine, journal, renderer, session>>

Line == [row : Rows, val : 1 .. MaxWrites]
Segment == [row : Rows, val : 1 .. MaxWrites, whole : BOOLEAN, nl : BOOLEAN]
Steps == {"idle", "advance", "zero", "copy"}
NoPass == [who |-> "none", todo |-> {}, view |-> [r \in Rows |-> 0]]
Quiet == [step |-> "idle", to |-> 0, by |-> "ack"]

Init ==
  /\ made = 0 /\ faults = 0
  /\ log = [r \in Rows |-> 0] /\ logged = {}
  /\ appending = <<>> /\ file = <<>> /\ off = 0 /\ awaiting = 0
  /\ dropped = FALSE /\ io = Quiet
  /\ drain = "down" /\ ahead = 0 /\ batch = <<>> /\ more = FALSE /\ needs = FALSE
  /\ wake = FALSE /\ boot = "no" /\ pass = NoPass
  /\ domain = [r \in Rows |-> 0] /\ edits = {}
  /\ emitq = <<>> /\ sending = FALSE

Fault == faults < MaxFaults /\ faults' = faults + 1
Write == made < MaxWrites /\ made' = made + 1

-----------------------------------------------------------------------------
(* What an outcome or an edit may still meet.                              *)

(* The user's last value of r has not reached the log.                     *)
Edits(r) == {e \in edits : e.row = r}
LastEdit(r) ==
  IF Edits(r) = {} THEN 0
  ELSE (CHOOSE e \in Edits(r) : \A f \in Edits(r) : f.val <= e.val).val
Unsent(r) == LastEdit(r) # 0 /\ LastEdit(r) \notin logged
Queued(r) == \E k \in DOMAIN emitq : emitq[k].row = r

(* An outcome of r may still be projected, for the first time or again.    *)
InFlight(r) ==
  \/ \E i \in DOMAIN appending : \E k \in DOMAIN appending[i] :
       appending[i][k].row = r
  \/ \E i \in DOMAIN file : file[i].row = r
  \/ \E i \in DOMAIN batch : batch[i].row = r
  \/ r \in pass.todo

Overlap == "overlap" \in Faults
PipelineEmpty == appending = <<>> /\ off = Len(file) /\ drain = "idle"

(* Only rows the log has never held have an edit it has not taken.         *)
Unstranded == \A r \in Rows : Unsent(r) => log[r] = 0

(* The first drain of the renderer's life is not the one that fails.       *)
BootHolds == boot = "drain" => "boot" \in Faults

(* A prefix that is served a second time ends on what the log holds.       *)
Newest(r) ==
  \/ \E i \in DOMAIN file : file[i].whole /\ file[i].row = r /\ file[i].val = log[r]
  \/ \E i \in DOMAIN appending : \E k \in DOMAIN appending[i] :
       appending[i][k] = [row |-> r, val |-> log[r]]
Replays == \A i \in DOMAIN file : file[i].whole => Newest(file[i].row)

-----------------------------------------------------------------------------
(* The utility process.                                                    *)

(* A delta a peer sent wins rows: the log shows them, and their outcomes   *)
(* are queued for the spill; the renderer is told.                         *)
Apply(rows) ==
  /\ Write
  /\ Overlap \/ /\ \A r \in rows : ~Unsent(r) /\ ~Queued(r)
                /\ pass.who # "boot"
  /\ log' = [r \in Rows |-> IF r \in rows THEN made' ELSE log[r]]
  /\ logged' = logged \cup {made'}
  /\ appending' = Append(appending, [k \in 1 .. Cardinality(rows) |->
                    [row |-> SetToSeq(rows)[k], val |-> made']])
  /\ wake' = (wake \/ drain # "down")
  /\ UNCHANGED <<faults, file, off, awaiting, dropped, io, drain, ahead, batch,
                 more, needs, boot, pass, session>>

Written(lines, whole, nl) ==
  [k \in DOMAIN lines |-> [row |-> lines[k].row, val |-> lines[k].val,
                           whole |-> whole, nl |-> nl]]

(* What a failed or interrupted append of these lines may leave behind:    *)
(* some of them, and a line without its end or without its newline.        *)
Kept(lines, n) == Written(SubSeq(lines, 1, n), TRUE, TRUE)
Torn(lines) ==
  UNION {{Kept(lines, n)} \cup {Kept(lines, n) \o Written(<<lines[n + 1]>>, whole, FALSE) :
                                 whole \in BOOLEAN} : n \in 0 .. Len(lines) - 1}

AppendEnds ==
  /\ appending' = Tail(appending)
  /\ ahead' = IF ahead = 0 THEN 0 ELSE ahead - 1
  /\ UNCHANGED <<drain, batch, more, needs, wake, boot, pass>>

Appended ==
  /\ appending # <<>> /\ io.step = "idle"
  /\ file' = file \o Written(Head(appending), TRUE, TRUE)
  /\ AppendEnds
  /\ UNCHANGED <<bounds, engine, off, awaiting, dropped, io, session>>

AppendFails ==
  /\ Fault
  /\ appending # <<>> /\ io.step = "idle"
  /\ \E left \in Torn(Head(appending)) : file' = file \o left
  /\ AppendEnds
  /\ dropped' = TRUE
  /\ UNCHANGED <<made, engine, off, awaiting, io, session>>

(* The ends of the lines of the file past the offset, the last one perhaps *)
(* without its newline, and the page a drain serves: all that fits, or the *)
(* first line alone when even that does not.                               *)
LineEnds == {i \in off + 1 .. Len(file) : file[i].nl \/ i = Len(file)}
Fitting == {i \in LineEnds : i - off <= Page}
PageEnd ==
  IF LineEnds = {} THEN off
  ELSE IF Fitting # {} THEN CHOOSE i \in Fitting : \A j \in Fitting : j <= i
  ELSE CHOOSE i \in LineEnds : \A j \in LineEnds : i <= j

Parses(i) ==
  /\ file[i].whole /\ i \in LineEnds
  /\ i = off + 1 \/ file[i - 1].nl

Served == {i \in off + 1 .. PageEnd : Parses(i)}
Poison == \E i \in off + 1 .. PageEnd : ~Parses(i)
Outcomes == [i \in Served |-> [row |-> file[i].row, val |-> file[i].val]]

(* Mutant: a page without an outcome is answered like any other.           *)
PullStuck ==
  /\ drain = "pull" /\ io.step = "idle" /\ ahead = 0
  /\ more' = (PageEnd < Len(file))
  /\ batch' = Outcomes
  /\ awaiting' = PageEnd - off
  /\ needs' = (needs \/ dropped \/ Poison)
  /\ dropped' = FALSE
  /\ drain' = IF Served = {} THEN "next" ELSE "commit"
  /\ UNCHANGED <<bounds, engine, appending, file, off, io, ahead, wake, boot, pass, session>>

(* One pull of drainApplied.  A page without an outcome has no ack to wait *)
(* for: the journal steps over it before it answers.                       *)
Pull ==
  /\ drain = "pull" /\ io.step = "idle" /\ ahead = 0
  /\ more' = (PageEnd < Len(file))
  /\ \/ /\ Served = {} /\ PageEnd > off
        /\ dropped' = TRUE
        /\ io' = [step |-> "advance", to |-> PageEnd, by |-> "drain"]
        /\ drain' = "skip"
        /\ UNCHANGED <<awaiting, batch, needs>>
     \/ /\ Served # {} \/ PageEnd = off
        /\ batch' = Outcomes
        /\ awaiting' = PageEnd - off
        /\ needs' = (needs \/ dropped \/ Poison)
        /\ dropped' = FALSE
        /\ drain' = IF Served = {} THEN "next" ELSE "commit"
        /\ UNCHANGED io
  /\ UNCHANGED <<bounds, engine, appending, file, off, ahead, wake, boot, pass, session>>

(* advanceSpillOffset: the sidecar, then a compaction once the prefix is   *)
(* worth it, which zeroes the sidecar before it swaps the file.            *)
Worth(to) == to >= CompactAt /\ 2 * to >= Len(file)

Advance ==
  /\ io.step = "advance"
  /\ off' = io.to
  /\ io' = [io EXCEPT !.step = IF Worth(io.to) THEN "zero" ELSE "done"]
  /\ UNCHANGED <<bounds, engine, appending, file, awaiting, dropped, renderer, session>>

(* Mutant: the file is swapped under the old offset.                       *)
ZeroLater ==
  /\ io.step = "zero"
  /\ io' = [io EXCEPT !.step = "copy"]
  /\ UNCHANGED <<bounds, engine, appending, file, off, awaiting, dropped, renderer,
                 session>>

ZeroOffset ==
  /\ io.step = "zero"
  /\ off' = 0
  /\ io' = [io EXCEPT !.step = "copy"]
  /\ UNCHANGED <<bounds, engine, appending, file, awaiting, dropped, renderer, session>>

SwapFile ==
  /\ io.step = "copy"
  /\ file' = SubSeq(file, io.to + 1, Len(file))
  /\ io' = [io EXCEPT !.step = "done"]
  /\ UNCHANGED <<bounds, engine, appending, off, awaiting, dropped, renderer, session>>

(* The drain that stepped over a poison page answers.                      *)
Skipped ==
  /\ io.step = "done" /\ io.by = "drain"
  /\ io' = Quiet /\ awaiting' = 0 /\ dropped' = FALSE
  /\ IF drain = "skip"
       THEN drain' = "next" /\ needs' = TRUE
       ELSE UNCHANGED <<drain, needs>>
  /\ UNCHANGED <<bounds, engine, appending, file, off, ahead, batch, more, wake,
                 boot, pass, session>>

Acked ==
  /\ io.step = "done" /\ io.by = "ack"
  /\ io' = Quiet
  /\ drain' = IF drain = "acking" THEN "next" ELSE drain
  /\ UNCHANGED <<bounds, engine, appending, file, off, awaiting, dropped, ahead,
                 batch, more, needs, wake, boot, pass, session>>

(* A step of the advance fails: the ack rejects and is retried later; the  *)
(* drain rejects, and its own caller forgets the boot pass.                *)
AdvanceFails ==
  /\ Fault
  /\ io.step \in {"advance", "zero", "copy"}
  /\ BootHolds
  /\ io.step = "copy" /\ drain = "acking" => "rewind" \in Faults \/ Replays
  /\ io' = Quiet
  /\ IF io.by = "ack"
       THEN /\ drain' = IF drain = "acking" THEN "idle" ELSE drain
            /\ wake' = (wake \/ drain = "acking")
            /\ boot' = IF drain = "acking" /\ boot = "drain" THEN "owed" ELSE boot
       ELSE /\ drain' = IF drain = "skip" THEN "idle" ELSE drain
            /\ boot' = IF drain = "skip" /\ boot = "drain" THEN "no" ELSE boot
            /\ UNCHANGED wake
  /\ UNCHANGED <<made, engine, appending, file, off, awaiting, dropped, ahead,
                 batch, more, needs, pass, session>>

(* The application is killed: what the utility held in memory is gone and  *)
(* an append under way is torn.  The renderer died with it.                *)
UtilityDies ==
  /\ Fault
  /\ drain = "down"
  /\ \E left \in IF appending = <<>> \/ io.step # "idle" THEN {<<>>}
                 ELSE {<<>>} \cup Torn(Head(appending)) : file' = file \o left
  /\ appending' = <<>> /\ awaiting' = 0 /\ dropped' = FALSE /\ io' = Quiet
  /\ UNCHANGED <<made, engine, off, renderer, session>>

-----------------------------------------------------------------------------
(* The renderer: one drain at a time, and reconcile passes of their own.   *)

(* Bring-up: the session is restored, the drain armed and started; the     *)
(* boot pass waits for that first drain.                                   *)
Boot ==
  /\ drain = "down"
  /\ drain' = "pull" /\ ahead' = Len(appending) /\ boot' = "drain"
  /\ UNCHANGED <<bounds, engine, journal, batch, more, needs, wake, pass, session>>

Woken ==
  /\ wake /\ drain = "idle"
  /\ wake' = FALSE /\ drain' = "pull" /\ ahead' = Len(appending)
  /\ UNCHANGED <<bounds, engine, journal, batch, more, needs, boot, pass, session>>

(* Where a drain that ends leaves the boot pass.                           *)
Returned == boot' = IF boot = "drain" THEN "owed" ELSE boot

(* applySyncedEntries: the page is one commit; the last outcome of a row   *)
(* is the one that shows.                                                  *)
LastOf(lines, r) ==
  lines[CHOOSE k \in DOMAIN lines :
          lines[k].row = r /\ \A j \in DOMAIN lines : lines[j].row = r => j <= k].val
Has(lines, r) == \E k \in DOMAIN lines : lines[k].row = r

Commit ==
  /\ drain = "commit"
  /\ domain' = [r \in Rows |-> IF Has(batch, r) THEN LastOf(batch, r) ELSE domain[r]]
  /\ batch' = <<>>
  /\ drain' = "ack"
  /\ UNCHANGED <<bounds, engine, journal, ahead, more, needs, wake, boot, pass, edits,
                 emitq, sending>>

(* Mutant: the page is acknowledged all the same.                          *)
CommitFailsAcked ==
  /\ Fault
  /\ drain = "commit"
  /\ BootHolds
  /\ batch' = <<>> /\ drain' = "ack"
  /\ UNCHANGED <<made, engine, journal, ahead, more, needs, wake, boot, pass, session>>

(* The bounded retries run out: the lines stay in the spill, unread until  *)
(* the next push.                                                          *)
CommitFails ==
  /\ Fault
  /\ drain = "commit"
  /\ BootHolds
  /\ batch' = <<>> /\ drain' = "idle"
  /\ Returned
  /\ UNCHANGED <<made, engine, journal, ahead, more, needs, wake, pass, session>>

(* ackApplied takes the bytes of the last drain at the call.               *)
Ack ==
  /\ drain = "ack" /\ io.step = "idle"
  /\ awaiting' = 0
  /\ drain' = "acking"
  /\ io' = [step |-> "advance", to |-> off + awaiting, by |-> "ack"]
  /\ UNCHANGED <<bounds, engine, appending, file, off, dropped, ahead, batch,
                 more, needs, wake, boot, pass, session>>

(* The loop's end: another page, a pass for what was reported dropped, or  *)
(* rest.                                                                   *)
Loop ==
  /\ drain = "next"
  /\ IF more
       THEN drain' = "pull" /\ ahead' = Len(appending) /\ UNCHANGED <<needs, boot>>
       ELSE /\ UNCHANGED ahead
            /\ IF needs
                 THEN drain' = "mend" /\ needs' = FALSE /\ UNCHANGED boot
                 ELSE drain' = "idle" /\ Returned /\ UNCHANGED needs
  /\ UNCHANGED <<bounds, engine, journal, batch, more, wake, pass, session>>

(* Mutant: a record the view lacks is taken for a deleted one.             *)
BeginPassErasing ==
  /\ pass.who = "none"
  /\ Overlap \/ IF "strand" \in Faults THEN emitq = <<>> ELSE Unstranded
  /\ \E who \in {"drain", "boot"} :
       /\ who = "drain" => drain = "mend"
       /\ who = "boot" => boot = "owed" /\ (Overlap \/ PipelineEmpty)
       /\ pass' = [who |-> who, todo |-> Rows, view |-> log]
       /\ boot' = IF who = "boot" THEN "runs" ELSE boot
  /\ UNCHANGED <<bounds, engine, journal, drain, ahead, batch, more, needs, wake, session>>

(* reconcilePass: one view of the log, paged onto the domain.              *)
BeginPass ==
  /\ pass.who = "none"
  /\ Overlap \/ IF "strand" \in Faults THEN emitq = <<>> ELSE Unstranded
  /\ \E who \in {"drain", "boot"} :
       /\ who = "drain" => drain = "mend"
       /\ who = "boot" => boot = "owed" /\ (Overlap \/ PipelineEmpty)
       /\ pass' = [who |-> who, todo |-> {r \in Rows : log[r] # 0}, view |-> log]
       /\ boot' = IF who = "boot" THEN "runs" ELSE boot
  /\ UNCHANGED <<bounds, engine, journal, drain, ahead, batch, more, needs, wake, session>>

PassPage ==
  /\ \E r \in pass.todo :
       /\ domain' = [domain EXCEPT ![r] = pass.view[r]]
       /\ pass' = [pass EXCEPT !.todo = @ \ {r}]
  /\ UNCHANGED <<bounds, engine, journal, drain, ahead, batch, more, needs, wake, boot,
                 edits, emitq, sending>>

(* Mutant: everything is re-emitted.                                       *)
UnsyncedAll == {r \in Rows : domain[r] # 0}

(* What a whole boot pass re-emits: the rows the view lacks or shows       *)
(* otherwise than the domain.                                              *)
Unsynced == {r \in Rows : domain[r] # 0 /\ domain[r] # pass.view[r]}

EndPass ==
  /\ pass.who # "none" /\ pass.todo = {}
  /\ pass' = NoPass
  /\ IF pass.who = "drain"
       THEN drain' = "idle" /\ Returned /\ UNCHANGED <<emitq, sending>>
       ELSE /\ boot' = "no"
            /\ emitq' = emitq \o [k \in 1 .. Cardinality(Unsynced) |->
                 LET r == SetToSeq(Unsynced)[k] IN [row |-> r, val |-> domain[r]]]
            /\ sending' = (sending \/ Unsynced # {})
            /\ UNCHANGED drain
  /\ UNCHANGED <<bounds, engine, journal, ahead, batch, more, needs, wake, domain,
                 edits>>

(* A page cannot be pulled or committed.  The drain keeps its flag; the    *)
(* boot pass has none.                                                     *)
PassFails ==
  /\ Fault
  /\ pass.todo # {}
  /\ pass.who = "boot" => "boot" \in Faults
  /\ pass' = NoPass
  /\ drain' = IF pass.who = "drain" THEN "idle" ELSE drain
  /\ needs' = (needs \/ pass.who = "drain")
  /\ boot' = IF pass.who = "boot" THEN "no" ELSE IF boot = "drain" THEN "owed" ELSE boot
  /\ UNCHANGED <<made, engine, journal, ahead, batch, more, wake, session>>

(* The window is reloaded or dies: everything in its memory is gone, the   *)
(* edits not yet emitted with it.                                          *)
RendererDies ==
  /\ Fault
  /\ drain # "down"
  /\ "strand" \in Faults \/ Unstranded
  /\ drain' = "down" /\ ahead' = 0 /\ batch' = <<>> /\ more' = FALSE /\ needs' = FALSE
  /\ wake' = FALSE /\ boot' = "no" /\ pass' = NoPass
  /\ emitq' = <<>> /\ sending' = FALSE
  /\ UNCHANGED <<made, engine, journal, domain, edits>>

-----------------------------------------------------------------------------
(* The user's edits.                                                       *)

Edit(r) ==
  /\ Write
  /\ drain # "down"
  /\ Overlap \/ (~InFlight(r) /\ (domain[r] = log[r] \/ Unsent(r)))
  /\ domain' = [domain EXCEPT ![r] = made']
  /\ edits' = edits \cup {[row |-> r, val |-> made']}
  /\ emitq' = Append(emitq, [row |-> r, val |-> made'])
  /\ sending' = TRUE
  /\ UNCHANGED <<faults, engine, journal, renderer>>

Emit ==
  /\ sending /\ emitq # <<>>
  /\ log' = [log EXCEPT ![Head(emitq).row] = Head(emitq).val]
  /\ logged' = logged \cup {Head(emitq).val}
  /\ emitq' = Tail(emitq)
  /\ sending' = (Tail(emitq) # <<>>)
  /\ UNCHANGED <<bounds, journal, renderer, domain, edits>>

(* The call fails, perhaps after the log took the write: the chunk is kept *)
(* for the next emission.                                                  *)
EmitFails ==
  /\ Fault
  /\ sending /\ emitq # <<>>
  /\ \E took \in BOOLEAN :
       /\ log' = IF took THEN [log EXCEPT ![Head(emitq).row] = Head(emitq).val] ELSE log
       /\ logged' = IF took THEN logged \cup {Head(emitq).val} ELSE logged
  /\ sending' = FALSE
  /\ UNCHANGED <<made, journal, renderer, domain, edits, emitq>>

-----------------------------------------------------------------------------
Advancing == Advance \/ ZeroOffset \/ SwapFile \/ Skipped \/ Acked
Draining == Woken \/ Pull \/ Commit \/ Ack \/ Loop
Passing == BeginPass \/ PassPage \/ EndPass

Next ==
  \/ \E rows \in SUBSET Rows \ {{}} : Apply(rows)
  \/ Appended \/ AppendFails \/ Advancing \/ AdvanceFails \/ UtilityDies
  \/ Boot \/ Draining \/ CommitFails \/ Passing \/ PassFails \/ RendererDies
  \/ \E r \in Rows : Edit(r)
  \/ Emit \/ EmitFails

Spec == Init /\ [][Next]_vars

FairSpec ==
  /\ Spec
  /\ WF_vars(Appended) /\ WF_vars(Advancing) /\ WF_vars(Boot)
  /\ WF_vars(Draining) /\ WF_vars(Passing) /\ WF_vars(Emit)

-----------------------------------------------------------------------------
TypeOK ==
  /\ made \in 0 .. MaxWrites /\ faults \in 0 .. MaxFaults
  /\ log \in [Rows -> 0 .. made] /\ logged \subseteq 1 .. made
  /\ appending \in Seq(Seq(Line)) /\ file \in Seq(Segment)
  /\ off \in 0 .. Len(file) /\ awaiting \in Nat
  /\ dropped \in BOOLEAN
  /\ io.step \in Steps \cup {"done"} /\ io.to \in Nat
  /\ io.by \in {"ack", "drain"}
  /\ ahead \in 0 .. Len(appending)
  /\ drain \in {"down", "idle", "pull", "skip", "commit", "ack", "acking", "next", "mend"}
  /\ DOMAIN batch \subseteq DOMAIN file /\ (\A i \in DOMAIN batch : batch[i] \in Line)
  /\ more \in BOOLEAN /\ needs \in BOOLEAN
  /\ wake \in BOOLEAN /\ boot \in {"no", "drain", "owed", "runs"}
  /\ pass.who \in {"none", "drain", "boot"} /\ pass.todo \subseteq Rows
  /\ domain \in [Rows -> 0 .. made] /\ edits \subseteq Line
  /\ emitq \in Seq(Line) /\ sending \in BOOLEAN

(* What the domain will show of r once everything in the pipeline is       *)
(* committed: the file's unread lines come after the page being committed, *)
(* and the lists still to be appended after those.                         *)
Start == IF io.step = "copy" THEN io.to ELSE off
Unread == [i \in {i \in Start + 1 .. Len(file) : Parses(i)} |-> file[i]]
Coming(r) ==
  LET with == {i \in DOMAIN appending : Has(appending[i], r)}
  IN  IF with # {} THEN LastOf(appending[CHOOSE i \in with : \A j \in with : j <= i], r)
      ELSE IF Has(Unread, r) THEN LastOf(Unread, r)
      ELSE IF Has(batch, r) THEN LastOf(batch, r)
      ELSE domain[r]

(* A pass over the log's view is owed or under way, or a line no drain can *)
(* parse will call for one.                                                *)
Recovering(r) ==
  \/ drain = "down" \/ boot \in {"drain", "owed"}
  \/ dropped \/ needs \/ drain = "skip"
  \/ drain = "mend" /\ pass.who # "drain"
  \/ r \in pass.todo /\ pass.view[r] = log[r]
  \/ \E i \in off + 1 .. Len(file) : ~Parses(i)

(* Nothing the log holds is lost to the library: whatever was torn, left   *)
(* unacknowledged, served again or compacted, each row shows what the log  *)
(* shows, will once the pipeline is read, or a pass will repair it.        *)
ProjectionOwed ==
  \A r \in Rows : Coming(r) = log[r] \/ Unsent(r) \/ Recovering(r)

(* An edit the log has not taken is still in the library, where the next   *)
(* boot's diff can find it: a pass erases no row its view lacks.  A page   *)
(* or a pass that meets an unsent edit of a row it has a value for is a    *)
(* fault ("overlap", "strand"), and erases it.                             *)
EditKept == \A r \in Rows : Unsent(r) => domain[r] = LastEdit(r)

(* Only the user's own edits are emitted: a peer's write never enters the  *)
(* log a second time as this device's.                                     *)
EmitsOwnEdits == \A k \in DOMAIN emitq : emitq[k] \in edits

(* The drain gave up on a failing commit or pass, or an emission failed:   *)
(* it waits for the next push or the next edit.                            *)
GaveUp ==
  \/ (drain = "idle" /\ (needs \/ dropped \/ off < Len(file)))
  \/ (emitq # <<>> /\ ~sending)

(* Nothing wedges the path: in the end the library shows the log, or       *)
(* retries ran out.                                                        *)
DomainCatchesUp == <>[](GaveUp \/ domain = log)
=============================================================================
