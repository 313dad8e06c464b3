# A formal model of Auqw

Auqw is a music player for Android and desktops: search, queue, likes and
playlists, downloads, and a library that a user's devices keep in step over the
local network with no server. This directory holds TLA+ modules that model the
parts of it where the order of events matters, TLC configurations that check them
on small instances, and proofs, checked by TLAPS, of what matters most.

The path prefix `sync/` below stands for `packages/application/src/sync/`, `app/`
for `packages/application/src/`. Line numbers are of the commit the models were
read from.

## 1. The system

| Component | State | Operations | Hard behaviour | Correct means |
|---|---|---|---|---|
| **Hybrid clock, entry order** (`sync/hlc.ts`, `entry-order.ts`) | a stamp (l, c) per device | tick, receive | counter and wall overflow, wall clocks apart | stamps identify, stamps cover what was seen |
| **Sync merge engine** (`sync/sync-engine.ts`) | log lanes, materialized cells, tombstones, divergence rows, cursors, peer claims | local write, export, apply, compaction, hydrate, restore | any order of arrival, relays, holes, two durable writes per operation, crashes | convergence, nothing lost silently, honest cursors |
| **Sync client / responder / host** (`sync-client.ts`, `sync-responder.ts`, `sync-host.ts`) | one session per peer, in-flight requests, round state | pair, run round, keepalive, republish | request timeouts, lost answers, a session replaced in mid round | a round ends, what it delivered is what was exported |
| **Sync scheduler** (`sync-scheduler.ts`) | per peer a timer, a dirty flag, a backoff, a rate-limit floor | start, fire, landed round, emission, connectivity edge, unpair | emissions interleaved with a round's own, a session that dies under a round | rounds never overlap, every local write gets a round |
| **Clipboard deltas** (`delta-docs.ts`) | none | collect, apply | a page pasted alone or twice | each page is a valid delta |
| **Desktop log file** (`apps/desktop/src/utility/sync-log.ts`) | a JSONL file | open, append, checkpoint | crashes at any byte, failed writes and fsyncs | acknowledged is durable, the device id is stable |
| **Spill journal** (`apps/desktop/src/utility/sync-journal.ts`) | spill file, offset file, in-memory queue | record, drain, ack, compact | crash between the renames, ack of another drain | at least once, or a reconcile flag |
| **Projection and ingress** (`sync-projection.ts`, `app/session/sync-ingress.ts`) | domain rows | project deltas, emit local changes | stale aggregate, echo of an applied delta | domain rows equal the engine's view |
| **SQLite storage** (`packages/storage-sqlite`) | two stores on one connection, the mobile log store | transactions, migrations | overlapping transactions, cancelled waits | one transaction at a time |
| **Queue engine, radio tail** (`app/queue/`) | occurrences, current, mode, unplayable set, revision | commands, reconcile with the native player | long command sequences | consistent current, one revision per change |
| **Playback session** (`app/session/`) | lanes, generations, playback state | play, skip, recover, radio | superseded results | only the newest generation commits |
| **Download manager** (`app/downloads/`) | rows with a status, one active transfer | enqueue, cancel, remove, pump, edges | state held across awaits | no resurrected row, eligible rows start |
| **Auth session** (`app/auth/session.ts`) | owner grant, bearer, custody | sign in, renew, rotate, sign out | a late renewal, a failed custody write | a sign-out stays signed out |
| **Providers, retry, race** (`app/providers/`, `app/retry.ts`) | catalogues, a deadline | route, retry, race | an answer against its deadline | settles once within its budget |
| **Stream server** (`crates/auqw-stream`) | sessions, registry, pump, demand positions | attach, read, supersede, abandon, reap | four locks, condition variables, a reaper | no torn-down reader, demand returns to zero |
| **Plugin host** (`crates/plugin-host`, `host-surface`) | a guest instance, staged key-value writes | invoke, suspend, commit | fuel, a trap in mid step | staged writes commit or vanish |
| **Desktop processes** (`apps/desktop/src/main`, `utility`) | utility process, queued and in-flight requests | spawn, call, crash, backoff | a crash with requests in flight | every request settles once |
| **Shells** (`apps/mobile`, `packages/ui-*`, `app-shell`) | view state | navigation, adapters | none of its own | not a subject here |

**How they interact.** The session services commit domain rows and hand the engine
change entries (`sync-emit.ts`). The engine appends them to the log store (a SQLite
table on mobile, `sync-log.ts` on the desktop) and merges them. The scheduler wakes
the client, which opens a Noise session with a peer's host, pulls and pushes pages of
entries, and applies what it got; the engine's `onApplied` callback feeds the
projection, directly on mobile, through the spill journal on the desktop, where the
engine lives in the utility process and the domain rows behind an IPC boundary
guarded by the supervisor. Playback, downloads and search share providers, which run
plugins in the Rust host; audio bytes flow through the Rust stream server.

The library sync is the part with the most distributed behaviour and the one whose
mistakes nobody could undo, so it is modelled first. `PROJECT.json` lists every
component with its status, and every hazard at its line with the properties that
cover it or the reason nothing does yet.

## 2. The modules

```
SyncRules            hybrid clock, order on entries, merge rule     (no variables)
 +- SyncRulesProofs      lemmas on the clock, the order and one device's merge
 +- SyncMerge        every device's merge, transport abstracted to "any order"
 |   +- MCSyncMerge       instance for TLC
 |   +- SyncMergeProofs   theorems
 +- SyncEngine       logs, cursors, export, apply, compaction, crashes
     +- MCSyncEngine      instances for TLC
     +- SyncEngineProofs  theorems, and what folding a log, a claim table or a document comes to
SharedLibrary        the promise: SyncMerge and SyncEngine implement it
SyncLogFile          the desktop's log file under crashes
 +- MCSyncLogFile    instance for TLC
 +- SyncLogFileProofs    theorems
SyncScheduler        when rounds run: the scheduler over the client's session
 +- MCSyncScheduler  instance for TLC
 +- SyncSchedulerProofs  theorems
DomainProjection     from the desktop's log to its library and back: spill, drain, passes
 +- MCDomainProjection   instances for TLC
 +- DomainProjectionProofs   theorems: types, nothing echoed, nothing lost
DownloadManager      the downloads: ledger, files, one transfer, commands between awaits
 +- MCDownloadManager    instance for TLC
 +- DownloadManagerProofs   theorems
PreparedSessions     who owns a prepared stream: requests, cancels, players, reaper
 +- MCPreparedSessions   instance for TLC
 +- PreparedSessionsProofs   theorems: types and locks, owners, cancels
```

An entry is `[rec, field, val, l, c, dev, seq]`; a delete is the entry whose field is
`TombField`. Field names, record ids and values are model values or small numbers:
merging only compares them, and adds those of sum fields. The three kinds of field
(`LwwFields`, `MaxFields`, `SumFields`) are the three merge rules of `SYNC_FIELD_RULES` (`sync-engine.ts:768-856`).

**SyncRules.** `Tick` and `Receive` are `hlc.ts`; they return the empty set where the
code throws `hlc exhausted`. `Less` is `compareEntryTs`, `KeyOf` is `entryKey`,
`Beats`/`Winners` are the contest of `pickWinner`, `SumValue` is the saturating sum of
the device components, `LiveInsert` is `liveInsert` with its domination pruning, and
`Reduce` is `reduce` with its four outcomes: buried, tombstone, loser, winner. The
merge state holds what the engine holds: `tomb` and `live` (together `mergeLive`), the
cached winners `win`, the cached values `shown`, and `rows`, the losers handed to the
divergence history. `View` is no code: it says what a *set* of entries means, whatever
the order it arrived in.

**SyncMerge.** `WriteField`/`WriteTomb` are `writeChanges` of one change, `Accept` is
the per-entry part of `applyDelta`. Any entry ever emitted may reach any device that
lacks it, at any time: more than any transport does.

**SyncEngine.** One action per engine operation, because `runOp` serializes them.

| Action | Code |
|---|---|
| `Write`, `WriteFails` | `writeChanges`, its append durable or not |
| `Export` | `exportDelta` of one page, from the requester's cursor, or (fault `stale`) from one the sender remembers |
| `Paste` | any one page of `collectSyncDeltaDocs` applied by hand on another device |
| `Apply`, `ApplyFails` | `applyDelta`: fold claim, filter, clock, append, merge, cursor, compaction, second best-effort write |
| `Lose` | a request that timed out or a session that dropped |
| `Restart` | process death and `hydrate` |
| `Age` | a play event leaves the retention window |

`mark` and `ahead` are the contiguous watermarks and the seqs above them; `peerMarks`
is the claim table in memory, `peerRows` the one in the store, `stale` the senders the
store remembers that have been silent since the start, `dirty` the claims not yet
durable. `emitted` and `accepted` are history variables. Every durable write may fail;
the second write of an operation fails independently of the first.

**SyncLogFile.** `SyncEngine` takes a durable append as atomic; this module asks
whether the desktop's is. A line is whole, torn (its end is missing) or mangled
(something was appended to a torn one). Bytes not yet fsynced survive a crash as any
prefix; a rename and a truncate are atomic. `Mint`, `HeaderSynced`, `Open` and
`OpenBlank` are the branches of `openSyncLogStore`; `AppendLine`, `Sync`, `SyncFails`
and `Checkpoint` the stages of `append`; `AppendShort` is an `appendFile` that fails
after part of the line reached the file, and belongs to `FullDiskSpec` only; `Spec` is
a disk on which an append writes its whole line or none.

**SyncScheduler.** `sync-scheduler.ts` and `sync-client.ts` together, for one peer. The
two are joined by promises and by status emissions, and the order in which those arrive
is what the scheduler's flags exist for, so an action runs up to the last reaction of
the scheduler: `Hear` is `onStatus`, `Landed` the end of `runRound`, `Wake` is
`schedule`, and every action that emits passes its emission through `Heard`.

| Actions | Code |
|---|---|
| `Fire`, `Manual` | a wake fires and `runRound` calls `syncNow`; the user calls it |
| `DialFails`, `DialOpens` | the shared dial, with `dropPeer` on `auth-required` |
| `Request`, `Reply`, `Finish` | a page exported and sent, its reply applied, the end of an operation of the lane (`enqueue`) with its drain emission |
| `Ping`, `Kicked`, `Dropped` | keepalive, a server's `sync-request`, `killSession` |
| `Republished` | an emission about another peer |
| `Paired`, `Unpaired` | `pairOp` or `refreshPeers`, `unpair` |
| `Launch`, `LocalWrite`, `GoesOffline`, `GoesOnline` | the scheduler's own entry points |

`track` is the `PeerTrack` less its cancel sources, delays and floor: its timer (none, a
write debounce, another wake), `dirty`, and `unseen` for a `lastRound` not yet consumed.
`owed` is a history variable: a change the peer was not sent.

**DomainProjection.** `sync-journal.ts`, the renderer's `controller.ts` and
`sync-ingress.ts` together: on the desktop the log lives in one process and the library
in another, with a file between them. An action is one step of either process up to its
next await; the file's operations hold `spillTail`, so they are stages of one `io`.

| Actions | Code |
|---|---|
| `Apply`, `Appended`, `AppendFails` | a delta merged and its outcomes queued for the spill; the append, or a part of it |
| `Pull`, `Skipped` | `drainApplied`: a page of outcomes, or a page of unparsable lines stepped over |
| `Ack`, `Advance`, `ZeroOffset`, `SwapFile`, `Acked`, `AdvanceFails` | `ackApplied` and `advanceSpillOffset` with its compaction, each step of which may fail |
| `Boot`, `Woken`, `Commit`, `CommitFails`, `Loop` | the renderer's drain loop with its retries and wakes |
| `BeginPass`, `PassPage`, `EndPass`, `PassFails` | `reconcilePass` for a drain that lost something or at bring-up, and the boot diff (`emitUnsynced`) |
| `Edit`, `Emit`, `EmitFails` | a user's commit, and the emission queue behind it |
| `UtilityDies`, `RendererDies` | the processes |

A row is one newest-wins field; its values are numbered as they are written, so that a
value names the write. `log` is what the engine materializes, `domain` the committed
library. The spill is a sequence of lines with a flag for a torn one and a flag for a
missing newline, which is what `Parses` decides by; `off` is the sidecar. `logged` and
`edits` are history variables.

**DownloadManager.** `download-manager.ts` with `transfer-policy.ts`. The manager has no
locks: what keeps it right is which fields an action reads again after an await, so one
action runs from one await to the next.

| Actions | Code |
|---|---|
| `Launch`, `Stop`, `Stopped`, `Crash` | `init` with its integrity pass and sweeps, `stop` up to its demotion, its return, a kill |
| `Import` | `replaceLibrary` of the controllers after `stop`: the swapped library, the deleted files |
| `Request`, `Retry`, `Cancel`, `Remove`, `Replace` | the commands up to their first commit |
| `DeleteFiles` | `removeRow` after the runner is down |
| `GoesIneligible`, `GoesEligible`, `PumpAnswer` | edges of the network, and the pump once the network's state is known |
| `Minted`, `Begin`, `Chunk`, `ChunkFails`, `Remint`, `Finalize`, `Reclaim` | a runner: the playback resolved, the resume decided, chunks, the 403/416 path, the rename |
| `CommitLands`, `CommitFails` | the end of a `#persist`, with all that its caller does next (`Landed`, `Refused`) |

The ledger is a set of rows; `disk` is the ledger last committed, and `saves` the commits
that wait their turn: each writes the *whole* ledger as it is when its turn comes. A
file is a sequence of chunks, each named by the encoding it came from, and an encoding is
named by its length, which is what the code compares. `phase` follows the manager and its
caller: "demoting" and "stopping" are inside `stop`, which waits for its demotion and then
for the runner and for nothing else ("stopped"); "halted" is a `stop` whose demotion
failed, "swapped" an import that has yet to call `init`, and "blind" an `init` that failed.
`Quiesced` says that what `stop` does not wait for, removals and other commits, has ended;
that it has not is the fault "late".

**PreparedSessions.** The Rust side of a play: `start_prepare`, its delivery task and
`cancel` of the plugin host (`crates/host-surface`), over the session registry of
`crates/auqw-stream`. These run on threads, so an action is one critical section, and the
locks held across several (`lockM`, the admission's guards on `prepared_handles` and
`cancels`; `lockP`, the registry's `prepare_lock`) are variables.

| Actions | Code |
|---|---|
| `Admit`, `AdoptMiss`, `AdoptScan`, `AdoptSweep`, `AdoptClaim` | `start_prepare` on the caller's thread: admission, then the adoption of a warm session |
| `AdoptRecheck`, `Tell`, `Flip` | the delivery task of an adopted session |
| `ResolveFails`, `PrepareScan`, `PrepareShare`, `PrepareNew`, `PrepareFails`, `StoneCheck`, `Commit`, `Refuse`, `Tell`, `Flip` | the invocation, `prepare_timed`, and the delivery that commits or gives up |
| `CancelLook`, `CancelWaits`, `CancelWakes`, `CancelTake`, `CancelStone` | `cancel`: the token, the slot (after its delivery window), the tombstone |
| `Attach`, `Close`, `Release`, `Forget` | `stream_open`, `stream_close`, `stream_release` by a player that was told the handle |
| `Age`, `Reap`, `PumpFails` | `prepare_ttl` without a player, the reaper, a terminal error of the pump |

A session is its end, if it has one, and its four flags; a request is where its thread or
task stands. Requests and sources are numbered in the order they first appear.

**SharedLibrary.** The abstract specification: a device writes a change that orders
after all it knows, or learns changes others wrote, and shows at every moment the
meaning of what it knows. The refinement mapping is
`written <- emitted, known <- accepted (acc), shown <- the cached values`.

## 3. The runs

| Run | Question | Instance | Result |
|---|---|---|---|
| `sync_merge` | Is the incremental merge the meaning of the accepted set? | 2 devices, 1 record, one field of each merge rule and deletes, values 1..2, 4 writes, MaxInt 2 | holds |
| `engine_restart` | Do crashes and failed writes leave the engine truthful? | 2 devices, both directions, pages of 2, 3 writes, faults crash and append, MaxInt 1 | holds |
| `engine_pages` | Do cursors stay honest with gaps, stale cursors and replays? | 3 devices, link 2-3, paste 1 to 2, pages of 1, a sum field, 3 writes, faults stale and replay | holds |
| `engine_relay` | Does compaction wait for everyone it should? | 3 devices in a line, pages of 1, 2 writes, crashes | holds |
| `engine_rounds` | Do fair rounds converge? | 2 devices, pages of 1, play events that age out, lost documents | holds |
| `log_file` | Is an acknowledged append durable, the id stable? | 4 appends, 2 entries, 2 ids, crashes, failed fsyncs | holds |
| `scheduler_rounds` | Do rounds stay alone, and does what is pending keep a wake? | 1 peer, no further faults | holds |
| `projection` | Does the library end up showing the log, and the log the user's edits? | 2 rows, 3 writes, 2 failures or deaths, pages of 2 lines, compaction from 2 | holds |
| `projection_echo` | "Never emits: remote writes are not local writes"? | the same, drains beside the boot pass, compaction from 1 | **violated** |
| `download_files` | Is a playable file whole, a removal final, no row forgotten? | 1 recording, 2 ids, encodings of 1 and 2 chunks, 2 waiting commits, six kinds of which may fail | holds |
| `prepare_owned` | Is a session nobody's to take while someone holds or was promised it, and everybody's afterwards? | 2 requests, 2 sources, 2 sessions | holds |
| `download_splice` | "splicing bytes across encodings would corrupt the file": excluded? | the same, a stop between a chunk and its checkpoint | **violated** |

What the properties say, beyond the type invariant of each module:

- `ViewCorrect`: pruning dominated candidates and caching winners and
  sums never shows a value the whole set would not. The hard case is a late delete that
  kills the dominator of a candidate that was pruned.
- `NoSilentLoss`: an accepted value is shown by its partition or is in the history.
- `KeysIdentify`, `ClockCoversAccepted`, `LocalWriteShows`: the clock, at its overflow
  too, never repeats a stamp and orders a user's write after all they could see.
- `ClaimsAreBacked`: a cursor that covers a change either accounts for the change or
  for something that supersedes it. A false claim would make every peer suppress the
  change for ever. The refinement to "superseded" is what compaction amounts to.
- `CaughtUpConverges`, `EventuallyConsistent`: same cursors, or enough rounds, same
  library. (Same entries, same library, is `Convergence`, which is proved.)
- `NothingLost`: what a compacted log still holds means what everything accepted means,
  so that the next start shows the same library.
- `SeqsIdentify`: no ordinal is used twice although compaction drops rows from which
  `hydrate` recovers the next one.
- `CompactionWaits`: a row goes only when every remembered peer holds it *now*.
- `ImplementsLibrary`: every step of the engine, failures and restarts included, is a
  write, a learning step or a stutter of `SharedLibrary`. In particular a failed append
  shows nothing, and a restart shows exactly what was shown before.
- `AckedSurvive`, `HistoryKept`: whatever part of the unsynced bytes a crash leaves,
  the next open reads an initial part of the writes with every acknowledged one in it;
  a log that acknowledged anything is never replaced.
- `RoundsAlone`: whatever emission interleaves with a round, the scheduler has one round
  at most and no wake beside it.
- `WriteHasWake`: while the phone is online, a change the peer was not sent has a wake
  armed, a round in flight that will take it along, or a flag that starts another.
- `ProjectionOwed`: whatever is torn, served again, left without an ack, compacted or
  lost with a process, each row shows what the log shows, will once the pipeline is
  read, or has a pass coming that repairs it. It relates the log, three stages of the
  pipeline, the file and its offset, and five flags in two processes.
- `EditKept`: an edit the log has not taken is still what the library shows, for it is
  the only place left to recover it from. In `projection` this says that a pass does not
  erase a row its view lacks; the pages and passes that meet an unsent edit of a row the
  log has are the faults "overlap" and "strand", and under both the property fails (below).
- `EmitsOwnEdits`: a peer's value never enters the log again as this device's edit. In
  `projection` the boot pass runs beside an empty pipeline; that it fails beside drains is
  `projection_echo`.
- `DomainCatchesUp`: in the end library and log agree, or bounded retries ran out.
- `PlayableIsWhole`: what is `available` is every byte of one encoding, whatever
  re-mints, cancels, failed commits and kills went before.
- `AvailableIsTerminal`: a download reported available leaves by way of a durable mark.
- `RemovedStaysRemoved`: a removal reported done, or an import's replacement of the rows,
  is not undone by a stale row that a runner, a failed commit or a restart still holds.
- `NoneStranded`: an eligible row has a pump or a transfer to wait for.
- `NoFileLeftBehind`: a download that was removed, or replaced by an import, has no file
  again. It relates what `removeRow` and `stop` waited for to every chunk and rename a
  runner may still make afterwards.
- `EndsRespectOwners`: a playing session ends only because it was released or failed;
  one that a request was promised is neither superseded nor cancelled for another's sake,
  although scan, claim and attach share no lock.
- `ClaimHasOwner`: a live claimed session has an owner's slot, or a player whose close
  drops the claim; otherwise supersede and cancel would spare it for ever.
- `CancelTakesEffect`: after `cancel` returned, its request owns no live session and no
  outcome that names one is under way, whichever record the cancel found.
- `RequestsSettle`: every admitted prepare has an outcome and every cancel returns.
- `DropReconnects`: an offline peer that did not refuse is not forgotten: something that
  dials it again is armed or under way.

**Bounds.** `MaxInt` stands for 2^53-1 and is 1 or 2 where overflow of the clock's
counter, of its wall part, and saturation of sums must happen within the writes
allowed; 9, never reached, where the order of stamps is all that matters. `MaxWrites`,
`MaxEntries` count changes in the whole library: three make a hole with a page above
it, four make a delete, the candidate it spares, the one it kills and the one that was
pruned between. `MaxDocs = 1` document is in flight: reordering comes from `stale`
cursors and `replay`, which keep an old document deliverable after newer ones.
`PageLimit = 1` puts a page boundary between any two entries; the engine's own limit
is 10 000 entries or 1 MiB. `Times` is a single value: what wall clocks add, moving
ahead of or behind a peer, is exercised by overflow and by the counter alone here, and
is covered for every set of values by the proofs. `MaxIds = 2` mints once and again.
A failed write (`WriteFails`) consumes a tick of the clock, as in the code, and is
bounded by `MaxInt`. Writes are bounded, so those systems may come to rest:
`CHECK_DEADLOCK FALSE`. `SyncScheduler` is finite without bounds on steps, and checked for
deadlock: delays are left out, so a wake may fire at any moment, which allows every
order the real delays allow; one ping, one kick and one manual round at a time keep the
lane at four operations. `scheduler_rounds` excludes the two faults under which the code
breaks its word, and nothing else: dials, rounds and sessions fail there at will.

In `DomainProjection` a page boundary falls inside a delta of two rows (`Page = 2` against
up to three writes of one or two lines), an ack may leave a consumed prefix or compact it
(`CompactAt = 2`), and two failures combine: an append torn before an ack that fails, a
death after a failed commit. A failing copy of a compaction is in the passing run too,
where what it serves again ends on what the log holds (`Replays`). In `DownloadManager` two ids are a download and its replacement; the longer
encoding has one chunk before and one at the checkpoint; two waiting commits are a
command's and the transfer's. In `PreparedSessions` two requests of one source
share, adopt or refuse a session, two of different sources sweep each other's; more than
one session per request is never made. `Faults = {}` in the passing runs of the four modules with that
constant excludes the schedules under which the code breaks its word (below), and only those.

**Fairness** (`FairSpec` of SyncEngine). Weak fairness of "a document in flight is applied or
lost": every request has a deadline. Strong fairness of `Export` on each link: the
scheduler runs rounds again and again (its retry ladder is capped at a minute), not at
any chosen moment. Strong fairness of an authenticated `Apply` on each link: a link
that keeps carrying documents gets one through. Nothing is assumed of local writes,
pastes, ageing or crashes; crashes are not part of the liveness runs, which would need
"finitely many crashes", and play events past retention are excepted. In
`DomainProjection`, weak fairness of what one process does by itself once it is enabled:
an append, a step of an offset advance, the drain loop, a pass, an emission, and the
bring-up after a death. Deltas, edits and failures are not fair; failures are finite
(`MaxFaults`), and each retry budget may run out on them (`GaveUp`), as in the code. In
`PreparedSessions`, weak fairness of the steps of each start, delivery and cancel that has
begun: threads run, mutexes are released, an invocation ends by its budgets. Nobody has to
start, cancel, play, close or release anything, and the reaper is not relied on.

### What the violations show

1. **Two encodings in one file** (`download_splice`). `runTransfer` checks its cancel
   signal after a chunk is committed and before `onProgress` (`transfer-policy.ts:478-484`).
   When a 403 re-mint flipped to another encoding (the part discarded, `405-429`) and a
   cancel or a connectivity edge falls on the new encoding's first chunk, the part holds
   the new bytes and the ledger still the old offset and length; a kill before the next
   checkpoint does the same. If the next attempt mints the old encoding again its length
   matches (`321-337`), the part is cut to the recorded offset and appended to: an
   `available` file that is one encoding's head and the other's tail.
2. **A peer's change comes back as one's own** (`projection_echo`). The boot pass
   compares the library with the view taken at its first page (`sync-server.ts:910-913`);
   drains are free to run beside it. A delta that is drained meanwhile looks unsent and
   is emitted with a new stamp of this device (`controller.ts:639-658`), which beats what
   the peer wrote since. `sync-ingress.ts:423-424` says "Never emits: remote writes are
   not local writes".

### Other disagreements the modules can show

These are kept out of the runs above so that the set of instances stays small; each
is one line of a configuration away.

| Disagreement | How to see it |
|---|---|
| **A hole stalls a peer.** `exportDelta` pages in stamp order from the receiver's contiguous cursor (`sync-engine.ts:2492-2510`), so a page of entries above a hole the sender cannot fill is shipped for ever and nothing after it; `313-314` says "chattier, never lossy". In the program it takes 10 000 entries or 1 MiB. | `NeverLossy` in `SyncEngine`, with `PageLimit = 1`, three devices and a pasted page |
| **A short append loses later acknowledged ones.** The torn bytes stay (`sync-log.ts:528`), the next line continues them and is cut off by the next open; `64-66` says it can never be. | `AckedSurvive` under `FullDiskSpec` of `SyncLogFile` |
| **A crash in the first open disables sync.** An empty file counts as a log with device id `''` (`sync-log.ts:286`), which the engine refuses; `567-568` promises a replacement. | `OpenYieldsIdentity` of `SyncLogFile` |
| **A round that dies with its session is taken for an own cancel** (`sync-client.ts:451`, `898-904`, `sync-scheduler.ts:300`), and an idle phone stays offline; `451-452` promises the ladder. | `DropReconnects` with `Faults = {"behind"}` |
| **A forgotten pairing leaves its track** (`sync-client.ts:1273-1277`), and the next pairing gets no first round, which `sync-scheduler.ts:373-375` promises. | `WriteHasWake` with `Faults = {"forget"}` |
| **A failed init erases the downloads.** The application goes on after it with an empty ledger in memory (`apps/mobile/src/session/controller.ts:753-760`); the next request commits that ledger whole (`download-manager.ts:750-764`), and the next init sweeps the files as orphans, though "owned files never expire" (`31-32`). | `AvailableIsTerminal` with `Faults = {"init"}` |
| **A pump acts on a row it picked before an await** (`download-manager.ts:894-905`), and an edge meanwhile is dropped by the pumping flag (`875`). | `RemovedStaysRemoved`, `NoneStranded` with `Faults = {"slow"}` |
| **A pump that awaits the network when `stop` is called starts its runner after it.** `stop` waits for the runners there are (`download-manager.ts:421`), and nothing after the snapshot asks for `#stopped` again (`894-905`); an import then deletes the files under an open sink, which `417-419` says it must not. | `NoFileLeftBehind` with `Faults = {"slow"}` |
| **`stop` waits for neither removals nor commits** (`download-manager.ts:409-423`). A removal past its mark still deletes and commits (`857-867`), a command's `#persist` still waits for its turn, and writes the rows that are in memory then (`750-764`): the old ledger over the one just imported, although the caller stops first because "a live runner could repersist a row the import is about to swap out" (`controller.ts:834-835`). By reading only: `init` clears the live map before it awaits (`158`), so such a commit may also write an empty ledger; `Launch` is one step and does not show it. | `RemovedStaysRemoved` with `Faults = {"late"}` |
| **A demotion that fails ends `stop` early** (`414-416`). The runner is not cancelled, and `replaceLibrary` returns before its `try` (`controller.ts:839-843`), so nothing initialises the manager again: it stays latched with no pump, against "so it can never sit stopped with a stale row map" (`869-871`). | phase "halted" of `DownloadManager`, with "demote" in `Failing` |
| **Files are deleted after the swap, not before.** The phone's interface says that the manager "stops and clears its files BEFORE the section swap commits" (`apps/mobile/src/session/controller.ts:175-176`); the code deletes them once the swap has landed (`1047-1050`). Until the next `init` the rows in memory name deleted files. | `Import`; `PlayableIsWhole` excepts phase "swapped" |
| **A failed commit restores a row another command changed** (`download-manager.ts:795`). | `RemovedStaysRemoved`, `NoneStranded` with `Faults = {"restore"}` |
| **A drain commits an older outcome over a newer edit** not yet sent, an edit meets a page of a pass, an emission whose reply was lost is sent again over what a peer wrote meanwhile. | `EditKept` with `Faults = {"overlap"}` of `DomainProjection` |
| **An edit is recovered from the place that was just overwritten.** An edit that was committed but not sent when the renderer dies lives only in the library. The boot pass first applies every materialized record to the library (`controller.ts:615-627`), the older value of the edited row included, and then looks for differences (`639-658`); `640-646` says that such writes "re-emit". The phone's controller has the same order. | `EditKept` with `Faults = {"strand"}` |
| **A cancel that overlaps the start of its own request misses it.** The Node binding starts a prepare on a worker (`node-bindings/src/lib.rs:791`) and cancels on the caller's thread (`834`), so the three looks of `cancel` (`host-surface/src/lib.rs:787`, `818`, `856`) can fall before the admission, before the commit and after it. The cancelled request then owns a live session, against `440-443`, "so a late cancel can't orphan a live session". | `CancelTakesEffect` with `Faults = {"overlap"}` of `PreparedSessions` |
| **A prefix served again undoes a repair.** `compactSpill` commits the zeroed offset and then copies the rest of the file (`sync-journal.ts:200-208`). If the copy fails, the ack rejects, the drain is re-armed (`controller.ts:728-744`) and the old prefix is served again, "which the projection tolerates" (`196-198`). It does when each row's newest outcome is still in the file. When that outcome was lost in a kill between merge and append, and a boot pass put its value into the library, the replay brings the older value back, and as nothing was dropped no pass follows until the next start. | `ProjectionOwed` with `Faults = {"rewind"}` of `DomainProjection` |
| **A boot pass is forgotten** when the first drain or the pass fails (`controller.ts:806-811` against `578-580`). | `ProjectionOwed` with `Faults = {"boot"}` |

## 4. What is proved

Each theorem holds for every value of the constants that satisfies the module's
assumptions, which TLC evaluates in the runs:

- the merge: `ConstantsAssumption` and `InputsAssumption`: any finite set of devices
  (numbers, as the code compares their ids), any records, fields and values, any wall
  clocks, any `MaxInt`;
- the engine: `ConstantsAssumption` and `EngineAssumption`, so any topology of links, page
  limit and retention, and every set of `Faults`: crashes, failed appends, stale cursors
  and replayed documents, in any combination;
- the log file: any number of writes and ids; the assumption about the disk is in `Spec`
  (an append writes its whole line or none);
- the scheduler: any `Faults` for the types and for `RoundsAlone`. `WriteHasWake` and
  `DropReconnects` name the faults they exclude in the theorem, because with those the
  code breaks its word (section 3). `DropReconnects` holds although a desktop may forget
  the phone;
- the projection: `BoundsAssumption`: any finite set of rows, any number of writes,
  failures and deaths, any page and any compaction threshold. `TypeCorrect` holds for every
  `Faults`; the other two assume `Faults = {}`, because under each of its members the
  code breaks one of them or `EditKept` (section 3);
- prepared sessions: `PreparedAssumption`: any number of requests, sessions and sources.
  `CancelsTakeEffect` also assumes `Faults = {}`, as the violation by an overlapping
  cancel (section 3) says it must; the others hold with the overlap too;
- the download manager: `DownloadAssumption`: any recordings, ids, encodings, checkpoint
  interval and queue length. The theorems assume `Reliable`: `Faults = {}`, because with
  each of its members the code breaks its word (section 3), and failing commits of the
  kinds in `Mild` only, the ones the run `download_files` lets fail (section 5 says the others
  are not treated).

| Theorem (module) | States |
|---|---|
| `TypeCorrect` (SyncMergeProofs) | `TypeOK` |
| `KeysAreIdentities` | `KeysIdentify` |
| `ClockCovers` | `ClockCoversAccepted` |
| `FrontierIsSound` | `FrontierSound` |
| `ViewIsCorrect` | `ViewCorrect` |
| `Converges` | `Convergence` |
| `LocalWritesShow` | `LocalWriteShows` |
| `MergeImplementsLibrary` | `ImplementsLibrary`: Spec of SyncMerge implies LibSpec |
| `NothingIsLostSilently` | `NoSilentLoss` |
| `EngineTypeCorrect` (SyncEngineProofs) | `TypeOK`: shapes, and no cursor or claim ahead of what its device emitted |
| `ClaimsBacked` | `ClaimsAreBacked` |
| `LogsMeanEverything` | `NothingLost` |
| `EngineClockCovers` | `ClockCoversAccepted` |
| `SeqsAreIdentities` | `SeqsIdentify` |
| `CaughtUpDevicesAgree` | `CaughtUpConverges` |
| `CompactionIsClaimed` | `CompactionWaits` |
| `EngineImplementsLibrary` | `ImplementsLibrary`: Spec of SyncEngine implies LibSpec |
| `LogTypes` (SyncLogFileProofs) | `TypeOK` |
| `AppendsAreDurable` | `AckedSurvive` |
| `LogsAreNotReplaced` | `HistoryKept` |
| `SchedulerTypes` (SyncSchedulerProofs) | `TypeOK`: a lane needs a session and holds no kind of operation twice |
| `RoundsNeverOverlap` | `RoundsAlone` |
| `WritesKeepTheirWake` | `WriteHasWake`, for `Faults = {}` |
| `DropsReconnect` | `DropReconnects`, unless a session dies behind a round's back |
| `TypeCorrect` (DomainProjectionProofs) | `TypeOK`: the offset never leaves the file |
| `EmitsOnlyEdits` | `EmitsOwnEdits`, for `Faults = {}`, as the next |
| `OwesProjection` | `ProjectionOwed` |
| `TypesAndLocks` (PreparedSessionsProofs) | `TypeOK`: the state's shape, and who holds the two long locks |
| `ClaimsHaveOwners` | `ClaimHasOwner` |
| `OwnersAreRespected` | `EndsRespectOwners` |
| `CancelsTakeEffect` | `CancelTakesEffect`, for `Faults = {}` |
| `DownloadTypes` (DownloadManagerProofs) | `TypeOK`, for `Reliable`, as the next five |
| `PlayedFilesAreWhole` | `PlayableIsWhole` |
| `RemovalsAreFinal` | `RemovedStaysRemoved` |
| `NoDownloadIsStranded` | `NoneStranded` |
| `AvailableIsKept` | `AvailableIsTerminal` |
| `NothingIsLeftBehind` | `NoFileLeftBehind` |

**The merge.** `ViewCorrect` is not inductive: that the cached values are right now
says nothing of a delete that arrives next and uncovers candidates that were pruned
before. The invariant that is, is `FrontierSound`: the kept tombstones are the newest
per record (`TombsNewest`); every living accepted entry is kept or *covered* by a kept
one that is newer, in the same cell, and worth as much (`LiveCovers`); and the caches
are those of the candidates (`CachesFresh`). Coverage survives a tombstone because a
tombstone that kills the newer one kills the older one too (`TombsKept`, `LiveKept`);
it survives pruning because domination is transitive (`DominatesTransitive`,
`LiveInsertCovers`); and a covered entry never wins its contest, so candidates and
living entries have the same winners (`FrontierWinners`, `CoversBeats`) and the view
follows (`FrontierView`). `Inv` is `FrontierSound` with `TypeOK`, `KeysIdentify`,
`ClockCoversAccepted` and "a device accepted what it wrote"; the last two are what
makes a new stamp fresh (`TickFacts`, `EmitSound`). The refinement uses `Inv` at both
ends of a step: the shown values are the view of the accepted set before and after
(`ShownIsView`), a write is above what was known (`EmitAbove`), an accept only adds.

`NoSilentLoss` needs that a non-empty partition has a winner, and so that only finitely
many entries exist: `LossInv` adds the finiteness of `emitted`, and `WinnerAbove`
derives the winner by well-founded induction on subsets of the candidates. Each branch
of `Reduce` has its lemma (`KeptBuried`, `KeptTomb`, `KeptLoser`, `KeptWinner`): what
leaves the shown values enters the rows, unless an equal value takes its place.

**The engine.** None of the properties of `SyncEngine` is inductive by itself, and they
lean on each other: whether a cursor may be believed depends on what compaction dropped,
what compaction may drop on the claims of the peers, and what a restart finds on both.
`IInv` has five parts.

- `Shape`: types; logs and accepted sets are parts of what was emitted, which is finite.
- `Histories`: a device's entries are numbered `1 .. localSeq` and accepted by it, and the
  newest of them is in its log: that is the row from which `hydrate` finds the next
  ordinal, so compaction must never drop it (`NewestIsLive`, `NewestIsLogged`).
- `Sound`: per device, `FrontierSound` of the merge, plus: every live candidate is in the
  log. It makes the log mean what the accepted set means (`RebuildSound`), hence a restart
  a stutter of the library (`RestartRecovers`).
- `Honest`: what a cursor, a position above a gap or the skipped part of a document says is
  held. Said of *all* entries this is false, since compacted rows are never shipped. It
  holds of the `Essential` ones: not past retention, and superseded by nothing ever
  emitted. An export skips only what its log no longer has or what is past retention, and
  an essential entry that was accepted is always in the log (`EssentialIsLogged`).
- `Remembered`: no table of claims and no document overstates the cursor it was taken
  from. Cursors only rise, so an old claim is a true one; this is why compaction may act
  on what it remembers of a peer (`DropsAreClaimed`), also after a restart, which reloads
  claims that are older still.

The properties follow. `ClaimsAreBacked`: above any entry the chain of superseders ends in
an essential one (`Backing`), which the claimant holds. `CaughtUpConverges`: devices that
claim everything hold all essential entries, and these alone determine the view
(`EssentialShows`). `CompactionWaits` needs that only an apply drops rows
(`OnlyApplyDrops`). The refinement takes the view before and after from `Sound`.

The engine's loops (a claim table merged, the claims of a document added up, a
watermark advanced over the positions above it) are folds over finite sets and one
recursive function. The first part of `SyncEngineProofs` shows, by induction on the cardinality, that the
folds come to the pointwise maxima they are meant to compute (`Newest` of a set, a
device's coverage), whatever order they visit the set in.

**The log file.** `AckedSurvive` speaks of every cut a crash may make, and is preserved
by no step on its own: an append that is not yet synced can be cut away, an older one can
not. `IInv` adds `Stages` (what each stage of `append` and `openSyncLogStore` says of the
file) and `FileTells`: but for a torn line a crash left at its end, the file is a sequence
of whole lines, and wherever it is cut, at its synced length or later, what is left folds
to the meaning of an initial part of the writes that contains each acknowledged one.

**The scheduler.** `Sound` ties its two halves together: the lane holds each kind of
operation once and works only on its head; the view is "open" exactly when there is a
session and "connecting" exactly when there is a dial; of a known peer the scheduler has
heard the view as it is. From that each action needs four facts about the flags
(`Waking`, `Following`, `Landing`, `Hearing`): an emission never takes a wake away, never
touches timer or flag while a round runs, and wakes an idle track at a drop; the end of a
round wakes if it is to be repeated or if the flag was set meanwhile. `RoundsAlone`,
`WriteHasWake` and `DropReconnects` are then conjuncts of `IInv`. Two of them need what a
fault destroys: that a round in flight dies only while it waits for the peer ("behind"),
that a peer has a track exactly when it is known ("forget").

**The projection.** `ProjectionOwed` speaks of what the library will show once everything
in the pipeline was read, and no step preserves it by itself: a page that is acknowledged
leaves the pipeline, and whether the library then shows the log depends on what the page
held, what came in behind it and which flag remembers a loss. `IInv` has three parts
besides the types.

- `Lines`: the file and the queue behind it are ordered by value, the log is never behind
  them, and a row in the queue ends there on the log's value. So the last line of a row is
  its newest, and a line that is served again is older than what follows it.
- `Held`, the user's side. An edit the log has not taken shows, and nothing of its row is in
  flight (`Untouched`): that is why no page, commit or pass can overwrite it. The queue of
  emissions is edits, in their order, each of them unsent or what the log shows (`Sends`).
  A pass has rows of the log only (`PassRows`), and what differs from the boot pass's view
  when it ends is the last edit of its row (`BootFinds`), because that pass runs beside an
  empty pipeline (`BootAlone`): so its diff emits edits only. `EmitsOwnEdits`
  is a conjunct of this part. So is `EditKept`, but it is not claimed as a result: with
  `Faults = {}` `Untouched` holds because no page or pass meets an unsent edit, and the
  proofs need it for the two theorems only.
- `Flows`, the journal's side. Past the offset (`Start`, which steps over the prefix while
  a compaction has zeroed it) each row that does not show the log's value has a line, a pass
  or a reported loss to wait for (`Shows`), and its lines end on that value unless a loss is
  reported (`Reaches`). Before the end of the page under way (`PageTo`) every whole line is
  served or its loss reported (`PageServed`), and shows once the page is committed
  (`PageShown`); what lies behind the last page still ends on the log's value
  (`ReachesBehind`), so a pass for an earlier page cannot hide a later loss. `ViewHolds`
  says as much of a pass: its view is the log's, or what came since is on its way.

An advance turns `PageShown` into `Shows` (`FlowsAdvance`); a pull turns `Reaches` into
`PageServed` and `ReachesBehind` (`FlowsPull`, `LeftAtEnd`); a loop that goes to rest
uses the latter (`FlowsLoop`). A failed copy of a compaction puts the whole prefix back
behind the offset; that `Reaches` then holds is what `Replays` says, and what "rewind"
takes away (section 3). TLC checked every conjunct on the instance of `projection`, with
`Faults = {}`, before the proof.

**Prepared sessions.** `ClaimHasOwner` alone is not inductive: a commit writes the slot
of its request and could overwrite the last slot of another session. It never does,
because a slot that names a live session is that of the request which holds it and is
already in its delivery window or past it (`SlotBacksClaim`), and no handle is named
before its session exists (`NoDangling`). With the converse, that a settled request
whose cancel has not begun still has the slot (`SlotKept`), and with "who is played is
not old" (`FlagsReset`), these make `Owned`. A step that claims nothing keeps all of it
for one reason (`DropsKeep`: sessions only end, slots of live ones stay); a claim, a new
session, a cancel that takes its slot, and a change of flags have a lemma each
(`ClaimKeeps`, `PrepareNewOwned`, `CancelTakeOwned`, `FlagsKeep`). `EndsRespectOwners`
follows from the same invariant: a sweep or a cancel of the unattached ends only what
has no claim, and what was promised has one (`PromisedIsClaimed`).

For `CancelTakesEffect` the invariant `Answered` lists what each look of a cancel may
find at each place of its request: an early request has no cancel yet, a cancel of an
idle one left its stone, one of a working request spent the token, one of a settled
request waits for the window. It is a statement about one request, and whatever another
request or a session does takes from it at most a slot that names a dead session
(`AsideKeeps`).

**Downloads.** A commit writes the whole ledger as it is when its turn comes, and one that
fails puts an old row back, so every property needs to know what each of the commits that
wait belongs to. `LInv` says it: a runner, a removal and the commit each awaits agree
(`Awaits`, `Leaving`); a row in memory fits the stage of its runner (`Attended`: a row back
at 'requested' under a running transfer means a demotion waits or has signalled it) or of
its removal (`Removing`); a runner whose row was taken before it fetched ends without
opening its sink (`Doomed`); and an old row that may come back is one that fits where the
runner will be then (`Restored`). `RemovalsAreFinal` and `NoDownloadIsStranded` are read
off it. `FInv` ties the ledger to the bytes. Every row that is in memory, or may be again,
names the encoding of its part file if it claims an offset in it (`Described`), and all
those rows of a download agree on the offset (`Agreed`): this is what makes comparing
lengths at a resume enough. The ledger *on disk* does not always describe the part file: a
re-mint starts another encoding under an offset that was committed for the first. It does
so when nobody writes, or the runner is there whose progress will say it (`Moving`), or a
commit that rewrites it, and does not fail, waits (`OnDisk`). A crash is where this
matters: the guard of `Crash` leaves out the kill in such a moment (fault "stale", whose
violation section 3 shows), and the invariant says what the next launch then finds. A file
is finished only from a part file that is all of one encoding (`Fed`), and a row on disk
that was reported available keeps it (`Kept`). TLC checked `IInv` as an invariant of the
instance of `download_files` before the proof. `Settles`, `RowMoves`, `FilesMove`,
`Restores` and `LandsPlain` are the lemmas several actions share. `NothingIsLeftBehind`
needs `GInv` besides: the files of downloads that are gone, and of removals past their
deletion, are empty (`Emptied`). They stay so because `LInv` has no runner for either: a
removal deletes only after its runner ended (`Removing`), and the import only after `stop`
saw none (`Forgotten`).

**Only model-checked:** `EditKept` (above), and all liveness: `EventuallyConsistent` of the engine, `DomainCatchesUp` of the projection and
`RequestsSettle` of the prepared sessions, which the prover does not treat under fairness.

## 5. What is not modelled

- In the sync engine: the divergence rows' ordinals, their prune floor and paging
  (`rows` is a set), `restoreLoser` (a local write whose value comes from a row), the
  trimming of cursors at `MAX_CURSOR_DEVICES`, the cap of `MAX_DELTA_ENTRIES` on the skipped
  ordinals of one document (`sync-engine.ts:2553-2570`; `Skipped` lists them all), writes of several changes in one
  operation, and a device that is reset and comes back under a new id. A caller's
  cancellation of an operation is below the grain of one action per operation.
- In the log file: the bound on line length, and the interplay of a failed fsync (the
  line stays in the file) with the engine, which reuses the ordinal. Each half is
  modelled, their composition is planned.
- In the scheduler: the amounts of delay and their doubling, the retry-after floor (no
  verdict of a round of today's client carries the hint that sets it), `stop` and a
  second `start`, re-pairing a peer that is still known, the welcome's pot refresh, and
  the moment in which an unpaired peer's cancelled round has not yet unwound. That a
  wake fires in the end is not claimed: steady writes re-arm the debounce for ever.
- In the projection: a crash of the utility process alone (the renderer is told and both
  start again), power loss (the append of a spill record is not fsynced, unlike a line of
  the log), tombstones, counters folded by sum or maximum, rows that wait for their
  parent, a materialised page that shifts under a restarted utility, a kill inside the `writeFile` of
  the offset file (`sync-journal.ts:277` truncates and then writes, and `Advance` and
  `AdvanceFails` take it as atomic: an empty file reads as offset 0 and serves the consumed
  prefix again, what "rewind" shows of a failed copy), the graceful drain
  on dispose, the mode without a spill path, the phone's direct path, and how rows map to
  entries field by field.
- In the download manager: a failing commit outside the kinds listed in `Failing`, a
  file removal that fails, two removals or two requests of one recording at once, a
  cancel while a demotion is pending, priorities, the mint budget and the pinned itag.
  A library import swaps the ledger and deletes the files in one step: a deletion that
  fails leaves an orphan for the sweep of the next `init`, a kill between the two as well.
  The paths it deletes are those of the rows when it swaps, where the code captured them
  before `stop` (a row requested meanwhile has no file, one removed meanwhile has lost
  its own). An import that fails is a `stop` and a `Launch`.
- In the prepared sessions: what a session does between attach and close (readers, demand
  positions, the pump's fetches), re-mints and expiry margins (an attach that judged a
  session stale ends it whoever attached since, `session.rs:856-860`), a player that
  attaches again after its request was cancelled (`Holds` excludes it, `session.rs:914-917`
  allows it), HEAD probes,
  shutdown, the handles reported as superseded, a request id that is used again and the
  generations that guard against it, the age and number of tombstones, a listener that
  panics, and the generic requests that share the `cancels` map.
- The Noise cryptography, wire encodings, IPC validation, plugin ABI, rendering and
  migrations are data or external.
- The remaining components of section 1: planned below, or outside the plan with the
  reason in `PROJECT.json`.

## 6. Plan

In order of what a mistake would cost and how badly a test would reach it:

1. **SyncLogFile composed with SyncEngine**: ordinals after an fsync that failed.
2. **DemandPump** of the Rust stream server, under PreparedSessions: readers parked on the
   condition variable, refcounted demand positions, the pump's decide-park-fetch loop.
3. **AuthSession**: renewals, rotation, sign-out and custody.
4. **Supervisor**: every request settles once. **TransactionQueue** and **Retry**.
5. **QueueEngine** and radio tail as a sequential machine against an abstract queue.

Every safety property of the passing runs but `EditKept` is proved; the theorems planned are those of the
modules planned.
