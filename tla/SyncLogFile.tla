------------------------------ MODULE SyncLogFile ------------------------------
(***************************************************************************)
(* The desktop's sync-log store (apps/desktop/src/utility/sync-log.ts): a  *)
(* JSONL file whose first line is a header with the device id and whose    *)
(* other lines are writes.  append, fsync, fold on load; a checkpoint       *)
(* rewrites the file when a write drops entries; open repairs what a crash  *)
(* left.  SyncEngine takes for granted that an append is atomic: this       *)
(* module is about whether it is.                                           *)
(*                                                                         *)
(* What a crash does to a file is the operating system's: bytes not yet     *)
(* fsynced survive as any prefix; a rename and a truncate are atomic and    *)
(* durable once they return.  Appends run one at a time (pathTails).        *)
(*                                                                         *)
(* Bounds: MaxWrites appends, MaxIds minted device ids.                     *)
(***************************************************************************)
EXTENDS Integers, Sequences, FiniteSetsExt, SequencesExt

CONSTANTS
  Entries,     \* change entries a write may add or drop
  MaxWrites, MaxIds

ASSUME LogFileAssumption == MaxWrites \in Nat /\ MaxIds \in Nat

VARIABLES
  head,      \* what the first line holds: NoFile, Blank, Torn or a device id
  lines,     \* the lines after the header
  safe,      \* how many of them are fsynced; -1: not even the header
  phase,     \* what the process does with the file
  written,   \* history: the writes whose line may still be in the file
  owed,      \* history: how many of them, counted up to the last one reported
             \* durable, the file must still tell of
  minted,    \* device ids minted so far
  issued     \* appends started so far

vars == <<head, lines, safe, phase, written, owed, minted, issued>>

NoFile == 0
Blank == -1
Torn == -2
Ids == 1 .. MaxIds

\* One SyncLogWrite: it adds an entry, or it drops one and so checkpoints.
Writes == [adds : {{e} : e \in Entries}, drops : {{}}]
            \cup [adds : {{}}, drops : {{e} : e \in Entries}]

\* A line is whole, or torn (its end never reached the file), or mangled (a
\* torn line another write was appended to).
Line == [adds : SUBSET Entries, drops : SUBSET Entries,
         form : {"whole", "torn", "mangled"}]

LineOf(w) == [adds |-> w.adds, drops |-> w.drops, form |-> "whole"]
TornLine == [adds |-> {}, drops |-> {}, form |-> "torn"]
MangledLine == [adds |-> {}, drops |-> {}, form |-> "mangled"]

\* parseFile: the lines before the first bad one ...
Readable(ls) ==
  LET bad == {i \in DOMAIN ls : ls[i].form # "whole"}
  IN SubSeq(ls, 1, Min(bad \cup {Len(ls) + 1}) - 1)

\* ... and what they fold to: drops apply in write order, after the adds of
\* their own line, so an entry is there if a line adds it and none from that
\* one on drops it.
Folded(ls) ==
  LET r == Readable(ls)
  IN {e \in Entries : \E i \in DOMAIN r :
        e \in r[i].adds /\ \A j \in i .. Len(r) : e \notin r[j].drops}

Meaning(writes) == Folded([i \in DOMAIN writes |-> LineOf(writes[i])])

\* appendFile after a torn tail continues that line.
Extended(ls, line) ==
  IF ls # <<>> /\ Last(ls).form = "torn"
  THEN Append(Front(ls), IF line = TornLine THEN TornLine ELSE MangledLine)
  ELSE Append(ls, line)

Init ==
  /\ head = NoFile /\ lines = <<>> /\ safe = -1
  /\ phase = "down" /\ written = <<>> /\ owed = 0
  /\ minted = 0 /\ issued = 0

-----------------------------------------------------------------------------
(* openSyncLogStore.                                                       *)

\* No file, or one with an unreadable header, which is renamed aside: a new
\* header with a new id is written, not yet fsynced.
Mint ==
  /\ phase = "down"
  /\ head \in {NoFile, Torn}
  /\ minted < MaxIds
  /\ minted' = minted + 1
  /\ head' = minted + 1
  /\ lines' = <<>> /\ safe' = -1 /\ written' = <<>> /\ owed' = 0
  /\ phase' = "creating"
  /\ UNCHANGED issued

HeaderSynced ==
  /\ phase = "creating"
  /\ safe' = 0
  /\ phase' = "open"
  /\ UNCHANGED <<head, lines, written, owed, minted, issued>>

\* Mutant of Open: the bad tail is left in place.
OpenKeepingTail ==
  /\ phase = "down"
  /\ head \in Ids
  /\ phase' = "open"
  /\ UNCHANGED <<head, lines, safe, written, owed, minted, issued>>

\* Mutant of Open: a file with a bad line counts as foreign.
OpenForeign ==
  /\ phase = "down"
  /\ head \in Ids
  /\ phase' = "open"
  /\ IF Readable(lines) = lines
     THEN UNCHANGED <<head, lines, safe, written, owed, minted>>
     ELSE /\ minted < MaxIds
          /\ minted' = minted + 1 /\ head' = minted + 1
          /\ lines' = <<>> /\ safe' = 0 /\ written' = <<>> /\ owed' = 0
  /\ UNCHANGED issued

\* A readable header: the file is cut at the first bad line.
Open ==
  /\ phase = "down"
  /\ head \in Ids
  /\ lines' = Readable(lines)
  /\ safe' = Len(lines')
  /\ phase' = "open"
  /\ UNCHANGED <<head, written, owed, minted, issued>>

\* An empty file parses, with no device id; createSyncEngine refuses it.
OpenBlank ==
  /\ phase = "down"
  /\ head = Blank
  /\ phase' = "refused"
  /\ UNCHANGED <<head, lines, safe, written, owed, minted, issued>>

-----------------------------------------------------------------------------
(* append and checkpoint.                                                  *)

AppendLine(w) ==
  /\ phase = "open"
  /\ issued < MaxWrites
  /\ issued' = issued + 1
  /\ lines' = Extended(lines, LineOf(w))
  /\ written' = Append(written, w)
  /\ phase' = "appended"
  /\ UNCHANGED <<head, safe, owed, minted>>

\* append resolves: the write counts as durable from here on.
Ack ==
  /\ owed' = Len(written)
  /\ phase' = "open"

\* Mutant of Sync: the write is acknowledged before the fsync.
SyncLater ==
  /\ phase = "appended"
  /\ Ack
  /\ UNCHANGED <<head, lines, safe, written, minted, issued>>

\* A write that drops entries goes on to the checkpoint.
Sync ==
  /\ phase = "appended"
  /\ safe' = Len(lines)
  /\ IF Last(written).drops = {} THEN Ack
     ELSE phase' = "folding" /\ UNCHANGED owed
  /\ UNCHANGED <<head, lines, written, minted, issued>>

\* fsync fails: append reports the error, the line stays in the file.
SyncFails ==
  /\ phase = "appended"
  /\ phase' = "open"
  /\ UNCHANGED <<head, lines, safe, written, owed, minted, issued>>

\* Mutant of Checkpoint: the count of fsynced lines is the old file's.
CheckpointKeepingSafe ==
  /\ phase = "folding"
  /\ lines' = <<[adds |-> Folded(lines), drops |-> {}, form |-> "whole"]>>
  /\ Ack
  /\ UNCHANGED <<head, safe, written, minted, issued>>

\* checkpoint: the folded file is renamed into place; when the refold or the
\* rewrite fails the old file stays, and the append succeeds all the same.
Checkpoint ==
  /\ phase = "folding"
  /\ \/ UNCHANGED <<lines, safe>>
     \/ /\ Readable(lines) = lines
        /\ lines' = <<[adds |-> Folded(lines), drops |-> {}, form |-> "whole"]>>
        /\ safe' = 1
  /\ Ack
  /\ UNCHANGED <<head, written, minted, issued>>

\* appendFile fails after a part of the line: append reports the error.
AppendShort ==
  /\ phase = "open"
  /\ issued < MaxWrites
  /\ issued' = issued + 1
  /\ lines' = Extended(lines, TornLine)
  /\ UNCHANGED <<head, safe, phase, written, owed, minted>>

-----------------------------------------------------------------------------
(* Crash.                                                                  *)

\* Until its fsync a new header may end up in any state.
CrashCreating ==
  /\ phase = "creating"
  /\ head' \in {NoFile, Blank, Torn, head}
  /\ safe' = IF head' = head THEN 0 ELSE -1
  /\ phase' = "down"
  /\ UNCHANGED <<lines, written, owed, minted, issued>>

\* The fsynced lines survive, the others up to some point, which may be in
\* the middle of one.
Crash ==
  /\ phase \in {"open", "appended", "folding"}
  /\ \E k \in safe .. Len(lines), torn \in BOOLEAN :
       /\ torn => k < Len(lines)
       /\ lines' = SubSeq(lines, 1, k) \o (IF torn THEN <<TornLine>> ELSE <<>>)
       /\ LET gone == {i \in k + 1 .. Len(lines) : lines[i].form # "torn"}
          IN written' = SubSeq(written, 1, Len(written) - Cardinality(gone))
  /\ safe' = Len(lines')
  /\ phase' = "down"
  /\ UNCHANGED <<head, owed, minted, issued>>

CrashRefused ==
  /\ phase = "refused"
  /\ phase' = "down"
  /\ UNCHANGED <<head, lines, safe, written, owed, minted, issued>>

Next ==
  \/ Mint \/ HeaderSynced \/ Open \/ OpenBlank
  \/ \E w \in Writes : AppendLine(w)
  \/ Sync \/ SyncFails \/ Checkpoint
  \/ Crash \/ CrashCreating \/ CrashRefused

Spec == Init /\ [][Next]_vars

\* The same file on a disk that may run full in the middle of a line.
FullDiskSpec == Init /\ [][Next \/ AppendShort]_vars

-----------------------------------------------------------------------------
(* Properties.                                                             *)

\* The shape of the state.
TypeOK ==
  /\ head \in {NoFile, Blank, Torn} \cup Ids
  /\ lines \in Seq(Line)
  /\ safe \in -1 .. Len(lines)
  /\ phase \in {"down", "creating", "open", "refused", "appended", "folding"}
  /\ written \in Seq(Writes) /\ owed \in 0 .. Len(written)
  /\ minted \in 0 .. MaxIds /\ issued \in 0 .. MaxWrites

\* An acknowledged append is durable, and nothing is read that was not
\* written: whatever part of the unsynced lines a crash would leave now, the
\* next open reads an initial part of the writes, with every acknowledged one
\* in it.  sync-log.ts:64-66: "a successful append can never be truncated as
\* corrupt on the next open".
AckedSurvive ==
  \A k \in safe .. Len(lines) :
    k >= 0 => \E n \in owed .. Len(written) :
                Folded(SubSeq(lines, 1, k)) = Meaning(SubSeq(written, 1, n))

\* A log is replaced, and its device id with it, only when nothing was ever
\* acknowledged under that id.
HistoryKept ==
  [][owed > 0 => /\ head' = head
                 /\ IsPrefix(SubSeq(written, 1, owed), written')]_vars

\* sync-log.ts:567-570: a readable file is folded, "a foreign file
\* (unreadable header) is renamed aside and a fresh log minted": an open that
\* succeeds yields a device id.
OpenYieldsIdentity == phase # "refused"
=============================================================================
