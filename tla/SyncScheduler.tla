----------------------------- MODULE SyncScheduler -----------------------------
(***************************************************************************)
(* When the phone runs sync rounds against one paired desktop: the         *)
(* scheduler (sync/sync-scheduler.ts) on top of the client's session and   *)
(* operation lane (sync/sync-client.ts).  The two talk through promises    *)
(* and through status emissions, which the scheduler reads to decide       *)
(* whether to wake again.                                                  *)
(*                                                                         *)
(* Delays are left out: an armed wake may fire at any moment.  What        *)
(* follows a cancelled call up to the scheduler's reaction is one step.    *)
(* The retry-after floor is absent, since no round of this client ends     *)
(* with a hint.  At most one syncNow of the user interface is in flight.   *)
(***************************************************************************)
EXTENDS Integers, Sequences, FiniteSets, SequencesExt

CONSTANTS
  Faults   \* what may go wrong besides failing dials and rounds

AllFaults ==
  {"behind",   \* a session may die while the scheduler's round is not waiting
               \* for a reply of the peer
   "forget"}   \* the desktop may have dropped the pairing

ASSUME FaultsAssumption == Faults \subseteq AllFaults

VARIABLES
  \* the client
  known,     \* the peer is in the client's map
  view,      \* its view: connection state and last error
  session,   \* is a session registered?
  dial,      \* who waits for the dial in flight
  ops,       \* the operations on the session's lane, the head is running
  kick,      \* a sync-request of the server has not been taken up
  \* the scheduler
  tracked,   \* the peer has a track
  track,     \* its track: timer, dirty flag, lastRound not consumed yet
  heard,     \* state and error in the last emission ("absent": no peer)
  launching, \* the on-launch fan-out is still to come
  online,    \* connectivity
  owed       \* history: a change the peer was not sent, that a round is due for

vars == <<known, view, session, dial, ops, kick, tracked, track, heard,
          launching, online, owed>>

client == <<known, view, session, dial, ops, kick>>

\* What ends a round or a dial: "none" is success, "capped" a page budget
\* spent on a round that moved entries.
Verdicts == {"none", "retry", "terminal", "capped", "cancelled"}

View(state, error) == [state |-> state, error |-> error]
Silent == View("offline", "none")
Gone == View("absent", "none")

NewTrack == [timer |-> "none", dirty |-> FALSE, unseen |-> FALSE]

Op(who) == [who |-> who, at |-> "queued", covers |-> FALSE]

Init ==
  /\ known \in BOOLEAN
  /\ view = Silent /\ session = FALSE /\ dial = {} /\ ops = <<>> /\ kick = FALSE
  /\ tracked = known /\ track = NewTrack
  /\ heard = IF known THEN Silent ELSE Gone
  /\ launching = TRUE /\ online = TRUE
  /\ owed = known

-----------------------------------------------------------------------------
(* The scheduler: arming wakes, hearing emissions, landing rounds.         *)

\* Mutant of Wake: a nudge in mid round arms a timer.
WakeBesideRound(t, mode, busy) ==
  IF ~online THEN [t EXCEPT !.dirty = TRUE]
  ELSE [t EXCEPT !.timer = IF mode = "debounce" THEN "debounce" ELSE "wake"]

\* schedule: busy says whether a round of the scheduler's own is in flight.
Wake(t, mode, busy) ==
  IF busy \/ ~online THEN [t EXCEPT !.dirty = TRUE]
  ELSE IF \/ t.timer = "none"
          \/ mode = "replace"
          \/ mode = "debounce" /\ t.timer = "debounce"
       THEN [t EXCEPT !.timer = IF mode = "debounce" THEN "debounce" ELSE "wake"]
       ELSE t

FollowUp(t) ==
  IF t.dirty THEN Wake([t EXCEPT !.dirty = FALSE], "replace", FALSE) ELSE t

\* Mutant of Hear: a session that closes cleanly earns no ladder.
HearErrors(t, prev, s, busy) ==
  LET landed == t.unseen /\ ~s.syncing
      seen == [t EXCEPT !.unseen = @ /\ ~landed]
      idle == ~busy /\ t.timer = "none"
  IN IF s.state = "open" /\ ~busy
     THEN FollowUp(IF landed /\ s.error = "capped"
                   THEN Wake(seen, "replace", FALSE) ELSE seen)
     ELSE IF s.state = "offline" /\ idle /\ s.error = "retry"
     THEN Wake(seen, "stand", FALSE)
     ELSE seen

\* onStatus for a peer that has a track; prev is the emission before.
Hear(t, prev, s, busy) ==
  LET landed == t.unseen /\ ~s.syncing
      seen == [t EXCEPT !.unseen = @ /\ ~landed]
      dropped == \/ s.error = "retry"
                 \/ s.error = "none" /\ prev.state = "open"
      idle == ~busy /\ t.timer = "none"
  IN IF s.state = "open" /\ ~busy
     THEN FollowUp(IF landed /\ s.error = "capped"
                   THEN Wake(seen, "replace", FALSE) ELSE seen)
     ELSE IF s.state = "offline" /\ idle /\ dropped
     THEN Wake(seen, "stand", FALSE)
     ELSE seen

\* The client's emission of view v with the lane o.
Heard(t, prev, v, o, busy) ==
  Hear(t, prev, [state |-> v.state, error |-> v.error, syncing |-> o # <<>>], busy)

\* Mutant of Landed: what arrived in mid round is forgotten.
LandedForgetting(t, verdict) ==
  IF verdict = "retry" THEN Wake(t, "replace", FALSE)
  ELSE IF verdict = "capped" THEN Wake([t EXCEPT !.dirty = FALSE], "replace", FALSE)
  ELSE [t EXCEPT !.dirty = FALSE]

\* The end of runRound.
Landed(t, verdict) ==
  IF verdict = "retry" THEN Wake(t, "replace", FALSE)
  ELSE IF verdict = "capped" THEN Wake([t EXCEPT !.dirty = FALSE], "replace", FALSE)
  ELSE FollowUp(t)

OnLane(who) == {i \in DOMAIN ops : ops[i].who = who}

\* The scheduler's round waits for a reply of the peer.
OwnedWaits == \E i \in OnLane("owned") : ops[i].at = "wire"

\* track.running.
Busy == "owned" \in dial \/ OnLane("owned") # {}

-----------------------------------------------------------------------------
(* Rounds: syncNow, the dial, the lane.                                    *)

\* syncNow, called with the track t: it joins the lane or a dial.
SyncNow(who, t) ==
  LET busy == Busy \/ who = "owned"
  IN /\ IF session
        THEN /\ ops' = Append(ops, Op(who))
             /\ track' = Heard(t, heard, view, ops', busy)
             /\ UNCHANGED <<view, dial>>
        ELSE /\ view' = View("connecting", "none")
             /\ dial' = dial \cup {who}
             /\ track' = Heard(t, heard, view', ops, busy)
             /\ UNCHANGED ops
     /\ heard' = view'
     /\ UNCHANGED <<known, session, kick, tracked, launching, online, owed>>

\* A wake fires: runRound.  A peer the client no longer has is not found.
Fire ==
  /\ track.timer # "none"
  /\ LET t == [track EXCEPT !.timer = "none"]
     IN IF Busy \/ ~online
        THEN track' = [t EXCEPT !.dirty = TRUE]
             /\ UNCHANGED <<client, tracked, heard, launching, online, owed>>
        ELSE IF known THEN SyncNow("owned", t)
        ELSE track' = Landed(t, "terminal")
             /\ UNCHANGED <<client, tracked, heard, launching, online, owed>>

\* The user asks for a round.
Manual ==
  /\ known /\ tracked
  /\ "manual" \notin dial /\ OnLane("manual") = {}
  /\ SyncNow("manual", track)

\* What is left to send once a round or dial of the scheduler's ended so; a
\* verdict that is no transport failure is final.
OwedAfter(verdict, covered) == owed /\ ~(covered /\ verdict \in {"none", "terminal"})

\* The dial fails, or the desktop answers that it does not know the phone;
\* dropPeer then removes the peer without an emission.
DialFails(verdict) ==
  /\ dial # {}
  /\ \E forgotten \in BOOLEAN :
       /\ forgotten => verdict = "terminal" /\ "forget" \in Faults
       /\ known' = ~forgotten
       /\ owed' = IF forgotten THEN FALSE
                  ELSE IF "owned" \in dial THEN OwedAfter(verdict, TRUE) ELSE owed
  /\ view' = View("offline", verdict)
  /\ heard' = view'
  /\ dial' = {}
  /\ LET t == Heard(track, heard, view', ops, Busy)
     IN track' = IF "owned" \in dial THEN Landed(t, verdict) ELSE t
  /\ UNCHANGED <<session, ops, kick, tracked, launching, online>>

\* The session opens and every caller of the dial joins its lane.
DialOpens ==
  /\ dial # {}
  /\ session' = TRUE
  /\ view' = View("open", "none")
  /\ heard' = view'
  /\ dial' = {}
  /\ \E order \in SetToSeqs(dial) : ops' = [i \in DOMAIN order |-> Op(order[i])]
  /\ track' = Heard(Heard(track, heard, view', <<>>, Busy), view', view', ops', Busy)
  /\ UNCHANGED <<known, kick, tracked, launching, online, owed>>

\* The head of the lane sends a request: a ping, or a page exported from
\* the log as it is now.
Request ==
  /\ ops # <<>> /\ Head(ops).at # "wire"
  /\ ops' = [ops EXCEPT ![1].at = "wire", ![1].covers = @ \/ ops[1].who # "ping"]
  /\ kick' = (kick /\ Head(ops).who # "kick")
  /\ UNCHANGED <<known, view, session, dial, tracked, track, heard, launching,
                 online, owed>>

\* The reply of a page is applied and custody written.
Reply ==
  /\ ops # <<>> /\ Head(ops).at = "wire" /\ Head(ops).who # "ping"
  /\ ops' = [ops EXCEPT ![1].at = "local"]
  /\ UNCHANGED <<known, view, session, dial, kick, tracked, track, heard,
                 launching, online, owed>>

\* The lane without its head; a kick that waited is taken up when it drains.
Drained == IF kick /\ Len(ops) = 1 THEN <<Op("kick")>> ELSE Tail(ops)

\* The head of the lane ends and the session lives on: counters and verdict
\* are published with the drain emission, then the caller hears.
Finish(verdict) ==
  /\ ops # <<>>
  /\ LET op == Head(ops)
         round == op.who # "ping"
     IN /\ IF round THEN op.at = "local" \/ verdict \in {"retry", "terminal"}
           ELSE op.at = "wire" /\ verdict = "none"
        /\ view' = IF round THEN View("open", verdict) ELSE view
        /\ LET t == [track EXCEPT !.unseen = @ \/ round]
               h == Heard(t, heard, view', Drained, Busy)
           IN track' = IF op.who = "owned" THEN Landed(h, verdict) ELSE h
        /\ owed' = IF verdict = "none" \/ op.who = "owned"
                   THEN OwedAfter(verdict, op.covers \/ op.at = "queued") ELSE owed
  /\ ops' = Drained
  /\ heard' = view'
  /\ UNCHANGED <<known, session, dial, kick, tracked, launching, online>>

-----------------------------------------------------------------------------
(* The session's other events.                                             *)

\* Keepalive.
Ping ==
  /\ session /\ OnLane("ping") = {}
  /\ ops' = Append(ops, Op("ping"))
  /\ track' = Heard(track, heard, view, ops', Busy)
  /\ heard' = view
  /\ UNCHANGED <<known, view, session, dial, kick, tracked, launching, online, owed>>

\* The server asks for a round: taken up at once on an idle lane.
Kicked ==
  /\ session /\ ~kick
  /\ kick' = TRUE
  /\ IF ops = <<>>
     THEN /\ ops' = <<Op("kick")>>
          /\ track' = Heard(track, heard, view, ops', Busy)
          /\ heard' = view
     ELSE UNCHANGED <<ops, track, heard>>
  /\ UNCHANGED <<known, view, session, dial, tracked, launching, online, owed>>

\* Mutant of Dropped: the lane outlives its session.
DroppedKeepingLane(cause) ==
  /\ session
  /\ OnLane("owned") = {} \/ OwnedWaits
  /\ session' = FALSE
  /\ view' = View("offline", cause)
  /\ heard' = view'
  /\ LET t == Heard(track, heard, view', <<>>, Busy)
     IN track' = IF OnLane("owned") = {} THEN t ELSE Landed(t, "retry")
  /\ UNCHANGED <<known, dial, ops, kick, tracked, launching, online, owed>>

\* killSession: the request on the wire ends with the cause; a round that
\* waits its turn, or for the engine or for custody, ends cancelled.
Dropped(cause) ==
  /\ session
  /\ "behind" \in Faults \/ OnLane("owned") = {} \/ OwnedWaits
  /\ session' = FALSE /\ ops' = <<>> /\ kick' = FALSE
  /\ view' = View("offline", cause)
  /\ heard' = view'
  /\ LET t == Heard(track, heard, view', <<>>, Busy)
         verdict == IF ~OwnedWaits THEN "cancelled"
                    ELSE IF cause = "none" THEN "retry" ELSE cause
     IN /\ track' = IF OnLane("owned") = {} THEN t ELSE Landed(t, verdict)
        /\ owed' = IF OwnedWaits THEN OwedAfter(verdict, Head(ops).covers) ELSE owed
  /\ UNCHANGED <<known, dial, tracked, launching, online>>

\* An emission about something else: another peer's operation.
Republished ==
  /\ heard' = IF known THEN view ELSE Gone
  /\ tracked' = known
  /\ track' = IF known THEN Heard(track, heard, view, ops, Busy) ELSE NewTrack
  /\ UNCHANGED <<client, launching, online, owed>>

-----------------------------------------------------------------------------
(* Pairing, the application's triggers.                                    *)

\* A pairing reaches the client's map, with the session it was made on or
\* through custody.  A peer without a track gets one, and its first wake.
Paired ==
  /\ ~known
  /\ known' = TRUE
  /\ session' \in BOOLEAN
  /\ view' = IF session' THEN View("open", "none") ELSE view
  /\ heard' = view'
  /\ tracked' = TRUE
  /\ track' = Heard(IF tracked THEN track ELSE Wake(NewTrack, "debounce", FALSE),
                    heard, view', <<>>, FALSE)
  /\ owed' = TRUE
  /\ UNCHANGED <<dial, ops, kick, launching, online>>

\* unpair: the session ends, and with the last emission the track, its timer
\* and its round.
Unpaired ==
  /\ known
  /\ known' = FALSE /\ view' = Silent /\ session' = FALSE /\ dial' = {}
  /\ ops' = <<>> /\ kick' = FALSE
  /\ tracked' = FALSE /\ track' = NewTrack /\ heard' = Gone
  /\ owed' = FALSE
  /\ UNCHANGED <<launching, online>>

\* start's fan-out, when the custody read resolves.
Launch ==
  /\ launching
  /\ launching' = FALSE
  /\ track' = IF known
              THEN Wake(track, IF track.timer = "debounce" THEN "replace" ELSE "stand", Busy)
              ELSE track
  /\ UNCHANGED <<client, tracked, heard, online, owed>>

\* A committed local write: notifyLocalWrites.
LocalWrite ==
  /\ tracked
  /\ owed' = known
  /\ ops' = [i \in DOMAIN ops |-> [ops[i] EXCEPT !.covers = FALSE]]
  /\ track' = Wake(track, "debounce", Busy)
  /\ UNCHANGED <<known, view, session, dial, kick, tracked, heard, launching, online>>

\* notifyConnectivity(false), after isOnline turned.
GoesOffline ==
  /\ online
  /\ online' = FALSE
  /\ track' = IF track.timer = "none" THEN track
              ELSE [track EXCEPT !.timer = "none", !.dirty = TRUE]
  /\ UNCHANGED <<client, tracked, heard, launching, owed>>

\* notifyConnectivity(true): converge now, or right after the round.
GoesOnline ==
  /\ ~online
  /\ online' = TRUE
  /\ track' = IF ~tracked THEN track
              ELSE IF Busy THEN [track EXCEPT !.dirty = TRUE]
              ELSE [track EXCEPT !.dirty = FALSE, !.timer = "wake"]
  /\ UNCHANGED <<client, tracked, heard, launching, owed>>

Next ==
  \/ Fire \/ Manual \/ DialOpens \/ Request \/ Reply
  \/ \E verdict \in {"retry", "terminal"} : DialFails(verdict)
  \/ \E verdict \in {"none", "retry", "terminal", "capped"} : Finish(verdict)
  \/ Ping \/ Kicked \/ Republished
  \/ \E cause \in {"none", "retry", "terminal"} : Dropped(cause)
  \/ Paired \/ Unpaired \/ Launch \/ LocalWrite \/ GoesOffline \/ GoesOnline

Spec == Init /\ [][Next]_vars

-----------------------------------------------------------------------------
(* Properties.                                                             *)

\* The shape of the state: a lane needs a session, a timer and a round of the
\* scheduler's own need a track.
TypeOK ==
  /\ view \in [state : {"offline", "connecting", "open"}, error : Verdicts]
  /\ heard \in {Gone} \cup [state : {"offline", "connecting", "open"}, error : Verdicts]
  /\ dial \subseteq {"owned", "manual"}
  /\ ops \in Seq([who : {"owned", "manual", "kick", "ping"},
                  at : {"queued", "wire", "local"}, covers : BOOLEAN])
  /\ Len(ops) <= 4 /\ (ops # <<>> \/ kick => session)
  /\ track \in [timer : {"none", "debounce", "wake"}, dirty : BOOLEAN, unseen : BOOLEAN]
  /\ {known, session, kick, tracked, launching, online, owed} \subseteq BOOLEAN
  /\ track # NewTrack \/ Busy => tracked

\* sync-scheduler.ts:21: "Rounds never overlap per peer".  One round of the
\* scheduler's own at most, and no wake armed beside it.
RoundsAlone ==
  /\ Busy => track.timer = "none"
  /\ "owned" \in dial => OnLane("owned") = {}
  /\ Cardinality(OnLane("owned")) <= 1

\* sync-scheduler.ts:42-43: "Local writes committed to the engine log —
\* converge soon", and 367-369, a fresh pairing's "first round converges
\* edits that predate the pair".  As long as the phone is online, a change
\* the peer was not sent has a wake armed, or the round in flight takes it
\* along or is followed by another.
WriteHasWake ==
  owed /\ online =>
    \/ track.timer # "none" \/ launching
    \/ "owned" \in dial
    \/ Busy /\ track.dirty
    \/ \E i \in OnLane("owned") : ops[i].covers \/ ops[i].at = "queued"

\* sync-scheduler.ts:17 and 449-452: a dropped session or a failed dial
\* "reconnects on the backoff ladder", unless the peer refused.
DropReconnects ==
  known /\ online /\ heard.state = "offline" /\ heard.error # "terminal" =>
    track.timer # "none" \/ launching \/ Busy \/ dial # {}
=============================================================================
