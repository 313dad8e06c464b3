--------------------------- MODULE PreparedSessions ---------------------------
(***************************************************************************)
(* Who owns a prepared stream session: the requests of the plugin host     *)
(* (crates/host-surface: start_prepare, cancel, stream_open, stream_close, *)
(* stream_release) over the sessions of the registry (crates/auqw-stream). *)
(*                                                                         *)
(* Threads of the caller, delivery tasks of the runtime, the reaper and    *)
(* the pumps meet in four maps and two long locks.  An action is one       *)
(* critical section.  Two locks are held across several and are variables: *)
(* lockM, prepared_handles together with cancels, and lockP, prepare_lock. *)
(*                                                                         *)
(* Requests are numbered in the order of their admission, sources in that  *)
(* of their first request: an identifier is minted for one attempt and     *)
(* never reused.                                                           *)
(***************************************************************************)
EXTENDS Integers, FiniteSets

CONSTANTS
  MaxRequests,    \* requests, in the order of their admission
  Sources,        \* (provider, source_ref), what prepares coalesce on
  MaxSessions,    \* sessions ever created
  Faults          \* "overlap": cancel runs beside the start of its own request

ASSUME PreparedAssumption ==
  /\ Sources \subseteq Nat \ {0} /\ MaxRequests \in Nat /\ MaxSessions \in Nat
  /\ Faults \subseteq {"overlap"}

Requests == 1..MaxRequests
Handles == 1..MaxSessions
None == 0

VARIABLES
  sess,       \* sessions: how they ended if they did, and their flags
  slots,      \* prepared_handles: the session a request owns, and whether it was told
  token,      \* cancels: "none", "live", "spent" for each request
  stones,     \* cancelled_requests
  task,       \* start_prepare and its delivery: where each request is
  calls,      \* cancel: where the call for each request is
  lockM,      \* the request whose admission holds prepared_handles and cancels
  lockP       \* the request that holds prepare_lock

vars == <<sess, slots, token, stones, task, calls, lockM, lockP>>

NoSession == [end |-> "none", src |-> None, attached |-> FALSE, claimed |-> FALSE,
              abandoned |-> FALSE, played |-> FALSE, old |-> FALSE]
NoSlot == [h |-> None, sent |-> FALSE]
Idle == [pc |-> "idle", src |-> None, h |-> None, doomed |-> {}]

Init ==
  /\ sess = [h \in Handles |-> NoSession]
  /\ slots = [r \in Requests |-> NoSlot]
  /\ token = [r \in Requests |-> "none"]
  /\ stones = {}
  /\ task = [r \in Requests |-> Idle]
  /\ calls = [r \in Requests |-> "none"]
  /\ lockM = None /\ lockP = None

Live(h) == h # None /\ sess[h].end = "live"
Owners(h) == {r \in Requests : slots[r].h = h}
At(r, pcs) == task[r].pc \in pcs
Goto(r, pc) == task' = [task EXCEPT ![r].pc = pc]
Finish(r) == task' = [task EXCEPT ![r] = [Idle EXCEPT !.pc = "done"]]

------------------------------------------------------------------------------
(* Sessions. *)

(* Nobody plays it and nobody was promised it. *)
Supersedable(h) == Live(h) /\ ~sess[h].attached /\ ~sess[h].claimed

(* The sessions after those of hs ended, for the reason why.  Nothing reads the
   flags of a session that ended. *)
Ended(hs, why) ==
  [h \in Handles |-> IF h \in hs THEN [NoSession EXCEPT !.end = why] ELSE sess[h]]

(* A session the repeated prepare of a source can share. *)
Reusable(src) ==
  {h \in Handles : Live(h) /\ ~sess[h].attached /\ ~sess[h].old /\ sess[h].src = src}

Claimed(h) == [sess EXCEPT ![h].claimed = TRUE, ![h].abandoned = FALSE]

CancelIfUnattached(h) == Ended({k \in {h} : Supersedable(k)}, "cancelled")

(* abandon: the last owner is gone; what plays is only marked. *)
Abandon(h) ==
  IF ~Live(h) THEN sess
  ELSE IF sess[h].attached THEN [sess EXCEPT ![h].abandoned = TRUE]
  ELSE Ended({h}, "cancelled")

(* Slots of dead sessions are dropped wherever the map is walked, except those
   of the session that is about to be committed. *)
Pruned(kept) ==
  [r \in Requests |-> IF slots[r].h = kept \/ Live(slots[r].h) THEN slots[r] ELSE NoSlot]

------------------------------------------------------------------------------
(* start_prepare, on the caller's thread: admission, then the attempt to adopt
   a session that is warm already, all under prepared_handles. *)

Admit(r) ==
  /\ At(r, {"idle"}) /\ (r > 1 => ~At(r - 1, {"idle"}))
  /\ lockM = None
  /\ "overlap" \in Faults \/ calls[r] \in {"none", "done"}
  /\ slots' = Pruned(None)
  /\ stones' = stones \ {r}
  /\ IF r \in stones
     THEN /\ Finish(r)
          /\ UNCHANGED lockM
     ELSE /\ \E s \in Sources : s <= r /\ task' = [task EXCEPT ![r].pc = "admitted", ![r].src = s]
          /\ lockM' = r
  /\ UNCHANGED <<sess, token, calls, lockP>>

(* adopt_reusable finds nothing: the request becomes an invocation of the plugin. *)
AdoptMiss(r) ==
  /\ At(r, {"admitted"}) /\ lockP = None
  /\ Reusable(task[r].src) = {}
  /\ token' = [token EXCEPT ![r] = "live"]
  /\ lockM' = None
  /\ Goto(r, "invoking")
  /\ UNCHANGED <<sess, slots, stones, calls, lockP>>

Others(h) == {k \in Handles : k # h /\ Supersedable(k)}

AdoptScan(r) ==
  /\ At(r, {"admitted"}) /\ lockP = None
  /\ \E h \in Reusable(task[r].src) :
       task' = [task EXCEPT ![r].pc = "adopting", ![r].h = h, ![r].doomed = Others(h)]
  /\ lockP' = r
  /\ UNCHANGED <<sess, slots, token, stones, calls, lockM>>

\* Mutant of Sweep: the list of the scan is trusted.
SweepAll(r) == Ended({h \in task[r].doomed : Live(h)}, "superseded")

(* What the scan found is ended unless it was attached or claimed since. *)
Sweep(r) == Ended({h \in task[r].doomed : Supersedable(h)}, "superseded")

\* Mutant of AdoptSweep: the admission's guards go before the claim is made.
AdoptSweepUnguarded(r) ==
  /\ At(r, {"adopting"})
  /\ sess' = Sweep(r)
  /\ lockP' = None /\ lockM' = None
  /\ task' = [task EXCEPT ![r].pc = "claiming", ![r].doomed = {}]
  /\ UNCHANGED <<slots, token, stones, calls>>

AdoptSweep(r) ==
  /\ At(r, {"adopting"})
  /\ sess' = Sweep(r)
  /\ lockP' = None
  /\ task' = [task EXCEPT ![r].pc = "claiming", ![r].doomed = {}]
  /\ UNCHANGED <<slots, token, stones, calls, lockM>>

AdoptClaim(r) ==
  /\ At(r, {"claiming"})
  /\ lockM' = None
  /\ LET h == task[r].h IN
       IF Live(h)
       THEN /\ sess' = Claimed(h)
            /\ slots' = [slots EXCEPT ![r] = [h |-> h, sent |-> FALSE]]
            /\ Goto(r, "adopted")
       ELSE /\ UNCHANGED <<sess, slots>>
            /\ Finish(r)
  /\ UNCHANGED <<token, stones, calls, lockP>>

(* The delivery task of an adopted session looks once more before it speaks. *)
AdoptRecheck(r) ==
  /\ At(r, {"adopted"}) /\ lockM = None
  /\ IF Live(task[r].h)
     THEN /\ Goto(r, "telling")
          /\ UNCHANGED <<slots, stones>>
     ELSE /\ Finish(r)
          /\ stones' = stones \ {r}
          /\ slots' = [slots EXCEPT ![r].sent = slots[r].h # None]
  /\ UNCHANGED <<sess, token, calls, lockM, lockP>>

------------------------------------------------------------------------------
(* The invocation and its delivery task. *)

(* playback.resolve fails, by itself or because the token was spent. *)
ResolveFails(r) ==
  /\ At(r, {"invoking"})
  /\ stones' = stones \ {r}
  /\ token' = [token EXCEPT ![r] = "none"]
  /\ Finish(r)
  /\ UNCHANGED <<sess, slots, calls, lockM, lockP>>

(* prepare_timed: share a session of this source, or make one; end the rest. *)
PrepareScan(r) ==
  /\ At(r, {"invoking"}) /\ lockP = None
  /\ LET found == Reusable(task[r].src) IN
       \E h \in IF found = {} THEN {None} ELSE found :
         task' = [task EXCEPT ![r].pc = "preparing", ![r].h = h, ![r].doomed = Others(h)]
  /\ lockP' = r
  /\ UNCHANGED <<sess, slots, token, stones, calls, lockM>>

Unused == {h \in Handles : sess[h].end = "none"}

PrepareShare(r) ==
  /\ At(r, {"preparing"}) /\ task[r].h # None
  /\ sess' = Sweep(r)
  /\ lockP' = None
  /\ task' = [task EXCEPT ![r].pc = "prepared", ![r].doomed = {}]
  /\ UNCHANGED <<slots, token, stones, calls, lockM>>

PrepareNew(r) ==
  /\ At(r, {"preparing"}) /\ task[r].h = None
  /\ \E h \in Unused :
       /\ \A k \in Unused : h <= k
       /\ sess' = [Sweep(r) EXCEPT ![h].end = "live", ![h].src = task[r].src]
       /\ task' = [task EXCEPT ![r].pc = "prepared", ![r].h = h, ![r].doomed = {}]
  /\ lockP' = None
  /\ UNCHANGED <<slots, token, stones, calls, lockM>>

(* The session's file cannot be created: what was swept stays swept. *)
PrepareFails(r) ==
  /\ At(r, {"preparing"}) /\ task[r].h = None
  /\ sess' = Sweep(r)
  /\ lockP' = None
  /\ stones' = stones \ {r}
  /\ token' = [token EXCEPT ![r] = "none"]
  /\ Finish(r)
  /\ UNCHANGED <<slots, calls, lockM>>

(* A cancel that outran both maps left a stone: the session is an orphan. *)
StoneCheck(r) ==
  /\ At(r, {"prepared"})
  /\ IF r \in stones
     THEN /\ stones' = stones \ {r}
          /\ sess' = CancelIfUnattached(task[r].h)
          /\ token' = [token EXCEPT ![r] = "none"]
          /\ Finish(r)
     ELSE /\ Goto(r, "checked")
          /\ UNCHANGED <<stones, sess, token>>
  /\ UNCHANGED <<slots, calls, lockM, lockP>>

\* Mutant of Wanted: the token is not asked.
WantedAlways(r) == TRUE

Wanted(r) == token[r] = "live"

(* The commit: token, liveness, claim and slot under prepared_handles. *)
Commit(r) ==
  /\ At(r, {"checked"}) /\ lockM = None
  /\ LET h == task[r].h IN
       IF Wanted(r) /\ Live(h)
       THEN /\ sess' = Claimed(h)
            /\ slots' = [Pruned(h) EXCEPT ![r] = [h |-> h, sent |-> FALSE]]
            /\ Goto(r, "telling")
            /\ UNCHANGED stones
       ELSE /\ UNCHANGED sess
            /\ slots' = Pruned(h)
            /\ stones' = stones \ {r}
            /\ Goto(r, "refusing")
  /\ UNCHANGED <<token, calls, lockM, lockP>>

Refuse(r) ==
  /\ At(r, {"refusing"})
  /\ sess' = CancelIfUnattached(task[r].h)
  /\ token' = [token EXCEPT ![r] = "none"]
  /\ Finish(r)
  /\ UNCHANGED <<slots, stones, calls, lockM, lockP>>

------------------------------------------------------------------------------
(* Both paths: the outcome goes to the listener, then the slot says so. *)

Tell(r) ==
  /\ At(r, {"telling"})
  /\ Goto(r, "told")
  /\ UNCHANGED <<sess, slots, token, stones, calls, lockM, lockP>>

Flip(r) ==
  /\ At(r, {"told"}) /\ lockM = None
  /\ slots' = [slots EXCEPT ![r].sent = slots[r].h # None]
  /\ token' = [token EXCEPT ![r] = "none"]
  /\ Goto(r, "mine")
  /\ UNCHANGED <<sess, stones, calls, lockM, lockP>>

\* Mutant of InWindow: the window's guard is never dropped.
InWindowForever(r) == At(r, {"adopted", "telling", "told", "mine", "done"})

(* The delivery window of PrepareDelivery: a committed slot whose outcome is
   not on the wire yet. *)
InWindow(r) == At(r, {"adopted", "telling", "told"})

------------------------------------------------------------------------------
(* cancel: three looks, each under its own lock. *)

CancelLook(r) ==
  /\ calls[r] = "none" /\ lockM = None
  /\ token' = [token EXCEPT ![r] = IF @ = "live" THEN "spent" ELSE @]
  /\ calls' = [calls EXCEPT ![r] = "looked"]
  /\ UNCHANGED <<sess, slots, stones, task, lockM, lockP>>

CancelWaits(r) ==
  /\ calls[r] = "looked" /\ lockM = None
  /\ slots[r].h # None /\ ~slots[r].sent
  /\ calls' = [calls EXCEPT ![r] = "waiting"]
  /\ UNCHANGED <<sess, slots, token, stones, task, lockM, lockP>>

CancelWakes(r) ==
  /\ calls[r] = "waiting" /\ ~InWindow(r)
  /\ calls' = [calls EXCEPT ![r] = "woken"]
  /\ UNCHANGED <<sess, slots, token, stones, task, lockM, lockP>>

\* Mutant of LastOwner: a coalesced prepare counts as the only one.
LastOwnerAlways(r) == TRUE

LastOwner(r) == Owners(slots[r].h) = {r}

(* The slot is given up; the last owner abandons the session. *)
CancelTake(r) ==
  /\ lockM = None
  /\ \/ calls[r] = "looked" /\ (slots[r].h = None \/ slots[r].sent)
     \/ calls[r] = "woken"
  /\ LET h == slots[r].h IN
       IF h = None
       THEN /\ calls' = [calls EXCEPT ![r] = "missed"]
            /\ UNCHANGED <<sess, slots>>
       ELSE /\ calls' = [calls EXCEPT ![r] = "done"]
            /\ slots' = [slots EXCEPT ![r] = NoSlot]
            /\ sess' = IF LastOwner(r) THEN Abandon(h) ELSE sess
  /\ UNCHANGED <<token, stones, task, lockM, lockP>>

CancelStone(r) ==
  /\ calls[r] = "missed"
  /\ stones' = stones \cup {r}
  /\ calls' = [calls EXCEPT ![r] = "done"]
  /\ UNCHANGED <<sess, slots, token, task, lockM, lockP>>

------------------------------------------------------------------------------
(* The players: whoever was told a handle, until its cancel returned. *)

Holds(r, h) == task[r].h = h /\ At(r, {"told", "mine"}) /\ calls[r] # "done"

(* stream_open: a session that was never played and is old ends instead. *)
Attach(h) ==
  /\ Live(h) /\ ~sess[h].attached /\ \E r \in Requests : Holds(r, h)
  /\ sess' = IF sess[h].old /\ ~sess[h].played
             THEN Ended({h}, "expired")
             ELSE [sess EXCEPT ![h].attached = TRUE, ![h].played = TRUE, ![h].old = FALSE]
  /\ UNCHANGED <<slots, token, stones, task, calls, lockM, lockP>>

\* Mutant of ClaimAfterClose: close forgets the mark.
ClaimKept(h) == sess[h].claimed

(* stream_close: an ownerless session loses its claim with its player. *)
ClaimAfterClose(h) == sess[h].claimed /\ ~sess[h].abandoned

Close(h) ==
  /\ Live(h) /\ sess[h].attached
  /\ sess' = [sess EXCEPT ![h].attached = FALSE, ![h].claimed = ClaimAfterClose(h),
                          ![h].abandoned = FALSE]
  /\ UNCHANGED <<slots, token, stones, task, calls, lockM, lockP>>

(* stream_release, by any holder, whoever else holds it; then its slots go. *)
Release(h) ==
  /\ Live(h) /\ \E r \in Requests : Holds(r, h)
  /\ sess' = Ended({h}, "released")
  /\ UNCHANGED <<slots, token, stones, task, calls, lockM, lockP>>

Forget(h) ==
  /\ sess[h].end = "released" /\ Owners(h) # {} /\ lockM = None
  /\ slots' = [r \in Requests |-> IF slots[r].h = h THEN NoSlot ELSE slots[r]]
  /\ UNCHANGED <<sess, token, stones, task, calls, lockM, lockP>>

------------------------------------------------------------------------------
(* Time, the reaper, and the pump of a session. *)

(* Detached for prepare_ttl. *)
Age(h) ==
  /\ Live(h) /\ ~sess[h].attached /\ ~sess[h].old
  /\ sess' = [sess EXCEPT ![h].old = TRUE]
  /\ UNCHANGED <<slots, token, stones, task, calls, lockM, lockP>>

Reap(h) ==
  /\ Live(h) /\ sess[h].old
  /\ sess' = Ended({h}, "evicted")
  /\ UNCHANGED <<slots, token, stones, task, calls, lockM, lockP>>

(* A terminal answer of the provider, a cache file that cannot be written. *)
PumpFails(h) ==
  /\ Live(h)
  /\ sess' = Ended({h}, "failed")
  /\ UNCHANGED <<slots, token, stones, task, calls, lockM, lockP>>

------------------------------------------------------------------------------
Starts(r) ==
  \/ AdoptMiss(r) \/ AdoptScan(r) \/ AdoptSweep(r) \/ AdoptClaim(r) \/ AdoptRecheck(r)

Delivers(r) ==
  \/ ResolveFails(r) \/ PrepareScan(r) \/ PrepareShare(r) \/ PrepareNew(r) \/ PrepareFails(r)
  \/ StoneCheck(r) \/ Commit(r) \/ Refuse(r) \/ Tell(r) \/ Flip(r)

Cancels(r) == CancelWaits(r) \/ CancelWakes(r) \/ CancelTake(r) \/ CancelStone(r)

Plays(h) == Attach(h) \/ Close(h) \/ Release(h) \/ Forget(h)

Ends(h) == Age(h) \/ Reap(h) \/ PumpFails(h)

Next ==
  \/ \E r \in Requests : Admit(r) \/ Starts(r) \/ Delivers(r) \/ CancelLook(r) \/ Cancels(r)
  \/ \E h \in Handles : Plays(h) \/ Ends(h)

Spec == Init /\ [][Next]_vars

(* A thread that runs keeps running and gets the locks it waits for; the provider
   answers or the plugin's budgets end the invocation.  Nobody has to start,
   cancel, play or release anything. *)
FairSpec ==
  Spec /\ \A r \in Requests : WF_vars(Starts(r)) /\ WF_vars(Delivers(r)) /\ WF_vars(Cancels(r))

------------------------------------------------------------------------------
Endings == {"superseded", "cancelled", "released", "evicted", "expired", "failed"}
Places == {"idle", "admitted", "adopting", "claiming", "adopted", "invoking", "preparing",
           "prepared", "checked", "refusing", "telling", "told", "mine", "done"}

Session == [end : Endings \cup {"none", "live"}, src : Sources \cup {None},
            attached : BOOLEAN, claimed : BOOLEAN, abandoned : BOOLEAN,
            played : BOOLEAN, old : BOOLEAN]
Slot == [h : Handles \cup {None}, sent : BOOLEAN]
Task == [pc : Places, src : Sources \cup {None}, h : Handles \cup {None},
         doomed : SUBSET Handles]

\* Each long lock is held by the one that is in its section: nobody leaves with
\* it or lets go of it half way.
LocksHeld ==
  /\ lockM \in Requests \cup {None} /\ lockP \in Requests \cup {None}
  /\ \A r \in Requests : (lockM = r) = At(r, {"admitted", "adopting", "claiming"})
  /\ \A r \in Requests : (lockP = r) = At(r, {"adopting", "preparing"})

\* The state's shape, and the two locks of start_prepare.
TypeOK ==
  /\ sess \in [Handles -> Session]
  /\ slots \in [Requests -> Slot]
  /\ token \in [Requests -> {"none", "live", "spent"}]
  /\ stones \subseteq Requests
  /\ task \in [Requests -> Task]
  /\ calls \in [Requests -> {"none", "looked", "waiting", "woken", "missed", "done"}]
  /\ LocksHeld

(* A session that somebody plays is ended by nobody's bookkeeping: not by the
   prepare of another source, the cancel of a request, or the reaper.  And one
   that a request was promised (its slot is committed or its outcome on the
   wire) is neither superseded nor cancelled on another request's account,
   although the scan that does so and the claim that forbids it hold no lock
   in common. *)
Promised(h) == {r \in Requests : calls[r] = "none" /\
                  (slots[r].h = h \/ (task[r].h = h /\ At(r, {"told", "mine"})))}

EndsRespectOwners ==
  [][\A h \in Handles :
       Live(h) /\ sess'[h].end # "live" =>
         /\ sess[h].attached => sess'[h].end \in {"released", "failed"}
         /\ Promised(h) # {} => sess'[h].end \notin {"superseded", "cancelled"}]_vars

(* A claim keeps supersede and cancel away for good, so no claimed session is
   left without someone whose cancel or close will drop the claim: an owner's
   slot, or a player whose close does. *)
ClaimHasOwner ==
  \A h \in Handles :
    Live(h) /\ sess[h].claimed => Owners(h) # {} \/ (sess[h].attached /\ sess[h].abandoned)

(* Once cancel has returned its request owns no session, and no outcome that
   names a live one is on its way to the listener, whichever of the three
   records the cancel found: "a late cancel can't orphan a live session"
   (lib.rs:442-443). *)
CancelTakesEffect ==
  \A r \in Requests :
    calls[r] = "done" =>
      ~Live(slots[r].h) /\ ~(Live(task[r].h) /\ At(r, {"claiming", "adopted", "telling"}))

(* Every prepare that is admitted gets its outcome and every cancel returns:
   no lock is waited for in a circle, no delivery window stays open. *)
RequestsSettle ==
  \A r \in Requests :
    /\ (~At(r, {"idle"})) ~> At(r, {"mine", "done"})
    /\ (calls[r] = "looked") ~> (calls[r] = "done")
=============================================================================
