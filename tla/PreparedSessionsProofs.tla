----------------------- MODULE PreparedSessionsProofs -----------------------
(***************************************************************************)
(* The invariants of PreparedSessions, in three parts.                     *)
(*                                                                         *)
(* Types and locks: the two long locks are held exactly by the request in  *)
(* the section they guard.                                                 *)
(*                                                                         *)
(* Ownership: a claimed session has an owner because a slot that names a   *)
(* live session belongs to the request that holds it, in its delivery      *)
(* window or after it, and no other step overwrites such a slot.  Most     *)
(* steps claim nothing and keep the invariant for one reason (DropsKeep);  *)
(* the claims, the creation, the cancel and the players have their own.    *)
(*                                                                         *)
(* Cancels: what a cancel finds depends on the place of its request, and   *)
(* what it leaves there on the look that found it; the invariant lists, of *)
(* one request, what each look still has ahead of it, as long as no cancel *)
(* runs beside the start of its own request.                               *)
(***************************************************************************)
EXTENDS PreparedSessions, TLAPS

Sessions == [Handles -> Session]
Slots == [Requests -> Slot]
Tasks == [Requests -> Task]

-----------------------------------------------------------------------------
(* The values of the operators.                                            *)

\* Ending sessions leaves sessions.
LEMMA EndedTyped ==
  ASSUME TypeOK, NEW hs, NEW why \in Endings
  PROVE  Ended(hs, why) \in Sessions
BY DEF TypeOK, Sessions, Ended, Session, Endings, NoSession, None

\* So does a sweep.
LEMMA SweepTyped ==
  ASSUME TypeOK, NEW r
  PROVE  Sweep(r) \in Sessions
BY EndedTyped DEF Sweep, Endings

\* So does the cancel of a session that nobody holds.
LEMMA CancelTyped ==
  ASSUME TypeOK, NEW h
  PROVE  CancelIfUnattached(h) \in Sessions
BY EndedTyped DEF CancelIfUnattached, Endings

\* A session stays one when a flag is set.
LEMMA FlagTyped ==
  ASSUME NEW s \in Session, NEW b \in BOOLEAN
  PROVE  /\ [s EXCEPT !.claimed = b] \in Session
         /\ [s EXCEPT !.abandoned = b] \in Session
         /\ [s EXCEPT !.attached = b] \in Session
         /\ [s EXCEPT !.played = b] \in Session
         /\ [s EXCEPT !.old = b] \in Session
BY DEF Session

\* Replacing one session leaves sessions.
LEMMA SetTyped ==
  ASSUME NEW ss \in Sessions, NEW h \in Handles, NEW s \in Session
  PROVE  [ss EXCEPT ![h] = s] \in Sessions
BY DEF Sessions

\* A claimed session is a session.
LEMMA ClaimedTyped ==
  ASSUME TypeOK, NEW h \in Handles
  PROVE  Claimed(h) \in Sessions
<1>1. sess[h] \in Session /\ sess \in Sessions
  BY DEF TypeOK, Sessions
<1>2. [[sess[h] EXCEPT !.claimed = TRUE] EXCEPT !.abandoned = FALSE] \in Session
  BY <1>1, FlagTyped
<1>3. Claimed(h)
        = [sess EXCEPT ![h] = [[sess[h] EXCEPT !.claimed = TRUE] EXCEPT !.abandoned = FALSE]]
  BY <1>1, Zenon DEF Claimed, Sessions
<1>4. [sess EXCEPT ![h] = [[sess[h] EXCEPT !.claimed = TRUE] EXCEPT !.abandoned = FALSE]] \in Sessions
  <2> DEFINE s == [[sess[h] EXCEPT !.claimed = TRUE] EXCEPT !.abandoned = FALSE]
  <2>1. s \in Session
    BY <1>2
  <2> HIDE DEF s
  <2>2. [sess EXCEPT ![h] = s] \in Sessions
    BY <1>1, <2>1, SetTyped
  <2> QED
    BY <2>2 DEF s
<1> QED
  BY <1>3, <1>4

\* So is one that its last owner gave up.
LEMMA AbandonTyped ==
  ASSUME TypeOK, NEW h \in Handles
  PROVE  Abandon(h) \in Sessions
<1>1. sess[h] \in Session /\ sess \in Sessions
  BY DEF TypeOK, Sessions
<1>2. [sess EXCEPT ![h].abandoned = TRUE]
        = [sess EXCEPT ![h] = [sess[h] EXCEPT !.abandoned = TRUE]]
  BY <1>1 DEF Sessions
<1>3. [sess EXCEPT ![h].abandoned = TRUE] \in Sessions
  BY <1>1, <1>2, FlagTyped, SetTyped
<1> QED
  BY <1>1, <1>3, EndedTyped DEF Abandon, Endings

\* A session that is created in a swept registry.
LEMMA CreatedTyped ==
  ASSUME NEW ss \in Sessions, NEW h \in Handles, NEW src \in Sources \cup {None}
  PROVE  [ss EXCEPT ![h].end = "live", ![h].src = src] \in Sessions
<1>1. ss[h] \in Session
  BY DEF Sessions
<1>2. [[ss[h] EXCEPT !.end = "live"] EXCEPT !.src = src] \in Session
  BY <1>1 DEF Session
<1>3. [ss EXCEPT ![h].end = "live", ![h].src = src]
        = [ss EXCEPT ![h] = [[ss[h] EXCEPT !.end = "live"] EXCEPT !.src = src]]
  BY <1>1 DEF Sessions
<1> QED
  BY <1>2, <1>3, SetTyped

\* Pruning leaves slots.
LEMMA PrunedTyped ==
  ASSUME TypeOK, NEW kept
  PROVE  Pruned(kept) \in Slots
BY DEF TypeOK, Pruned, Slots, Slot, NoSlot, None

\* A committed slot is a slot.
LEMMA CommittedTyped ==
  ASSUME NEW S \in Slots, NEW r \in Requests, NEW h \in Handles
  PROVE  [S EXCEPT ![r] = [h |-> h, sent |-> FALSE]] \in Slots
<1>1. [h |-> h, sent |-> FALSE] \in Slot
  BY DEF Slot
<1> QED
  BY <1>1 DEF Slots

\* So is one whose outcome was told.
LEMMA FlippedTyped ==
  ASSUME NEW S \in Slots, NEW r \in Requests, NEW b \in BOOLEAN
  PROVE  [S EXCEPT ![r].sent = b] \in Slots
<1>1. [S[r] EXCEPT !.sent = b] \in Slot
  BY DEF Slots, Slot
<1>2. [S EXCEPT ![r].sent = b] = [S EXCEPT ![r] = [S[r] EXCEPT !.sent = b]]
  BY DEF Slots
<1> QED
  BY <1>1, <1>2 DEF Slots

\* What a request names is a handle once it is a live session.
LEMMA LiveIsHandle ==
  ASSUME TypeOK, NEW r \in Requests
  PROVE  /\ Live(task[r].h) => task[r].h \in Handles
         /\ slots[r].h # None => slots[r].h \in Handles
BY DEF TypeOK, Task, Slot, Live

-----------------------------------------------------------------------------
(* A step of a request.                                                    *)

\* Request r, and only r, moves, to one of the places pcs.
Moved(r, pcs) ==
  /\ task' \in Tasks
  /\ \A q \in Requests : q # r => task'[q] = task[q]
  /\ task'[r].pc \in pcs

\* A request that goes on keeps its session.
LEMMA GotoMoves ==
  ASSUME TypeOK, NEW r \in Requests, NEW pc \in Places, Goto(r, pc)
  PROVE  Moved(r, {pc}) /\ task'[r].h = task[r].h
BY SMTT(30) DEF TypeOK, Goto, Moved, Tasks, Task

\* One that is done drops it.
LEMMA FinishMoves ==
  ASSUME TypeOK, NEW r \in Requests, Finish(r)
  PROVE  Moved(r, {"done"}) /\ task'[r].h = None
BY DEF TypeOK, Finish, Moved, Tasks, Task, Idle, Places, None

\* A request in a prepare or an adoption may get its session and a list to sweep.
LEMMA WorkMoves ==
  ASSUME TypeOK, NEW r \in Requests, NEW pc \in Places, NEW h \in Handles \cup {None},
         NEW D \in SUBSET Handles,
         \/ task' = [task EXCEPT ![r].pc = pc, ![r].h = h, ![r].doomed = D]
         \/ h = task[r].h /\ task' = [task EXCEPT ![r].pc = pc, ![r].doomed = D]
  PROVE  Moved(r, {pc}) /\ task'[r].h = h
<1>1. task[r] \in Task /\ task \in Tasks
  BY DEF TypeOK, Tasks
<1>2. /\ [[[task[r] EXCEPT !.pc = pc] EXCEPT !.h = h] EXCEPT !.doomed = D] \in Task
      /\ [[task[r] EXCEPT !.pc = pc] EXCEPT !.doomed = D] \in Task
  BY <1>1 DEF Task
<1>3. /\ [task EXCEPT ![r].pc = pc, ![r].h = h, ![r].doomed = D]
            = [task EXCEPT ![r] = [[[task[r] EXCEPT !.pc = pc] EXCEPT !.h = h] EXCEPT !.doomed = D]]
      /\ [task EXCEPT ![r].pc = pc, ![r].doomed = D]
            = [task EXCEPT ![r] = [[task[r] EXCEPT !.pc = pc] EXCEPT !.doomed = D]]
  BY <1>1 DEF Tasks
<1>4. PICK t \in Task : task' = [task EXCEPT ![r] = t] /\ t.pc = pc /\ t.h = h
  BY <1>1, <1>2, <1>3 DEF Task
<1> QED
  BY <1>1, <1>4 DEF Moved, Tasks

\* The locks follow a request that takes them when it enters a section and lets
\* go when it leaves.
LEMMA LocksFollow ==
  ASSUME TypeOK, NEW r \in Requests, Moved(r, Places),
         lockM' = IF task'[r].pc \in {"admitted", "adopting", "claiming"} THEN r
                  ELSE IF lockM = r THEN None ELSE lockM,
         lockP' = IF task'[r].pc \in {"adopting", "preparing"} THEN r
                  ELSE IF lockP = r THEN None ELSE lockP,
         lockM' = r => lockM \in {None, r},
         lockP' = r => lockP \in {None, r}
  PROVE  LocksHeld'
BY PreparedAssumption DEF TypeOK, LocksHeld, Moved, Tasks, At, Requests, None

\* A miss keeps the state typed and takes the request to its invocation.
LEMMA AdoptMissTyped ==
  ASSUME TypeOK, NEW r \in Requests, AdoptMiss(r)
  PROVE  TypeOK' /\ Moved(r, {"invoking"})
<1>1. Moved(r, {"invoking"})
  BY GotoMoves DEF AdoptMiss, Places, Moved
<1>2. LocksHeld'
  BY <1>1, LocksFollow DEF AdoptMiss, Moved, Places, At, TypeOK, LocksHeld, None
<1>3. sess' \in Sessions
  BY DEF AdoptMiss, TypeOK, Sessions
<1>4. slots' \in Slots
  BY DEF AdoptMiss, TypeOK, Slots
<1> QED
  BY <1>1, <1>2, <1>3, <1>4 DEF AdoptMiss, TypeOK, Sessions, Slots, Tasks, Moved

\* The scan of an adoption takes the second lock and nothing else.
LEMMA AdoptScanTyped ==
  ASSUME TypeOK, NEW r \in Requests, AdoptScan(r)
  PROVE  TypeOK' /\ Moved(r, {"adopting"})
<1>1. Moved(r, {"adopting"})
  <2>1. PICK h \in Reusable(task[r].src) :
          task' = [task EXCEPT ![r].pc = "adopting", ![r].h = h, ![r].doomed = Others(h)]
    BY DEF AdoptScan
  <2>2. h \in Handles /\ Others(h) \in SUBSET Handles /\ "adopting" \in Places
    BY DEF Reusable, Others, Places
  <2> QED
    BY <2>1, <2>2, WorkMoves
<1>2. LocksHeld'
  BY <1>1, LocksFollow DEF AdoptScan, Moved, Places, At, TypeOK, LocksHeld, None
<1>3. sess' \in Sessions
  BY DEF AdoptScan, TypeOK, Sessions
<1>4. slots' \in Slots
  BY DEF AdoptScan, TypeOK, Slots
<1> QED
  BY <1>1, <1>2, <1>3, <1>4 DEF AdoptScan, TypeOK, Sessions, Slots, Tasks, Moved

\* The sweep lets that lock go and keeps the first.
LEMMA AdoptSweepTyped ==
  ASSUME TypeOK, NEW r \in Requests, AdoptSweep(r)
  PROVE  TypeOK' /\ Moved(r, {"claiming"})
<1>1. Moved(r, {"claiming"})
  <2>1. /\ task[r].h \in Handles \cup {None} /\ {} \in SUBSET Handles
        /\ task' = [task EXCEPT ![r].pc = "claiming", ![r].doomed = {}]
    BY DEF AdoptSweep, TypeOK, Task
  <2>2. "claiming" \in Places
    BY DEF Places
  <2> QED
    BY <2>1, <2>2, WorkMoves
<1>2. LocksHeld'
  BY <1>1, LocksFollow DEF AdoptSweep, Moved, Places, At, TypeOK, LocksHeld, None
<1>3. sess' \in Sessions
  BY SweepTyped DEF AdoptSweep, TypeOK, Sessions
<1>4. slots' \in Slots
  BY DEF AdoptSweep, TypeOK, Slots
<1> QED
  BY <1>1, <1>2, <1>3, <1>4 DEF AdoptSweep, TypeOK, Sessions, Slots, Tasks, Moved

\* The claim lets the first go, whether or not the session is still there.
LEMMA AdoptClaimTyped ==
  ASSUME TypeOK, NEW r \in Requests, AdoptClaim(r)
  PROVE  TypeOK' /\ Moved(r, {"adopted", "done"})
<1>1. Moved(r, {"adopted", "done"})
  BY GotoMoves, FinishMoves DEF AdoptClaim, Places, Moved
<1>2. LocksHeld'
  BY <1>1, LocksFollow DEF AdoptClaim, Moved, Places, At, TypeOK, LocksHeld, None
<1>3. sess' \in Sessions
  BY ClaimedTyped, LiveIsHandle DEF AdoptClaim, TypeOK, Sessions
<1>4. slots' \in Slots
  BY CommittedTyped, LiveIsHandle DEF AdoptClaim, TypeOK, Slots
<1> QED
  BY <1>1, <1>2, <1>3, <1>4 DEF AdoptClaim, TypeOK, Sessions, Slots, Tasks, Moved

\* The second look goes on to the listener or ends the request.
LEMMA AdoptRecheckTyped ==
  ASSUME TypeOK, NEW r \in Requests, AdoptRecheck(r)
  PROVE  TypeOK' /\ Moved(r, {"telling", "done"})
<1>1. Moved(r, {"telling", "done"})
  BY GotoMoves, FinishMoves DEF AdoptRecheck, Places, Moved
<1>2. LocksHeld'
  BY <1>1, LocksFollow DEF AdoptRecheck, Moved, Places, At, TypeOK, LocksHeld, None
<1>3. sess' \in Sessions
  BY DEF AdoptRecheck, TypeOK, Sessions
<1>4. slots' \in Slots
  <2>1. slots \in Slots /\ (slots[r].h # None) \in BOOLEAN
    BY DEF TypeOK, Slots
  <2>2. [slots EXCEPT ![r].sent = slots[r].h # None] \in Slots
    BY <2>1, FlippedTyped
  <2> QED
    BY <2>1, <2>2 DEF AdoptRecheck
<1> QED
  BY <1>1, <1>2, <1>3, <1>4 DEF AdoptRecheck, TypeOK, Sessions, Slots, Tasks, Moved

\* A failed invocation is done.
LEMMA ResolveFailsTyped ==
  ASSUME TypeOK, NEW r \in Requests, ResolveFails(r)
  PROVE  TypeOK' /\ Moved(r, {"done"})
<1>1. Moved(r, {"done"})
  BY FinishMoves DEF ResolveFails
<1>2. LocksHeld'
  BY <1>1, LocksFollow DEF ResolveFails, Moved, Places, At, TypeOK, LocksHeld, None
<1>3. sess' \in Sessions
  BY DEF ResolveFails, TypeOK, Sessions
<1>4. slots' \in Slots
  BY DEF ResolveFails, TypeOK, Slots
<1> QED
  BY <1>1, <1>2, <1>3, <1>4 DEF ResolveFails, TypeOK, Sessions, Slots, Tasks, Moved

\* The scan of a prepare takes the second lock.
LEMMA PrepareScanTyped ==
  ASSUME TypeOK, NEW r \in Requests, PrepareScan(r)
  PROVE  TypeOK' /\ Moved(r, {"preparing"})
<1>1. Moved(r, {"preparing"})
  <2>1. PICK h \in Handles \cup {None} :
          task' = [task EXCEPT ![r].pc = "preparing", ![r].h = h, ![r].doomed = Others(h)]
    BY DEF PrepareScan, Reusable
  <2>2. Others(h) \in SUBSET Handles /\ "preparing" \in Places
    BY DEF Others, Places
  <2> QED
    BY <2>1, <2>2, WorkMoves
<1>2. LocksHeld'
  BY <1>1, LocksFollow DEF PrepareScan, Moved, Places, At, TypeOK, LocksHeld, None
<1>3. sess' \in Sessions
  BY DEF PrepareScan, TypeOK, Sessions
<1>4. slots' \in Slots
  BY DEF PrepareScan, TypeOK, Slots
<1> QED
  BY <1>1, <1>2, <1>3, <1>4 DEF PrepareScan, TypeOK, Sessions, Slots, Tasks, Moved

\* A shared session is prepared, and the lock is let go.
LEMMA PrepareShareTyped ==
  ASSUME TypeOK, NEW r \in Requests, PrepareShare(r)
  PROVE  TypeOK' /\ Moved(r, {"prepared"})
<1>1. Moved(r, {"prepared"})
  <2>1. /\ task[r].h \in Handles \cup {None} /\ {} \in SUBSET Handles
        /\ task' = [task EXCEPT ![r].pc = "prepared", ![r].doomed = {}]
    BY DEF PrepareShare, TypeOK, Task
  <2>2. "prepared" \in Places
    BY DEF Places
  <2> QED
    BY <2>1, <2>2, WorkMoves
<1>2. LocksHeld'
  BY <1>1, LocksFollow DEF PrepareShare, Moved, Places, At, TypeOK, LocksHeld, None
<1>3. sess' \in Sessions
  BY SweepTyped DEF PrepareShare, TypeOK, Sessions
<1>4. slots' \in Slots
  BY DEF PrepareShare, TypeOK, Slots
<1> QED
  BY <1>1, <1>2, <1>3, <1>4 DEF PrepareShare, TypeOK, Sessions, Slots, Tasks, Moved

\* So is a new one, whose handle is one of the model's.
LEMMA PrepareNewTyped ==
  ASSUME TypeOK, NEW r \in Requests, PrepareNew(r)
  PROVE  TypeOK' /\ Moved(r, {"prepared"})
<1>1. Moved(r, {"prepared"})
  <2>1. PICK h \in Handles :
          task' = [task EXCEPT ![r].pc = "prepared", ![r].h = h, ![r].doomed = {}]
    BY DEF PrepareNew, Unused
  <2>2. h \in Handles \cup {None} /\ {} \in SUBSET Handles /\ "prepared" \in Places
    BY DEF Places
  <2> QED
    BY <2>1, <2>2, WorkMoves
<1>2. LocksHeld'
  BY <1>1, LocksFollow DEF PrepareNew, Moved, Places, At, TypeOK, LocksHeld, None
<1>3. sess' \in Sessions
  <2>1. PICK h \in Handles :
          sess' = [Sweep(r) EXCEPT ![h].end = "live", ![h].src = task[r].src]
    BY DEF PrepareNew, Unused
  <2>2. task[r].src \in Sources \cup {None}
    BY DEF TypeOK, Task
  <2> QED
    BY <2>1, <2>2, SweepTyped, CreatedTyped
<1>4. slots' \in Slots
  BY DEF PrepareNew, TypeOK, Slots
<1> QED
  BY <1>1, <1>2, <1>3, <1>4 DEF PrepareNew, TypeOK, Sessions, Slots, Tasks, Moved

\* A session that cannot be made lets the lock go as well.
LEMMA PrepareFailsTyped ==
  ASSUME TypeOK, NEW r \in Requests, PrepareFails(r)
  PROVE  TypeOK' /\ Moved(r, {"done"})
<1>1. Moved(r, {"done"})
  BY FinishMoves DEF PrepareFails
<1>2. LocksHeld'
  BY <1>1, LocksFollow DEF PrepareFails, Moved, Places, At, TypeOK, LocksHeld, None
<1>3. sess' \in Sessions
  BY SweepTyped DEF PrepareFails, TypeOK, Sessions
<1>4. slots' \in Slots
  BY DEF PrepareFails, TypeOK, Slots
<1> QED
  BY <1>1, <1>2, <1>3, <1>4 DEF PrepareFails, TypeOK, Sessions, Slots, Tasks, Moved

\* A stone ends the request, no stone takes it to its commit.
LEMMA StoneCheckTyped ==
  ASSUME TypeOK, NEW r \in Requests, StoneCheck(r)
  PROVE  TypeOK' /\ Moved(r, {"checked", "done"})
<1>1. Moved(r, {"checked", "done"})
  BY GotoMoves, FinishMoves DEF StoneCheck, Places, Moved
<1>2. LocksHeld'
  BY <1>1, LocksFollow DEF StoneCheck, Moved, Places, At, TypeOK, LocksHeld, None
<1>3. sess' \in Sessions
  BY CancelTyped DEF StoneCheck, TypeOK, Sessions
<1>4. slots' \in Slots
  BY DEF StoneCheck, TypeOK, Slots
<1> QED
  BY <1>1, <1>2, <1>3, <1>4 DEF StoneCheck, TypeOK, Sessions, Slots, Tasks, Moved

\* The commit goes to the listener with the session or with a refusal.
LEMMA CommitTyped ==
  ASSUME TypeOK, NEW r \in Requests, Commit(r)
  PROVE  TypeOK' /\ Moved(r, {"telling", "refusing"})
<1>1. Moved(r, {"telling", "refusing"})
  BY GotoMoves DEF Commit, Places, Moved
<1>2. LocksHeld'
  BY <1>1, LocksFollow DEF Commit, Moved, Places, At, TypeOK, LocksHeld, None
<1>3. sess' \in Sessions
  BY ClaimedTyped, LiveIsHandle DEF Commit, TypeOK, Sessions
<1>4. slots' \in Slots
  BY PrunedTyped, CommittedTyped, LiveIsHandle DEF Commit, TypeOK, Slots
<1> QED
  BY <1>1, <1>2, <1>3, <1>4 DEF Commit, TypeOK, Sessions, Slots, Tasks, Moved

\* A refusal is done.
LEMMA RefuseTyped ==
  ASSUME TypeOK, NEW r \in Requests, Refuse(r)
  PROVE  TypeOK' /\ Moved(r, {"done"})
<1>1. Moved(r, {"done"})
  BY FinishMoves DEF Refuse
<1>2. LocksHeld'
  BY <1>1, LocksFollow DEF Refuse, Moved, Places, At, TypeOK, LocksHeld, None
<1>3. sess' \in Sessions
  BY CancelTyped DEF Refuse, TypeOK, Sessions
<1>4. slots' \in Slots
  BY DEF Refuse, TypeOK, Slots
<1> QED
  BY <1>1, <1>2, <1>3, <1>4 DEF Refuse, TypeOK, Sessions, Slots, Tasks, Moved

\* Telling changes the place of the request alone.
LEMMA TellTyped ==
  ASSUME TypeOK, NEW r \in Requests, Tell(r)
  PROVE  TypeOK' /\ Moved(r, {"told"})
<1>1. Moved(r, {"told"})
  BY GotoMoves DEF Tell, Places, Moved
<1>2. LocksHeld'
  BY <1>1, LocksFollow DEF Tell, Moved, Places, At, TypeOK, LocksHeld, None
<1>3. sess' \in Sessions
  BY DEF Tell, TypeOK, Sessions
<1>4. slots' \in Slots
  BY DEF Tell, TypeOK, Slots
<1> QED
  BY <1>1, <1>2, <1>3, <1>4 DEF Tell, TypeOK, Sessions, Slots, Tasks, Moved

\* The flip marks a slot that is there.
LEMMA FlipTyped ==
  ASSUME TypeOK, NEW r \in Requests, Flip(r)
  PROVE  TypeOK' /\ Moved(r, {"mine"})
<1>1. Moved(r, {"mine"})
  BY GotoMoves DEF Flip, Places, Moved
<1>2. LocksHeld'
  BY <1>1, LocksFollow DEF Flip, Moved, Places, At, TypeOK, LocksHeld, None
<1>3. sess' \in Sessions
  BY DEF Flip, TypeOK, Sessions
<1>4. slots' \in Slots
  BY FlippedTyped DEF Flip, TypeOK, Slots
<1> QED
  BY <1>1, <1>2, <1>3, <1>4 DEF Flip, TypeOK, Sessions, Slots, Tasks, Moved

-----------------------------------------------------------------------------
(* The other actions.                                                      *)

\* The admission takes the first lock or, of a request that was cancelled
\* before, only the stone.
LEMMA AdmitTyped ==
  ASSUME TypeOK, NEW r \in Requests, Admit(r)
  PROVE  TypeOK' /\ Moved(r, {"admitted", "done"})
<1>1. Moved(r, {"admitted", "done"})
  <2>1. CASE r \in stones
    BY <2>1, FinishMoves DEF Admit, Moved
  <2>2. CASE r \notin stones
    <3>1. PICK s \in Sources : task' = [task EXCEPT ![r].pc = "admitted", ![r].src = s]
      BY <2>2 DEF Admit
    <3>2. task[r] \in Task /\ task \in Tasks /\ "admitted" \in Places
      BY DEF TypeOK, Tasks, Places
    <3>3. [[task[r] EXCEPT !.pc = "admitted"] EXCEPT !.src = s] \in Task
      BY <3>2 DEF Task
    <3>4. task' = [task EXCEPT ![r] = [[task[r] EXCEPT !.pc = "admitted"] EXCEPT !.src = s]]
      BY <3>1, <3>2 DEF Tasks
    <3>5. [[task[r] EXCEPT !.pc = "admitted"] EXCEPT !.src = s].pc = "admitted"
      BY <3>2 DEF Task
    <3> QED
      BY <3>2, <3>3, <3>4, <3>5 DEF Moved, Tasks
  <2> QED
    BY <2>1, <2>2
<1>2. r \in stones => task'[r].pc = "done"
  BY FinishMoves DEF Admit, Moved
<1>3. r \notin stones => task'[r].pc = "admitted"
  BY DEF Admit, TypeOK, Task
<1>4. LocksHeld'
  BY <1>1, <1>2, <1>3, LocksFollow DEF Admit, Moved, Places, At, TypeOK, LocksHeld, None
<1>5. slots' \in Slots
  BY PrunedTyped DEF Admit
<1> QED
  BY <1>1, <1>4, <1>5 DEF Admit, TypeOK, Slots, Tasks, Moved

\* The call of cancel never waits in a section of the request.
LEMMA CancelsTyped ==
  ASSUME TypeOK, NEW r \in Requests, CancelLook(r) \/ Cancels(r)
  PROVE  TypeOK' /\ task' = task
<1>1. CASE CancelLook(r)
  BY <1>1 DEF CancelLook, TypeOK, LocksHeld, At
<1>2. CASE CancelWaits(r)
  BY <1>2 DEF CancelWaits, TypeOK, LocksHeld, At
<1>3. CASE CancelWakes(r)
  BY <1>3 DEF CancelWakes, TypeOK, LocksHeld, At
<1>4. CASE CancelTake(r)
  <2>1. sess' \in Sessions
    BY <1>4, AbandonTyped, LiveIsHandle DEF CancelTake, TypeOK, Sessions
  <2>2. slots' \in Slots
    <3>1. NoSlot \in Slot /\ slots \in Slots
      BY DEF NoSlot, Slot, TypeOK, Slots
    <3>2. [slots EXCEPT ![r] = NoSlot] \in Slots
      BY <3>1 DEF Slots
    <3> QED
      BY <1>4, <3>1, <3>2 DEF CancelTake
  <2> QED
    BY <1>4, <2>1, <2>2 DEF CancelTake, TypeOK, Sessions, Slots, LocksHeld, At
<1>5. CASE CancelStone(r)
  BY <1>5 DEF CancelStone, TypeOK, LocksHeld, At
<1> QED
  BY <1>1, <1>2, <1>3, <1>4, <1>5 DEF Cancels

\* Players, the clock and the pump change sessions, or drop slots.
LEMMA PlaysTyped ==
  ASSUME TypeOK, NEW h \in Handles, Plays(h) \/ Ends(h)
  PROVE  TypeOK' /\ task' = task
<1>1. sess[h] \in Session /\ sess \in Sessions
  BY DEF TypeOK, Sessions
<1>2. CASE Attach(h)
  <2>1. [[[sess[h] EXCEPT !.attached = TRUE] EXCEPT !.played = TRUE] EXCEPT !.old = FALSE]
          \in Session
    BY <1>1, FlagTyped
  <2>2. [sess EXCEPT ![h].attached = TRUE, ![h].played = TRUE, ![h].old = FALSE]
          = [sess EXCEPT ![h] =
              [[[sess[h] EXCEPT !.attached = TRUE] EXCEPT !.played = TRUE] EXCEPT !.old = FALSE]]
    BY <1>1 DEF Sessions
  <2>3. sess' \in Sessions
    BY <1>1, <1>2, <2>1, <2>2, SetTyped, EndedTyped DEF Attach, Endings
  <2> QED
    BY <1>2, <2>3 DEF Attach, TypeOK, Sessions, LocksHeld, At
<1>3. CASE Close(h)
  <2>1. ClaimAfterClose(h) \in BOOLEAN
    BY <1>1 DEF ClaimAfterClose, Session
  <2> DEFINE s == [[[sess[h] EXCEPT !.attached = FALSE] EXCEPT !.claimed = ClaimAfterClose(h)]
                     EXCEPT !.abandoned = FALSE]
  <2>2. s \in Session
    BY <1>1, <2>1, FlagTyped
  <2>3. sess' = [sess EXCEPT ![h] = s]
    BY <1>1, <1>3 DEF Close, Sessions
  <2>4. sess' \in Sessions
    BY <1>1, <2>2, <2>3, SetTyped
  <2> QED
    BY <1>3, <2>4 DEF Close, TypeOK, Sessions, LocksHeld, At
<1>4. CASE Release(h)
  BY <1>4, EndedTyped DEF Release, Endings, TypeOK, Sessions, LocksHeld, At
<1>5. CASE Forget(h)
  <2>1. slots' \in Slots
    BY <1>5 DEF Forget, TypeOK, Slots, Slot, NoSlot, None
  <2> QED
    BY <1>5, <2>1 DEF Forget, TypeOK, Slots, LocksHeld, At
<1>6. CASE Age(h)
  <2>1. sess' = [sess EXCEPT ![h] = [sess[h] EXCEPT !.old = TRUE]]
    BY <1>1, <1>6 DEF Age, Sessions
  <2>2. sess' \in Sessions
    BY <1>1, <2>1, FlagTyped, SetTyped
  <2> QED
    BY <1>6, <2>2 DEF Age, TypeOK, Sessions, LocksHeld, At
<1>7. CASE Reap(h)
  BY <1>7, EndedTyped DEF Reap, Endings, TypeOK, Sessions, LocksHeld, At
<1>8. CASE PumpFails(h)
  BY <1>8, EndedTyped DEF PumpFails, Endings, TypeOK, Sessions, LocksHeld, At
<1> QED
  BY <1>2, <1>3, <1>4, <1>5, <1>6, <1>7, <1>8 DEF Plays, Ends

-----------------------------------------------------------------------------
\* The program starts with typed state and free locks.
LEMMA InitTyped == Init => TypeOK
BY PreparedAssumption DEF Init, TypeOK, LocksHeld, At, Session, Slot, Task, NoSession, NoSlot,
  Idle, Places, Endings, None, Requests, Handles

\* Every step keeps it so, a stuttering one as well.
LEMMA StepTyped == TypeOK /\ [Next]_vars => TypeOK'
<1> SUFFICES ASSUME TypeOK, [Next]_vars
             PROVE  TypeOK'
  OBVIOUS
<1>1. ASSUME NEW r \in Requests, Admit(r)
      PROVE  TypeOK'
  BY <1>1, AdmitTyped
<1>2. ASSUME NEW r \in Requests, Starts(r)
      PROVE  TypeOK'
  BY <1>2, AdoptMissTyped, AdoptScanTyped, AdoptSweepTyped, AdoptClaimTyped, AdoptRecheckTyped
     DEF Starts
<1>3. ASSUME NEW r \in Requests, Delivers(r)
      PROVE  TypeOK'
  BY <1>3, ResolveFailsTyped, PrepareScanTyped, PrepareShareTyped, PrepareNewTyped,
     PrepareFailsTyped, StoneCheckTyped, CommitTyped, RefuseTyped, TellTyped, FlipTyped
     DEF Delivers
<1>4. ASSUME NEW r \in Requests, CancelLook(r) \/ Cancels(r)
      PROVE  TypeOK'
  BY <1>4, CancelsTyped
<1>5. ASSUME NEW h \in Handles, Plays(h) \/ Ends(h)
      PROVE  TypeOK'
  BY <1>5, PlaysTyped
<1>6. CASE UNCHANGED vars
  BY <1>6 DEF vars, TypeOK, LocksHeld, At
<1> QED
  BY <1>1, <1>2, <1>3, <1>4, <1>5, <1>6 DEF Next

\* Type correctness, and with it that the two long locks are held exactly by the
\* request that is in the section they guard.
THEOREM TypesAndLocks == Spec => []TypeOK
BY InitTyped, StepTyped, PTL DEF Spec

-----------------------------------------------------------------------------
(* Ownership.                                                             *)

Settled(r) == At(r, {"adopted", "telling", "told", "mine"})
Known(h) == h # None => sess[h].end # "none"

\* A session that is not live has no claim and no player, and one that is
\* played is not old.
FlagsReset ==
  \A h \in Handles :
    /\ sess[h].end # "live" => ~sess[h].claimed /\ ~sess[h].attached
    /\ sess[h].attached => ~sess[h].old

\* Nothing names a handle before its session exists.
NoDangling == \A r \in Requests : Known(slots[r].h) /\ Known(task[r].h)

\* A slot that names a live session is its request's, and the claim is there.
SlotBacksClaim ==
  \A r \in Requests :
    Live(slots[r].h) =>
      /\ Settled(r) /\ slots[r].h = task[r].h
      /\ sess[slots[r].h].claimed /\ ~sess[slots[r].h].abandoned

\* Until its cancel a settled request keeps the slot of a live session.
SlotKept ==
  \A r \in Requests :
    calls[r] = "none" /\ Settled(r) /\ Live(task[r].h) => slots[r].h = task[r].h

Owned == TypeOK /\ FlagsReset /\ NoDangling /\ SlotBacksClaim /\ SlotKept /\ ClaimHasOwner

\* A step that claims nothing: sessions end or stay, slots of live sessions
\* stay, and a request moves within its window, or out of it without a slot
\* that counts.
OnlyEnds ==
  \A h \in Handles :
    sess'[h] = sess[h] \/ (sess'[h].end \notin {"live", "none"} /\ ~sess'[h].claimed
                             /\ ~sess'[h].attached /\ ~sess'[h].old)

SlotsStay ==
  \A q \in Requests :
    /\ slots'[q].h \in {slots[q].h, None}
    /\ slots[q].h # None /\ sess'[slots[q].h].end = "live" => slots'[q].h = slots[q].h

Stays(q) ==
  \/ task'[q].h = task[q].h /\ Settled(q)' = Settled(q)
  \/ /\ ~Settled(q)'
     /\ Known(task'[q].h)
     /\ Settled(q) => ~Live(task[q].h)

Drops ==
  /\ OnlyEnds /\ SlotsStay
  /\ \A q \in Requests : Stays(q) /\ (calls'[q] = "none" => calls[q] = "none")

\* The step of EndsRespectOwners.
Respects ==
  \A h \in Handles :
    Live(h) /\ sess'[h].end # "live" =>
      /\ sess[h].attached => sess'[h].end \in {"released", "failed"}
      /\ Promised(h) # {} => sess'[h].end \notin {"superseded", "cancelled"}

\* Such a step keeps the invariant.
LEMMA DropsKeep ==
  ASSUME Owned, TypeOK', Drops
  PROVE  Owned'
<1>1. /\ \A h \in Handles : h # None
      /\ \A q \in Requests : slots[q].h \in Handles \cup {None} /\ task[q].h \in Handles \cup {None}
      /\ \A q \in Requests : (slots[q].h \in Handles \cup {None} /\ task[q].h \in Handles \cup {None})'
  BY PreparedAssumption DEF Owned, TypeOK, Slot, Task, Handles, None
<1>2. FlagsReset'
  BY DEF Drops, OnlyEnds, SlotsStay, Stays, Owned, FlagsReset
<1>3. NoDangling'
  BY <1>1 DEF Drops, OnlyEnds, SlotsStay, Stays, Owned, NoDangling, Known
<1>4. \A h \in Handles : Live(h)' => Live(h) /\ sess'[h] = sess[h]
  BY <1>1 DEF Drops, OnlyEnds, SlotsStay, Stays, Live
<1>5. ~Live(None) /\ ~Live(None)'
  BY DEF Live
<1>6. SlotBacksClaim'
  <2> SUFFICES ASSUME NEW q \in Requests, Live(slots[q].h)'
               PROVE  (/\ Settled(q) /\ slots[q].h = task[q].h
                       /\ sess[slots[q].h].claimed /\ ~sess[slots[q].h].abandoned)'
    BY DEF SlotBacksClaim
  <2>1. slots'[q].h = slots[q].h /\ slots[q].h \in Handles
    BY <1>1 DEF Drops, OnlyEnds, SlotsStay, Stays, Live
  <2>2. Live(slots[q].h) /\ sess'[slots[q].h] = sess[slots[q].h]
    BY <2>1, <1>4 DEF Live
  <2>3. /\ Settled(q) /\ slots[q].h = task[q].h
        /\ sess[slots[q].h].claimed /\ ~sess[slots[q].h].abandoned
    BY <2>2 DEF Owned, SlotBacksClaim
  <2>4. task'[q].h = task[q].h /\ Settled(q)'
    BY <2>2, <2>3 DEF Drops, OnlyEnds, SlotsStay, Stays
  <2> QED
    BY <2>1, <2>2, <2>3, <2>4
<1>7. SlotKept'
  <2> SUFFICES ASSUME NEW q \in Requests, (calls[q] = "none" /\ Settled(q) /\ Live(task[q].h))'
               PROVE  slots'[q].h = task'[q].h
    BY DEF SlotKept
  <2>1. task'[q].h = task[q].h /\ Settled(q) /\ calls[q] = "none"
    BY DEF Drops, OnlyEnds, SlotsStay, Stays
  <2>2. task[q].h \in Handles /\ Live(task[q].h) /\ sess'[task[q].h].end = "live"
    BY <1>1, <1>4, <2>1 DEF Live
  <2>3. slots[q].h = task[q].h
    BY <2>1, <2>2 DEF Owned, SlotKept
  <2> QED
    BY <1>1, <2>1, <2>2, <2>3 DEF Drops, OnlyEnds, SlotsStay, Stays
<1>8. ClaimHasOwner'
  <2> SUFFICES ASSUME NEW h \in Handles, Live(h)', sess'[h].claimed
               PROVE  (Owners(h) # {} \/ (sess[h].attached /\ sess[h].abandoned))'
    BY DEF ClaimHasOwner
  <2>1. Live(h) /\ sess'[h] = sess[h]
    BY <1>4
  <2>2. \A q \in Owners(h) : q \in Owners(h)'
    BY <1>1, <2>1 DEF Owners, Drops, SlotsStay, Live
  <2> QED
    BY <2>1, <2>2 DEF Owned, ClaimHasOwner
<1> QED
  BY <1>2, <1>3, <1>6, <1>7, <1>8 DEF Owned

\* What was promised to a request is claimed.
LEMMA PromisedIsClaimed ==
  ASSUME Owned, NEW h \in Handles, Live(h), Promised(h) # {}
  PROVE  sess[h].claimed
<1>1. PICK q \in Requests : calls[q] = "none" /\
               (slots[q].h = h \/ (task[q].h = h /\ At(q, {"told", "mine"})))
  BY DEF Promised
<1>2. slots[q].h = h
  BY <1>1 DEF Owned, SlotKept, Settled, At
<1> QED
  BY <1>2 DEF Owned, SlotBacksClaim

\* Ending what nobody plays and nobody was promised ends nothing of an owner.
LEMMA SpareOwners ==
  ASSUME Owned, NEW hs, NEW why \in Endings, sess' = Ended(hs, why),
         \A h \in hs \cap Handles : Supersedable(h)
  PROVE  OnlyEnds /\ Respects
<1>1. \A h \in Handles : sess'[h] = IF h \in hs THEN [NoSession EXCEPT !.end = why] ELSE sess[h]
  BY DEF Ended
<1>2. OnlyEnds
  BY <1>1 DEF OnlyEnds, NoSession, Endings
<1>3. \A h \in Handles : Live(h) /\ sess'[h].end # "live" => ~sess[h].attached /\ ~sess[h].claimed
  BY <1>1 DEF Supersedable, Live
<1> QED
  BY <1>2, <1>3, PromisedIsClaimed DEF Respects

\* A sweep spares owners.
LEMMA SweepSpares ==
  ASSUME Owned, NEW r, sess' = Sweep(r)
  PROVE  OnlyEnds /\ Respects
BY SpareOwners DEF Sweep, Endings

\* So does the cancel of what nobody holds.
LEMMA CancelSpares ==
  ASSUME Owned, NEW h, sess' = CancelIfUnattached(h)
  PROVE  OnlyEnds /\ Respects
BY SpareOwners DEF CancelIfUnattached, Endings

\* No change ends nothing.
LEMMA NothingEnds ==
  ASSUME Owned, sess' = sess
  PROVE  OnlyEnds /\ Respects
BY DEF OnlyEnds, Respects, Live

\* Ending one session for a reason that is no request's account.
LEMMA OneEnds ==
  ASSUME Owned, NEW h \in Handles, NEW why \in Endings \ {"superseded", "cancelled"},
         sess' = Ended({h}, why), sess[h].attached => why \in {"released", "failed"}
  PROVE  OnlyEnds /\ Respects
<1>1. \A k \in Handles : sess'[k] = IF k = h THEN [NoSession EXCEPT !.end = why] ELSE sess[k]
  BY DEF Ended
<1>2. [NoSession EXCEPT !.end = why].end = why
  BY DEF NoSession
<1>3. OnlyEnds
  BY <1>1 DEF OnlyEnds, NoSession, Endings
<1> QED
  BY <1>1, <1>2, <1>3 DEF Respects, Live

\* Pruning keeps the slots of live sessions.
LEMMA PrunedStay ==
  ASSUME Owned, NEW kept, slots' = Pruned(kept), sess' = sess
  PROVE  SlotsStay
BY DEF SlotsStay, Pruned, NoSlot, Live, Owned, TypeOK, Slot

\* A request that moves leaves the others where they are.
LEMMA OneMoves ==
  ASSUME Owned, NEW r \in Requests, Moved(r, Places), Stays(r)
  PROVE  \A q \in Requests : Stays(q)
BY DEF Moved, Stays, Settled, At

-----------------------------------------------------------------------------
(* The steps that claim nothing. *)

\* An admission prunes what is dead.
LEMMA AdmitOwned ==
  ASSUME Owned, NEW r \in Requests, Admit(r)
  PROVE  Owned' /\ Respects
<1>1. TypeOK' /\ TypeOK /\ Moved(r, {"admitted", "done"}) /\ Moved(r, Places)
  BY AdmitTyped DEF Owned, Moved, Places
<1>2. OnlyEnds /\ Respects
  BY NothingEnds DEF Admit
<1>3. SlotsStay
  BY PrunedStay DEF Admit
<1>4. Stays(r)
  <2>1. CASE r \in stones
    BY <1>1, <2>1, FinishMoves DEF Admit, Stays, Settled, At, Known, Moved, None
  <2>2. CASE r \notin stones
    <3>1. task'[r].h = task[r].h
      BY <1>1, <2>2 DEF Admit, TypeOK, Task
    <3> QED
      BY <1>1, <3>1 DEF Admit, Stays, Settled, At, Known, Moved, None
  <2> QED
    BY <2>1, <2>2
<1>5. \A q \in Requests : Stays(q)
  BY <1>1, <1>4, OneMoves
<1> QED
  BY <1>1, <1>2, <1>3, <1>5, DropsKeep DEF Drops, Admit

\* A miss leaves sessions and slots.
LEMMA AdoptMissOwned ==
  ASSUME Owned, NEW r \in Requests, AdoptMiss(r)
  PROVE  Owned' /\ Respects
<1>1. TypeOK' /\ TypeOK /\ Moved(r, {"invoking"}) /\ Moved(r, Places)
  BY AdoptMissTyped DEF Owned, Moved, Places
<1>2. OnlyEnds /\ Respects
  BY NothingEnds DEF AdoptMiss
<1>3. SlotsStay
  BY DEF AdoptMiss, SlotsStay
<1>4. Stays(r)
  BY <1>1, GotoMoves DEF AdoptMiss, Places, Stays, Settled, At, Known, Moved, None
<1>5. \A q \in Requests : Stays(q)
  BY <1>1, <1>4, OneMoves
<1> QED
  BY <1>1, <1>2, <1>3, <1>5, DropsKeep DEF Drops, AdoptMiss

\* A scan ends nothing yet.
LEMMA AdoptScanOwned ==
  ASSUME Owned, NEW r \in Requests, AdoptScan(r)
  PROVE  Owned' /\ Respects
<1>1. TypeOK' /\ TypeOK /\ Moved(r, {"adopting"}) /\ Moved(r, Places)
  BY AdoptScanTyped DEF Owned, Moved, Places
<1>2. OnlyEnds /\ Respects
  BY NothingEnds DEF AdoptScan
<1>3. SlotsStay
  BY DEF AdoptScan, SlotsStay
<1>4. Stays(r)
  <2>1. PICK h \in Reusable(task[r].src) :
          task' = [task EXCEPT ![r].pc = "adopting", ![r].h = h, ![r].doomed = Others(h)]
            /\ Known(h)
    BY DEF AdoptScan, Reusable, Known, Live, None
  <2>2. task'[r].h = h
    BY <1>1, <2>1 DEF TypeOK, Task
  <2> QED
    BY <1>1, <2>1, <2>2 DEF AdoptScan, Stays, Settled, At, Known, Moved, None, Live
<1>5. \A q \in Requests : Stays(q)
  BY <1>1, <1>4, OneMoves
<1> QED
  BY <1>1, <1>2, <1>3, <1>5, DropsKeep DEF Drops, AdoptScan

\* The sweep of an adoption looks again before it ends a session.
LEMMA AdoptSweepOwned ==
  ASSUME Owned, NEW r \in Requests, AdoptSweep(r)
  PROVE  Owned' /\ Respects
<1>1. TypeOK' /\ TypeOK /\ Moved(r, {"claiming"}) /\ Moved(r, Places)
  BY AdoptSweepTyped DEF Owned, Moved, Places
<1>2. OnlyEnds /\ Respects
  BY SweepSpares DEF AdoptSweep
<1>3. SlotsStay
  BY DEF AdoptSweep, SlotsStay
<1>4. Stays(r)
  <2>1. task'[r].h = task[r].h
    BY <1>1 DEF AdoptSweep, TypeOK, Task
  <2> QED
    BY <1>1, <2>1 DEF AdoptSweep, Stays, Settled, At, Known, Moved, None
<1>5. \A q \in Requests : Stays(q)
  BY <1>1, <1>4, OneMoves
<1> QED
  BY <1>1, <1>2, <1>3, <1>5, DropsKeep DEF Drops, AdoptSweep

\* The request leaves the window only when its session is dead.
LEMMA AdoptRecheckOwned ==
  ASSUME Owned, NEW r \in Requests, AdoptRecheck(r)
  PROVE  Owned' /\ Respects
<1>1. TypeOK' /\ TypeOK /\ Moved(r, {"telling", "done"}) /\ Moved(r, Places)
  BY AdoptRecheckTyped DEF Owned, Moved, Places
<1>2. OnlyEnds /\ Respects
  BY NothingEnds DEF AdoptRecheck
<1>3. SlotsStay
  BY <1>1 DEF AdoptRecheck, SlotsStay, TypeOK, Slot
<1>4. Stays(r)
  BY <1>1, GotoMoves, FinishMoves DEF AdoptRecheck, Places, Stays, Settled, At, Known, Moved, None
<1>5. \A q \in Requests : Stays(q)
  BY <1>1, <1>4, OneMoves
<1> QED
  BY <1>1, <1>2, <1>3, <1>5, DropsKeep DEF Drops, AdoptRecheck

\* A failed invocation owned nothing.
LEMMA ResolveFailsOwned ==
  ASSUME Owned, NEW r \in Requests, ResolveFails(r)
  PROVE  Owned' /\ Respects
<1>1. TypeOK' /\ TypeOK /\ Moved(r, {"done"}) /\ Moved(r, Places)
  BY ResolveFailsTyped DEF Owned, Moved, Places
<1>2. OnlyEnds /\ Respects
  BY NothingEnds DEF ResolveFails
<1>3. SlotsStay
  BY DEF ResolveFails, SlotsStay
<1>4. Stays(r)
  BY <1>1, FinishMoves DEF ResolveFails, Stays, Settled, At, Known, Moved, None
<1>5. \A q \in Requests : Stays(q)
  BY <1>1, <1>4, OneMoves
<1> QED
  BY <1>1, <1>2, <1>3, <1>5, DropsKeep DEF Drops, ResolveFails

\* A scan ends nothing yet.
LEMMA PrepareScanOwned ==
  ASSUME Owned, NEW r \in Requests, PrepareScan(r)
  PROVE  Owned' /\ Respects
<1>1. TypeOK' /\ TypeOK /\ Moved(r, {"preparing"}) /\ Moved(r, Places)
  BY PrepareScanTyped DEF Owned, Moved, Places
<1>2. OnlyEnds /\ Respects
  BY NothingEnds DEF PrepareScan
<1>3. SlotsStay
  BY DEF PrepareScan, SlotsStay
<1>4. Stays(r)
  <2>1. PICK h \in Handles \cup {None} :
          task' = [task EXCEPT ![r].pc = "preparing", ![r].h = h, ![r].doomed = Others(h)]
            /\ Known(h)
    BY DEF PrepareScan, Reusable, Known, Live, None
  <2>2. task'[r].h = h
    BY <1>1, <2>1 DEF TypeOK, Task
  <2> QED
    BY <1>1, <2>1, <2>2 DEF PrepareScan, Stays, Settled, At, Known, Moved, None, Live
<1>5. \A q \in Requests : Stays(q)
  BY <1>1, <1>4, OneMoves
<1> QED
  BY <1>1, <1>2, <1>3, <1>5, DropsKeep DEF Drops, PrepareScan

\* The sweep of a prepare looks again, too.
LEMMA PrepareShareOwned ==
  ASSUME Owned, NEW r \in Requests, PrepareShare(r)
  PROVE  Owned' /\ Respects
<1>1. TypeOK' /\ TypeOK /\ Moved(r, {"prepared"}) /\ Moved(r, Places)
  BY PrepareShareTyped DEF Owned, Moved, Places
<1>2. OnlyEnds /\ Respects
  BY SweepSpares DEF PrepareShare
<1>3. SlotsStay
  BY DEF PrepareShare, SlotsStay
<1>4. Stays(r)
  <2>1. task'[r].h = task[r].h
    BY <1>1 DEF PrepareShare, TypeOK, Task
  <2> QED
    BY <1>1, <2>1 DEF PrepareShare, Stays, Settled, At, Known, Moved, None
<1>5. \A q \in Requests : Stays(q)
  BY <1>1, <1>4, OneMoves
<1> QED
  BY <1>1, <1>2, <1>3, <1>5, DropsKeep DEF Drops, PrepareShare

\* So it does when no session can be made.
LEMMA PrepareFailsOwned ==
  ASSUME Owned, NEW r \in Requests, PrepareFails(r)
  PROVE  Owned' /\ Respects
<1>1. TypeOK' /\ TypeOK /\ Moved(r, {"done"}) /\ Moved(r, Places)
  BY PrepareFailsTyped DEF Owned, Moved, Places
<1>2. OnlyEnds /\ Respects
  BY SweepSpares DEF PrepareFails
<1>3. SlotsStay
  BY DEF PrepareFails, SlotsStay
<1>4. Stays(r)
  BY <1>1, FinishMoves DEF PrepareFails, Stays, Settled, At, Known, Moved, None
<1>5. \A q \in Requests : Stays(q)
  BY <1>1, <1>4, OneMoves
<1> QED
  BY <1>1, <1>2, <1>3, <1>5, DropsKeep DEF Drops, PrepareFails

\* An orphan goes unless somebody else holds it.
LEMMA StoneCheckOwned ==
  ASSUME Owned, NEW r \in Requests, StoneCheck(r)
  PROVE  Owned' /\ Respects
<1>1. TypeOK' /\ TypeOK /\ Moved(r, {"checked", "done"}) /\ Moved(r, Places)
  BY StoneCheckTyped DEF Owned, Moved, Places
<1>2. OnlyEnds /\ Respects
  BY CancelSpares, NothingEnds DEF StoneCheck
<1>3. SlotsStay
  BY DEF StoneCheck, SlotsStay
<1>4. Stays(r)
  BY <1>1, GotoMoves, FinishMoves DEF StoneCheck, Places, Stays, Settled, At, Known, Moved, None
<1>5. \A q \in Requests : Stays(q)
  BY <1>1, <1>4, OneMoves
<1> QED
  BY <1>1, <1>2, <1>3, <1>5, DropsKeep DEF Drops, StoneCheck

\* So does a session that was refused.
LEMMA RefuseOwned ==
  ASSUME Owned, NEW r \in Requests, Refuse(r)
  PROVE  Owned' /\ Respects
<1>1. TypeOK' /\ TypeOK /\ Moved(r, {"done"}) /\ Moved(r, Places)
  BY RefuseTyped DEF Owned, Moved, Places
<1>2. OnlyEnds /\ Respects
  BY CancelSpares DEF Refuse
<1>3. SlotsStay
  BY DEF Refuse, SlotsStay
<1>4. Stays(r)
  BY <1>1, FinishMoves DEF Refuse, Stays, Settled, At, Known, Moved, None
<1>5. \A q \in Requests : Stays(q)
  BY <1>1, <1>4, OneMoves
<1> QED
  BY <1>1, <1>2, <1>3, <1>5, DropsKeep DEF Drops, Refuse

\* Telling stays in the window.
LEMMA TellOwned ==
  ASSUME Owned, NEW r \in Requests, Tell(r)
  PROVE  Owned' /\ Respects
<1>1. TypeOK' /\ TypeOK /\ Moved(r, {"told"}) /\ Moved(r, Places)
  BY TellTyped DEF Owned, Moved, Places
<1>2. OnlyEnds /\ Respects
  BY NothingEnds DEF Tell
<1>3. SlotsStay
  BY DEF Tell, SlotsStay
<1>4. Stays(r)
  BY <1>1, GotoMoves DEF Tell, Places, Stays, Settled, At, Known, Moved, None
<1>5. \A q \in Requests : Stays(q)
  BY <1>1, <1>4, OneMoves
<1> QED
  BY <1>1, <1>2, <1>3, <1>5, DropsKeep DEF Drops, Tell

\* The flip marks a slot and stays.
LEMMA FlipOwned ==
  ASSUME Owned, NEW r \in Requests, Flip(r)
  PROVE  Owned' /\ Respects
<1>1. TypeOK' /\ TypeOK /\ Moved(r, {"mine"}) /\ Moved(r, Places)
  BY FlipTyped DEF Owned, Moved, Places
<1>2. OnlyEnds /\ Respects
  BY NothingEnds DEF Flip
<1>3. SlotsStay
  BY <1>1 DEF Flip, SlotsStay, TypeOK, Slot
<1>4. Stays(r)
  BY <1>1, GotoMoves DEF Flip, Places, Stays, Settled, At, Known, Moved, None
<1>5. \A q \in Requests : Stays(q)
  BY <1>1, <1>4, OneMoves
<1> QED
  BY <1>1, <1>2, <1>3, <1>5, DropsKeep DEF Drops, Flip

-----------------------------------------------------------------------------
(* The steps that claim, create, give up, attach and detach. *)

\* The claim of h for r, whose slot named nothing that counts.
LEMMA ClaimKeeps ==
  ASSUME Owned, TypeOK', NEW r \in Requests, NEW h \in Handles,
         Live(h), ~Live(slots[r].h), sess' = Claimed(h), calls' = calls,
         slots'[r].h = h,
         \A q \in Requests \ {r} :
           slots'[q].h \in {slots[q].h, None} /\ (Live(slots[q].h) => slots'[q].h = slots[q].h),
         Moved(r, {"adopted", "telling"}), task'[r].h = h
  PROVE  Owned' /\ Respects
<1>1. \A k \in Handles : sess[k] \in Session /\ k # None
  BY PreparedAssumption DEF Owned, TypeOK, Handles, None
<1>2. /\ \A k \in Handles \ {h} : sess'[k] = sess[k]
      /\ \A k \in Handles : /\ sess'[k].end = sess[k].end
                            /\ sess'[k].attached = sess[k].attached
                            /\ sess'[k].old = sess[k].old
      /\ sess'[h].claimed /\ ~sess'[h].abandoned
  BY <1>1 DEF Claimed, Session, Owned, TypeOK
<1>3. \A q \in Requests : slots[q].h \in Handles \cup {None} /\ task[q].h \in Handles \cup {None}
  BY DEF Owned, TypeOK, Slot, Task
<1>4. \A k \in Handles : Live(k)' = Live(k)
  BY <1>2 DEF Live
<1>5. ~Live(None) /\ ~Live(None)'
  BY DEF Live
<1>6. FlagsReset'
  BY <1>1, <1>2 DEF Owned, FlagsReset, Live
<1>7. NoDangling'
  BY <1>2, <1>3 DEF Owned, NoDangling, Known, Moved, Live
<1>8. SlotBacksClaim'
  <2> SUFFICES ASSUME NEW q \in Requests, Live(slots[q].h)'
               PROVE  (/\ Settled(q) /\ slots[q].h = task[q].h
                       /\ sess[slots[q].h].claimed /\ ~sess[slots[q].h].abandoned)'
    BY DEF SlotBacksClaim
  <2>1. CASE q = r
    BY <1>2, <2>1 DEF Settled, At, Moved
  <2>2. CASE q # r
    <3>1. slots'[q].h = slots[q].h /\ slots[q].h \in Handles /\ Live(slots[q].h)
      BY <1>3, <1>4, <1>5, <2>2
    <3>2. /\ Settled(q) /\ slots[q].h = task[q].h
          /\ sess[slots[q].h].claimed /\ ~sess[slots[q].h].abandoned
      BY <3>1 DEF Owned, SlotBacksClaim
    <3> QED
      BY <1>2, <2>2, <3>1, <3>2 DEF Moved, Settled, At
  <2> QED
    BY <2>1, <2>2
<1>9. SlotKept'
  <2> SUFFICES ASSUME NEW q \in Requests, q # r,
                      (calls[q] = "none" /\ Settled(q) /\ Live(task[q].h))'
               PROVE  slots'[q].h = task'[q].h
    BY DEF SlotKept
  <2>1. task'[q] = task[q] /\ Settled(q) /\ calls[q] = "none" /\ Live(task[q].h)
    BY <1>3, <1>4, <1>5 DEF Moved, Settled, At
  <2>2. slots[q].h = task[q].h
    BY <2>1 DEF Owned, SlotKept
  <2> QED
    BY <2>1, <2>2
<1>10. ClaimHasOwner'
  <2> SUFFICES ASSUME NEW k \in Handles, Live(k)', sess'[k].claimed
               PROVE  (Owners(k) # {} \/ (sess[k].attached /\ sess[k].abandoned))'
    BY DEF ClaimHasOwner
  <2>1. CASE k = h
    BY <2>1 DEF Owners
  <2>2. CASE k # h
    <3>1. Live(k) /\ sess'[k] = sess[k]
      BY <1>2, <1>4, <2>2
    <3>2. \A q \in Owners(k) : q \in Owners(k)'
      BY <3>1 DEF Owners
    <3> QED
      BY <3>1, <3>2 DEF Owned, ClaimHasOwner
  <2> QED
    BY <2>1, <2>2
<1>11. Respects
  BY <1>4 DEF Respects, Live
<1> QED
  BY <1>6, <1>7, <1>8, <1>9, <1>10, <1>11 DEF Owned

\* Both commits are such a claim or end the request.
LEMMA AdoptClaimOwned ==
  ASSUME Owned, NEW r \in Requests, AdoptClaim(r)
  PROVE  Owned' /\ Respects
<1>1. TypeOK' /\ TypeOK /\ Moved(r, {"adopted", "done"}) /\ Moved(r, Places)
  BY AdoptClaimTyped DEF Owned, Moved, Places
<1>2. CASE Live(task[r].h)
  <2>1. task[r].h \in Handles /\ ~Live(slots[r].h)
    BY <1>1, <1>2, LiveIsHandle DEF Owned, SlotBacksClaim, Settled, At, AdoptClaim
  <2>2. Moved(r, {"adopted", "telling"}) /\ task'[r].h = task[r].h
    BY <1>1, <1>2, GotoMoves DEF AdoptClaim, Places, Moved
  <2>3. /\ slots'[r].h = task[r].h
        /\ \A q \in Requests \ {r} : slots'[q] = slots[q]
    BY <1>1, <1>2 DEF AdoptClaim, TypeOK
  <2> QED
    BY <1>1, <1>2, <2>1, <2>2, <2>3, ClaimKeeps DEF AdoptClaim
<1>3. CASE ~Live(task[r].h)
  <2>1. OnlyEnds /\ Respects
    BY <1>3, NothingEnds DEF AdoptClaim
  <2>2. SlotsStay
    BY <1>3 DEF AdoptClaim, SlotsStay
  <2>3. Stays(r)
    BY <1>1, <1>3, FinishMoves DEF AdoptClaim, Stays, Settled, At, Known, Moved, None
  <2> QED
    BY <1>1, <2>1, <2>2, <2>3, OneMoves, DropsKeep DEF Drops, AdoptClaim
<1> QED
  BY <1>2, <1>3

\* The commit of a prepare, with the pruning it does.
LEMMA CommitOwned ==
  ASSUME Owned, NEW r \in Requests, Commit(r)
  PROVE  Owned' /\ Respects
<1>1. TypeOK' /\ TypeOK /\ Moved(r, {"telling", "refusing"}) /\ Moved(r, Places)
  BY CommitTyped DEF Owned, Moved, Places
<1>2. CASE Wanted(r) /\ Live(task[r].h)
  <2>1. task[r].h \in Handles /\ ~Live(slots[r].h)
    BY <1>1, <1>2, LiveIsHandle DEF Owned, SlotBacksClaim, Settled, At, Commit
  <2>2. Moved(r, {"adopted", "telling"}) /\ task'[r].h = task[r].h
    BY <1>1, <1>2, GotoMoves DEF Commit, Places, Moved
  <2>3. /\ slots'[r].h = task[r].h
        /\ \A q \in Requests \ {r} : slots'[q] = Pruned(task[r].h)[q]
    BY <1>1, <1>2, PrunedTyped DEF Commit, Slots
  <2>4. \A q \in Requests \ {r} :
          slots'[q].h \in {slots[q].h, None} /\ (Live(slots[q].h) => slots'[q].h = slots[q].h)
    BY <2>3 DEF Pruned, NoSlot
  <2> QED
    BY <1>1, <1>2, <2>1, <2>2, <2>3, <2>4, ClaimKeeps DEF Commit
<1>3. CASE ~(Wanted(r) /\ Live(task[r].h))
  <2>1. OnlyEnds /\ Respects /\ SlotsStay
    BY <1>3, NothingEnds, PrunedStay DEF Commit
  <2>2. Stays(r)
    BY <1>1, <1>3, GotoMoves DEF Commit, Places, Stays, Settled, At, Known, Moved, None
  <2> QED
    BY <1>1, <2>1, <2>2, OneMoves, DropsKeep DEF Drops, Commit
<1> QED
  BY <1>2, <1>3

\* A new session: nothing named its handle, so nothing owns it yet.
LEMMA PrepareNewOwned ==
  ASSUME Owned, NEW r \in Requests, PrepareNew(r)
  PROVE  Owned' /\ Respects
<1>1. TypeOK' /\ TypeOK /\ Moved(r, {"prepared"})
  BY PrepareNewTyped DEF Owned
<1>2. PICK h \in Handles :
        /\ sess[h].end = "none"
        /\ sess' = [Sweep(r) EXCEPT ![h].end = "live", ![h].src = task[r].src]
        /\ task' = [task EXCEPT ![r].pc = "prepared", ![r].h = h, ![r].doomed = {}]
  BY DEF PrepareNew, Unused
<1>3. /\ \A k \in Handles : k # None
      /\ \A k \in Handles : sess[k] \in Session /\ Sweep(r)[k] \in Session
      /\ \A q \in Requests : slots[q].h \in Handles \cup {None} /\ task[q].h \in Handles \cup {None}
  BY <1>1, SweepTyped, PreparedAssumption
     DEF TypeOK, Sessions, Slot, Task, Handles, None
<1>4. Sweep(r)[h] = sess[h]
  BY <1>2 DEF Sweep, Ended, Supersedable, Live
<1>5. /\ sess'[h].end = "live" /\ sess'[h].claimed = sess[h].claimed
      /\ sess'[h].attached = sess[h].attached
      /\ \A k \in Handles \ {h} : sess'[k] = Sweep(r)[k]
  BY <1>1, <1>2, <1>3, <1>4, SweepTyped DEF Session, Sessions
<1>6. \A k \in Handles \ {h} :
        \/ sess'[k] = sess[k]
        \/ /\ sess'[k] = [NoSession EXCEPT !.end = "superseded"]
           /\ Supersedable(k)
  BY <1>5 DEF Sweep, Ended
<1>7. task'[r].h = h /\ ~Settled(r) /\ ~Settled(r)'
  <2>1. task'[r].h = h
    BY <1>1, <1>2 DEF TypeOK, Task
  <2> QED
    BY <1>1, <2>1 DEF PrepareNew, Settled, At, Moved
<1>8. \A k \in Handles : Live(k)' => k = h \/ (Live(k) /\ sess'[k] = sess[k])
  BY <1>6 DEF Live, NoSession
<1>9. ~Live(None) /\ ~Live(None)'
  BY DEF Live
<1>10. \A q \in Requests : slots[q].h # h /\ task[q].h # h
  BY <1>2, <1>3 DEF Owned, NoDangling, Known
<1>11. slots' = slots /\ calls' = calls
  BY DEF PrepareNew
<1>12. FlagsReset'
  <2> SUFFICES ASSUME NEW k \in Handles
               PROVE  (/\ sess[k].end # "live" => ~sess[k].claimed /\ ~sess[k].attached
                       /\ sess[k].attached => ~sess[k].old)'
    BY DEF FlagsReset
  <2>1. CASE k = h
    BY <1>2, <1>5, <2>1 DEF Owned, FlagsReset
  <2>2. CASE k # h /\ sess'[k] = sess[k]
    BY <2>2 DEF Owned, FlagsReset
  <2>3. CASE sess'[k] = [NoSession EXCEPT !.end = "superseded"]
    BY <2>3 DEF NoSession
  <2> QED
    BY <1>6, <2>1, <2>2, <2>3
<1>13. \A k \in Handles : sess[k].end # "none" \/ k = h => sess'[k].end # "none"
  BY <1>5, <1>6 DEF NoSession
<1>14. NoDangling'
  BY <1>1, <1>3, <1>7, <1>11, <1>13 DEF Owned, NoDangling, Known, Moved
<1>15. SlotBacksClaim'
  <2> SUFFICES ASSUME NEW q \in Requests, Live(slots[q].h)'
               PROVE  (/\ Settled(q) /\ slots[q].h = task[q].h
                       /\ sess[slots[q].h].claimed /\ ~sess[slots[q].h].abandoned)'
    BY DEF SlotBacksClaim
  <2>1. slots[q].h \in Handles /\ Live(slots[q].h) /\ sess'[slots[q].h] = sess[slots[q].h]
    BY <1>3, <1>8, <1>9, <1>10, <1>11
  <2>2. /\ Settled(q) /\ slots[q].h = task[q].h
        /\ sess[slots[q].h].claimed /\ ~sess[slots[q].h].abandoned
    BY <2>1 DEF Owned, SlotBacksClaim
  <2> QED
    BY <1>1, <1>7, <1>11, <2>1, <2>2 DEF Moved, Settled, At
<1>16. SlotKept'
  <2> SUFFICES ASSUME NEW q \in Requests, (calls[q] = "none" /\ Settled(q) /\ Live(task[q].h))'
               PROVE  slots'[q].h = task'[q].h
    BY DEF SlotKept
  <2>1. task'[q] = task[q] /\ Settled(q) /\ calls[q] = "none"
    BY <1>1, <1>7, <1>11 DEF Moved, Settled, At
  <2>2. Live(task[q].h)
    BY <1>3, <1>8, <1>9, <1>10, <2>1
  <2> QED
    BY <1>11, <2>1, <2>2 DEF Owned, SlotKept
<1>17. ClaimHasOwner'
  BY <1>2, <1>5, <1>8, <1>11 DEF Owned, ClaimHasOwner, FlagsReset, Owners
<1>18. Respects
  BY <1>2, <1>5, <1>6, PromisedIsClaimed DEF Respects, Supersedable, Live
<1> QED
  BY <1>1, <1>12, <1>14, <1>15, <1>16, <1>17, <1>18 DEF Owned

\* A cancel that takes its slot: the session is touched by its last owner alone.
LEMMA CancelTakeOwned ==
  ASSUME Owned, NEW r \in Requests, CancelTake(r), slots[r].h # None
  PROVE  Owned' /\ Respects
<1>0. PICK h \in Handles : h = slots[r].h
  BY LiveIsHandle DEF Owned
<1>1. TypeOK' /\ TypeOK /\ task' = task
  BY CancelsTyped DEF Owned, Cancels
<1>2. /\ h \in Handles
      /\ \A k \in Handles : k # None /\ sess[k] \in Session
      /\ \A q \in Requests : slots[q].h \in Handles \cup {None} /\ task[q].h \in Handles \cup {None}
      /\ ~Live(None) /\ ~Live(None)'
  BY <1>1, LiveIsHandle, PreparedAssumption DEF TypeOK, Slot, Task, Handles, None, Live
<1>3. /\ \A q \in Requests \ {r} : slots'[q] = slots[q] /\ calls'[q] = calls[q]
      /\ slots'[r].h = None /\ calls'[r] = "done" /\ calls[r] # "none"
  BY <1>1 DEF CancelTake, TypeOK, NoSlot
<1>4. \A k \in Handles \ {h} : sess'[k] = sess[k]
  BY <1>0, <1>1, <1>2 DEF CancelTake, Abandon, Ended, TypeOK
<1>5. \/ sess'[h] = sess[h]
      \/ /\ LastOwner(r) /\ sess[h].attached /\ Live(h)
         /\ sess'[h] = [sess[h] EXCEPT !.abandoned = TRUE]
      \/ /\ LastOwner(r) /\ ~sess[h].attached /\ Live(h)
         /\ sess'[h] = [NoSession EXCEPT !.end = "cancelled"]
  BY <1>0, <1>1, <1>2 DEF CancelTake, Abandon, Ended, TypeOK
<1>6. /\ sess'[h].end # "none"
      /\ Live(h)' => Live(h) /\ sess'[h].claimed = sess[h].claimed
                       /\ sess'[h].attached = sess[h].attached /\ sess'[h].old = sess[h].old
      /\ Live(h)' => sess'[h] = sess[h] \/ (LastOwner(r) /\ sess'[h].attached /\ sess'[h].abandoned)
      /\ ~Live(h)' => ~sess'[h].claimed /\ ~sess'[h].attached
  <2>1. sess[h].end # "none" /\ (~Live(h) => ~sess[h].claimed /\ ~sess[h].attached)
    BY <1>0, <1>2 DEF Owned, NoDangling, Known, FlagsReset, Live
  <2>2. CASE sess'[h] = sess[h]
    BY <2>1, <2>2 DEF Live
  <2>3. CASE LastOwner(r) /\ sess[h].attached /\ Live(h)
               /\ sess'[h] = [sess[h] EXCEPT !.abandoned = TRUE]
    BY <1>2, <2>3 DEF Live, Session
  <2>4. CASE LastOwner(r) /\ ~sess[h].attached /\ Live(h)
               /\ sess'[h] = [NoSession EXCEPT !.end = "cancelled"]
    BY <2>4 DEF Live, NoSession
  <2> QED
    BY <1>5, <2>2, <2>3, <2>4
<1>7. \A q \in Requests \ {r} : LastOwner(r) => slots[q].h # h
  BY <1>0 DEF LastOwner, Owners
<1>8. LastOwner(r) \/ \E q \in Requests \ {r} : slots[q].h = h
  BY <1>0 DEF LastOwner, Owners
<1>9. \A k \in Handles : Live(k)' => Live(k)
  BY <1>4, <1>6 DEF Live
<1>10. FlagsReset'
  BY <1>4, <1>6 DEF Owned, FlagsReset, Live
<1>11. NoDangling'
  BY <1>1, <1>2, <1>3, <1>4, <1>6 DEF Owned, NoDangling, Known
<1>12. SlotBacksClaim'
  <2> SUFFICES ASSUME NEW q \in Requests, Live(slots[q].h)'
               PROVE  (/\ Settled(q) /\ slots[q].h = task[q].h
                       /\ sess[slots[q].h].claimed /\ ~sess[slots[q].h].abandoned)'
    BY DEF SlotBacksClaim
  <2>1. q # r /\ slots'[q] = slots[q] /\ slots[q].h \in Handles /\ Live(slots[q].h)
    BY <1>2, <1>3, <1>9
  <2>2. sess'[slots[q].h] = sess[slots[q].h]
    BY <1>4, <1>6, <1>7, <2>1
  <2> QED
    BY <1>1, <2>1, <2>2 DEF Owned, SlotBacksClaim, Settled, At
<1>13. SlotKept'
  <2> SUFFICES ASSUME NEW q \in Requests, (calls[q] = "none" /\ Settled(q) /\ Live(task[q].h))'
               PROVE  slots'[q].h = task'[q].h
    BY DEF SlotKept
  <2>1. q # r /\ slots'[q] = slots[q] /\ calls[q] = "none" /\ Live(task[q].h)
    BY <1>1, <1>2, <1>3, <1>9
  <2> QED
    BY <1>1, <2>1 DEF Owned, SlotKept, Settled, At
<1>14. ClaimHasOwner'
  <2> SUFFICES ASSUME NEW k \in Handles, Live(k)', sess'[k].claimed
               PROVE  (Owners(k) # {} \/ (sess[k].attached /\ sess[k].abandoned))'
    BY DEF ClaimHasOwner
  <2>1. CASE k = h
    <3>1. CASE LastOwner(r) /\ sess'[h] # sess[h]
      BY <1>6, <2>1, <3>1
    <3>2. CASE LastOwner(r) /\ sess'[h] = sess[h]
      BY <1>0, <1>1, <1>2, <1>9, <2>1, <3>2
         DEF CancelTake, Abandon, Ended, TypeOK, Session, NoSession, Live
    <3>3. CASE ~LastOwner(r)
      BY <1>0, <1>3, <1>8, <2>1, <3>3 DEF Owners
    <3> QED
      BY <3>1, <3>2, <3>3
  <2>2. CASE k # h
    <3>1. Live(k) /\ sess'[k] = sess[k]
      BY <1>4, <1>9, <2>2
    <3>2. \A q \in Owners(k) : q \in Owners(k)'
      BY <1>0, <1>3, <2>2 DEF Owners
    <3> QED
      BY <3>1, <3>2 DEF Owned, ClaimHasOwner
  <2> QED
    BY <2>1, <2>2
<1>15. Respects
  <2> SUFFICES ASSUME NEW k \in Handles, Live(k), sess'[k].end # "live"
               PROVE  ~sess[k].attached /\ Promised(k) = {}
    BY DEF Respects
  <2>1. k = h /\ LastOwner(r) /\ ~sess[k].attached
    BY <1>4, <1>5 DEF Live, Session, Owned, TypeOK
  <2>2. ASSUME NEW q \in Promised(k)
        PROVE  FALSE
    <3>1. q \in Requests /\ calls[q] = "none" /\ slots[q].h = h
      BY <1>0, <2>1 DEF Promised, Owned, SlotKept, Settled, At
    <3> QED
      BY <1>0, <1>3, <1>7, <2>1, <3>1
  <2> QED
    BY <2>1, <2>2
<1> QED
  BY <1>1, <1>10, <1>11, <1>12, <1>13, <1>14, <1>15 DEF Owned

\* The other steps of a cancel touch neither sessions nor slots.
LEMMA CancelsOwned ==
  ASSUME Owned, NEW r \in Requests, CancelLook(r) \/ Cancels(r)
  PROVE  Owned' /\ Respects
<1>1. TypeOK' /\ TypeOK /\ task' = task
  BY CancelsTyped DEF Owned
<1>2. CASE CancelTake(r) /\ slots[r].h # None
  BY <1>2, CancelTakeOwned
<1>3. CASE ~(CancelTake(r) /\ slots[r].h # None)
  <2>1. /\ sess' = sess /\ slots' = slots
        /\ \E c \in {"looked", "waiting", "woken", "missed", "done"} :
             calls' = [calls EXCEPT ![r] = c]
    BY <1>3 DEF Cancels, CancelLook, CancelWaits, CancelWakes, CancelTake, CancelStone
  <2>2. \A q \in Requests : calls'[q] = "none" => calls[q] = "none"
    BY <1>1, <2>1 DEF TypeOK
  <2>3. OnlyEnds /\ Respects /\ SlotsStay
    BY <2>1, NothingEnds DEF SlotsStay
  <2>4. \A q \in Requests : Stays(q)
    BY <1>1 DEF Stays, Settled, At
  <2> QED
    BY <1>1, <2>2, <2>3, <2>4, DropsKeep DEF Drops
<1> QED
  BY <1>2, <1>3

\* A live session whose player comes or goes, or that grows old, is still
\* claimed if a slot backs it.
LEMMA FlagsKeep ==
  ASSUME Owned, TypeOK', NEW h \in Handles, Live(h), sess'[h].end = "live",
         \A k \in Handles \ {h} : sess'[k] = sess[k],
         slots' = slots, task' = task, calls' = calls,
         sess'[h].attached => ~sess'[h].old,
         sess[h].claimed /\ ~sess[h].abandoned => sess'[h].claimed /\ ~sess'[h].abandoned,
         sess'[h].claimed /\ Owners(h) = {} =>
           sess[h].claimed /\ sess'[h].attached /\ sess'[h].abandoned
  PROVE  Owned' /\ Respects
<1>1. \A q \in Requests : slots[q].h \in Handles \cup {None} /\ task[q].h \in Handles \cup {None}
  BY DEF Owned, TypeOK, Slot, Task
<1>2. \A k \in Handles \cup {None} : Live(k)' = Live(k)
  BY DEF Live
<1>3. FlagsReset'
  BY DEF Owned, FlagsReset
<1>4. NoDangling'
  BY <1>1 DEF Owned, NoDangling, Known
<1>5. SlotBacksClaim'
  BY <1>1, <1>2 DEF Owned, SlotBacksClaim, Settled, At, Live
<1>6. SlotKept'
  BY <1>1, <1>2 DEF Owned, SlotKept, Settled, At
<1>7. ClaimHasOwner'
  BY <1>2 DEF Owned, ClaimHasOwner, Owners
<1>8. Respects
  BY <1>2 DEF Respects, Live
<1> QED
  BY <1>3, <1>4, <1>5, <1>6, <1>7, <1>8 DEF Owned

\* The players.
LEMMA PlaysOwned ==
  ASSUME Owned, NEW h \in Handles, Plays(h)
  PROVE  Owned' /\ Respects
<1>1. TypeOK' /\ TypeOK /\ task' = task
  BY PlaysTyped DEF Owned
<1>2. sess[h] \in Session /\ h # None
  BY <1>1, PreparedAssumption DEF TypeOK, Handles, None
<1>3. \A q \in Requests : Stays(q)
  BY <1>1 DEF Stays, Settled, At
<1>4. CASE Attach(h) /\ sess[h].old /\ ~sess[h].played
  <2>1. OnlyEnds /\ Respects
    BY <1>4, OneEnds DEF Attach, Endings
  <2> QED
    BY <1>1, <1>3, <1>4, <2>1, DropsKeep DEF Attach, Drops, SlotsStay
<1>5. CASE Attach(h) /\ ~(sess[h].old /\ ~sess[h].played)
  <2>1. /\ sess'[h].end = "live" /\ ~sess'[h].old
        /\ sess'[h].claimed = sess[h].claimed /\ sess'[h].abandoned = sess[h].abandoned
        /\ \A k \in Handles \ {h} : sess'[k] = sess[k]
    BY <1>1, <1>2, <1>5 DEF Attach, TypeOK, Session, Live
  <2>2. Live(h) /\ (sess[h].claimed => Owners(h) # {})
    BY <1>5 DEF Attach, Owned, ClaimHasOwner
  <2> QED
    BY <1>1, <1>2, <1>5, <2>1, <2>2, FlagsKeep DEF Attach, Session
<1>6. CASE Close(h)
  <2>1. /\ sess'[h].end = "live" /\ ~sess'[h].attached /\ ~sess'[h].abandoned
        /\ sess'[h].claimed = (sess[h].claimed /\ ~sess[h].abandoned)
        /\ \A k \in Handles \ {h} : sess'[k] = sess[k]
    BY <1>1, <1>2, <1>6 DEF Close, ClaimAfterClose, TypeOK, Session, Live
  <2>2. Live(h) /\ (sess'[h].claimed => Owners(h) # {})
    BY <1>6, <2>1 DEF Close, Owned, ClaimHasOwner
  <2> QED
    BY <1>1, <1>2, <1>6, <2>1, <2>2, FlagsKeep DEF Close
<1>7. CASE Release(h)
  <2>1. OnlyEnds /\ Respects
    BY <1>7, OneEnds DEF Release, Endings
  <2> QED
    BY <1>1, <1>3, <1>7, <2>1, DropsKeep DEF Release, Drops, SlotsStay
<1>8. CASE Forget(h)
  <2>1. OnlyEnds /\ Respects
    BY <1>8, NothingEnds DEF Forget
  <2>2. SlotsStay
    BY <1>8 DEF Forget, SlotsStay, NoSlot
  <2> QED
    BY <1>1, <1>3, <1>8, <2>1, <2>2, DropsKeep DEF Forget, Drops
<1> QED
  BY <1>4, <1>5, <1>6, <1>7, <1>8 DEF Plays

\* The clock, the reaper and the pump.
LEMMA EndsOwned ==
  ASSUME Owned, NEW h \in Handles, Ends(h)
  PROVE  Owned' /\ Respects
<1>1. TypeOK' /\ TypeOK /\ task' = task
  BY PlaysTyped DEF Owned
<1>2. sess[h] \in Session /\ h # None
  BY <1>1, PreparedAssumption DEF TypeOK, Handles, None
<1>3. \A q \in Requests : Stays(q)
  BY <1>1 DEF Stays, Settled, At
<1>4. CASE Age(h)
  <2>1. /\ sess'[h].end = "live" /\ sess'[h].attached = sess[h].attached
        /\ sess'[h].claimed = sess[h].claimed /\ sess'[h].abandoned = sess[h].abandoned
        /\ \A k \in Handles \ {h} : sess'[k] = sess[k]
    BY <1>1, <1>2, <1>4 DEF Age, TypeOK, Session, Live
  <2>2. Live(h) /\ ~sess[h].attached /\ (sess[h].claimed => Owners(h) # {})
    BY <1>4 DEF Age, Owned, ClaimHasOwner
  <2> QED
    BY <1>1, <1>2, <1>4, <2>1, <2>2, FlagsKeep DEF Age
<1>5. CASE Reap(h)
  <2>1. OnlyEnds /\ Respects
    BY <1>5, OneEnds DEF Reap, Endings, Owned, FlagsReset
  <2> QED
    BY <1>1, <1>3, <1>5, <2>1, DropsKeep DEF Reap, Drops, SlotsStay
<1>6. CASE PumpFails(h)
  <2>1. OnlyEnds /\ Respects
    BY <1>6, OneEnds DEF PumpFails, Endings
  <2> QED
    BY <1>1, <1>3, <1>6, <2>1, DropsKeep DEF PumpFails, Drops, SlotsStay
<1> QED
  BY <1>4, <1>5, <1>6 DEF Ends

-----------------------------------------------------------------------------
\* The program starts with nothing owned.
LEMMA InitOwned == Init => Owned
<1> SUFFICES ASSUME Init
             PROVE  Owned
  OBVIOUS
<1>1. TypeOK
  BY InitTyped
<1>2. FlagsReset /\ ClaimHasOwner
  BY DEF Init, FlagsReset, ClaimHasOwner, NoSession, Live
<1>3. NoDangling /\ SlotBacksClaim /\ SlotKept
  BY DEF Init, NoDangling, SlotBacksClaim, SlotKept, Known, Live, Settled, At, NoSlot, Idle, None
<1> QED
  BY <1>1, <1>2, <1>3 DEF Owned

\* Every step keeps the invariant and respects the owners.
LEMMA StepOwned == Owned /\ [Next]_vars => Owned' /\ (Respects \/ UNCHANGED vars)
<1> SUFFICES ASSUME Owned, [Next]_vars
             PROVE  Owned' /\ (Respects \/ UNCHANGED vars)
  OBVIOUS
<1>1. ASSUME NEW r \in Requests, Admit(r)
      PROVE  Owned' /\ Respects
  BY <1>1, AdmitOwned
<1>2. ASSUME NEW r \in Requests, Starts(r)
      PROVE  Owned' /\ Respects
  BY <1>2, AdoptMissOwned, AdoptScanOwned, AdoptSweepOwned, AdoptClaimOwned, AdoptRecheckOwned
     DEF Starts
<1>3. ASSUME NEW r \in Requests, Delivers(r)
      PROVE  Owned' /\ Respects
  BY <1>3, ResolveFailsOwned, PrepareScanOwned, PrepareShareOwned, PrepareNewOwned,
     PrepareFailsOwned, StoneCheckOwned, CommitOwned, RefuseOwned, TellOwned, FlipOwned
     DEF Delivers
<1>4. ASSUME NEW r \in Requests, CancelLook(r) \/ Cancels(r)
      PROVE  Owned' /\ Respects
  BY <1>4, CancelsOwned
<1>5. ASSUME NEW h \in Handles, Plays(h) \/ Ends(h)
      PROVE  Owned' /\ Respects
  BY <1>5, PlaysOwned, EndsOwned
<1>6. CASE UNCHANGED vars
  BY <1>6, StepTyped DEF vars, Owned, TypeOK, LocksHeld, At, FlagsReset, NoDangling, Known,
     SlotBacksClaim, SlotKept, Settled, Live, ClaimHasOwner, Owners
<1> QED
  BY <1>1, <1>2, <1>3, <1>4, <1>5, <1>6 DEF Next

\* No claim outlives its owners: a claimed session that lives has a slot, or a
\* player whose close drops the claim.
THEOREM ClaimsHaveOwners == Spec => []ClaimHasOwner
<1>1. Owned /\ [Next]_vars => Owned'
  BY StepOwned
<1>2. Owned => ClaimHasOwner
  BY DEF Owned
<1> QED
  BY InitOwned, <1>1, <1>2, PTL DEF Spec

\* What is played is ended by its holder or its pump alone, and what was promised
\* to a request by no other request's prepare or cancel.
THEOREM OwnersAreRespected == Spec => EndsRespectOwners
<1>1. Owned /\ [Next]_vars => Owned'
  BY StepOwned
<1>2. Owned /\ [Next]_vars => [Respects]_vars
  BY StepOwned
<1> QED
  BY InitOwned, <1>1, <1>2, PTL DEF Spec, EndsRespectOwners, Respects

-----------------------------------------------------------------------------
(* Cancels.                                                               *)

Early == {"admitted", "adopting", "claiming"}
Working == {"invoking", "preparing", "prepared", "checked"}
Late == {"adopted", "telling", "told", "mine", "done"}

Answered(r) ==
  /\ calls[r] # "none" => ~At(r, Early)
  /\ At(r, {"idle"}) /\ calls[r] = "done" => r \in stones
  /\ At(r, Working) => token[r] # "none" /\ (calls[r] # "none" => token[r] = "spent")
  /\ slots[r].h # None \/ calls[r] = "waiting" => At(r, Late)
  /\ calls[r] = "woken" => At(r, {"mine", "done"})
  /\ calls[r] \in {"missed", "done"} => slots[r].h = None
  /\ At(r, {"adopted", "telling"}) => ~slots[r].sent
  /\ Settled(r) /\ Live(task[r].h) =>
       slots[r].h = task[r].h \/ (calls[r] \in {"missed", "done"} /\ At(r, {"told", "mine"}))

AllAnswered == Owned /\ \A r \in Requests : Answered(r)

\* No session comes back from the dead.
NoRevival == \A h \in Handles : Live(h)' => Live(h) \/ sess[h].end = "none"

\* The step is another's: it leaves q where it is and takes at most a slot that
\* names a dead session.
Aside(q) ==
  /\ task'[q] = task[q] /\ calls'[q] = calls[q] /\ token'[q] = token[q]
  /\ q \in stones => q \in stones'
  /\ slots'[q] = slots[q]
       \/ (slots'[q] = NoSlot /\ (slots[q].h # None => sess'[slots[q].h].end # "live"))

\* Such a step disturbs nothing of q.
LEMMA AsideKeeps ==
  ASSUME Owned, NoRevival, NEW q \in Requests, Answered(q), Aside(q)
  PROVE  Answered(q)'
<1>1. task[q].h \in Handles \cup {None}
  BY DEF Owned, TypeOK, Task
<1>2. Live(task[q].h)' => Live(task[q].h)
  BY <1>1 DEF Owned, NoDangling, Known, NoRevival, Live, Aside
<1>3. slots'[q].h = slots[q].h \/ (slots'[q].h = None /\ sess'[slots[q].h].end # "live")
  BY DEF Aside, NoSlot
<1>4. slots'[q].sent => slots[q].sent
  BY DEF Aside, NoSlot
<1>5. (Settled(q) /\ Live(task[q].h) =>
         slots[q].h = task[q].h \/ (calls[q] \in {"missed", "done"} /\ At(q, {"told", "mine"})))'
  BY <1>2, <1>3 DEF Answered, Aside, Settled, At, Live
<1> QED
  BY <1>3, <1>4, <1>5 DEF Answered, Aside, At

\* When a request moves, the others stand aside.
LEMMA OthersKeep ==
  ASSUME AllAnswered, Owned', NoRevival, NEW r \in Requests, Answered(r)',
         \A q \in Requests \ {r} : Aside(q)
  PROVE  AllAnswered'
BY AsideKeeps DEF AllAnswered

\* A step that ends sessions, or whose new session had no name, revives none.
LEMMA EndsRevivesNone ==
  ASSUME NEW hs, NEW why \in Endings, sess' = Ended(hs, why)
  PROVE  NoRevival
BY DEF NoRevival, Ended, Live, NoSession, Endings

\* A sweep revives none.
LEMMA SweepRevivesNone ==
  ASSUME NEW r, sess' = Sweep(r)
  PROVE  NoRevival
BY EndsRevivesNone DEF Sweep, Endings

\* Nor does a cancel.
LEMMA CancelRevivesNone ==
  ASSUME NEW h, sess' = CancelIfUnattached(h)
  PROVE  NoRevival
BY EndsRevivesNone DEF CancelIfUnattached, Endings

\* Nor does a claim, which leaves endings alone.
LEMMA ClaimRevivesNone ==
  ASSUME TypeOK, NEW h \in Handles, sess' = Claimed(h)
  PROVE  NoRevival
<1>1. \A k \in Handles : sess'[k].end = sess[k].end
  BY DEF Claimed, TypeOK, Session
<1> QED
  BY <1>1 DEF NoRevival, Live

\* Nor does no change.
LEMMA NothingRevived ==
  ASSUME sess' = sess
  PROVE  NoRevival
BY DEF NoRevival, Live

-----------------------------------------------------------------------------
(* The steps of a request.                                                 *)

\* No cancel runs beside the start, so the token is live.
LEMMA AdoptMissAnswered ==
  ASSUME AllAnswered, NEW r \in Requests, AdoptMiss(r)
  PROVE  AllAnswered'
<1>1. Owned /\ TypeOK /\ Answered(r) /\ Owned' /\ Moved(r, {"invoking"})
  BY AdoptMissOwned, AdoptMissTyped DEF AllAnswered, Owned
<1>2. NoRevival
  BY NothingRevived DEF AdoptMiss
<1>3. \A q \in Requests \ {r} : Aside(q)
  BY <1>1 DEF AdoptMiss, Aside, Moved, TypeOK
<1>4. Answered(r)'
  BY <1>1 DEF AdoptMiss, TypeOK, Answered, Settled, At, Early, Working, Late, Moved
<1> QED
  BY <1>1, <1>2, <1>3, <1>4, OthersKeep

\* The scan stays in the start of the request.
LEMMA AdoptScanAnswered ==
  ASSUME AllAnswered, NEW r \in Requests, AdoptScan(r)
  PROVE  AllAnswered'
<1>1. Owned /\ TypeOK /\ Answered(r) /\ Owned' /\ Moved(r, {"adopting"})
  BY AdoptScanOwned, AdoptScanTyped DEF AllAnswered, Owned
<1>2. NoRevival
  BY NothingRevived DEF AdoptScan
<1>3. \A q \in Requests \ {r} : Aside(q)
  BY <1>1 DEF AdoptScan, Aside, Moved, TypeOK
<1>4. Answered(r)'
  BY <1>1 DEF AdoptScan, Answered, Settled, At, Early, Working, Late, Moved
<1> QED
  BY <1>1, <1>2, <1>3, <1>4, OthersKeep

\* So does the sweep.
LEMMA AdoptSweepAnswered ==
  ASSUME AllAnswered, NEW r \in Requests, AdoptSweep(r)
  PROVE  AllAnswered'
<1>1. Owned /\ TypeOK /\ Answered(r) /\ Owned' /\ Moved(r, {"claiming"})
  BY AdoptSweepOwned, AdoptSweepTyped DEF AllAnswered, Owned
<1>2. NoRevival
  BY SweepRevivesNone DEF AdoptSweep
<1>3. \A q \in Requests \ {r} : Aside(q)
  BY <1>1 DEF AdoptSweep, Aside, Moved, TypeOK
<1>4. Answered(r)'
  BY <1>1 DEF AdoptSweep, Answered, Settled, At, Early, Working, Late, Moved
<1> QED
  BY <1>1, <1>2, <1>3, <1>4, OthersKeep

\* A claim that is made there has its slot.
LEMMA AdoptClaimAnswered ==
  ASSUME AllAnswered, NEW r \in Requests, AdoptClaim(r)
  PROVE  AllAnswered'
<1>1. Owned /\ TypeOK /\ Answered(r) /\ Owned' /\ Moved(r, {"adopted", "done"})
  BY AdoptClaimOwned, AdoptClaimTyped DEF AllAnswered, Owned
<1>2. NoRevival
  BY <1>1, ClaimRevivesNone, NothingRevived, LiveIsHandle DEF AdoptClaim
<1>3. \A q \in Requests \ {r} : Aside(q)
  BY <1>1 DEF AdoptClaim, Aside, Moved, TypeOK
<1>4. Answered(r)'
  <2>1. CASE Live(task[r].h)
    <3>1. slots'[r] = [h |-> task[r].h, sent |-> FALSE]
            /\ At(r, {"adopted"})' /\ task'[r].h = task[r].h
      BY <1>1, <2>1, GotoMoves DEF AdoptClaim, TypeOK, Places, Moved, At
    <3>2. calls'[r] = "none"
      BY <1>1 DEF AdoptClaim, Answered, At, Early
    <3> QED
      BY <3>1, <3>2 DEF Answered, Settled, At, Early, Working, Late
  <2>2. CASE ~Live(task[r].h)
    BY <1>1, <2>2, FinishMoves DEF AdoptClaim, Answered, Settled, At, Early, Working, Late, Moved
  <2> QED
    BY <2>1, <2>2
<1> QED
  BY <1>1, <1>2, <1>3, <1>4, OthersKeep

\* A dead session ends the request.
LEMMA AdoptRecheckAnswered ==
  ASSUME AllAnswered, NEW r \in Requests, AdoptRecheck(r)
  PROVE  AllAnswered'
<1>1. Owned /\ TypeOK /\ Answered(r) /\ Owned' /\ Moved(r, {"telling", "done"})
  BY AdoptRecheckOwned, AdoptRecheckTyped DEF AllAnswered, Owned
<1>2. NoRevival
  BY NothingRevived DEF AdoptRecheck
<1>3. \A q \in Requests \ {r} : Aside(q)
  BY <1>1 DEF AdoptRecheck, Aside, Moved, TypeOK
<1>4. Answered(r)'
  <2>1. CASE Live(task[r].h)
    BY <1>1, <2>1, GotoMoves
       DEF AdoptRecheck, Places, Live, Answered, Settled, At, Early, Working, Late, Moved
  <2>2. CASE ~Live(task[r].h)
    <3>1. slots'[r].h = slots[r].h /\ At(r, {"done"})' /\ calls' = calls
      BY <1>1, <2>2, FinishMoves DEF AdoptRecheck, TypeOK, Slot, Moved, At
    <3> QED
      BY <1>1, <3>1 DEF AdoptRecheck, Answered, Settled, At, Early, Working, Late, Moved
  <2> QED
    BY <2>1, <2>2
<1> QED
  BY <1>1, <1>2, <1>3, <1>4, OthersKeep

\* The invocation fails without a slot.
LEMMA ResolveFailsAnswered ==
  ASSUME AllAnswered, NEW r \in Requests, ResolveFails(r)
  PROVE  AllAnswered'
<1>1. Owned /\ TypeOK /\ Answered(r) /\ Owned' /\ Moved(r, {"done"})
  BY ResolveFailsOwned, ResolveFailsTyped DEF AllAnswered, Owned
<1>2. NoRevival
  BY NothingRevived DEF ResolveFails
<1>3. \A q \in Requests \ {r} : Aside(q)
  BY <1>1 DEF ResolveFails, Aside, Moved, TypeOK
<1>4. Answered(r)'
  BY <1>1, FinishMoves DEF ResolveFails, Answered, Settled, At, Early, Working, Late, Moved
<1> QED
  BY <1>1, <1>2, <1>3, <1>4, OthersKeep

\* The token stays while the session is prepared.
LEMMA PrepareScanAnswered ==
  ASSUME AllAnswered, NEW r \in Requests, PrepareScan(r)
  PROVE  AllAnswered'
<1>1. Owned /\ TypeOK /\ Answered(r) /\ Owned' /\ Moved(r, {"preparing"})
  BY PrepareScanOwned, PrepareScanTyped DEF AllAnswered, Owned
<1>2. NoRevival
  BY NothingRevived DEF PrepareScan
<1>3. \A q \in Requests \ {r} : Aside(q)
  BY <1>1 DEF PrepareScan, Aside, Moved, TypeOK
<1>4. Answered(r)'
  BY <1>1 DEF PrepareScan, Answered, Settled, At, Early, Working, Late, Moved
<1> QED
  BY <1>1, <1>2, <1>3, <1>4, OthersKeep

\* So it does when a session is shared.
LEMMA PrepareShareAnswered ==
  ASSUME AllAnswered, NEW r \in Requests, PrepareShare(r)
  PROVE  AllAnswered'
<1>1. Owned /\ TypeOK /\ Answered(r) /\ Owned' /\ Moved(r, {"prepared"})
  BY PrepareShareOwned, PrepareShareTyped DEF AllAnswered, Owned
<1>2. NoRevival
  BY SweepRevivesNone DEF PrepareShare
<1>3. \A q \in Requests \ {r} : Aside(q)
  BY <1>1 DEF PrepareShare, Aside, Moved, TypeOK
<1>4. Answered(r)'
  BY <1>1 DEF PrepareShare, Answered, Settled, At, Early, Working, Late, Moved
<1> QED
  BY <1>1, <1>2, <1>3, <1>4, OthersKeep

\* So it does when one is made.
LEMMA PrepareNewAnswered ==
  ASSUME AllAnswered, NEW r \in Requests, PrepareNew(r)
  PROVE  AllAnswered'
<1>1. Owned /\ TypeOK /\ Answered(r) /\ Owned' /\ Moved(r, {"prepared"})
  BY PrepareNewOwned, PrepareNewTyped DEF AllAnswered, Owned
<1>2. NoRevival
  <2>1. PICK h \in Handles :
          /\ sess[h].end = "none"
          /\ sess' = [Sweep(r) EXCEPT ![h].end = "live", ![h].src = task[r].src]
    BY DEF PrepareNew, Unused
  <2>2. \A k \in Handles : k # h => sess'[k] = Sweep(r)[k]
    BY <1>1, <2>1, SweepTyped DEF Sessions
  <2> QED
    BY <2>1, <2>2 DEF NoRevival, Live, Sweep, Ended, NoSession
<1>3. \A q \in Requests \ {r} : Aside(q)
  BY <1>1 DEF PrepareNew, Aside, Moved, TypeOK
<1>4. Answered(r)'
  BY <1>1 DEF PrepareNew, Answered, Settled, At, Early, Working, Late, Moved
<1> QED
  BY <1>1, <1>2, <1>3, <1>4, OthersKeep

\* No session, no slot.
LEMMA PrepareFailsAnswered ==
  ASSUME AllAnswered, NEW r \in Requests, PrepareFails(r)
  PROVE  AllAnswered'
<1>1. Owned /\ TypeOK /\ Answered(r) /\ Owned' /\ Moved(r, {"done"})
  BY PrepareFailsOwned, PrepareFailsTyped DEF AllAnswered, Owned
<1>2. NoRevival
  BY SweepRevivesNone DEF PrepareFails
<1>3. \A q \in Requests \ {r} : Aside(q)
  BY <1>1 DEF PrepareFails, Aside, Moved, TypeOK
<1>4. Answered(r)'
  BY <1>1, FinishMoves DEF PrepareFails, Answered, Settled, At, Early, Working, Late, Moved
<1> QED
  BY <1>1, <1>2, <1>3, <1>4, OthersKeep

\* A stone ends the request before it has a slot.
LEMMA StoneCheckAnswered ==
  ASSUME AllAnswered, NEW r \in Requests, StoneCheck(r)
  PROVE  AllAnswered'
<1>1. Owned /\ TypeOK /\ Answered(r) /\ Owned' /\ Moved(r, {"checked", "done"})
  BY StoneCheckOwned, StoneCheckTyped DEF AllAnswered, Owned
<1>2. NoRevival
  BY CancelRevivesNone, NothingRevived DEF StoneCheck
<1>3. \A q \in Requests \ {r} : Aside(q)
  BY <1>1 DEF StoneCheck, Aside, Moved, TypeOK
<1>4. Answered(r)'
  BY <1>1, GotoMoves, FinishMoves
     DEF StoneCheck, Places, Answered, Settled, At, Early, Working, Late, Moved
<1> QED
  BY <1>1, <1>2, <1>3, <1>4, OthersKeep

\* A cancel that came before the commit spent the token.
LEMMA CommitAnswered ==
  ASSUME AllAnswered, NEW r \in Requests, Commit(r)
  PROVE  AllAnswered'
<1>1. Owned /\ TypeOK /\ Answered(r) /\ Owned' /\ Moved(r, {"telling", "refusing"})
  BY CommitOwned, CommitTyped DEF AllAnswered, Owned
<1>2. NoRevival
  BY <1>1, ClaimRevivesNone, NothingRevived, LiveIsHandle DEF Commit
<1>3. \A q \in Requests \ {r} : Aside(q)
  <2>1. \A q \in Requests \ {r} : slots'[q] = Pruned(task[r].h)[q]
    BY <1>1, PrunedTyped DEF Commit, Slots
  <2>2. \A q \in Requests \ {r} : slots[q].h # None /\ ~Live(slots[q].h) =>
          sess'[slots[q].h].end # "live"
    BY <1>1, <1>2 DEF NoRevival, Owned, NoDangling, Known, Live, TypeOK, Slot
  <2> QED
    BY <1>1, <2>1, <2>2 DEF Commit, Pruned, Aside, Moved
<1>4. Answered(r)'
  <2>1. CASE Wanted(r) /\ Live(task[r].h)
    <3>1. slots'[r] = [h |-> task[r].h, sent |-> FALSE]
            /\ At(r, {"telling"})' /\ task'[r].h = task[r].h
      BY <1>1, <2>1, GotoMoves, PrunedTyped DEF Commit, Slots, Places, Moved, At
    <3>2. calls'[r] = "none"
      BY <1>1, <2>1 DEF Commit, Wanted, Answered, At, Working
    <3> QED
      BY <3>1, <3>2 DEF Answered, Settled, At, Early, Working, Late
  <2>2. CASE ~(Wanted(r) /\ Live(task[r].h))
    <3>1. slots'[r].h = None
      BY <1>1, <2>2 DEF Commit, Pruned, NoSlot, Answered, At, Late
    <3>2. At(r, {"refusing"})' /\ calls' = calls
      BY <1>1, <2>2, GotoMoves DEF Commit, Places, Moved, At
    <3> QED
      BY <1>1, <3>1, <3>2 DEF Commit, Answered, Settled, At, Early, Working, Late
  <2> QED
    BY <2>1, <2>2
<1> QED
  BY <1>1, <1>2, <1>3, <1>4, OthersKeep

\* A refusal had no slot.
LEMMA RefuseAnswered ==
  ASSUME AllAnswered, NEW r \in Requests, Refuse(r)
  PROVE  AllAnswered'
<1>1. Owned /\ TypeOK /\ Answered(r) /\ Owned' /\ Moved(r, {"done"})
  BY RefuseOwned, RefuseTyped DEF AllAnswered, Owned
<1>2. NoRevival
  BY CancelRevivesNone DEF Refuse
<1>3. \A q \in Requests \ {r} : Aside(q)
  BY <1>1 DEF Refuse, Aside, Moved, TypeOK
<1>4. Answered(r)'
  BY <1>1, FinishMoves DEF Refuse, Answered, Settled, At, Early, Working, Late, Moved
<1> QED
  BY <1>1, <1>2, <1>3, <1>4, OthersKeep

\* Telling leaves a cancel where it waits.
LEMMA TellAnswered ==
  ASSUME AllAnswered, NEW r \in Requests, Tell(r)
  PROVE  AllAnswered'
<1>1. Owned /\ TypeOK /\ Answered(r) /\ Owned' /\ Moved(r, {"told"})
  BY TellOwned, TellTyped DEF AllAnswered, Owned
<1>2. NoRevival
  BY NothingRevived DEF Tell
<1>3. \A q \in Requests \ {r} : Aside(q)
  BY <1>1 DEF Tell, Aside, Moved, TypeOK
<1>4. Answered(r)'
  BY <1>1, GotoMoves DEF Tell, Places, Live, Answered, Settled, At, Early, Working, Late, Moved
<1> QED
  BY <1>1, <1>2, <1>3, <1>4, OthersKeep

\* The slot is marked when the window closes.
LEMMA FlipAnswered ==
  ASSUME AllAnswered, NEW r \in Requests, Flip(r)
  PROVE  AllAnswered'
<1>1. Owned /\ TypeOK /\ Answered(r) /\ Owned' /\ Moved(r, {"mine"})
  BY FlipOwned, FlipTyped DEF AllAnswered, Owned
<1>2. NoRevival
  BY NothingRevived DEF Flip
<1>3. \A q \in Requests \ {r} : Aside(q)
  BY <1>1 DEF Flip, Aside, Moved, TypeOK
<1>4. Answered(r)'
  <2>1. slots'[r].h = slots[r].h /\ task'[r].h = task[r].h
    BY <1>1, GotoMoves DEF Flip, Places, TypeOK, Slot
  <2> QED
    BY <1>1, <2>1 DEF Flip, Live, Answered, Settled, At, Early, Working, Late, Moved
<1> QED
  BY <1>1, <1>2, <1>3, <1>4, OthersKeep

\* The admission of a request that was cancelled before finds the stone.
LEMMA AdmitAnswered ==
  ASSUME AllAnswered, Faults = {}, NEW r \in Requests, Admit(r)
  PROVE  AllAnswered'
<1>1. Owned /\ TypeOK /\ Answered(r) /\ Owned' /\ Moved(r, {"admitted", "done"})
  BY AdmitOwned, AdmitTyped DEF AllAnswered, Owned
<1>2. NoRevival
  BY NothingRevived DEF Admit
<1>3. \A q \in Requests \ {r} : Aside(q)
  BY <1>1 DEF Admit, Aside, Moved, Pruned, Live
<1>4. Answered(r)'
  <2>1. slots'[r].h = None /\ calls' = calls /\ calls[r] \in {"none", "done"}
    BY <1>1 DEF Admit, Pruned, NoSlot, Answered, At, Late
  <2>2. r \notin stones => calls[r] = "none"
    BY <1>1, <2>1 DEF Admit, Answered, At
  <2>3. r \in stones => task'[r].pc = "done"
    BY <1>1, FinishMoves DEF Admit, Moved
  <2> QED
    BY <1>1, <2>1, <2>2, <2>3 DEF Answered, Settled, At, Early, Working, Late, Moved
<1> QED
  BY <1>1, <1>2, <1>3, <1>4, OthersKeep

-----------------------------------------------------------------------------
(* The steps of a cancel, and of everybody else.                            *)

\* Each look leaves its request what the next one needs.
LEMMA CancelsAnswered ==
  ASSUME AllAnswered, NEW r \in Requests, CancelLook(r) \/ Cancels(r)
  PROVE  AllAnswered'
<1>1. Owned /\ TypeOK /\ Answered(r) /\ Owned' /\ task' = task
  BY CancelsOwned, CancelsTyped DEF AllAnswered, Owned
<1>2. CASE CancelLook(r)
  <2>1. ~At(r, Early) /\ calls'[r] = "looked" /\ calls[r] = "none"
    BY <1>1, <1>2 DEF CancelLook, TypeOK, LocksHeld, At, Early, Requests, None
  <2>2. token[r] # "none" => token'[r] = "spent"
    BY <1>1, <1>2 DEF CancelLook, TypeOK
  <2>3. Answered(r)'
    BY <1>1, <1>2, <2>1, <2>2 DEF CancelLook, Answered, Settled, At, Live
  <2>4. \A q \in Requests \ {r} : Aside(q)
    BY <1>1, <1>2 DEF CancelLook, Aside, TypeOK
  <2> QED
    BY <1>1, <1>2, <2>3, <2>4, NothingRevived, OthersKeep DEF CancelLook
<1>3. CASE CancelWaits(r) \/ CancelWakes(r) \/ CancelStone(r)
  <2>1. /\ sess' = sess /\ slots' = slots /\ token' = token /\ stones \subseteq stones'
        /\ \A q \in Requests \ {r} : calls'[q] = calls[q]
    BY <1>1, <1>3 DEF CancelWaits, CancelWakes, CancelStone, TypeOK
  <2>2. \/ calls[r] = "looked" /\ calls'[r] = "waiting" /\ slots[r].h # None
        \/ calls[r] = "waiting" /\ calls'[r] = "woken" /\ ~InWindow(r)
        \/ calls[r] = "missed" /\ calls'[r] = "done" /\ r \in stones'
    BY <1>1, <1>3 DEF CancelWaits, CancelWakes, CancelStone, TypeOK
  <2>3. Answered(r)'
    BY <1>1, <2>1, <2>2 DEF Answered, Settled, At, Live, InWindow, Late
  <2>4. \A q \in Requests \ {r} : Aside(q)
    BY <1>1, <2>1 DEF Aside
  <2> QED
    BY <1>1, <2>1, <2>3, <2>4, NothingRevived, OthersKeep
<1>4. CASE CancelTake(r)
  <2>1. \A q \in Requests \ {r} : Aside(q)
    BY <1>1, <1>4 DEF CancelTake, Aside, TypeOK
  <2>2. CASE slots[r].h = None
    <3>1. calls'[r] = "missed" /\ calls[r] \in {"looked", "woken"} /\ sess' = sess /\ slots' = slots
      BY <1>1, <1>4, <2>2 DEF CancelTake, TypeOK
    <3>2. Answered(r)'
      BY <1>1, <1>4, <2>2, <3>1 DEF CancelTake, Answered, Settled, At, Live
    <3> QED
      BY <1>1, <2>1, <3>1, <3>2, NothingRevived, OthersKeep
  <2>3. CASE slots[r].h # None
    <3>1. calls'[r] = "done" /\ slots'[r] = NoSlot
      BY <1>1, <1>4, <2>3 DEF CancelTake, TypeOK
    <3>2. At(r, {"told", "mine", "done"})
      BY <1>1, <1>4, <2>3 DEF CancelTake, Answered, At, Late
    <3>3. Answered(r)'
      BY <1>1, <1>4, <3>1, <3>2
         DEF CancelTake, Answered, Settled, At, Early, Working, NoSlot, Late
    <3>4. NoRevival
      <4>1. slots[r].h \in Handles
        BY <1>1, <2>3, LiveIsHandle
      <4>2. \A k \in Handles : sess'[k] = sess[k] \/ sess'[k].end = sess[k].end \/ sess'[k].end # "live"
        BY <1>1, <1>4, <2>3, <4>1
           DEF CancelTake, Abandon, Ended, NoSession, TypeOK, Session
      <4> QED
        BY <4>2 DEF NoRevival, Live
    <3> QED
      BY <1>1, <2>1, <3>3, <3>4, OthersKeep
  <2> QED
    BY <2>2, <2>3
<1> QED
  BY <1>2, <1>3, <1>4 DEF Cancels

\* Players, the clock and the pumps revive nothing and take dead slots only.
LEMMA PlaysAnswered ==
  ASSUME AllAnswered, NEW h \in Handles, Plays(h) \/ Ends(h)
  PROVE  AllAnswered'
<1>1. Owned /\ TypeOK /\ Owned' /\ task' = task
  BY PlaysOwned, EndsOwned, PlaysTyped DEF AllAnswered, Owned
<1>2. \A k \in Handles : sess[k] \in Session
  BY <1>1 DEF TypeOK
<1>3. \A k \in Handles \ {h} : sess'[k] = sess[k]
  BY <1>1 DEF Plays, Ends, Attach, Close, Release, Forget, Age, Reap, PumpFails, Ended, TypeOK
<1>4. Forget(h) \/ Live(h)
  BY DEF Plays, Ends, Attach, Close, Release, Forget, Age, Reap, PumpFails
<1>5. NoRevival
  BY <1>3, <1>4 DEF NoRevival, Forget, Live
<1>6. calls' = calls /\ token' = token /\ stones' = stones
  BY DEF Plays, Ends, Attach, Close, Release, Forget, Age, Reap, PumpFails
<1>7. \A q \in Requests : slots'[q] = slots[q] \/ (slots'[q] = NoSlot /\ sess'[slots[q].h].end # "live")
  <2>1. CASE Forget(h)
    BY <2>1 DEF Forget
  <2>2. CASE ~Forget(h)
    BY <2>2 DEF Plays, Ends, Attach, Close, Release, Age, Reap, PumpFails
  <2> QED
    BY <2>1, <2>2
<1>8. \A q \in Requests : Aside(q)
  BY <1>1, <1>6, <1>7 DEF Aside
<1> QED
  BY <1>1, <1>5, <1>8, AsideKeeps DEF AllAnswered

-----------------------------------------------------------------------------
\* Nothing is cancelled at the start.
LEMMA InitAnswered == Init => AllAnswered
<1> SUFFICES ASSUME Init
             PROVE  Owned /\ \A r \in Requests : Answered(r)
  BY DEF AllAnswered
<1>1. \A r \in Requests : Answered(r)
  BY DEF Init, Answered, At, Early, Working, Late, Settled, Idle, NoSlot, None
<1> QED
  BY <1>1, InitOwned

\* Every step answers every cancel that returned.
LEMMA StepAnswered ==
  ASSUME Faults = {}
  PROVE  AllAnswered /\ [Next]_vars => AllAnswered'
<1> SUFFICES ASSUME AllAnswered, [Next]_vars
             PROVE  AllAnswered'
  OBVIOUS
<1>1. ASSUME NEW r \in Requests, Admit(r)
      PROVE  AllAnswered'
  BY <1>1, AdmitAnswered
<1>2. ASSUME NEW r \in Requests, Starts(r)
      PROVE  AllAnswered'
  BY <1>2, AdoptMissAnswered, AdoptScanAnswered, AdoptSweepAnswered, AdoptClaimAnswered,
     AdoptRecheckAnswered DEF Starts
<1>3. ASSUME NEW r \in Requests, Delivers(r)
      PROVE  AllAnswered'
  BY <1>3, ResolveFailsAnswered, PrepareScanAnswered, PrepareShareAnswered, PrepareNewAnswered,
     PrepareFailsAnswered, StoneCheckAnswered, CommitAnswered, RefuseAnswered, TellAnswered,
     FlipAnswered DEF Delivers
<1>4. ASSUME NEW r \in Requests, CancelLook(r) \/ Cancels(r)
      PROVE  AllAnswered'
  BY <1>4, CancelsAnswered
<1>5. ASSUME NEW h \in Handles, Plays(h) \/ Ends(h)
      PROVE  AllAnswered'
  BY <1>5, PlaysAnswered
<1>6. CASE UNCHANGED vars
  <2>1. Owned' /\ NoRevival
    BY <1>6, StepOwned, NothingRevived DEF vars, AllAnswered
  <2>2. \A q \in Requests : Aside(q)
    BY <1>6 DEF vars, Aside
  <2> QED
    BY <2>1, <2>2, AsideKeeps DEF AllAnswered
<1> QED
  BY <1>1, <1>2, <1>3, <1>4, <1>5, <1>6 DEF Next

\* After cancel has returned its request owns no session and no outcome of its
\* that names a live one is under way, unless the cancel overlaps the start.
THEOREM CancelsTakeEffect ==
  ASSUME Faults = {}
  PROVE  Spec => []CancelTakesEffect
<1>1. AllAnswered /\ [Next]_vars => AllAnswered'
  BY StepAnswered
<1>2. AllAnswered => CancelTakesEffect
  BY DEF AllAnswered, CancelTakesEffect, Answered, Settled, At, Early, Live
<1> QED
  BY InitAnswered, <1>1, <1>2, PTL DEF Spec
=============================================================================
