------------------------- MODULE SyncSchedulerProofs -------------------------
(***************************************************************************)
(* The invariants of SyncScheduler.                                        *)
(*                                                                         *)
(* Sound ties the two halves together: the lane holds at most one          *)
(* operation of each kind and works on its head, the view says what the    *)
(* session and the dial are, and of a peer the client knows the scheduler  *)
(* has heard the view as it is.  Given that, a wake is never lost: a round *)
(* takes the timer, and what comes while it runs stays on the track until  *)
(* the round lands.                                                        *)
(***************************************************************************)
EXTENDS SyncScheduler, FiniteSetTheorems, TLAPS

Callers == {"owned", "manual"}
Operations == [who : {"owned", "manual", "kick", "ping"},
               at : {"queued", "wire", "local"}, covers : BOOLEAN]
Tracks == [timer : {"none", "debounce", "wake"}, dirty : BOOLEAN, unseen : BOOLEAN]
States == [state : {"offline", "connecting", "open"}, error : Verdicts]
Modes == {"stand", "replace", "debounce"}

\* At most one operation of each kind, and only the head is worked on.
IsLane(o) ==
  /\ o \in Seq(Operations)
  /\ \A i, j \in DOMAIN o : o[i].who = o[j].who => i = j
  /\ \A i \in DOMAIN o :
       /\ i > 1 => o[i].at = "queued"
       /\ o[i].at = "queued" => ~o[i].covers

\* Is there an operation of w on the lane o?
Holds(o, w) == \E i \in DOMAIN o : o[i].who = w

\* What the view and the scheduler say of the session and the dial.
Connection ==
  /\ session <=> view.state = "open"
  /\ dial # {} <=> view.state = "connecting"
  /\ session \/ dial # {} => known
  /\ known => tracked /\ heard = view
  /\ owed => known
  /\ ~known /\ tracked => view.error = "terminal"
  /\ ~tracked => track = NewTrack
  /\ "forget" \notin Faults => tracked = known

Typed ==
  /\ view \in States
  /\ heard \in {Gone} \cup States
  /\ dial \subseteq Callers
  /\ track \in Tracks
  /\ known \in BOOLEAN /\ session \in BOOLEAN /\ kick \in BOOLEAN
  /\ tracked \in BOOLEAN /\ launching \in BOOLEAN /\ online \in BOOLEAN
  /\ owed \in BOOLEAN

Sound ==
  /\ Typed
  /\ IsLane(ops)
  /\ ops # <<>> \/ kick => session
  /\ Connection
  /\ Busy => track.timer = "none"

IInv ==
  /\ Sound
  /\ Faults = {} => WriteHasWake
  /\ "behind" \notin Faults => DropReconnects

-----------------------------------------------------------------------------
(* Tracks.                                                                 *)

\* schedule: a wake is armed or already there, unless a round runs or the
\* phone is offline; then the track is dirty.
LEMMA Waking ==
  ASSUME NEW t \in Tracks, NEW mode \in Modes, NEW busy \in BOOLEAN
  PROVE  /\ Wake(t, mode, busy) \in Tracks
         /\ t.timer # "none" => Wake(t, mode, busy).timer # "none"
         /\ busy => Wake(t, mode, busy).timer = t.timer /\ Wake(t, mode, busy).dirty
         /\ ~busy /\ online => Wake(t, mode, busy).timer # "none"
BY DEF Wake, Tracks, Modes

\* A dirty track that hears of the end of its round wakes.
LEMMA Following ==
  ASSUME NEW t \in Tracks
  PROVE  /\ FollowUp(t) \in Tracks
         /\ t.timer # "none" => FollowUp(t).timer # "none"
         /\ t.dirty /\ online => FollowUp(t).timer # "none"
<1>1. [t EXCEPT !.dirty = FALSE] \in Tracks /\ [t EXCEPT !.dirty = FALSE].timer = t.timer
  BY DEF Tracks
<1> QED
  BY <1>1, Waking DEF FollowUp, Modes

\* The end of a round wakes when the round is to be repeated and when
\* something came while it ran.
LEMMA Landing ==
  ASSUME NEW t \in Tracks, NEW verdict
  PROVE  /\ Landed(t, verdict) \in Tracks
         /\ t.timer # "none" => Landed(t, verdict).timer # "none"
         /\ online /\ (verdict \in {"retry", "capped"} \/ t.dirty) =>
              Landed(t, verdict).timer # "none"
<1>1. [t EXCEPT !.dirty = FALSE] \in Tracks /\ [t EXCEPT !.dirty = FALSE].timer = t.timer
  BY DEF Tracks
<1> QED
  BY <1>1, Waking, Following DEF Landed, Modes

\* onStatus leaves an armed wake armed; while a round runs it touches neither
\* the wake nor the dirty flag; a drop wakes an idle track.
LEMMA Hearing ==
  ASSUME NEW t \in Tracks, NEW prev, NEW v, NEW o, NEW busy \in BOOLEAN
  PROVE  LET h == Heard(t, prev, v, o, busy)
         IN /\ h \in Tracks
            /\ t.timer # "none" => h.timer # "none"
            /\ busy => h.timer = t.timer /\ h.dirty = t.dirty
            /\ /\ ~busy /\ online /\ v.state = "offline"
               /\ v.error = "retry" \/ (v.error = "none" /\ prev.state = "open")
               => h.timer # "none"
<1> DEFINE s == [state |-> v.state, error |-> v.error, syncing |-> o # <<>>]
           landed == t.unseen /\ ~s.syncing
           seen == [t EXCEPT !.unseen = @ /\ ~landed]
<1>1. /\ seen \in Tracks /\ seen.timer = t.timer /\ seen.dirty = t.dirty
      /\ s.state = v.state /\ s.error = v.error
  BY DEF Tracks
<1>2. Heard(t, prev, v, o, busy) = Hear(t, prev, s, busy)
  BY DEF Heard
<1>3. Hear(t, prev, s, busy) =
        IF s.state = "open" /\ ~busy
        THEN FollowUp(IF landed /\ s.error = "capped" THEN Wake(seen, "replace", FALSE) ELSE seen)
        ELSE IF /\ s.state = "offline" /\ (~busy /\ t.timer = "none")
                /\ s.error = "retry" \/ (s.error = "none" /\ prev.state = "open")
        THEN Wake(seen, "stand", FALSE)
        ELSE seen
  BY DEF Hear
<1> DEFINE up == IF landed /\ s.error = "capped" THEN Wake(seen, "replace", FALSE) ELSE seen
           woken == Wake(seen, "stand", FALSE)
           h == Heard(t, prev, v, o, busy)
<1>4. /\ woken \in Tracks
      /\ t.timer # "none" => woken.timer # "none"
      /\ online => woken.timer # "none"
  <2> HIDE DEF s, seen, landed
  <2> QED
    BY <1>1, Waking DEF Modes
<1>5. up \in Tracks /\ (t.timer # "none" => up.timer # "none")
  <2> HIDE DEF s, seen, landed
  <2> QED
    BY <1>1, Waking DEF Modes
<1>6. FollowUp(up) \in Tracks /\ (t.timer # "none" => FollowUp(up).timer # "none")
  <2> HIDE DEF up
  <2> QED
    BY <1>5, Following
<1>7. CASE v.state = "open" /\ ~busy
  <2>1. h = FollowUp(up)
    BY <1>1, <1>2, <1>3, <1>7
  <2> HIDE DEF h, up
  <2>2. /\ h \in Tracks /\ (t.timer # "none" => h.timer # "none")
        /\ ~busy /\ v.state # "offline"
    BY <2>1, <1>6, <1>7
  <2> QED
    BY <2>2 DEF h
<1>8. CASE ~(v.state = "open" /\ ~busy)
  <2>1. h = IF /\ v.state = "offline" /\ (~busy /\ t.timer = "none")
               /\ v.error = "retry" \/ (v.error = "none" /\ prev.state = "open")
            THEN woken ELSE seen
    BY <1>1, <1>2, <1>3, <1>8
  <2> HIDE DEF h, woken, seen
  <2>2. /\ h \in Tracks /\ (t.timer # "none" => h.timer # "none")
        /\ busy => h.timer = t.timer /\ h.dirty = t.dirty
        /\ /\ ~busy /\ online /\ v.state = "offline"
           /\ v.error = "retry" \/ (v.error = "none" /\ prev.state = "open")
           => h.timer # "none"
    BY <2>1, <1>1, <1>4
  <2> QED
    BY <2>2 DEF h
<1> QED
  BY <1>7, <1>8

-----------------------------------------------------------------------------
(* Lanes.                                                                  *)

\* What stands on a lane.
LEMMA OnLanes ==
  ASSUME NEW w
  PROVE  OnLane(w) # {} <=> Holds(ops, w)
BY DEF OnLane, Holds

\* A lane is short, since no kind of operation is on it twice.
LEMMA LanesAreShort ==
  ASSUME NEW o, IsLane(o)
  PROVE  Len(o) <= 4
<1> SUFFICES ASSUME Len(o) > 4 PROVE FALSE
  BY DEF IsLane
<1>1. Len(o) \in Nat /\ DOMAIN o = 1 .. Len(o)
  BY DEF IsLane
<1>2. 1 \in DOMAIN o /\ 2 \in DOMAIN o /\ 3 \in DOMAIN o /\ 4 \in DOMAIN o /\ 5 \in DOMAIN o
  BY <1>1
<1>3. \A i \in DOMAIN o : o[i].who \in {"owned", "manual", "kick", "ping"}
  <2>1. \A i \in DOMAIN o : o[i] \in Operations
    BY <1>1 DEF IsLane
  <2> QED
    BY <2>1 DEF Operations
<1>4. \A i, j \in DOMAIN o : o[i].who = o[j].who => i = j
  BY DEF IsLane
<1> QED
  BY <1>2, <1>3, <1>4

\* A new operation of a kind that is not there goes to the end.
LEMMA JoiningLane ==
  ASSUME NEW o, IsLane(o), NEW w \in {"owned", "manual", "kick", "ping"}, ~Holds(o, w)
  PROVE  /\ IsLane(Append(o, Op(w)))
         /\ Append(o, Op(w)) # <<>>
         /\ \A x : Holds(Append(o, Op(w)), x) <=> Holds(o, x) \/ x = w
         /\ \A i \in DOMAIN o : i \in DOMAIN Append(o, Op(w)) /\ Append(o, Op(w))[i] = o[i]
         /\ \E i \in DOMAIN Append(o, Op(w)) : Append(o, Op(w))[i] = Op(w)
<1> DEFINE new == Append(o, Op(w))
           n == Len(o) + 1
<1>1. Op(w) \in Operations /\ Op(w).who = w /\ Op(w).at = "queued" /\ ~Op(w).covers
  BY DEF Op, Operations
<1>2. o \in Seq(Operations) /\ Len(o) \in Nat /\ DOMAIN o = 1 .. Len(o)
  BY DEF IsLane
<1>3. /\ new \in Seq(Operations) /\ Len(new) = n /\ DOMAIN new = 1 .. n
      /\ new[n] = Op(w) /\ \A i \in DOMAIN o : new[i] = o[i]
  BY <1>1, <1>2
<1> HIDE DEF new
<1>4. n \in DOMAIN new /\ (\A i \in DOMAIN new : i = n \/ i \in DOMAIN o)
                       /\ (\A i \in DOMAIN o : i \in DOMAIN new)
  BY <1>2, <1>3
<1>5. \A i \in DOMAIN o : o[i].who # w
  BY DEF Holds
<1>6. IsLane(new)
  BY <1>1, <1>3, <1>4, <1>5 DEF IsLane
<1>7. new # <<>>
  BY <1>4
<1>8. \A x : Holds(new, x) <=> Holds(o, x) \/ x = w
  BY <1>1, <1>3, <1>4 DEF Holds
<1> QED
  BY <1>3, <1>4, <1>6, <1>7, <1>8 DEF new

\* The lane without its head.
LEMMA LeavingLane ==
  ASSUME NEW o, IsLane(o), o # <<>>
  PROVE  /\ IsLane(Tail(o))
         /\ 1 \in DOMAIN o /\ Head(o) = o[1] /\ Head(o) \in Operations
         /\ \A x : Holds(Tail(o), x) <=> Holds(o, x) /\ x # Head(o).who
         /\ \A i \in DOMAIN o : i # 1 => \E j \in DOMAIN Tail(o) : Tail(o)[j] = o[i]
<1> DEFINE new == Tail(o)
<1>1. o \in Seq(Operations) /\ Len(o) \in Nat /\ DOMAIN o = 1 .. Len(o) /\ Len(o) >= 1
  BY DEF IsLane
<1>2. 1 \in DOMAIN o /\ Head(o) = o[1] /\ Head(o) \in Operations
  BY <1>1
<1>3. /\ new \in Seq(Operations) /\ DOMAIN new = 1 .. Len(o) - 1
      /\ \A i \in DOMAIN new : new[i] = o[i + 1]
  BY <1>1
<1> HIDE DEF new
<1>4. \A i \in DOMAIN new : i + 1 \in DOMAIN o /\ i + 1 # 1 /\ i + 1 > 1
  BY <1>1, <1>3
<1>5. \A i \in DOMAIN o : i # 1 => i - 1 \in DOMAIN new /\ new[i - 1] = o[i]
  BY <1>1, <1>3
<1>6. IsLane(new)
  <2>1. \A i, j \in DOMAIN new : new[i].who = new[j].who => i = j
    <3> SUFFICES ASSUME NEW i \in DOMAIN new, NEW j \in DOMAIN new, new[i].who = new[j].who
                 PROVE  i = j
      OBVIOUS
    <3>1. i + 1 = j + 1
      BY <1>3, <1>4 DEF IsLane
    <3> QED
      BY <3>1, <1>1, <1>3
  <2>2. \A i \in DOMAIN new : new[i].at = "queued" /\ ~new[i].covers
    BY <1>3, <1>4 DEF IsLane
  <2> QED
    BY <1>3, <2>1, <2>2 DEF IsLane
<1>7. \A i \in DOMAIN o : o[i].who = o[1].who => i = 1
  BY <1>2 DEF IsLane
<1>8. \A x : Holds(new, x) <=> Holds(o, x) /\ x # Head(o).who
  BY <1>2, <1>3, <1>4, <1>5, <1>7 DEF Holds
<1> QED
  BY <1>2, <1>5, <1>6, <1>8 DEF new

\* The head of the lane moves on.
LEMMA WorkingLane ==
  ASSUME NEW o, IsLane(o), o # <<>>,
         NEW head \in Operations, head.who = o[1].who, head.at # "queued"
  PROVE  LET new == [o EXCEPT ![1] = head]
         IN /\ IsLane(new) /\ new # <<>> /\ DOMAIN new = DOMAIN o
            /\ \A x : Holds(new, x) <=> Holds(o, x)
            /\ \A i \in DOMAIN o : i # 1 => new[i] = o[i]
            /\ new[1] = head
<1> DEFINE new == [o EXCEPT ![1] = head]
<1>1. /\ 1 \in DOMAIN o /\ o[1] \in Operations /\ DOMAIN o = 1 .. Len(o) /\ Len(o) \in Nat
      /\ o \in Seq(Operations)
  BY LeavingLane DEF IsLane
<1>2. /\ DOMAIN new = DOMAIN o /\ new[1] = head /\ (\A i \in DOMAIN o : i # 1 => new[i] = o[i])
      /\ new \in Seq(Operations)
  BY <1>1
<1> HIDE DEF new
<1>3. IsLane(new)
  BY <1>1, <1>2 DEF IsLane
<1>4. new # <<>>
  BY <1>1, <1>2
<1>5. \A x : Holds(new, x) <=> Holds(o, x)
  BY <1>1, <1>2 DEF Holds
<1> QED
  BY <1>2, <1>3, <1>4, <1>5 DEF new

\* The callers of a dial join the lane, each once, in some order.
LEMMA DialOrders ==
  ASSUME NEW S, S \subseteq Callers, S # {}, NEW order \in SetToSeqs(S)
  PROVE  LET o == [i \in DOMAIN order |-> Op(order[i])]
         IN /\ IsLane(o) /\ o # <<>>
            /\ \A x : Holds(o, x) <=> x \in S
            /\ \A i \in DOMAIN o : o[i].at = "queued"
<1> DEFINE n == Cardinality(S)
           o == [i \in DOMAIN order |-> Op(order[i])]
<1>1. order \in [1 .. n -> S] /\ \A i, j \in 1 .. n : i # j => order[i] # order[j]
  BY DEF SetToSeqs
<1>2. \/ \E a : S = {a} /\ n = 1
      \/ S = Callers /\ n = 2
  <2>1. CASE S = Callers
    <3>1. Cardinality({"owned"}) = 1 /\ IsFiniteSet({"owned"})
      BY FS_Singleton
    <3>2. Cardinality({"owned"} \cup {"manual"}) = 2
      <4>1. "manual" \notin {"owned"}
        OBVIOUS
      <4>2. Cardinality({"owned"} \cup {"manual"}) = Cardinality({"owned"}) + 1
        BY <3>1, <4>1, FS_AddElement, Zenon
      <4> QED
        BY <3>1, <4>2
    <3>3. S = {"owned"} \cup {"manual"}
      BY <2>1 DEF Callers
    <3> QED
      BY <2>1, <3>2, <3>3
  <2>2. CASE S # Callers
    <3>1. PICK a \in Callers : S = {a}
      BY <2>2 DEF Callers
    <3> QED
      BY <3>1, FS_Singleton
  <2> QED
    BY <2>1, <2>2
<1>3. n \in Nat /\ DOMAIN order = 1 .. n
  BY <1>1, <1>2
<1>4. \A x \in S : \E i \in 1 .. n : order[i] = x
  <2>1. CASE \E a : S = {a} /\ n = 1
    BY <2>1, <1>1
  <2>2. CASE S = Callers /\ n = 2
    <3>1. 1 \in 1 .. n /\ 2 \in 1 .. n
      BY <2>2
    <3>2. order[1] \in Callers /\ order[2] \in Callers /\ order[1] # order[2]
      BY <1>1, <2>2, <3>1
    <3> QED
      BY <2>2, <3>1, <3>2 DEF Callers
  <2> QED
    BY <1>2, <2>1, <2>2
<1>5. n >= 1
  BY <1>2
<1> HIDE DEF n
<1>6. \A w \in Callers : /\ Op(w) \in Operations /\ Op(w).who = w
                         /\ Op(w).at = "queued" /\ ~Op(w).covers
  BY DEF Op, Operations, Callers
<1>7. /\ o \in [1 .. n -> Operations] /\ DOMAIN o = 1 .. n
      /\ \A i \in 1 .. n : o[i] = Op(order[i]) /\ order[i] \in Callers /\ order[i] \in S
  BY <1>1, <1>3, <1>6
<1> HIDE DEF o
<1>8. o \in Seq(Operations)
  BY <1>3, <1>7
<1>9. IsLane(o)
  BY <1>1, <1>6, <1>7, <1>8 DEF IsLane
<1>10. \A x : Holds(o, x) <=> x \in S
  BY <1>4, <1>6, <1>7 DEF Holds
<1>11. o # <<>>
  BY <1>3, <1>5, <1>7
<1> QED
  BY <1>6, <1>7, <1>9, <1>10, <1>11 DEF o

\* Nothing covers the operations of a lane any more.
LEMMA UncoveringLane ==
  ASSUME NEW o, IsLane(o)
  PROVE  LET new == [i \in DOMAIN o |-> [o[i] EXCEPT !.covers = FALSE]]
         IN /\ IsLane(new) /\ (new # <<>> <=> o # <<>>)
            /\ \A x : Holds(new, x) <=> Holds(o, x)
<1> DEFINE new == [i \in DOMAIN o |-> [o[i] EXCEPT !.covers = FALSE]]
<1>1. o \in Seq(Operations) /\ Len(o) \in Nat /\ DOMAIN o = 1 .. Len(o)
      /\ \A i \in DOMAIN o : o[i] \in Operations
  BY DEF IsLane
<1>2. \A i \in DOMAIN o : /\ new[i] \in Operations /\ new[i].who = o[i].who
                          /\ new[i].at = o[i].at /\ ~new[i].covers
  BY <1>1 DEF Operations
<1>3. new \in [1 .. Len(o) -> Operations] /\ DOMAIN new = DOMAIN o
  BY <1>1, <1>2
<1> HIDE DEF new
<1>4. new \in Seq(Operations)
  BY <1>1, <1>3
<1>5. IsLane(new)
  BY <1>2, <1>3, <1>4 DEF IsLane
<1>6. \A x : Holds(new, x) <=> Holds(o, x)
  BY <1>2, <1>3 DEF Holds
<1>7. new # <<>> <=> o # <<>>
  BY <1>1, <1>3, <1>4
<1> QED
  BY <1>5, <1>6, <1>7 DEF new

\* A lane of one operation, and the empty lane.
LEMMA SmallLanes ==
  /\ IsLane(<<>>) /\ (\A x : ~Holds(<<>>, x))
  /\ \A w \in {"owned", "manual", "kick", "ping"} :
       IsLane(<<Op(w)>>) /\ <<Op(w)>> # <<>> /\ \A x : Holds(<<Op(w)>>, x) <=> x = w
<1>1. IsLane(<<>>) /\ \A x : ~Holds(<<>>, x)
  BY DEF IsLane, Holds
<1>2. ASSUME NEW w \in {"owned", "manual", "kick", "ping"}
      PROVE  IsLane(<<Op(w)>>) /\ <<Op(w)>> # <<>> /\ \A x : Holds(<<Op(w)>>, x) <=> x = w
  <2> DEFINE e == <<>>
             new == Append(e, Op(w))
  <2>1. new = <<Op(w)>>
    BY DEF Op
  <2>2. IsLane(e) /\ \A x : ~Holds(e, x)
    BY <1>1
  <2> HIDE DEF e
  <2>3. IsLane(new) /\ new # <<>> /\ \A x : Holds(new, x) <=> Holds(e, x) \/ x = w
    BY <2>2, JoiningLane, Zenon
  <2> HIDE DEF new
  <2> QED
    BY <2>1, <2>2, <2>3
<1> QED
  BY <1>1, <1>2

\* What follows from the invariant at once.
LEMMA SoundFacts ==
  ASSUME Sound
  PROVE  /\ Busy \in BOOLEAN
         /\ Busy <=> "owned" \in dial \/ Holds(ops, "owned")
         /\ dial # {} => ~session /\ ops = <<>> /\ ~kick /\ known
         /\ session => dial = {} /\ known /\ view.state = "open"
         /\ ~session => ops = <<>> /\ ~kick
         /\ ~known => ~session /\ dial = {} /\ ops = <<>> /\ ~kick /\ ~Busy /\ ~owed
                       /\ view.state = "offline"
         /\ known => tracked /\ heard = view
         /\ track.timer # "none" => tracked
         /\ OwnedWaits => session /\ Head(ops).who = "owned" /\ Head(ops).at = "wire"
<1>1. /\ Busy \in BOOLEAN
      /\ Busy <=> "owned" \in dial \/ Holds(ops, "owned")
  BY OnLanes DEF Busy
<1>2. session => dial = {} /\ known /\ view.state = "open"
  BY DEF Sound, Connection
<1>3. ~session => ops = <<>> /\ ~kick
  BY DEF Sound
<1>4. ~Holds(<<>>, "owned")
  BY SmallLanes
<1>5. ~known => ~session /\ dial = {} /\ ~owed /\ view.state = "offline"
  BY DEF Sound, Connection, Typed, States
<1>6. track.timer # "none" => tracked
  BY DEF Sound, Connection, NewTrack
<1>7. OwnedWaits => session /\ Head(ops).who = "owned" /\ Head(ops).at = "wire"
  <2> SUFFICES ASSUME OwnedWaits PROVE session /\ Head(ops).who = "owned" /\ Head(ops).at = "wire"
    OBVIOUS
  <2>1. PICK i \in DOMAIN ops : ops[i].who = "owned" /\ ops[i].at = "wire"
    BY DEF OwnedWaits, OnLane
  <2>2. ops # <<>> /\ session
    BY <1>3, <2>1
  <2>3. 1 \in DOMAIN ops /\ Head(ops) = ops[1] /\ DOMAIN ops = 1 .. Len(ops) /\ Len(ops) \in Nat
    BY <2>2, LeavingLane DEF Sound, IsLane
  <2>4. i = 1
    BY <2>1, <2>3 DEF Sound, IsLane
  <2> QED
    BY <2>1, <2>2, <2>3, <2>4
<1> QED
  BY <1>1, <1>2, <1>3, <1>4, <1>5, <1>6, <1>7 DEF Sound, Connection

-----------------------------------------------------------------------------
(* The steps.                                                              *)

\* A round of the scheduler's own on the lane takes along what is owed.
Covered(o) ==
  \E i \in DOMAIN o : o[i].who = "owned" /\ (o[i].covers \/ o[i].at = "queued")

\* WriteHasWake, in the words of the proofs.
LEMMA WakeForms ==
  WriteHasWake <=>
    (owed /\ online =>
       \/ track.timer # "none" \/ launching
       \/ "owned" \in dial \/ Covered(ops)
       \/ Busy /\ track.dirty)
BY DEF WriteHasWake, OnLane, Covered

\* The same in the state a step leads to.
LEMMA NextWakeForms ==
  WriteHasWake' <=>
    (owed' /\ online' =>
       \/ track'.timer # "none" \/ launching'
       \/ "owned" \in dial' \/ Covered(ops')
       \/ Busy' /\ track'.dirty)
BY DEF WriteHasWake, OnLane, Covered

\* Whether a round of the scheduler's own is in flight there.
LEMMA NextBusy ==
  Busy' <=> "owned" \in dial' \/ Holds(ops', "owned")
BY DEF Busy, OnLane, Holds

\* syncNow keeps the invariant: a round of the scheduler's own that starts
\* takes the place of its wake, one of the user's leaves the wake alone.
LEMMA SyncNowKeeps ==
  ASSUME IInv, NEW who \in Callers, NEW t \in Tracks, SyncNow(who, t), known,
         who \notin dial, ~Holds(ops, who),
         Busy \/ who = "owned" => t.timer = "none",
         who = "owned" \/ t = track
  PROVE  IInv'
<1> DEFINE busy == Busy \/ who = "owned"
<1>1. Sound /\ who \in {"owned", "manual", "kick", "ping"}
  BY DEF IInv, Callers
<1>2. /\ heard' = view'
      /\ known' = known /\ session' = session /\ kick' = kick /\ tracked' = tracked
      /\ launching' = launching /\ online' = online /\ owed' = owed
      /\ tracked /\ busy \in BOOLEAN
  BY <1>1, SoundFacts DEF SyncNow
<1>3. CASE session
  <2>1. /\ ops' = Append(ops, Op(who))
        /\ track' = Heard(t, heard, view, ops', busy)
        /\ view' = view /\ dial' = dial
    BY <1>3 DEF SyncNow
  <2>2. /\ track' \in Tracks /\ (t.timer # "none" => track'.timer # "none")
        /\ (busy => track'.timer = t.timer /\ track'.dirty = t.dirty)
    <3> DEFINE o == ops'
    <3> HIDE DEF o, busy
    <3>1. track' = Heard(t, heard, view, o, busy)
      BY <2>1 DEF o
    <3> QED
      BY <3>1, <1>2, Hearing
  <2>3. /\ IsLane(ops') /\ (\A x : Holds(ops', x) <=> Holds(ops, x) \/ x = who)
        /\ \A i \in DOMAIN ops : i \in DOMAIN ops' /\ ops'[i] = ops[i]
        /\ \E i \in DOMAIN ops' : ops'[i] = Op(who)
    BY <2>1, <1>1, JoiningLane DEF Sound
  <2>4. Busy' <=> busy
    BY <2>1, <2>3, <1>1, SoundFacts, NextBusy
  <2>5. Sound'
    BY <1>1, <1>2, <1>3, <2>1, <2>2, <2>3, <2>4 DEF Sound, Typed, Connection
  <2>6. Covered(ops) \/ who = "owned" => Covered(ops')
    BY <2>3 DEF Covered, Op
  <2>7. WriteHasWake => WriteHasWake'
    <3>1. t = track \/ Covered(ops')
      BY <2>6
    <3> QED
      BY <1>2, <2>1, <2>2, <2>4, <2>6, <3>1, WakeForms, NextWakeForms
  <2>8. heard'.state # "offline"
    BY <1>1, <1>2, <1>3, <2>1, SoundFacts
  <2> QED
    BY <2>5, <2>7, <2>8 DEF IInv, DropReconnects
<1>4. CASE ~session
  <2>1. /\ view' = View("connecting", "none") /\ dial' = dial \cup {who} /\ ops' = ops
        /\ track' = Heard(t, heard, view', ops, busy)
    BY <1>4 DEF SyncNow
  <2>2. /\ track' \in Tracks /\ (t.timer # "none" => track'.timer # "none")
        /\ (busy => track'.timer = t.timer /\ track'.dirty = t.dirty)
    <3> DEFINE v == view'
    <3> HIDE DEF v, busy
    <3>1. track' = Heard(t, heard, v, ops, busy)
      BY <2>1 DEF v
    <3> QED
      BY <3>1, <1>2, Hearing
  <2>3. view' \in States /\ view'.state = "connecting"
    BY <2>1 DEF View, States, Verdicts
  <2>4. Busy' <=> busy
    BY <2>1, <1>1, SoundFacts, NextBusy
  <2>5. Sound'
    BY <1>1, <1>2, <1>4, <2>1, <2>2, <2>3, <2>4 DEF Sound, Typed, Connection
  <2>6. WriteHasWake => WriteHasWake'
    BY <1>2, <2>1, <2>2, <2>4 DEF WriteHasWake, OnLane
  <2> QED
    BY <1>2, <2>3, <2>5, <2>6 DEF IInv, DropReconnects
<1> QED
  BY <1>3, <1>4

\* A wake fires.
LEMMA FireKeeps ==
  ASSUME IInv, Fire
  PROVE  IInv'
<1> DEFINE t == [track EXCEPT !.timer = "none"]
<1>1. Sound /\ track.timer # "none" /\ ~Busy
  BY DEF IInv, Fire, Sound
<1>2. t \in Tracks /\ t.timer = "none"
  BY <1>1 DEF Sound, Typed, Tracks
<1>3. CASE online /\ known
  <2>1. SyncNow("owned", t)
    BY <1>1, <1>3 DEF Fire
  <2>2. "owned" \notin dial /\ ~Holds(ops, "owned") /\ "owned" \in Callers
    BY <1>1, SoundFacts DEF Callers
  <2> HIDE DEF t
  <2> QED
    BY <1>2, <1>3, <2>1, <2>2, SyncNowKeeps
<1>4. CASE ~online
  <2>1. track' = [t EXCEPT !.dirty = TRUE]
        /\ UNCHANGED <<client, tracked, heard, launching, online, owed>>
    BY <1>1, <1>4 DEF Fire
  <2>2. track' \in Tracks /\ ~Busy'
    BY <1>1, <1>2, <2>1 DEF Tracks, client, Busy, OnLane
  <2>3. Sound'
    BY <1>1, <2>1, <2>2, SoundFacts DEF Sound, Typed, Connection, client
  <2> QED
    BY <1>4, <2>1, <2>3 DEF IInv, WriteHasWake, DropReconnects
<1>5. CASE online /\ ~known
  <2>1. track' = Landed(t, "terminal")
        /\ UNCHANGED <<client, tracked, heard, launching, online, owed>>
    BY <1>1, <1>5 DEF Fire
  <2>2. track' \in Tracks
    BY <1>2, <2>1, Landing
  <2>3. ~Busy'
    BY <1>1, <2>1 DEF client, Busy, OnLane
  <2>4. Sound' /\ ~owed'
    BY <1>1, <1>5, <2>1, <2>2, <2>3, SoundFacts DEF Sound, Typed, Connection, client
  <2> QED
    BY <1>5, <2>1, <2>4 DEF IInv, WriteHasWake, DropReconnects, client
<1> QED
  BY <1>1, <1>3, <1>4, <1>5 DEF Sound, Typed

\* The user asks for a round.
LEMMA ManualKeeps ==
  ASSUME IInv, Manual
  PROVE  IInv'
<1>1. /\ SyncNow("manual", track) /\ known /\ "manual" \notin dial
      /\ ~Holds(ops, "manual") /\ "manual" \in Callers
  BY OnLanes DEF Manual, Callers
<1>2. track \in Tracks /\ (Busy \/ "manual" = "owned" => track.timer = "none")
  BY DEF IInv, Sound, Typed
<1> QED
  BY <1>1, <1>2, SyncNowKeeps

\* The dial fails.
LEMMA DialFailsKeeps ==
  ASSUME IInv, NEW verdict \in {"retry", "terminal"}, DialFails(verdict)
  PROVE  IInv'
<1> DEFINE t == Heard(track, heard, view', ops, Busy)
<1>1. /\ Sound /\ dial # {} /\ ~session /\ ops = <<>> /\ ~kick /\ known /\ tracked
      /\ Busy \in BOOLEAN /\ (Busy <=> "owned" \in dial)
  BY SoundFacts, SmallLanes DEF IInv, DialFails
<1>2. /\ view' = View("offline", verdict) /\ heard' = view' /\ dial' = {}
      /\ track' = IF "owned" \in dial THEN Landed(t, verdict) ELSE t
      /\ UNCHANGED <<session, ops, kick, tracked, launching, online>>
  BY DEF DialFails
<1>3. PICK forgotten \in BOOLEAN :
        /\ forgotten => verdict = "terminal" /\ "forget" \in Faults
        /\ known' = ~forgotten
        /\ owed' = IF forgotten THEN FALSE
                   ELSE IF "owned" \in dial THEN OwedAfter(verdict, TRUE) ELSE owed
  BY DEF DialFails
<1>4. /\ view' \in States /\ view'.state = "offline" /\ view'.error = verdict
      /\ track \in Tracks
  BY <1>1, <1>2 DEF View, States, Verdicts, Sound, Typed
<1>5. /\ t \in Tracks /\ (track.timer # "none" => t.timer # "none")
      /\ Busy => t.timer = track.timer /\ t.dirty = track.dirty
      /\ ~Busy /\ online /\ verdict = "retry" => t.timer # "none"
  <2> DEFINE v == view'
  <2>1. v.state = "offline" /\ v.error = verdict
    BY <1>4
  <2> HIDE DEF v
  <2>2. t = Heard(track, heard, v, ops, Busy)
    BY DEF v
  <2> HIDE DEF t
  <2> QED
    BY <1>1, <1>4, <2>1, <2>2, Hearing
<1> HIDE DEF t
<1>6. /\ track' \in Tracks /\ (track.timer # "none" => track'.timer # "none")
      /\ online /\ verdict = "retry" => track'.timer # "none"
  BY <1>1, <1>2, <1>5, Landing
<1>7. ~Busy'
  BY <1>1, <1>2, SmallLanes, OnLanes DEF Busy, OnLane, Holds
<1>8. owed' \in BOOLEAN /\ (owed' => owed /\ known')
      /\ (owed' /\ "owned" \in dial => verdict = "retry")
  BY <1>1, <1>3 DEF OwedAfter, Sound, Typed, Connection
<1>9. Sound'
  BY <1>1, <1>2, <1>3, <1>4, <1>6, <1>7, <1>8 DEF Sound, Typed, Connection
<1>10. WriteHasWake => WriteHasWake'
  BY <1>1, <1>2, <1>6, <1>8, SmallLanes, OnLanes DEF WriteHasWake, OnLane
<1>11. DropReconnects'
  BY <1>2, <1>4, <1>6 DEF DropReconnects
<1> QED
  BY <1>9, <1>10, <1>11 DEF IInv

\* The session opens.
LEMMA DialOpensKeeps ==
  ASSUME IInv, DialOpens
  PROVE  IInv'
<1>1. /\ Sound /\ dial # {} /\ ~session /\ ops = <<>> /\ ~kick /\ known /\ tracked
      /\ Busy \in BOOLEAN /\ (Busy <=> "owned" \in dial) /\ dial \subseteq Callers
      /\ track \in Tracks
  BY SoundFacts, SmallLanes DEF IInv, DialOpens, Sound, Typed
<1>2. /\ session' = TRUE /\ view' = View("open", "none") /\ heard' = view' /\ dial' = {}
      /\ UNCHANGED <<known, kick, tracked, launching, online, owed>>
      /\ track' = Heard(Heard(track, heard, view', <<>>, Busy), view', view', ops', Busy)
  BY DEF DialOpens
<1>3. PICK order \in SetToSeqs(dial) : ops' = [i \in DOMAIN order |-> Op(order[i])]
  BY DEF DialOpens
<1>4. /\ IsLane(ops') /\ ops' # <<>> /\ (\A x : Holds(ops', x) <=> x \in dial)
      /\ \A i \in DOMAIN ops' : ops'[i].at = "queued"
  <2> DEFINE o == [i \in DOMAIN order |-> Op(order[i])]
  <2>1. /\ IsLane(o) /\ o # <<>> /\ (\A x : Holds(o, x) <=> x \in dial)
        /\ \A i \in DOMAIN o : o[i].at = "queued"
    BY <1>1, DialOrders
  <2> HIDE DEF o
  <2>2. ops' = o
    BY <1>3 DEF o
  <2> QED
    BY <2>1, <2>2
<1>5. view' \in States /\ view'.state = "open"
  BY <1>2 DEF View, States, Verdicts
<1>6. /\ track' \in Tracks /\ (track.timer # "none" => track'.timer # "none")
      /\ Busy => track'.timer = track.timer /\ track'.dirty = track.dirty
  <2> DEFINE v == view'
             u == Heard(track, heard, v, <<>>, Busy)
             o == ops'
             w == Heard(u, v, v, o, Busy)
  <2> HIDE DEF v, o
  <2>1. /\ u \in Tracks /\ (track.timer # "none" => u.timer # "none")
        /\ Busy => u.timer = track.timer /\ u.dirty = track.dirty
    BY <1>1, Hearing
  <2> HIDE DEF u
  <2>2. /\ w \in Tracks /\ (u.timer # "none" => w.timer # "none")
        /\ Busy => w.timer = u.timer /\ w.dirty = u.dirty
    BY <1>1, <2>1, Hearing
  <2>3. track' = w
    BY <1>2 DEF u, v, o
  <2> HIDE DEF w
  <2> QED
    BY <2>1, <2>2, <2>3
<1>7. Busy' <=> Busy
  BY <1>1, <1>2, <1>4, NextBusy
<1>8. Sound'
  BY <1>1, <1>2, <1>4, <1>5, <1>6, <1>7 DEF Sound, Typed, Connection
<1>9. WriteHasWake => WriteHasWake'
  <2>2. "owned" \in dial => Covered(ops')
    BY <1>4 DEF Covered, Holds
  <2>3. ~Covered(ops)
    BY <1>1 DEF Covered
  <2> QED
    BY <1>1, <1>2, <1>6, <1>7, <2>2, <2>3, WakeForms, NextWakeForms
<1> QED
  BY <1>2, <1>5, <1>8, <1>9 DEF IInv, DropReconnects

\* The head of the lane sends a request.
LEMMA RequestKeeps ==
  ASSUME IInv, Request
  PROVE  IInv'
<1>1. Sound /\ ops # <<>> /\ session /\ IsLane(ops)
  BY SoundFacts DEF IInv, Request, Sound
<1>2. /\ ops' = [ops EXCEPT ![1].at = "wire", ![1].covers = @ \/ ops[1].who # "ping"]
      /\ kick' = (kick /\ Head(ops).who # "kick")
      /\ UNCHANGED <<known, view, session, dial, tracked, track, heard, launching, online, owed>>
  BY DEF Request
<1>3. 1 \in DOMAIN ops /\ ops[1] \in Operations
  BY <1>1, LeavingLane
<1>4. /\ IsLane(ops') /\ ops' # <<>> /\ DOMAIN ops' = DOMAIN ops
      /\ \A x : Holds(ops', x) <=> Holds(ops, x)
      /\ \A i \in DOMAIN ops : i # 1 => ops'[i] = ops[i]
      /\ ops'[1].who = ops[1].who
      /\ ops[1].who = "owned" => ops'[1].covers
  <2> DEFINE head == [ops[1] EXCEPT !.at = "wire", !.covers = @ \/ ops[1].who # "ping"]
             new == [ops EXCEPT ![1] = head]
  <2>1. /\ head \in Operations /\ head.who = ops[1].who /\ head.at # "queued"
        /\ ops[1].who = "owned" => head.covers
    BY <1>3 DEF Operations
  <2>2. ops' = new
    BY <1>2, <1>3
  <2> HIDE DEF head
  <2>3. /\ IsLane(new) /\ new # <<>> /\ DOMAIN new = DOMAIN ops
        /\ \A x : Holds(new, x) <=> Holds(ops, x)
        /\ \A i \in DOMAIN ops : i # 1 => new[i] = ops[i]
        /\ new[1] = head
    BY ZenonT(60), <1>1, <2>1, WorkingLane
  <2> HIDE DEF new
  <2> QED
    BY <2>1, <2>2, <2>3
<1>5. Busy' <=> Busy
  BY <1>1, <1>2, <1>4, SoundFacts, NextBusy
<1>6. Sound'
  BY <1>1, <1>2, <1>4, <1>5 DEF Sound, Typed, Connection
<1>7. Covered(ops) => Covered(ops')
  BY <1>4 DEF Covered
<1> QED
  BY <1>1, <1>2, <1>5, <1>6, <1>7, SoundFacts, WakeForms, NextWakeForms
     DEF IInv, DropReconnects

\* The reply of a page is applied.
LEMMA ReplyKeeps ==
  ASSUME IInv, Reply
  PROVE  IInv'
<1>1. Sound /\ ops # <<>> /\ session /\ IsLane(ops)
  BY SoundFacts DEF IInv, Reply, Sound
<1>2. /\ ops' = [ops EXCEPT ![1].at = "local"] /\ Head(ops).at = "wire"
      /\ UNCHANGED <<known, view, session, dial, kick, tracked, track, heard,
                     launching, online, owed>>
  BY DEF Reply
<1>3. 1 \in DOMAIN ops /\ ops[1] \in Operations /\ Head(ops) = ops[1]
  BY <1>1, LeavingLane
<1>4. /\ IsLane(ops') /\ ops' # <<>> /\ DOMAIN ops' = DOMAIN ops
      /\ \A x : Holds(ops', x) <=> Holds(ops, x)
      /\ \A i \in DOMAIN ops : i # 1 => ops'[i] = ops[i]
      /\ ops'[1].who = ops[1].who /\ ops'[1].covers = ops[1].covers
  <2> DEFINE head == [ops[1] EXCEPT !.at = "local"]
             new == [ops EXCEPT ![1] = head]
  <2>1. /\ head \in Operations /\ head.who = ops[1].who /\ head.at # "queued"
        /\ head.covers = ops[1].covers
    BY <1>3 DEF Operations
  <2>2. ops' = new
    BY <1>2, <1>3
  <2> HIDE DEF head
  <2>3. /\ IsLane(new) /\ new # <<>> /\ DOMAIN new = DOMAIN ops
        /\ \A x : Holds(new, x) <=> Holds(ops, x)
        /\ \A i \in DOMAIN ops : i # 1 => new[i] = ops[i]
        /\ new[1] = head
    BY <1>1, <2>1, WorkingLane
  <2> HIDE DEF new
  <2> QED
    BY <2>1, <2>2, <2>3
<1>5. Busy' <=> Busy
  BY <1>1, <1>2, <1>4, SoundFacts, NextBusy
<1>6. Sound'
  BY <1>1, <1>2, <1>4, <1>5 DEF Sound, Typed, Connection
<1>7. Covered(ops) => Covered(ops')
  BY <1>2, <1>3, <1>4 DEF Covered
<1> QED
  BY <1>1, <1>2, <1>5, <1>6, <1>7, SoundFacts, WakeForms, NextWakeForms
     DEF IInv, DropReconnects

\* The lane after its head has ended.
LEMMA DrainingLane ==
  ASSUME Sound, ops # <<>>
  PROVE  /\ IsLane(Drained)
         /\ Holds(Drained, "owned") <=> Holds(ops, "owned") /\ Head(ops).who # "owned"
         /\ \A i \in DOMAIN ops : i # 1 /\ ops[i].who = "owned" =>
              \E j \in DOMAIN Drained : Drained[j] = ops[i]
<1>1. IsLane(ops) /\ ops \in Seq(Operations) /\ DOMAIN ops = 1 .. Len(ops) /\ Len(ops) \in Nat
  BY DEF Sound, IsLane
<1>2. /\ IsLane(Tail(ops)) /\ 1 \in DOMAIN ops /\ Head(ops) = ops[1]
      /\ \A x : Holds(Tail(ops), x) <=> Holds(ops, x) /\ x # Head(ops).who
      /\ \A i \in DOMAIN ops : i # 1 => \E j \in DOMAIN Tail(ops) : Tail(ops)[j] = ops[i]
  BY <1>1, LeavingLane
<1>3. CASE kick /\ Len(ops) = 1
  <2>1. Drained = <<Op("kick")>>
    BY <1>3 DEF Drained
  <2>2. IsLane(Drained) /\ ~Holds(Drained, "owned")
    BY <2>1, SmallLanes
  <2>3. \A i \in DOMAIN ops : i = 1
    BY <1>1, <1>3
  <2> QED
    BY <1>2, <2>2, <2>3 DEF Holds
<1>4. CASE ~(kick /\ Len(ops) = 1)
  BY <1>2, <1>4 DEF Drained
<1> QED
  BY <1>3, <1>4

\* The head of the lane ends.
LEMMA FinishKeeps ==
  ASSUME IInv, NEW verdict \in {"none", "retry", "terminal", "capped"}, Finish(verdict)
  PROVE  IInv'
<1> DEFINE op == Head(ops)
           round == op.who # "ping"
           t == [track EXCEPT !.unseen = @ \/ round]
           h == Heard(t, heard, view', Drained, Busy)
<1>1. /\ Sound /\ ops # <<>> /\ session /\ IsLane(ops) /\ dial = {} /\ known /\ tracked
      /\ heard = view /\ view.state = "open" /\ Busy \in BOOLEAN
      /\ (Busy <=> Holds(ops, "owned")) /\ track \in Tracks
  BY SoundFacts DEF IInv, Finish, Sound, Typed
<1>2. /\ view' = IF round THEN View("open", verdict) ELSE view
      /\ track' = IF op.who = "owned" THEN Landed(h, verdict) ELSE h
      /\ owed' = IF verdict = "none" \/ op.who = "owned"
                 THEN OwedAfter(verdict, op.covers \/ op.at = "queued") ELSE owed
      /\ ops' = Drained /\ heard' = view'
      /\ UNCHANGED <<known, session, dial, kick, tracked, launching, online>>
  BY DEF Finish
<1>3. 1 \in DOMAIN ops /\ op = ops[1] /\ op \in Operations
  BY <1>1, LeavingLane
<1>4. view' \in States /\ view'.state = "open"
  BY <1>1, <1>2 DEF View, States, Verdicts, Sound, Typed
<1>5. t \in Tracks /\ t.timer = track.timer /\ t.dirty = track.dirty
  BY <1>1 DEF Tracks
<1>6. /\ h \in Tracks /\ (track.timer # "none" => h.timer # "none")
      /\ Busy => h.timer = track.timer /\ h.dirty = track.dirty
  <2> DEFINE v == view'
             o == Drained
  <2>1. h = Heard(t, heard, v, o, Busy)
    BY <1>2
  <2> HIDE DEF t, h, v, o
  <2> QED
    BY <1>1, <1>5, <2>1, Hearing
<1> HIDE DEF h, t
<1>7. /\ track' \in Tracks /\ (track.timer # "none" => track'.timer # "none")
      /\ op.who # "owned" => (Busy => track'.timer = track.timer /\ track'.dirty = track.dirty)
      /\ op.who = "owned" /\ online /\ (verdict \in {"retry", "capped"} \/ track.dirty)
           => track'.timer # "none"
  <2>1. op.who = "owned" => Busy
    BY <1>1, <1>3 DEF Holds
  <2> QED
    BY <1>2, <1>6, <2>1, Landing
<1>8. IsLane(ops') /\ (Busy' <=> Busy /\ op.who # "owned")
  BY <1>1, <1>2, DrainingLane, NextBusy
<1>9. owed' \in BOOLEAN /\ (owed' => owed)
      /\ (owed' /\ op.who = "owned" =>
            verdict \in {"retry", "capped"} \/ ~(op.covers \/ op.at = "queued"))
  BY <1>2 DEF OwedAfter, Sound, Typed, IInv
<1>10. Sound'
  BY <1>1, <1>2, <1>4, <1>7, <1>8, <1>9 DEF Sound, Typed, Connection
<1>11. WriteHasWake => WriteHasWake'
  <2> SUFFICES ASSUME WriteHasWake, owed', online'
               PROVE  \/ track'.timer # "none" \/ launching' \/ Covered(ops')
                      \/ Busy' /\ track'.dirty
    BY NextWakeForms
  <2>1. \/ track.timer # "none" \/ launching
        \/ Covered(ops)
        \/ Busy /\ track.dirty
    BY <1>1, <1>2, <1>9, WakeForms
  <2>2. CASE track.timer # "none" \/ launching
    BY <2>2, <1>2, <1>7
  <2>3. CASE Covered(ops)
    <3>1. PICK i \in DOMAIN ops : ops[i].who = "owned" /\ (ops[i].covers \/ ops[i].at = "queued")
      BY <2>3 DEF Covered
    <3>2. CASE i = 1
      BY <3>1, <3>2, <1>2, <1>3, <1>7, <1>9
    <3>3. CASE i # 1
      <4>1. PICK j \in DOMAIN Drained : Drained[j] = ops[i]
        BY <1>1, <3>1, <3>3, DrainingLane
      <4> QED
        BY <4>1, <3>1, <1>2 DEF Covered
    <3> QED
      BY <3>2, <3>3
  <2>4. CASE Busy /\ track.dirty
    BY <2>4, <1>2, <1>7, <1>8
  <2> QED
    BY <2>1, <2>2, <2>3, <2>4
<1> QED
  BY <1>2, <1>4, <1>10, <1>11 DEF IInv, DropReconnects

\* Keepalive.
LEMMA PingKeeps ==
  ASSUME IInv, Ping
  PROVE  IInv'
<1>1. /\ Sound /\ session /\ IsLane(ops) /\ dial = {} /\ known /\ tracked
      /\ heard = view /\ view.state = "open" /\ Busy \in BOOLEAN
      /\ (Busy <=> Holds(ops, "owned")) /\ track \in Tracks /\ ~Holds(ops, "ping")
  BY SoundFacts, OnLanes DEF IInv, Ping, Sound, Typed
<1>2. /\ ops' = Append(ops, Op("ping")) /\ heard' = view
      /\ track' = Heard(track, heard, view, ops', Busy)
      /\ UNCHANGED <<known, view, session, dial, kick, tracked, launching, online, owed>>
  BY DEF Ping
<1>3. /\ IsLane(ops') /\ (Holds(ops', "owned") <=> Holds(ops, "owned"))
      /\ \A i \in DOMAIN ops : i \in DOMAIN ops' /\ ops'[i] = ops[i]
  BY <1>1, <1>2, JoiningLane
<1>4. /\ track' \in Tracks /\ (track.timer # "none" => track'.timer # "none")
      /\ Busy => track'.timer = track.timer /\ track'.dirty = track.dirty
  <2> DEFINE o == ops'
  <2>1. track' = Heard(track, heard, view, o, Busy)
    BY <1>2
  <2> HIDE DEF o
  <2> QED
    BY <1>1, <2>1, Hearing
<1>5. Busy' <=> Busy
  BY <1>1, <1>2, <1>3, NextBusy
<1>6. Sound'
  BY <1>1, <1>2, <1>3, <1>4, <1>5 DEF Sound, Typed, Connection
<1>7. Covered(ops) => Covered(ops')
  BY <1>3 DEF Covered
<1> QED
  BY <1>1, <1>2, <1>4, <1>5, <1>6, <1>7, WakeForms, NextWakeForms DEF IInv, DropReconnects

\* The server asks for a round.
LEMMA KickedKeeps ==
  ASSUME IInv, Kicked
  PROVE  IInv'
<1>1. /\ Sound /\ session /\ IsLane(ops) /\ dial = {} /\ known /\ tracked
      /\ heard = view /\ view.state = "open" /\ Busy \in BOOLEAN
      /\ (Busy <=> Holds(ops, "owned")) /\ track \in Tracks
  BY SoundFacts, OnLanes DEF IInv, Kicked, Sound, Typed
<1>2. /\ kick' = TRUE
      /\ UNCHANGED <<known, view, session, dial, tracked, launching, online, owed>>
  BY DEF Kicked
<1>3. CASE ops = <<>>
  <2>1. ops' = <<Op("kick")>> /\ heard' = view
        /\ track' = Heard(track, heard, view, ops', Busy)
    BY <1>3 DEF Kicked
  <2>2. IsLane(ops') /\ ~Holds(ops', "owned") /\ ~Holds(ops, "owned")
    BY <1>3, <2>1, SmallLanes
  <2>3. track' \in Tracks /\ (track.timer # "none" => track'.timer # "none")
    <3> DEFINE o == ops'
    <3>1. track' = Heard(track, heard, view, o, Busy)
      BY <2>1
    <3> HIDE DEF o
    <3> QED
      BY <1>1, <3>1, Hearing
  <2>4. ~Busy /\ ~Busy'
    BY <1>1, <1>2, <2>2, NextBusy
  <2>5. Sound'
    BY <1>1, <1>2, <2>1, <2>2, <2>3, <2>4 DEF Sound, Typed, Connection
  <2>6. ~Covered(ops)
    BY <1>3 DEF Covered
  <2> QED
    BY <1>1, <1>2, <2>1, <2>3, <2>4, <2>5, <2>6, WakeForms, NextWakeForms
       DEF IInv, DropReconnects
<1>4. CASE ops # <<>>
  <2>1. UNCHANGED <<ops, track, heard>>
    BY <1>4 DEF Kicked
  <2>2. Busy' <=> Busy
    BY <1>1, <1>2, <2>1, NextBusy
  <2>3. Sound'
    BY <1>1, <1>2, <2>1, <2>2 DEF Sound, Typed, Connection
  <2> QED
    BY <1>1, <1>2, <2>1, <2>2, <2>3, WakeForms, NextWakeForms DEF IInv, DropReconnects
<1> QED
  BY <1>3, <1>4

\* The session ends.
LEMMA DroppedKeeps ==
  ASSUME IInv, NEW cause \in {"none", "retry", "terminal"}, Dropped(cause)
  PROVE  IInv'
<1> DEFINE t == Heard(track, heard, view', <<>>, Busy)
           verdict == IF ~OwnedWaits THEN "cancelled"
                      ELSE IF cause = "none" THEN "retry" ELSE cause
<1>1. /\ Sound /\ session /\ IsLane(ops) /\ dial = {} /\ known /\ tracked
      /\ heard = view /\ view.state = "open" /\ Busy \in BOOLEAN
      /\ (Busy <=> OnLane("owned") # {}) /\ track \in Tracks
  BY SoundFacts, OnLanes DEF IInv, Dropped, Sound, Typed
<1>2. /\ session' = FALSE /\ ops' = <<>> /\ kick' = FALSE
      /\ view' = View("offline", cause) /\ heard' = view'
      /\ track' = IF OnLane("owned") = {} THEN t ELSE Landed(t, verdict)
      /\ owed' = IF OwnedWaits THEN OwedAfter(verdict, Head(ops).covers) ELSE owed
      /\ UNCHANGED <<known, dial, tracked, launching, online>>
  BY DEF Dropped
<1>3. "behind" \in Faults \/ OnLane("owned") = {} \/ OwnedWaits
  BY DEF Dropped
<1>4. OwnedWaits => OnLane("owned") # {}
  BY DEF OwnedWaits
<1>5. view' \in States /\ view'.state = "offline" /\ view'.error = cause
  BY <1>2 DEF View, States, Verdicts
<1>6. /\ t \in Tracks /\ (track.timer # "none" => t.timer # "none")
      /\ Busy => t.timer = track.timer /\ t.dirty = track.dirty
      /\ ~Busy /\ online /\ cause \in {"none", "retry"} => t.timer # "none"
  <2> DEFINE v == view'
  <2>1. t = Heard(track, heard, v, <<>>, Busy) /\ v.state = "offline" /\ v.error = cause
    BY <1>5
  <2> HIDE DEF v, t
  <2> QED
    BY <1>1, <2>1, Hearing
<1>7. OwnedWaits /\ cause \in {"none", "retry"} => verdict = "retry"
  OBVIOUS
<1>8. OwnedWaits /\ cause = "terminal" => verdict = "terminal"
  OBVIOUS
<1> HIDE DEF t, verdict
<1>9. /\ track' \in Tracks /\ (track.timer # "none" => track'.timer # "none")
      /\ Busy /\ online /\ (verdict = "retry" \/ track.dirty) => track'.timer # "none"
      /\ ~Busy => track' = t
  BY <1>1, <1>2, <1>6, Landing
<1>10. ~Busy'
  BY <1>1, <1>2, NextBusy, SmallLanes
<1>11. owed' \in BOOLEAN /\ (owed' => owed)
       /\ (owed' /\ OwnedWaits => verdict # "terminal" \/ ~Head(ops).covers)
  BY <1>2 DEF OwedAfter, Sound, Typed, IInv
<1>12. Sound'
  BY <1>1, <1>2, <1>5, <1>9, <1>10, <1>11, SmallLanes DEF Sound, Typed, Connection
<1>13. Faults = {} /\ WriteHasWake => WriteHasWake'
  <2> SUFFICES ASSUME Faults = {}, WriteHasWake, owed', online'
               PROVE  track'.timer # "none" \/ launching'
    BY NextWakeForms
  <2>1. \/ track.timer # "none" \/ launching
        \/ Covered(ops)
        \/ Busy /\ track.dirty
    BY <1>1, <1>2, <1>11, WakeForms
  <2>2. CASE track.timer # "none" \/ launching
    BY <2>2, <1>2, <1>9
  <2>3. CASE Busy /\ track.dirty
    BY <2>3, <1>2, <1>9
  <2>4. CASE Covered(ops)
    <3>1. PICK i \in DOMAIN ops : ops[i].who = "owned" /\ (ops[i].covers \/ ops[i].at = "queued")
      BY <2>4 DEF Covered
    <3>2. i \in OnLane("owned") /\ OwnedWaits /\ Busy
      BY <3>1, <1>1, <1>3 DEF OnLane
    <3>3. ops # <<>> /\ Head(ops).who = "owned" /\ Head(ops).at = "wire"
      BY <3>1, <3>2, <1>1, SoundFacts
    <3>4. 1 \in DOMAIN ops /\ Head(ops) = ops[1]
      BY <1>1, <3>3, LeavingLane
    <3>5. i = 1
      BY <1>1, <3>1, <3>3, <3>4 DEF IsLane
    <3>6. Head(ops).covers
      BY <3>1, <3>3, <3>4, <3>5
    <3>7. verdict = "retry"
      BY <1>7, <1>8, <1>11, <3>2, <3>6
    <3> QED
      BY <1>2, <1>9, <3>2, <3>7
  <2> QED
    BY <2>1, <2>2, <2>3, <2>4
<1>14. "behind" \notin Faults => DropReconnects'
  <2> SUFFICES ASSUME "behind" \notin Faults, online, cause \in {"none", "retry"}
               PROVE  track'.timer # "none"
    BY <1>2, <1>5 DEF DropReconnects
  <2>1. CASE Busy
    BY <2>1, <1>1, <1>3, <1>7, <1>9
  <2>2. CASE ~Busy
    BY <2>2, <1>6, <1>9
  <2> QED
    BY <2>1, <2>2
<1> QED
  BY <1>12, <1>13, <1>14 DEF IInv

\* An emission about something else.
LEMMA RepublishedKeeps ==
  ASSUME IInv, Republished
  PROVE  IInv'
<1>1. Sound /\ track \in Tracks /\ Busy \in BOOLEAN
  BY SoundFacts DEF IInv, Sound, Typed
<1>2. /\ heard' = IF known THEN view ELSE Gone
      /\ tracked' = known
      /\ track' = IF known THEN Heard(track, heard, view, ops, Busy) ELSE NewTrack
      /\ UNCHANGED <<known, view, session, dial, ops, kick, launching, online, owed>>
  BY DEF Republished, client
<1>3. Busy' <=> Busy
  BY <1>1, <1>2, SoundFacts, NextBusy
<1>4. CASE known
  <2>1. track' = Heard(track, heard, view, ops, Busy)
    BY <1>2, <1>4
  <2>2. /\ track' \in Tracks /\ (track.timer # "none" => track'.timer # "none")
        /\ Busy => track'.timer = track.timer /\ track'.dirty = track.dirty
    BY <1>1, <2>1, Hearing
  <2>3. heard' = heard /\ tracked' = tracked
    BY <1>1, <1>2, <1>4, SoundFacts DEF Sound, Typed
  <2>4. Sound'
    BY <1>1, <1>2, <1>3, <1>4, <2>2, <2>3 DEF Sound, Typed, Connection
  <2>5. WriteHasWake => WriteHasWake'
    BY <1>2, <1>3, <2>2, WakeForms, NextWakeForms
  <2>6. DropReconnects => DropReconnects'
    BY <1>2, <1>3, <2>2, <2>3 DEF DropReconnects
  <2> QED
    BY <2>4, <2>5, <2>6 DEF IInv
<1>5. CASE ~known
  <2>1. NewTrack \in Tracks /\ Gone \in {Gone} \cup States
    BY DEF NewTrack, Tracks
  <2>2. /\ ~session /\ dial = {} /\ ops = <<>> /\ ~kick /\ ~Busy /\ ~owed
    BY <1>1, <1>5, SoundFacts
  <2>3. Sound'
    BY <1>1, <1>2, <1>3, <1>5, <2>1, <2>2 DEF Sound, Typed, Connection
  <2> QED
    BY <1>2, <1>5, <2>2, <2>3 DEF IInv, WriteHasWake, DropReconnects
<1> QED
  BY <1>4, <1>5

\* A pairing reaches the client's map.
LEMMA PairedKeeps ==
  ASSUME IInv, Paired
  PROVE  IInv'
<1> DEFINE t == IF tracked THEN track ELSE Wake(NewTrack, "debounce", FALSE)
<1>1. /\ Sound /\ ~known /\ ~session /\ dial = {} /\ ops = <<>> /\ ~kick /\ ~Busy /\ ~owed
      /\ view.state = "offline" /\ track \in Tracks /\ view \in States
  BY SoundFacts DEF IInv, Paired, Sound, Typed
<1>2. /\ known' = TRUE /\ session' \in BOOLEAN
      /\ view' = IF session' THEN View("open", "none") ELSE view
      /\ heard' = view' /\ tracked' = TRUE /\ owed' = TRUE
      /\ track' = Heard(t, heard, view', <<>>, FALSE)
      /\ UNCHANGED <<dial, ops, kick, launching, online>>
  BY DEF Paired
<1>3. t \in Tracks /\ (~tracked /\ online => t.timer # "none")
  <2>1. NewTrack \in Tracks
    BY DEF NewTrack, Tracks
  <2> QED
    BY <1>1, <2>1, Waking DEF Modes
<1> HIDE DEF t
<1>4. track' \in Tracks /\ (t.timer # "none" => track'.timer # "none")
  <2> DEFINE v == view'
  <2>1. track' = Heard(t, heard, v, <<>>, FALSE)
    BY <1>2
  <2> HIDE DEF v
  <2> QED
    BY <1>3, <2>1, Hearing
<1>5. ~Busy'
  BY <1>1, <1>2, NextBusy, SmallLanes
<1>6. view' \in States /\ (session' <=> view'.state = "open") /\ view'.state # "connecting"
      /\ (~session' => view' = view)
  BY <1>1, <1>2 DEF View, States, Verdicts
<1>7. Sound'
  BY <1>1, <1>2, <1>4, <1>5, <1>6 DEF Sound, Typed, Connection
<1>8. Faults = {} => WriteHasWake'
  <2>1. Faults = {} => ~tracked
    BY <1>1 DEF Sound, Connection
  <2> QED
    BY <1>2, <1>3, <1>4, <2>1, NextWakeForms
<1>9. DropReconnects'
  <2> SUFFICES ASSUME online, view'.state = "offline", view'.error # "terminal"
               PROVE  track'.timer # "none"
    BY <1>2 DEF DropReconnects
  <2>1. ~tracked
    BY <1>1, <1>6 DEF Sound, Connection
  <2> QED
    BY <2>1, <1>3, <1>4
<1> QED
  BY <1>7, <1>8, <1>9 DEF IInv

\* The pairing goes.
LEMMA UnpairedKeeps ==
  ASSUME IInv, Unpaired
  PROVE  IInv'
<1>1. Sound
  BY DEF IInv
<1>2. /\ known' = FALSE /\ view' = Silent /\ session' = FALSE /\ dial' = {}
      /\ ops' = <<>> /\ kick' = FALSE
      /\ tracked' = FALSE /\ track' = NewTrack /\ heard' = Gone /\ owed' = FALSE
      /\ UNCHANGED <<launching, online>>
  BY DEF Unpaired
<1>3. Silent \in States /\ Silent.state = "offline" /\ NewTrack \in Tracks
  BY DEF Silent, View, States, Verdicts, NewTrack, Tracks
<1>4. ~Busy'
  BY <1>2, NextBusy, SmallLanes
<1>5. Sound'
  BY <1>1, <1>2, <1>3, <1>4, SmallLanes DEF Sound, Typed, Connection
<1> QED
  BY <1>2, <1>5 DEF IInv, WriteHasWake, DropReconnects

\* The fan-out at launch.
LEMMA LaunchKeeps ==
  ASSUME IInv, Launch
  PROVE  IInv'
<1> DEFINE mode == IF track.timer = "debounce" THEN "replace" ELSE "stand"
<1>1. Sound /\ track \in Tracks /\ Busy \in BOOLEAN
  BY SoundFacts DEF IInv, Sound, Typed
<1>2. /\ launching' = FALSE
      /\ track' = IF known THEN Wake(track, mode, Busy) ELSE track
      /\ UNCHANGED <<known, view, session, dial, ops, kick, tracked, heard, online, owed>>
  BY DEF Launch, client
<1>3. mode \in Modes
  BY DEF Modes
<1> HIDE DEF mode
<1>4. /\ track' \in Tracks /\ (track.timer # "none" => track'.timer # "none")
      /\ known /\ Busy => track'.timer = track.timer /\ track'.dirty
      /\ known /\ ~Busy /\ online => track'.timer # "none"
  BY <1>1, <1>2, <1>3, Waking
<1>5. Busy' <=> Busy
  BY <1>1, <1>2, SoundFacts, NextBusy
<1>6. ~known => track' = track /\ ~Busy /\ ~owed
  BY <1>1, <1>2, SoundFacts
<1>7. Sound'
  BY <1>1, <1>2, <1>4, <1>5, <1>6 DEF Sound, Typed, Connection
<1>8. WriteHasWake'
  BY <1>2, <1>4, <1>5, <1>6, NextWakeForms
<1>9. DropReconnects'
  BY <1>2, <1>4, <1>5 DEF DropReconnects
<1> QED
  BY <1>7, <1>8, <1>9 DEF IInv

\* A write is committed.
LEMMA LocalWriteKeeps ==
  ASSUME IInv, LocalWrite
  PROVE  IInv'
<1>1. Sound /\ track \in Tracks /\ Busy \in BOOLEAN /\ tracked /\ IsLane(ops)
  BY SoundFacts DEF IInv, Sound, Typed, LocalWrite
<1>2. /\ owed' = known
      /\ ops' = [i \in DOMAIN ops |-> [ops[i] EXCEPT !.covers = FALSE]]
      /\ track' = Wake(track, "debounce", Busy)
      /\ UNCHANGED <<known, view, session, dial, kick, tracked, heard, launching, online>>
  BY DEF LocalWrite
<1>3. /\ IsLane(ops') /\ (ops' # <<>> <=> ops # <<>>)
      /\ Holds(ops', "owned") <=> Holds(ops, "owned")
  <2> DEFINE new == [i \in DOMAIN ops |-> [ops[i] EXCEPT !.covers = FALSE]]
  <2>1. /\ IsLane(new) /\ (new # <<>> <=> ops # <<>>)
        /\ \A x : Holds(new, x) <=> Holds(ops, x)
    BY <1>1, UncoveringLane
  <2>2. ops' = new
    BY <1>2
  <2> HIDE DEF new
  <2> QED
    BY <2>1, <2>2
<1>4. /\ track' \in Tracks /\ (track.timer # "none" => track'.timer # "none")
      /\ Busy => track'.timer = track.timer /\ track'.dirty
      /\ ~Busy /\ online => track'.timer # "none"
  BY <1>1, <1>2, Waking DEF Modes
<1>5. Busy' <=> Busy
  BY <1>1, <1>2, <1>3, SoundFacts, NextBusy
<1>6. Sound'
  BY <1>1, <1>2, <1>3, <1>4, <1>5 DEF Sound, Typed, Connection
<1>7. WriteHasWake'
  BY <1>2, <1>4, <1>5, NextWakeForms
<1>8. DropReconnects => DropReconnects'
  BY <1>2, <1>4, <1>5 DEF DropReconnects
<1> QED
  BY <1>6, <1>7, <1>8 DEF IInv

\* The phone goes offline.
LEMMA GoesOfflineKeeps ==
  ASSUME IInv, GoesOffline
  PROVE  IInv'
<1>1. Sound /\ track \in Tracks
  BY DEF IInv, Sound, Typed
<1>2. /\ online' = FALSE
      /\ track' = IF track.timer = "none" THEN track
                  ELSE [track EXCEPT !.timer = "none", !.dirty = TRUE]
      /\ UNCHANGED <<known, view, session, dial, ops, kick, tracked, heard, launching, owed>>
  BY DEF GoesOffline, client
<1>3. track' \in Tracks /\ track'.timer = "none" /\ (track' # track => tracked)
  BY <1>1, <1>2, SoundFacts DEF Tracks
<1>4. Sound'
  BY <1>1, <1>2, <1>3 DEF Sound, Typed, Connection
<1> QED
  BY <1>2, <1>4 DEF IInv, WriteHasWake, DropReconnects

\* The phone comes online.
LEMMA GoesOnlineKeeps ==
  ASSUME IInv, GoesOnline
  PROVE  IInv'
<1>1. Sound /\ track \in Tracks
  BY DEF IInv, Sound, Typed
<1>2. /\ online' = TRUE
      /\ track' = IF ~tracked THEN track
                  ELSE IF Busy THEN [track EXCEPT !.dirty = TRUE]
                  ELSE [track EXCEPT !.dirty = FALSE, !.timer = "wake"]
      /\ UNCHANGED <<known, view, session, dial, ops, kick, tracked, heard, launching, owed>>
  BY DEF GoesOnline, client
<1>3. /\ track' \in Tracks /\ (~tracked => track' = track)
      /\ Busy => track'.timer = track.timer
      /\ tracked => (Busy /\ track'.dirty) \/ track'.timer # "none"
  BY <1>1, <1>2 DEF Tracks
<1>4. Busy' <=> Busy
  BY <1>1, <1>2, SoundFacts, NextBusy
<1>5. Sound'
  BY <1>1, <1>2, <1>3, <1>4 DEF Sound, Typed, Connection
<1>6. known => tracked
  BY <1>1 DEF Sound, Connection
<1>7. owed => known
  BY <1>1 DEF Sound, Connection
<1>8. WriteHasWake' /\ DropReconnects'
  BY <1>2, <1>3, <1>4, <1>6, <1>7, NextWakeForms DEF DropReconnects
<1> QED
  BY <1>5, <1>8 DEF IInv

-----------------------------------------------------------------------------
(* The theorems.                                                           *)

\* The invariant holds when the application starts.
LEMMA InitSound ==
  ASSUME Init
  PROVE  IInv
<1>1. /\ Silent \in States /\ Silent.state = "offline" /\ NewTrack \in Tracks
      /\ NewTrack.timer = "none"
  BY DEF Silent, View, States, Verdicts, NewTrack, Tracks
<1>2. Typed
  BY <1>1 DEF Init, Typed
<1>3. Connection
  BY <1>1 DEF Init, Connection
<1>4. Sound
  BY <1>1, <1>2, <1>3, SmallLanes DEF Init, Sound
<1> QED
  BY <1>4 DEF IInv, Init, WriteHasWake, DropReconnects

\* Every step keeps it.
LEMMA StepsKeep ==
  ASSUME IInv, [Next]_vars
  PROVE  IInv'
<1>1. CASE Fire
  BY <1>1, FireKeeps
<1>2. CASE Manual
  BY <1>2, ManualKeeps
<1>3. CASE DialOpens
  BY <1>3, DialOpensKeeps
<1>4. CASE Request
  BY <1>4, RequestKeeps
<1>5. CASE Reply
  BY <1>5, ReplyKeeps
<1>6. CASE \E verdict \in {"retry", "terminal"} : DialFails(verdict)
  BY <1>6, DialFailsKeeps
<1>7. CASE \E verdict \in {"none", "retry", "terminal", "capped"} : Finish(verdict)
  BY <1>7, FinishKeeps
<1>8. CASE Ping
  BY <1>8, PingKeeps
<1>9. CASE Kicked
  BY <1>9, KickedKeeps
<1>10. CASE Republished
  BY <1>10, RepublishedKeeps
<1>11. CASE \E cause \in {"none", "retry", "terminal"} : Dropped(cause)
  BY <1>11, DroppedKeeps
<1>12. CASE Paired
  BY <1>12, PairedKeeps
<1>13. CASE Unpaired
  BY <1>13, UnpairedKeeps
<1>14. CASE Launch
  BY <1>14, LaunchKeeps
<1>15. CASE LocalWrite
  BY <1>15, LocalWriteKeeps
<1>16. CASE GoesOffline
  BY <1>16, GoesOfflineKeeps
<1>17. CASE GoesOnline
  BY <1>17, GoesOnlineKeeps
<1>18. CASE UNCHANGED vars
  BY <1>18 DEF vars, IInv, Sound, Typed, Connection, Busy, OnLane, IsLane,
               WriteHasWake, DropReconnects
<1> QED
  BY <1>1, <1>2, <1>3, <1>4, <1>5, <1>6, <1>7, <1>8, <1>9, <1>10, <1>11, <1>12,
     <1>13, <1>14, <1>15, <1>16, <1>17, <1>18 DEF Next

\* The inductive invariant of the scheduler, whatever may go wrong.
THEOREM SchedulerInvariance == Spec => []IInv
BY InitSound, StepsKeep, PTL DEF Spec

\* The shape of the state (TypeOK): a lane needs a session, and a timer or a
\* round of the scheduler's own needs a track.
THEOREM SchedulerTypes == Spec => []TypeOK
<1>1. IInv => TypeOK
  <2> SUFFICES ASSUME IInv PROVE TypeOK
    OBVIOUS
  <2>1. Sound
    BY DEF IInv
  <2>2. ops \in Seq(Operations) /\ Len(ops) <= 4
    BY <2>1, LanesAreShort DEF Sound, IsLane
  <2>3. track # NewTrack \/ Busy => tracked
    BY <2>1, SoundFacts DEF Sound, Connection
  <2> QED
    BY <2>1, <2>2, <2>3 DEF TypeOK, Sound, Typed, States, Callers, Operations, Tracks
<1> QED
  BY <1>1, SchedulerInvariance, PTL

\* Rounds of the scheduler's own never overlap, and no wake is armed beside
\* one (RoundsAlone), whatever may go wrong.
THEOREM RoundsNeverOverlap == Spec => []RoundsAlone
<1>1. IInv => RoundsAlone
  <2> SUFFICES ASSUME IInv PROVE RoundsAlone
    OBVIOUS
  <2>1. Sound
    BY DEF IInv
  <2>2. "owned" \in dial => OnLane("owned") = {}
    BY <2>1, SoundFacts, SmallLanes, OnLanes
  <2>3. Cardinality(OnLane("owned")) <= 1
    <3>1. CASE OnLane("owned") = {}
      BY <3>1, FS_EmptySet
    <3>2. CASE OnLane("owned") # {}
      <4>1. PICK i : i \in OnLane("owned")
        BY <3>2
      <4>2. OnLane("owned") = {i}
        BY <4>1, <2>1 DEF OnLane, Sound, IsLane
      <4> QED
        <5>1. Cardinality({i}) = 1
          BY FS_Singleton
        <5> QED
          BY <4>2, <5>1
    <3> QED
      BY <3>1, <3>2
  <2> QED
    BY <2>1, <2>2, <2>3 DEF RoundsAlone, Sound
<1> QED
  BY <1>1, SchedulerInvariance, PTL

\* Where no session dies behind a round's back and no desktop forgets the
\* phone, a change the peer was not sent never loses its wake (WriteHasWake).
THEOREM WritesKeepTheirWake == Faults = {} => (Spec => []WriteHasWake)
<1> SUFFICES ASSUME Faults = {} PROVE Spec => []WriteHasWake
  OBVIOUS
<1>1. IInv => WriteHasWake
  BY DEF IInv
<1> QED
  BY <1>1, SchedulerInvariance, PTL

\* Where no session dies behind a round's back, a peer the phone lost is
\* dialled again (DropReconnects), also when a desktop may forget the phone.
THEOREM DropsReconnect == "behind" \notin Faults => (Spec => []DropReconnects)
<1> SUFFICES ASSUME "behind" \notin Faults PROVE Spec => []DropReconnects
  OBVIOUS
<1>1. IInv => DropReconnects
  BY DEF IInv
<1> QED
  BY <1>1, SchedulerInvariance, PTL
=============================================================================
