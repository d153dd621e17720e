------------------------- MODULE AtcDialogueProofs -------------------------
(***************************************************************************)
(* Proofs about module AtcDialogue, for every profile that satisfies       *)
(* ProfileAssumption and every instance that satisfies DialogueAssumption. *)
(*                                                                         *)
(* Every function that changes the machine is shown once to keep the       *)
(* invariant of the record (Sound) and to bump the generation whenever it  *)
(* changes a semantic field (Versioned).  process() and the entry points   *)
(* are compositions, so they inherit both.                                 *)
(*                                                                         *)
(* The action properties follow the same way: what a function does to the  *)
(* obligation (Owes), to the runway states (NoEntry) and to the declared   *)
(* intent is shown once, and composed along process().                     *)
(***************************************************************************)
EXTENDS AtcDialogue, SequenceTheorems, WellFoundedInduction, TLAPS

\* The history and the state behind it are a chain within the cap.
Chain(history, state) ==
    /\ Len(history) <= HistoryCap
    /\ \A i \in 1..Len(history) :
          history[i].state # IF i = Len(history) THEN state
                             ELSE history[i + 1].state

Sound(h) ==
    /\ h \in Machine
    /\ h.readback_pending => h.clearance # None
    /\ Chain(h.history, h.state)

\* From h to k the counter grows, unless nothing it protects has changed.
Versioned(h, k) == k.gen >= h.gen /\ (k.gen = h.gen => semantic(k) = semantic(h))

Keeps(h, k) == Sound(k) /\ Versioned(h, k)

-----------------------------------------------------------------------------
(* The single functions.                                                   *)

\* Versioned is transitive, and doing nothing is versioned.
LEMMA KeepsSelf == ASSUME NEW h, Sound(h) PROVE Keeps(h, h)
  BY DEF Keeps, Sound, Versioned, Machine

\* Two functions in a row.
LEMMA KeepsThen ==
    ASSUME NEW h, NEW k, NEW l, Sound(h), Keeps(h, k), Keeps(k, l)
    PROVE  Keeps(h, l)
  BY DEF Keeps, Sound, Versioned, Machine

\* Pushing on the history keeps it a chain that ends in the new state.
LEMMA PushChain ==
    ASSUME NEW h \in Seq([state : ATCStates, at : Nat]),
           NEW s \in ATCStates, NEW next \in ATCStates, s # next,
           NEW t \in Nat, Chain(h, s)
    PROVE  /\ push_history(h, [state |-> s, at |-> t])
                 \in Seq([state : ATCStates, at : Nat])
           /\ Chain(push_history(h, [state |-> s, at |-> t]), next)
  <1> DEFINE E == [state : ATCStates, at : Nat]
             e == [state |-> s, at |-> t]
  <1>0. e \in E /\ e.state = s
    OBVIOUS
  <1>1. CASE Len(h) < HistoryCap
    <2>1. /\ Append(h, e) \in Seq(E) /\ Len(Append(h, e)) = Len(h) + 1
          /\ \A i \in 1..Len(h) : Append(h, e)[i] = h[i]
          /\ Append(h, e)[Len(h) + 1] = e
      BY <1>0, AppendProperties
    <2>2. push_history(h, e) = Append(h, e)
      BY <1>1 DEF push_history
    <2>. HIDE DEF e, E
    <2>3. Chain(Append(h, e), next)
      <3>1. Len(h) \in Nat /\ Len(Append(h, e)) <= HistoryCap
        BY <1>1, <2>1, LenProperties, ProfileAssumption
      <3>2. ASSUME NEW i \in 1..Len(Append(h, e))
            PROVE  Append(h, e)[i].state # IF i = Len(Append(h, e)) THEN next
                                           ELSE Append(h, e)[i + 1].state
        <4>1. CASE i = Len(h) + 1
          BY <4>1, <2>1, <3>1, <1>0
        <4>2. CASE i = Len(h) /\ i # Len(h) + 1
          BY <4>2, <2>1, <3>1, <3>2, <1>0 DEF Chain
        <4>3. CASE i \in 1..Len(h) /\ i + 1 \in 1..Len(h)
          BY <4>3, <2>1, <3>1 DEF Chain
        <4>4. QED BY <4>1, <4>2, <4>3, <3>1, <3>2, <2>1
      <3>3. QED BY <3>1, <3>2 DEF Chain
    <2>4. QED BY <2>1, <2>2, <2>3 DEF e, E
  <1>2. CASE ~(Len(h) < HistoryCap)
    <2>0. Len(h) \in Nat /\ Len(h) = HistoryCap /\ h # <<>>
      BY <1>2, LenProperties, ProfileAssumption DEF Chain
    <2>1. /\ Tail(h) \in Seq(E) /\ Len(Tail(h)) = Len(h) - 1
          /\ \A i \in 1..Len(Tail(h)) : Tail(h)[i] = h[i + 1]
      BY <2>0, HeadTailProperties
    <2>2. /\ Append(Tail(h), e) \in Seq(E)
          /\ Len(Append(Tail(h), e)) = Len(Tail(h)) + 1
          /\ \A i \in 1..Len(Tail(h)) : Append(Tail(h), e)[i] = Tail(h)[i]
          /\ Append(Tail(h), e)[Len(Tail(h)) + 1] = e
      BY <1>0, <2>1, AppendProperties
    <2>3. push_history(h, e) = Append(Tail(h), e)
      BY <1>2 DEF push_history
    <2>. DEFINE r == Append(Tail(h), e)
    <2>4. Len(r) = Len(h) /\ r[Len(h)] = e
          /\ \A i \in 1..(Len(h) - 1) : r[i] = h[i + 1]
      BY <2>0, <2>1, <2>2
    <2>. HIDE DEF e, E, r
    <2>5. Chain(r, next)
      <3>2. ASSUME NEW i \in 1..Len(r)
            PROVE  r[i].state # IF i = Len(r) THEN next ELSE r[i + 1].state
        <4>1. CASE i = Len(h)
          BY <4>1, <2>4, <1>0
        <4>2. CASE i = Len(h) - 1
          BY <4>2, <2>4, <2>0, <3>2, <1>0 DEF Chain
        <4>3. CASE i \in 1..(Len(h) - 2)
          <5>1. r[i] = h[i + 1] /\ r[i + 1] = h[i + 2] /\ i # Len(r)
                /\ i + 1 \in 1..Len(h) /\ i + 1 # Len(h) /\ (i + 1) + 1 = i + 2
            BY <4>3, <2>4, <2>0
          <5>2. QED BY <5>1 DEF Chain
        <4>4. QED BY <4>1, <4>2, <4>3, <2>4, <2>0, <3>2
      <3>3. QED BY <3>2, <2>4, <2>0 DEF Chain
    <2>6. QED BY <2>2, <2>3, <2>5 DEF e, E, r
  <1>3. QED BY <1>1, <1>2

\* The counter alone.
LEMMA BumpKeeps ==
    ASSUME NEW h, Sound(h)
    PROVE  /\ Sound(bump_gen(h)) /\ bump_gen(h).gen = h.gen + 1
           /\ bump_gen(h).readback_pending = h.readback_pending
           /\ bump_gen(h).clearance = h.clearance
           /\ bump_gen(h).history = h.history /\ bump_gen(h).state = h.state
  <1> DEFINE n == h.gen + 1
             b == [h EXCEPT !.gen = n]
  <1>1. h \in Machine /\ n \in Nat
    BY DEF Sound, Machine
  <1>. HIDE DEF n
  <1>2. /\ b \in Machine /\ b.gen = n
        /\ b.readback_pending = h.readback_pending
        /\ b.clearance = h.clearance
        /\ b.history = h.history /\ b.state = h.state
    BY <1>1 DEF Machine
  <1>3. bump_gen(h) = b
    BY DEF bump_gen, n
  <1>. HIDE DEF b
  <1>4. QED BY <1>2, <1>3 DEF Sound, n

\* A change of other fields that bumps the counter.
LEMMA FieldsKeep ==
    ASSUME NEW h, Sound(h), NEW k \in Machine,
           k.gen = h.gen + 1, k.history = h.history, k.state = h.state,
           k.readback_pending => k.clearance # None
    PROVE  Keeps(h, k)
  BY DEF Keeps, Versioned, Sound, Machine

\* transition_to is the only function that moves the state.
LEMMA TransitionKeeps ==
    ASSUME NEW h, Sound(h), NEW next \in ATCStates, NEW t \in Nat
    PROVE  Keeps(h, transition_to(h, next, t))
  <1>1. CASE next = h.state
    BY <1>1, KeepsSelf DEF transition_to
  <1>2. CASE next # h.state
    <2> DEFINE p == push_history(h.history, [state |-> h.state, at |-> t])
               b == bump_gen(h)
               k == [b EXCEPT !.history = p]
               l == [k EXCEPT !.state = next]
    <2>1. /\ p \in Seq([state : ATCStates, at : Nat])
          /\ Chain(p, next)
      BY <1>2, PushChain DEF Sound, Machine
    <2>2. transition_to(h, next, t) = l
      BY <1>2, Zenon DEF transition_to
    <2>3. /\ b \in Machine /\ b.gen = h.gen + 1
          /\ b.readback_pending = h.readback_pending /\ b.clearance = h.clearance
      BY BumpKeeps DEF Sound
    <2>. HIDE DEF p, b
    <2>4. /\ k \in Machine /\ k.gen = h.gen + 1 /\ k.history = p
          /\ k.readback_pending = h.readback_pending /\ k.clearance = h.clearance
      BY <2>1, <2>3 DEF Machine
    <2>. HIDE DEF k
    <2>5. /\ l \in Machine /\ l.gen = h.gen + 1 /\ l.history = p /\ l.state = next
          /\ l.readback_pending = h.readback_pending /\ l.clearance = h.clearance
      BY <2>4 DEF Machine
    <2>. HIDE DEF l
    <2>6. QED BY <2>1, <2>2, <2>5 DEF Keeps, Versioned, Sound, Machine
  <1>3. QED BY <1>1, <1>2

\* The setters, each for the values its callers pass.
LEMMA PendingKeeps ==
    ASSUME NEW h, Sound(h), NEW v \in BOOLEAN,
           v => h.clearance # None
    PROVE  Keeps(h, set_readback_pending(h, v))
  <1> DEFINE b == bump_gen(h)
             k == [b EXCEPT !.readback_pending = v]
  <1>1. /\ b \in Machine /\ b.gen = h.gen + 1 /\ b.history = h.history
        /\ b.state = h.state /\ b.readback_pending = h.readback_pending
        /\ b.clearance = h.clearance
    BY BumpKeeps DEF Sound
  <1>. HIDE DEF b
  <1>2. /\ k \in Machine /\ k.gen = h.gen + 1 /\ k.history = h.history
        /\ k.state = h.state /\ (k.readback_pending => k.clearance # None)
    BY <1>1 DEF Sound, Machine
  <1>. HIDE DEF k
  <1>3. Keeps(h, k)
    BY <1>2, FieldsKeep
  <1>4. QED BY <1>3 DEF set_readback_pending, b, k

\* Storing or dropping a clearance, which a pending readback must not lose.
LEMMA ClearanceKeeps ==
    ASSUME NEW h, Sound(h), NEW v \in Clearances \cup {None},
           h.readback_pending => v # None
    PROVE  Keeps(h, set_clearance(h, v))
  <1> DEFINE b == bump_gen(h)
             k == [b EXCEPT !.clearance = v]
  <1>1. /\ b \in Machine /\ b.gen = h.gen + 1 /\ b.history = h.history
        /\ b.state = h.state /\ b.readback_pending = h.readback_pending
        /\ b.clearance = h.clearance
    BY BumpKeeps DEF Sound
  <1>. HIDE DEF b
  <1>2. /\ k \in Machine /\ k.gen = h.gen + 1 /\ k.history = h.history
        /\ k.state = h.state /\ (k.readback_pending => k.clearance # None)
    BY <1>1 DEF Sound, Machine
  <1>. HIDE DEF k
  <1>3. Keeps(h, k)
    BY <1>2, FieldsKeep
  <1>4. QED BY <1>3 DEF set_clearance, b, k

\* Locking or releasing the runway.
LEMMA RunwayKeeps ==
    ASSUME NEW h, Sound(h), NEW v \in Runways \cup {None}
    PROVE  Keeps(h, set_assigned_runway(h, v))
  <1> DEFINE b == bump_gen(h)
             k == [b EXCEPT !.assigned_runway = v]
  <1>1. /\ b \in Machine /\ b.gen = h.gen + 1 /\ b.history = h.history
        /\ b.state = h.state /\ b.readback_pending = h.readback_pending
        /\ b.clearance = h.clearance
    BY BumpKeeps DEF Sound
  <1>. HIDE DEF b
  <1>2. /\ k \in Machine /\ k.gen = h.gen + 1 /\ k.history = h.history
        /\ k.state = h.state /\ (k.readback_pending => k.clearance # None)
    BY <1>1 DEF Sound, Machine
  <1>. HIDE DEF k
  <1>3. Keeps(h, k)
    BY <1>2, FieldsKeep
  <1>4. QED BY <1>3 DEF set_assigned_runway, b, k

\* Locking or releasing the callsign.
LEMMA CallsignKeeps ==
    ASSUME NEW h, Sound(h), NEW v \in Callsigns \cup {None}
    PROVE  Keeps(h, set_session_callsign(h, v))
  <1> DEFINE b == bump_gen(h)
             k == [b EXCEPT !.session_callsign = v]
  <1>1. /\ b \in Machine /\ b.gen = h.gen + 1 /\ b.history = h.history
        /\ b.state = h.state /\ b.readback_pending = h.readback_pending
        /\ b.clearance = h.clearance
    BY BumpKeeps DEF Sound
  <1>. HIDE DEF b
  <1>2. /\ k \in Machine /\ k.gen = h.gen + 1 /\ k.history = h.history
        /\ k.state = h.state /\ (k.readback_pending => k.clearance # None)
    BY <1>1 DEF Sound, Machine
  <1>. HIDE DEF k
  <1>3. Keeps(h, k)
    BY <1>2, FieldsKeep
  <1>4. QED BY <1>3 DEF set_session_callsign, b, k

\* The kind of departure.
LEMMA DepartureTypeKeeps ==
    ASSUME NEW h, Sound(h), NEW v \in {"PATTERN", "CROSS_COUNTRY"}
    PROVE  Keeps(h, set_departure_type(h, v))
  <1> DEFINE b == bump_gen(h)
             k == [b EXCEPT !.departure_type = v]
  <1>1. /\ b \in Machine /\ b.gen = h.gen + 1 /\ b.history = h.history
        /\ b.state = h.state /\ b.readback_pending = h.readback_pending
        /\ b.clearance = h.clearance
    BY BumpKeeps DEF Sound
  <1>. HIDE DEF b
  <1>2. /\ k \in Machine /\ k.gen = h.gen + 1 /\ k.history = h.history
        /\ k.state = h.state /\ (k.readback_pending => k.clearance # None)
    BY <1>1 DEF Sound, Machine
  <1>. HIDE DEF k
  <1>3. Keeps(h, k)
    BY <1>2, FieldsKeep
  <1>4. QED BY <1>3 DEF set_departure_type, b, k

\* The declared flight intent.
LEMMA FlightIntentKeeps ==
    ASSUME NEW h, Sound(h), NEW v \in {"none", "xc", "pattern"}
    PROVE  Keeps(h, set_flight_intent(h, v))
  <1> DEFINE b == bump_gen(h)
             k == [b EXCEPT !.flight_intent = v]
  <1>1. /\ b \in Machine /\ b.gen = h.gen + 1 /\ b.history = h.history
        /\ b.state = h.state /\ b.readback_pending = h.readback_pending
        /\ b.clearance = h.clearance
    BY BumpKeeps DEF Sound
  <1>. HIDE DEF b
  <1>2. /\ k \in Machine /\ k.gen = h.gen + 1 /\ k.history = h.history
        /\ k.state = h.state /\ (k.readback_pending => k.clearance # None)
    BY <1>1 DEF Sound, Machine
  <1>. HIDE DEF k
  <1>3. Keeps(h, k)
    BY <1>2, FieldsKeep
  <1>4. QED BY <1>3 DEF set_flight_intent, b, k

\* The answer kept for "say again".
LEMMA LastResponseKeeps ==
    ASSUME NEW h, Sound(h), NEW v \in BOOLEAN
    PROVE  Keeps(h, set_last_tower_response(h, v))
  <1> DEFINE b == bump_gen(h)
             k == [b EXCEPT !.last_tower_response = v]
  <1>1. /\ b \in Machine /\ b.gen = h.gen + 1 /\ b.history = h.history
        /\ b.state = h.state /\ b.readback_pending = h.readback_pending
        /\ b.clearance = h.clearance
    BY BumpKeeps DEF Sound
  <1>. HIDE DEF b
  <1>2. /\ k \in Machine /\ k.gen = h.gen + 1 /\ k.history = h.history
        /\ k.state = h.state /\ (k.readback_pending => k.clearance # None)
    BY <1>1 DEF Sound, Machine
  <1>. HIDE DEF k
  <1>3. Keeps(h, k)
    BY <1>2, FieldsKeep
  <1>4. QED BY <1>3 DEF set_last_tower_response, b, k

\* The timer is not protected by the counter.
LEMMA CorrectionKeeps ==
    ASSUME NEW h, Sound(h), NEW key \in (StateNames \X Nat) \cup {None},
           NEW timer \in Nat
    PROVE  Keeps(h, set_correction(h, key, timer))
  <1> DEFINE c == [key |-> key, timer |-> timer]
             k == [h EXCEPT !.correction = c]
  <1>1. c \in [key : (StateNames \X Nat) \cup {None}, timer : Nat]
    OBVIOUS
  <1>2. h \in Machine
    BY DEF Sound
  <1>. HIDE DEF c
  <1>3. /\ k \in Machine /\ semantic(k) = semantic(h) /\ k.gen = h.gen
        /\ k.readback_pending = h.readback_pending /\ k.clearance = h.clearance
        /\ k.history = h.history /\ k.state = h.state
    BY <1>1, <1>2 DEF Machine, semantic
  <1>4. set_correction(h, key, timer) = k
    BY DEF set_correction, c
  <1>. HIDE DEF k
  <1>5. QED BY <1>3, <1>4 DEF Keeps, Versioned, Sound, Machine

\* The airborne flag: the setter does nothing, and bumps nothing, when
\* the value is the same.
LEMMA WasAirborneKeeps ==
    ASSUME NEW h, Sound(h), NEW v \in BOOLEAN
    PROVE  Keeps(h, set_was_airborne(h, v))
  <1> DEFINE b == bump_gen(h)
             k == [b EXCEPT !.was_airborne = v]
  <1>1. /\ b \in Machine /\ b.gen = h.gen + 1 /\ b.history = h.history
        /\ b.state = h.state /\ b.readback_pending = h.readback_pending
        /\ b.clearance = h.clearance
    BY BumpKeeps DEF Sound
  <1>. HIDE DEF b
  <1>2. /\ k \in Machine /\ k.gen = h.gen + 1 /\ k.history = h.history
        /\ k.state = h.state /\ (k.readback_pending => k.clearance # None)
    BY <1>1 DEF Sound, Machine
  <1>. HIDE DEF k
  <1>3. Keeps(h, k)
    BY <1>2, FieldsKeep
  <1>4. set_was_airborne(h, v) = h \/ set_was_airborne(h, v) = k
    BY DEF set_was_airborne, b, k
  <1>5. QED BY <1>3, <1>4, KeepsSelf

\* What Keeps gives its user.
LEMMA KeepsSound == ASSUME NEW h, NEW k, Keeps(h, k) PROVE Sound(k)
  BY DEF Keeps

\* What the two setters of the readback leave behind.
LEMMA SetterFields ==
    ASSUME NEW h, Sound(h), NEW v
    PROVE  /\ set_readback_pending(h, FALSE).readback_pending = FALSE
           /\ v \in Clearances => set_clearance(h, v).clearance # None
  <1> DEFINE b == bump_gen(h)
             k == [b EXCEPT !.readback_pending = FALSE]
             l == [b EXCEPT !.clearance = v]
  <1>1. b \in Machine
    BY BumpKeeps DEF Sound
  <1>. HIDE DEF b
  <1>2. k.readback_pending = FALSE /\ l.clearance = v
    BY <1>1 DEF Machine
  <1>3. set_readback_pending(h, FALSE) = k /\ set_clearance(h, v) = l
    BY DEF set_readback_pending, set_clearance, b
  <1>. HIDE DEF k, l
  <1>4. QED BY <1>2, <1>3, ProfileAssumption

\* Flag first, clearance second: no intermediate record owes what it lost.
LEMMA DropReadbackKeeps ==
    ASSUME NEW h, Sound(h) PROVE Keeps(h, drop_readback(h))
  <1> DEFINE k == set_readback_pending(h, FALSE)
  <1>1. Keeps(h, k) /\ Sound(k) /\ k.readback_pending = FALSE
    BY PendingKeeps, KeepsSound, SetterFields
  <1>. HIDE DEF k
  <1>2. Keeps(k, set_clearance(k, None))
    BY <1>1, ClearanceKeeps
  <1>3. QED BY <1>1, <1>2, KeepsThen DEF drop_readback, k

\* Both locks together.
LEMMA ReleaseKeeps ==
    ASSUME NEW h, Sound(h) PROVE Keeps(h, release_runway_and_callsign(h))
  BY RunwayKeeps, CallsignKeeps, KeepsSound, KeepsThen
     DEF release_runway_and_callsign

\* The machine after init(), in either start mode.
LEMMA StartedSound == ASSUME NEW mode PROVE Sound(Started(mode))
  <1>1. \A n : n \in Nat \ {0} => 0 <= n
    OBVIOUS
  <1>2. <<>> \in Seq([state : ATCStates, at : Nat]) /\ Len(<<>>) = 0
    OBVIOUS
  <1>3. Chain(<<>>, Started(mode).state)
    BY <1>1, <1>2, ProfileAssumption DEF Chain
  <1>4. Started(mode) \in Machine
    BY <1>2 DEF Started, Machine, ATCStates
  <1>5. QED BY <1>3, <1>4 DEF Sound, Started

\* reset() behind its guard, or nothing.
LEMMA FreshFlightKeeps ==
    ASSUME NEW h, Sound(h), NEW on_ground
    PROVE  Keeps(h, begin_fresh_flight(h, on_ground))
  <1> DEFINE s == Started("engines_running")
             n == h.gen + 1
             c == h.correction
             k == [s EXCEPT !.gen = n]
             l == [k EXCEPT !.correction = c]
  <1>1. s \in Machine /\ s.readback_pending = FALSE /\ Chain(s.history, s.state)
    BY StartedSound DEF Sound, Started
  <1>2. /\ n \in Nat /\ n > h.gen
        /\ c \in [key : (StateNames \X Nat) \cup {None}, timer : Nat]
    BY DEF Sound, Machine
  <1>3. begin_fresh_flight(h, on_ground) = h \/ begin_fresh_flight(h, on_ground) = l
    BY Zenon DEF begin_fresh_flight, reset
  <1>. HIDE DEF s, n, c
  <1>4. /\ k \in Machine /\ k.gen = n /\ k.readback_pending = s.readback_pending
        /\ k.history = s.history /\ k.state = s.state
    BY <1>1, <1>2 DEF Machine
  <1>. HIDE DEF k
  <1>5. /\ l \in Machine /\ l.gen = n /\ l.readback_pending = s.readback_pending
        /\ l.history = s.history /\ l.state = s.state
    BY <1>2, <1>4 DEF Machine
  <1>. HIDE DEF l
  <1>6. Sound(l) /\ l.gen > h.gen
    BY <1>1, <1>2, <1>5 DEF Sound
  <1>7. Keeps(h, l)
    BY <1>6 DEF Keeps, Versioned, Sound, Machine
  <1>8. QED BY <1>3, <1>7, KeepsSelf

\* The Disregard button, on the ground and in the air.
LEMMA DisregardKeeps ==
    ASSUME NEW h, Sound(h), NEW phase0, NEW near, NEW t \in Nat
    PROVE  Keeps(h, disregard(h, phase0, near, t))
  <1> DEFINE d == set_last_tower_response(drop_readback(h), FALSE)
             target == IF near THEN "PATTERN_ENTRY" ELSE "EN_ROUTE"
             i == transition_to(d, "IDLE", t)
             r == release_runway_and_callsign(i)
  <1>1. Keeps(h, d) /\ Sound(d)
    BY DropReadbackKeeps, LastResponseKeeps, KeepsThen, KeepsSound
  <1>. HIDE DEF d
  <1>2. "IDLE" \in ATCStates /\ target \in ATCStates
    BY DEF ATCStates
  <1>3. Keeps(d, transition_to(d, target, t))
    BY <1>1, <1>2, TransitionKeeps
  <1>4. Keeps(d, i) /\ Sound(i)
    BY <1>1, <1>2, TransitionKeeps, KeepsSound
  <1>. HIDE DEF i
  <1>5. Keeps(i, r) /\ Sound(r)
    BY <1>4, ReleaseKeeps, KeepsSound
  <1>. HIDE DEF r
  <1>6. Keeps(d, set_departure_type(r, "PATTERN"))
    BY <1>1, <1>4, <1>5, DepartureTypeKeeps, KeepsThen
  <1>7. \/ disregard(h, phase0, near, t) = transition_to(d, target, t)
        \/ disregard(h, phase0, near, t) = set_departure_type(r, "PATTERN")
    BY Zenon DEF disregard, d, i, r
  <1>8. QED BY <1>1, <1>3, <1>6, <1>7, KeepsThen

\* The flight intent found in the words, if any.
LEMMA LatchKeeps ==
    ASSUME NEW h, Sound(h), NEW m \in Messages
    PROVE  Keeps(h, latch_flight_intent(h, m))
  <1>1. m.declares \in {"none", "xc", "pattern"}
    BY DEF Messages
  <1>2. QED BY <1>1, KeepsSelf, FlightIntentKeeps DEF latch_flight_intent

\* The airport changes while en route.
LEMMA AirportKeeps ==
    ASSUME NEW h, Sound(h), NEW last, NEW airport, NEW t \in Nat
    PROVE  Keeps(h, check_airport_change(h, last, airport, t))
  <1> DEFINE i == transition_to(h, "IDLE", t)
             p == set_readback_pending(i, FALSE)
             r == set_assigned_runway(p, None)
             d == set_departure_type(r, "PATTERN")
  <1>1. Keeps(h, i) /\ Sound(i)
    BY TransitionKeeps, KeepsSound DEF ATCStates
  <1>. HIDE DEF i
  <1>2. Keeps(h, p) /\ Sound(p)
    BY <1>1, PendingKeeps, KeepsThen, KeepsSound
  <1>. HIDE DEF p
  <1>3. Keeps(h, r) /\ Sound(r)
    BY <1>2, RunwayKeeps, KeepsThen, KeepsSound
  <1>. HIDE DEF r
  <1>4. Keeps(h, d)
    BY <1>3, DepartureTypeKeeps, KeepsThen
  <1>5. check_airport_change(h, last, airport, t) \in {h, d}
    BY DEF check_airport_change, leave_airport, i, p, r, d
  <1>6. QED BY <1>4, <1>5, KeepsSelf

-----------------------------------------------------------------------------
(* Auto-correction.                                                        *)

\* A nonempty set of natural numbers has a least element.
LEMMA LeastNatural ==
    ASSUME NEW T \in SUBSET Nat, T # {}
    PROVE  \E i \in T : \A j \in T : i <= j
  <1>1. \E i \in T : \A j \in T : <<j, i>> \notin OpToRel(<, Nat)
    BY WFMin, NatLessThanWellFounded
  <1>2. PICK i \in T : \A j \in T : <<j, i>> \notin OpToRel(<, Nat)
    BY <1>1
  <1>3. ASSUME NEW j \in T PROVE i <= j
    <2>1. ~(j < i)
      BY <1>2 DEF OpToRel
    <2>2. QED BY <2>1
  <1>4. QED BY <1>3

\* The name of a state is a key of the tables.
LEMMA NameOfState ==
    ASSUME NEW h, Sound(h) PROVE state_name(h) \in StateNames
  BY DEF Sound, Machine, state_name, StateNames

\* One correction that fires.
LEMMA AutoCorrectKeeps ==
    ASSUME NEW h, Sound(h), NEW next \in ATCStates, NEW t \in Nat
    PROVE  Keeps(h, auto_correct(h, next, t))
  <1> DEFINE i == transition_to(h, next, t)
             p == set_readback_pending(i, FALSE)
             c == set_correction(p, None, 0)
  <1>1. Keeps(h, i) /\ Sound(i)
    BY TransitionKeeps, KeepsSound
  <1>. HIDE DEF i
  <1>2. Keeps(h, p) /\ Sound(p)
    BY <1>1, PendingKeeps, KeepsThen, KeepsSound
  <1>. HIDE DEF p
  <1>3. Keeps(h, c) /\ Sound(c)
    BY <1>2, CorrectionKeeps, KeepsThen, KeepsSound
  <1>. HIDE DEF c
  <1>4. Keeps(h, release_runway_and_callsign(c))
    BY <1>3, ReleaseKeeps, KeepsThen
  <1>5. auto_correct(h, next, t) \in {c, release_runway_and_callsign(c)}
    BY DEF auto_correct, i, p, c
  <1>6. QED BY <1>3, <1>4, <1>5

\* The per-frame check: whichever rule matches, or none.
LEMMA CorrectionCheckKeeps ==
    ASSUME NEW h, Sound(h), NEW phase0, NEW t \in Nat
    PROVE  Keeps(h, check_auto_correction(h, phase0, t))
  <1> DEFINE n == state_name(h)
             first == CHOOSE i \in matching(n, phase0) :
                         \A j \in matching(n, phase0) : i <= j
             rule == AutoCorrections[n][first]
             timer == correction_time(h, <<n, first>>)
  <1>1. Keeps(h, set_correction(h, None, 0))
    BY CorrectionKeeps
  <1>2. CASE h.state \in {"IDLE", "UNICOM_ACTIVE"} \/ n \notin DOMAIN AutoCorrections
    BY <1>2, KeepsSelf DEF check_auto_correction
  <1>3. CASE /\ n \in DOMAIN AutoCorrections /\ matching(n, phase0) # {}
    <2>1. /\ DOMAIN AutoCorrections[n] \subseteq Nat
          /\ \A i \in DOMAIN AutoCorrections[n] : AutoCorrections[n][i].next \in ATCStates
      <3> DEFINE R == [phases : SUBSET Phases, next : ATCStates,
                       delay : Nat \ {0}]
      <3>1. AutoCorrections[n] \in Seq(R)
        BY <1>3, ProfileAssumption
      <3>2. /\ DOMAIN AutoCorrections[n] = 1..Len(AutoCorrections[n])
            /\ Len(AutoCorrections[n]) \in Nat
        BY <3>1, LenProperties
      <3>3. \A i \in DOMAIN AutoCorrections[n] : AutoCorrections[n][i] \in R
        BY <3>1, <3>2, ElementOfSeq
      <3>4. QED BY <3>2, <3>3
    <2>2. first \in matching(n, phase0)
      BY <1>3, <2>1, LeastNatural DEF matching
    <2>3. first \in Nat /\ rule.next \in ATCStates
      BY <2>1, <2>2 DEF matching
    <2>4. timer \in Nat
      BY DEF correction_time, Sound, Machine
    <2>. HIDE DEF first, timer, rule
    <2>5. <<n, first>> \in StateNames \X Nat
      BY <2>3, NameOfState
    <2>6. Keeps(h, set_correction(h, <<n, first>>, timer))
      BY <2>4, <2>5, CorrectionKeeps
    <2>7. Keeps(h, auto_correct(h, rule.next, t))
      BY <2>3, AutoCorrectKeeps
    <2>8. check_auto_correction(h, phase0, t)
             \in {h, auto_correct(h, rule.next, t),
                  set_correction(h, <<n, first>>, timer)}
      BY <1>3 DEF check_auto_correction, first, rule, timer
    <2>9. QED BY <2>6, <2>7, <2>8, KeepsSelf
  <1>4. CASE /\ n \in DOMAIN AutoCorrections /\ matching(n, phase0) = {}
    BY <1>1, <1>4, KeepsSelf DEF check_auto_correction
  <1>5. QED BY <1>2, <1>3, <1>4

-----------------------------------------------------------------------------
(* process().                                                              *)

\* An answer of the machine: a kept record and a well-formed response.
Reply(h, r) == Keeps(h, r.g) /\ r.resp \in Responses

\* Answers that clear nothing.
LEMMA PlainReplies ==
    ASSUME NEW h, NEW k, Keeps(h, k), NEW b \in BOOLEAN
    PROVE  /\ Reply(h, [g |-> k, resp |-> plain(b)])
           /\ Reply(h, [g |-> k, resp |-> demand(b)])
  <1>1. plain(b) \in Responses /\ demand(b) \in Responses
    BY DEF plain, demand, Responses
  <1>2. QED BY <1>1 DEF Reply

\* A lookup always yields a template: of the table, or the fallback.
LEMMA EntryTypes ==
    /\ \A i : /\ block_lookup(InfoTemplates, i) \in Entries
              /\ block_lookup(RadioTemplates, i) \in Entries
              /\ block_lookup(UncontrolledTemplates, i) \in Entries
    /\ \A n, i, b : lookup(n, i, b) \in Entries
  <1>1. Fallback \in Entries
    BY DEF Fallback, Entries, ATCStates
  <1>2. ASSUME NEW T, \A i \in DOMAIN T : T[i] \in Entries, NEW i
        PROVE  block_lookup(T, i) \in Entries
    BY <1>1, <1>2 DEF block_lookup
  <1>3. \A T \in {InfoTemplates, UncontrolledTemplates, RadioTemplates} :
           \A i \in DOMAIN T : T[i] \in Entries
    BY ProfileAssumption
  <1>4. ASSUME NEW n, NEW i, NEW b
        PROVE  lookup(n, i, b) \in Entries
    <2>1. CASE n \notin DOMAIN Templates
      BY <1>1, <2>1 DEF lookup
    <2>2. CASE n \in DOMAIN Templates /\ b /\ n \in DOMAIN TowerOnlyTemplates
                  /\ i \in DOMAIN TowerOnlyTemplates[n]
      BY <2>2, ProfileAssumption DEF lookup
    <2>3. CASE n \in DOMAIN Templates /\ ~(b /\ n \in DOMAIN TowerOnlyTemplates
                  /\ i \in DOMAIN TowerOnlyTemplates[n])
      <3>1. lookup(n, i, b) = block_lookup(Templates[n], i)
        BY <2>3 DEF lookup
      <3>2. \A j \in DOMAIN Templates[n] : Templates[n][j] \in Entries
        BY <2>3, ProfileAssumption
      <3>3. QED BY <1>1, <3>1, <3>2 DEF block_lookup
    <2>4. QED BY <2>1, <2>2, <2>3
  <1>5. QED BY <1>1, <1>2, <1>3, <1>4

\* "Negative": one step back.
LEMMA NegativeReplies ==
    ASSUME NEW h, Sound(h), NEW t \in Nat
    PROVE  Reply(h, handle_negative_correction(h, t))
  <1> DEFINE r == transition_to(h, revert_target(h.state), t)
             k == IF h.state = "DEPARTURE_CLEARED"
                  THEN set_departure_type(r, "PATTERN") ELSE r
  <1>1. revert_target(h.state) \in ATCStates
    BY DEF revert_target, ATCStates, Sound, Machine
  <1>2. Keeps(h, r) /\ Sound(r)
    BY <1>1, TransitionKeeps, KeepsSound
  <1>. HIDE DEF r
  <1>3. Keeps(h, k)
    BY <1>2, DepartureTypeKeeps, KeepsThen
  <1>. HIDE DEF k
  <1>4. handle_negative_correction(h, t) = [g |-> k, resp |-> plain(TRUE)]
    BY DEF handle_negative_correction, k, r
  <1>5. QED BY <1>3, <1>4, PlainReplies

\* A new request for departure reopens the decision.
LEMMA RevertsKeep ==
    ASSUME NEW h, Sound(h), NEW intent, NEW t \in Nat
    PROVE  Keeps(h, apply_state_reverts(h, intent, t))
  <1>1. CASE reverts(h, intent) = {}
    BY <1>1, KeepsSelf DEF apply_state_reverts
  <1>2. CASE reverts(h, intent) # {}
    <2> DEFINE r == CHOOSE r \in reverts(h, intent) : TRUE
               k == transition_to(h, r.to, t)
    <2>1. r \in reverts(h, intent)
      BY <1>2
    <2>2. r.to \in ATCStates
      BY <2>1, ProfileAssumption DEF reverts
    <2>. HIDE DEF r
    <2>3. Keeps(h, k) /\ Sound(k)
      BY <2>2, TransitionKeeps, KeepsSound
    <2>. HIDE DEF k
    <2>4. Keeps(h, set_departure_type(k, "PATTERN"))
      BY <2>3, DepartureTypeKeeps, KeepsThen
    <2>5. apply_state_reverts(h, intent, t) \in {k, set_departure_type(k, "PATTERN")}
      BY <1>2 DEF apply_state_reverts, r, k
    <2>6. QED BY <2>3, <2>4, <2>5
  <1>3. QED BY <1>1, <1>2

\* Information and radio stations answer and leave the dialogue.
LEMMA SideFlowsReply ==
    ASSUME NEW h, Sound(h), NEW m, NEW c, NEW t \in Nat
    PROVE  Reply(h, handle_info_flow(h, m, t)) /\ Reply(h, handle_unicom_flow(h, m, c, t))
  <1> DEFINE e == block_lookup(InfoTemplates, m.intent)
             f == block_lookup(IF c.freq = "RADIO" THEN RadioTemplates
                               ELSE UncontrolledTemplates, m.intent)
  <1>1. e \in Entries /\ f \in Entries /\ "IDLE" \in ATCStates
    BY EntryTypes DEF ATCStates
  <1>2. e.next \in ATCStates /\ e.said \in BOOLEAN /\ f.said \in BOOLEAN
    BY <1>1 DEF Entries
  <1>. HIDE DEF e, f
  <1>3. Keeps(h, transition_to(h, e.next, t)) /\ Keeps(h, transition_to(h, "IDLE", t))
    BY <1>1, <1>2, TransitionKeeps
  <1>4. QED BY <1>2, <1>3, PlainReplies DEF handle_info_flow, handle_unicom_flow, e, f

\* The two guards that move the state with the frequency.
LEMMA FrequencyGuardsKeep ==
    ASSUME NEW h, Sound(h), NEW c, NEW t \in Nat
    PROVE  /\ Keeps(h, apply_state_frequency_validity(h, c, t))
           /\ Keeps(h, apply_frequency_auto_corrections(h, c, t))
  <1> DEFINE n == state_name(h)
  <1>1. Keeps(h, transition_to(h, "IDLE", t))
    BY TransitionKeeps DEF ATCStates
  <1>2. n \in DOMAIN FrequencyAutoCorrections
           => Keeps(h, transition_to(h, FrequencyAutoCorrections[n].next, t))
    BY TransitionKeeps, ProfileAssumption
  <1>3. QED BY <1>1, <1>2, KeepsSelf
            DEF apply_state_frequency_validity, apply_frequency_auto_corrections

\* The rewrites of the intent leave a message.
LEMMA MessageTypes ==
    ASSUME NEW h, NEW m \in Messages, NEW c
    PROVE  promote(h, m) \in Messages /\ tower_only_initial_collapse(h, m, c) \in Messages
  <1> DEFINE v == [m EXCEPT !.intent = "READY_FOR_DEPARTURE_VFR"]
             w == [m EXCEPT !.intent = "INITIAL_CALL_GROUND"]
  <1>1. /\ "READY_FOR_DEPARTURE_VFR" \in Intents
        /\ "INITIAL_CALL_GROUND" \in Intents
    BY DEF Intents
  <1>2. v \in Messages /\ w \in Messages
    BY <1>1 DEF Messages
  <1>. HIDE DEF v, w
  <1>3. promote(h, m) \in {m, v} /\ tower_only_initial_collapse(h, m, c) \in {m, w}
    BY DEF promote, tower_only_initial_collapse, v, w
  <1>4. QED BY <1>2, <1>3

\* What the template and its overlay owe to the hooks.
LEMMA AnswerTypes ==
    ASSUME NEW h, Sound(h), NEW m \in Messages, NEW c \in Contexts,
           NEW tmpl \in Entries
    PROVE  /\ apply_landing_sequence(tmpl, c) \in Entries
           /\ build_clearance_components(h, m, c, tmpl) \in Clearances
  <1>1. apply_landing_sequence(tmpl, c) \in Entries
    BY DEF apply_landing_sequence, Entries, Elements
  <1>2. get_runway(h, m, c) \in Runways
    BY DEF get_runway, Messages, Contexts, Sound, Machine
  <1>3. {"Callsign"} \cup (clearance_candidates(m.intent) \cap tmpl.issued)
           \in SUBSET Elements
    BY DEF Entries, Elements
  <1>4. QED BY <1>1, <1>2, <1>3 DEF build_clearance_components, Clearances

\* The hooks of the readback: the clearance is stored before it is owed.
LEMMA TrackKeeps ==
    ASSUME NEW h, Sound(h), NEW m, NEW e \in Entries, NEW comp \in Clearances
    PROVE  Keeps(h, track_readback(h, m, e, comp))
  <1> DEFINE s == set_clearance(h, comp)
             a == set_readback_pending(s, TRUE)
             k == IF m.intent = "READBACK" THEN drop_readback(h)
                  ELSE IF e.readback THEN a ELSE h
  <1>1. Keeps(h, s) /\ Sound(s) /\ s.clearance # None
    BY ClearanceKeeps, SetterFields, KeepsSound, ProfileAssumption
  <1>. HIDE DEF s
  <1>2. Keeps(h, a)
    BY <1>1, PendingKeeps, KeepsThen
  <1>. HIDE DEF a
  <1>3. Keeps(h, k) /\ Sound(k)
    BY <1>2, DropReadbackKeeps, KeepsSelf, KeepsSound
  <1>. HIDE DEF k
  <1>4. Keeps(h, drop_readback(k))
    BY <1>3, DropReadbackKeeps, KeepsThen
  <1>5. track_readback(h, m, e, comp) \in {k, drop_readback(k)}
    BY DEF track_readback, k, a, s
  <1>6. QED BY <1>3, <1>4, <1>5

\* The hooks of the locks.
LEMMA LockKeeps ==
    ASSUME NEW h, Sound(h), NEW m \in Messages, NEW c \in Contexts, NEW e
    PROVE  Keeps(h, lock_runway_and_callsign(h, m, c, e))
  <1> DEFINE v == IF m.runway # None THEN m.runway ELSE c.active
             k == IF h.assigned_runway # None THEN h ELSE set_assigned_runway(h, v)
  <1>1. v \in Runways \cup {None} /\ m.callsign \in Callsigns \cup {None}
    BY DEF Messages, Contexts
  <1>. HIDE DEF v
  <1>2. Keeps(h, k) /\ Sound(k)
    BY <1>1, RunwayKeeps, KeepsSelf, KeepsSound
  <1>. HIDE DEF k
  <1>3. Keeps(h, set_session_callsign(k, m.callsign))
    BY <1>1, <1>2, CallsignKeeps, KeepsThen
  <1>4. lock_runway_and_callsign(h, m, c, e)
           \in {h, k, set_session_callsign(k, m.callsign)}
    BY DEF lock_runway_and_callsign, k, v
  <1>5. QED BY <1>2, <1>3, <1>4, KeepsSelf

\* The hook of the transition and of the kind of departure.
LEMMA ApplyTransitionKeeps ==
    ASSUME NEW h, Sound(h), NEW m, NEW e \in Entries, NEW t \in Nat
    PROVE  Keeps(h, apply_transition(h, m, e, t))
  <1> DEFINE k == transition_to(h, e.next, t)
             type == IF m.intent = "READY_FOR_DEPARTURE_VFR" THEN "CROSS_COUNTRY"
                                                             ELSE "PATTERN"
  <1>1. Keeps(h, k) /\ Sound(k)
    BY TransitionKeeps, KeepsSound DEF Entries
  <1>2. type \in {"PATTERN", "CROSS_COUNTRY"}
    OBVIOUS
  <1>. HIDE DEF k, type
  <1>3. Keeps(h, set_departure_type(k, type)) /\ Keeps(h, set_departure_type(k, "PATTERN"))
    BY <1>1, <1>2, DepartureTypeKeeps, KeepsThen
  <1>4. apply_transition(h, m, e, t)
           \in {h, k, set_departure_type(k, type), set_departure_type(k, "PATTERN")}
    BY DEF apply_transition, k, type
  <1>5. QED BY <1>1, <1>3, <1>4, KeepsSelf

\* All hooks in their order.
LEMMA HooksKeep ==
    ASSUME NEW h, Sound(h), NEW m \in Messages, NEW c \in Contexts,
           NEW e \in Entries, NEW comp \in Clearances, NEW t \in Nat
    PROVE  Keeps(h, apply_post_transition_hooks(h, m, c, e, comp, t))
  <1> DEFINE k0 == track_readback(h, m, e, comp)
             k1 == lock_runway_and_callsign(k0, m, c, e)
             k2 == apply_transition(k1, m, e, t)
             k3 == release_locks(k2, e)
             k4 == tower_only_advance(k3, c, t)
  <1>0. Keeps(h, k0) /\ Sound(k0)
    BY TrackKeeps, KeepsSound
  <1>. HIDE DEF k0
  <1>1. Keeps(h, k1) /\ Sound(k1)
    BY <1>0, LockKeeps, KeepsThen, KeepsSound
  <1>. HIDE DEF k1
  <1>2. Keeps(h, k2) /\ Sound(k2)
    BY <1>1, ApplyTransitionKeeps, KeepsThen, KeepsSound
  <1>. HIDE DEF k2
  <1>3. Keeps(h, k3) /\ Sound(k3)
    <2>1. Keeps(k2, k3)
      BY <1>2, ReleaseKeeps, KeepsSelf DEF release_locks
    <2>2. QED BY <1>2, <2>1, KeepsThen, KeepsSound
  <1>. HIDE DEF k3
  <1>4. Keeps(h, k4) /\ Sound(k4)
    <2>1. state_name(k3) \in DOMAIN TowerOnlyAutoAdvance
             => Keeps(k3, transition_to(k3, TowerOnlyAutoAdvance[state_name(k3)], t))
      BY <1>3, TransitionKeeps, ProfileAssumption
    <2>2. Keeps(k3, k4)
      BY <1>3, <2>1, KeepsSelf DEF tower_only_advance
    <2>3. QED BY <1>3, <2>2, KeepsThen, KeepsSound
  <1>. HIDE DEF k4
  <1>5. Keeps(h, set_last_tower_response(k4, TRUE))
    BY <1>4, LastResponseKeeps, KeepsThen
  <1>6. apply_post_transition_hooks(h, m, c, e, comp, t)
           \in {k4, set_last_tower_response(k4, TRUE)}
    BY DEF apply_post_transition_hooks, k0, k1, k2, k3, k4
  <1>7. QED BY <1>4, <1>5, <1>6

\* Template, overlay, strict check and hooks.
LEMMA AnswerReplies ==
    ASSUME NEW h, Sound(h), NEW m \in Messages, NEW c \in Contexts, NEW t \in Nat
    PROVE  Reply(h, answer(h, m, c, t))
  <1> DEFINE tmpl == lookup(state_name(h), m.intent, c.tower_only)
             e == apply_landing_sequence(tmpl, c)
             comp == build_clearance_components(h, m, c, tmpl)
             k == apply_post_transition_hooks(h, m, c, e, comp, t)
             resp == [said |-> e.said, readback |-> e.readback,
                      issued |-> e.issued, runway |-> comp.runway]
  <1>1. tmpl \in Entries
    BY EntryTypes
  <1>. HIDE DEF tmpl
  <1>2. e \in Entries /\ comp \in Clearances
    BY <1>1, AnswerTypes
  <1>. HIDE DEF e, comp
  <1>3. Keeps(h, k)
    BY <1>2, HooksKeep
  <1>4. resp \in Responses
    BY <1>2 DEF Entries, Clearances, Responses
  <1>. HIDE DEF k, resp
  <1>5. strict_check_fails(h, m) => Keeps(h, set_readback_pending(h, TRUE))
    BY PendingKeeps DEF strict_check_fails
  <1>6. CASE strict_check_fails(h, m)
    <2>1. answer(h, m, c, t)
             = [g |-> set_readback_pending(h, TRUE), resp |-> demand(TRUE)]
      BY <1>6 DEF answer
    <2>2. QED BY <1>5, <1>6, <2>1, PlainReplies
  <1>7. CASE ~strict_check_fails(h, m)
    <2>1. answer(h, m, c, t) = [g |-> k, resp |-> resp]
      BY <1>7 DEF answer, tmpl, e, comp, k, resp
    <2>2. QED BY <1>3, <1>4, <2>1 DEF Reply
  <1>8. QED BY <1>6, <1>7

\* Everything behind the frequency guards.
LEMMA OnFrequencyReplies ==
    ASSUME NEW h, Sound(h), NEW m0 \in Messages, NEW c \in Contexts,
           NEW phase0, NEW t \in Nat
    PROVE  Reply(h, process_on_frequency(h, m0, c, phase0, t))
  <1> DEFINE m == tower_only_initial_collapse(h, m0, c)
             k == start_departure_cycle(h, m, c)
             a == answer(k, m, c, t)
  <1>1. m \in Messages
    BY MessageTypes
  <1>. HIDE DEF m
  <1>2. Keeps(h, k) /\ Sound(k)
    BY WasAirborneKeeps, KeepsSelf, KeepsSound DEF start_departure_cycle
  <1>. HIDE DEF k
  <1>3. Reply(k, a)
    BY <1>1, <1>2, AnswerReplies
  <1>. HIDE DEF a
  <1>4. Reply(h, a)
    BY <1>2, <1>3, KeepsThen DEF Reply
  <1>5. process_on_frequency(h, m0, c, phase0, t)
           \in {[g |-> h, resp |-> plain(TRUE)], [g |-> k, resp |-> plain(TRUE)], a}
    BY DEF process_on_frequency, m, k, a
  <1>6. QED BY <1>2, <1>4, <1>5, KeepsSelf, PlainReplies

\* The whole of process(): whatever the profile, the message, the context
\* and the phase.
LEMMA ProcessReplies ==
    ASSUME NEW h, Sound(h), NEW last, NEW m0 \in Messages, NEW c \in Contexts,
           NEW phase0, NEW t \in Nat
    PROVE  Reply(h, process(h, last, m0, c, phase0, t))
  <1> DEFINE m == promote(h, m0)
             g1 == check_airport_change(h, last, c.airport, t)
             g2 == apply_state_reverts(g1, m.intent, t)
             v == apply_state_frequency_validity(g2, c, t)
             g3 == apply_frequency_auto_corrections(v, c, t)
  <1>1. m \in Messages
    BY MessageTypes
  <1>. HIDE DEF m
  <1>2. Keeps(h, g1) /\ Sound(g1)
    BY AirportKeeps, KeepsSound
  <1>. HIDE DEF g1
  <1>3. Keeps(h, g2) /\ Sound(g2)
    BY <1>2, RevertsKeep, KeepsThen, KeepsSound
  <1>. HIDE DEF g2
  <1>4. Keeps(h, v) /\ Sound(v)
    BY <1>3, FrequencyGuardsKeep, KeepsThen, KeepsSound
  <1>. HIDE DEF v
  <1>5. Keeps(h, g3) /\ Sound(g3)
    BY <1>4, FrequencyGuardsKeep, KeepsThen, KeepsSound
  <1>. HIDE DEF g3
  <1>6. Reply(h, handle_negative_correction(g1, t))
    BY <1>2, NegativeReplies, KeepsThen DEF Reply
  <1>7. Reply(h, repeat(g1))
    <2>1. g1.readback_pending \in BOOLEAN
      BY <1>2 DEF Sound, Machine
    <2>2. QED BY <1>2, <2>1, PlainReplies DEF repeat
  <1>8. Reply(h, handle_info_flow(g2, m, t)) /\ Reply(h, handle_unicom_flow(g2, m, c, t))
    BY <1>3, SideFlowsReply, KeepsThen DEF Reply
  <1>9. Reply(h, [g |-> g2, resp |-> plain(TRUE)])
    BY <1>3, PlainReplies
  <1>10. Reply(h, process_on_frequency(g3, m, c, phase0, t))
    BY <1>1, <1>5, OnFrequencyReplies, KeepsThen DEF Reply
  <1>11. process(h, last, m0, c, phase0, t)
            \in {handle_negative_correction(g1, t), repeat(g1),
                 handle_info_flow(g2, m, t), handle_unicom_flow(g2, m, c, t),
                 [g |-> g2, resp |-> plain(TRUE)],
                 process_on_frequency(g3, m, c, phase0, t)}
    BY DEF process, m, g1, g2, v, g3
  <1>12. QED BY <1>6, <1>7, <1>8, <1>9, <1>10, <1>11

\* One entry point counts as one bump.
LEMMA CommitKeeps ==
    ASSUME NEW h, Sound(h), NEW k, Keeps(h, k)
    PROVE  Keeps(h, commit(h, k))
  <1> DEFINE n == IF k.gen = h.gen THEN h.gen ELSE h.gen + 1
             l == [k EXCEPT !.gen = n]
  <1>1. k \in Machine /\ n \in Nat
    BY DEF Keeps, Sound, Machine
  <1>2. n >= h.gen /\ (n = h.gen => k.gen = h.gen)
    BY DEF Sound, Machine
  <1>. HIDE DEF n
  <1>3. /\ l \in Machine /\ l.gen = n /\ semantic(l) = semantic(k)
        /\ l.readback_pending = k.readback_pending /\ l.clearance = k.clearance
        /\ l.history = k.history /\ l.state = k.state
    BY <1>1 DEF Machine, semantic
  <1>4. commit(h, k) = l
    BY DEF commit, n
  <1>. HIDE DEF l
  <1>5. QED BY <1>2, <1>3, <1>4 DEF Keeps, Versioned, Sound

-----------------------------------------------------------------------------
(* The invariant of the specification.                                     *)

\* A pending rollback restores a sound record and expects no future.
GuardSound ==
    guard # None => Sound(guard.snap) /\ guard.expected <= g.gen

IInv ==
    /\ TypeOK /\ Sound(g)
    /\ lm # None => Sound(lm.pre)
    /\ GuardSound /\ GuardSeesEverything

\* A step that keeps the machine and leaves the guard alone.
LEMMA GuardStays ==
    ASSUME IInv, Keeps(g, g'), guard' = guard
    PROVE  GuardSound' /\ GuardSeesEverything' /\ Sound(g)'
           /\ (guard # None => guard.snap \in Machine /\ guard.expected \in Nat)'
  <1>1. Sound(g')
    BY KeepsSound
  <1>2. CASE guard = None
    BY <1>1, <1>2 DEF GuardSound, GuardSeesEverything
  <1>3. CASE guard # None
    <2>1. /\ Sound(guard.snap) /\ guard.expected <= g.gen /\ guard.expected \in Nat
          /\ guard.snap \in Machine /\ g.gen \in Nat /\ g'.gen \in Nat
          /\ g.gen = guard.expected => semantic(g) = guard.after
      BY <1>1, <1>3 DEF IInv, TypeOK, GuardSound, GuardSeesEverything, Sound, Machine
    <2>2. g'.gen >= g.gen /\ (g'.gen = g.gen => semantic(g') = semantic(g))
      BY DEF Keeps, Versioned
    <2>3. guard.expected <= g'.gen
      BY <2>1, <2>2
    <2>4. g'.gen = guard.expected => g'.gen = g.gen
      BY <2>1, <2>2
    <2>5. g'.gen = guard.expected => semantic(g') = guard.after
      BY <2>1, <2>2, <2>4
    <2>6. QED BY <1>1, <2>1, <2>3, <2>5 DEF GuardSound, GuardSeesEverything
  <1>4. QED BY <1>2, <1>3

\* A step that speaks (or not) for the machine it leaves behind.
LEMMA GuardSet ==
    ASSUME IInv, Sound(g'), NEW said, NEW pre, Sound(pre), speak(said, pre, g')
    PROVE  GuardSound' /\ GuardSeesEverything' /\ Sound(g)'
           /\ (guard # None => guard.snap \in Machine /\ guard.expected \in Nat)'
  <1>1. CASE guard' = None
    BY <1>1 DEF GuardSound, GuardSeesEverything
  <1>2. CASE guard' = revert_guard(pre, g')
    <2>1. /\ guard'.snap = pre /\ guard'.expected = g'.gen
          /\ guard'.after = semantic(g')
      BY <1>2 DEF revert_guard
    <2>2. g'.gen \in Nat /\ pre \in Machine
      BY DEF Sound, Machine
    <2>3. QED BY <2>1, <2>2 DEF GuardSound, GuardSeesEverything
  <1>3. QED BY <1>1, <1>2 DEF speak

\* A step that runs the state machine.
LEMMA RunStep ==
    ASSUME IInv, NEW latched, Keeps(g, latched), NEW pre, Sound(pre),
           NEW m \in Messages, NEW c \in Contexts, NEW t \in Nat,
           run_state_machine(latched, pre, m, c, t)
    PROVE  /\ GuardSound' /\ GuardSeesEverything' /\ Sound(g)'
           /\ (guard # None => guard.snap \in Machine /\ guard.expected \in Nat)'
           /\ (last_airport \in Airports \cup {None})'
           /\ (heard \in Hearings \cup {None})'
  <1> DEFINE r == process(latched, last_airport, m, c, phase, t)
             new == commit(g, r.g)
  <1>1. Sound(g) /\ Sound(latched)
    BY KeepsSound DEF IInv
  <1>2. Reply(latched, r)
    BY <1>1, ProcessReplies
  <1>3. Keeps(g, r.g) /\ r.resp \in Responses
    BY <1>1, <1>2, KeepsThen DEF Reply
  <1>4. g' = new /\ last_airport' = next_last_airport(last_airport, c.airport)
        /\ heard' = [m |-> m, c |-> c, phase |-> phase, resp |-> r.resp]
        /\ speak(r.resp.said, pre, new)
    BY DEF run_state_machine
  <1>. HIDE DEF r
  <1>5. Sound(g')
    BY <1>1, <1>3, <1>4, CommitKeeps, KeepsSound
  <1>6. speak(r.resp.said, pre, g')
    BY <1>4
  <1>. HIDE DEF new
  <1>7. heard' \in Hearings /\ last_airport' \in Airports \cup {None}
    BY <1>3, <1>4 DEF Hearings, IInv, TypeOK, next_last_airport, Contexts
  <1>8. QED BY <1>5, <1>6, <1>7, GuardSet

\* The invariant holds when the plugin starts.
LEMMA InitInv == Init => IInv
  <1> SUFFICES ASSUME Init PROVE IInv
    OBVIOUS
  <1>1. Sound(g)
    BY StartedSound DEF Init
  <1>2. 0 \in 0..MaxClock /\ 0 \in 0..MaxOps
    BY DialogueAssumption
  <1>3. g \in Machine /\ "PARKED" \in Phases
    BY <1>1 DEF Sound, Phases
  <1>4. TypeOK
    BY <1>2, <1>3 DEF Init, TypeOK
  <1>5. QED BY <1>1, <1>4 DEF IInv, Init, GuardSound, GuardSeesEverything

\* Counting an operation, and the types of what an operation of the pilot
\* leaves alone.
LEMMA OpsCount ==
    ASSUME TypeOK, ops < MaxOps, ops' = ops + 1
    PROVE  (ops \in 0..MaxOps)'
  BY DialogueAssumption DEF TypeOK

\* The message with another intent, and other words.
LEMMA MessageWith ==
    ASSUME NEW m \in Messages, NEW i \in Intents, NEW r \in SUBSET Elements
    PROVE  /\ [m EXCEPT !.intent = i] \in Messages
           /\ [m EXCEPT !.intent = i, !.read = r] \in Messages
  <1> DEFINE k == [m EXCEPT !.intent = i]
  <1>1. k \in Messages
    BY DEF Messages
  <1>2. [k EXCEPT !.read = r] = [m EXCEPT !.intent = i, !.read = r]
    OBVIOUS
  <1>. HIDE DEF k
  <1>3. [k EXCEPT !.read = r] \in Messages
    BY <1>1 DEF Messages
  <1>4. QED BY <1>1, <1>2, <1>3 DEF k

\* The vocabulary given to the language model consists of intents.
LEMMA ValidIntents ==
    ASSUME NEW h, NEW c
    PROVE  valid_intents(h, c) \in SUBSET (Intents \cup {"_INVALID"})
  <1>1. TrafficIntents \subseteq Intents /\ "UNKNOWN" \in Intents
    BY DEF TrafficIntents, Intents
  <1>. DEFINE T == IF state_name(h) \in DOMAIN TowerOnlyTemplates
                   THEN {"UNKNOWN"} ELSE {}
  <1>2. T \subseteq Intents
    BY <1>1
  <1>. HIDE DEF T
  <1>3. \E B : valid_intents(h, c) = (B \cap Intents) \cup TrafficIntents
                                        \cup {"_INVALID"} \cup T
    BY DEF valid_intents, T
  <1>4. QED BY <1>1, <1>2, <1>3

\* What the entry points of transmissions have in common.
LEMMA RunKeepsInv ==
    ASSUME IInv, NEW latched, Keeps(g, latched), NEW pre, Sound(pre),
           NEW m \in Messages, NEW c \in Contexts, NEW t \in Nat,
           run_state_machine(latched, pre, m, c, t),
           phase' = phase, flown' = flown, clock' = clock,
           lm' = lm \/ lm' = None, (ops \in 0..MaxOps)'
    PROVE  IInv'
  <1>1. /\ GuardSound' /\ GuardSeesEverything' /\ Sound(g)'
        /\ (guard # None => guard.snap \in Machine /\ guard.expected \in Nat)'
        /\ (last_airport \in Airports \cup {None})'
        /\ (heard \in Hearings \cup {None})'
    BY RunStep
  <1>2. TypeOK'
    BY <1>1 DEF IInv, TypeOK, Sound
  <1>3. (lm # None => Sound(lm.pre))'
    BY DEF IInv
  <1>4. QED BY <1>1, <1>2, <1>3 DEF IInv

\* What the answers outside the state machine have in common.
LEMMA AsideKeepsInv ==
    ASSUME IInv, Sound(g'), NEW said, NEW pre, Sound(pre), speak(said, pre, g'),
           last_airport' = last_airport, phase' = phase, flown' = flown,
           clock' = clock, lm' = lm \/ lm' = None, heard' = None,
           (ops \in 0..MaxOps)'
    PROVE  IInv'
  <1>1. GuardSound' /\ GuardSeesEverything' /\ Sound(g)'
        /\ (guard # None => guard.snap \in Machine /\ guard.expected \in Nat)'
    BY GuardSet
  <1>2. TypeOK'
    BY <1>1 DEF IInv, TypeOK, Sound
  <1>3. (lm # None => Sound(lm.pre))'
    BY DEF IInv
  <1>4. QED BY <1>1, <1>2, <1>3 DEF IInv

\* A step that leaves the guard alone: frames, buttons, a new flight.
LEMMA QuietKeepsInv ==
    ASSUME IInv, Keeps(g, g'), guard' = guard, lm' = lm, heard' = None,
           (last_airport \in Airports \cup {None})', (phase \in Phases)',
           (flown \in BOOLEAN)', (clock \in 0..MaxClock)', (ops \in 0..MaxOps)'
    PROVE  IInv'
  <1>1. GuardSound' /\ GuardSeesEverything' /\ Sound(g)'
        /\ (guard # None => guard.snap \in Machine /\ guard.expected \in Nat)'
    BY GuardStays
  <1>2. TypeOK'
    BY <1>1 DEF IInv, TypeOK, Sound
  <1>3. (lm # None => Sound(lm.pre))'
    BY DEF IInv
  <1>4. QED BY <1>1, <1>2, <1>3 DEF IInv

\* The pilot's transmissions.
LEMMA TransmissionKeepsInv ==
    ASSUME IInv, NEW m \in Calls, NEW c \in Surroundings,
           HearReadback(m, c) \/ HearCall(m, c)
    PROVE  IInv'
  <1>1. Sound(g) /\ m \in Messages /\ c \in Contexts /\ clock \in Nat
        /\ "READBACK" \in Intents
    BY DialogueAssumption DEF IInv, TypeOK, Intents
  <1>2. Keeps(g, latch_flight_intent(g, m))
    BY <1>1, LatchKeeps
  <1>3. (ops \in 0..MaxOps)'
    BY OpsCount DEF IInv, HearReadback, HearCall, CanTransmit
  <1>4. [m EXCEPT !.intent = "READBACK"] \in Messages
    BY <1>1, MessageWith
  <1>5. CASE HearReadback(m, c)
    BY <1>1, <1>2, <1>3, <1>4, <1>5, RunKeepsInv DEF HearReadback
  <1>6. CASE HearCall(m, c)
    BY <1>1, <1>2, <1>3, <1>6, RunKeepsInv DEF HearCall
  <1>7. QED BY <1>5, <1>6

\* The question to the language model.
LEMMA AskKeepsInv ==
    ASSUME IInv, NEW m \in Calls, NEW c \in Surroundings, AskLm(m, c)
    PROVE  IInv'
  <1> DEFINE new == commit(g, latch_flight_intent(g, m))
  <1>1. Sound(g) /\ m \in Messages /\ c \in Contexts /\ clock \in Nat
    BY DialogueAssumption DEF IInv, TypeOK
  <1>2. Keeps(g, new)
    BY <1>1, LatchKeeps, CommitKeeps
  <1>3. /\ g' = new
        /\ lm' = [m |-> m, c |-> c, at |-> clock, pending |-> new.readback_pending,
                  valid |-> valid_intents(new, c), pre |-> g]
        /\ guard' = guard /\ heard' = None
    BY DEF AskLm
  <1>. HIDE DEF new
  <1>4. new.readback_pending \in BOOLEAN /\ g \in Machine
    BY <1>1, <1>2 DEF Keeps, Sound, Machine
  <1>5. valid_intents(new, c) \in SUBSET (Intents \cup {"_INVALID"})
    BY ValidIntents
  <1>6. lm' \in Questions /\ lm'.pre = g
    BY <1>1, <1>3, <1>4, <1>5 DEF Questions
  <1>7. GuardSound' /\ GuardSeesEverything' /\ Sound(g)'
        /\ (guard # None => guard.snap \in Machine /\ guard.expected \in Nat)'
    BY <1>2, <1>3, GuardStays
  <1>8. (ops \in 0..MaxOps)'
    BY OpsCount DEF IInv, AskLm, CanTransmit
  <1>9. TypeOK'
    BY <1>3, <1>6, <1>7, <1>8 DEF IInv, TypeOK, Sound, AskLm
  <1>10. QED BY <1>1, <1>6, <1>7, <1>9 DEF IInv

\* Answers outside the state machine.
LEMMA AnswerAsideKeepsInv ==
    ASSUME IInv, NEW m \in Calls, AnswerAside(m)
    PROVE  IInv'
  <1>1. Sound(g) /\ m \in Messages
    BY DialogueAssumption DEF IInv
  <1>2. (ops \in 0..MaxOps)'
    BY OpsCount DEF IInv, AnswerAside, CanTransmit
  <1>3. Sound(g')
    BY <1>1, LatchKeeps, CommitKeeps, KeepsSound DEF AnswerAside
  <1>4. speak(TRUE, g, g') \/ speak(FALSE, g, g')
    BY DEF AnswerAside
  <1>5. QED BY <1>1, <1>2, <1>3, <1>4, AsideKeepsInv DEF AnswerAside

\* The answers of the language model: they find the machine as frames and
\* buttons left it, and the snapshot of the question is still sound.
LEMMA LmKeepsInv ==
    ASSUME IInv, (\E i \in Intents : LmAnswers(i)) \/ LmInvalidReadback \/ LmAside
    PROVE  IInv'
  <1>1. Sound(g) /\ Keeps(g, g) /\ ops \in 0..MaxOps
    BY KeepsSelf DEF IInv, TypeOK
  <1>2. lm # None /\ lm \in Questions /\ Sound(lm.pre)
    BY DEF IInv, TypeOK, LmAnswers, LmInvalidReadback, LmAside
  <1>3. lm.m \in Messages /\ lm.c \in Contexts /\ lm.at \in Nat
        /\ lm.m.read \in SUBSET Elements
    BY <1>2 DEF Questions, Messages
  <1>4. ASSUME NEW i \in Intents, LmAnswers(i) PROVE IInv'
    <2>1. PICK read \in Repairs \cup {lm.m.read} :
            run_state_machine(g, lm.pre,
               [lm.m EXCEPT !.intent = i, !.read = read], lm.c, lm.at)
      BY <1>4 DEF LmAnswers
    <2>2. read \in SUBSET Elements
      BY <1>3, DialogueAssumption
    <2>3. [lm.m EXCEPT !.intent = i, !.read = read] \in Messages
      BY <1>3, <2>2, MessageWith
    <2>4. QED BY <1>1, <1>2, <1>3, <1>4, <2>1, <2>3, RunKeepsInv DEF LmAnswers
  <1>5. CASE LmInvalidReadback
    <2>1. [lm.m EXCEPT !.intent = "READBACK"] \in Messages
      BY <1>3, MessageWith DEF Intents
    <2>2. QED BY <1>1, <1>2, <1>3, <1>5, <2>1, RunKeepsInv DEF LmInvalidReadback
  <1>6. CASE LmAside
    <2>1. g' = g /\ \E said \in BOOLEAN : speak(said, lm.pre, g)
      BY <1>6 DEF LmAside
    <2>2. PICK said \in BOOLEAN : speak(said, lm.pre, g')
      BY <2>1
    <2>3. Sound(g')
      BY <1>1, <2>1
    <2>4. QED BY <1>1, <1>2, <1>6, <2>2, <2>3, AsideKeepsInv DEF LmAside
  <1>7. QED BY <1>4, <1>5, <1>6

\* The reply is heard, or the rollback runs.
LEMMA ReplyKeepsInv ==
    ASSUME IInv, ReplyHeard \/ ReplyLost
    PROVE  IInv'
  <1>1. Sound(g')
    <2>1. CASE ReplyHeard
      BY <2>1 DEF ReplyHeard, IInv
    <2>2. CASE ReplyLost
      <3>. DEFINE s == guard.snap
                  n == g.gen + 1
                  k == [s EXCEPT !.gen = n]
      <3>1. Sound(g) /\ Sound(s)
        BY <2>2 DEF ReplyLost, IInv, GuardSound
      <3>2. n \in Nat /\ s \in Machine
        BY <3>1 DEF Sound, Machine
      <3>3. g' \in {g, k}
        BY <2>2 DEF ReplyLost, restore_snapshot_if_gen
      <3>. HIDE DEF n, s
      <3>4. /\ k \in Machine /\ k.history = s.history /\ k.state = s.state
            /\ k.readback_pending = s.readback_pending /\ k.clearance = s.clearance
        BY <3>2 DEF Machine
      <3>. HIDE DEF k
      <3>5. Sound(k)
        BY <3>1, <3>4 DEF Sound
      <3>6. QED BY <3>1, <3>3, <3>5
    <2>3. QED BY <2>1, <2>2
  <1>2. /\ guard' = None /\ heard' = None /\ lm' = lm /\ ops' = ops
        /\ last_airport' = last_airport /\ phase' = phase /\ flown' = flown
        /\ clock' = clock
    BY DEF ReplyHeard, ReplyLost
  <1>3. speak(FALSE, g, g')
    BY <1>2 DEF speak
  <1>4. Sound(g) /\ (ops \in 0..MaxOps)'
    BY <1>2 DEF IInv, TypeOK
  <1>5. QED BY <1>1, <1>2, <1>3, <1>4, AsideKeepsInv

\* A frame bumps the generation if it changes anything.
LEMMA FrameKeeps ==
    ASSUME IInv, NEW a \in Airports \cup {None}, NEW p \in FlownPhases, Frame(a, p)
    PROVE  Keeps(g, g')
  <1> DEFINE g1 == IF {phase, p} \cap Airborne # {} THEN set_was_airborne(g, TRUE)
                   ELSE g
             g2 == check_auto_correction(g1, p, clock)
             g3 == check_airport_change(g2, last_airport, a, clock)
  <1>1. Sound(g) /\ clock \in Nat /\ p \in Phases
    BY DialogueAssumption DEF IInv, TypeOK
  <1>2. Keeps(g, g1) /\ Sound(g1)
    BY <1>1, WasAirborneKeeps, KeepsSelf, KeepsSound
  <1>3. g' = commit(g, g3)
    BY DEF Frame
  <1>. HIDE DEF g1
  <1>4. Keeps(g, g2) /\ Sound(g2)
    BY <1>1, <1>2, CorrectionCheckKeeps, KeepsThen, KeepsSound
  <1>. HIDE DEF g2
  <1>5. Keeps(g, g3)
    BY <1>1, <1>4, AirportKeeps, KeepsThen
  <1>. HIDE DEF g3
  <1>6. QED BY <1>1, <1>3, <1>5, CommitKeeps

\* A frame keeps the invariant.
LEMMA FrameKeepsInv ==
    ASSUME IInv, NEW a \in Airports \cup {None}, NEW p \in FlownPhases, Frame(a, p)
    PROVE  IInv'
  <1>1. clock \in 0..MaxClock /\ flown \in BOOLEAN
        /\ ops \in 0..MaxOps /\ last_airport \in Airports \cup {None} /\ p \in Phases
    BY DialogueAssumption DEF IInv, TypeOK
  <1>2. Keeps(g, g')
    BY FrameKeeps
  <1>3. /\ (clock \in 0..MaxClock)' /\ (flown \in BOOLEAN)'
        /\ (last_airport \in Airports \cup {None})'
        /\ (ops \in 0..MaxOps)' /\ (phase \in Phases)'
    <2>1. clock' = IF clock < MaxClock THEN clock + 1 ELSE clock
      BY DEF Frame
    <2>2. (clock \in 0..MaxClock)'
      BY <1>1, <2>1, DialogueAssumption
    <2>3. flown' \in {TRUE, FALSE, flown}
      BY DEF Frame
    <2>4. (flown \in BOOLEAN)'
      BY <1>1, <2>3
    <2>5. /\ last_airport' = next_last_airport(last_airport, a)
          /\ ops' = ops /\ phase' = p
      BY DEF Frame
    <2>6. QED BY <1>1, <2>2, <2>4, <2>5 DEF next_last_airport
  <1>4. guard' = guard /\ lm' = lm /\ heard' = None
    BY DEF Frame
  <1>5. QED BY <1>2, <1>3, <1>4, QuietKeepsInv

\* The buttons and a newly loaded airport or aircraft.
Click ==
    \/ \E near \in BOOLEAN : Disregard(near)
    \/ NewFlightButton
    \/ \E on_ground \in BOOLEAN : FreshFlight(on_ground)

\* They bump the generation if they change anything.
LEMMA ClickKeeps == ASSUME IInv, Click PROVE Keeps(g, g')
  <1>1. Sound(g) /\ clock \in Nat
    BY DialogueAssumption DEF IInv, TypeOK
  <1>2. ASSUME NEW near \in BOOLEAN, Disregard(near) PROVE Keeps(g, g')
    BY <1>1, <1>2, DisregardKeeps, CommitKeeps DEF Disregard
  <1>3. CASE NewFlightButton
    BY <1>1, <1>3, WasAirborneKeeps DEF NewFlightButton
  <1>4. ASSUME NEW on_ground \in BOOLEAN, FreshFlight(on_ground)
        PROVE  Keeps(g, g')
    BY <1>1, <1>4, FreshFlightKeeps DEF FreshFlight
  <1>5. QED BY <1>2, <1>3, <1>4 DEF Click

\* They keep the invariant.
LEMMA ClickKeepsInv == ASSUME IInv, Click PROVE IInv'
  <1>1. Keeps(g, g')
    BY ClickKeeps
  <1>2. /\ guard' = guard /\ lm' = lm /\ heard' = None /\ phase' = phase
        /\ flown' = flown /\ clock' = clock
        /\ last_airport' \in {last_airport, None}
        /\ ops < MaxOps /\ ops' = ops + 1
    BY DEF Click, Disregard, NewFlightButton, FreshFlight
  <1>3. (ops \in 0..MaxOps)'
    BY <1>2, OpsCount DEF IInv
  <1>4. /\ (last_airport \in Airports \cup {None})' /\ (phase \in Phases)'
        /\ (flown \in BOOLEAN)' /\ (clock \in 0..MaxClock)'
    BY <1>2 DEF IInv, TypeOK
  <1>5. QED BY <1>1, <1>2, <1>3, <1>4, QuietKeepsInv

\* Every step keeps the invariant.
LEMMA NextInv == IInv /\ [Next]_vars => IInv'
  <1> SUFFICES ASSUME IInv, [Next]_vars PROVE IInv'
    OBVIOUS
  <1>1. ASSUME NEW m \in Calls, NEW c \in Surroundings,
               HearReadback(m, c) \/ HearCall(m, c)
        PROVE  IInv'
    BY <1>1, TransmissionKeepsInv
  <1>2. ASSUME NEW m \in Calls, NEW c \in Surroundings, AskLm(m, c) PROVE IInv'
    BY <1>2, AskKeepsInv
  <1>3. ASSUME NEW m \in Calls, AnswerAside(m) PROVE IInv'
    BY <1>3, AnswerAsideKeepsInv
  <1>4. CASE Garbled
    <2>1. g' = g /\ Sound(g) /\ speak(TRUE, g, g)
      BY <1>4 DEF Garbled, IInv
    <2>2. Sound(g') /\ speak(TRUE, g, g')
      BY <2>1
    <2>3. (ops \in 0..MaxOps)'
      BY <1>4, OpsCount DEF IInv, Garbled, CanTransmit
    <2>4. QED BY <1>4, <2>1, <2>2, <2>3, AsideKeepsInv DEF Garbled
  <1>5. CASE (\E i \in Intents : LmAnswers(i)) \/ LmInvalidReadback \/ LmAside
    BY <1>5, LmKeepsInv
  <1>6. CASE ReplyHeard \/ ReplyLost
    BY <1>6, ReplyKeepsInv
  <1>7. ASSUME NEW a \in Airports \cup {None}, NEW p \in FlownPhases, Frame(a, p)
        PROVE  IInv'
    BY <1>7, FrameKeepsInv
  <1>8. CASE Click
    BY <1>8, ClickKeepsInv
  <1>9. CASE UNCHANGED vars
    BY <1>9 DEF vars, IInv, TypeOK, Sound, GuardSound, GuardSeesEverything
  <1>10. QED
    BY <1>1, <1>2, <1>3, <1>4, <1>5, <1>6, <1>7, <1>8, <1>9 DEF Next, Click

\* The invariant, for every behaviour.
LEMMA Invariant == Spec => []IInv
  BY InitInv, NextInv, PTL DEF Spec

-----------------------------------------------------------------------------
(* The theorems.                                                           *)

\* The fields of g_state, the context of the language model's question and
\* the snapshot of a pending rollback keep their types, for every profile.
THEOREM TypeCorrect == Spec => []TypeOK
  <1>1. IInv => TypeOK
    BY DEF IInv
  <1>2. QED BY <1>1, Invariant, PTL

\* A readback that is owed can always be given: no path of process(), no
\* frame, button, late answer or rollback leaves is_readback_pending() set
\* without the clearance it is compared with.
THEOREM ReadbackArmed == Spec => []ArmedWithClearance
  <1>1. IInv => ArmedWithClearance
    BY DEF IInv, Sound, ArmedWithClearance
  <1>2. QED BY <1>1, Invariant, PTL

\* The history of states never records a state twice in a row, never ends
\* in the current state and stays within kHistoryCap.
THEOREM HistoryIsChain == Spec => []HistoryChain
  <1>1. IInv => HistoryChain
    BY DEF IInv, Sound, Chain, HistoryChain
  <1>2. QED BY <1>1, Invariant, PTL

\* The generation counter is sound: when the rollback of an unheard reply
\* finds the generation it expects, nothing but that reply has changed the
\* machine since, so it undoes nothing else.
THEOREM GuardComplete == Spec => []GuardSeesEverything
  <1>1. IInv => GuardSeesEverything
    BY DEF IInv
  <1>2. QED BY <1>1, Invariant, PTL

-----------------------------------------------------------------------------
(* Refinement of the promise of the rollback (UnheardReply).               *)

\* One transmission at a time: a question to the model and a reply not yet
\* heard never coexist.
OneTransmission == lm = None \/ guard = None

\* Every step keeps it: the pilot speaks only when neither is outstanding.
LEMMA OneAtATime == OneTransmission /\ [Next]_vars => OneTransmission'
  <1> SUFFICES ASSUME OneTransmission, [Next]_vars PROVE OneTransmission'
    OBVIOUS
  <1>1. ASSUME NEW m \in Calls, NEW c \in Surroundings,
               HearReadback(m, c) \/ HearCall(m, c) \/ AskLm(m, c)
        PROVE  lm' = None \/ guard' = None
    BY <1>1 DEF HearReadback, HearCall, AskLm, CanTransmit
  <1>2. ASSUME NEW m \in Calls, AnswerAside(m) PROVE lm' = None
    BY <1>2 DEF AnswerAside, CanTransmit
  <1>3. CASE Garbled
    BY <1>3 DEF Garbled, CanTransmit, OneTransmission
  <1>4. CASE (\E i \in Intents : LmAnswers(i)) \/ LmInvalidReadback \/ LmAside
    BY <1>4 DEF LmAnswers, LmInvalidReadback, LmAside, OneTransmission
  <1>5. CASE ReplyHeard \/ ReplyLost
    BY <1>5 DEF ReplyHeard, ReplyLost, OneTransmission
  <1>6. ASSUME NEW a, NEW p, Frame(a, p) PROVE guard' = guard /\ lm' = lm
    BY <1>6 DEF Frame
  <1>7. CASE Click \/ UNCHANGED vars
    BY <1>7 DEF Click, Disregard, NewFlightButton, FreshFlight, vars,
                OneTransmission
  <1>8. QED
    BY <1>1, <1>2, <1>3, <1>4, <1>5, <1>6, <1>7 DEF Next, Click, OneTransmission

\* A transmission that is answered, by rule or by the model: the loss of its
\* reply would bring back what was known when the pilot spoke.
LEMMA SpeakAnswers ==
    ASSUME guard = None, lm' = None, NEW said, NEW pre, speak(said, pre, g'),
           semantic(pre) \in IF Asked = {} THEN {semantic(g)} ELSE Asked
    PROVE  Promise!Answer
  <1>1. Unspoken = {} /\ Asked' = {}
    BY DEF Unspoken, Asked
  <1>2. Unspoken' = {} \/ Unspoken' = Promise!Unheard(semantic(pre))
    <2>1. CASE guard' = None
      BY <2>1 DEF Unspoken
    <2>2. CASE guard' = revert_guard(pre, g')
      <3>1. guard'.snap = pre /\ guard'.expected = g'.gen
        BY <2>2 DEF revert_guard
      <3>2. (g'.gen # guard'.expected) = FALSE
        BY <3>1
      <3>3. QED
        BY <3>1, <3>2 DEF Unspoken, Promise!Unheard
    <2>3. QED BY <2>1, <2>2 DEF speak
  <1>3. QED BY <1>1, <1>2 DEF Promise!Answer

\* Whatever frames and buttons do is noticed by the reply on its way, or
\* changes nothing that it could bring back.
LEMMA ElsewhereNoticed ==
    ASSUME IInv, Keeps(g, g'), guard' = guard, lm' = lm
    PROVE  [Promise!UNext]_(Promise!uvars)
  <1>1. Asked' = Asked
    BY DEF Asked
  <1>2. /\ g.gen \in Nat /\ g'.gen \in Nat /\ g'.gen >= g.gen
        /\ g'.gen = g.gen => semantic(g') = semantic(g)
    BY DEF IInv, Keeps, Sound, Versioned, Machine
  <1>3. CASE g'.gen = g.gen
    <2>1. Unspoken' = Unspoken
      BY <1>3 DEF Unspoken
    <2>2. QED BY <1>1, <1>2, <1>3, <2>1 DEF Promise!uvars
  <1>4. CASE guard = None
    <2>1. Unspoken = {} /\ Unspoken' = {}
      BY <1>4 DEF Unspoken
    <2>2. QED BY <1>1, <2>1 DEF Promise!Elsewhere, Promise!UNext
  <1>5. CASE guard # None /\ g'.gen # g.gen
    <2>1. guard.expected <= g.gen /\ guard.expected \in Nat
      BY <1>5 DEF IInv, TypeOK, GuardSound
    <2>2. (g'.gen # guard.expected) = TRUE
      BY <1>2, <1>5, <2>1
    <2>3. Unspoken' = {[before |-> semantic(guard.snap), moved |-> TRUE]}
      BY <1>5, <2>2 DEF Unspoken
    <2> DEFINE b == semantic(guard.snap)
               u == [before |-> b, moved |-> g.gen # guard.expected]
    <2>4. Unspoken = {u}
      BY <1>5 DEF Unspoken
    <2>5. u.before = b
      OBVIOUS
    <2> HIDE DEF u, b
    <2>6. Unspoken # {} /\ \A r \in Unspoken : r.before = b
      BY <2>4, <2>5
    <2>7. Unspoken' = {[before |-> r.before, moved |-> TRUE] : r \in Unspoken}
      BY <2>3, <2>6 DEF b
    <2>8. QED BY <1>1, <2>7 DEF Promise!Elsewhere, Promise!UNext
  <1>6. QED BY <1>3, <1>4, <1>5

\* The generation is no part of what a snapshot protects.
LEMMA GenerationAside ==
    ASSUME NEW h \in Machine, NEW n \in Nat
    PROVE  semantic([h EXCEPT !.gen = n]) = semantic(h)
  BY DEF Machine, semantic

\* The reply is heard, or given up.
LEMMA ReplyEnds ==
    ASSUME IInv, ReplyHeard \/ ReplyLost
    PROVE  Promise!Heard \/ Promise!Lost
  <1>1. /\ guard # None /\ guard' = None /\ lm' = lm
        /\ guard.snap \in Machine /\ guard.expected \in Nat
        /\ g.gen \in Nat
    BY DEF ReplyHeard, ReplyLost, IInv, TypeOK, Machine
  <1>2. Asked' = Asked /\ Unspoken' = {}
    BY <1>1 DEF Asked, Unspoken
  <1>3. Unspoken = {[before |-> semantic(guard.snap),
                     moved |-> g.gen # guard.expected]}
    BY <1>1 DEF Unspoken
  <1>4. CASE ReplyHeard
    BY <1>2, <1>3, <1>4 DEF ReplyHeard, Promise!Heard
  <1>5. CASE ReplyLost
    <2>1. g' = restore_snapshot_if_gen(g, guard.snap, guard.expected)
      BY <1>5 DEF ReplyLost
    <2>2. semantic(g') = IF g.gen # guard.expected THEN semantic(g)
                                                    ELSE semantic(guard.snap)
      <3>1. CASE g.gen # guard.expected
        BY <2>1, <3>1 DEF restore_snapshot_if_gen
      <3>2. CASE g.gen = guard.expected
        <4>1. g' = [guard.snap EXCEPT !.gen = g.gen + 1] /\ g.gen + 1 \in Nat
          BY <1>1, <2>1, <3>2 DEF restore_snapshot_if_gen
        <4>2. semantic(g') = semantic(guard.snap)
          BY <1>1, <4>1, GenerationAside
        <4>3. QED BY <3>2, <4>2
      <3>3. QED BY <3>1, <3>2
    <2>3. QED BY <1>2, <1>3, <2>2 DEF Promise!Lost
  <1>6. QED BY <1>4, <1>5

\* Every step of the dialogue is a step of UnheardReply, or leaves what that
\* specification speaks about alone.
LEMMA DialoguePromiseStep ==
    ASSUME IInv, OneTransmission, [Next]_vars
    PROVE  [Promise!UNext]_(Promise!uvars)
  <1>c. CanTransmit => lm = None /\ guard = None /\ Asked = {} /\ Unspoken = {}
    BY DEF CanTransmit, Asked, Unspoken
  <1>r. ASSUME NEW latched, NEW pre, NEW m, NEW c, NEW t,
               run_state_machine(latched, pre, m, c, t)
        PROVE  \E said : speak(said, pre, g')
    BY <1>r DEF run_state_machine
  <1>1. ASSUME NEW m \in Calls, NEW c \in Surroundings,
               HearReadback(m, c) \/ HearCall(m, c)
        PROVE  Promise!Answer
    <2>1. CanTransmit /\ lm' = lm /\ \E said : speak(said, g, g')
      BY <1>1, <1>r DEF HearReadback, HearCall
    <2>2. QED BY <1>c, <2>1, SpeakAnswers
  <1>2. ASSUME NEW m \in Calls, NEW c \in Surroundings, AskLm(m, c)
        PROVE  Promise!Ask \/ Promise!Answer
    <2>1. CanTransmit /\ guard' = guard /\ lm'.pre = g
      BY <1>2 DEF AskLm
    <2>2. Unspoken' = {}
      BY <1>c, <2>1 DEF Unspoken
    <2>3. Asked' = {} \/ Asked' = {semantic(g)}
      BY <2>1 DEF Asked
    <2>4. QED BY <1>c, <2>1, <2>2, <2>3 DEF Promise!Ask, Promise!Answer
  <1>3. ASSUME NEW m \in Calls, AnswerAside(m) PROVE Promise!Answer
    <2>1. CanTransmit /\ lm' = lm /\ \E said : speak(said, g, g')
      BY <1>3 DEF AnswerAside
    <2>2. QED BY <1>c, <2>1, SpeakAnswers
  <1>4. CASE Garbled
    <2>1. CanTransmit /\ lm' = lm /\ g' = g /\ speak(TRUE, g, g)
      BY <1>4 DEF Garbled
    <2>2. speak(TRUE, g, g')
      BY <2>1
    <2>3. Promise!Answer
      BY <1>c, <2>1, <2>2, SpeakAnswers
    <2>4. QED BY <2>3 DEF Promise!UNext
  <1>5. CASE (\E i \in Intents : LmAnswers(i)) \/ LmInvalidReadback \/ LmAside
    <2>1. lm # None /\ guard = None /\ lm' = None
      BY <1>5 DEF LmAnswers, LmInvalidReadback, LmAside, OneTransmission
    <2>2. PICK said : speak(said, lm.pre, g')
      <3>1. CASE (\E i \in Intents : LmAnswers(i)) \/ LmInvalidReadback
        BY <1>r, <3>1 DEF LmAnswers, LmInvalidReadback
      <3>2. CASE LmAside
        <4>1. g' = g /\ \E said \in BOOLEAN : speak(said, lm.pre, g)
          BY <3>2 DEF LmAside
        <4>2. QED BY <4>1
      <3>3. QED BY <1>5, <3>1, <3>2
    <2>3. Asked = {semantic(lm.pre)}
      BY <2>1 DEF Asked
    <2>4. Promise!Answer
      BY <2>1, <2>2, <2>3, SpeakAnswers
    <2>5. QED BY <2>4 DEF Promise!UNext
  <1>6. CASE ReplyHeard \/ ReplyLost
    BY <1>6, ReplyEnds DEF Promise!UNext
  <1>7. ASSUME NEW a \in Airports \cup {None}, NEW p \in FlownPhases, Frame(a, p)
        PROVE  [Promise!UNext]_(Promise!uvars)
    <2>1. guard' = guard /\ lm' = lm
      BY <1>7 DEF Frame
    <2>2. QED BY <1>7, <2>1, FrameKeeps, ElsewhereNoticed
  <1>8. CASE Click
    <2>1. guard' = guard /\ lm' = lm
      BY <1>8 DEF Click, Disregard, NewFlightButton, FreshFlight
    <2>2. QED BY <1>8, <2>1, ClickKeeps, ElsewhereNoticed
  <1>9. CASE UNCHANGED vars
    BY <1>9 DEF vars, Promise!uvars, Asked, Unspoken
  <1>10. QED
    BY <1>1, <1>2, <1>3, <1>4, <1>5, <1>6, <1>7, <1>8, <1>9
       DEF Next, Click, Promise!UNext

\* The dialogue implements UnheardReply, for every profile: a reply that is
\* not heard takes all of g_state back to what it was when the pilot spoke,
\* unless a frame, a button or a new flight changed it since, which is then
\* never undone (generation_ and restore_snapshot_if_gen).
THEOREM DialoguePromise == Spec => DialogueKeepsPromise
  <1>1. Init => Promise!UInit /\ OneTransmission
    BY DEF Init, Promise!UInit, Asked, Unspoken, OneTransmission
  <1>2. IInv /\ OneTransmission /\ [Next]_vars
          => [Promise!UNext]_(Promise!uvars)
    BY DialoguePromiseStep
  <1>3. QED
    BY <1>1, <1>2, OneAtATime, Invariant, PTL
       DEF Spec, DialogueKeepsPromise, Promise!USpec

-----------------------------------------------------------------------------
(* What the functions do to the fields that steer the dialogue.            *)

\* k differs from h in none of the fields the dialogue is steered by.
Same(h, k) ==
    /\ k.state = h.state /\ k.departure_type = h.departure_type
    /\ k.flight_intent = h.flight_intent
    /\ k.readback_pending = h.readback_pending /\ k.clearance = h.clearance

\* The counter is none of them.
LEMMA BumpSame ==
    ASSUME NEW h \in Machine PROVE bump_gen(h) \in Machine /\ Same(h, bump_gen(h))
  <1> DEFINE n == h.gen + 1
             b == [h EXCEPT !.gen = n]
  <1>1. n \in Nat
    BY DEF Machine
  <1>. HIDE DEF n
  <1>2. b \in Machine /\ Same(h, b)
    BY <1>1 DEF Machine, Same
  <1>3. bump_gen(h) = b
    BY DEF bump_gen, n
  <1>. HIDE DEF b
  <1>4. QED BY <1>2, <1>3

\* Nor are the locks, the stored answer, the heartbeat and was_airborne.
LEMMA BookkeepingSame ==
    ASSUME NEW h \in Machine, NEW v, NEW w
    PROVE  /\ Same(h, set_assigned_runway(h, v))
           /\ Same(h, set_session_callsign(h, v))
           /\ Same(h, set_last_tower_response(h, v))
           /\ Same(h, set_was_airborne(h, v))
           /\ Same(h, set_correction(h, v, w))
  <1> DEFINE b == bump_gen(h)
             x == [key |-> v, timer |-> w]
  <1>1. b \in Machine /\ Same(h, b)
    BY BumpSame
  <1>. HIDE DEF b, x
  <1>2. Same(h, [b EXCEPT !.assigned_runway = v])
    BY <1>1 DEF Machine, Same
  <1>3. Same(h, [b EXCEPT !.session_callsign = v])
    BY <1>1 DEF Machine, Same
  <1>4. Same(h, [b EXCEPT !.last_tower_response = v])
    BY <1>1 DEF Machine, Same
  <1>5. Same(h, [b EXCEPT !.was_airborne = v])
    BY <1>1 DEF Machine, Same
  <1>6. Same(h, [h EXCEPT !.correction = x])
    BY DEF Machine, Same
  <1>7. Same(h, h)
    BY DEF Same
  <1>8. QED BY <1>2, <1>3, <1>4, <1>5, <1>6, <1>7
            DEF set_assigned_runway, set_session_callsign, set_last_tower_response,
                set_was_airborne, set_correction, b, x

\* The other setters change their own field and no other.
LEMMA SettersSet ==
    ASSUME NEW h \in Machine, NEW v
    PROVE  /\ LET k == set_readback_pending(h, v)
              IN  /\ k.state = h.state /\ k.departure_type = h.departure_type
                  /\ k.flight_intent = h.flight_intent
                  /\ k.readback_pending = v /\ k.clearance = h.clearance
           /\ LET k == set_clearance(h, v)
              IN  /\ k.state = h.state /\ k.departure_type = h.departure_type
                  /\ k.flight_intent = h.flight_intent
                  /\ k.readback_pending = h.readback_pending /\ k.clearance = v
           /\ LET k == set_departure_type(h, v)
              IN  /\ k.state = h.state /\ k.departure_type = v
                  /\ k.flight_intent = h.flight_intent
                  /\ k.readback_pending = h.readback_pending
                  /\ k.clearance = h.clearance
           /\ LET k == set_flight_intent(h, v)
              IN  /\ k.state = h.state /\ k.departure_type = h.departure_type
                  /\ k.flight_intent = v
                  /\ k.readback_pending = h.readback_pending
                  /\ k.clearance = h.clearance
  <1> DEFINE b == bump_gen(h)
  <1>1. b \in Machine /\ Same(h, b)
    BY BumpSame
  <1>. HIDE DEF b
  <1> DEFINE p == [b EXCEPT !.readback_pending = v]
             c == [b EXCEPT !.clearance = v]
             d == [b EXCEPT !.departure_type = v]
             f == [b EXCEPT !.flight_intent = v]
  <1>2. /\ p.state = h.state /\ p.departure_type = h.departure_type
        /\ p.flight_intent = h.flight_intent
        /\ p.readback_pending = v /\ p.clearance = h.clearance
    BY <1>1 DEF Machine, Same
  <1>3. /\ c.state = h.state /\ c.departure_type = h.departure_type
        /\ c.flight_intent = h.flight_intent
        /\ c.readback_pending = h.readback_pending /\ c.clearance = v
    BY <1>1 DEF Machine, Same
  <1>4. /\ d.state = h.state /\ d.departure_type = v
        /\ d.flight_intent = h.flight_intent
        /\ d.readback_pending = h.readback_pending /\ d.clearance = h.clearance
    BY <1>1 DEF Machine, Same
  <1>5. /\ f.state = h.state /\ f.departure_type = h.departure_type
        /\ f.flight_intent = v
        /\ f.readback_pending = h.readback_pending /\ f.clearance = h.clearance
    BY <1>1 DEF Machine, Same
  <1>6. /\ set_readback_pending(h, v) = p /\ set_clearance(h, v) = c
        /\ set_departure_type(h, v) = d /\ set_flight_intent(h, v) = f
    BY DEF set_readback_pending, set_clearance, set_departure_type, set_flight_intent, b
  <1>. HIDE DEF p, c, d, f
  <1>7. QED BY <1>2, <1>3, <1>4, <1>5, <1>6

\* Two of them apart, for the steps that need no more.
LEMMA PendingSets ==
    ASSUME NEW h \in Machine, NEW v
    PROVE  /\ set_readback_pending(h, v).state = h.state
           /\ set_readback_pending(h, v).departure_type = h.departure_type
           /\ set_readback_pending(h, v).flight_intent = h.flight_intent
           /\ set_readback_pending(h, v).readback_pending = v
           /\ set_readback_pending(h, v).clearance = h.clearance
  <1>1. LET k == set_readback_pending(h, v)
        IN  /\ k.state = h.state /\ k.departure_type = h.departure_type
            /\ k.flight_intent = h.flight_intent
            /\ k.readback_pending = v /\ k.clearance = h.clearance
    BY SettersSet, SMTT(60)
  <1>2. QED BY <1>1

\* The latch.
LEMMA FlightIntentSets ==
    ASSUME NEW h \in Machine, NEW v
    PROVE  /\ set_flight_intent(h, v).state = h.state
           /\ set_flight_intent(h, v).departure_type = h.departure_type
           /\ set_flight_intent(h, v).flight_intent = v
           /\ set_flight_intent(h, v).readback_pending = h.readback_pending
           /\ set_flight_intent(h, v).clearance = h.clearance
  <1>1. LET k == set_flight_intent(h, v)
        IN  /\ k.state = h.state /\ k.departure_type = h.departure_type
            /\ k.flight_intent = v
            /\ k.readback_pending = h.readback_pending /\ k.clearance = h.clearance
    BY SettersSet, SMTT(60)
  <1>2. QED BY <1>1

\* transition_to moves the state and nothing else of them.
LEMMA TransitionMoves ==
    ASSUME NEW h \in Machine, NEW next, NEW t
    PROVE  LET k == transition_to(h, next, t)
           IN  /\ k.state = next /\ k.departure_type = h.departure_type
               /\ k.flight_intent = h.flight_intent
               /\ k.readback_pending = h.readback_pending /\ k.clearance = h.clearance
  <1>1. CASE next = h.state
    BY <1>1 DEF transition_to
  <1>2. CASE next # h.state
    <2> DEFINE p == push_history(h.history, [state |-> h.state, at |-> t])
               b == bump_gen(h)
               k == [b EXCEPT !.history = p]
               l == [k EXCEPT !.state = next]
    <2>1. transition_to(h, next, t) = l
      BY <1>2, Zenon DEF transition_to
    <2>2. b \in Machine /\ Same(h, b)
      BY BumpSame
    <2>. HIDE DEF p, b
    <2>3. Same(h, k) /\ DOMAIN k = DOMAIN b
      BY <2>2 DEF Machine, Same
    <2>4. "state" \in DOMAIN k /\ "departure_type" \in DOMAIN k
          /\ "flight_intent" \in DOMAIN k /\ "readback_pending" \in DOMAIN k
          /\ "clearance" \in DOMAIN k
      BY <2>2, <2>3 DEF Machine
    <2>. HIDE DEF k
    <2>5. /\ l.state = next /\ l.departure_type = h.departure_type
          /\ l.flight_intent = h.flight_intent
          /\ l.readback_pending = h.readback_pending /\ l.clearance = h.clearance
      BY <2>3, <2>4 DEF Same
    <2>. HIDE DEF l
    <2>6. QED BY <2>1, <2>5
  <1>3. QED BY <1>1, <1>2

-----------------------------------------------------------------------------
(* Strict mode: what an incomplete readback leaves behind.                 *)

\* The readback of clearance C is still owed.
Owes(h, C) == Sound(h) /\ h.readback_pending /\ h.clearance = C

\* The functions that only move the state or the kind of departure owe on.
LEMMA MovesOwe ==
    ASSUME NEW h, NEW C, Owes(h, C), NEW next \in ATCStates, NEW t \in Nat
    PROVE  /\ Owes(transition_to(h, next, t), C)
           /\ Owes(set_departure_type(h, "PATTERN"), C)
  <1>1. h \in Machine /\ Sound(h) /\ h.readback_pending /\ h.clearance = C
    BY DEF Owes, Sound
  <1>2. Sound(transition_to(h, next, t)) /\ Sound(set_departure_type(h, "PATTERN"))
    BY <1>1, TransitionKeeps, DepartureTypeKeeps, KeepsSound
  <1>3. /\ transition_to(h, next, t).readback_pending
        /\ transition_to(h, next, t).clearance = C
    BY <1>1, TransitionMoves
  <1>4. /\ set_departure_type(h, "PATTERN").readback_pending
        /\ set_departure_type(h, "PATTERN").clearance = C
    BY <1>1, SettersSet
  <1>5. QED BY <1>2, <1>3, <1>4 DEF Owes

\* The guards of process() that move the state owe on.
LEMMA GuardsOwe ==
    ASSUME NEW h, NEW C, Owes(h, C), NEW m, NEW c, NEW t \in Nat
    PROVE  /\ Owes(apply_state_reverts(h, m.intent, t), C)
           /\ Owes(apply_state_frequency_validity(h, c, t), C)
           /\ Owes(apply_frequency_auto_corrections(h, c, t), C)
           /\ Owes(handle_info_flow(h, m, t).g, C)
           /\ Owes(handle_unicom_flow(h, m, c, t).g, C)
  <1>1. Owes(apply_state_reverts(h, m.intent, t), C)
    <2>1. CASE reverts(h, m.intent) = {}
      BY <2>1 DEF apply_state_reverts
    <2>2. CASE reverts(h, m.intent) # {}
      <3> DEFINE r == CHOOSE r \in reverts(h, m.intent) : TRUE
                 k == transition_to(h, r.to, t)
      <3>1. r \in reverts(h, m.intent)
        BY <2>2
      <3>2. r.to \in ATCStates
        BY <3>1, ProfileAssumption DEF reverts
      <3>. HIDE DEF r
      <3>3. Owes(k, C)
        BY <3>2, MovesOwe
      <3>. HIDE DEF k
      <3>4. "IDLE" \in ATCStates
        BY DEF ATCStates
      <3>5. Owes(set_departure_type(k, "PATTERN"), C)
        BY <3>3, <3>4, MovesOwe
      <3>6. apply_state_reverts(h, m.intent, t)
               \in {k, set_departure_type(k, "PATTERN")}
        BY <2>2 DEF apply_state_reverts, r, k
      <3>7. QED BY <3>3, <3>5, <3>6
    <2>3. QED BY <2>1, <2>2
  <1>2. Owes(transition_to(h, "IDLE", t), C)
    BY MovesOwe DEF ATCStates
  <1>3. state_name(h) \in DOMAIN FrequencyAutoCorrections =>
          Owes(transition_to(h, FrequencyAutoCorrections[state_name(h)].next, t), C)
    BY MovesOwe, ProfileAssumption
  <1>4. /\ Owes(apply_state_frequency_validity(h, c, t), C)
        /\ Owes(apply_frequency_auto_corrections(h, c, t), C)
    BY <1>2, <1>3 DEF apply_state_frequency_validity, apply_frequency_auto_corrections
  <1>5. Owes(handle_info_flow(h, m, t).g, C)
    <2> DEFINE e == block_lookup(InfoTemplates, m.intent)
    <2>1. e.next \in ATCStates
      BY EntryTypes DEF Entries
    <2>. HIDE DEF e
    <2>2. Owes(transition_to(h, e.next, t), C)
      BY <2>1, MovesOwe
    <2>3. handle_info_flow(h, m, t).g = transition_to(h, e.next, t)
      BY DEF handle_info_flow, e
    <2>4. QED BY <2>2, <2>3
  <1>6. handle_unicom_flow(h, m, c, t).g = transition_to(h, "IDLE", t)
    BY DEF handle_unicom_flow
  <1>7. QED BY <1>1, <1>2, <1>4, <1>5, <1>6

\* process() of an incomplete readback, anywhere but between two airports.
LEMMA IncompleteOwes ==
    ASSUME German, BzfStrict, NEW h, NEW C, Owes(h, C), h.state # "EN_ROUTE",
           NEW last, NEW m \in Messages, m.intent = "READBACK",
           ~(C.required \subseteq m.read),
           NEW c, NEW phase0, NEW t \in Nat
    PROVE  Owes(process(h, last, m, c, phase0, t).g, C)
  <1> DEFINE g2 == apply_state_reverts(h, m.intent, t)
             v == apply_state_frequency_validity(g2, c, t)
             g3 == apply_frequency_auto_corrections(v, c, t)
             f == process_on_frequency(g3, m, c, phase0, t)
  <1>1. promote(h, m) = m /\ check_airport_change(h, last, c.airport, t) = h
    BY DEF promote, check_airport_change
  <1>2. Owes(g2, C)
    BY GuardsOwe
  <1>3. Owes(handle_info_flow(g2, m, t).g, C) /\ Owes(handle_unicom_flow(g2, m, c, t).g, C)
    BY <1>2, GuardsOwe
  <1> DEFINE r == process(h, last, m, c, phase0, t)
  <1>4. \/ r = handle_info_flow(g2, m, t) \/ r = handle_unicom_flow(g2, m, c, t)
        \/ r = [g |-> g2, resp |-> plain(TRUE)] \/ r = f
    <2>1. m.intent # "NEGATIVE_CORRECTION" /\ m.intent # "REQUEST_REPEAT"
      OBVIOUS
    <2>2. QED BY <1>1, <2>1 DEF process, g2, v, g3, f
  <1>. HIDE DEF g2
  <1>5. Owes(v, C)
    BY <1>2, GuardsOwe
  <1>. HIDE DEF v
  <1>6. Owes(g3, C)
    BY <1>5, GuardsOwe
  <1>. HIDE DEF g3
  <1>7. Owes(f.g, C)
    <2>1. /\ tower_only_initial_collapse(g3, m, c) = m
          /\ start_departure_cycle(g3, m, c) = g3
      BY DEF tower_only_initial_collapse, start_departure_cycle
    <2>2. strict_check_fails(g3, m)
      BY <1>6 DEF strict_check_fails, Owes, Sound
    <2>3. answer(g3, m, c, t)
             = [g |-> set_readback_pending(g3, TRUE), resp |-> demand(TRUE)]
      BY <2>2 DEF answer
    <2>4. Owes(set_readback_pending(g3, TRUE), C)
      <3>1. g3 \in Machine /\ Sound(g3) /\ g3.clearance = C /\ C # None
        BY <1>6 DEF Owes, Sound
      <3>2. Sound(set_readback_pending(g3, TRUE))
        BY <3>1, PendingKeeps, KeepsSound
      <3>3. /\ set_readback_pending(g3, TRUE).readback_pending = TRUE
            /\ set_readback_pending(g3, TRUE).clearance = C
        BY <3>1, SettersSet
      <3>4. QED BY <3>2, <3>3 DEF Owes
    <2>5. ~initial_call_incomplete(m)
      BY DEF initial_call_incomplete
    <2>6. \/ f = [g |-> g3, resp |-> plain(TRUE)]
          \/ f = [g |-> set_readback_pending(g3, TRUE), resp |-> demand(TRUE)]
      BY <2>1, <2>3, <2>5 DEF process_on_frequency, f
    <2>. HIDE DEF f
    <2>7. f.g = g3 \/ f.g = set_readback_pending(g3, TRUE)
      <3>1. CASE f = [g |-> g3, resp |-> plain(TRUE)]
        BY <3>1
      <3>2. CASE f = [g |-> set_readback_pending(g3, TRUE), resp |-> demand(TRUE)]
        BY <3>2
      <3>3. QED BY <2>6, <3>1, <3>2
    <2>8. QED BY <1>6, <2>4, <2>7
  <1>. HIDE DEF f, r
  <1>8. CASE r = [g |-> g2, resp |-> plain(TRUE)]
    <2>1. r.g = g2
      BY <1>8
    <2>2. QED BY <1>2, <2>1 DEF r
  <1>9. QED BY <1>3, <1>4, <1>7, <1>8 DEF r

\* The bookkeeping of the generation changes nothing else.
LEMMA CommitSame ==
    ASSUME NEW h, NEW k \in Machine PROVE Same(k, commit(h, k))
  <1> DEFINE n == IF k.gen = h.gen THEN h.gen ELSE h.gen + 1
  <1>. HIDE DEF n
  <1>1. Same(k, [k EXCEPT !.gen = n])
    BY DEF Machine, Same
  <1>2. QED BY <1>1 DEF commit, n

\* A step that answers a transmission runs process() on the machine, whose
\* flight intent it may have latched before.
RunOf(latched, m, c, t) ==
    /\ latched = g \/ \E n \in Messages : latched = latch_flight_intent(g, n)
    /\ m \in Messages /\ c \in Contexts /\ t \in Nat
    /\ g' = commit(g, process(latched, last_airport, m, c, phase, t).g)
    /\ heard' = [m |-> m, c |-> c, phase |-> phase,
                 resp |-> process(latched, last_airport, m, c, phase, t).resp]

\* The steps that answer a transmission.
RunAction ==
    \/ \E m \in Calls, c \in Surroundings : HearReadback(m, c) \/ HearCall(m, c)
    \/ (\E i \in Intents : LmAnswers(i)) \/ LmInvalidReadback

\* Every other step leaves "heard" empty.
LEMMA HeardWhenRun == Next => RunAction \/ heard' = None
  BY DEF Next, RunAction, AskLm, AnswerAside, Garbled, LmAside, ReplyHeard, ReplyLost,
         Frame, Disregard, NewFlightButton, FreshFlight

\* Whatever is heard was answered by process().
LEMMA HeardIsRun ==
    ASSUME IInv, RunAction
    PROVE  \E latched, m, c, t : RunOf(latched, m, c, t)
  <1>1. Sound(g) /\ clock \in Nat /\ "READBACK" \in Intents
    BY DialogueAssumption DEF IInv, TypeOK, Intents
  <1>2. ASSUME NEW latched, NEW pre, NEW m \in Messages, NEW c \in Contexts,
               NEW t \in Nat, run_state_machine(latched, pre, m, c, t),
               latched = g \/ \E n \in Messages : latched = latch_flight_intent(g, n)
        PROVE  \E l, n, d, u : RunOf(l, n, d, u)
    <2>1. RunOf(latched, m, c, t)
      BY <1>2 DEF RunOf, run_state_machine
    <2>2. QED BY <2>1
  <1>3. ASSUME NEW m \in Calls, NEW c \in Surroundings,
               HearReadback(m, c) \/ HearCall(m, c)
        PROVE  \E l, n, d, u : RunOf(l, n, d, u)
    <2>1. m \in Messages /\ c \in Contexts
      BY DialogueAssumption
    <2>2. [m EXCEPT !.intent = "READBACK"] \in Messages
      BY <1>1, <2>1, MessageWith
    <2>3. CASE HearReadback(m, c)
      <3>1. run_state_machine(latch_flight_intent(g, m), g,
                              [m EXCEPT !.intent = "READBACK"], c, clock)
        BY <2>3 DEF HearReadback
      <3>2. QED BY <1>1, <1>2, <2>1, <2>2, <3>1
    <2>4. CASE HearCall(m, c)
      <3>1. run_state_machine(latch_flight_intent(g, m), g, m, c, clock)
        BY <2>4 DEF HearCall
      <3>2. QED BY <1>1, <1>2, <2>1, <3>1
    <2>5. QED BY <1>3, <2>3, <2>4
  <1>4. ASSUME (\E i \in Intents : LmAnswers(i)) \/ LmInvalidReadback
        PROVE  \E l, n, d, u : RunOf(l, n, d, u)
    <2>1. lm \in Questions
      BY <1>4 DEF IInv, TypeOK, LmAnswers, LmInvalidReadback
    <2>2. lm.m \in Messages /\ lm.c \in Contexts /\ lm.at \in Nat
          /\ lm.m.read \in SUBSET Elements
      BY <2>1 DEF Questions, Messages
    <2>3. ASSUME NEW i \in Intents, LmAnswers(i)
          PROVE  \E l, n, d, u : RunOf(l, n, d, u)
      <3>1. PICK read \in Repairs \cup {lm.m.read} :
              run_state_machine(g, lm.pre,
                 [lm.m EXCEPT !.intent = i, !.read = read], lm.c, lm.at)
        BY <2>3 DEF LmAnswers
      <3>2. read \in SUBSET Elements
        BY <2>2, DialogueAssumption
      <3>3. [lm.m EXCEPT !.intent = i, !.read = read] \in Messages
        BY <2>2, <3>2, MessageWith
      <3>4. QED BY <1>2, <2>2, <3>1, <3>3
    <2>4. CASE LmInvalidReadback
      <3>1. run_state_machine(g, lm.pre, [lm.m EXCEPT !.intent = "READBACK"],
                              lm.c, lm.at)
        BY <2>4 DEF LmInvalidReadback
      <3>2. [lm.m EXCEPT !.intent = "READBACK"] \in Messages
        BY <1>1, <2>2, MessageWith
      <3>3. QED BY <1>2, <2>2, <3>1, <3>2
    <2>5. QED BY <1>4, <2>3, <2>4
  <1>5. QED BY <1>3, <1>4 DEF RunAction

\* In strict mode a readback that leaves an element out stays owed, for
\* every profile: however it was recognised, whatever frequency it was sent
\* on and whatever moved the machine since the question to the model.  Only
\* a change of airport en route ends the obligation without it.
THEOREM StrictReadback == Spec => StrictHolds
  <1>1. IInv /\ [Next]_vars =>
          [/\ German /\ BzfStrict
           /\ heard' # None /\ heard'.m.intent = "READBACK"
           /\ g.readback_pending /\ ~g'.readback_pending /\ g.state # "EN_ROUTE"
           => g.clearance.required \subseteq heard'.m.read]_vars
    <2> SUFFICES ASSUME IInv, Next, German, BzfStrict, heard' # None,
                        heard'.m.intent = "READBACK", g.readback_pending,
                        ~g'.readback_pending, g.state # "EN_ROUTE",
                        ~(g.clearance.required \subseteq heard'.m.read)
                 PROVE  FALSE
      OBVIOUS
    <2>1. PICK latched, m, c, t : RunOf(latched, m, c, t)
      BY HeardWhenRun, HeardIsRun
    <2> DEFINE C == g.clearance
               r == process(latched, last_airport, m, c, phase, t)
    <2>2. heard'.m = m /\ m \in Messages /\ t \in Nat /\ c \in Contexts
      BY <2>1 DEF RunOf
    <2>3. Sound(g) /\ g \in Machine
      BY DEF IInv, Sound
    <2>4. Owes(latched, C) /\ latched.state # "EN_ROUTE"
      <3>1. CASE latched = g
        BY <2>3, <3>1 DEF Owes
      <3>2. ASSUME NEW n \in Messages, latched = latch_flight_intent(g, n)
            PROVE  Owes(latched, C) /\ latched.state # "EN_ROUTE"
        <4>1. Sound(latched)
          BY <2>3, <3>2, LatchKeeps, KeepsSound
        <4>2. CASE n.declares = "none"
          BY <2>3, <3>2, <4>2 DEF Owes, latch_flight_intent
        <4>3. CASE n.declares # "none"
          <5>1. latched = set_flight_intent(g, n.declares)
            BY <3>2, <4>3 DEF latch_flight_intent
          <5>2. LET k == set_flight_intent(g, n.declares)
                IN  /\ k.state = g.state /\ k.readback_pending = g.readback_pending
                    /\ k.clearance = g.clearance
            BY <2>3, FlightIntentSets
          <5>3. QED BY <4>1, <5>1, <5>2 DEF Owes
        <4>4. QED BY <4>2, <4>3
      <3>3. QED BY <2>1, <3>1, <3>2 DEF RunOf
    <2>. HIDE DEF C
    <2>5. ~(C.required \subseteq m.read) /\ m.intent = "READBACK"
      BY <2>2 DEF C
    <2>6. Owes(r.g, C)
      BY <2>2, <2>4, <2>5, IncompleteOwes
    <2>7. g' = commit(g, r.g)
      BY <2>1 DEF RunOf
    <2>. HIDE DEF r
    <2>8. Same(r.g, commit(g, r.g)) /\ r.g.readback_pending
      BY <2>6, CommitSame DEF Owes, Sound
    <2>9. g'.readback_pending
      BY <2>7, <2>8 DEF Same
    <2>10. QED BY <2>9
  <1>2. QED BY <1>1, InitInv, NextInv, PTL DEF Spec, StrictHolds

-----------------------------------------------------------------------------
(* Clearances onto the runway.                                             *)

\* From h to k no runway state is entered.
NoEntry(h, k) == k.state \in RunwayStates => k.state = h.state

\* Moving to a state off the runway; the other setters do not move.
LEMMA MoveAway ==
    ASSUME NEW h \in Machine, NEW next, next \notin RunwayStates, NEW t
    PROVE  NoEntry(h, transition_to(h, next, t))
  BY TransitionMoves DEF NoEntry

\* The guards of process() and the side flows clear nobody.
LEMMA GuardsNoEntry ==
    ASSUME GuardedProfile, NEW h, Sound(h), NEW m, NEW c, NEW last, NEW t \in Nat
    PROVE  /\ NoEntry(h, check_airport_change(h, last, c.airport, t))
           /\ NoEntry(h, apply_state_reverts(h, m.intent, t))
           /\ NoEntry(h, apply_state_frequency_validity(h, c, t))
           /\ NoEntry(h, apply_frequency_auto_corrections(h, c, t))
           /\ NoEntry(h, handle_negative_correction(h, t).g)
           /\ NoEntry(h, handle_info_flow(h, m, t).g)
           /\ NoEntry(h, handle_unicom_flow(h, m, c, t).g)
  <1>1. h \in Machine /\ h.state \in ATCStates /\ NoEntry(h, h)
    BY DEF Sound, Machine, NoEntry
  <1>2. NoEntry(h, transition_to(h, "IDLE", t))
    BY <1>1, MoveAway DEF RunwayStates
  <1>3. NoEntry(h, check_airport_change(h, last, c.airport, t))
    <2> DEFINE i == transition_to(h, "IDLE", t)
               p == set_readback_pending(i, FALSE)
               r == set_assigned_runway(p, None)
               d == set_departure_type(r, "PATTERN")
    <2>1. Sound(i) /\ i \in Machine /\ i.state = "IDLE"
      BY <1>1, TransitionKeeps, KeepsSound, TransitionMoves DEF ATCStates, Sound
    <2>. HIDE DEF i
    <2>2. Sound(p) /\ p \in Machine /\ p.state = "IDLE"
      <3>1. Sound(p) /\ p.state = "IDLE"
        BY <2>1, PendingKeeps, KeepsSound, PendingSets
      <3>2. QED BY <3>1 DEF Sound
    <2>. HIDE DEF p
    <2>3. r \in Machine /\ r.state = "IDLE"
      <3>1. Sound(r) /\ r.state = "IDLE"
        BY <2>2, RunwayKeeps, KeepsSound, BookkeepingSame DEF Same
      <3>2. QED BY <3>1 DEF Sound
    <2>. HIDE DEF r
    <2>4. d.state = "IDLE"
      BY <2>3, SettersSet
    <2>. HIDE DEF d
    <2>5. check_airport_change(h, last, c.airport, t) \in {h, d}
      BY DEF check_airport_change, leave_airport, i, p, r, d
    <2>6. QED BY <1>1, <2>4, <2>5 DEF NoEntry, RunwayStates
  <1>4. NoEntry(h, apply_state_reverts(h, m.intent, t))
    <2>1. CASE reverts(h, m.intent) = {}
      BY <1>1, <2>1 DEF apply_state_reverts
    <2>2. CASE reverts(h, m.intent) # {}
      <3> DEFINE r == CHOOSE r \in reverts(h, m.intent) : TRUE
                 k == transition_to(h, r.to, t)
      <3>1. r \in reverts(h, m.intent)
        BY <2>2
      <3>2. r.to \in ATCStates /\ r.to \notin RunwayStates
        BY <3>1, ProfileAssumption DEF reverts, GuardedProfile
      <3>. HIDE DEF r
      <3>3. k \in Machine /\ k.state = r.to
        BY <1>1, <3>2, TransitionKeeps, KeepsSound, TransitionMoves DEF Sound
      <3>. HIDE DEF k
      <3>4. set_departure_type(k, "PATTERN").state = r.to
        BY <3>3, SettersSet
      <3>5. apply_state_reverts(h, m.intent, t)
               \in {k, set_departure_type(k, "PATTERN")}
        BY <2>2 DEF apply_state_reverts, r, k
      <3>6. QED BY <3>2, <3>3, <3>4, <3>5 DEF NoEntry
    <2>3. QED BY <2>1, <2>2
  <1>5. state_name(h) \in DOMAIN FrequencyAutoCorrections =>
          NoEntry(h, transition_to(h, FrequencyAutoCorrections[state_name(h)].next, t))
    BY <1>1, MoveAway DEF GuardedProfile
  <1>6. /\ NoEntry(h, apply_state_frequency_validity(h, c, t))
        /\ NoEntry(h, apply_frequency_auto_corrections(h, c, t))
    BY <1>1, <1>2, <1>5
       DEF apply_state_frequency_validity, apply_frequency_auto_corrections
  <1>7. NoEntry(h, handle_negative_correction(h, t).g)
    <2> DEFINE s == revert_target(h.state)
               r == transition_to(h, s, t)
               k == IF h.state = "DEPARTURE_CLEARED"
                    THEN set_departure_type(r, "PATTERN") ELSE r
    <2>1. s \in ATCStates /\ s \notin RunwayStates
      BY <1>1 DEF revert_target, ATCStates, RunwayStates
    <2>. HIDE DEF s
    <2>2. r \in Machine /\ r.state = s
      BY <1>1, <2>1, TransitionKeeps, KeepsSound, TransitionMoves DEF Sound
    <2>. HIDE DEF r
    <2>3. k.state = s
      BY <2>2, SettersSet
    <2>. HIDE DEF k
    <2>4. handle_negative_correction(h, t) = [g |-> k, resp |-> plain(TRUE)]
      BY DEF handle_negative_correction, k, r, s
    <2>5. handle_negative_correction(h, t).g = k
      BY <2>4
    <2>6. QED BY <2>1, <2>3, <2>5 DEF NoEntry
  <1>8. NoEntry(h, handle_info_flow(h, m, t).g)
    <2> DEFINE e == block_lookup(InfoTemplates, m.intent)
    <2>1. e.next \notin RunwayStates
      BY DEF block_lookup, GuardedProfile, Fallback, RunwayStates
    <2>. HIDE DEF e
    <2>2. handle_info_flow(h, m, t).g = transition_to(h, e.next, t)
      BY DEF handle_info_flow, e
    <2>3. QED BY <1>1, <2>1, <2>2, MoveAway
  <1>9. handle_unicom_flow(h, m, c, t).g = transition_to(h, "IDLE", t)
    BY DEF handle_unicom_flow
  <1>10. QED BY <1>2, <1>3, <1>4, <1>6, <1>7, <1>8, <1>9

\* The name of a state stands for that state.
LEMMA NameStandsFor ==
    ASSUME NEW h, Sound(h) PROVE StateOf(state_name(h)) = h.state
  BY DEF StateOf, state_name, Sound, Machine, ATCStates

\* A template that leads onto a runway is guarded, and is the one of the
\* intent: "_INVALID" and the fallback clear nobody.
LEMMA LookupGuarded ==
    ASSUME GuardedProfile, NEW n, NEW i \in Intents, NEW b,
           lookup(n, i, b).next \in RunwayStates \ {StateOf(n)}
    PROVE  GuardedClearance(n, i, lookup(n, i, b).next)
  <1>1. "_INVALID" \notin Intents /\ Fallback.next \notin RunwayStates
    BY DEF Intents, Fallback, RunwayStates
  <1>2. n \in DOMAIN Templates
    BY <1>1 DEF lookup
  <1>3. CASE b /\ n \in DOMAIN TowerOnlyTemplates /\ i \in DOMAIN TowerOnlyTemplates[n]
    <2>1. lookup(n, i, b) = TowerOnlyTemplates[n][i]
      BY <1>2, <1>3 DEF lookup
    <2>2. QED BY <1>3, <2>1 DEF GuardedProfile, GuardedTable
  <1>4. CASE ~(b /\ n \in DOMAIN TowerOnlyTemplates /\ i \in DOMAIN TowerOnlyTemplates[n])
    <2>1. lookup(n, i, b) = block_lookup(Templates[n], i)
      BY <1>2, <1>4 DEF lookup
    <2>2. CASE i \in DOMAIN Templates[n]
      <3>1. lookup(n, i, b) = Templates[n][i]
        BY <2>1, <2>2 DEF block_lookup
      <3>2. QED BY <1>2, <2>2, <3>1 DEF GuardedProfile, GuardedTable
    <2>3. CASE i \notin DOMAIN Templates[n] /\ "_INVALID" \in DOMAIN Templates[n]
      <3>1. lookup(n, i, b) = Templates[n]["_INVALID"]
        BY <2>1, <2>3 DEF block_lookup
      <3>2. GuardedClearance(n, "_INVALID", Templates[n]["_INVALID"].next)
        BY <1>2, <2>3, <3>1 DEF GuardedProfile, GuardedTable
      <3>3. QED BY <1>1, <3>2 DEF GuardedClearance
    <2>4. CASE i \notin DOMAIN Templates[n] /\ "_INVALID" \notin DOMAIN Templates[n]
      BY <1>1, <2>1, <2>4 DEF block_lookup
    <2>5. QED BY <2>2, <2>3, <2>4
  <1>5. QED BY <1>3, <1>4

\* k is where h is, for the same departure and with the same intent.
SameCourse(h, k) ==
    /\ k.state = h.state /\ k.departure_type = h.departure_type
    /\ k.flight_intent = h.flight_intent

\* The hooks of the readback stay on course.
LEMMA TrackCourse ==
    ASSUME NEW h, Sound(h), NEW m, NEW e \in Entries, NEW comp \in Clearances
    PROVE  SameCourse(h, track_readback(h, m, e, comp))
  <1>1. h \in Machine
    BY DEF Sound
  <1>2. ASSUME NEW x, Sound(x) PROVE SameCourse(x, drop_readback(x))
    <2> DEFINE y == set_readback_pending(x, FALSE)
    <2>1. Sound(y) /\ SameCourse(x, y)
      <3>1. x \in Machine
        BY <1>2 DEF Sound
      <3>2. /\ y.state = x.state /\ y.departure_type = x.departure_type
            /\ y.flight_intent = x.flight_intent
        BY <3>1, PendingSets
      <3>3. Sound(y)
        BY <1>2, PendingKeeps, KeepsSound
      <3>. HIDE DEF y
      <3>4. QED BY <3>2, <3>3 DEF SameCourse
    <2>2. y \in Machine
      BY <2>1 DEF Sound
    <2>. HIDE DEF y
    <2>3. SameCourse(y, set_clearance(y, None))
      BY <2>2, SettersSet DEF SameCourse
    <2>4. QED BY <2>1, <2>3 DEF drop_readback, y, SameCourse
  <1> DEFINE s == set_clearance(h, comp)
             a == set_readback_pending(s, TRUE)
             x == IF m.intent = "READBACK" THEN drop_readback(h)
                  ELSE IF e.readback THEN a ELSE h
  <1>3. Sound(s) /\ s.clearance = comp /\ SameCourse(h, s)
    BY <1>1, ClearanceKeeps, KeepsSound, SettersSet, ProfileAssumption DEF SameCourse
  <1>4. s \in Machine
    BY <1>3 DEF Sound
  <1>. HIDE DEF s
  <1>5. Sound(a) /\ SameCourse(s, a)
    <2>1. s.clearance # None
      BY <1>3, ProfileAssumption
    <2>2. Sound(a)
      BY <1>3, <2>1, PendingKeeps, KeepsSound
    <2>3. /\ a.state = s.state /\ a.departure_type = s.departure_type
          /\ a.flight_intent = s.flight_intent
      BY <1>4, PendingSets
    <2>. HIDE DEF a
    <2>4. QED BY <2>2, <2>3 DEF SameCourse
  <1>. HIDE DEF a
  <1>6. Sound(x) /\ SameCourse(h, x)
    <2>1. CASE m.intent = "READBACK"
      BY <1>2, <2>1, DropReadbackKeeps, KeepsSound
    <2>2. CASE m.intent # "READBACK"
      BY <1>3, <1>5, <2>2 DEF SameCourse
    <2>3. QED BY <2>1, <2>2
  <1>. HIDE DEF x
  <1>7. SameCourse(x, drop_readback(x)) /\ SameCourse(x, x)
    BY <1>2, <1>6 DEF SameCourse
  <1>8. track_readback(h, m, e, comp) \in {x, drop_readback(x)}
    BY DEF track_readback, x, a, s
  <1>9. QED BY <1>6, <1>7, <1>8 DEF SameCourse

\* So do the hooks of the locks.
LEMMA LockCourse ==
    ASSUME NEW h, Sound(h), NEW m \in Messages, NEW c \in Contexts, NEW e
    PROVE  SameCourse(h, lock_runway_and_callsign(h, m, c, e))
  <1> DEFINE v == IF m.runway # None THEN m.runway ELSE c.active
             k == IF h.assigned_runway # None THEN h ELSE set_assigned_runway(h, v)
  <1>1. h \in Machine /\ v \in Runways \cup {None} /\ m.callsign \in Callsigns \cup {None}
    BY DEF Messages, Contexts, Sound
  <1>. HIDE DEF v
  <1>2. Sound(k) /\ SameCourse(h, k)
    <2>1. /\ Sound(set_assigned_runway(h, v))
          /\ SameCourse(h, set_assigned_runway(h, v))
      BY <1>1, RunwayKeeps, KeepsSound, BookkeepingSame DEF Same, SameCourse
    <2>2. QED BY <2>1 DEF SameCourse
  <1>3. k \in Machine
    BY <1>2 DEF Sound
  <1>. HIDE DEF k
  <1>4. SameCourse(k, set_session_callsign(k, m.callsign))
    BY <1>3, BookkeepingSame DEF Same, SameCourse
  <1>5. lock_runway_and_callsign(h, m, c, e)
           \in {h, k, set_session_callsign(k, m.callsign)}
    BY DEF lock_runway_and_callsign, k, v
  <1>6. QED BY <1>2, <1>4, <1>5 DEF SameCourse

\* And their release.
LEMMA ReleaseCourse ==
    ASSUME NEW h, Sound(h), NEW e
    PROVE  Sound(release_locks(h, e)) /\ SameCourse(h, release_locks(h, e))
  <1> DEFINE a == set_assigned_runway(h, None)
  <1>1. h \in Machine
    BY DEF Sound
  <1>2. Sound(a) /\ SameCourse(h, a)
    BY <1>1, RunwayKeeps, KeepsSound, BookkeepingSame DEF Same, SameCourse
  <1>3. a \in Machine
    BY <1>2 DEF Sound
  <1>. HIDE DEF a
  <1>4. Sound(set_session_callsign(a, None)) /\ SameCourse(a, set_session_callsign(a, None))
    BY <1>2, <1>3, CallsignKeeps, KeepsSound, BookkeepingSame DEF Same, SameCourse
  <1>5. release_locks(h, e) \in {h, set_session_callsign(a, None)}
    BY DEF release_locks, release_runway_and_callsign, a
  <1>6. QED BY <1>2, <1>4, <1>5 DEF SameCourse

\* The hooks enter no runway state but the template's.
LEMMA HooksEnter ==
    ASSUME GuardedProfile, NEW h, Sound(h), NEW m \in Messages, NEW c \in Contexts,
           NEW e \in Entries, NEW comp \in Clearances, NEW t \in Nat,
           apply_post_transition_hooks(h, m, c, e, comp, t).state \in RunwayStates
    PROVE  apply_post_transition_hooks(h, m, c, e, comp, t).state \in {h.state, e.next}
  <1> DEFINE k0 == track_readback(h, m, e, comp)
             k1 == lock_runway_and_callsign(k0, m, c, e)
             k2 == apply_transition(k1, m, e, t)
             k3 == release_locks(k2, e)
             k4 == tower_only_advance(k3, c, t)
             k5 == apply_post_transition_hooks(h, m, c, e, comp, t)
  <1>0. Sound(k0) /\ SameCourse(h, k0)
    BY TrackKeeps, TrackCourse, KeepsSound
  <1>. HIDE DEF k0
  <1>1. Sound(k1) /\ k1 \in Machine /\ k1.state = h.state
    <2>1. Sound(k1) /\ SameCourse(k0, k1)
      BY <1>0, LockKeeps, LockCourse, KeepsSound
    <2>2. QED BY <1>0, <2>1 DEF Sound, SameCourse
  <1>. HIDE DEF k1
  <1>2. Sound(k2) /\ k2 \in Machine /\ k2.state \in {h.state, e.next}
    <2> DEFINE k == transition_to(k1, e.next, t)
               type == IF m.intent = "READY_FOR_DEPARTURE_VFR" THEN "CROSS_COUNTRY"
                                                               ELSE "PATTERN"
    <2>1. Sound(k2) /\ k2 \in Machine
      BY <1>1, ApplyTransitionKeeps, KeepsSound DEF Sound
    <2>2. k \in Machine /\ k.state = e.next
      BY <1>1, TransitionKeeps, KeepsSound, TransitionMoves DEF Entries, Sound
    <2>. HIDE DEF k, type
    <2>3. /\ set_departure_type(k, type).state = e.next
          /\ set_departure_type(k, "PATTERN").state = e.next
      BY <2>2, SettersSet
    <2>4. k2 \in {k1, k, set_departure_type(k, type), set_departure_type(k, "PATTERN")}
      BY DEF apply_transition, k, type
    <2>5. QED BY <1>1, <2>1, <2>2, <2>3, <2>4
  <1>. HIDE DEF k2
  <1>3. Sound(k3) /\ k3 \in Machine /\ k3.state = k2.state
    <2>1. Sound(k3) /\ SameCourse(k2, k3)
      BY <1>2, ReleaseCourse
    <2>2. QED BY <2>1 DEF Sound, SameCourse
  <1>. HIDE DEF k3
  <1>4. k4 \in Machine /\ NoEntry(k3, k4)
    <2> DEFINE next == TowerOnlyAutoAdvance[state_name(k3)]
    <2>1. state_name(k3) \in DOMAIN TowerOnlyAutoAdvance =>
            next \in ATCStates /\ next \notin RunwayStates
      BY ProfileAssumption DEF GuardedProfile
    <2>. HIDE DEF next
    <2>2. state_name(k3) \in DOMAIN TowerOnlyAutoAdvance =>
            transition_to(k3, next, t) \in Machine /\ NoEntry(k3, transition_to(k3, next, t))
      BY <1>3, <2>1, TransitionKeeps, KeepsSound, MoveAway DEF Sound
    <2>3. \/ k4 = k3
          \/ k4 = transition_to(k3, next, t) /\ state_name(k3) \in DOMAIN TowerOnlyAutoAdvance
      BY DEF tower_only_advance, next
    <2>4. QED BY <1>3, <2>2, <2>3 DEF NoEntry
  <1>. HIDE DEF k4
  <1>5. set_last_tower_response(k4, TRUE).state = k4.state
    BY <1>4, BookkeepingSame DEF Same
  <1>6. k5 \in {k4, set_last_tower_response(k4, TRUE)}
    BY DEF apply_post_transition_hooks, k0, k1, k2, k3, k4, k5
  <1>7. k5.state \in RunwayStates
    BY DEF k5
  <1>. HIDE DEF k5
  <1>8. k5.state \in {h.state, e.next}
    BY <1>2, <1>3, <1>4, <1>5, <1>6, <1>7 DEF NoEntry
  <1>9. QED BY <1>8 DEF k5

\* What answer() can enter, it enters by a guarded template.
LEMMA AnswerEnters ==
    ASSUME GuardedProfile, NEW h, Sound(h), NEW m \in Messages, NEW c \in Contexts,
           NEW t \in Nat, ~NoEntry(h, answer(h, m, c, t).g)
    PROVE  GuardedClearance(state_name(h), m.intent, answer(h, m, c, t).g.state)
  <1> DEFINE tmpl == lookup(state_name(h), m.intent, c.tower_only)
             e == apply_landing_sequence(tmpl, c)
             comp == build_clearance_components(h, m, c, tmpl)
             k == apply_post_transition_hooks(h, m, c, e, comp, t)
             a == answer(h, m, c, t)
  <1>0. h \in Machine /\ m.intent \in Intents
    BY DEF Sound, Messages
  <1>1. tmpl \in Entries
    BY EntryTypes
  <1>. HIDE DEF tmpl
  <1>2. e \in Entries /\ comp \in Clearances
    BY <1>1, AnswerTypes
  <1>3. e.next = tmpl.next
    BY DEF apply_landing_sequence
  <1>. HIDE DEF e, comp
  <1>4. k.state \in RunwayStates => k.state \in {h.state, e.next}
    BY <1>2, HooksEnter
  <1>. HIDE DEF k
  <1>5. \/ a = [g |-> set_readback_pending(h, TRUE), resp |-> demand(TRUE)]
        \/ \E resp : a = [g |-> k, resp |-> resp]
    BY DEF a, answer, tmpl, e, comp, k
  <1>6. ~NoEntry(h, a.g)
    BY DEF a
  <1>. HIDE DEF a
  <1>7. CASE a = [g |-> set_readback_pending(h, TRUE), resp |-> demand(TRUE)]
    <2>1. a.g = set_readback_pending(h, TRUE)
      BY <1>7
    <2>2. set_readback_pending(h, TRUE).state = h.state
      BY <1>0, SettersSet
    <2>3. QED BY <1>6, <2>1, <2>2 DEF NoEntry
  <1>8. CASE \E resp : a = [g |-> k, resp |-> resp]
    <2>1. a.g = k
      BY <1>8
    <2>2. k.state \in RunwayStates /\ k.state # h.state
      BY <1>6, <2>1 DEF NoEntry
    <2>3. k.state = tmpl.next /\ tmpl.next \in RunwayStates \ {StateOf(state_name(h))}
      BY <1>3, <1>4, <2>2, NameStandsFor
    <2>4. GuardedClearance(state_name(h), m.intent, tmpl.next)
      BY <1>0, <2>3, LookupGuarded DEF tmpl
    <2>5. QED BY <2>1, <2>3, <2>4 DEF a
  <1>9. QED BY <1>5, <1>7, <1>8

\* The clearance fits the frequency and the flight phase.
Fits(s, c, p) ==
    /\ c.freq = "TOWER" /\ c.towered
    /\ (s = "DEPARTURE_CLEARED") <=> (p \notin Airborne)

\* The machine has left the states that are not valid on c's frequency.
Settled(h, c) ==
    \/ c.freq \in {"TOWER", "UNKNOWN"} \/ h.state \in {"IDLE", "EN_ROUTE"}
    \/ c.freq \notin DOMAIN FrequencyValidity
    \/ state_name(h) \in FrequencyValidity[c.freq]

\* The frequency guards settle it.
LEMMA GuardsSettle ==
    ASSUME GuardedProfile, NEW h, Sound(h), NEW c, NEW t \in Nat
    PROVE  Settled(apply_frequency_auto_corrections(
                      apply_state_frequency_validity(h, c, t), c, t), c)
  <1> DEFINE v == apply_state_frequency_validity(h, c, t)
  <1>1. CASE c.freq = "TOWER"
    BY <1>1 DEF Settled
  <1>2. CASE c.freq # "TOWER"
    <2>1. Settled(v, c)
      <3>1. transition_to(h, "IDLE", t).state = "IDLE"
        BY TransitionMoves DEF Sound
      <3>2. Settled(transition_to(h, "IDLE", t), c)
        BY <3>1 DEF Settled
      <3>3. CASE v = transition_to(h, "IDLE", t)
        BY <3>2, <3>3
      <3>4. CASE v # transition_to(h, "IDLE", t)
        <4>1. /\ v = h
              /\ \/ c.freq = "UNKNOWN" \/ single_tower(c) \/ h.state = "EN_ROUTE"
                 \/ c.freq \notin DOMAIN FrequencyValidity
                 \/ state_name(h) \in FrequencyValidity[c.freq]
          BY <3>4 DEF apply_state_frequency_validity
        <4>2. QED BY <1>2, <4>1 DEF Settled, single_tower
      <3>5. QED BY <3>3, <3>4
    <2>. HIDE DEF v
    <2>2. apply_frequency_auto_corrections(v, c, t) = v
      BY <1>2 DEF apply_frequency_auto_corrections, GuardedProfile
    <2>3. QED BY <2>1, <2>2 DEF v
  <1>3. QED BY <1>1, <1>2

\* Behind the frequency guards of a controlled field.
LEMMA OnFrequencyEnters ==
    ASSUME GuardedProfile, NEW h, Sound(h), NEW m0 \in Messages, NEW c \in Contexts,
           NEW phase0 \in Phases, NEW t \in Nat, Settled(h, c),
           c.towered, c.freq \notin {"INFO", "UNICOM", "CTAF", "RADIO"},
           ~NoEntry(h, process_on_frequency(h, m0, c, phase0, t).g)
    PROVE  Fits(process_on_frequency(h, m0, c, phase0, t).g.state, c, phase0)
  <1> DEFINE m == tower_only_initial_collapse(h, m0, c)
             k == start_departure_cycle(h, m, c)
             a == answer(k, m, c, t)
             f == process_on_frequency(h, m0, c, phase0, t)
  <1>1. m \in Messages /\ (m = m0 \/ m.intent = "INITIAL_CALL_GROUND")
    BY MessageTypes DEF tower_only_initial_collapse, Messages
  <1>. HIDE DEF m
  <1>2. Sound(k) /\ k.state = h.state /\ state_name(k) = state_name(h)
    <2>1. h \in Machine /\ set_was_airborne(h, FALSE) \in Machine
          /\ Sound(set_was_airborne(h, FALSE)) /\ Same(h, set_was_airborne(h, FALSE))
      BY WasAirborneKeeps, KeepsSound, BookkeepingSame DEF Sound
    <2>2. k = h \/ k = set_was_airborne(h, FALSE)
      BY DEF start_departure_cycle
    <2>3. QED BY <2>1, <2>2 DEF Same, state_name
  <1>. HIDE DEF k
  <1>3. \/ f = [g |-> h, resp |-> plain(TRUE)]
        \/ f = [g |-> k, resp |-> plain(TRUE)]
        \/ /\ f = a
           /\ ~is_idle_redirect(h, m0, c)
           /\ ~phase_rejects(m, phase0) /\ ~frequency_rejects(m, c)
    BY DEF process_on_frequency, f, a, k, m
  <1>4. ~NoEntry(h, f.g)
    BY DEF f
  <1>. HIDE DEF f
  <1>5. f # [g |-> h, resp |-> plain(TRUE)]
    <2>1. CASE f = [g |-> h, resp |-> plain(TRUE)]
      <3>1. f.g = h
        BY <2>1
      <3>2. QED BY <1>4, <3>1 DEF NoEntry
    <2>2. QED BY <2>1
  <1>6. f # [g |-> k, resp |-> plain(TRUE)]
    <2>1. CASE f = [g |-> k, resp |-> plain(TRUE)]
      <3>1. f.g = k
        BY <2>1
      <3>2. QED BY <1>2, <1>4, <3>1 DEF NoEntry
    <2>2. QED BY <2>1
  <1>7. f = a /\ ~is_idle_redirect(h, m0, c)
        /\ ~phase_rejects(m, phase0) /\ ~frequency_rejects(m, c)
    BY <1>3, <1>5, <1>6
  <1>8. ~NoEntry(k, a.g) /\ f.g.state \in RunwayStates
    BY <1>2, <1>4, <1>7 DEF NoEntry
  <1>9. GuardedClearance(state_name(h), m.intent, a.g.state)
    BY <1>1, <1>2, <1>8, AnswerEnters
  <1>. HIDE DEF a
  <1> DEFINE n == state_name(h)
             s == a.g.state
  <1>10. (s = "DEPARTURE_CLEARED") <=> (phase0 \notin Airborne)
    BY <1>7, <1>9 DEF GuardedClearance, FitsPhase, phase_rejects
  <1>11. c.freq = "TOWER"
    <2> SUFFICES ASSUME c.freq # "TOWER" PROVE FALSE
      OBVIOUS
    <2>1. c.freq \in {"UNKNOWN", "DELIVERY", "GROUND", "ATIS"}
      BY DEF Contexts, FrequencyTypes
    <2>2. StoppedOn(c.freq, n, m.intent) /\ m = m0
      BY <1>1, <1>9, <2>1 DEF GuardedClearance
    <2>3. ~(m.intent \in DOMAIN IntentFrequency /\ c.freq \notin IntentFrequency[m.intent])
      BY <1>7 DEF frequency_rejects, single_tower
    <2>4. (n = "IDLE") <=> (h.state = "IDLE")
      BY DEF state_name
    <2>5. (n = "EN_ROUTE") <=> (h.state = "EN_ROUTE")
      BY DEF state_name
    <2>6. ~(/\ n \notin {"IDLE", "EN_ROUTE"} /\ c.freq # "UNKNOWN"
            /\ c.freq \in DOMAIN FrequencyValidity
            /\ n \notin FrequencyValidity[c.freq])
      BY <2>4, <2>5 DEF Settled
    <2>7. ~(/\ n = "IDLE"
            /\ \E r \in IdleRedirects :
                  r.freq = c.freq /\ m.intent \in r.intents /\ ~r.unless_tower_only)
      BY <1>7, <2>2, <2>4 DEF is_idle_redirect
    <2>8. QED BY <2>2, <2>3, <2>6, <2>7 DEF StoppedOn
  <1>12. QED BY <1>7, <1>10, <1>11 DEF Fits, f

\* The whole of process().
LEMMA ProcessEnters ==
    ASSUME GuardedProfile, NEW h, Sound(h), NEW last, NEW m0 \in Messages,
           NEW c \in Contexts, NEW phase0 \in Phases, NEW t \in Nat,
           ~NoEntry(h, process(h, last, m0, c, phase0, t).g)
    PROVE  Fits(process(h, last, m0, c, phase0, t).g.state, c, phase0)
  <1> DEFINE m == promote(h, m0)
             g1 == check_airport_change(h, last, c.airport, t)
             g2 == apply_state_reverts(g1, m.intent, t)
             v == apply_state_frequency_validity(g2, c, t)
             g3 == apply_frequency_auto_corrections(v, c, t)
             f == process_on_frequency(g3, m, c, phase0, t)
             r == process(h, last, m0, c, phase0, t)
  <1>1. m \in Messages
    BY MessageTypes
  <1>. HIDE DEF m
  <1>2. Sound(g1) /\ NoEntry(h, g1)
    BY AirportKeeps, KeepsSound, GuardsNoEntry
  <1>. HIDE DEF g1
  <1>3. Sound(g2) /\ NoEntry(g1, g2)
    BY <1>2, RevertsKeep, KeepsSound, GuardsNoEntry
  <1>. HIDE DEF g2
  <1>4. Sound(v) /\ NoEntry(g2, v)
    BY <1>3, FrequencyGuardsKeep, KeepsSound, GuardsNoEntry
  <1>5. Settled(g3, c)
    BY <1>3, GuardsSettle
  <1>. HIDE DEF v
  <1>6. Sound(g3) /\ NoEntry(v, g3)
    BY <1>4, FrequencyGuardsKeep, KeepsSound, GuardsNoEntry
  <1>. HIDE DEF g3
  <1>7. /\ NoEntry(g1, handle_negative_correction(g1, t).g)
        /\ NoEntry(g2, handle_info_flow(g2, m, t).g)
        /\ NoEntry(g2, handle_unicom_flow(g2, m, c, t).g)
    BY <1>2, <1>3, GuardsNoEntry
  <1>8. \/ r = handle_negative_correction(g1, t)
        \/ r = [g |-> g1, resp |-> demand(g1.readback_pending)]
        \/ r = handle_info_flow(g2, m, t) \/ r = handle_unicom_flow(g2, m, c, t)
        \/ r = [g |-> g2, resp |-> plain(TRUE)]
        \/ r = f /\ c.freq # "INFO" /\ ~in_unicom_flow(c)
    BY DEF process, repeat, r, f, g3, v, g2, g1, m
  <1>9. ~NoEntry(h, r.g)
    BY DEF r
  <1>. HIDE DEF r
  <1>10. NoEntry(h, g2) /\ NoEntry(h, g3)
    BY <1>2, <1>3, <1>4, <1>6 DEF NoEntry
  <1>11. r # [g |-> g1, resp |-> demand(g1.readback_pending)]
    <2>1. CASE r = [g |-> g1, resp |-> demand(g1.readback_pending)]
      <3>1. r.g = g1
        BY <2>1
      <3>2. QED BY <1>2, <1>9, <3>1
    <2>2. QED BY <2>1
  <1>12. r # [g |-> g2, resp |-> plain(TRUE)]
    <2>1. CASE r = [g |-> g2, resp |-> plain(TRUE)]
      <3>1. r.g = g2
        BY <2>1
      <3>2. QED BY <1>9, <1>10, <3>1
    <2>2. QED BY <2>1
  <1>13. /\ r # handle_negative_correction(g1, t)
         /\ r # handle_info_flow(g2, m, t) /\ r # handle_unicom_flow(g2, m, c, t)
    BY <1>2, <1>7, <1>9, <1>10 DEF NoEntry
  <1>14. r = f /\ c.towered /\ c.freq \notin {"INFO", "UNICOM", "CTAF", "RADIO"}
    BY <1>8, <1>11, <1>12, <1>13 DEF in_unicom_flow
  <1>15. ~NoEntry(g3, f.g)
    BY <1>9, <1>10, <1>14 DEF NoEntry
  <1>16. Fits(f.g.state, c, phase0)
    BY <1>1, <1>5, <1>6, <1>14, <1>15, OnFrequencyEnters
  <1>17. QED BY <1>14, <1>16 DEF r

\* Latching the flight intent moves nothing.
LEMMA LatchMovesNothing ==
    ASSUME NEW h, Sound(h), NEW n \in Messages
    PROVE  Sound(latch_flight_intent(h, n)) /\ latch_flight_intent(h, n).state = h.state
  <1>1. Sound(latch_flight_intent(h, n)) /\ h \in Machine
    BY LatchKeeps, KeepsSound DEF Sound
  <1>2. set_flight_intent(h, n.declares).state = h.state
    BY <1>1, SettersSet
  <1>3. QED BY <1>1, <1>2 DEF latch_flight_intent

\* The bookkeeping of a step, from the machine to the machine.
LEMMA CommitNoEntry ==
    ASSUME NEW h, NEW k, Sound(k), NoEntry(h, k)
    PROVE  NoEntry(h, commit(h, k))
  BY CommitSame DEF Same, NoEntry, Sound

\* A frame clears nobody: the corrections lead off the runway.
LEMMA FrameNoEntry ==
    ASSUME GuardedProfile, IInv, NEW a, NEW p \in FlownPhases, Frame(a, p)
    PROVE  NoEntry(g, g')
  <1> DEFINE g1 == IF {phase, p} \cap Airborne # {} THEN set_was_airborne(g, TRUE)
                   ELSE g
             g2 == check_auto_correction(g1, p, clock)
             c == [airport |-> a]
             g3 == check_airport_change(g2, last_airport, a, clock)
  <1>1. Sound(g) /\ g \in Machine /\ clock \in Nat
    BY DialogueAssumption DEF IInv, TypeOK, Sound
  <1>2. Sound(g1) /\ NoEntry(g, g1)
    <2>1. Sound(set_was_airborne(g, TRUE)) /\ Same(g, set_was_airborne(g, TRUE))
      BY <1>1, WasAirborneKeeps, KeepsSound, BookkeepingSame
    <2>2. QED BY <1>1, <2>1 DEF Same, NoEntry
  <1>3. g' = commit(g, g3)
    BY DEF Frame
  <1>. HIDE DEF g1
  <1>4. Sound(g2) /\ NoEntry(g1, g2)
    <2>1. Sound(g2)
      BY <1>1, <1>2, CorrectionCheckKeeps, KeepsSound
    <2> DEFINE n == state_name(g1)
               first == CHOOSE i \in matching(n, p) : \A j \in matching(n, p) : i <= j
               rule == AutoCorrections[n][first]
               timer == correction_time(g1, <<n, first>>)
    <2>2. \A x, y : NoEntry(g1, set_correction(g1, x, y))
      BY <1>2, BookkeepingSame DEF Same, NoEntry, Sound
    <2>3. CASE g1.state \in {"IDLE", "UNICOM_ACTIVE"} \/ n \notin DOMAIN AutoCorrections
      <3>1. g2 = g1
        BY <2>3 DEF check_auto_correction
      <3>2. QED BY <2>1, <3>1 DEF NoEntry
    <2>4. CASE n \in DOMAIN AutoCorrections /\ matching(n, p) = {}
      <3>1. g2 = g1 \/ g2 = set_correction(g1, None, 0)
        BY <2>4 DEF check_auto_correction
      <3>2. NoEntry(g1, g1) /\ NoEntry(g1, set_correction(g1, None, 0))
        BY <2>2 DEF NoEntry
      <3>3. QED BY <2>1, <3>1, <3>2
    <2>5. CASE n \in DOMAIN AutoCorrections /\ matching(n, p) # {}
      <3>1. /\ DOMAIN AutoCorrections[n] \subseteq Nat
            /\ \A i \in DOMAIN AutoCorrections[n] : AutoCorrections[n][i].next \in ATCStates
        <4> DEFINE R == [phases : SUBSET Phases, next : ATCStates, delay : Nat \ {0}]
        <4>1. AutoCorrections[n] \in Seq(R)
          BY <2>5, ProfileAssumption
        <4>2. /\ DOMAIN AutoCorrections[n] = 1..Len(AutoCorrections[n])
              /\ Len(AutoCorrections[n]) \in Nat
          BY <4>1, LenProperties
        <4>3. \A i \in DOMAIN AutoCorrections[n] : AutoCorrections[n][i] \in R
          BY <4>1, <4>2, ElementOfSeq
        <4>4. QED BY <4>2, <4>3
      <3>2. first \in matching(n, p)
        BY <2>5, <3>1, LeastNatural DEF matching
      <3>3. rule.next \in ATCStates /\ rule.next \notin RunwayStates
        BY <2>5, <3>1, <3>2 DEF matching, GuardedProfile
      <3>. HIDE DEF first, rule, timer
      <3>4. NoEntry(g1, auto_correct(g1, rule.next, clock))
        <4> DEFINE i == transition_to(g1, rule.next, clock)
                   q == set_readback_pending(i, FALSE)
                   d == set_correction(q, None, 0)
                   x == set_assigned_runway(d, None)
        <4>1. Sound(i) /\ i \in Machine /\ i.state = rule.next
          <5>1. Sound(i) /\ i.state = rule.next
            BY <1>1, <1>2, <3>3, TransitionKeeps, KeepsSound, TransitionMoves DEF Sound
          <5>2. QED BY <5>1 DEF Sound
        <4>. HIDE DEF i
        <4>2. Sound(q) /\ q.state = rule.next
          BY <4>1, PendingKeeps, KeepsSound, PendingSets
        <4>3. q \in Machine
          BY <4>2 DEF Sound
        <4>. HIDE DEF q
        <4>4. Sound(d) /\ d.state = rule.next
          <5>1. Sound(d)
            BY <4>2, CorrectionKeeps, KeepsSound
          <5>2. d.state = q.state
            BY <4>3, BookkeepingSame DEF Same
          <5>3. QED BY <4>2, <5>1, <5>2
        <4>5. d \in Machine
          BY <4>4 DEF Sound
        <4>. HIDE DEF d
        <4>6. Sound(x) /\ x.state = rule.next
          BY <4>4, <4>5, RunwayKeeps, KeepsSound, BookkeepingSame DEF Same
        <4>7. x \in Machine
          BY <4>6 DEF Sound
        <4>. HIDE DEF x
        <4>8. set_session_callsign(x, None).state = rule.next
          BY <4>6, <4>7, BookkeepingSame DEF Same
        <4>9. auto_correct(g1, rule.next, clock) \in {d, set_session_callsign(x, None)}
          BY DEF auto_correct, release_runway_and_callsign, i, q, d, x
        <4>10. QED BY <3>3, <4>4, <4>8, <4>9 DEF NoEntry
      <3>5. g2 \in {g1, auto_correct(g1, rule.next, clock),
                    set_correction(g1, <<n, first>>, timer)}
        BY <2>5 DEF check_auto_correction, first, rule, timer
      <3>6. NoEntry(g1, g1) /\ NoEntry(g1, set_correction(g1, <<n, first>>, timer))
        BY <2>2 DEF NoEntry
      <3>. HIDE DEF g2
      <3>7. QED BY <2>1, <3>4, <3>5, <3>6
    <2>6. QED BY <2>1, <2>3, <2>4, <2>5
  <1>. HIDE DEF g2
  <1>5. NoEntry(g2, g3)
    <2>1. c.airport = a
      OBVIOUS
    <2>. HIDE DEF c
    <2>2. QED BY <1>1, <1>4, <2>1, GuardsNoEntry
  <1>6. Sound(g3)
    BY <1>1, <1>4, AirportKeeps, KeepsSound
  <1>. HIDE DEF g3
  <1>7. NoEntry(g, g3)
    BY <1>2, <1>4, <1>5 DEF NoEntry
  <1>8. QED BY <1>3, <1>6, <1>7, CommitNoEntry

\* Neither do the buttons and a new flight.
LEMMA ClickNoEntry ==
    ASSUME IInv,
           \/ \E near \in BOOLEAN : Disregard(near)
           \/ NewFlightButton
           \/ \E on_ground \in BOOLEAN : FreshFlight(on_ground)
    PROVE  NoEntry(g, g')
  <1>1. Sound(g) /\ g \in Machine /\ clock \in Nat
    BY DialogueAssumption DEF IInv, TypeOK, Sound
  <1>2. ASSUME NEW near \in BOOLEAN, Disregard(near) PROVE NoEntry(g, g')
    <2> DEFINE q == set_readback_pending(g, FALSE)
               b == set_clearance(q, None)
               d == set_last_tower_response(b, FALSE)
               i == transition_to(d, "IDLE", clock)
               x == set_assigned_runway(i, None)
               y == set_session_callsign(x, None)
               z == set_departure_type(y, "PATTERN")
               next == IF near THEN "PATTERN_ENTRY" ELSE "EN_ROUTE"
               w == transition_to(d, next, clock)
    <2>1. Sound(q) /\ q.readback_pending = FALSE
      BY <1>1, PendingKeeps, KeepsSound, SetterFields
    <2>. HIDE DEF q
    <2>2. Sound(b)
      BY <2>1, ClearanceKeeps, KeepsSound
    <2>. HIDE DEF b
    <2>3. Sound(d) /\ d \in Machine
      <3>1. Sound(d)
        BY <2>2, LastResponseKeeps, KeepsSound
      <3>2. QED BY <3>1 DEF Sound
    <2>4. disregard(g, phase, near, clock) \in {z, w}
      BY DEF disregard, drop_readback, release_runway_and_callsign,
             q, b, d, i, x, y, z, next, w
    <2>. HIDE DEF d
    <2>5. next \in ATCStates /\ next \notin RunwayStates
          /\ "IDLE" \in ATCStates /\ "IDLE" \notin RunwayStates
      BY DEF ATCStates, RunwayStates
    <2>. HIDE DEF next
    <2>6. Sound(w) /\ w.state = next
      BY <1>1, <2>3, <2>5, TransitionKeeps, KeepsSound, TransitionMoves
    <2>7. Sound(i) /\ i.state = "IDLE"
      BY <1>1, <2>3, <2>5, TransitionKeeps, KeepsSound, TransitionMoves
    <2>8. i \in Machine
      BY <2>7 DEF Sound
    <2>. HIDE DEF i, w
    <2>9. Sound(x) /\ x.state = "IDLE"
      BY <2>7, <2>8, RunwayKeeps, KeepsSound, BookkeepingSame DEF Same
    <2>10. x \in Machine
      BY <2>9 DEF Sound
    <2>. HIDE DEF x
    <2>11. Sound(y) /\ y.state = "IDLE"
      BY <2>9, <2>10, CallsignKeeps, KeepsSound, BookkeepingSame DEF Same
    <2>12. y \in Machine
      BY <2>11 DEF Sound
    <2>. HIDE DEF y
    <2>13. Sound(z) /\ z.state = "IDLE"
      BY <2>11, <2>12, DepartureTypeKeeps, KeepsSound, SettersSet
    <2>. HIDE DEF z
    <2> DEFINE r == disregard(g, phase, near, clock)
    <2>14. g' = commit(g, r)
      BY <1>2 DEF Disregard
    <2>. HIDE DEF r
    <2>15. Sound(r) /\ r.state \notin RunwayStates
      BY <2>4, <2>5, <2>6, <2>13 DEF r
    <2>16. QED BY <2>14, <2>15, CommitNoEntry DEF NoEntry
  <1>3. CASE NewFlightButton
    BY <1>1, <1>3, BookkeepingSame DEF NewFlightButton, Same, NoEntry
  <1>4. ASSUME NEW on_ground \in BOOLEAN, FreshFlight(on_ground) PROVE NoEntry(g, g')
    <2> DEFINE s == Started("engines_running")
               n == g.gen + 1
               x == g.correction
               k == [s EXCEPT !.gen = n]
    <2>1. s \in Machine /\ s.state = "IDLE"
      BY StartedSound DEF Started, Sound
    <2>2. begin_fresh_flight(g, on_ground)
             \in {g, [k EXCEPT !.correction = x]}
      BY DEF begin_fresh_flight, reset, s, n, x, k
    <2>. HIDE DEF s, n, x
    <2>3. k.state = "IDLE" /\ DOMAIN k = DOMAIN s
      BY <2>1 DEF Machine
    <2>4. "state" \in DOMAIN k
      BY <2>1, <2>3 DEF Machine
    <2>. HIDE DEF k
    <2>5. [k EXCEPT !.correction = x].state = "IDLE"
      BY <2>3, <2>4
    <2>6. g' = begin_fresh_flight(g, on_ground)
      BY <1>4 DEF FreshFlight
    <2>7. QED BY <2>2, <2>5, <2>6 DEF NoEntry, RunwayStates
  <1>5. QED BY <1>2, <1>3, <1>4

\* Where the profile guards its clearances as the German one does, nobody is
\* cleared onto a runway but by the tower of a controlled field, and in a
\* flight phase that fits: not by a late answer of the language model, a
\* frame, a correction, a button or the repetition of an old question.
THEOREM OnlyTheTowerClears == Spec /\ GuardedProfile => ClearedByTower
  <1>. SUFFICES ASSUME GuardedProfile PROVE Spec => ClearedByTower
    OBVIOUS
  <1>1. IInv /\ [Next]_vars =>
          [/\ g'.state \in RunwayStates /\ g'.state # g.state /\ ~Rollback
           => /\ heard' # None
              /\ heard'.c.freq = "TOWER" /\ heard'.c.towered
              /\ (g'.state = "DEPARTURE_CLEARED")
                    <=> (heard'.phase \notin Airborne)]_vars
    <2> SUFFICES ASSUME IInv, Next, g'.state \in RunwayStates,
                        g'.state # g.state, ~Rollback
                 PROVE  /\ heard' # None
                        /\ heard'.c.freq = "TOWER" /\ heard'.c.towered
                        /\ (g'.state = "DEPARTURE_CLEARED")
                              <=> (heard'.phase \notin Airborne)
      OBVIOUS
    <2>1. ~NoEntry(g, g') /\ Sound(g) /\ g \in Machine /\ phase \in Phases
      BY DEF NoEntry, IInv, TypeOK, Sound
    <2>2. RunAction
      <3> SUFFICES ASSUME ~RunAction PROVE FALSE
        OBVIOUS
      <3>1. ASSUME NEW m \in Calls, g' = commit(g, latch_flight_intent(g, m))
            PROVE  FALSE
        <4>1. m \in Messages
          BY DialogueAssumption
        <4>2. NoEntry(g, latch_flight_intent(g, m)) /\ Sound(latch_flight_intent(g, m))
          BY <2>1, <4>1, LatchMovesNothing DEF NoEntry
        <4>3. QED BY <2>1, <3>1, <4>2, CommitNoEntry
      <3>2. ASSUME g' = g PROVE FALSE
        BY <2>1, <3>2 DEF NoEntry
      <3>3. QED
        BY <3>1, <3>2, <2>1, FrameNoEntry, ClickNoEntry
           DEF Next, RunAction, AskLm, AnswerAside, Garbled,
               LmAside, ReplyHeard, ReplyLost, Rollback
    <2>3. PICK latched, m, c, t : RunOf(latched, m, c, t)
      BY <2>2, HeardIsRun
    <2> DEFINE r == process(latched, last_airport, m, c, phase, t)
    <2>4. /\ heard'.c = c /\ heard'.phase = phase
          /\ m \in Messages /\ t \in Nat /\ c \in Contexts
          /\ g' = commit(g, r.g)
      BY <2>3 DEF RunOf
    <2>5. Sound(latched) /\ latched.state = g.state
      BY <2>1, <2>3, LatchMovesNothing DEF RunOf
    <2>6. Sound(r.g) /\ heard' # None
      <3>1. Reply(latched, r)
        BY <2>4, <2>5, ProcessReplies
      <3>2. Sound(r.g) /\ r.resp \in Responses
        BY <3>1, KeepsSound DEF Reply
      <3>3. heard' \in Hearings
        BY <2>1, <2>3, <3>2 DEF RunOf, Hearings
      <3>4. QED BY <3>2, <3>3, DialogueAssumption
    <2>7. NoEntry(latched, r.g) \/ Fits(r.g.state, c, phase)
      BY <2>1, <2>4, <2>5, ProcessEnters
    <2>. HIDE DEF r
    <2>8. ~NoEntry(g, r.g)
      BY <2>1, <2>4, <2>6, CommitNoEntry
    <2>9. Fits(r.g.state, c, phase)
      BY <2>5, <2>7, <2>8 DEF NoEntry
    <2>10. g'.state = r.g.state
      BY <2>4, <2>6, CommitSame DEF Same, Sound
    <2>11. QED BY <2>6, <2>4, <2>9, <2>10 DEF Fits
  <1>2. QED BY <1>1, InitInv, NextInv, PTL DEF Spec, ClearedByTower

-----------------------------------------------------------------------------
(* The declared cross-country flight.                                      *)

\* The guards of process() keep the declared intent.
LEMMA GuardsKeepIntent ==
    ASSUME NEW h, Sound(h), NEW i, NEW m, NEW c, NEW last, NEW t \in Nat
    PROVE  /\ check_airport_change(h, last, c.airport, t).flight_intent = h.flight_intent
           /\ apply_state_reverts(h, i, t).flight_intent = h.flight_intent
           /\ apply_state_frequency_validity(h, c, t).flight_intent = h.flight_intent
           /\ apply_frequency_auto_corrections(h, c, t).flight_intent = h.flight_intent
           /\ start_departure_cycle(h, m, c).flight_intent = h.flight_intent
  <1>0. h \in Machine
    BY DEF Sound
  <1>1. \A next : transition_to(h, next, t).flight_intent = h.flight_intent
    BY <1>0, TransitionMoves
  <1>2. /\ apply_state_frequency_validity(h, c, t).flight_intent = h.flight_intent
        /\ apply_frequency_auto_corrections(h, c, t).flight_intent = h.flight_intent
    BY <1>1 DEF apply_state_frequency_validity, apply_frequency_auto_corrections
  <1>3. start_departure_cycle(h, m, c).flight_intent = h.flight_intent
    BY <1>0, BookkeepingSame DEF Same, start_departure_cycle
  <1>4. check_airport_change(h, last, c.airport, t).flight_intent = h.flight_intent
    <2> DEFINE k == transition_to(h, "IDLE", t)
               p == set_readback_pending(k, FALSE)
               r == set_assigned_runway(p, None)
               d == set_departure_type(r, "PATTERN")
    <2>1. Sound(k) /\ k.flight_intent = h.flight_intent
      BY <1>1, TransitionKeeps, KeepsSound DEF ATCStates
    <2>2. k \in Machine
      BY <2>1 DEF Sound
    <2>. HIDE DEF k
    <2>3. Sound(p) /\ p.flight_intent = h.flight_intent
      BY <2>1, <2>2, PendingKeeps, KeepsSound, PendingSets
    <2>4. p \in Machine
      BY <2>3 DEF Sound
    <2>. HIDE DEF p
    <2>5. Sound(r) /\ r.flight_intent = h.flight_intent
      BY <2>3, <2>4, RunwayKeeps, KeepsSound, BookkeepingSame DEF Same
    <2>6. r \in Machine
      BY <2>5 DEF Sound
    <2>. HIDE DEF r
    <2>7. d.flight_intent = h.flight_intent
      BY <2>5, <2>6, SettersSet
    <2>. HIDE DEF d
    <2>8. check_airport_change(h, last, c.airport, t) \in {h, d}
      BY DEF check_airport_change, leave_airport, k, p, r, d
    <2>9. QED BY <2>7, <2>8
  <1>5. apply_state_reverts(h, i, t).flight_intent = h.flight_intent
    <2>1. CASE reverts(h, i) = {}
      BY <2>1 DEF apply_state_reverts
    <2>2. CASE reverts(h, i) # {}
      <3> DEFINE r == CHOOSE r \in reverts(h, i) : TRUE
                 k == transition_to(h, r.to, t)
      <3>1. r \in reverts(h, i)
        BY <2>2
      <3>2. r.to \in ATCStates
        BY <3>1, ProfileAssumption DEF reverts
      <3>. HIDE DEF r
      <3>3. Sound(k) /\ k.flight_intent = h.flight_intent
        BY <1>1, <3>2, TransitionKeeps, KeepsSound
      <3>4. k \in Machine
        BY <3>3 DEF Sound
      <3>. HIDE DEF k
      <3>5. set_departure_type(k, "PATTERN").flight_intent = h.flight_intent
        BY <3>3, <3>4, SettersSet
      <3>6. apply_state_reverts(h, i, t) \in {k, set_departure_type(k, "PATTERN")}
        BY <2>2 DEF apply_state_reverts, r, k
      <3>7. QED BY <3>3, <3>5, <3>6
    <2>3. QED BY <2>1, <2>2
  <1>6. QED BY <1>2, <1>3, <1>4, <1>5

\* A template that demands a readback says something, and a second clearance
\* for the pattern is none of those a VFR departure can get.
LEMMA LookupReadback ==
    ASSUME NEW n, NEW i, NEW b, lookup(n, i, b).readback
    PROVE  /\ lookup(n, i, b).said
           /\ XcProfile /\ i = "READY_FOR_DEPARTURE_VFR"
                 /\ n = "Pattern/DEPARTURE_CLEARED"
                 => lookup(n, i, b).next # "DEPARTURE_CLEARED"
  <1> DEFINE e == lookup(n, i, b)
  <1>1. \/ e = Fallback
        \/ /\ n \in DOMAIN Templates
           /\ \E j \in {i, "_INVALID"} \cap DOMAIN Templates[n] : e = Templates[n][j]
        \/ /\ n \in DOMAIN TowerOnlyTemplates /\ i \in DOMAIN TowerOnlyTemplates[n]
           /\ e = TowerOnlyTemplates[n][i]
    BY DEF e, lookup, block_lookup
  <1>2. e.readback
    BY DEF e
  <1>. HIDE DEF e
  <1>3. e # Fallback
    <2>1. Fallback.readback = FALSE
      BY DEF Fallback
    <2>2. QED BY <1>2, <2>1
  <1>4. CASE /\ n \in DOMAIN Templates
             /\ \E j \in {i, "_INVALID"} \cap DOMAIN Templates[n] : e = Templates[n][j]
    <2>1. PICK j \in {i, "_INVALID"} \cap DOMAIN Templates[n] : e = Templates[n][j]
      BY <1>4
    <2>2. e.said
      BY <1>2, <1>4, <2>1, ProfileAssumption
    <2>3. ASSUME XcProfile, i = "READY_FOR_DEPARTURE_VFR",
                 n = "Pattern/DEPARTURE_CLEARED"
          PROVE  e.next # "DEPARTURE_CLEARED"
      BY <1>2, <1>4, <2>1, <2>3 DEF XcProfile
    <2>4. QED BY <2>2, <2>3 DEF e
  <1>5. CASE /\ n \in DOMAIN TowerOnlyTemplates /\ i \in DOMAIN TowerOnlyTemplates[n]
             /\ e = TowerOnlyTemplates[n][i]
    <2>1. e.said
      BY <1>2, <1>5, ProfileAssumption
    <2>2. ASSUME XcProfile, i = "READY_FOR_DEPARTURE_VFR",
                 n = "Pattern/DEPARTURE_CLEARED"
          PROVE  e.next # "DEPARTURE_CLEARED"
      BY <1>2, <1>5, <2>2 DEF XcProfile
    <2>3. QED BY <2>1, <2>2 DEF e
  <1>6. QED BY <1>1, <1>3, <1>4, <1>5

\* The hooks keep the declared intent.
LEMMA HooksKeepIntent ==
    ASSUME NEW h, Sound(h), NEW m \in Messages, NEW c \in Contexts,
           NEW e \in Entries, NEW comp \in Clearances, NEW t \in Nat
    PROVE  apply_post_transition_hooks(h, m, c, e, comp, t).flight_intent
              = h.flight_intent
  <1> DEFINE k0 == track_readback(h, m, e, comp)
             k1 == lock_runway_and_callsign(k0, m, c, e)
             k2 == apply_transition(k1, m, e, t)
             k3 == release_locks(k2, e)
             k4 == tower_only_advance(k3, c, t)
             k5 == apply_post_transition_hooks(h, m, c, e, comp, t)
  <1>0. Sound(k0) /\ SameCourse(h, k0)
    BY TrackKeeps, TrackCourse, KeepsSound
  <1>. HIDE DEF k0
  <1>1. Sound(k1) /\ SameCourse(k0, k1)
    BY <1>0, LockKeeps, LockCourse, KeepsSound
  <1>. HIDE DEF k1
  <1>2. Sound(k2) /\ k2.flight_intent = k1.flight_intent
    <2> DEFINE k == transition_to(k1, e.next, t)
               type == IF m.intent = "READY_FOR_DEPARTURE_VFR" THEN "CROSS_COUNTRY"
                                                               ELSE "PATTERN"
    <2>1. Sound(k2)
      BY <1>1, ApplyTransitionKeeps, KeepsSound
    <2>2. Sound(k) /\ k.flight_intent = k1.flight_intent
      <3>1. k1 \in Machine
        BY <1>1 DEF Sound
      <3>2. QED BY <1>1, <3>1, TransitionKeeps, KeepsSound, TransitionMoves DEF Entries
    <2>3. k \in Machine
      BY <2>2 DEF Sound
    <2>4. k2 \in {k1, k, set_departure_type(k, type), set_departure_type(k, "PATTERN")}
      BY DEF apply_transition, k, type
    <2>. HIDE DEF k, type, k2
    <2>5. /\ set_departure_type(k, type).flight_intent = k1.flight_intent
          /\ set_departure_type(k, "PATTERN").flight_intent = k1.flight_intent
      BY <2>2, <2>3, SettersSet
    <2>6. QED BY <2>1, <2>2, <2>4, <2>5
  <1>. HIDE DEF k2
  <1>3. Sound(k3) /\ SameCourse(k2, k3)
    BY <1>2, ReleaseCourse
  <1>. HIDE DEF k3
  <1>4. k4 \in Machine /\ k4.flight_intent = k3.flight_intent
    <2>1. k3 \in Machine
      BY <1>3 DEF Sound
    <2>2. state_name(k3) \in DOMAIN TowerOnlyAutoAdvance =>
            LET x == transition_to(k3, TowerOnlyAutoAdvance[state_name(k3)], t)
            IN  Sound(x) /\ x.flight_intent = k3.flight_intent
      BY <1>3, <2>1, TransitionKeeps, KeepsSound, TransitionMoves, ProfileAssumption
    <2>3. QED BY <2>1, <2>2 DEF tower_only_advance, Sound
  <1>. HIDE DEF k4
  <1>5. Same(k4, set_last_tower_response(k4, TRUE))
    BY <1>4, BookkeepingSame
  <1>6. k5 \in {k4, set_last_tower_response(k4, TRUE)}
    BY DEF apply_post_transition_hooks, k0, k1, k2, k3, k4, k5
  <1>. HIDE DEF k5
  <1>7. k5.flight_intent = h.flight_intent
    BY <1>0, <1>1, <1>2, <1>3, <1>4, <1>5, <1>6 DEF Same, SameCourse
  <1>8. QED BY <1>7 DEF k5

\* The hooks after a clearance that is said: a VFR request that ends cleared
\* for departure is one for a cross-country flight, or it was cleared before
\* and the kind of departure is what it was.
LEMMA HooksDepart ==
    ASSUME XcProfile, NEW h, Sound(h), NEW m \in Messages, NEW c \in Contexts,
           NEW e \in Entries, NEW comp \in Clearances, NEW t \in Nat,
           m.intent = "READY_FOR_DEPARTURE_VFR", e.said
    PROVE  LET k == apply_post_transition_hooks(h, m, c, e, comp, t)
           IN  k.state = "DEPARTURE_CLEARED" =>
                 /\ e.next = "DEPARTURE_CLEARED"
                 /\ \/ k.departure_type = "CROSS_COUNTRY"
                    \/ (h.state = "DEPARTURE_CLEARED"
                        /\ k.departure_type = h.departure_type)
  <1> DEFINE k0 == track_readback(h, m, e, comp)
             k1 == lock_runway_and_callsign(k0, m, c, e)
             k2 == apply_transition(k1, m, e, t)
             k3 == release_locks(k2, e)
             k4 == tower_only_advance(k3, c, t)
             k5 == apply_post_transition_hooks(h, m, c, e, comp, t)
  <1>0. Sound(k0) /\ SameCourse(h, k0)
    BY TrackKeeps, TrackCourse, KeepsSound
  <1>. HIDE DEF k0
  <1>1. Sound(k1) /\ SameCourse(h, k1)
    <2>1. Sound(k1) /\ SameCourse(k0, k1)
      BY <1>0, LockKeeps, LockCourse, KeepsSound
    <2>2. QED BY <1>0, <2>1 DEF SameCourse
  <1>. HIDE DEF k1
  <1>2. /\ Sound(k2) /\ k2.state = e.next
        /\ e.next = "DEPARTURE_CLEARED" =>
              k2.departure_type = "CROSS_COUNTRY"
              \/ (h.state = "DEPARTURE_CLEARED" /\ k2.departure_type = h.departure_type)
    <2> DEFINE k == transition_to(k1, e.next, t)
    <2>1. Sound(k2)
      BY <1>1, ApplyTransitionKeeps, KeepsSound
    <2>2. /\ Sound(k) /\ k.state = e.next /\ k.departure_type = h.departure_type
      <3>1. k1 \in Machine
        BY <1>1 DEF Sound
      <3>2. QED BY <1>1, <3>1, TransitionKeeps, KeepsSound, TransitionMoves
                DEF Entries, SameCourse
    <2>3. k \in Machine
      BY <2>2 DEF Sound
    <2>4. k2 = IF e.next = "DEPARTURE_CLEARED" /\ k1.state # "DEPARTURE_CLEARED"
               THEN set_departure_type(k, "CROSS_COUNTRY")
               ELSE IF k1.state = "DEPARTURE_CLEARED" /\ e.next # "DEPARTURE_CLEARED"
               THEN set_departure_type(k, "PATTERN") ELSE k
      BY DEF apply_transition
    <2>. HIDE DEF k, k2
    <2>5. \A v \in {"CROSS_COUNTRY", "PATTERN"} :
            /\ set_departure_type(k, v).state = e.next
            /\ set_departure_type(k, v).departure_type = v
      BY <2>2, <2>3, SettersSet
    <2>6. k1.state = h.state
      BY <1>1 DEF SameCourse
    <2>7. QED BY <2>1, <2>2, <2>4, <2>5, <2>6
  <1>. HIDE DEF k2
  <1>3. Sound(k3) /\ SameCourse(k2, k3)
    BY <1>2, ReleaseCourse
  <1>. HIDE DEF k3
  <1>4. /\ k4 \in Machine
        /\ k4.state = "DEPARTURE_CLEARED" => k4 = k3
    <2>0. k3 \in Machine
      BY <1>3 DEF Sound
    <2> DEFINE next == TowerOnlyAutoAdvance[state_name(k3)]
               x == transition_to(k3, next, t)
    <2>1. CASE c.tower_only /\ state_name(k3) \in DOMAIN TowerOnlyAutoAdvance
      <3>1. next \in ATCStates /\ next # "DEPARTURE_CLEARED"
        BY <2>1, ProfileAssumption DEF XcProfile
      <3>2. k4 = x
        BY <2>1 DEF tower_only_advance
      <3>. HIDE DEF next
      <3>3. Sound(x) /\ x.state = next
        BY <1>3, <2>0, <3>1, TransitionKeeps, KeepsSound, TransitionMoves
      <3>. HIDE DEF x
      <3>4. QED BY <3>1, <3>2, <3>3 DEF Sound
    <2>2. CASE ~(c.tower_only /\ state_name(k3) \in DOMAIN TowerOnlyAutoAdvance)
      BY <2>0, <2>2 DEF tower_only_advance
    <2>3. QED BY <2>1, <2>2
  <1>. HIDE DEF k4
  <1>5. Same(k4, set_last_tower_response(k4, TRUE))
    BY <1>4, BookkeepingSame
  <1>6. k5 = set_last_tower_response(k4, TRUE)
    BY DEF apply_post_transition_hooks, k0, k1, k2, k3, k4, k5
  <1>. HIDE DEF k5
  <1>7. k5.state = "DEPARTURE_CLEARED" =>
              /\ e.next = "DEPARTURE_CLEARED"
              /\ k5.departure_type = k2.departure_type
    BY <1>2, <1>3, <1>4, <1>5, <1>6 DEF Same, SameCourse
  <1>8. QED BY <1>2, <1>7 DEF k5

\* process() of a departure request, answered by a clearance.
LEMMA ProcessDeparts ==
    ASSUME XcProfile, NEW h, Sound(h), NEW last, NEW m0 \in Messages,
           m0.intent \in {"READY_FOR_DEPARTURE", "READY_FOR_DEPARTURE_VFR"},
           NEW c \in Contexts, NEW phase0, NEW t \in Nat,
           process(h, last, m0, c, phase0, t).resp.readback,
           process(h, last, m0, c, phase0, t).g.state = "DEPARTURE_CLEARED",
           process(h, last, m0, c, phase0, t).g.flight_intent = "xc"
    PROVE  process(h, last, m0, c, phase0, t).g.departure_type = "CROSS_COUNTRY"
  <1> DEFINE m == promote(h, m0)
             g1 == check_airport_change(h, last, c.airport, t)
             g2 == apply_state_reverts(g1, m.intent, t)
             v == apply_state_frequency_validity(g2, c, t)
             g3 == apply_frequency_auto_corrections(v, c, t)
             k == start_departure_cycle(g3, m, c)
             a == answer(k, m, c, t)
             r == process(h, last, m0, c, phase0, t)
  <1>1. /\ m \in Messages
        /\ m.intent \in {"READY_FOR_DEPARTURE", "READY_FOR_DEPARTURE_VFR"}
        /\ h.flight_intent = "xc" => m.intent = "READY_FOR_DEPARTURE_VFR"
    <2> DEFINE w == [m0 EXCEPT !.intent = "READY_FOR_DEPARTURE_VFR"]
    <2>1. m \in Messages
      BY MessageTypes
    <2>2. w.intent = "READY_FOR_DEPARTURE_VFR"
      BY DEF Messages
    <2>3. m = IF m0.intent = "READY_FOR_DEPARTURE" /\ h.flight_intent = "xc"
              THEN w ELSE m0
      BY DEF promote
    <2>. HIDE DEF m, w
    <2>4. QED BY <2>1, <2>2, <2>3
  <1>. HIDE DEF m
  <1>2. Sound(g1) /\ g1.flight_intent = h.flight_intent
    <2>1. g1.flight_intent = h.flight_intent
      BY GuardsKeepIntent
    <2>2. QED BY <2>1, AirportKeeps, KeepsSound
  <1>. HIDE DEF g1
  <1>3. Sound(g2) /\ g2.flight_intent = h.flight_intent
    BY <1>2, RevertsKeep, KeepsSound, GuardsKeepIntent
  <1>. HIDE DEF g2
  <1>4. Sound(v) /\ v.flight_intent = h.flight_intent
    BY <1>3, FrequencyGuardsKeep, KeepsSound, GuardsKeepIntent
  <1>. HIDE DEF v
  <1>5. Sound(g3) /\ g3.flight_intent = h.flight_intent
    BY <1>4, FrequencyGuardsKeep, KeepsSound, GuardsKeepIntent
  <1>. HIDE DEF g3
  <1>6. Sound(k) /\ k.flight_intent = h.flight_intent
    <2>1. Sound(k)
      BY <1>5, WasAirborneKeeps, KeepsSound DEF start_departure_cycle
    <2>2. QED BY <1>5, <2>1, GuardsKeepIntent
  <1>. HIDE DEF k
  <1>7. (\E x, b : r = [g |-> x, resp |-> plain(b)]) \/ r = a
    <2>1. m.intent # "NEGATIVE_CORRECTION" /\ m.intent # "REQUEST_REPEAT"
      BY <1>1
    <2>2. tower_only_initial_collapse(g3, m, c) = m
      BY <1>1 DEF tower_only_initial_collapse
    <2>3. \/ process_on_frequency(g3, m, c, phase0, t) = [g |-> g3, resp |-> plain(TRUE)]
          \/ process_on_frequency(g3, m, c, phase0, t) = [g |-> k, resp |-> plain(TRUE)]
          \/ process_on_frequency(g3, m, c, phase0, t) = a
      BY <2>2 DEF process_on_frequency, k, a
    <2>. HIDE DEF a
    <2>4. \/ r = handle_info_flow(g2, m, t) \/ r = handle_unicom_flow(g2, m, c, t)
          \/ r = [g |-> g2, resp |-> plain(TRUE)]
          \/ r = process_on_frequency(g3, m, c, phase0, t)
      BY <2>1 DEF process, r, g3, v, g2, g1, m
    <2>. HIDE DEF r
    <2>5. /\ \E x, b : handle_info_flow(g2, m, t) = [g |-> x, resp |-> plain(b)]
          /\ \E x, b : handle_unicom_flow(g2, m, c, t) = [g |-> x, resp |-> plain(b)]
      BY DEF handle_info_flow, handle_unicom_flow
    <2>6. QED BY <2>3, <2>4, <2>5
  <1>8. r.resp.readback /\ r.g.state = "DEPARTURE_CLEARED" /\ r.g.flight_intent = "xc"
    BY DEF r
  <1>. HIDE DEF r, a
  <1>9. r = a
    <2>1. ASSUME NEW x, NEW b, r = [g |-> x, resp |-> plain(b)] PROVE FALSE
      <3>1. r.resp = plain(b)
        BY <2>1
      <3>2. QED BY <1>8, <3>1 DEF plain
    <2>2. QED BY <1>7, <2>1
  <1> DEFINE tmpl == lookup(state_name(k), m.intent, c.tower_only)
             e == apply_landing_sequence(tmpl, c)
             comp == build_clearance_components(k, m, c, tmpl)
             q == apply_post_transition_hooks(k, m, c, e, comp, t)
             resp == [said |-> e.said, readback |-> e.readback,
                      issued |-> e.issued, runway |-> comp.runway]
  <1>10. a = [g |-> q, resp |-> resp]
    <2>1. ~strict_check_fails(k, m)
      BY <1>1 DEF strict_check_fails
    <2>2. QED BY <2>1 DEF answer, a
  <1>11. tmpl \in Entries
    BY EntryTypes
  <1>12. /\ e.next = tmpl.next /\ e.readback = tmpl.readback
         /\ tmpl.said => e.said
    BY DEF apply_landing_sequence
  <1>13. e \in Entries /\ comp \in Clearances
    BY <1>1, <1>6, <1>11, AnswerTypes
  <1>. HIDE DEF tmpl, e, comp, q
  <1>14. r.g = q /\ r.resp.readback = e.readback
    BY <1>9, <1>10
  <1>15. e.readback /\ tmpl.readback
    BY <1>8, <1>12, <1>14
  <1>16. tmpl.said /\ e.said
    BY <1>12, <1>15, LookupReadback DEF tmpl
  <1>17. m.intent = "READY_FOR_DEPARTURE_VFR"
    <2>1. CASE m.intent = "READY_FOR_DEPARTURE_VFR"
      BY <2>1
    <2>2. CASE m.intent # "READY_FOR_DEPARTURE_VFR"
      <3>1. q.flight_intent = k.flight_intent
        BY <1>1, <1>6, <1>13, HooksKeepIntent DEF q
      <3>2. QED BY <1>1, <1>6, <1>8, <1>14, <3>1
    <2>3. QED BY <2>1, <2>2
  <1>18. /\ e.next = "DEPARTURE_CLEARED"
         /\ q.departure_type = "CROSS_COUNTRY"
            \/ (k.state = "DEPARTURE_CLEARED" /\ q.departure_type = k.departure_type)
    BY <1>1, <1>6, <1>8, <1>13, <1>14, <1>16, <1>17, HooksDepart DEF q
  <1>19. state_name(k) # "Pattern/DEPARTURE_CLEARED"
    BY <1>12, <1>15, <1>17, <1>18, LookupReadback DEF tmpl
  <1>20. k.state = "DEPARTURE_CLEARED" => k.departure_type = "CROSS_COUNTRY"
    BY <1>19 DEF state_name
  <1>21. q.departure_type = "CROSS_COUNTRY"
    BY <1>18, <1>20
  <1>22. QED BY <1>14, <1>21 DEF r

\* Where the profile answers as the German one does, a pilot who declared a
\* cross-country flight and is cleared for departure with a readback gets a
\* cross-country departure: whether rules or language model found the
\* intent, and whatever frames and buttons did to the machine before.
THEOREM DeclaredIsHonoured == Spec /\ XcProfile => XcHonoured
  <1>. SUFFICES ASSUME XcProfile PROVE Spec => XcHonoured
    OBVIOUS
  <1>1. IInv /\ [Next]_vars =>
          [/\ heard' # None /\ heard'.resp.readback
           /\ heard'.m.intent \in {"READY_FOR_DEPARTURE", "READY_FOR_DEPARTURE_VFR"}
           /\ g'.state = "DEPARTURE_CLEARED" /\ g'.flight_intent = "xc"
           => g'.departure_type = "CROSS_COUNTRY"]_vars
    <2> SUFFICES ASSUME IInv, Next, heard' # None, heard'.resp.readback,
                        heard'.m.intent \in {"READY_FOR_DEPARTURE",
                                             "READY_FOR_DEPARTURE_VFR"},
                        g'.state = "DEPARTURE_CLEARED", g'.flight_intent = "xc"
                 PROVE  g'.departure_type = "CROSS_COUNTRY"
      OBVIOUS
    <2>1. PICK latched, m, c, t : RunOf(latched, m, c, t)
      BY HeardWhenRun, HeardIsRun
    <2> DEFINE r == process(latched, last_airport, m, c, phase, t)
    <2>2. /\ heard'.m = m /\ heard'.resp = r.resp
          /\ m \in Messages /\ t \in Nat /\ c \in Contexts
          /\ g' = commit(g, r.g)
      BY <2>1 DEF RunOf
    <2>3. Sound(latched)
      BY <2>1, LatchMovesNothing DEF RunOf, IInv
    <2>4. Reply(latched, r)
      BY <2>2, <2>3, ProcessReplies
    <2>5. r.g \in Machine
      BY <2>4, KeepsSound DEF Reply, Sound
    <2>6. Same(r.g, g')
      BY <2>2, <2>5, CommitSame
    <2>7. /\ r.resp.readback /\ r.g.state = "DEPARTURE_CLEARED"
          /\ r.g.flight_intent = "xc"
          /\ m.intent \in {"READY_FOR_DEPARTURE", "READY_FOR_DEPARTURE_VFR"}
      BY <2>2, <2>6 DEF Same
    <2>8. r.g.departure_type = "CROSS_COUNTRY"
      BY <2>2, <2>3, <2>7, ProcessDeparts
    <2>9. QED BY <2>6, <2>8 DEF Same
  <1>2. QED BY <1>1, InitInv, NextInv, PTL DEF Spec, XcHonoured
=============================================================================
