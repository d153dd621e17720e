-------------------------- MODULE TranscriptProofs ---------------------------
(***************************************************************************)
(* What the plugin makes of a transcript, for every transcript.            *)
(*                                                                         *)
(* 1. The parser is never confident of a physically impossible call, for   *)
(*    every utterance, every verdict of the rules and every table of       *)
(*    adjustments that CheckedTable accepts.  apply_adjustments is a loop  *)
(*    over the table; its invariant, from the entry that catches an        *)
(*    impossible call on, is that the message is not (any more) confident  *)
(*    of that call.                                                        *)
(*                                                                         *)
(* 2. A complete readback is accepted, for every registration, runway and  *)
(*    pressure.  A part of a text is a part of its canonical form: that is *)
(*    shown for the words, for the letters they are welded to, and for the *)
(*    digit words behind the word that announces a number.                 *)
(*                                                                         *)
(* Both need induction, over the length of a table and of a text; it goes  *)
(* through sets of numbers.                                                *)
(***************************************************************************)
EXTENDS ReadbackCheck, SequenceTheorems, WellFoundedInduction, TLAPS

(***************************************************************************)
(* Induction.                                                              *)
(***************************************************************************)

\* A set of natural numbers that has an element has a least one.
LEMMA LeastNumber ==
  ASSUME NEW T \in SUBSET Nat, T # {}
  PROVE  \E x \in T : \A y \in T : x <= y
  <1> DEFINE R == OpToRel(<, Nat)
  <1>1. IsWellFoundedOn(R, Nat)
    BY NatLessThanWellFounded
  <1>2. \A y, x \in Nat : y < x => <<y, x>> \in R
    BY DEF OpToRel
  <1> HIDE DEF R
  <1>3. PICK x \in T : \A y \in T : <<y, x>> \notin R
    BY <1>1, WFMin
  <1>4. \A y \in T : x <= y
    <2> SUFFICES ASSUME NEW y \in T, ~(x <= y) PROVE FALSE
      OBVIOUS
    <2>1. x \in Nat /\ y \in Nat
      OBVIOUS
    <2>2. y < x
      BY <2>1
    <2>3. QED BY <1>2, <1>3, <2>1, <2>2
  <1>5. QED BY <1>4

\* A set that holds 0 and with every number the next one holds them all.
LEMMA SetInduction ==
  ASSUME NEW S, 0 \in S, \A n \in Nat : n \in S => n + 1 \in S
  PROVE  Nat \subseteq S
  <1> DEFINE T == Nat \ S
  <1>1. SUFFICES ASSUME T # {} PROVE FALSE
    OBVIOUS
  <1>2. PICK x \in T : \A y \in T : x <= y
    BY <1>1, LeastNumber
  <1>3. x \in Nat /\ x # 0 /\ x \notin S
    BY <1>2
  <1>4. x - 1 \in Nat /\ ~(x <= x - 1) /\ (x - 1) + 1 = x
    BY <1>3
  <1>5. x - 1 \in S
    BY <1>2, <1>4
  <1>6. QED BY <1>3, <1>4, <1>5

(***************************************************************************)
(* The loop of apply_adjustments.                                          *)
(***************************************************************************)

\* What the loop has made of m after each entry of the table.
IsRun(h, n, m, c, text) ==
    /\ h = [k \in 0 .. n |-> h[k]]
    /\ h[0] = m
    /\ \A k \in 1 .. n : h[k] = adjust(h[k - 1], Adjustments[k], c, text)

\* The loop of apply_adjustments (intent_rules.cpp) can be run for any number
\* of entries.
LEMMA RunExists ==
  ASSUME NEW m, NEW c, NEW text, NEW n \in Nat
  PROVE  \E h : IsRun(h, n, m, c, text)
  <1> DEFINE S == {j \in Nat : \E h : IsRun(h, j, m, c, text)}
             F(x, k) == adjust(x, Adjustments[k], c, text)
  <1>1. 0 \in S
    <2>1. IsRun([k \in {0} |-> m], 0, m, c, text)
      BY DEF IsRun
    <2>2. QED BY <2>1
  <1>2. \A j \in Nat : j \in S => j + 1 \in S
    <2> SUFFICES ASSUME NEW j \in Nat, NEW h, IsRun(h, j, m, c, text)
                 PROVE  \E g : IsRun(g, j + 1, m, c, text)
      OBVIOUS
    <2> HIDE DEF F
    <2> DEFINE g == [k \in 0 .. j + 1 |-> IF k = j + 1 THEN F(h[j], j + 1) ELSE h[k]]
    <2>0. \A k \in 1 .. j : h[k] = F(h[k - 1], k)
      BY DEF IsRun, F
    <2>1. g = [k \in 0 .. j + 1 |-> g[k]] /\ g[0] = m
      BY DEF IsRun
    <2>2. ASSUME NEW k \in 1 .. j + 1 PROVE g[k] = F(g[k - 1], k)
      <3>1. CASE k = j + 1
        <4>1. g[k] = F(h[j], j + 1) /\ g[k - 1] = h[j]
          BY <3>1
        <4>2. QED BY <3>1, <4>1
      <3>2. CASE k # j + 1
        <4>1. k \in 1 .. j /\ k - 1 \in 0 .. j + 1 /\ k - 1 # j + 1
          BY <3>2
        <4>2. g[k] = h[k] /\ g[k - 1] = h[k - 1]
          BY <4>1, <3>2
        <4>3. QED BY <2>0, <4>1, <4>2
      <3>3. QED BY <3>1, <3>2
    <2> HIDE DEF g
    <2>3. IsRun(g, j + 1, m, c, text)
      BY <2>1, <2>2 DEF IsRun, F
    <2>4. QED BY <2>3
  <1>3. QED BY <1>1, <1>2, SetInduction

\* apply_adjustments returns what a run over the whole table ends with.
LEMMA LoopIsRun ==
  ASSUME NEW m, NEW c, NEW text, Len(Adjustments) \in Nat
  PROVE  \E h : /\ IsRun(h, Len(Adjustments), m, c, text)
                /\ apply_adjustments(m, c, text) = h[Len(Adjustments)]
  <1> DEFINE n == Len(Adjustments)
             B(x, k) == IF k = 0 THEN m ELSE adjust(x[k - 1], Adjustments[k], c, text)
             left == CHOOSE x : x = [k \in 0 .. n |-> B(x, k)]
  <1>1. apply_adjustments(m, c, text) = left[n]
    BY DEF apply_adjustments
  <1>2. PICK h : IsRun(h, n, m, c, text)
    BY RunExists
  <1>3. h = [k \in 0 .. n |-> B(h, k)]
    <2>1. h = [k \in 0 .. n |-> h[k]]
      BY <1>2 DEF IsRun
    <2>2. \A k \in 0 .. n : h[k] = B(h, k)
      BY <1>2 DEF IsRun
    <2> HIDE DEF B
    <2>3. [k \in 0 .. n |-> h[k]] = [k \in 0 .. n |-> B(h, k)]
      BY <2>2
    <2>4. QED BY <2>1, <2>3
  <1>4. left = [k \in 0 .. n |-> B(left, k)]
    BY <1>3
  <1> HIDE DEF left
  <1>5. IsRun(left, n, m, c, text)
    <2>1. left = [k \in 0 .. n |-> left[k]]
      <3> HIDE DEF B
      <3>1. QED BY <1>4
    <2>2. \A k \in 0 .. n : left[k] = B(left, k)
      <3> HIDE DEF B
      <3>1. QED BY <1>4
    <2>3. QED BY <2>1, <2>2 DEF IsRun
  <1>6. QED BY <1>1, <1>5

(***************************************************************************)
(* One entry of the table.                                                 *)
(***************************************************************************)

\* m has the two fields an entry may set.
HasVerdict(m) == "intent" \in DOMAIN m /\ "confidence" \in DOMAIN m

\* The circumstances c are some of those in which h is impossible.
Meets(c, h) == c.ground \in h.ground /\ c.pending \in h.pending /\ c.airborne \in h.airborne

\* m is not confident of the impossible call h.
Safe(m, h) == ~(m.intent \in h.intents /\ m.confidence >= 70)

\* What an entry that applies leaves in the message (intent_rules.cpp, the two
\* assignments of apply_adjustments).
LEMMA AdjustedFields ==
  ASSUME NEW m, NEW a, HasVerdict(m)
  PROVE  /\ HasVerdict(Adjusted(m, a))
         /\ Adjusted(m, a).intent = IF a.set_intent = "" THEN m.intent ELSE a.set_intent
         /\ Adjusted(m, a).confidence = IF a.set_confidence > 100 THEN m.confidence ELSE a.set_confidence
  BY DEF HasVerdict, Adjusted

\* An entry keeps the shape of the message, whether it applies or not.
LEMMA AdjustKeepsShape ==
  ASSUME NEW m, NEW a, NEW c, NEW text, HasVerdict(m)
  PROVE  HasVerdict(adjust(m, a, c, text))
  BY AdjustedFields DEF adjust

\* An entry that replaces the intent by a possible one, or takes the confidence
\* away, leaves a safe message wherever it applies.
LEMMA DefusedIsSafe ==
  ASSUME NEW m, NEW h, NEW a \in AdjustmentEntries, HasVerdict(m), Defuses(a, h)
  PROVE  Safe(Adjusted(m, a), h)
  <1>1. a.set_confidence \in Nat
    BY DEF AdjustmentEntries
  <1>2. CASE a.set_intent # "" /\ a.set_intent \notin h.intents
    BY <1>2, AdjustedFields DEF Safe
  <1>3. CASE a.set_confidence < 70
    <2>1. ~(a.set_confidence > 100) /\ ~(a.set_confidence >= 70)
      BY <1>1, <1>3
    <2>2. Adjusted(m, a).confidence = a.set_confidence
      BY <2>1, AdjustedFields
    <2>3. QED BY <2>1, <2>2 DEF Safe
  <1>4. QED BY <1>2, <1>3 DEF Defuses

\* An entry that catches an impossible call leaves a safe message, whatever the
\* rules had made of the utterance.
LEMMA CaughtIsSafe ==
  ASSUME NEW m, NEW c \in Circumstances, NEW text, NEW h, NEW a \in AdjustmentEntries,
         HasVerdict(m), Meets(c, h), Catches(a, h)
  PROVE  Safe(adjust(m, a, c, text), h)
  <1>1. CASE adjustment_applies(a, m, c, text)
    BY <1>1, DefusedIsSafe DEF adjust, Catches
  <1>2. CASE ~adjustment_applies(a, m, c, text)
    <2>1. m.intent \notin h.intents
      <3> SUFFICES ASSUME m.intent \in h.intents PROVE adjustment_applies(a, m, c, text)
        BY <1>2
      <3>1. /\ a.intents = {} \/ m.intent \in a.intents
            /\ is_airborne_only_intent(m.intent) \in a.airborne_only
            /\ is_ground_only_intent(m.intent) \in a.ground_only
        BY DEF Catches
      <3>2. c.ground \in a.ground /\ c.pending \in a.pending /\ c.airborne \in a.airborne
        BY DEF Catches, Meets
      <3>3. c.towered \in a.towered
        BY ParserAssumption DEF Catches
      <3>4. (m.vrp # "") \in a.vrp /\ (c.landed /\ c.ground) \in a.landed /\ a.text = ""
        BY DEF Catches
      <3>5. QED BY <3>1, <3>2, <3>3, <3>4 DEF adjustment_applies
    <2>2. QED BY <1>2, <2>1 DEF adjust, Safe
  <1>3. QED BY <1>1, <1>2

\* A harmless entry keeps a safe message safe.
LEMMA HarmlessKeepsSafe ==
  ASSUME NEW m, NEW c \in Circumstances, NEW text, NEW h, NEW a \in AdjustmentEntries,
         HasVerdict(m), Meets(c, h), Harmless(a, h), Safe(m, h)
  PROVE  Safe(adjust(m, a, c, text), h)
  <1>1. CASE ~adjustment_applies(a, m, c, text)
    BY <1>1 DEF adjust
  <1>2. CASE adjustment_applies(a, m, c, text)
    <2>0. adjust(m, a, c, text) = Adjusted(m, a)
      BY <1>2 DEF adjust
    <2>1. CASE Defuses(a, h)
      BY <2>0, <2>1, DefusedIsSafe
    <2>2. CASE a.set_intent = "" /\ a.set_confidence > 100
      BY <2>0, <2>2, AdjustedFields DEF Safe
    <2>3. CASE a.set_intent = "" /\ a.intents # {} /\ a.intents \intersect h.intents = {}
      <3>1. m.intent \in a.intents
        BY <1>2, <2>3 DEF adjustment_applies
      <3>2. m.intent \notin h.intents
        BY <2>3, <3>1
      <3>3. QED BY <2>0, <2>3, <3>2, AdjustedFields DEF Safe
    <2>4. CASE a.landed = {TRUE} /\ h.ground = {FALSE}
      <3>1. c.ground = FALSE
        BY <2>4 DEF Meets
      <3>2. (c.landed /\ c.ground) \in {TRUE}
        BY <1>2, <2>4 DEF adjustment_applies
      <3>3. QED BY <3>1, <3>2
    <2>5. CASE \/ a.ground \intersect h.ground = {} \/ a.pending \intersect h.pending = {}
               \/ a.airborne \intersect h.airborne = {}
      BY <1>2, <2>5 DEF adjustment_applies, Meets
    <2>6. QED BY <2>1, <2>2, <2>3, <2>4, <2>5 DEF Harmless
  <1>3. QED BY <1>1, <1>2

(***************************************************************************)
(* The whole table.                                                        *)
(***************************************************************************)

\* Behind the entry that catches it, an impossible call does not come back:
\* the induction over the entries of the table.
LEMMA TableIsSafe ==
  ASSUME NEW m, NEW c \in Circumstances, NEW text, NEW h \in ImpossibleCalls,
         HasVerdict(m), Meets(c, h), CheckedTable(Adjustments)
  PROVE  Safe(apply_adjustments(m, c, text), h)
  <1> DEFINE n == Len(Adjustments)
  <1>0. n \in Nat /\ DOMAIN Adjustments = 1 .. n /\ \A k \in 1 .. n : Adjustments[k] \in AdjustmentEntries
    BY DEF CheckedTable
  <1>1. PICK g : IsRun(g, n, m, c, text) /\ apply_adjustments(m, c, text) = g[n]
    BY <1>0, LoopIsRun
  <1>2. PICK k \in 1 .. n : /\ Catches(Adjustments[k], h)
                            /\ \A j \in k + 1 .. n : Harmless(Adjustments[j], h)
    BY <1>0 DEF CheckedTable
  <1> DEFINE S == {i \in Nat : i <= n => HasVerdict(g[i]) /\ (i >= k => Safe(g[i], h))}
  <1> HIDE DEF n
  <1>3. 0 \in S
    BY <1>0, <1>1, <1>2 DEF IsRun
  <1>4. ASSUME NEW i \in Nat, i \in S PROVE i + 1 \in S
    <2> SUFFICES ASSUME i + 1 <= n PROVE HasVerdict(g[i + 1]) /\ (i + 1 >= k => Safe(g[i + 1], h))
      OBVIOUS
    <2>1. i + 1 \in 1 .. n /\ (i + 1) - 1 = i /\ i <= n
      BY <1>0
    <2>2. g[i + 1] = adjust(g[i], Adjustments[i + 1], c, text)
      BY <1>1, <2>1 DEF IsRun
    <2>3. HasVerdict(g[i]) /\ (i >= k => Safe(g[i], h))
      BY <1>4, <2>1
    <2>4. HasVerdict(g[i + 1])
      BY <2>2, <2>3, AdjustKeepsShape
    <2>5. CASE i + 1 = k
      BY <1>0, <1>2, <2>1, <2>2, <2>3, <2>4, <2>5, CaughtIsSafe
    <2>6. CASE i >= k
      <3>1. Harmless(Adjustments[i + 1], h)
        BY <1>2, <2>1, <2>6
      <3>2. QED BY <1>0, <2>1, <2>2, <2>3, <2>4, <2>6, <3>1, HarmlessKeepsSafe
    <2>7. QED BY <2>4, <2>5, <2>6
  <1>5. n \in S
    BY <1>0, <1>3, <1>4, SetInduction
  <1>6. QED BY <1>0, <1>1, <1>2, <1>5

\* The impossible calls are the ones PhysicallyPossible names.
LEMMA CallsAreAll ==
  ASSUME NEW m, NEW c \in Circumstances,
         \A h \in ImpossibleCalls : Meets(c, h) => Safe(m, h)
  PROVE  m.confidence >= 70 =>
           /\ c.ground => ~is_airborne_only_intent(m.intent)
           /\ ~c.ground => ~is_ground_only_intent(m.intent)
           /\ ~c.airborne => m.intent # "RUNWAY_VACATED"
  <1> DEFINE Call(i, g, a, p) == [intents |-> i, ground |-> g, airborne |-> a, pending |-> p]
  <1> SUFFICES ASSUME m.confidence >= 70
               PROVE  /\ c.ground => ~is_airborne_only_intent(m.intent)
                      /\ ~c.ground => ~is_ground_only_intent(m.intent)
                      /\ ~c.airborne => m.intent # "RUNWAY_VACATED"
    OBVIOUS
  <1>0. c.ground \in BOOLEAN /\ c.airborne \in BOOLEAN /\ c.pending \in BOOLEAN
    BY ParserAssumption
  <1>1. ASSUME NEW i, NEW g, NEW a, NEW p, Call(i, g, a, p) \in ImpossibleCalls,
               c.ground \in g, c.airborne \in a, c.pending \in p
        PROVE  m.intent \notin i
    BY <1>1 DEF Meets, Safe
  <1>2. /\ Call(AirborneOnly, {TRUE}, BOOLEAN, BOOLEAN) \in ImpossibleCalls
        /\ Call(GroundOnly, {FALSE}, BOOLEAN, BOOLEAN) \in ImpossibleCalls
        /\ Call({"RUNWAY_VACATED"}, BOOLEAN, {FALSE}, {TRUE}) \in ImpossibleCalls
        /\ Call({"RUNWAY_VACATED"}, BOOLEAN, {FALSE}, {FALSE}) \in ImpossibleCalls
    BY DEF ImpossibleCalls
  <1> HIDE DEF Call
  <1>3. ASSUME c.ground PROVE ~is_airborne_only_intent(m.intent)
    <2>1. c.ground \in {TRUE}
      BY <1>0, <1>3
    <2>2. m.intent \notin AirborneOnly
      BY <1>0, <1>1, <1>2, <2>1
    <2>3. QED BY <2>2 DEF is_airborne_only_intent
  <1>4. ASSUME ~c.ground PROVE ~is_ground_only_intent(m.intent)
    <2>1. c.ground \in {FALSE}
      BY <1>0, <1>4
    <2>2. m.intent \notin GroundOnly
      BY <1>0, <1>1, <1>2, <2>1
    <2>3. QED BY <2>2 DEF is_ground_only_intent
  <1>5. ASSUME ~c.airborne PROVE m.intent # "RUNWAY_VACATED"
    <2>1. c.airborne \in {FALSE}
      BY <1>0, <1>5
    <2>2. CASE c.pending \in {TRUE}
      <3>1. m.intent \notin {"RUNWAY_VACATED"}
        BY <1>0, <1>1, <1>2, <2>1, <2>2
      <3>2. QED BY <3>1
    <2>3. CASE c.pending \in {FALSE}
      <3>1. m.intent \notin {"RUNWAY_VACATED"}
        BY <1>0, <1>1, <1>2, <2>1, <2>3
      <3>2. QED BY <3>1
    <2>4. QED BY <1>0, <2>2, <2>3
  <1>6. QED BY <1>3, <1>4, <1>5

(***************************************************************************)
(* The parser.                                                             *)
(***************************************************************************)

\* parse (intent_parser.cpp) fills both fields, and without a table of rules it
\* understands nothing.
LEMMA UnderstoodShape ==
  ASSUME NEW u, NEW table \in BOOLEAN
  PROVE  /\ HasVerdict(understand(u, table).msg)
         /\ ~table => understand(u, table).msg.intent = "UNKNOWN"
  BY DEF understand, HasVerdict

\* The parser is never confident of what cannot be: for every utterance, every
\* verdict of the rules, every circumstance, and every table of adjustments in
\* which an entry catches each impossible call and no later one brings it back,
\* as the two shipped tables have it.
THEOREM NeverImpossible == ParserSpec /\ CheckedTable(Adjustments) => []PhysicallyPossible
  <1> SUFFICES ASSUME CheckedTable(Adjustments) PROVE ParserSpec => []PhysicallyPossible
    OBVIOUS
  <1>0. NoMessage.intent = "UNKNOWN"
    BY DEF NoMessage
  <1>1. ParserInit => PhysicallyPossible
    BY <1>0 DEF ParserInit, PhysicallyPossible, Confident
  <1>2. PhysicallyPossible /\ [ParserNext]_parserVars => PhysicallyPossible'
    <2> SUFFICES ASSUME PhysicallyPossible, [ParserNext]_parserVars
                 PROVE  PhysicallyPossible'
      OBVIOUS
    <2>1. CASE Hear
      <3>1. PICK u \in Utterances, table \in BOOLEAN, c \in Circumstances :
              /\ circ' = c
              /\ msg' = IF table THEN apply_adjustments(understand(u, table).msg, c, understand(u, table).text)
                        ELSE understand(u, table).msg
        BY <2>1 DEF Hear
      <3>2. CASE table
        <4>1. \A h \in ImpossibleCalls : Meets(c, h) => Safe(msg', h)
          BY <3>1, <3>2, UnderstoodShape, TableIsSafe
        <4>2. QED BY <3>1, <4>1, CallsAreAll DEF PhysicallyPossible, Confident
      <3>3. CASE ~table
        BY <3>1, <3>3, UnderstoodShape DEF PhysicallyPossible, Confident
      <3>4. QED BY <3>2, <3>3
    <2>2. CASE HandOn
      BY <1>0, <2>2 DEF HandOn, PhysicallyPossible, Confident
    <2>3. CASE ParserStop
      BY <2>3 DEF ParserStop, PhysicallyPossible, Confident
    <2>4. CASE UNCHANGED parserVars
      BY <2>4 DEF parserVars, PhysicallyPossible, Confident
    <2>5. QED BY <2>1, <2>2, <2>3, <2>4 DEF ParserNext
  <1>3. QED BY <1>1, <1>2, PTL DEF ParserSpec

(***************************************************************************)
(* Concatenation.                                                          *)
(***************************************************************************)

\* Min and Max of a set of numbers up to n are what their names say.
LEMMA MinMax ==
  ASSUME NEW n \in Nat, NEW T \in SUBSET (0 .. n), T # {}
  PROVE  /\ Min(T) \in T /\ \A y \in T : Min(T) <= y
         /\ Max(T) \in T /\ \A y \in T : Max(T) >= y
  <1>1. \E x \in T : \A y \in T : x <= y
    BY LeastNumber
  <1>2. \E x \in T : \A y \in T : x >= y
    <2> DEFINE U == {n - y : y \in T}
    <2>0. \A y \in T : n - y \in Nat
      OBVIOUS
    <2>1. U \in SUBSET Nat /\ U # {}
      BY <2>0
    <2>2. PICK z \in U : \A y \in U : z <= y
      BY <2>1, LeastNumber
    <2>3. PICK x \in T : z = n - x
      BY <2>2
    <2>4. ASSUME NEW y \in T PROVE x >= y
      <3>1. n - x <= n - y
        BY <2>2, <2>3
      <3>2. x \in Nat /\ y \in Nat
        OBVIOUS
      <3>3. QED BY <3>1, <3>2
    <2>5. QED BY <2>4
  <1>3. QED BY <1>1, <1>2 DEF Min, Max

\* The beginnings of the concatenation of the first n of seqs.
IsJoin(h, seqs, n) ==
    /\ h[0] = <<>>
    /\ \A k \in 1 .. n : h[k] = h[k - 1] \o seqs[k]

\* One step of a join.
LEMMA JoinStep ==
  ASSUME NEW h, NEW seqs, NEW n \in Nat, IsJoin(h, seqs, n)
  PROVE  \A k \in Nat : k + 1 <= n => h[k + 1] = h[k] \o seqs[k + 1]
  <1> SUFFICES ASSUME NEW k \in Nat, k + 1 <= n PROVE h[k + 1] = h[k] \o seqs[k + 1]
    OBVIOUS
  <1>1. k + 1 \in 1 .. n /\ (k + 1) - 1 = k
    OBVIOUS
  <1>2. QED BY <1>1 DEF IsJoin

\* The beginnings of a concatenation are sequences of what its parts are made of.
LEMMA JoinTyped ==
  ASSUME NEW S, NEW seqs \in Seq(Seq(S)), NEW h, IsJoin(h, seqs, Len(seqs))
  PROVE  \A k \in 0 .. Len(seqs) : h[k] \in Seq(S)
  <1> DEFINE T == {k \in Nat : k <= Len(seqs) => h[k] \in Seq(S)}
  <1>1. 0 \in T
    BY EmptySeq DEF IsJoin
  <1>2. ASSUME NEW k \in Nat, k \in T PROVE k + 1 \in T
    <2> SUFFICES ASSUME k + 1 <= Len(seqs) PROVE h[k + 1] \in Seq(S)
      OBVIOUS
    <2>1. Len(seqs) \in Nat /\ k + 1 \in 1 .. Len(seqs) /\ h[k] \in Seq(S)
      BY <1>2
    <2>2. h[k + 1] = h[k] \o seqs[k + 1]
      BY <2>1, JoinStep
    <2>3. seqs[k + 1] \in Seq(S)
      BY <2>1
    <2>4. QED BY <2>1, <2>2, <2>3, ConcatProperties
  <1>3. Nat \subseteq T
    BY <1>1, <1>2, SetInduction
  <1>4. QED BY <1>3

\* Any number of sequences can be joined, one after the other.
LEMMA JoinExists ==
  ASSUME NEW seqs, NEW n \in Nat
  PROVE  \E h : IsJoin(h, seqs, n)
  <1> DEFINE T == {j \in Nat : \E h : IsJoin(h, seqs, j)}
  <1>1. 0 \in T
    <2>1. IsJoin([k \in {0} |-> <<>>], seqs, 0)
      BY DEF IsJoin
    <2>2. QED BY <2>1
  <1>2. \A j \in Nat : j \in T => j + 1 \in T
    <2> SUFFICES ASSUME NEW j \in Nat, NEW h, IsJoin(h, seqs, j) PROVE \E g : IsJoin(g, seqs, j + 1)
      OBVIOUS
    <2> DEFINE g == [k \in 0 .. j + 1 |-> IF k = j + 1 THEN h[j] \o seqs[j + 1] ELSE h[k]]
    <2>1. g[0] = <<>>
      BY DEF IsJoin
    <2>2. ASSUME NEW k \in 1 .. j + 1 PROVE g[k] = g[k - 1] \o seqs[k]
      <3>1. CASE k = j + 1
        <4>1. g[k] = h[j] \o seqs[j + 1] /\ g[k - 1] = h[j]
          BY <3>1
        <4>2. QED BY <3>1, <4>1
      <3>2. CASE k # j + 1
        <4>1. k \in 1 .. j /\ k - 1 \in 0 .. j + 1 /\ k - 1 # j + 1
          BY <3>2
        <4>2. g[k] = h[k] /\ g[k - 1] = h[k - 1]
          BY <4>1, <3>2
        <4>3. QED BY <4>1, <4>2 DEF IsJoin
      <3>3. QED BY <3>1, <3>2
    <2> HIDE DEF g
    <2>3. IsJoin(g, seqs, j + 1)
      BY <2>1, <2>2 DEF IsJoin
    <2>4. QED BY <2>3
  <1>3. QED BY <1>1, <1>2, SetInduction

\* FlattenSeq, with which Welded strips the separators, is such a join.
LEMMA FlattenIsJoin ==
  ASSUME NEW S, NEW seqs \in Seq(Seq(S))
  PROVE  \E h : IsJoin(h, seqs, Len(seqs)) /\ FlattenSeq(seqs) = h[Len(seqs)]
  <1> DEFINE n == Len(seqs)
  <1>0. n \in Nat
    OBVIOUS
  <1>1. PICK h : IsJoin(h, seqs, n)
    BY <1>0, JoinExists
  <1>2. CASE n = 0
    <2>1. seqs = <<>>
      BY <1>2, EmptySeq
    <2>2. FlattenSeq(seqs) = <<>>
      BY <1>2, <2>1 DEF FlattenSeq
    <2>3. QED BY <1>1, <1>2, <2>2 DEF IsJoin
  <1>3. CASE n # 0
    <2> DEFINE B(f, i) == IF i = 1 THEN seqs[i] ELSE f[i - 1] \o seqs[i]
               flatten == CHOOSE f : f = [i \in 1 .. n |-> B(f, i)]
               f1 == [i \in 1 .. n |-> h[i]]
    <2>1. FlattenSeq(seqs) = flatten[n]
      BY <1>3 DEF FlattenSeq
    <2>2. \A i \in 1 .. n : f1[i] = B(f1, i)
      <3> SUFFICES ASSUME NEW i \in 1 .. n PROVE f1[i] = B(f1, i)
        OBVIOUS
      <3>1. f1[i] = h[i - 1] \o seqs[i]
        BY <1>1 DEF IsJoin
      <3>2. CASE i = 1
        <4>1. h[i - 1] = <<>> /\ seqs[i] \in Seq(S)
          BY <1>0, <1>1, <3>2 DEF IsJoin
        <4>2. QED BY <3>1, <3>2, <4>1, ConcatEmptySeq
      <3>3. CASE i # 1
        <4>1. i - 1 \in 1 .. n
          BY <1>0, <3>3
        <4>2. QED BY <3>1, <3>3, <4>1
      <3>4. QED BY <3>2, <3>3
    <2>3. f1 = [i \in 1 .. n |-> B(f1, i)]
      <3> HIDE DEF B
      <3>1. QED BY <2>2
    <2>4. flatten = [i \in 1 .. n |-> B(flatten, i)]
      BY <2>3
    <2>5. \A i \in 1 .. n : flatten[i] = B(flatten, i)
      <3> HIDE DEF B, flatten
      <3>1. QED BY <2>4
    <2> HIDE DEF flatten
    <2> DEFINE g == [k \in 0 .. n |-> IF k = 0 THEN <<>> ELSE flatten[k]]
    <2>6. ASSUME NEW k \in 1 .. n PROVE g[k] = g[k - 1] \o seqs[k]
      <3>0. g[k] = flatten[k]
        BY <1>0
      <3>1. CASE k = 1
        <4>1. g[k - 1] = <<>> /\ seqs[k] \in Seq(S) /\ g[k] = seqs[k]
          BY <1>0, <2>5, <3>0, <3>1
        <4>2. QED BY <4>1, ConcatEmptySeq
      <3>2. CASE k # 1
        <4>1. k - 1 \in 0 .. n /\ k - 1 # 0
          BY <1>0, <3>2
        <4>2. g[k - 1] = flatten[k - 1]
          BY <4>1
        <4>3. QED BY <2>5, <3>0, <3>2, <4>2
      <3>3. QED BY <3>1, <3>2
    <2>7. g[0] = <<>> /\ g[n] = flatten[n]
      BY <1>0, <1>3
    <2> HIDE DEF g
    <2>8. IsJoin(g, seqs, n)
      BY <2>6, <2>7 DEF IsJoin
    <2>9. QED BY <2>1, <2>7, <2>8
  <1>4. QED BY <1>2, <1>3

\* x begins with y.
Continues(x, y, S) == \E b \in Seq(S) : x = y \o b

\* A beginning of a join is the beginning of the whole.
LEMMA JoinGrows ==
  ASSUME NEW S, NEW s \in Seq(Seq(S)), NEW h, IsJoin(h, s, Len(s)), NEW q \in 0 .. Len(s)
  PROVE  Continues(h[Len(s)], h[q], S)
  <1> DEFINE m == Len(s)
             Grown(j) == \E b \in Seq(S) : h[j] = h[q] \o b
             U == {j \in Nat : q <= j /\ j <= m => Grown(j)}
  <1>0. m \in Nat /\ q \in Nat /\ \A k \in 0 .. m : h[k] \in Seq(S)
    BY JoinTyped
  <1>1. Grown(q)
    <2>1. h[q] = h[q] \o <<>> /\ <<>> \in Seq(S)
      BY <1>0, ConcatEmptySeq, EmptySeq
    <2>2. QED BY <2>1
  <1>2. ASSUME NEW j \in Nat, q <= j, j + 1 <= m, Grown(j) PROVE Grown(j + 1)
    <2>1. PICK b \in Seq(S) : h[j] = h[q] \o b
      BY <1>2
    <2>2. h[j + 1] = h[j] \o s[j + 1]
      <3>1. j + 1 \in 1 .. m /\ (j + 1) - 1 = j
        BY <1>0, <1>2
      <3>2. QED BY <3>1 DEF IsJoin
    <2>3. s[j + 1] \in Seq(S) /\ h[q] \in Seq(S)
      BY <1>0, <1>2
    <2>4. PICK c \in Seq(S) : c = s[j + 1]
      BY <2>3
    <2>5. PICK x \in Seq(S) : x = h[q]
      BY <2>3
    <2>6. (x \o b) \o c = x \o (b \o c)
      BY ConcatAssociative, SMTT(30)
    <2>7. b \o c \in Seq(S)
      BY ConcatProperties
    <2>8. h[j + 1] = h[q] \o (b \o c)
      BY <2>1, <2>2, <2>4, <2>5, <2>6
    <2>9. QED BY <2>7, <2>8
  <1> HIDE DEF Grown, m
  <1>3. 0 \in U
    BY <1>0, <1>1
  <1>4. ASSUME NEW j \in Nat, j \in U PROVE j + 1 \in U
    <2> SUFFICES ASSUME q <= j + 1, j + 1 <= m PROVE Grown(j + 1)
      OBVIOUS
    <2>1. CASE q = j + 1
      BY <1>1, <2>1
    <2>2. CASE q # j + 1
      <3>1. q <= j /\ j <= m
        BY <1>0, <2>2
      <3>2. QED BY <1>2, <1>4, <3>1
    <2>3. QED BY <2>1, <2>2
  <1>5. m \in U
    BY <1>0, <1>3, <1>4, SetInduction
  <1>6. q <= m /\ m <= m
    BY <1>0 DEF m
  <1>7. Grown(m)
    BY <1>5, <1>6
  <1>8. QED BY <1>7 DEF m, Grown, Continues

\* part is found behind the first p elements of text.
PartAt(text, part, p) ==
    p + Len(part) <= Len(text) /\ \A i \in 1 .. Len(part) : text[p + i] = part[i]

\* w is a part of x.
Holds(x, w, S) == w \in Seq(S) /\ \E a, b \in Seq(S) : x = (a \o w) \o b

\* A part of seqs is a part of what its elements join to.
LEMMA FlattenSegment ==
  ASSUME NEW S, NEW s \in Seq(Seq(S)), NEW t \in Seq(Seq(S)), NEW p \in Nat, PartAt(s, t, p)
  PROVE  Holds(FlattenSeq(s), FlattenSeq(t), S)
  <1> DEFINE m == Len(s)
             n == Len(t)
  <1>0. m \in Nat /\ n \in Nat /\ p + n <= m
    BY DEF PartAt
  <1>1. PICK h : IsJoin(h, s, m) /\ FlattenSeq(s) = h[m]
    BY FlattenIsJoin
  <1>2. PICK g : IsJoin(g, t, n) /\ FlattenSeq(t) = g[n]
    BY FlattenIsJoin
  <1>3. /\ \A k \in 0 .. m : h[k] \in Seq(S)
        /\ \A k \in 0 .. n : g[k] \in Seq(S)
    BY <1>1, <1>2, JoinTyped
  <1> DEFINE Same(i) == h[p + i] = h[p] \o g[i]
             T == {i \in Nat : i <= n => Same(i)}
  <1>4. Same(0)
    <2>1. h[p] \in Seq(S) /\ p + 0 = p
      BY <1>0, <1>3
    <2>2. g[0] = <<>>
      BY <1>2 DEF IsJoin
    <2>3. h[p] \o <<>> = h[p]
      BY <2>1, ConcatEmptySeq
    <2>4. QED BY <2>1, <2>2, <2>3
  <1>5. ASSUME NEW i \in Nat, i + 1 <= n, Same(i) PROVE Same(i + 1)
    <2>1. /\ p \in 0 .. m /\ (p + i) + 1 <= m /\ (p + i) + 1 = p + (i + 1) /\ p + i \in Nat
          /\ i \in 0 .. n /\ i + 1 \in 1 .. n
      BY <1>0, <1>5
    <2>2. h[(p + i) + 1] = h[p + i] \o s[(p + i) + 1]
      <3>1. PICK k \in Nat : k = p + i
        BY <2>1
      <3>2. k + 1 <= m
        BY <2>1, <3>1
      <3>3. IsJoin(h, s, m) /\ m \in Nat
        BY <1>0, <1>1
      <3> HIDE DEF m
      <3>4. k + 1 \in 1 .. m /\ (k + 1) - 1 = k
        BY <3>2, <3>3
      <3>6. h[k + 1] = h[k] \o s[k + 1]
        BY <3>3, <3>4 DEF IsJoin
      <3>7. QED BY <3>1, <3>6
    <2>3. g[i + 1] = g[i] \o t[i + 1]
      BY <1>0, <1>2, <1>5, JoinStep
    <2>4. s[p + (i + 1)] = t[i + 1] /\ t[i + 1] \in Seq(S)
      <3>1. PICK k \in 1 .. n : k = i + 1
        BY <2>1
      <3>2. s[p + k] = t[k]
        BY DEF PartAt
      <3>3. t[k] \in Seq(S)
        OBVIOUS
      <3>4. QED BY <3>1, <3>2, <3>3
    <2>5. PICK c \in Seq(S) : c = t[i + 1]
      BY <2>4
    <2>6. PICK x \in Seq(S), y \in Seq(S) : x = h[p] /\ y = g[i]
      BY <1>3, <2>1
    <2>7. (x \o y) \o c = x \o (y \o c)
      BY ConcatAssociative, SMTT(30)
    <2>8. h[p + (i + 1)] = h[p + i] \o c
      BY <2>1, <2>2, <2>4, <2>5
    <2>9. h[p + i] = x \o y /\ g[i + 1] = y \o c
      BY <1>5, <2>3, <2>5, <2>6
    <2>10. QED BY <2>6, <2>7, <2>8, <2>9
  <1> HIDE DEF Same, m, n
  <1>6. 0 \in T
    BY <1>4
  <1>7. ASSUME NEW i \in Nat, i \in T PROVE i + 1 \in T
    <2> SUFFICES ASSUME i + 1 <= n PROVE Same(i + 1)
      OBVIOUS
    <2>1. i <= n
      BY <1>0
    <2>2. QED BY <1>5, <1>7, <2>1
  <1>8. n \in T
    BY <1>0, <1>6, <1>7, SetInduction
  <1>9. Same(n)
    BY <1>0, <1>8
  <1>10. p + n \in 0 .. m /\ p \in 0 .. m /\ n \in 0 .. n
    BY <1>0
  <1>11. PICK b \in Seq(S) : h[m] = h[p + n] \o b
    <2>1. PICK q \in 0 .. m : q = p + n
      BY <1>10
    <2>2. Continues(h[m], h[q], S)
      BY <1>1, JoinGrows DEF m
    <2>3. QED BY <2>1, <2>2 DEF Continues
  <1>12. h[p] \in Seq(S) /\ g[n] \in Seq(S)
    BY <1>3, <1>10
  <1>13. FlattenSeq(s) = (h[p] \o FlattenSeq(t)) \o b
    BY <1>1, <1>2, <1>9, <1>11 DEF Same
  <1>14. QED BY <1>2, <1>12, <1>13 DEF Holds

(***************************************************************************)
(* Words.                                                                  *)
(***************************************************************************)

\* The ten digit words and the figures they stand for.
LEMMA DigitWordFacts ==
  /\ DigitWords = {"null", "eins", "zwo", "zwei", "drei", "vier", "fuenf", "sechs", "sieben", "acht", "neun"}
  /\ \A w \in DigitWords : GermanDigits[w] \in {"0", "1", "2", "3", "4", "5", "6", "7", "8", "9"}
  /\ \A f \in {"0", "1", "2", "3", "4", "5", "6", "7", "8", "9"} : \E w \in DigitWords : GermanDigits[w] = f
  BY DEF DigitWords, GermanDigits

\* Every figure has a digit word that stands for it.
LEMMA FigureFacts ==
  /\ FigureTokens = {"0", "1", "2", "3", "4", "5", "6", "7", "8", "9"}
  /\ \A w \in DigitWords : GermanDigits[w] \in FigureTokens
  /\ \A f \in FigureTokens : FigureWords[f] \in DigitWords /\ GermanDigits[FigureWords[f]] = f
  <1>1. FigureTokens = {"0", "1", "2", "3", "4", "5", "6", "7", "8", "9"}
    BY DigitWordFacts DEF FigureTokens
  <1>2. \A w \in DigitWords : GermanDigits[w] \in FigureTokens
    BY DEF FigureTokens
  <1>3. ASSUME NEW f \in FigureTokens PROVE FigureWords[f] \in DigitWords /\ GermanDigits[FigureWords[f]] = f
    <2>1. FigureWords[f] = CHOOSE w \in DigitWords : GermanDigits[w] = f
      BY DEF FigureWords, FigureTokens, DigitWords
    <2>2. \E w \in DigitWords : GermanDigits[w] = f
      BY DEF FigureTokens
    <2>3. QED BY <2>1, <2>2
  <1>4. QED BY <1>1, <1>2, <1>3

\* Figures and the words of the two sides are left alone by the canonical forms.
LEMMA PlainFacts ==
  /\ \A f \in FigureTokens : f \notin DigitWords /\ nato(f) = f /\ Letters(f) = <<f>> /\ f \notin DOMAIN SideWords
  /\ \A s \in {"l", "r"} : SideWords[s] \notin DigitWords /\ nato(SideWords[s]) = SideWords[s]
  /\ Letters(SideWords["l"]) = <<"l", "inks">> /\ Letters(SideWords["r"]) = <<"r", "echts">>
  /\ DOMAIN SideWords = {"l", "r", "c"}
  <1>1. DOMAIN NatoVariants = {"alfa", "wisky"} /\ DOMAIN Spelling = {"links", "rechts", "mitte", "lima"}
    BY DEF NatoVariants, Spelling
  <1>2. SideWords["l"] = "links" /\ SideWords["r"] = "rechts" /\ DOMAIN SideWords = {"l", "r", "c"}
    BY DEF SideWords
  <1>3. Spelling["links"] = <<"l", "inks">> /\ Spelling["rechts"] = <<"r", "echts">>
    BY DEF Spelling
  <1>4. ASSUME NEW f \in FigureTokens
        PROVE  f \notin DigitWords /\ nato(f) = f /\ Letters(f) = <<f>> /\ f \notin DOMAIN SideWords
    <2>1. f \notin DigitWords /\ f \notin DOMAIN NatoVariants /\ f \notin DOMAIN Spelling /\ f \notin DOMAIN SideWords
      BY <1>1, <1>2, FigureFacts, DigitWordFacts
    <2>2. QED BY <2>1 DEF nato, Letters
  <1>5. ASSUME NEW s \in {"l", "r"} PROVE SideWords[s] \notin DigitWords /\ nato(SideWords[s]) = SideWords[s]
    <2>1. SideWords[s] \notin DigitWords /\ SideWords[s] \notin DOMAIN NatoVariants
      BY <1>1, <1>2, DigitWordFacts
    <2>2. QED BY <2>1 DEF nato
  <1>6. Letters(SideWords["l"]) = <<"l", "inks">> /\ Letters(SideWords["r"]) = <<"r", "echts">>
    BY <1>1, <1>2, <1>3 DEF Letters
  <1>7. QED BY <1>2, <1>4, <1>5, <1>6

\* The words that announce a runway or a pressure are anchors of
\* parse_spoken_number (de_phraseology.cpp), and no digits themselves.
LEMMA KeywordFacts ==
  \A k \in {"piste", "runway", "qnh"} : k \in AnchorWords /\ k \notin DigitWords
  BY DigitWordFacts DEF AnchorWords

\* What a transcript and its canonical forms are made of.
Alphabet ==
    STRING \union DigitWords \union FigureTokens
      \union {"alfa", "alpha", "whiskey", "piste", "runway", "qnh", "links", "rechts", "mitte",
              "l", "inks", "r", "echts", "m", "itte", "ima"}

\* The canonical forms do not leave the alphabet.
LEMMA AlphabetIsClosed ==
  /\ \A w \in Alphabet : nato(w) \in Alphabet /\ Letters(w) \in Seq(Alphabet)
  /\ \A w \in DigitWords : w \in Alphabet /\ GermanDigits[w] \in Alphabet
  /\ FigureTokens \subseteq Alphabet
  /\ \A s \in DOMAIN SideWords : SideWords[s] \in Alphabet
  <1>1. FigureTokens \subseteq Alphabet /\ DigitWords \subseteq Alphabet
    BY DEF Alphabet
  <1>2. \A w \in DigitWords : GermanDigits[w] \in Alphabet
    BY <1>1, FigureFacts
  <1>3. ASSUME NEW w \in Alphabet PROVE nato(w) \in Alphabet
    <2>1. CASE w \in DOMAIN NatoVariants
      <3>1. NatoVariants[w] \in {"alpha", "whiskey"}
        BY <2>1 DEF NatoVariants
      <3>2. QED BY <2>1, <3>1 DEF nato, Alphabet
    <2>2. QED BY <2>1 DEF nato
  <1>4. ASSUME NEW w \in Alphabet PROVE Letters(w) \in Seq(Alphabet)
    <2>1. CASE w \in DOMAIN Spelling
      <3>1. Spelling[w] \in {<<"l", "inks">>, <<"r", "echts">>, <<"m", "itte">>, <<"l", "ima">>}
        BY <2>1 DEF Spelling
      <3>2. \A x \in {"l", "inks", "r", "echts", "m", "itte", "ima"} : x \in Alphabet
        BY DEF Alphabet
      <3> HIDE DEF Alphabet
      <3>3. \A x, y \in Alphabet : <<x, y>> \in Seq(Alphabet)
        OBVIOUS
      <3>4. QED BY <2>1, <3>1, <3>2, <3>3 DEF Letters
    <2>2. CASE w \notin DOMAIN Spelling
      <3>1. <<w>> \in Seq(Alphabet)
        OBVIOUS
      <3>2. QED BY <2>2, <3>1 DEF Letters
    <2>3. QED BY <2>1, <2>2
  <1>5. \A s \in DOMAIN SideWords : SideWords[s] \in Alphabet
    <2>1. \A s \in DOMAIN SideWords : SideWords[s] \in {"links", "rechts", "mitte"}
      BY DEF SideWords
    <2>2. QED BY <2>1 DEF Alphabet
  <1>6. QED BY <1>1, <1>2, <1>3, <1>4, <1>5

(***************************************************************************)
(* Welding.                                                                *)
(***************************************************************************)

\* x followed by anything, behind anything, contains what x begins with.
LEMMA WithinConcat ==
  ASSUME NEW S, NEW a \in Seq(S), NEW b \in Seq(S), NEW w \in Seq(S), NEW x \in Seq(S), IsPrefix(x, w)
  PROVE  Within(x, (a \o w) \o b)
  <1> DEFINE W == (a \o w) \o b
  <1>1. /\ W \in Seq(S) /\ Len(W) = Len(a) + Len(w) + Len(b)
        /\ \A i \in 1 .. Len(w) : W[Len(a) + i] = w[i]
    <2>1. a \o w \in Seq(S) /\ Len(a \o w) = Len(a) + Len(w)
      BY ConcatProperties
    <2>2. W \in Seq(S) /\ Len(W) = Len(a) + Len(w) + Len(b)
      BY <2>1, ConcatProperties
    <2>3. ASSUME NEW i \in 1 .. Len(w) PROVE W[Len(a) + i] = w[i]
      <3>1. Len(a) \in Nat /\ Len(w) \in Nat /\ Len(b) \in Nat
        OBVIOUS
      <3>2. PICK j \in Nat : j = Len(a) + i
        BY <3>1
      <3>3. j \in 1 .. Len(a \o w) /\ j \in 1 .. Len(a \o w) + Len(b) /\ j <= Len(a \o w)
        BY <2>1, <3>1, <3>2
      <3>4. W[j] = (a \o w)[j]
        BY <2>1, <3>3, ConcatProperties
      <3>5. j \in 1 .. Len(a) + Len(w) /\ ~(j <= Len(a)) /\ j - Len(a) = i
        BY <3>1, <3>2
      <3>6. (a \o w)[j] = w[i]
        BY <3>5, ConcatProperties
      <3>7. QED BY <3>2, <3>4, <3>6
    <2>4. QED BY <2>2, <2>3
  <1> HIDE DEF W
  <1> DEFINE n == Len(x)
             B == Behind(W, Len(a))
  <1>2. Len(a) \in Nat /\ Len(w) \in Nat /\ Len(b) \in Nat /\ n \in Nat /\ Len(W) \in Nat
    BY <1>1
  <1>3. n <= Len(w) /\ SubSeq(x, 1, n) = SubSeq(w, 1, n)
    BY DEF IsPrefix
  <1>4. \A i \in 1 .. n : x[i] = w[i]
    <2>1. \A i \in 1 .. n : SubSeq(x, 1, n)[i] = x[i]
      BY <1>2
    <2>2. \A i \in 1 .. n : SubSeq(w, 1, n)[i] = w[i]
      BY <1>2, <1>3
    <2>3. QED BY <1>3, <2>1, <2>2
  <1>5. /\ B \in Seq(S) /\ Len(B) = Len(w) + Len(b)
        /\ \A i \in 1 .. Len(w) : B[i] = W[Len(a) + i]
    <2>1. B = SubSeq(W, Len(a) + 1, Len(W))
      BY DEF Behind
    <2>2. QED BY <1>1, <1>2, <2>1
  <1> HIDE DEF B
  <1>6. n <= Len(B) /\ \A i \in 1 .. n : x[i] = B[i]
    BY <1>1, <1>2, <1>3, <1>4, <1>5
  <1>7. SubSeq(x, 1, n) = SubSeq(B, 1, n)
    BY <1>2, <1>5, <1>6
  <1>8. Len(a) \in 0 .. Len(W)
    BY <1>1, <1>2
  <1>9. IsPrefix(x, B)
    BY <1>6, <1>7 DEF IsPrefix
  <1>10. \E i \in 0 .. Len(W) : IsPrefix(x, Behind(W, i))
    BY <1>8, <1>9 DEF B
  <1>11. Within(x, W)
    BY <1>10 DEF Within
  <1>12. QED BY <1>11 DEF W

\* A function on 1 .. n is a sequence of n elements.
LEMMA IndexedIsSeq ==
  ASSUME NEW R, NEW n \in Nat, NEW g, g = [i \in 1 .. n |-> g[i]], \A i \in 1 .. n : g[i] \in R
  PROVE  g \in Seq(R) /\ Len(g) = n
  <1>1. g \in [1 .. n -> R]
    OBVIOUS
  <1>2. QED BY <1>1

\* The letters of each word of a text.
LEMMA LettersTyped ==
  ASSUME NEW text \in Seq(Alphabet)
  PROVE  LET s == [i \in DOMAIN text |-> Letters(text[i])]
         IN  /\ s \in Seq(Seq(Alphabet)) /\ Len(s) = Len(text)
             /\ \A i \in 1 .. Len(text) : s[i] = Letters(text[i])
  <1> DEFINE s == [i \in DOMAIN text |-> Letters(text[i])]
  <1>1. DOMAIN text = 1 .. Len(text) /\ Len(text) \in Nat /\ \A i \in 1 .. Len(text) : text[i] \in Alphabet
    OBVIOUS
  <1>2. \A i \in 1 .. Len(text) : s[i] = Letters(text[i])
    BY <1>1
  <1>3. s = [i \in 1 .. Len(text) |-> s[i]]
    BY <1>1
  <1>4. \A i \in 1 .. Len(text) : s[i] \in Seq(Alphabet)
    BY <1>1, <1>2, AlphabetIsClosed
  <1> HIDE DEF s
  <1>5. s \in Seq(Seq(Alphabet)) /\ Len(s) = Len(text)
    BY <1>1, <1>3, <1>4, IndexedIsSeq
  <1>6. QED BY <1>2, <1>5 DEF s

\* What the letters of a part of a text begin with is found among the letters
\* of the text.
LEMMA WeldedSegment ==
  ASSUME NEW text \in Seq(Alphabet), NEW part \in Seq(Alphabet), NEW p \in Nat, PartAt(text, part, p),
         NEW x \in Seq(Alphabet), IsPrefix(x, Welded(part))
  PROVE  Within(x, Welded(text))
  <1> DEFINE s == [i \in DOMAIN text |-> Letters(text[i])]
             t == [i \in DOMAIN part |-> Letters(part[i])]
  <1>1. s \in Seq(Seq(Alphabet)) /\ Len(s) = Len(text) /\ \A i \in 1 .. Len(text) : s[i] = Letters(text[i])
    BY LettersTyped
  <1>2. t \in Seq(Seq(Alphabet)) /\ Len(t) = Len(part) /\ \A i \in 1 .. Len(part) : t[i] = Letters(part[i])
    BY LettersTyped
  <1>3. Welded(text) = FlattenSeq(s) /\ Welded(part) = FlattenSeq(t)
    BY DEF Welded
  <1> HIDE DEF s, t
  <1>4. PartAt(s, t, p)
    <2>0. Len(text) \in Nat /\ Len(part) \in Nat /\ p + Len(t) <= Len(s)
      BY <1>1, <1>2 DEF PartAt
    <2>1. ASSUME NEW i \in 1 .. Len(t) PROVE s[p + i] = t[i]
      <3>1. p + i \in 1 .. Len(text) /\ i \in 1 .. Len(part)
        BY <1>1, <1>2, <2>0
      <3>2. s[p + i] = Letters(text[p + i])
        BY <1>1, <3>1
      <3>3. text[p + i] = part[i]
        BY <3>1 DEF PartAt
      <3>4. QED BY <1>2, <3>1, <3>2, <3>3
    <2>2. QED BY <2>0, <2>1 DEF PartAt
  <1>5. s \in Seq(Seq(Alphabet)) /\ t \in Seq(Seq(Alphabet))
    BY <1>1, <1>2
  <1>6. Holds(FlattenSeq(s), FlattenSeq(t), Alphabet)
    BY <1>4, <1>5, FlattenSegment
  <1>7. PICK w \in Seq(Alphabet), a \in Seq(Alphabet), b \in Seq(Alphabet) :
          w = FlattenSeq(t) /\ FlattenSeq(s) = (a \o w) \o b
    BY <1>6 DEF Holds
  <1>8. Within(x, (a \o w) \o b)
    BY <1>3, <1>7, WithinConcat
  <1>9. QED BY <1>3, <1>7, <1>8

(***************************************************************************)
(* Spoken numbers.                                                         *)
(***************************************************************************)

\* What is behind the first p words of a text.
LEMMA BehindFacts ==
  ASSUME NEW A, NEW text \in Seq(A), NEW p \in 0 .. Len(text)
  PROVE  /\ Behind(text, p) \in Seq(A) /\ Len(Behind(text, p)) = Len(text) - p
         /\ \A i \in 1 .. Len(text) - p : Behind(text, p)[i] = text[p + i]
  <1>1. Len(text) \in Nat /\ p \in Nat /\ p <= Len(text)
    OBVIOUS
  <1>2. Behind(text, p) = SubSeq(text, p + 1, Len(text))
    BY DEF Behind
  <1>3. PICK q \in Nat : q = p + 1
    BY <1>1
  <1>4. PICK s : s = SubSeq(text, q, Len(text))
    OBVIOUS
  <1>5. s \in Seq(A) /\ Len(s) = IF q <= Len(text) THEN Len(text) - q + 1 ELSE 0
    BY <1>1, <1>3, <1>4
  <1>6. \A i \in 1 .. Len(text) - q + 1 : s[i] = text[q + i - 1]
    BY <1>1, <1>3, <1>4
  <1>7. Len(s) = Len(text) - p
    BY <1>1, <1>3, <1>5
  <1>8. ASSUME NEW i \in 1 .. Len(text) - p PROVE s[i] = text[p + i]
    <2>1. i \in 1 .. Len(text) - q + 1 /\ q + i - 1 = p + i
      BY <1>1, <1>3
    <2>2. s[i] = text[q + i - 1]
      BY <1>6, <2>1
    <2>3. QED BY <2>1, <2>2
  <1>9. QED BY <1>2, <1>3, <1>4, <1>5, <1>7, <1>8

\* A run is as long as the words from its start belong to S.
LEMMA RunLengthFacts ==
  ASSUME NEW A, NEW text \in Seq(A), NEW S
  PROVE  /\ RunLength(text, S) \in 0 .. Len(text)
         /\ \A n \in 0 .. Len(text) : (\A i \in 1 .. n : text[i] \in S) => RunLength(text, S) >= n
  <1> DEFINE T == {n \in 0 .. Len(text) : \A i \in 1 .. n : text[i] \in S}
  <1>1. Len(text) \in Nat /\ T \in SUBSET (0 .. Len(text)) /\ 0 \in T
    OBVIOUS
  <1>2. RunLength(text, S) = Max(T)
    BY DEF RunLength
  <1> HIDE DEF T
  <1>3. Max(T) \in T /\ \A y \in T : Max(T) >= y
    BY <1>1, MinMax
  <1>4. QED BY <1>2, <1>3 DEF T

\* parse_spoken_number rewrites word by word, and only digit words.
LEMMA ParseKeeps ==
  ASSUME NEW text \in Seq(Alphabet)
  PROVE  /\ parse_spoken_number(text) \in Seq(Alphabet)
         /\ Len(parse_spoken_number(text)) = Len(text)
         /\ \A i \in 1 .. Len(text) : text[i] \notin DigitWords => parse_spoken_number(text)[i] = text[i]
  <1> DEFINE out == parse_spoken_number(text)
  <1>1. DOMAIN text = 1 .. Len(text) /\ Len(text) \in Nat /\ \A i \in 1 .. Len(text) : text[i] \in Alphabet
    OBVIOUS
  <1>2. out = [i \in 1 .. Len(text) |-> out[i]]
    BY <1>1 DEF parse_spoken_number
  <1>3. \A i \in 1 .. Len(text) :
          \/ out[i] = text[i]
          \/ text[i] \in DigitWords /\ out[i] = GermanDigits[text[i]]
    BY <1>1 DEF parse_spoken_number, IsDigitWord
  <1> HIDE DEF out
  <1>4. \A i \in 1 .. Len(text) : out[i] \in Alphabet
    BY <1>1, <1>3, AlphabetIsClosed
  <1>5. out \in Seq(Alphabet) /\ Len(out) = Len(text)
    BY <1>1, <1>2, <1>4, IndexedIsSeq
  <1>6. QED BY <1>3, <1>5 DEF out

\* Behind a word that announces a number the first four digit words are read
\* as figures.
LEMMA ParseAnchored ==
  ASSUME NEW text \in Seq(Alphabet), NEW p \in 1 .. Len(text), text[p] \in AnchorWords, text[p] \notin DigitWords,
         NEW j \in 1 .. 4, p + j <= Len(text), \A k \in 1 .. j : text[p + k] \in DigitWords
  PROVE  parse_spoken_number(text)[p + j] = GermanDigits[text[p + j]]
  <1> DEFINE StartSet(i) == {s \in 1 .. i : \A k \in s .. i : IsDigitWord(text[k])}
             Start(i) == Min(StartSet(i))
             Chunk(i) == Start(i) + 4 * ((i - Start(i)) \div 4)
             Length(i) == LET n == RunLength(Behind(text, Chunk(i) - 1), DigitWords) IN IF n > 4 THEN 4 ELSE n
             Least(i) == IF Chunk(i) > 1 /\ text[Chunk(i) - 1] \in AnchorWords THEN 1 ELSE 2
  <1>1. DOMAIN text = 1 .. Len(text) /\ Len(text) \in Nat /\ p \in Nat /\ j \in Nat
    OBVIOUS
  <1>2. \A i \in 1 .. Len(text) : parse_spoken_number(text)[i] =
           IF IsDigitWord(text[i]) /\ Length(i) >= Least(i) THEN GermanDigits[text[i]] ELSE text[i]
    BY <1>1 DEF parse_spoken_number
  <1>3. PICK i \in Nat : i = p + j
    BY <1>1
  <1>4. i \in 1 .. Len(text) /\ p < i /\ i <= p + 4 /\ \A k \in p + 1 .. i : text[k] \in DigitWords
    <2>1. i \in 1 .. Len(text) /\ p < i /\ i <= p + 4
      BY <1>1, <1>3
    <2>2. ASSUME NEW k \in p + 1 .. i PROVE text[k] \in DigitWords
      <3>1. k - p \in 1 .. j /\ p + (k - p) = k
        BY <1>1, <1>3
      <3>2. PICK d \in 1 .. j : d = k - p
        BY <3>1
      <3>3. text[p + d] \in DigitWords /\ p + d = k
        BY <1>1, <3>2
      <3>4. QED BY <3>3
    <2>3. QED BY <2>1, <2>2
  <1>5. Start(i) = p + 1
    <2>1. p + 1 \in StartSet(i)
      BY <1>1, <1>4 DEF IsDigitWord
    <2>2. \A s \in StartSet(i) : p + 1 <= s
      <3> SUFFICES ASSUME NEW s \in 1 .. i, s <= p, \A k \in s .. i : IsDigitWord(text[k]) PROVE FALSE
        BY <1>1
      <3>1. p \in s .. i
        BY <1>1, <1>4
      <3>2. QED BY <3>1 DEF IsDigitWord
    <2>3. StartSet(i) \in SUBSET (0 .. i) /\ StartSet(i) # {}
      <3>1. \A s \in 1 .. i : s \in 0 .. i
        OBVIOUS
      <3>2. QED BY <2>1, <3>1
    <2> HIDE DEF StartSet
    <2>4. Min(StartSet(i)) \in StartSet(i) /\ \A y \in StartSet(i) : Min(StartSet(i)) <= y
      BY <2>3, MinMax
    <2>5. Min(StartSet(i)) \in Nat
      BY <2>3, <2>4
    <2>6. QED BY <1>1, <2>1, <2>2, <2>4, <2>5
  <1> HIDE DEF Start
  <1>6. Chunk(i) = p + 1
    <2>1. i - Start(i) \in 0 .. 3
      BY <1>1, <1>4, <1>5
    <2>2. \A k \in 0 .. 3 : k \div 4 = 0
      OBVIOUS
    <2>3. 4 * ((i - Start(i)) \div 4) = 0
      BY <2>1, <2>2
    <2>4. QED BY <1>1, <1>5, <2>3
  <1> HIDE DEF Chunk
  <1>7. Length(i) >= 1
    <2> DEFINE B == Behind(text, p)
    <2>0. p \in 0 .. Len(text) /\ 1 \in 1 .. Len(text) - p
      BY <1>1, <1>4
    <2>1. B \in Seq(Alphabet) /\ Len(B) = Len(text) - p /\ B[1] = text[p + 1]
      BY <2>0, BehindFacts
    <2>2. text[p + 1] \in DigitWords
      BY <1>1, <1>4
    <2>3. Behind(text, Chunk(i) - 1) = B
      <3>1. Chunk(i) - 1 = p
        BY <1>1, <1>6
      <3>2. QED BY <3>1
    <2> HIDE DEF B
    <2>4. 1 \in 0 .. Len(B) /\ \A k \in 1 .. 1 : B[k] \in DigitWords
      BY <1>1, <1>4, <2>1, <2>2
    <2>5. RunLength(B, DigitWords) >= 1 /\ RunLength(B, DigitWords) \in Nat
      BY <2>1, <2>4, RunLengthFacts
    <2>6. QED BY <2>3, <2>5
  <1>8. Least(i) = 1
    BY <1>1, <1>6
  <1> HIDE DEF Length, Least
  <1>9. IsDigitWord(text[i]) /\ Length(i) >= Least(i)
    BY <1>1, <1>4, <1>7, <1>8 DEF IsDigitWord
  <1>10. parse_spoken_number(text)[i] = GermanDigits[text[i]]
    BY <1>2, <1>4, <1>9
  <1>11. QED BY <1>3, <1>10

(***************************************************************************)
(* Numbers.                                                                *)
(***************************************************************************)

\* A runway without the letter C or a pressure.
Number(v) ==
    /\ v \in Seq(FigureTokens \union {"l", "r"}) /\ Len(v) \in 1 .. 4
    /\ \A i \in 1 .. Len(v) - 1 : v[i] \in FigureTokens

\* A number as the recogniser writes it, figure by figure.
LEMMA RenderedFacts ==
  ASSUME NEW v \in Seq(FigureTokens \union DOMAIN SideWords), NEW in_words \in BOOLEAN
  PROVE  LET r == Rendered(v, in_words)
         IN  /\ r \in Seq(Alphabet) /\ Len(r) = Len(v)
             /\ \A i \in 1 .. Len(v) : v[i] \in FigureTokens => r[i] = IF in_words THEN FigureWords[v[i]] ELSE v[i]
             /\ \A i \in 1 .. Len(v) : v[i] \in DOMAIN SideWords => r[i] = SideWords[v[i]]
  <1> DEFINE r == Rendered(v, in_words)
  <1>1. DOMAIN v = 1 .. Len(v) /\ Len(v) \in Nat /\ \A i \in 1 .. Len(v) : v[i] \in FigureTokens \union DOMAIN SideWords
    OBVIOUS
  <1>2. \A i \in 1 .. Len(v) : r[i] = IF v[i] \in DOMAIN SideWords THEN SideWords[v[i]]
                                      ELSE IF in_words THEN FigureWords[v[i]] ELSE v[i]
    BY <1>1 DEF Rendered
  <1>3. r = [i \in 1 .. Len(v) |-> r[i]]
    BY <1>1 DEF Rendered
  <1> HIDE DEF r
  <1>4. /\ \A i \in 1 .. Len(v) : v[i] \in FigureTokens => r[i] = IF in_words THEN FigureWords[v[i]] ELSE v[i]
        /\ \A i \in 1 .. Len(v) : v[i] \in DOMAIN SideWords => r[i] = SideWords[v[i]]
    BY <1>2, PlainFacts
  <1>5. \A i \in 1 .. Len(v) : r[i] \in Alphabet
    <2> SUFFICES ASSUME NEW i \in 1 .. Len(v) PROVE r[i] \in Alphabet
      OBVIOUS
    <2>1. CASE v[i] \in DOMAIN SideWords
      BY <1>4, <2>1, AlphabetIsClosed
    <2>2. CASE v[i] \in FigureTokens
      <3>1. FigureWords[v[i]] \in DigitWords /\ v[i] \in Alphabet
        BY <2>2, FigureFacts, AlphabetIsClosed
      <3>2. FigureWords[v[i]] \in Alphabet
        BY <3>1, AlphabetIsClosed
      <3>3. QED BY <1>4, <2>2, <3>1, <3>2
    <2>3. QED BY <1>1, <2>1, <2>2
  <1>6. r \in Seq(Alphabet) /\ Len(r) = Len(v)
    BY <1>1, <1>3, <1>5, IndexedIsSeq
  <1>7. QED BY <1>4, <1>6 DEF r

\* Only the last token of a number may be a letter.
LEMMA NumberFacts ==
  ASSUME NEW v, Number(v)
  PROVE  /\ v \in Seq(Alphabet) /\ v \in Seq(FigureTokens \union DOMAIN SideWords)
         /\ Len(v) \in 1 .. 4
         /\ \A i \in 1 .. Len(v) : v[i] \in FigureTokens \union {"l", "r"}
         /\ \A i \in 1 .. Len(v) - 1 : v[i] \in FigureTokens
  <1>1. FigureTokens \union {"l", "r"} \subseteq Alphabet
    BY AlphabetIsClosed DEF Alphabet
  <1>2. FigureTokens \union {"l", "r"} \subseteq FigureTokens \union DOMAIN SideWords
    BY PlainFacts
  <1>3. QED BY <1>1, <1>2 DEF Number

\* Written in figures, a number is what its letters begin with: "24 links" has
\* the letters of "24l".
LEMMA NumberBegins ==
  ASSUME NEW v, Number(v)
  PROVE  IsPrefix(v, Welded(Rendered(v, FALSE)))
  <1> DEFINE r == Rendered(v, FALSE)
             s == [i \in DOMAIN r |-> Letters(r[i])]
             n == Len(v)
  <1>1. n \in 1 .. 4 /\ v \in Seq(Alphabet) /\ n \in Nat
    BY NumberFacts
  <1>2. /\ r \in Seq(Alphabet) /\ Len(r) = n
        /\ \A i \in 1 .. n : v[i] \in FigureTokens => r[i] = v[i]
        /\ \A i \in 1 .. n : v[i] \in DOMAIN SideWords => r[i] = SideWords[v[i]]
    BY NumberFacts, RenderedFacts
  <1> HIDE DEF r
  <1>3. s \in Seq(Seq(Alphabet)) /\ Len(s) = n /\ \A i \in 1 .. n : s[i] = Letters(r[i])
    BY <1>2, LettersTyped
  <1>4. Welded(r) = FlattenSeq(s)
    BY DEF Welded
  <1> HIDE DEF s
  <1>5. \A i \in 1 .. n : v[i] \in FigureTokens => s[i] = <<v[i]>>
    BY <1>2, <1>3, PlainFacts
  <1>6. \A i \in 1 .. n : s[i] \in Seq(Alphabet) /\ Len(s[i]) >= 1 /\ s[i][1] = v[i]
    <2> SUFFICES ASSUME NEW i \in 1 .. n PROVE s[i] \in Seq(Alphabet) /\ Len(s[i]) >= 1 /\ s[i][1] = v[i]
      OBVIOUS
    <2>0. s[i] \in Seq(Alphabet)
      BY <1>3
    <2>1. CASE v[i] \in FigureTokens
      BY <1>5, <2>0, <2>1
    <2>2. CASE v[i] \in {"l", "r"}
      <3>1. s[i] = Letters(SideWords[v[i]])
        BY <1>2, <1>3, <2>2, PlainFacts
      <3>2. s[i] = <<v[i], "inks">> \/ s[i] = <<v[i], "echts">>
        BY <2>2, <3>1, PlainFacts
      <3>3. QED BY <2>0, <3>2
    <2>3. QED BY <2>1, <2>2, NumberFacts
  <1>7. PICK h : IsJoin(h, s, n) /\ FlattenSeq(s) = h[n]
    BY <1>3, FlattenIsJoin
  <1>8. \A k \in 0 .. n : h[k] \in Seq(Alphabet)
    BY <1>3, <1>7, JoinTyped
  <1> DEFINE Read(k) == Len(h[k]) = k /\ \A i \in 1 .. k : h[k][i] = v[i]
             T == {k \in Nat : k <= n - 1 => Read(k)}
  <1> HIDE DEF n
  <1>9. Read(0)
    <2>1. h[0] = <<>>
      BY <1>7 DEF IsJoin
    <2>2. QED BY <2>1
  <1>10. ASSUME NEW k \in Nat, k + 1 <= n - 1, Read(k) PROVE Read(k + 1)
    <2>1. h[k + 1] = h[k] \o s[k + 1]
      <3>1. k + 1 <= n
        BY <1>1, <1>10
      <3>2. QED BY <1>1, <1>7, <3>1, JoinStep
    <2>2. s[k + 1] = <<v[k + 1]>>
      <3>1. k + 1 \in 1 .. n - 1 /\ k + 1 \in 1 .. n
        BY <1>1, <1>10
      <3>2. v[k + 1] \in FigureTokens
        BY <3>1, NumberFacts DEF n
      <3>3. QED BY <1>5, <3>1, <3>2
    <2>3. h[k] \in Seq(Alphabet) /\ v[k + 1] \in Alphabet
      BY <1>1, <1>8, <1>10 DEF n
    <2>4. h[k + 1] = Append(h[k], v[k + 1])
      BY <2>1, <2>2, <2>3
    <2>5. QED BY <1>10, <2>3, <2>4
  <1> HIDE DEF Read
  <1>11. n - 1 \in T
    <2>1. 0 \in T
      BY <1>9
    <2>2. ASSUME NEW k \in Nat, k \in T PROVE k + 1 \in T
      <3> SUFFICES ASSUME k + 1 <= n - 1 PROVE Read(k + 1)
        OBVIOUS
      <3>1. k <= n - 1
        BY <1>1
      <3>2. QED BY <1>10, <2>2, <3>1
    <2>3. n - 1 \in Nat
      BY <1>1
    <2>4. QED BY <2>1, <2>2, <2>3, SetInduction
  <1>12. PICK m \in Nat : m + 1 = n /\ m = n - 1
    BY <1>1
  <1>13. Read(m)
    BY <1>11, <1>12
  <1>14. h[n] = h[m] \o s[n]
    <2>1. n \in 1 .. n
      BY <1>1
    <2>2. QED BY <1>7, <1>12, <2>1 DEF IsJoin
  <1>15. h[m] \in Seq(Alphabet) /\ Len(h[m]) = m /\ s[n] \in Seq(Alphabet) /\ Len(s[n]) >= 1 /\ s[n][1] = v[n]
    BY <1>1, <1>6, <1>8, <1>12, <1>13 DEF Read
  <1>16. /\ h[n] \in Seq(Alphabet) /\ n <= Len(h[n])
         /\ \A i \in 1 .. n : h[n][i] = v[i]
    <2>0. PICK a \in Seq(Alphabet), b \in Seq(Alphabet) : a = h[m] /\ b = s[n]
      BY <1>15
    <2>1. h[n] = a \o b /\ Len(a) = m /\ Len(b) >= 1 /\ b[1] = v[n] /\ Len(b) \in Nat
      BY <1>14, <1>15, <2>0
    <2>2. a \o b \in Seq(Alphabet) /\ Len(a \o b) = m + Len(b)
      BY <2>1, ConcatProperties
    <2>3. n <= Len(a \o b)
      BY <1>12, <2>1, <2>2
    <2>4. ASSUME NEW i \in 1 .. n PROVE (a \o b)[i] = v[i]
      <3>0. i \in 1 .. Len(a) + Len(b) /\ m \in Nat /\ i \in Nat
        BY <1>12, <2>1
      <3>1. CASE i <= m
        <4>1. (a \o b)[i] = a[i]
          BY <2>1, <3>0, <3>1, ConcatProperties
        <4>2. QED BY <1>13, <2>0, <3>0, <3>1, <4>1 DEF Read
      <3>2. CASE i = n
        <4>1. ~(i <= Len(a)) /\ i - Len(a) = 1
          BY <1>12, <2>1, <3>2
        <4>2. (a \o b)[i] = b[1]
          BY <3>0, <4>1, ConcatProperties
        <4>3. QED BY <2>1, <3>2, <4>2
      <3>3. QED BY <1>12, <3>0, <3>1, <3>2
    <2>5. QED BY <2>1, <2>2, <2>3, <2>4
  <1>17. SubSeq(v, 1, n) = SubSeq(h[n], 1, n)
    BY <1>1, <1>16 DEF n
  <1>18. IsPrefix(v, h[n])
    BY <1>16, <1>17 DEF IsPrefix, n
  <1>19. QED BY <1>4, <1>7, <1>18 DEF r

\* The canonical form changes no word but Whisper's spellings of letters.
LEMMA NatoTyped ==
  ASSUME NEW text \in Seq(Alphabet)
  PROVE  LET t == normalize_whisper_nato_variants(text)
         IN  t \in Seq(Alphabet) /\ Len(t) = Len(text) /\ \A i \in 1 .. Len(text) : t[i] = nato(text[i])
  <1> DEFINE t == normalize_whisper_nato_variants(text)
  <1>1. DOMAIN text = 1 .. Len(text) /\ Len(text) \in Nat /\ \A i \in 1 .. Len(text) : text[i] \in Alphabet
    OBVIOUS
  <1>2. \A i \in 1 .. Len(text) : t[i] = nato(text[i])
    BY <1>1 DEF normalize_whisper_nato_variants
  <1>3. t = [i \in 1 .. Len(text) |-> t[i]]
    BY <1>1 DEF normalize_whisper_nato_variants
  <1> HIDE DEF t
  <1>4. \A i \in 1 .. Len(text) : t[i] \in Alphabet
    BY <1>1, <1>2, AlphabetIsClosed
  <1>5. t \in Seq(Alphabet) /\ Len(t) = Len(text)
    BY <1>1, <1>3, <1>4, IndexedIsSeq
  <1>6. QED BY <1>2, <1>5 DEF t

\* A number said behind the word that announces it is found by value_covered,
\* in words or in figures.
LEMMA NumberIsCovered ==
  ASSUME NEW v, Number(v), NEW in_words \in BOOLEAN, NEW word \in {"piste", "runway", "qnh"},
         NEW text \in Seq(Alphabet), NEW p \in Nat, PartAt(text, <<word>> \o Rendered(v, in_words), p)
  PROVE  value_covered(text, v)
  <1> DEFINE n == Len(v)
             r == Rendered(v, in_words)
             f == Rendered(v, FALSE)
             said == <<word>> \o r
             norm == parse_spoken_number(text)
             canon == normalize_whisper_nato_variants(norm)
  <1>1. /\ n \in 1 .. 4 /\ n \in Nat /\ v \in Seq(Alphabet)
        /\ \A i \in 1 .. n : v[i] \in FigureTokens \union {"l", "r"}
        /\ \A i \in 1 .. n - 1 : v[i] \in FigureTokens
    BY NumberFacts
  <1>2. /\ r \in Seq(Alphabet) /\ Len(r) = n
        /\ \A i \in 1 .. n : v[i] \in FigureTokens => r[i] = IF in_words THEN FigureWords[v[i]] ELSE v[i]
        /\ \A i \in 1 .. n : v[i] \in DOMAIN SideWords => r[i] = SideWords[v[i]]
    BY NumberFacts, RenderedFacts
  <1>3. /\ f \in Seq(Alphabet) /\ Len(f) = n
        /\ \A i \in 1 .. n : v[i] \in FigureTokens => f[i] = v[i]
        /\ \A i \in 1 .. n : v[i] \in DOMAIN SideWords => f[i] = SideWords[v[i]]
    BY NumberFacts, RenderedFacts
  <1>4. /\ norm \in Seq(Alphabet) /\ Len(norm) = Len(text) /\ Len(text) \in Nat
        /\ \A i \in 1 .. Len(text) : text[i] \notin DigitWords => norm[i] = text[i]
    BY ParseKeeps
  <1>5. /\ canon \in Seq(Alphabet) /\ Len(canon) = Len(text)
        /\ \A i \in 1 .. Len(text) : canon[i] = nato(norm[i])
    BY <1>4, NatoTyped
  <1>6. value_covered(text, v) = Within(v, Welded(canon))
    BY DEF value_covered, canon_stripped
  <1>7. IsPrefix(v, Welded(f))
    BY NumberBegins
  <1> HIDE DEF r, f, norm, canon
  <1>8. word \in Alphabet /\ word \in AnchorWords /\ word \notin DigitWords
    BY KeywordFacts DEF Alphabet
  <1>9. /\ Len(said) = n + 1 /\ said[1] = word
        /\ \A i \in 1 .. n : said[i + 1] = r[i]
    BY <1>1, <1>2, <1>8
  <1>10. PICK q \in Nat : q = p + 1
    OBVIOUS
  <1>11. /\ q \in 1 .. Len(text) /\ q + n <= Len(text) /\ text[q] = word
         /\ \A i \in 1 .. n : text[q + i] = r[i]
    <2>1. p + Len(said) <= Len(text) /\ \A i \in 1 .. Len(said) : text[p + i] = said[i]
      BY DEF PartAt, r
    <2> HIDE DEF said, n
    <2>2. q \in 1 .. Len(text) /\ q + n <= Len(text)
      BY <1>1, <1>4, <1>9, <1>10, <2>1
    <2>3. text[q] = word
      <3>1. 1 \in 1 .. Len(said)
        BY <1>1, <1>9
      <3>2. QED BY <1>9, <1>10, <2>1, <3>1
    <2>4. ASSUME NEW i \in 1 .. n PROVE text[q + i] = r[i]
      <3>1. PICK k \in 1 .. Len(said) : k = i + 1
        BY <1>1, <1>9
      <3>2. text[p + k] = said[k] /\ said[k] = r[i]
        BY <1>9, <2>1, <3>1
      <3>3. p + k = q + i
        BY <1>10, <3>1
      <3>4. QED BY <3>2, <3>3
    <2>5. QED BY <2>2, <2>3, <2>4
  <1> HIDE DEF said, n
  <1>12. ASSUME NEW i \in 1 .. n PROVE canon[q + i] = f[i]
    <2>0. q + i \in 1 .. Len(text) /\ text[q + i] = r[i]
      BY <1>1, <1>4, <1>11
    <2>1. canon[q + i] = nato(norm[q + i])
      BY <1>5, <2>0
    <2>2. CASE v[i] \in FigureTokens /\ in_words
      <3>1. \A k \in 1 .. i : v[k] \in FigureTokens
        <4> SUFFICES ASSUME NEW k \in 1 .. i, k # i PROVE v[k] \in FigureTokens
          BY <2>2
        <4>1. k \in 1 .. n - 1
          BY <1>1
        <4>2. QED BY <1>1, <4>1
      <3>2. \A k \in 1 .. i : r[k] = FigureWords[v[k]]
        BY <1>1, <1>2, <2>2, <3>1
      <3>3. ASSUME NEW k \in 1 .. i PROVE text[q + k] \in DigitWords
        <4>1. k \in 1 .. n
          BY <1>1
        <4>2. text[q + k] = FigureWords[v[k]]
          BY <1>11, <3>2, <4>1
        <4>3. FigureWords[v[k]] \in DigitWords
          BY <3>1, FigureFacts
        <4>4. QED BY <4>2, <4>3
      <3>4. i \in 1 .. 4 /\ q + i <= Len(text)
        BY <1>1, <2>0
      <3>5. norm[q + i] = GermanDigits[text[q + i]]
        BY <1>8, <1>11, <3>3, <3>4, ParseAnchored DEF norm
      <3>6. norm[q + i] = v[i]
        BY <2>0, <2>2, <3>2, <3>5, FigureFacts
      <3>7. nato(v[i]) = v[i]
        BY <2>2, PlainFacts
      <3>8. QED BY <1>3, <2>1, <2>2, <3>6, <3>7
    <2>3. CASE v[i] \in FigureTokens /\ ~in_words
      <3>1. text[q + i] = v[i] /\ v[i] \notin DigitWords /\ nato(v[i]) = v[i]
        BY <1>2, <2>0, <2>3, PlainFacts
      <3>2. norm[q + i] = v[i]
        BY <1>4, <2>0, <3>1
      <3>3. QED BY <1>3, <2>1, <2>3, <3>1, <3>2
    <2>4. CASE v[i] \in {"l", "r"}
      <3>1. v[i] \in DOMAIN SideWords /\ SideWords[v[i]] \notin DigitWords /\ nato(SideWords[v[i]]) = SideWords[v[i]]
        BY <2>4, PlainFacts
      <3>2. text[q + i] = SideWords[v[i]]
        BY <1>2, <2>0, <3>1
      <3>3. norm[q + i] = SideWords[v[i]]
        BY <1>4, <2>0, <3>1, <3>2
      <3>4. QED BY <1>3, <2>1, <3>1, <3>3
    <2>5. QED BY <1>1, <2>2, <2>3, <2>4
  <1>13. PartAt(canon, f, q)
    BY <1>3, <1>5, <1>11, <1>12 DEF PartAt
  <1>14. Within(v, Welded(canon))
    BY <1>1, <1>3, <1>5, <1>7, <1>13, WeldedSegment
  <1>15. QED BY <1>6, <1>14

\* The word of a callsign as canon_callsign sees it.
CallsignWord(w) == IF IsDigitWord(w) THEN GermanDigits[w] ELSE nato(w)

\* canon_callsign (bzf_compliance.cpp) works word by word.
LEMMA CallsignTyped ==
  ASSUME NEW text \in Seq(Alphabet)
  PROVE  \E t \in Seq(Alphabet) :
           /\ Len(t) = Len(text) /\ canon_callsign(text) = Welded(t)
           /\ \A i \in 1 .. Len(text) : t[i] = CallsignWord(text[i])
  <1> DEFINE t == [i \in DOMAIN text |-> CallsignWord(text[i])]
  <1>1. DOMAIN text = 1 .. Len(text) /\ Len(text) \in Nat /\ \A i \in 1 .. Len(text) : text[i] \in Alphabet
    OBVIOUS
  <1>2. \A i \in 1 .. Len(text) : t[i] = CallsignWord(text[i])
    BY <1>1
  <1>3. t = [i \in 1 .. Len(text) |-> t[i]]
    BY <1>1
  <1>4. canon_callsign(text) = Welded(t)
    BY DEF canon_callsign, CallsignWord
  <1> HIDE DEF t
  <1>5. \A i \in 1 .. Len(text) : t[i] \in Alphabet
    BY <1>1, <1>2, AlphabetIsClosed DEF CallsignWord, IsDigitWord
  <1>6. t \in Seq(Alphabet) /\ Len(t) = Len(text)
    BY <1>1, <1>3, <1>5, IndexedIsSeq
  <1>7. QED BY <1>2, <1>4, <1>6

\* A text begins with itself.
LEMMA WholeIsPrefix ==
  ASSUME NEW S, NEW s \in Seq(S)
  PROVE  IsPrefix(s, s)
  BY DEF IsPrefix

\* The letters of a text are letters.
LEMMA WeldedTyped ==
  ASSUME NEW text \in Seq(Alphabet)
  PROVE  Welded(text) \in Seq(Alphabet)
  <1> DEFINE s == [i \in DOMAIN text |-> Letters(text[i])]
  <1>1. s \in Seq(Seq(Alphabet))
    BY LettersTyped
  <1>2. Welded(text) = FlattenSeq(s)
    BY DEF Welded
  <1> HIDE DEF s
  <1>3. PICK h : IsJoin(h, s, Len(s)) /\ FlattenSeq(s) = h[Len(s)]
    BY <1>1, FlattenIsJoin
  <1>4. \A k \in 0 .. Len(s) : h[k] \in Seq(Alphabet)
    BY <1>1, <1>3, JoinTyped
  <1>5. Len(s) \in 0 .. Len(s)
    BY <1>1
  <1>6. QED BY <1>2, <1>3, <1>4, <1>5

\* A callsign that a text has word for word, but for the spelling of digits and
\* letters, is found in it.
LEMMA CallsignIsCovered ==
  ASSUME NEW callsign \in Seq(Alphabet), NEW said \in Seq(Alphabet), Len(said) = Len(callsign),
         \A i \in 1 .. Len(callsign) : CallsignWord(said[i]) = CallsignWord(callsign[i]),
         NEW text \in Seq(Alphabet), NEW p \in Nat, PartAt(text, said, p)
  PROVE  Within(canon_callsign(callsign), canon_callsign(text))
  <1>1. PICK c \in Seq(Alphabet) :
          /\ Len(c) = Len(callsign) /\ canon_callsign(callsign) = Welded(c)
          /\ \A i \in 1 .. Len(callsign) : c[i] = CallsignWord(callsign[i])
    BY CallsignTyped
  <1>2. PICK t \in Seq(Alphabet) :
          /\ Len(t) = Len(text) /\ canon_callsign(text) = Welded(t)
          /\ \A i \in 1 .. Len(text) : t[i] = CallsignWord(text[i])
    BY CallsignTyped
  <1>3. Len(text) \in Nat /\ Len(c) \in Nat /\ p + Len(c) <= Len(text)
    BY <1>1 DEF PartAt
  <1>4. ASSUME NEW i \in 1 .. Len(c) PROVE t[p + i] = c[i]
    <2>1. p + i \in 1 .. Len(text) /\ i \in 1 .. Len(callsign) /\ i \in 1 .. Len(said)
      BY <1>1, <1>3
    <2>2. t[p + i] = CallsignWord(text[p + i])
      BY <1>2, <2>1
    <2>3. text[p + i] = said[i]
      BY <2>1 DEF PartAt
    <2>4. QED BY <1>1, <2>1, <2>2, <2>3
  <1>5. PartAt(t, c, p)
    BY <1>2, <1>3, <1>4 DEF PartAt
  <1>6. Welded(c) \in Seq(Alphabet) /\ IsPrefix(Welded(c), Welded(c))
    BY WeldedTyped, WholeIsPrefix
  <1>7. Within(Welded(c), Welded(t))
    BY <1>5, <1>6, WeldedSegment
  <1>8. QED BY <1>1, <1>2, <1>7

(***************************************************************************)
(* Transcripts.                                                            *)
(***************************************************************************)

\* part is found somewhere in text.
IsPart(text, part) == \E p \in Nat : PartAt(text, part, p)

\* Three parts of a text are found in it.
LEMMA ThreeParts ==
  ASSUME NEW S, NEW a \in Seq(S), NEW b \in Seq(S), NEW c \in Seq(S), NEW W, W = (a \o b) \o c
  PROVE  W \in Seq(S) /\ IsPart(W, a) /\ IsPart(W, b) /\ IsPart(W, c)
  <1>0. Len(a) \in Nat /\ Len(b) \in Nat /\ Len(c) \in Nat
    OBVIOUS
  <1>1. PICK d \in Seq(S) : d = a \o b
    BY ConcatProperties
  <1>2. /\ Len(d) = Len(a) + Len(b)
        /\ \A i \in 1 .. Len(a) : d[i] = a[i]
        /\ \A i \in 1 .. Len(b) : d[Len(a) + i] = b[i]
    BY <1>0, <1>1
  <1>3. /\ W \in Seq(S) /\ Len(W) = Len(d) + Len(c)
        /\ \A i \in 1 .. Len(d) : W[i] = d[i]
        /\ \A i \in 1 .. Len(c) : W[Len(d) + i] = c[i]
    BY <1>0, <1>1
  <1>4. PartAt(W, a, 0)
    <2>1. 0 + Len(a) <= Len(W)
      BY <1>0, <1>2, <1>3
    <2>2. ASSUME NEW i \in 1 .. Len(a) PROVE W[0 + i] = a[i]
      <3>1. i \in 1 .. Len(d) /\ 0 + i = i
        BY <1>0, <1>2
      <3>2. QED BY <1>2, <1>3, <3>1
    <2>3. QED BY <2>1, <2>2 DEF PartAt
  <1>5. PartAt(W, b, Len(a))
    <2>1. Len(a) + Len(b) <= Len(W)
      BY <1>0, <1>2, <1>3
    <2>2. ASSUME NEW i \in 1 .. Len(b) PROVE W[Len(a) + i] = b[i]
      <3>1. PICK k \in 1 .. Len(d) : k = Len(a) + i
        BY <1>0, <1>2
      <3>2. W[k] = d[k] /\ d[k] = b[i]
        BY <1>2, <1>3, <3>1
      <3>3. QED BY <3>1, <3>2
    <2>3. QED BY <2>1, <2>2 DEF PartAt
  <1>6. PartAt(W, c, Len(d))
    BY <1>3 DEF PartAt
  <1>7. Len(d) \in Nat
    OBVIOUS
  <1>8. QED BY <1>0, <1>3, <1>4, <1>5, <1>6, <1>7 DEF IsPart

\* Sequences over a larger alphabet.
LEMMA SeqGrows ==
  ASSUME NEW A, NEW B, A \subseteq B, NEW x \in Seq(A)
  PROVE  x \in Seq(B)
  OBVIOUS

\* What a number is said with.
LEMMA SaidTyped ==
  ASSUME NEW v \in Seq(FigureTokens \union DOMAIN SideWords), NEW in_words \in BOOLEAN,
         NEW word \in {"piste", "runway", "qnh"}
  PROVE  <<word>> \o Rendered(v, in_words) \in Seq(Alphabet)
  <1>1. PICK r \in Seq(Alphabet) : r = Rendered(v, in_words)
    BY RenderedFacts
  <1>2. word \in Alphabet
    BY DEF Alphabet
  <1>3. <<word>> \in Seq(Alphabet)
    BY <1>2
  <1>4. QED BY <1>1, <1>3, ConcatProperties

\* The words of a callsign, as said, are in the transcript what they are in the
\* registration.
LEMMA SaidCallsignFacts ==
  ASSUME NEW m \in Meanings
  PROVE  /\ m.callsign \in Seq(Alphabet)
         /\ SaidCallsign(m) \in Seq(Alphabet) /\ Len(SaidCallsign(m)) = Len(m.callsign)
         /\ \A i \in 1 .. Len(m.callsign) : CallsignWord(SaidCallsign(m)[i]) = CallsignWord(m.callsign[i])
  <1> DEFINE c == m.callsign
             s == SaidCallsign(m)
  <1>1. STRING \subseteq Alphabet
    BY DEF Alphabet
  <1>2. \A x \in Registrations : x \in Seq(Alphabet) /\ Len(x) > 1
    <2> SUFFICES ASSUME NEW x \in Registrations PROVE x \in Seq(Alphabet) /\ Len(x) > 1
      OBVIOUS
    <2>1. Registrations \subseteq Seq(STRING) /\ Len(x) > 1
      BY ReadbackAssumption
    <2>2. x \in Seq(STRING)
      BY <2>1
    <2>3. x \in Seq(Alphabet)
      BY <1>1, <2>2, SeqGrows, Zenon
    <2>4. QED BY <2>1, <2>3
  <1>3. c \in {<<>>} \union Registrations \union {Behind(x, Len(x) - 2) : x \in Registrations}
    BY DEF Meanings
  <1>4. c \in Seq(Alphabet)
    <2>1. CASE c = <<>>
      BY <2>1
    <2>2. CASE c \in Registrations
      BY <1>2, <2>2
    <2>3. ASSUME NEW x \in Registrations, c = Behind(x, Len(x) - 2) PROVE c \in Seq(Alphabet)
      <3>1. x \in Seq(Alphabet) /\ Len(x) - 2 \in 0 .. Len(x)
        BY <1>2
      <3>2. PICK k \in 0 .. Len(x) : k = Len(x) - 2
        BY <3>1
      <3>3. Behind(x, k) \in Seq(Alphabet)
        BY <3>1, BehindFacts
      <3>4. QED BY <2>3, <3>2, <3>3
    <2>4. QED BY <1>3, <2>1, <2>2, <2>3
  <1> HIDE DEF c
  <1>5. DOMAIN c = 1 .. Len(c) /\ Len(c) \in Nat /\ \A i \in 1 .. Len(c) : c[i] \in Alphabet
    BY <1>4
  <1>6. /\ s = [i \in 1 .. Len(c) |-> s[i]]
        /\ \A i \in 1 .. Len(c) : s[i] = IF ~m.in_words /\ IsDigitWord(c[i]) THEN GermanDigits[c[i]]
                                         ELSE IF ~m.in_words /\ c[i] = "alpha" THEN "alfa" ELSE c[i]
    BY <1>5 DEF SaidCallsign, c
  <1> HIDE DEF s
  <1>7. "alfa" \in Alphabet
    BY DEF Alphabet
  <1>8. \A i \in 1 .. Len(c) : s[i] \in Alphabet
    BY <1>5, <1>6, <1>7, AlphabetIsClosed DEF IsDigitWord
  <1>9. s \in Seq(Alphabet) /\ Len(s) = Len(c)
    BY <1>5, <1>6, <1>8, IndexedIsSeq
  <1>10. "alfa" \notin DigitWords /\ "alpha" \notin DigitWords /\ nato("alfa") = "alpha" /\ nato("alpha") = "alpha"
    BY DigitWordFacts DEF nato, NatoVariants
  <1>11. ASSUME NEW i \in 1 .. Len(c) PROVE CallsignWord(s[i]) = CallsignWord(c[i])
    <2>1. CASE ~m.in_words /\ IsDigitWord(c[i])
      <3>1. PICK g \in FigureTokens : s[i] = g /\ g = GermanDigits[c[i]]
        BY <1>6, <2>1, FigureFacts DEF IsDigitWord
      <3>2. g \notin DigitWords /\ nato(g) = g
        BY PlainFacts
      <3>3. QED BY <2>1, <3>1, <3>2 DEF CallsignWord, IsDigitWord
    <2>2. CASE ~m.in_words /\ ~IsDigitWord(c[i]) /\ c[i] = "alpha"
      <3>1. s[i] = "alfa"
        BY <1>6, <2>2
      <3>2. QED BY <1>10, <2>2, <3>1 DEF CallsignWord, IsDigitWord
    <2>3. CASE m.in_words \/ (~IsDigitWord(c[i]) /\ c[i] # "alpha")
      <3>1. s[i] = c[i]
        BY <1>6, <2>3
      <3>2. QED BY <3>1
    <2>4. QED BY <2>1, <2>2, <2>3
  <1>12. QED BY <1>4, <1>9, <1>11 DEF c, s

\* Everything that is said is found in the transcript, whatever the order.
LEMMA TranscriptParts ==
  ASSUME NEW m \in Meanings
  PROVE  /\ Transcript(m) \in Seq(Alphabet)
         /\ IsPart(Transcript(m), SaidCallsign(m))
         /\ IsPart(Transcript(m), SaidRunway(m))
         /\ IsPart(Transcript(m), SaidQnh(m))
  <1>1. /\ m.runway \in IssuedRunways \union {<<>>} /\ m.qnh \in IssuedQnhs \union {<<>>}
        /\ m.in_words \in BOOLEAN
    BY DEF Meanings
  <1>2. SaidCallsign(m) \in Seq(Alphabet)
    BY SaidCallsignFacts
  <1>3. SaidRunway(m) \in Seq(Alphabet)
    <2>1. CASE m.runway = <<>>
      BY <2>1 DEF SaidRunway
    <2>2. CASE m.runway # <<>>
      <3>1. m.runway \in Seq(FigureTokens \union DOMAIN SideWords)
        BY <1>1, <2>2, ReadbackAssumption
      <3>2. PICK word \in {"piste", "runway", "qnh"} : word = IF m.in_words THEN "piste" ELSE "runway"
        OBVIOUS
      <3>3. <<word>> \o Rendered(m.runway, m.in_words) \in Seq(Alphabet)
        BY <1>1, <3>1, SaidTyped
      <3>4. QED BY <2>2, <3>2, <3>3 DEF SaidRunway
    <2>3. QED BY <2>1, <2>2
  <1>4. SaidQnh(m) \in Seq(Alphabet)
    <2>1. CASE m.qnh = <<>>
      BY <2>1 DEF SaidQnh
    <2>2. CASE m.qnh # <<>>
      <3>1. m.qnh \in Seq(FigureTokens \union DOMAIN SideWords)
        <4>1. m.qnh \in Seq(FigureTokens)
          BY <1>1, <2>2, ReadbackAssumption
        <4>2. QED BY <4>1
      <3>2. "qnh" \in {"piste", "runway", "qnh"}
        OBVIOUS
      <3>3. <<"qnh">> \o Rendered(m.qnh, m.in_words) \in Seq(Alphabet)
        BY <1>1, <3>1, <3>2, SaidTyped
      <3>4. QED BY <2>2, <3>3 DEF SaidQnh
    <2>3. QED BY <2>1, <2>2
  <1>5. PICK a \in Seq(Alphabet), b \in Seq(Alphabet), c \in Seq(Alphabet) :
          a = SaidRunway(m) /\ b = SaidQnh(m) /\ c = SaidCallsign(m)
    BY <1>2, <1>3, <1>4
  <1>6. Transcript(m) = a \o b \o c \/ Transcript(m) = c \o b \o a
    BY <1>5 DEF Transcript
  <1>7. CASE Transcript(m) = a \o b \o c
    BY <1>5, <1>7, ThreeParts
  <1>8. CASE Transcript(m) = c \o b \o a
    BY <1>5, <1>8, ThreeParts
  <1>9. QED BY <1>6, <1>7, <1>8

\* The clearance is one that the tower issued.
Issued(c) ==
    /\ c.callsign \in Registrations /\ c.runway \in IssuedRunways /\ c.qnh \in IssuedQnhs \union {<<>>}
    /\ c.required \subseteq {"Callsign"} \union Facts /\ "Callsign" \in c.required
    /\ "QNH" \in c.required => c.qnh # <<>>

\* A pilot who is identified has a callsign the check finds.
LEMMA IdentifiedIsOk ==
  ASSUME NEW m \in Meanings, NEW c \in Registrations, m.callsign # <<>>,
         NEW n \in {0, Len(c) - 2}, m.callsign = Behind(c, n)
  PROVE  pilot_has_callsign(Transcript(m), c)
  <1>1. PICK text \in Seq(Alphabet) : text = Transcript(m)
    BY TranscriptParts
  <1>2. IsPart(text, SaidCallsign(m))
    BY <1>1, TranscriptParts
  <1>3. PICK p \in Nat : PartAt(text, SaidCallsign(m), p)
    BY <1>2 DEF IsPart
  <1>4. PICK said \in Seq(Alphabet), callsign \in Seq(Alphabet) :
          /\ said = SaidCallsign(m) /\ callsign = m.callsign /\ Len(said) = Len(callsign)
          /\ \A i \in 1 .. Len(callsign) : CallsignWord(said[i]) = CallsignWord(callsign[i])
    BY SaidCallsignFacts
  <1>5. Within(canon_callsign(callsign), canon_callsign(text))
    <2>1. PartAt(text, said, p)
      BY <1>3, <1>4
    <2>2. QED BY <1>4, <2>1, CallsignIsCovered
  <1>6. Len(c) > 1
    BY ReadbackAssumption
  <1>7. CASE n = 0
    <2>1. c \in Seq(STRING)
      BY ReadbackAssumption
    <2>2. Behind(c, 0) = c
      BY <2>1 DEF Behind
    <2>3. QED BY <1>1, <1>4, <1>5, <1>7, <2>2 DEF pilot_has_callsign
  <1>8. CASE n = Len(c) - 2
    BY <1>1, <1>4, <1>5, <1>6, <1>8 DEF pilot_has_callsign
  <1>9. QED BY <1>7, <1>8

\* A runway that is meant is found, unless it has the letter C.
LEMMA RunwayIsOk ==
  ASSUME NEW m \in Meanings, m.runway \in IssuedRunways, m.runway[Len(m.runway)] # "c"
  PROVE  value_covered(Transcript(m), m.runway)
  <1> DEFINE v == m.runway
  <1>1. /\ v \in Seq(FigureTokens \union DOMAIN SideWords) /\ Len(v) \in 1 .. 4
        /\ \A i \in 1 .. Len(v) - 1 : v[i] \in FigureTokens
    BY ReadbackAssumption
  <1>2. v # <<>>
    <2> HIDE DEF v
    <2>1. Len(v) \in 1 .. 4
      BY <1>1
    <2>2. \A k \in 1 .. 4 : k # 0
      OBVIOUS
    <2>3. QED BY <2>1, <2>2, EmptySeq
  <1>3. v[Len(v)] # "c"
    OBVIOUS
  <1>4. m.in_words \in BOOLEAN
    BY DEF Meanings
  <1>5. PICK word \in {"piste", "runway", "qnh"} : word = IF m.in_words THEN "piste" ELSE "runway"
    OBVIOUS
  <1>6. SaidRunway(m) = <<word>> \o Rendered(v, m.in_words)
    BY <1>2, <1>5 DEF SaidRunway
  <1> HIDE DEF v
  <1>7. Number(v)
    <2>1. DOMAIN v = 1 .. Len(v) /\ Len(v) \in Nat /\ v = [i \in 1 .. Len(v) |-> v[i]]
      BY <1>1
    <2>2. ASSUME NEW i \in 1 .. Len(v) PROVE v[i] \in FigureTokens \union {"l", "r"}
      <3>1. CASE i = Len(v)
        <4>1. v[i] \in FigureTokens \union DOMAIN SideWords
          BY <1>1
        <4>2. QED BY <1>3, <3>1, <4>1, PlainFacts
      <3>2. CASE i # Len(v)
        <4>1. i \in 1 .. Len(v) - 1
          BY <2>1, <3>2
        <4>2. QED BY <1>1, <4>1
      <3>3. QED BY <3>1, <3>2
    <2>3. v \in Seq(FigureTokens \union {"l", "r"})
      BY <2>1, <2>2, IndexedIsSeq
    <2>4. QED BY <1>1, <2>3 DEF Number
  <1>8. PICK text \in Seq(Alphabet) : text = Transcript(m)
    BY TranscriptParts
  <1>9. IsPart(text, SaidRunway(m))
    BY <1>8, TranscriptParts
  <1>10. PICK p \in Nat : PartAt(text, <<word>> \o Rendered(v, m.in_words), p)
    BY <1>6, <1>9 DEF IsPart
  <1>11. value_covered(text, v)
    BY <1>4, <1>7, <1>10, NumberIsCovered
  <1>12. QED BY <1>8, <1>11 DEF v

\* A pressure that is meant is found.
LEMMA QnhIsOk ==
  ASSUME NEW m \in Meanings, m.qnh \in IssuedQnhs
  PROVE  value_covered(Transcript(m), m.qnh)
  <1> DEFINE v == m.qnh
  <1>1. v \in Seq(FigureTokens) /\ Len(v) \in 1 .. 4
    BY ReadbackAssumption
  <1>2. v # <<>>
    <2> HIDE DEF v
    <2>1. Len(v) \in 1 .. 4
      BY <1>1
    <2>2. \A k \in 1 .. 4 : k # 0
      OBVIOUS
    <2>3. QED BY <2>1, <2>2, EmptySeq
  <1>4. m.in_words \in BOOLEAN
    BY DEF Meanings
  <1>5. PICK word \in {"piste", "runway", "qnh"} : word = "qnh"
    OBVIOUS
  <1>6. SaidQnh(m) = <<word>> \o Rendered(v, m.in_words)
    BY <1>2, <1>5 DEF SaidQnh
  <1> HIDE DEF v
  <1>7. Number(v)
    <2>1. v \in Seq(FigureTokens \union {"l", "r"})
      BY <1>1
    <2>2. \A i \in 1 .. Len(v) - 1 : v[i] \in FigureTokens
      BY <1>1
    <2>3. QED BY <1>1, <2>1, <2>2 DEF Number
  <1>8. PICK text \in Seq(Alphabet) : text = Transcript(m)
    BY TranscriptParts
  <1>9. IsPart(text, SaidQnh(m))
    BY <1>8, TranscriptParts
  <1>10. PICK p \in Nat : PartAt(text, <<word>> \o Rendered(v, m.in_words), p)
    BY <1>6, <1>9 DEF IsPart
  <1>11. value_covered(text, v)
    BY <1>4, <1>7, <1>10, NumberIsCovered
  <1>12. QED BY <1>8, <1>11 DEF v

\* What a clearance asks for and the pilot read back is not missing.
LEMMA NothingMissing ==
  ASSUME NEW c, Issued(c), NEW m \in Meanings, m.callsign # <<>>,
         NEW n \in {0, Len(c.callsign) - 2}, m.callsign = Behind(c.callsign, n),
         \A e \in c.required \ {"Callsign"} : expected_value(m, e) = expected_value(c, e),
         c.runway[Len(c.runway)] # "c"
  PROVE  missing_readback_elements(diff_readback(c, Transcript(m))) = {}
  <1> DEFINE text == Transcript(m)
             diff == diff_readback(c, text)
  <1>1. c.required \subseteq {"Callsign", "Runway", "QNH"}
    BY DEF Issued, Facts
  <1>2. pilot_has_callsign(text, c.callsign)
    BY IdentifiedIsOk DEF Issued
  <1>3. ASSUME "Runway" \in c.required PROVE value_covered(text, expected_value(c, "Runway"))
    <2>1. expected_value(c, "Runway") = c.runway /\ expected_value(m, "Runway") = m.runway
      BY DEF expected_value
    <2>2. m.runway = c.runway
      BY <1>3, <2>1
    <2>3. QED BY <2>1, <2>2, RunwayIsOk DEF Issued
  <1>4. ASSUME "QNH" \in c.required PROVE value_covered(text, expected_value(c, "QNH"))
    <2>1. expected_value(c, "QNH") = c.qnh /\ expected_value(m, "QNH") = m.qnh
      BY DEF expected_value
    <2>2. m.qnh = c.qnh
      BY <1>4, <2>1
    <2>3. QED BY <1>4, <2>1, <2>2, QnhIsOk DEF Issued
  <1> HIDE DEF text
  <1>5. ASSUME NEW e \in c.required PROVE diff[e] = "Ok"
    <2>1. diff[e] = IF e = "Callsign" THEN IF pilot_has_callsign(text, c.callsign) THEN "Ok" ELSE "Missing"
                    ELSE IF value_covered(text, expected_value(c, e)) THEN "Ok"
                    ELSE IF stated_value(e, text) = <<>> THEN "Missing" ELSE "Wrong"
      BY DEF diff_readback
    <2>2. CASE e = "Callsign"
      BY <1>2, <2>1, <2>2
    <2>3. CASE e = "Runway"
      BY <1>3, <2>1, <2>3
    <2>4. CASE e = "QNH"
      BY <1>4, <2>1, <2>4
    <2>5. QED BY <1>1, <2>2, <2>3, <2>4
  <1>6. DOMAIN diff = c.required
    BY DEF diff_readback
  <1> HIDE DEF diff
  <1>7. missing_readback_elements(diff) = {}
    BY <1>5, <1>6 DEF missing_readback_elements
  <1>8. QED BY <1>7 DEF diff, text

\* A clearance that is stored was issued, and only such a one is answered.
ReadbackInv ==
    /\ comp = NoClearance \/ Issued(comp)
    /\ comp = NoClearance => outcome = Waiting
    /\ CorrectIsAccepted

\* The engine and the strict check accept an answer that has everything.
LEMMA CorrectStep ==
  ASSUME Issued(comp), Answer
  PROVE  CorrectIsAccepted'
  <1> SUFFICES ASSUME Identified',
                      (\A e \in comp.required \ {"Callsign"} : expected_value(meant, e) = expected_value(comp, e))',
                      (comp.runway[Len(comp.runway)])' # "c"
               PROVE  outcome.kind' = "accepted"
    BY DEF CorrectIsAccepted
  <1>1. comp' = comp /\ meant' \in Meanings
    BY DEF Answer
  <1>2. meant'.callsign # <<>> /\ \E n \in {0, Len(comp.callsign) - 2} : meant'.callsign = Behind(comp.callsign, n)
    BY <1>1 DEF Identified
  <1>3. \A e \in comp.required \ {"Callsign"} : expected_value(meant', e) = expected_value(comp, e)
    BY <1>1 DEF expected_value
  <1>4. comp.runway[Len(comp.runway)] # "c"
    BY <1>1
  <1>5. missing_readback_elements(diff_readback(comp, Transcript(meant'))) = {}
    BY <1>1, <1>2, <1>3, <1>4, NothingMissing
  <1>6. readback_covers_core(comp.required, {})
    BY DEF readback_covers_core, Issued, Facts
  <1>7. outcome' = [kind |-> "accepted", named |-> {}]
    BY <1>5, <1>6 DEF Answer
  <1>8. QED BY <1>7

\* A pilot who reads back all that is owed is never asked again, for every
\* registration, runway and pressure, in words or figures, the callsign first
\* or last, in full or abbreviated: the comparison of bzf_compliance.cpp finds
\* each part of what is said in the canonical form of the whole transcript.
THEOREM CorrectReadbacks == ReadbackSpec => []CorrectIsAccepted
  <1>1. ReadbackInit => ReadbackInv
    BY DEF ReadbackInit, ReadbackInv, CorrectIsAccepted
  <1>2. ReadbackInv /\ [ReadbackNext]_readbackVars => ReadbackInv'
    <2> SUFFICES ASSUME ReadbackInv, [ReadbackNext]_readbackVars PROVE ReadbackInv'
      OBVIOUS
    <2>1. CASE Issue
      <3>1. outcome' = Waiting /\ comp = NoClearance
        BY <2>1 DEF Issue, ReadbackInv
      <3>2. Issued(comp')
        <4>1. PICK t \in Triggers, c \in Registrations, r \in IssuedRunways, q \in IssuedQnhs \union {<<>>} :
                comp' = [callsign |-> c, runway |-> r, qnh |-> q,
                         required |-> {e \in clearance_candidates(t) : e = "QNH" => q # <<>>}]
          BY <2>1 DEF Issue
        <4>2. "Callsign" \in clearance_candidates(t) /\ clearance_candidates(t) \subseteq {"Callsign"} \union Facts
          BY DEF clearance_candidates, Facts
        <4>3. QED BY <4>1, <4>2 DEF Issued
      <3>3. QED BY <3>1, <3>2 DEF ReadbackInv, CorrectIsAccepted, Issued
    <2>2. CASE Answer
      <3>1. Issued(comp) /\ comp' = comp /\ comp # NoClearance
        BY <2>2 DEF Answer, ReadbackInv
      <3>2. CorrectIsAccepted'
        BY <2>2, <3>1, CorrectStep
      <3>3. QED BY <3>1, <3>2 DEF ReadbackInv, Issued
    <2>3. CASE HeardOut
      <3>1. outcome' = Waiting /\ (comp' = NoClearance \/ comp' = comp)
        BY <2>3 DEF HeardOut
      <3>2. QED BY <3>1 DEF ReadbackInv, CorrectIsAccepted, Issued
    <2>4. CASE UNCHANGED readbackVars
      BY <2>4 DEF readbackVars, ReadbackInv, CorrectIsAccepted, Issued, Identified, expected_value
    <2>5. QED BY <2>1, <2>2, <2>3, <2>4 DEF ReadbackNext
  <1>3. ReadbackInv => CorrectIsAccepted
    BY DEF ReadbackInv
  <1>4. QED BY <1>1, <1>2, <1>3, PTL DEF ReadbackSpec
=============================================================================
