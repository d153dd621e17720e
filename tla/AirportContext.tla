--------------------------- MODULE AirportContext ---------------------------
(***************************************************************************)
(* The airport the plugin believes it is talking to:                       *)
(* core/xplane_context.cpp and core/xplane_context_runtime.cpp.             *)
(*                                                                         *)
(* Actors: the flight loop, which calls update() in every frame and looks   *)
(* the airport up in every sixtieth; the detached thread that reads apt.dat *)
(* and fills the caches; the user, who locks an airport in the picker; the  *)
(* simulator, which moves the aircraft and the radio's frequency.           *)
(***************************************************************************)
EXTENDS Naturals, Sequences, FiniteSets, SequencesExt

CONSTANTS
    Airports,   \* ICAO ids in apt.dat
    Table,      \* airport -> sequence of [khz, type]: its frequency rows, in order
    WithRunway, \* airports that have a land runway, hence a position
    Places,     \* where the aircraft may be
    NearestAt,  \* place -> the airport XPLMFindNavAid returns, or NoAirport
    DistanceNm, \* place -> airport -> distance
    Tunings,    \* frequencies, in kHz, the active COM may be set to
    Throttle    \* frames between two look-ups: 60 in the code

NoAirport == "no airport"
FrequencyType == {"UNKNOWN", "DELIVERY", "GROUND", "TOWER", "UNICOM", "CTAF",
                  "ATIS", "INFO", "RADIO"}

ASSUME AirportAssumption ==
    /\ NoAirport \notin Airports
    /\ WithRunway \subseteq Airports
    /\ \A a \in Airports : \A i \in DOMAIN Table[a] :
         Table[a][i].khz \in Nat /\ Table[a][i].type \in FrequencyType
    /\ \A p \in Places : NearestAt[p] \in Airports \union {NoAirport}
    /\ Throttle \in Nat \ {0}

VARIABLES
    cache,     \* the thread: "building", "moving" the maps, "ready", "failed"
    place, on_ground, com_khz,            \* what the simulator reports
    counter,   \* frame_counter, modulo Throttle
    locked,    \* locked_airport_id_
    match,     \* cached_match_id, _freq_khz and _geom_id
    ctx        \* the airport fields of XPlaneContext

contextVars == <<cache, place, on_ground, com_khz, counter, locked, match, ctx>>

(***************************************************************************)
(* AirportFrequencies and the facility of an airport.                      *)
(***************************************************************************)

Near(khz, f) == khz - f \in {0, 1} \/ f - khz \in {0, 1}

has(table, type) == \E i \in DOMAIN table : table[i].type = type

priority_rank(t) == CASE t = "TOWER" -> 7 [] t = "GROUND" -> 6 [] t = "DELIVERY" -> 5
                      [] t \in {"INFO", "RADIO"} -> 4 [] t = "ATIS" -> 3
                      [] t = "CTAF" -> 2 [] t = "UNICOM" -> 1 [] OTHER -> 0

\* The type of the best-ranked row of that frequency.
lookup(table, khz) ==
    LET rows == {i \in DOMAIN table : Near(khz, table[i].khz)}
        best == {i \in rows : \A j \in rows :
                   priority_rank(table[i].type) >= priority_rank(table[j].type)}
    IN  IF rows = {} THEN "UNKNOWN" ELSE table[CHOOSE i \in best : TRUE].type

first_mhz(table, type) ==
    IF has(table, type)
    THEN table[CHOOSE i \in DOMAIN table :
                 table[i].type = type /\ \A j \in 1 .. i - 1 : table[j].type # type].khz
    ELSE 0

classify_facility(table) ==
    IF has(table, "TOWER") THEN "TOWERED"
    ELSE IF has(table, "INFO") \/ has(table, "RADIO") THEN "AFIS"
    ELSE IF has(table, "UNICOM") \/ has(table, "CTAF") THEN "UNCONTROLLED"
    ELSE "UNKNOWN"

has_contactable_atc(table) == classify_facility(table) # "UNKNOWN"

(***************************************************************************)
(* The caches.  Nothing but the ready flag orders the thread's moves before *)
(* the flight loop's look-ups.                                             *)
(***************************************************************************)

ready == cache \in {"ready", "failed"}
Cached(a) == IF cache = "ready" /\ a \in Airports THEN Table[a] ELSE <<>>
HasPosition(a) == cache = "ready" /\ a \in WithRunway

\* What freq_cache_.find may see: a map that another thread is moving into
\* shows the old or the new content.
Glimpses(a) == IF cache = "moving" /\ a \in Airports THEN {<<>>, Table[a]} ELSE {Cached(a)}

build_towered_cache ==
    /\ \/ cache = "building" /\ cache' \in {"moving", "failed"}
       \/ cache = "moving" /\ cache' = "ready"
    /\ UNCHANGED <<place, on_ground, com_khz, counter, locked, match, ctx>>

(***************************************************************************)
(* The look-up.                                                            *)
(***************************************************************************)

NoMatch == [id |-> NoAirport, khz |-> 0, geom |-> NoAirport]
EmptyContext == [geometric |-> NoAirport, nearest |-> NoAirport, freqs |-> <<>>,
                 facility |-> "UNKNOWN", tower_only |-> FALSE, atis |-> 0,
                 runways |-> NoAirport, freq_type |-> "UNKNOWN"]

ContextInit ==
    /\ cache = "building"
    /\ place \in Places /\ on_ground = TRUE /\ com_khz \in Tunings
    /\ counter = 0
    /\ locked = NoAirport
    /\ match = NoMatch
    /\ ctx = EmptyContext

\* The type of the first row of that frequency decides the range.
RangeNm(a, khz) ==
    LET row == CHOOSE i \in DOMAIN Table[a] :
                 Near(khz, Table[a][i].khz) /\ \A j \in 1 .. i - 1 : ~Near(khz, Table[a][j].khz)
    IN  IF Table[a][row].type = "ATIS" THEN 40 ELSE 20

Handles(a, khz) == \E i \in DOMAIN Cached(a) : Near(khz, Table[a][i].khz)

find_freq_match(skip, khz) ==
    LET hits == {a \in Airports \ {skip} :
                   /\ khz # 0 /\ HasPosition(a) /\ Handles(a, khz)
                   /\ DistanceNm[place][a] <= RangeNm(a, khz)}
    IN  IF hits = {} THEN NoAirport
        ELSE CHOOSE a \in hits : \A b \in hits : DistanceNm[place][a] <= DistanceNm[place][b]

\* Mutant: an airport without frequencies leaves those of the last one in place.
populate_keep_freqs(c, a) ==
    LET t == IF Cached(a) = <<>> THEN c.freqs ELSE Cached(a)
    IN  [c EXCEPT !.nearest = a, !.freqs = t, !.facility = classify_facility(t),
                  !.runways = IF HasPosition(a) THEN a ELSE NoAirport]

\* populate_ctx_from_cache, and the tail of update() once the caches are ready.
populate_ctx_from_cache(c, a) ==
    LET t == Cached(a)
    IN  [c EXCEPT !.nearest = a, !.freqs = t, !.facility = classify_facility(t),
                  !.tower_only = has(t, "TOWER") /\ ~has(t, "GROUND"),
                  !.atis = first_mhz(t, "ATIS"),
                  !.runways = IF HasPosition(a) THEN a ELSE NoAirport]

\* The frequency-driven switch and its cache: on the ground it is cleared, in
\* the air the scan runs again when the frequency or the nearest airport changed.
Rematch(g) ==
    IF on_ground THEN [id |-> NoAirport, khz |-> com_khz, geom |-> g]
    ELSE IF ready /\ (com_khz # match.khz \/ g # match.geom)
    THEN [id |-> IF Handles(g, com_khz) THEN NoAirport ELSE find_freq_match(g, com_khz),
          khz |-> com_khz, geom |-> g]
    ELSE match

\* A lock on an airport that has a position overrides everything else.
LookUpLocked(c) ==
    /\ locked # NoAirport /\ HasPosition(locked)
    /\ ctx' = populate_ctx_from_cache(
                IF NearestAt[place] = NoAirport THEN c
                ELSE [c EXCEPT !.geometric = NearestAt[place]], locked)
    /\ UNCHANGED match

LookUpNearest(c) ==
    LET g == NearestAt[place]
    IN  /\ ~(locked # NoAirport /\ HasPosition(locked))
        /\ g # NoAirport
        /\ match' = Rematch(g)
        /\ \E glimpse \in Glimpses(g) :
             LET active == IF match'.id # NoAirport THEN match'.id
                           ELSE IF has_contactable_atc(glimpse) THEN g
                           ELSE NoAirport
                 c1 == [c EXCEPT !.geometric = g]
             IN  ctx' = IF ready THEN populate_ctx_from_cache(c1, active)
                        ELSE [c1 EXCEPT !.nearest = active, !.facility = "UNKNOWN"]

\* No airport anywhere: the ATIS frequency of the last one stays.
LookUpNothing(c) ==
    /\ ~(locked # NoAirport /\ HasPosition(locked))
    /\ NearestAt[place] = NoAirport
    /\ ctx' = [EmptyContext EXCEPT !.atis = c.atis, !.freq_type = c.freq_type]
    /\ UNCHANGED match

\* The type of the tuned frequency, from the frequencies of the last look-up.
Tuned == [ctx EXCEPT !.freq_type = IF ready THEN lookup(ctx.freqs, com_khz) ELSE "UNKNOWN"]

\* update(): one frame of the flight loop.
PlainFrame ==
    /\ counter + 1 < Throttle
    /\ counter' = counter + 1
    /\ ctx' = Tuned
    /\ UNCHANGED <<cache, place, on_ground, com_khz, locked, match>>

LookUpFrame ==
    /\ counter + 1 = Throttle
    /\ counter' = 0
    /\ LookUpLocked(Tuned) \/ LookUpNearest(Tuned) \/ LookUpNothing(Tuned)
    /\ UNCHANGED <<cache, place, on_ground, com_khz, locked>>

(***************************************************************************)
(* The picker.                                                             *)
(***************************************************************************)

\* find_nearby_airports: the rows of the picker, within its radius of 40 NM.
find_nearby_airports ==
    {a \in Airports : HasPosition(a) /\ DistanceNm[place][a] <= 40 /\ has_contactable_atc(Cached(a))}

lock_airport(a) ==
    /\ a \in find_nearby_airports
    /\ locked' = a
    /\ ctx' = populate_ctx_from_cache(ctx, a)
    /\ UNCHANGED <<cache, place, on_ground, com_khz, counter, match>>

\* The next frame looks the airport up again.
unlock_airport ==
    /\ locked # NoAirport
    /\ locked' = NoAirport
    /\ counter' = Throttle - 1
    /\ UNCHANGED <<cache, place, on_ground, com_khz, match, ctx>>

\* The simulator: the aircraft moves, takes off or lands, the pilot tunes.
Simulate ==
    /\ \/ place' \in Places \ {place} /\ ~on_ground /\ UNCHANGED <<on_ground, com_khz>>
       \/ on_ground' = ~on_ground /\ UNCHANGED <<place, com_khz>>
       \/ com_khz' \in Tunings \ {com_khz} /\ UNCHANGED <<place, on_ground>>
    /\ UNCHANGED <<cache, counter, locked, match, ctx>>

ContextNext ==
    \/ PlainFrame \/ LookUpFrame \/ build_towered_cache \/ unlock_airport \/ Simulate
    \/ \E a \in Airports : lock_airport(a)

ContextSpec == ContextInit /\ [][ContextNext]_contextVars

(***************************************************************************)
(* Properties.                                                             *)
(***************************************************************************)

\* Types of the context.
ContextTypeOK ==
    /\ cache \in {"building", "moving", "ready", "failed"}
    /\ place \in Places /\ on_ground \in BOOLEAN /\ com_khz \in Tunings
    /\ counter \in 0 .. Throttle - 1
    /\ locked \in Airports \union {NoAirport}
    /\ match.id \in Airports \union {NoAirport}
    /\ ctx.nearest \in Airports \union {NoAirport}
    /\ ctx.freq_type \in FrequencyType

\* The context never mixes two airports: frequencies, facility and runways are
\* those of the active airport, or empty while the caches were not yet ready at
\* the last look-up, whatever path (lock, frequency match, nearest) chose it.
OneAirport ==
    /\ ctx.freqs # <<>> => ctx.nearest # NoAirport /\ ctx.freqs = Table[ctx.nearest]
    /\ ctx.facility = classify_facility(ctx.freqs)
    /\ ctx.runways \in {NoAirport, ctx.nearest}
=============================================================================
