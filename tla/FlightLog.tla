------------------------------ MODULE FlightLog ------------------------------
(***************************************************************************)
(* The logbook: src/src/core/cross_country_log.cpp, one JSON document per  *)
(* flight, rewritten through a temporary file after every transmission     *)
(* that engine.cpp logs (cc_log).                                          *)
(*                                                                         *)
(* A path is <<filestamp, airports, n>>: the minute the flight was opened, *)
(* <<departure>> or <<departure, destination>>, and the number that keeps  *)
(* two flights of one minute apart.  A document carries the number of its  *)
(* flight, which the file does not: it is what the properties follow.      *)
(***************************************************************************)
EXTENDS Integers, Sequences, FiniteSets

CONSTANTS
    Entries,      \* transmissions: airport, intent, phase, idle, controlled,
                  \* outcome
    MaxWrites,    \* bound: transmissions logged
    MaxMinutes,   \* bound: minutes the clock shows
    MaxFaults     \* bound: crashes and failing file operations

UnknownField == "UNKNOWN"       \* sanitize_airport of an empty id

NoField == ""                   \* no destination yet

VARIABLES
    \* what the plugin holds in memory
    g_flight_open, g_force_new, g_was_airborne,
    g_departure_id, g_destination_id, g_flight_filestamp, g_flight_path,
    g_saw_initial_call, g_departure_controlled, g_flight,
    \* where write() is: "out", "flush" or "swap" (the two halves of flush_flight)
    writing,
    \* the file system and the clock
    disk, replaces, minute,
    \* bounds and history
    flights, writes, faults, failed

memory == <<g_flight_open, g_force_new, g_was_airborne, g_departure_id,
            g_destination_id, g_flight_filestamp, g_flight_path,
            g_saw_initial_call, g_departure_controlled, g_flight>>
log_vars == <<memory, writing, disk, replaces, minute, flights, writes,
              faults, failed>>

-----------------------------------------------------------------------------
(* Reading an entry.                                                       *)

is_airborne_phase(e) == e.phase = "airborne"

is_ground_phase(e) == e.phase = "ground"

is_departure_initial_call(e) == e.intent = "departure"

is_inbound_initial_call(e) == e.intent = "inbound"

is_any_initial_call(e) ==
    is_departure_initial_call(e) \/ is_inbound_initial_call(e)

\* sanitize_airport
sanitize_airport(id) == IF id = "" THEN UnknownField ELSE id

-----------------------------------------------------------------------------
(* The document.                                                           *)

\* entry_to_json keeps of an entry what the summary counts.
entry_to_json(e) == e.outcome

compute_summary(transmissions) ==
    LET Count(o) == Cardinality({i \in DOMAIN transmissions :
                                    transmissions[i] = o})
    IN  [transmissions |-> Len(transmissions),
         classified    |-> Count("classified"),
         unknown       |-> Count("unknown")]

NewDocument(flight) ==
    [flight |-> flight, destination |-> NoField, missing |-> FALSE,
     summary |-> compute_summary(<<>>), transmissions |-> <<>>]

-----------------------------------------------------------------------------
(* Files.                                                                  *)

file_exists(path) == path \in DOMAIN disk

AirportPart(departure, destination) ==
    IF destination = NoField THEN <<departure>>
                             ELSE <<departure, destination>>

\* Mutant: the name is not probed for.
pick_flight_path_unprobed(stamp, part, ignore) == <<stamp, part, 1>>

\* pick_flight_path: the first number whose file is not there yet, or is the
\* one that is being renamed away.
pick_flight_path(stamp, part, ignore) ==
    LET Free(n) == <<stamp, part, n>> = ignore
                   \/ ~file_exists(<<stamp, part, n>>)
    IN  <<stamp, part, CHOOSE n \in 1..(Cardinality(DOMAIN disk) + 1) :
              Free(n) /\ \A k \in 1..(n - 1) : ~Free(k)>>

\* The disk after "from" was renamed to "to", replacing it.
Renamed(from, to) ==
    [p \in (DOMAIN disk \ {from}) \cup {to} |->
        IF p = to THEN disk[from] ELSE disk[p]]

\* std::rename does its work, or not: there is no such file, or the disk
\* refuses.  POSIX replaces an existing target, the Windows runtime does not.
CanRename(there, target) == there /\ (replaces \/ ~file_exists(target))

-----------------------------------------------------------------------------
(* write(e), up to flush_flight.                                           *)

\* A departure call from IDLE on the ground starts a new flight once the open
\* one has flown; the force flag always does.
NeedNew(e) ==
    \/ ~g_flight_open \/ g_force_new
    \/ /\ g_was_airborne /\ e.idle
       /\ is_ground_phase(e) /\ is_departure_initial_call(e)

\* open_flight(e), or the flight that is open.
Opened(e) ==
    IF NeedNew(e)
    THEN [dep |-> sanitize_airport(e.airport), dest |-> NoField,
          stamp |-> minute,
          path |-> pick_flight_path(minute,
                       AirportPart(sanitize_airport(e.airport), NoField), <<>>),
          saw |-> FALSE, ctrl |-> e.controlled, airborne |-> FALSE,
          doc |-> NewDocument(flights + 1)]
    ELSE [dep |-> g_departure_id, dest |-> g_destination_id,
          stamp |-> g_flight_filestamp, path |-> g_flight_path,
          saw |-> g_saw_initial_call, ctrl |-> g_departure_controlled,
          airborne |-> g_was_airborne, doc |-> g_flight]

\* missing_initial_call is settled by the first airborne transmission.
Missing(f, saw, ctrl, e) ==
    IF ~f.airborne /\ is_airborne_phase(e) THEN ctrl /\ ~saw ELSE f.doc.missing

\* An inbound call to a field that is neither end of the flight so far.
NewDestination(f, e) ==
    /\ is_inbound_initial_call(e)
    /\ sanitize_airport(e.airport) \notin {UnknownField, f.dep, f.dest}

\* Mutant: the file stays under its former name.
rename_flight_file_path_only(from, to, before) ==
    failed' = before /\ UNCHANGED <<disk, faults>>

\* rename_flight_file is best effort: the path moves on even when the file
\* does not.  "before": a file operation of this flight has failed already.
rename_flight_file(from, to, before) ==
    \/ /\ from # to /\ CanRename(file_exists(from), to)
       /\ disk' = Renamed(from, to) /\ failed' = before /\ UNCHANGED faults
    \/ from = to /\ failed' = before /\ UNCHANGED <<disk, faults>>
    \/ /\ from # to /\ ~CanRename(file_exists(from), to)
       /\ failed' = (before \/ file_exists(from)) /\ UNCHANGED <<disk, faults>>
    \/ /\ from # to /\ faults < MaxFaults
       /\ faults' = faults + 1 /\ failed' = TRUE /\ UNCHANGED disk

write(e) ==
    /\ writing = "out" /\ writes < MaxWrites
    /\ writes' = writes + 1
    /\ LET f    == Opened(e)
           saw  == f.saw \/ is_any_initial_call(e)
           ctrl == IF f.airborne THEN f.ctrl ELSE f.ctrl \/ e.controlled
           dest == IF NewDestination(f, e) THEN sanitize_airport(e.airport)
                                           ELSE f.dest
           path == IF NewDestination(f, e)
                   THEN pick_flight_path(f.stamp, AirportPart(f.dep, dest),
                                         f.path)
                   ELSE f.path
           log  == Append(f.doc.transmissions, entry_to_json(e))
       IN  /\ g_departure_id' = f.dep /\ g_destination_id' = dest
           /\ g_flight_filestamp' = f.stamp /\ g_flight_path' = path
           /\ g_saw_initial_call' = saw /\ g_departure_controlled' = ctrl
           /\ g_was_airborne' = (f.airborne \/ is_airborne_phase(e))
           /\ g_flight' = [f.doc EXCEPT !.missing = Missing(f, saw, ctrl, e),
                                        !.destination = dest,
                                        !.transmissions = log,
                                        !.summary = compute_summary(log)]
           /\ flights' = f.doc.flight
           /\ rename_flight_file(f.path, path, failed /\ ~NeedNew(e))
    /\ g_flight_open' = TRUE /\ g_force_new' = FALSE
    /\ writing' = "flush"
    /\ UNCHANGED <<replaces, minute>>

\* flush_flight, first half: the temporary file is written, or cannot be.
FlushTemporary ==
    /\ writing = "flush"
    /\ \/ writing' = "swap" /\ UNCHANGED <<faults, failed>>
       \/ /\ faults < MaxFaults
          /\ writing' = "out" /\ faults' = faults + 1 /\ failed' = TRUE
    /\ UNCHANGED <<memory, disk, replaces, minute, flights, writes>>

\* Second half: it takes the flight's name; nobody looks whether it did.
FlushSwap ==
    /\ writing = "swap"
    /\ writing' = "out"
    /\ \/ /\ CanRename(TRUE, g_flight_path)
          /\ disk' = [p \in DOMAIN disk \cup {g_flight_path} |->
                         IF p = g_flight_path THEN g_flight ELSE disk[p]]
          /\ UNCHANGED <<faults, failed>>
       \/ /\ ~CanRename(TRUE, g_flight_path)
          /\ failed' = TRUE /\ UNCHANGED <<disk, faults>>
       \/ /\ faults < MaxFaults
          /\ faults' = faults + 1 /\ failed' = TRUE /\ UNCHANGED disk
    /\ UNCHANGED <<memory, replaces, minute, flights, writes>>

\* begin_new_flight: the New Flight button, an airport or aircraft loaded.
begin_new_flight ==
    /\ writing = "out" /\ g_flight_open /\ ~g_force_new
    /\ g_force_new' = TRUE
    /\ UNCHANGED <<g_flight_open, g_was_airborne, g_departure_id,
                   g_destination_id, g_flight_filestamp, g_flight_path,
                   g_saw_initial_call, g_departure_controlled, g_flight,
                   writing, disk, replaces, minute, flights, writes, faults,
                   failed>>

\* The clock shows the next minute (external).
NextMinute ==
    /\ minute < MaxMinutes
    /\ minute' = minute + 1
    /\ UNCHANGED <<memory, writing, disk, replaces, flights, writes, faults,
                   failed>>

\* The simulator ends, whatever write() was doing, and is started again.
SimulatorRestarts ==
    /\ faults < MaxFaults /\ faults' = faults + 1
    /\ g_flight_open' = FALSE /\ g_force_new' = FALSE /\ g_was_airborne' = FALSE
    /\ g_departure_id' = NoField /\ g_destination_id' = NoField
    /\ g_flight_filestamp' = 0 /\ g_flight_path' = <<>>
    /\ g_saw_initial_call' = FALSE /\ g_departure_controlled' = FALSE
    /\ g_flight' = NewDocument(0)
    /\ writing' = "out" /\ failed' = FALSE
    /\ UNCHANGED <<disk, replaces, minute, flights, writes>>

LogInit ==
    /\ g_flight_open = FALSE /\ g_force_new = FALSE /\ g_was_airborne = FALSE
    /\ g_departure_id = NoField /\ g_destination_id = NoField
    /\ g_flight_filestamp = 0 /\ g_flight_path = <<>>
    /\ g_saw_initial_call = FALSE /\ g_departure_controlled = FALSE
    /\ g_flight = NewDocument(0)
    /\ writing = "out" /\ disk = [p \in {} |-> NewDocument(0)]
    /\ replaces \in BOOLEAN /\ minute = 1
    /\ flights = 0 /\ writes = 0 /\ faults = 0 /\ failed = FALSE

LogNext ==
    \/ \E e \in Entries : write(e)
    \/ FlushTemporary
    \/ FlushSwap
    \/ begin_new_flight
    \/ NextMinute
    \/ SimulatorRestarts

LogSpec == LogInit /\ [][LogNext]_log_vars

-----------------------------------------------------------------------------
(* Properties.                                                             *)

\* No flight ever leaves the logbook or loses a transmission there: a second
\* flight of the same minute, a rename to the destination's name, a refused
\* file operation or a crash between two of them overwrite nobody's file.
NoFlightOverwritten ==
    [][\A p \in DOMAIN disk : \E q \in DOMAIN disk' :
          /\ disk'[q].flight = disk[p].flight
          /\ disk'[q].summary.transmissions >= disk[p].summary.transmissions
      ]_log_vars

\* Between two transmissions the open flight's file is up to date under its
\* current name, and no copy under a former name is left behind, unless a
\* file operation was refused.
LogComplete ==
    writing = "out" /\ g_flight_open /\ ~failed =>
        /\ file_exists(g_flight_path)
        /\ disk[g_flight_path] = g_flight
        /\ \A p \in DOMAIN disk \ {g_flight_path} :
               disk[p].flight # g_flight.flight

=============================================================================
