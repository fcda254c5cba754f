---------------------------- MODULE GatewayReports ----------------------------
(***************************************************************************)
(* Access logs of the API gateway (modules/aws_api_gw.py,                  *)
(* api_gateway/projection.py, connectors/aws_api_gw_sqs.py) for one client *)
(* address.  A line becomes several events; the one of every request is    *)
(* not stored and only says that the address was seen.  An address, a      *)
(* client of the RDS proxy and an address of a database user are told as   *)
(* new in the same way (rds/projection.py).  Several threads drain the     *)
(* queue; a line comes in any order and any number of times.               *)
(***************************************************************************)
EXTENDS FiniteSets, Integers, Sequences

CONSTANTS
    LogLine,       \* 1, 2, ...
    Drainer,       \* threads inside ingest_payload
    BurstLevel,    \* AUTH_BURST_THRESHOLD, ERROR_BURST_THRESHOLD
    BurstSpan,     \* the WINDOW_MINUTES of either
    LastMinute,    \* bound: time
    MaxCuts        \* bound: faults

ASSUME GatewayAssumption ==
    /\ IsFiniteSet(LogLine)
    /\ BurstLevel \in Nat \ {0} /\ BurstSpan \in Nat /\ LastMinute \in Nat /\ MaxCuts \in Nat

VARIABLES
    accessLog,    \* the lines
    known,     \* the address has a row in api_sources
    kept,      \* failures in the events table
    turn,      \* what each drain is at
    tellings,  \* the alerts in the events table
    lapses,
    newUntold,    \* the row was made by a drain that then died (ghost)
    orderly    \* each failure was counted before the next was stored, none was
               \* stored after a later one, and no count failed (ghost)

gatewayVars == <<accessLog, known, kept, turn, tellings, lapses, newUntold, orderly>>

Faulty == {"refused", "broken"}   \* 401 and 403; 5xx

(* _derive_events: other statuses of clients are only requests.            *)
EventsOf(l) == IF accessLog[l].status \in Faulty THEN <<"request", accessLog[l].status>> ELSE <<"request">>

NoTurn == [line |-> {}, next |-> 1, doing |-> "starts"]

GatewayTypeOK ==
    /\ accessLog \in [LogLine -> [minute : 1..LastMinute, status : Faulty \cup {"other"}]]
    /\ kept \subseteq LogLine
    /\ turn \in [Drainer -> [line : {x \in SUBSET LogLine : Cardinality(x) <= 1}, next : 1..2,
                             doing : {"starts", "tells new", "counts", "tells burst"}]]
    /\ tellings \subseteq (Faulty \cup {"new"}) \X (0..LastMinute)
    /\ lapses \in 0..MaxCuts /\ {known, newUntold, orderly} \subseteq BOOLEAN

GatewayRests(lines) ==
    /\ accessLog = lines /\ known = FALSE /\ kept = {} /\ tellings = {}
    /\ turn = [d \in Drainer |-> NoTurn] /\ lapses = 0 /\ newUntold = FALSE /\ orderly = TRUE

(* Lines are named in the order of their time.                            *)
GatewayInit ==
    \E lines \in [LogLine -> [minute : 1..LastMinute, status : Faulty \cup {"other"}]] :
       /\ \A l \in LogLine : /\ l = 1 => lines[l].minute = 1
                             /\ \A k \in 1..l : lines[k].minute <= lines[l].minute
       /\ GatewayRests(lines)

-----------------------------------------------------------------------------
DrainerSlips == lapses < MaxCuts /\ lapses' = lapses + 1

LineOf(d) == CHOOSE l \in LogLine : turn[d].line = {l}

(* The next event of the line, or the end of the message.                  *)
Proceeds(d) ==
    turn' = [turn EXCEPT ![d] =
               IF turn[d].next = Len(EventsOf(LineOf(d))) THEN NoTurn
               ELSE [line |-> turn[d].line, next |-> turn[d].next + 1, doing |-> "starts"]]

Does(d, what) == turn' = [turn EXCEPT ![d].doing = what]

Receives(d, l) ==
    /\ turn[d] = NoTurn
    /\ turn' = [turn EXCEPT ![d].line = {l}]
    /\ UNCHANGED <<accessLog, known, kept, tellings, lapses, newUntold, orderly>>

Doing(d, what) == turn[d].line # {} /\ turn[d].doing = what
Event(d)     == EventsOf(LineOf(d))[turn[d].next]

(* The upsert of the row returns whether it was inserted, and only then is *)
(* there something to tell.                                                *)
Inserted      == ~known
NewlyKnown(d) == IF Inserted THEN Does(d, "tells new") ELSE Proceeds(d)

SourceRecorded(d) ==
    /\ Doing(d, "starts") /\ Event(d) = "request"
    /\ known' = TRUE /\ NewlyKnown(d)
    /\ UNCHANGED <<accessLog, kept, tellings, lapses, newUntold, orderly>>

SourceTold(d) ==
    /\ Doing(d, "tells new")
    /\ tellings' = tellings \cup {<<"new", 0>>} /\ Proceeds(d)
    /\ UNCHANGED <<accessLog, known, kept, lapses, newUntold, orderly>>

(* The event itself, once by its event_id.                                 *)
Counting == \E d \in Drainer : turn[d].doing = "counts"

FailureKept(d) ==
    /\ Doing(d, "starts") /\ Event(d) # "request"
    /\ kept' = kept \cup {LineOf(d)} /\ Does(d, "counts")
    /\ orderly' = (orderly /\ ~Counting
                   /\ \A l \in kept : accessLog[l].minute <= accessLog[LineOf(d)].minute)
    /\ UNCHANGED <<accessLog, known, tellings, lapses, newUntold>>

(* _detect_auth_burst, _detect_error_burst: query_events has no upper end, *)
(* and the burst is told at the threshold exactly.  Mutant: above it.      *)
Recent(d)      == {l \in kept : /\ accessLog[l].status = Event(d)
                                /\ accessLog[l].minute >= accessLog[LineOf(d)].minute - BurstSpan}
IsPeakAbove(n) == n = BurstLevel + 1
IsPeak(n)      == n = BurstLevel

FailuresCounted(d) ==
    /\ Doing(d, "counts")
    /\ IF IsPeak(Cardinality(Recent(d))) THEN Does(d, "tells burst") ELSE Proceeds(d)
    /\ UNCHANGED <<accessLog, known, kept, tellings, lapses, newUntold, orderly>>

(* One alert for a minute.                                                 *)
BurstTold(d) ==
    /\ Doing(d, "tells burst")
    /\ tellings' = tellings \cup {<<Event(d), accessLog[LineOf(d)].minute>>} /\ Proceeds(d)
    /\ UNCHANGED <<accessLog, known, kept, lapses, newUntold, orderly>>

(* A statement of the projection raises: it answers that there is nothing  *)
(* to tell, and the message is deleted all the same.                       *)
ProjectionSkipped(d) ==
    /\ turn[d].line # {} /\ DrainerSlips
    /\ \/ turn[d].doing = "counts" /\ orderly' = FALSE
       \/ Doing(d, "starts") /\ Event(d) = "request" /\ UNCHANGED orderly
    /\ Proceeds(d)
    /\ UNCHANGED <<accessLog, known, kept, tellings, newUntold>>

(* The process ends, or storing an event raises: the message comes again.  *)
DrainerCut(d) ==
    /\ turn[d].line # {} /\ DrainerSlips
    /\ turn' = [turn EXCEPT ![d] = NoTurn]
    /\ newUntold' = (newUntold \/ turn[d].doing = "tells new")
    /\ orderly' = (orderly /\ turn[d].doing \notin {"counts", "tells burst"})
    /\ UNCHANGED <<accessLog, known, kept, tellings>>

GatewayNext ==
    \E d \in Drainer :
      \/ \E l \in LogLine : Receives(d, l)
      \/ SourceRecorded(d) \/ SourceTold(d) \/ FailureKept(d)
      \/ FailuresCounted(d) \/ BurstTold(d)
      \/ ProjectionSkipped(d) \/ DrainerCut(d)

GatewaySpec == GatewayInit /\ [][GatewayNext]_gatewayVars

-----------------------------------------------------------------------------
(* An address with a row was told as new, except when the drain that made  *)
(* the row died before it told: the next sighting finds the row.  As long  *)
(* as failures are stored and counted one at a time and in their order, a  *)
(* burst is told by its threshold and not before it, and otherwise never   *)
(* without as many failures since the start of its window.                 *)
KeptWithin(s, from, to) == {l \in kept : accessLog[l].status = s /\ accessLog[l].minute \in from..to}

GatewayTold ==
    (\A d \in Drainer : turn[d] = NoTurn) =>
       /\ known => <<"new", 0>> \in tellings \/ newUntold
       /\ \A s \in Faulty, m \in 1..LastMinute :
             /\ <<s, m>> \in tellings =>
                   Cardinality(KeptWithin(s, m - BurstSpan, IF orderly THEN m ELSE LastMinute)) >= BurstLevel
             /\ orderly /\ Cardinality(KeptWithin(s, m - BurstSpan, m)) >= BurstLevel =>
                   \E n \in 1..m : <<s, n>> \in tellings
=============================================================================
