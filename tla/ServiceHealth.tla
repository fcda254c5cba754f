----------------------------- MODULE ServiceHealth -----------------------------
(***************************************************************************)
(* ECS services: what a probe result does to a row of service_status and   *)
(* which event it derives (services/projection.py).  One service.  The     *)
(* projection reads the row, stores it anew and returns the event, which   *)
(* the pipeline stores afterwards, if it gets that far.  Drains of the     *)
(* queue may have two results of the service in hand at once.              *)
(***************************************************************************)
EXTENDS Integers

CONSTANTS
    Handler,        \* threads inside ingest_payload
    DownThreshold,  \* DOWN_THRESHOLD
    UpThreshold     \* UP_THRESHOLD

ASSUME ServiceAssumption == {DownThreshold, UpThreshold} \subseteq Nat \ {0, 1}

Failing  == {"down", "degraded"}
Statuses == Failing \cup {"up", "unknown"}
None     == "none"

VARIABLES
    service,   \* the row of service_status
    last,      \* the last result that is in the row (ghost)
    found,     \* the row and its last result as each handler read them
    derived,   \* an event of each handler that is not stored yet, and the
               \* last two results it goes back to (ghost)
    stage,     \* where each handler is
    alone,     \* no other handler was at work at the same time (ghost)
    told,      \* the last service event that was stored (ghost)
    untold,    \* an event after it was lost, or two were in hand at once (ghost)
    early      \* the last derived event came of the first result ever (ghost)

serviceVars == <<service, last, found, derived, stage, alone, told, untold, early>>

Row  == [status : Statuses \cup {None}, fails : 0..DownThreshold,
         succs : 0..UpThreshold, since : BOOLEAN, alerted : BOOLEAN]
Last == Statuses \cup {None}

NoRow    == [status |-> None, fails |-> 0, succs |-> 0, since |-> FALSE, alerted |-> FALSE]
NotFound == [row |-> NoRow, last |-> None]
NoTransition  == [says |-> None, of |-> <<None, None>>]

ServiceTypeOK ==
    /\ service \in Row /\ last \in Last
    /\ found \in [Handler -> [row : Row, last : Last]]
    /\ derived \in [Handler -> [says : Last, of : Last \X Last]]
    /\ stage \in [Handler -> {"idle", "read", "derived"}]
    /\ alone \in [Handler -> BOOLEAN]
    /\ told \in Last
    /\ untold \in BOOLEAN /\ early \in BOOLEAN
    /\ \A h \in Handler : stage[h] = "derived" <=> derived[h].says # None

ServiceInit ==
    /\ service = NoRow /\ last = None
    /\ found = [h \in Handler |-> NotFound] /\ derived = [h \in Handler |-> NoTransition]
    /\ stage = [h \in Handler |-> "idle"] /\ alone = [h \in Handler |-> FALSE]
    /\ told = None /\ untold = FALSE /\ early = FALSE

-----------------------------------------------------------------------------
(* service.probe.result *)

Capped(n, cap) == IF n < cap THEN n + 1 ELSE cap

(* The counters after result r: an unknown result resets both.             *)
Fails(row, r) == IF r \in Failing THEN Capped(row.fails, DownThreshold) ELSE 0
Succs(row, r) == IF r = "up" THEN Capped(row.succs, UpThreshold) ELSE 0

(* The status after hysteresis; ready: unknown for UNKNOWN_AFTER_SECONDS.  *)
(* Mutant: the first success is a recovery.                                *)
EffectiveAtOnce(row, r, ready) ==
    IF \/ r = "up"
       \/ r \in Failing /\ Fails(row, r) >= DownThreshold
       \/ r = "unknown" /\ ready
       \/ row.status = None
    THEN r ELSE row.status
Effective(row, r, ready) ==
    IF \/ r = "up" /\ Succs(row, r) >= UpThreshold
       \/ r \in Failing /\ Fails(row, r) >= DownThreshold
       \/ r = "unknown" /\ ready
       \/ row.status = None
    THEN r ELSE row.status

(* The event of the transition; a recovery pairs with an alert.            *)
Derives(row, eff, ready) ==
    LET emitsUnknown == eff = "unknown" /\ ready /\ ~row.alerted
        unpaired     == eff = "up" /\ row.status = "unknown" /\ ~row.alerted
    IN  IF (row.status # eff \/ emitsUnknown) /\ ~unpaired THEN eff ELSE None

Leaves(h) ==
    /\ stage' = [stage EXCEPT ![h] = "idle"]
    /\ found' = [found EXCEPT ![h] = NotFound]
    /\ alone' = [alone EXCEPT ![h] = FALSE]

(* _project_result reads the row,                                          *)
ResultReads(h) ==
    /\ stage[h] = "idle"
    /\ stage' = [stage EXCEPT ![h] = "read"]
    /\ found' = [found EXCEPT ![h] = [row |-> service, last |-> last]]
    /\ alone' = [g \in Handler |-> g = h /\ \A o \in Handler : stage[o] = "idle"]
    /\ UNCHANGED <<service, last, derived, told, untold, early>>

(* and puts another in its place.  The results come from a queue that      *)
(* keeps no order, so how long the service has been unknown is any time    *)
(* there was one.                                                          *)
ProbeResult(h, r, ready) ==
    LET row   == found[h].row
        since == row.since \/ r = "unknown"
        eff   == Effective(row, r, ready)
        keeps == r = "unknown" \/ eff = "unknown"
        says  == Derives(row, eff, ready)
    IN  /\ stage[h] = "read"
        /\ ready => row.since
        /\ service' = [status |-> eff, fails |-> Fails(row, r), succs |-> Succs(row, r),
                       since |-> keeps /\ since, alerted |-> keeps /\ (row.alerted \/ ready)]
        /\ last' = r
        /\ IF says = None THEN Leaves(h) /\ UNCHANGED <<derived, early>>
           ELSE /\ stage' = [stage EXCEPT ![h] = "derived"]
                /\ derived' = [derived EXCEPT ![h] = [says |-> says, of |-> <<found[h].last, r>>]]
                /\ found' = [found EXCEPT ![h] = NotFound]
                /\ early' = (row.status = None)
                /\ UNCHANGED alone
        /\ untold' = (untold \/ ~alone[h])
        /\ UNCHANGED told

(* ingest_payload stores the derived event,                                *)
TransitionStored(h) ==
    /\ stage[h] = "derived" /\ Leaves(h)
    /\ told' = derived[h].says /\ untold' = ~alone[h]
    /\ derived' = [derived EXCEPT ![h] = NoTransition]
    /\ UNCHANGED <<service, last, early>>

(* or it is lost: the process ends or the insert fails; the redelivered    *)
(* result finds the row as it left it.                                     *)
TransitionLost(h) ==
    /\ stage[h] = "derived" /\ Leaves(h)
    /\ untold' = TRUE
    /\ derived' = [derived EXCEPT ![h] = NoTransition]
    /\ UNCHANGED <<service, last, told, early>>

(* The handler ends before it stored the row: the result comes again.      *)
ResultFails(h) ==
    /\ stage[h] = "read" /\ Leaves(h)
    /\ UNCHANGED <<service, last, derived, told, untold, early>>

ServiceNext ==
    \E h \in Handler :
        \/ ResultReads(h) \/ ResultFails(h) \/ TransitionStored(h) \/ TransitionLost(h)
        \/ \E r \in Statuses, ready \in BOOLEAN : ProbeResult(h, r, ready)

ServiceSpec == ServiceInit /\ [][ServiceNext]_serviceVars

-----------------------------------------------------------------------------
(* Properties *)

(***************************************************************************)
(* What is said of a service is borne out and kept (_project_result).      *)
(* Hysteresis: once a service is known, no event tells of a state that the *)
(* last two results in its row do not both bear out; the thresholds are    *)
(* two, and the first result ever is taken as it is.  And what was last    *)
(* said is what the row says, unless the event was lost or two results     *)
(* were in hand at once, and one wrote over the other's row: over any      *)
(* chain of unknown results, each alert is followed by the recovery or the *)
(* next alert.  One exception: a service whose first result was unknown is *)
(* reported at once, and then comes up in silence, because unknown_alerted *)
(* only counts the ten-minute rule.                                        *)
(***************************************************************************)
SustainedOnly ==
    \A h \in Handler :
        LET says == derived[h].says
            two  == derived[h].of
        IN  stage[h] = "derived" /\ two[1] # None =>
                /\ says = "up" => two = <<"up", "up">>
                /\ says \in Failing => two[1] \in Failing /\ two[2] = says

ToldIsStored ==
    (\A h \in Handler : stage[h] = "idle") /\ ~untold =>
        \/ told = service.status
        \/ told = "unknown" /\ service.status = "up" /\ early

ServiceTold == SustainedOnly /\ ToldIsStored
=============================================================================
