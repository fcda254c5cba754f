---------------------------- MODULE IngestPipeline ----------------------------
(***************************************************************************)
(* The path of a queued payload: the SQS drains (connectors/aws_sqs.py and *)
(* its copies), pipeline.ingest_payload with _process, the insert-once of  *)
(* storage.insert_event, the UEBA first-seen check and one projection, the *)
(* VPN server's liveness.                                                  *)
(*                                                                         *)
(* A Worker is a thread inside drain().  The queue delivers at least once: *)
(* a message comes back when its visibility timeout ends, whether or not a *)
(* worker is still busy with it.  A batch is a single message here: the    *)
(* deletion at the end of a batch is a step of its own anyway.  Events are *)
(* either lines, which are stored under a deterministic event_id, or       *)
(* telemetry, which only feeds the projection.                             *)
(***************************************************************************)
EXTENDS Integers, Sequences, FiniteSets

CONSTANTS
    Worker,     \* threads draining the queue
    Message,    \* messages put on the queue
    Lines,      \* events with a deterministic event_id
    Content,    \* the events the adapter finds in each message
    Reading,    \* telemetry, and whether it reports the service up or down
    Poison,     \* messages the adapter cannot parse
    Baselined,  \* lines that show the one (principal, value) followed here
    When,       \* the event_time of a line
    Known,      \* when the principal may have been seen before, with other values
    WarmUp,     \* warm_up_days, in the unit of When
    Mutable,    \* lines an operator mutes and unmutes
    MaxTrouble  \* bound: failing calls and restarts in a behaviour

Telemetry == DOMAIN Reading

ASSUME PipelineAssumption ==
    /\ Content \in [Message -> Seq(Lines \cup Telemetry)]
    /\ Reading \in [Telemetry -> {"up", "down"}]
    /\ Lines \cap Telemetry = {}
    /\ Poison \subseteq Message
    /\ Baselined \subseteq Lines /\ Mutable \subseteq Lines
    /\ When \in [Lines -> Nat \ {0}] /\ WarmUp \in Nat
    /\ Known \subseteq Nat \ {0}
    /\ MaxTrouble \in Nat
    /\ 0 \notin Message

Never  == 0                          \* no principal_first_seen row
None   == 0                          \* a worker with no message
Health == {"unknown", "up", "down"}  \* unknown: no vpn_status row, no alert yet

VARIABLES
    queue,     \* visible, hidden from receivers for a while, or deleted
    pc,        \* where each worker is
    msg,       \* the message a worker is ingesting
    pos,       \* the index of the event it is at
    prev,      \* the vpn_status row its projection read
    rows,      \* event_ids in the events table
    sent,      \* how often each line was handed to the notifier
    first,     \* principal_first_seen.first_ever
    seen,      \* principal_baseline.count of the value
    anomalies, \* first-seen anomaly events stored
    active,    \* vpn_status.active
    alert,     \* the newest stored transition event (vpn.service.up or down)
    muted,     \* lines on the mute list
    dropped,   \* lines that were dropped as muted (ghost)
    trouble    \* failing calls and restarts so far

workVars == <<pc, msg, pos, prev>>
uebaVars == <<first, seen, anomalies>>
projVars == <<active, alert>>
muteVars == <<muted, dropped>>
vars == <<queue, workVars, rows, sent, uebaVars, projVars, muteVars, trouble>>

Stage == {"idle", "event", "dispatch", "first", "upsert", "count", "anomaly",
          "write", "derived", "delete"}

TypeOK ==
    /\ queue \in [Message -> {"visible", "hidden", "deleted"}]
    /\ pc \in [Worker -> Stage]
    /\ msg \in [Worker -> Message \cup {None}]
    /\ pos \in [Worker -> Nat \ {0}]
    /\ prev \in [Worker -> Health]
    /\ rows \subseteq Lines
    /\ sent \in [Lines -> Nat]
    /\ first \in {Never} \cup Known \cup {When[e] : e \in Lines}
    /\ seen \in Nat
    /\ anomalies \in Nat
    /\ active \in Health
    /\ alert \in Health
    /\ muted \subseteq Mutable
    /\ dropped \subseteq Lines
    /\ trouble \in 0..MaxTrouble

Init ==
    /\ queue = [m \in Message |-> "visible"]
    /\ pc = [w \in Worker |-> "idle"]
    /\ msg = [w \in Worker |-> None]
    /\ pos = [w \in Worker |-> 1]
    /\ prev = [w \in Worker |-> "unknown"]
    /\ rows = {}
    /\ sent = [e \in Lines |-> 0]
    /\ first \in {Never} \cup Known
    /\ seen = 0
    /\ anomalies = 0
    /\ active = "unknown"
    /\ alert = "unknown"
    /\ muted = {}
    /\ dropped = {}
    /\ trouble = 0

-----------------------------------------------------------------------------
(* Helpers *)

InMessage(w) == pos[w] <= Len(Content[msg[w]])
Event(w)     == Content[msg[w]][pos[w]]
AtLine(w)    == InMessage(w) /\ Event(w) \in Lines
AtReading(w) == InMessage(w) /\ Event(w) \in Telemetry

Goto(w, stage) == pc' = [pc EXCEPT ![w] = stage] /\ UNCHANGED <<msg, pos, prev>>

(* The next event of the message. *)
Advance(w) == /\ pc' = [pc EXCEPT ![w] = "event"]
              /\ pos' = [pos EXCEPT ![w] = @ + 1]
              /\ prev' = [prev EXCEPT ![w] = "unknown"]
              /\ UNCHANGED msg

(* ingest_payload is over for this message. *)
Leave(w) == /\ pc' = [pc EXCEPT ![w] = "idle"]
            /\ msg' = [msg EXCEPT ![w] = None]
            /\ pos' = [pos EXCEPT ![w] = 1]
            /\ prev' = [prev EXCEPT ![w] = "unknown"]

(* A call of storage or of the queue service raises. *)
Trouble == trouble < MaxTrouble /\ trouble' = trouble + 1

-----------------------------------------------------------------------------
(* The queue *)

Receive(w, m) ==
    /\ pc[w] = "idle"
    /\ queue[m] = "visible"
    /\ queue' = [queue EXCEPT ![m] = "hidden"]
    /\ pc' = [pc EXCEPT ![w] = "event"]
    /\ msg' = [msg EXCEPT ![w] = m]
    /\ UNCHANGED <<pos, prev, rows, sent, uebaVars, projVars, muteVars, trouble>>

VisibilityEnds(m) ==
    /\ queue[m] = "hidden"
    /\ queue' = [queue EXCEPT ![m] = "visible"]
    /\ UNCHANGED <<workVars, rows, sent, uebaVars, projVars, muteVars, trouble>>

(* The adapter raises NormalizationError; the message is left alone. *)
Reject(w) ==
    /\ pc[w] = "event"
    /\ msg[w] \in Poison
    /\ Leave(w)
    /\ UNCHANGED <<queue, rows, sent, uebaVars, projVars, muteVars, trouble>>

(* Every event was ingested: the message goes on the list of deletions.    *)
Ingested(w) ==
    /\ pc[w] = "event"
    /\ msg[w] \notin Poison
    /\ ~InMessage(w)
    /\ Goto(w, "delete")
    /\ UNCHANGED <<queue, rows, sent, uebaVars, projVars, muteVars, trouble>>

Delete(w) ==
    /\ pc[w] = "delete"
    /\ queue' = [queue EXCEPT ![msg[w]] = "deleted"]
    /\ Leave(w)
    /\ UNCHANGED <<rows, sent, uebaVars, projVars, muteVars, trouble>>

DeleteFails(w) ==
    /\ pc[w] = "delete"
    /\ Trouble
    /\ Leave(w)
    /\ UNCHANGED <<queue, rows, sent, uebaVars, projVars, muteVars>>

-----------------------------------------------------------------------------
(* _process *)

Drop(w) ==
    /\ pc[w] = "event" /\ msg[w] \notin Poison
    /\ AtLine(w)
    /\ Event(w) \in muted
    /\ dropped' = dropped \cup {Event(w)}
    /\ Advance(w)
    /\ UNCHANGED <<queue, rows, sent, uebaVars, projVars, muted, trouble>>

Storable(w) == /\ pc[w] = "event" /\ msg[w] \notin Poison
               /\ AtLine(w)
               /\ Event(w) \notin muted

(* insert_event: INSERT ... ON CONFLICT (event_id) DO NOTHING RETURNING.   *)
(* Mutants: every insert counts as new; a conflict raises.                 *)
InsertAlwaysNew(w) ==
    /\ Storable(w)
    /\ rows' = rows \cup {Event(w)}
    /\ Goto(w, "dispatch")
    /\ UNCHANGED <<queue, sent, uebaVars, projVars, muteVars, trouble>>

InsertRaisesConflict(w) ==
    /\ Storable(w)
    /\ rows' = rows \cup {Event(w)}
    /\ \/ Event(w) \in rows /\ Leave(w)
       \/ Event(w) \notin rows /\ Goto(w, "dispatch")
    /\ UNCHANGED <<queue, sent, uebaVars, projVars, muteVars, trouble>>

Insert(w) ==
    /\ Storable(w)
    /\ rows' = rows \cup {Event(w)}
    /\ \/ Event(w) \in rows /\ Advance(w)
       \/ Event(w) \notin rows /\ Goto(w, "dispatch")
    /\ UNCHANGED <<queue, sent, uebaVars, projVars, muteVars, trouble>>

(* The insert raises: nothing catches it before the drain, which leaves    *)
(* the message on the queue.  Mutant: caught where the projections' errors *)
(* are.                                                                    *)
InsertErrorCaught(w) ==
    /\ Storable(w)
    /\ Trouble
    /\ Advance(w)
    /\ UNCHANGED <<queue, rows, sent, uebaVars, projVars, muteVars>>

InsertFails(w) ==
    /\ Storable(w)
    /\ Trouble
    /\ Leave(w)
    /\ UNCHANGED <<queue, rows, sent, uebaVars, projVars, muteVars>>

(* The notifier queues in memory and never raises. *)
Dispatch(w) ==
    /\ pc[w] = "dispatch"
    /\ sent' = [sent EXCEPT ![Event(w)] = @ + 1]
    /\ \/ Event(w) \in Baselined /\ Goto(w, "first")
       \/ Event(w) \notin Baselined /\ Advance(w)
    /\ UNCHANGED <<queue, rows, uebaVars, projVars, muteVars, trouble>>

-----------------------------------------------------------------------------
(* ueba.check_event: any error in it is swallowed *)

(* get_or_create_first_seen; mutant: the warm-up is taken off here too. *)
FirstSeenBackdated(w) ==
    /\ pc[w] = "first"
    /\ first' = IF first = Never THEN When[Event(w)] - WarmUp ELSE first
    /\ Goto(w, "upsert")
    /\ UNCHANGED <<queue, rows, sent, seen, anomalies, projVars, muteVars, trouble>>

FirstSeen(w) ==
    /\ pc[w] = "first"
    /\ first' = IF first = Never THEN When[Event(w)] ELSE first
    /\ Goto(w, "upsert")
    /\ UNCHANGED <<queue, rows, sent, seen, anomalies, projVars, muteVars, trouble>>

(* upsert_baseline: the upsert, and then a SELECT of the count *)
Upsert(w) ==
    /\ pc[w] = "upsert"
    /\ seen' = seen + 1
    /\ Goto(w, "count")
    /\ UNCHANGED <<queue, rows, sent, first, anomalies, projVars, muteVars, trouble>>

Warm(w) == When[Event(w)] - first >= WarmUp

(* Mutant: any count above zero is a first sight. *)
CountPositive(w) ==
    /\ pc[w] = "count"
    /\ \/ seen >= 1 /\ Warm(w) /\ Goto(w, "anomaly")
       \/ ~(seen >= 1 /\ Warm(w)) /\ Advance(w)
    /\ UNCHANGED <<queue, rows, sent, uebaVars, projVars, muteVars, trouble>>

Count(w) ==
    /\ pc[w] = "count"
    /\ \/ seen = 1 /\ Warm(w) /\ Goto(w, "anomaly")
       \/ ~(seen = 1 /\ Warm(w)) /\ Advance(w)
    /\ UNCHANGED <<queue, rows, sent, uebaVars, projVars, muteVars, trouble>>

(* process_event of the anomaly: its event_id is fresh, the insert is new. *)
StoreAnomaly(w) ==
    /\ pc[w] = "anomaly"
    /\ anomalies' = anomalies + 1
    /\ Advance(w)
    /\ UNCHANGED <<queue, rows, sent, first, seen, projVars, muteVars, trouble>>

UebaFails(w) ==
    /\ pc[w] \in {"first", "upsert", "count", "anomaly"}
    /\ Trouble
    /\ Advance(w)
    /\ UNCHANGED <<queue, rows, sent, uebaVars, projVars, muteVars>>

-----------------------------------------------------------------------------
(* vpn_projection.project on a vpn.service.health reading *)

(* _service_transition: does the reading make an event? *)
Transition(was, is) == is # was /\ (is = "up" \/ was = "up")

ProjectRead(w) ==
    /\ pc[w] = "event" /\ msg[w] \notin Poison
    /\ AtReading(w)
    /\ prev' = [prev EXCEPT ![w] = active]
    /\ pc' = [pc EXCEPT ![w] = "write"]
    /\ UNCHANGED <<queue, msg, pos, rows, sent, uebaVars, projVars, muteVars, trouble>>

ProjectWrite(w) ==
    /\ pc[w] = "write"
    /\ active' = Reading[Event(w)]
    /\ \/ Transition(prev[w], Reading[Event(w)]) /\ Goto(w, "derived")
       \/ ~Transition(prev[w], Reading[Event(w)]) /\ Advance(w)
    /\ UNCHANGED <<queue, rows, sent, uebaVars, alert, muteVars, trouble>>

(* A projection that raises is noted in the summary and passed over. *)
ProjectionFails(w) ==
    /\ \/ pc[w] = "event" /\ msg[w] \notin Poison /\ AtReading(w)
       \/ pc[w] = "write"
    /\ Trouble
    /\ Advance(w)
    /\ UNCHANGED <<queue, rows, sent, uebaVars, projVars, muteVars>>

(* _process of the derived event, under a fresh event_id. *)
StoreDerived(w) ==
    /\ pc[w] = "derived"
    /\ alert' = Reading[Event(w)]
    /\ Advance(w)
    /\ UNCHANGED <<queue, rows, sent, uebaVars, active, muteVars, trouble>>

(* Its insert raises, out of ingest_payload: the row has changed, the event *)
(* is gone, the message will come again.                                   *)
StoreDerivedFails(w) ==
    /\ pc[w] = "derived"
    /\ Trouble
    /\ Leave(w)
    /\ UNCHANGED <<queue, rows, sent, uebaVars, projVars, muteVars>>

-----------------------------------------------------------------------------
(* The operator's mute list, and the process *)

Mute(e) ==
    /\ e \in Mutable
    /\ \/ muted' = muted \cup {e}
       \/ muted' = muted \ {e}
    /\ UNCHANGED <<queue, workVars, rows, sent, uebaVars, projVars, dropped, trouble>>

Restart ==
    /\ Trouble
    /\ pc' = [w \in Worker |-> "idle"]
    /\ pos' = [w \in Worker |-> 1]
    /\ prev' = [w \in Worker |-> "unknown"]
    /\ msg' = [w \in Worker |-> None]
    /\ UNCHANGED <<queue, rows, sent, uebaVars, projVars, muteVars>>

Proceed(w) == \/ Reject(w) \/ Ingested(w) \/ Delete(w)
              \/ Drop(w) \/ Insert(w) \/ Dispatch(w)
              \/ FirstSeen(w) \/ Upsert(w) \/ Count(w) \/ StoreAnomaly(w)
              \/ ProjectRead(w) \/ ProjectWrite(w) \/ StoreDerived(w)
Fail(w) == \/ DeleteFails(w) \/ InsertFails(w) \/ UebaFails(w)
           \/ ProjectionFails(w) \/ StoreDerivedFails(w)

Next == \/ \E w \in Worker, m \in Message : Receive(w, m)
        \/ \E m \in Message : VisibilityEnds(m)
        \/ \E w \in Worker : Proceed(w) \/ Fail(w)
        \/ \E e \in Mutable : Mute(e)
        \/ Restart

Spec == Init /\ [][Next]_vars

(* Workers run, the queue shows undeleted messages again, and the schedule *)
(* drains it often enough that no message is passed over for ever.         *)
Fairness == /\ \A w \in Worker : WF_vars(Proceed(w))
            /\ \A m \in Message : /\ WF_vars(VisibilityEnds(m))
                                  /\ SF_vars(\E w \in Worker : Receive(w, m))

FairSpec == Spec /\ Fairness

-----------------------------------------------------------------------------
(* Properties *)

(* However often a message is delivered, to however many workers at once,  *)
(* and however often its lines are shipped again in other messages, a line *)
(* is handed to the notifier at most once (_process: "otherwise one auth   *)
(* failure becomes 2-3 Slack pings").                                      *)
DispatchOnce == \A e \in Lines : sent[e] <= 1

(* A message leaves the queue only when each of its lines is stored or was *)
(* muted (aws_sqs: "deletes only the ones that ingested successfully").    *)
DeletedIsStored ==
    \A m \in Message : queue[m] = "deleted" =>
        \A i \in 1..Len(Content[m]) : Content[m][i] \in rows \cup dropped \cup Telemetry

(* A value is reported as first seen at most once (check_event: "replays   *)
(* of the same source event cannot fire a second anomaly").                *)
AnomalyOnce == anomalies <= 1

(* Every message the adapter can parse is ingested and deleted in the end. *)
MessagesLeave == <>(\A m \in Message \ Poison : queue[m] = "deleted")

(* Once every message is ingested and deleted, the newest transition event *)
(* tells the state of the service (pipeline.py: "The projection emits      *)
(* transition / diff events ... and THOSE are stored").                    *)
AlertTellsState ==
    (\A m \in Message : queue[m] = "deleted") /\ (\A w \in Worker : pc[w] = "idle") =>
        \/ alert = active
        \/ active = "down" /\ alert = "unknown"
=============================================================================
