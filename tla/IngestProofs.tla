----------------------------- MODULE IngestProofs -----------------------------
(***************************************************************************)
(* IngestPipeline's invariants hold for any number of workers, messages    *)
(* and lines, any overlap of the messages and any number of failing calls. *)
(***************************************************************************)
EXTENDS IngestPipeline, TLAPS

WorkerTypes == /\ pc \in [Worker -> Stage] /\ prev \in [Worker -> Health]
               /\ msg \in [Worker -> Message \cup {None}]
               /\ pos \in [Worker -> Nat \ {0}]

AtStored == {"dispatch", "first", "upsert", "count", "anomaly"}

(* Where a worker is tells what it holds: the stages after the insert are   *)
(* reached with a stored line only, the projection's with a reading, and    *)
(* the deletion with no event left.                                         *)
Placed ==
    \A w \in Worker :
        /\ IF pc[w] = "idle" THEN pos[w] = 1 ELSE msg[w] \in Message
        /\ pc[w] \in AtStored => AtLine(w) /\ Event(w) \in rows
        /\ pc[w] \in {"write", "derived"} => AtReading(w)
        /\ pc[w] = "delete" => ~InMessage(w)

(* Nothing behind a worker's position is lost, and it stays so once the     *)
(* message is deleted.                                                      *)
Accounted(e) == e \in rows \cup dropped \cup Telemetry

Behind ==
    \A w \in Worker : pc[w] # "idle" =>
        \A i \in 1..Len(Content[msg[w]]) : i < pos[w] => Accounted(Content[msg[w]][i])

(* A line is new to one insert only: the worker that made the row is the    *)
(* only one on its way to the notifier with it, and goes there once.        *)
OneNotice ==
    /\ \A w \in Worker : pc[w] = "dispatch" => sent[Event(w)] = 0
    /\ \A v, w \in Worker :
         pc[v] = "dispatch" /\ pc[w] = "dispatch" /\ v # w => Event(v) # Event(w)
    /\ \A e \in Lines : sent[e] <= 1 /\ (sent[e] = 1 => e \in rows)

(* The workers that may still report the value as first seen: there is one  *)
(* at most, and none after the report.                                      *)
Claims(w) == pc[w] = "anomaly" \/ (pc[w] = "count" /\ seen = 1)

OneClaim ==
    /\ seen = 0 => anomalies = 0 /\ \A w \in Worker : pc[w] \notin {"count", "anomaly"}
    /\ \A v, w \in Worker : Claims(v) /\ Claims(w) => v = w
    /\ (\E w \in Worker : Claims(w)) => anomalies = 0
    /\ anomalies <= 1

-----------------------------------------------------------------------------

(* The state is of the types declared, and a worker at each stage of        *)
(* ingest_payload holds what the code there takes for granted.              *)
THEOREM TypeCorrect == Spec => [](TypeOK /\ Placed)
<1>1. Init => TypeOK /\ Placed
  BY PipelineAssumption DEF Init, TypeOK, Placed, AtStored, Stage, Health, Never,
     None
<1>2. TypeOK /\ Placed /\ [Next]_vars => (TypeOK /\ Placed)'
  <2>. SUFFICES ASSUME TypeOK, Placed, [Next]_vars
                PROVE  TypeOK' /\ Placed'
    OBVIOUS
  <2>t. /\ pc \in [Worker -> Stage] /\ pos \in [Worker -> Nat \ {0}]
        /\ msg \in [Worker -> Message \cup {None}] /\ rows \subseteq Lines
        /\ sent \in [Lines -> Nat] /\ seen \in Nat /\ anomalies \in Nat
    BY DEF TypeOK
  <2>w. WorkerTypes
    BY DEF TypeOK, WorkerTypes
  <2>a. ASSUME NEW w \in Worker, Advance(w)
        PROVE  WorkerTypes'
    BY <2>w, <2>a DEF WorkerTypes, Advance, Stage, Health
  <2>g. ASSUME NEW w \in Worker, NEW stage \in Stage, Goto(w, stage)
        PROVE  WorkerTypes'
    BY <2>w, <2>g DEF WorkerTypes, Goto
  <2>l. ASSUME NEW w \in Worker, Leave(w)
        PROVE  WorkerTypes'
    BY <2>w, <2>l DEF WorkerTypes, Leave, Stage, Health, None
  <2>1. ASSUME NEW w \in Worker, NEW m \in Message, Receive(w, m)
         PROVE  TypeOK' /\ Placed'
    <3>1. TypeOK'
      BY <2>1, PipelineAssumption DEF TypeOK, Stage, Health, Never, None, Receive,
         uebaVars, projVars, muteVars
    <3>2. Placed'
      BY <2>1, <2>t DEF Placed, AtStored, Receive, AtLine, AtReading, InMessage,
         Event
    <3>. QED BY <3>1, <3>2
  <2>2. ASSUME NEW m \in Message, VisibilityEnds(m)
         PROVE  TypeOK' /\ Placed'
    <3>1. TypeOK'
      BY <2>2, PipelineAssumption DEF TypeOK, Stage, Health, Never, None,
         VisibilityEnds, workVars, uebaVars, projVars, muteVars
    <3>2. Placed'
      BY <2>2, <2>t DEF Placed, AtStored, VisibilityEnds, AtLine, AtReading,
         InMessage, Event, workVars
    <3>. QED BY <3>1, <3>2
  <2>3. ASSUME NEW w \in Worker, Reject(w)
         PROVE  TypeOK' /\ Placed'
    <3>1. TypeOK'
      BY <2>3, PipelineAssumption DEF TypeOK, Stage, Health, Never, None, Reject,
         Leave, uebaVars, projVars, muteVars
    <3>2. Placed'
      BY <2>3, <2>t DEF Placed, AtStored, Reject, Leave, AtLine, AtReading,
         InMessage, Event
    <3>. QED BY <3>1, <3>2
  <2>4. ASSUME NEW w \in Worker, Ingested(w)
         PROVE  TypeOK' /\ Placed'
    <3>1. TypeOK'
      BY <2>4, PipelineAssumption DEF TypeOK, Stage, Health, Never, None, Ingested,
         Goto, uebaVars, projVars, muteVars
    <3>2. Placed'
      BY <2>4, <2>t DEF Placed, AtStored, Ingested, Goto, AtLine, AtReading,
         InMessage, Event
    <3>. QED BY <3>1, <3>2
  <2>5. ASSUME NEW w \in Worker, Delete(w)
         PROVE  TypeOK' /\ Placed'
    <3>1. TypeOK'
      <4>1. WorkerTypes'
        BY <2>5, <2>l DEF Delete, Stage
      <4>2. QED
        BY <2>5, <4>1, PipelineAssumption DEF TypeOK, WorkerTypes, Health, Delete,
           Leave, Placed, AtStored, AtLine, AtReading, InMessage, Event, uebaVars,
           projVars, muteVars
    <3>2. Placed'
      BY <2>5, <2>t DEF Placed, AtStored, Delete, Leave, AtLine, AtReading,
         InMessage, Event
    <3>. QED BY <3>1, <3>2
  <2>6. ASSUME NEW w \in Worker, DeleteFails(w)
         PROVE  TypeOK' /\ Placed'
    <3>1. TypeOK'
      BY <2>6, PipelineAssumption DEF TypeOK, Stage, Health, Never, None,
         DeleteFails, Leave, Trouble, uebaVars, projVars, muteVars
    <3>2. Placed'
      BY <2>6, <2>t DEF Placed, AtStored, DeleteFails, Leave, Trouble, AtLine,
         AtReading, InMessage, Event
    <3>. QED BY <3>1, <3>2
  <2>7. ASSUME NEW w \in Worker, Drop(w)
         PROVE  TypeOK' /\ Placed'
    <3>1. TypeOK'
      BY <2>7, PipelineAssumption DEF TypeOK, Stage, Health, Never, None, Drop,
         Advance, uebaVars, projVars, AtLine, AtReading, InMessage, Event
    <3>2. Placed'
      BY <2>7, <2>t DEF Placed, AtStored, Drop, Advance, AtLine, AtReading,
         InMessage, Event
    <3>. QED BY <3>1, <3>2
  <2>8. ASSUME NEW w \in Worker, Insert(w)
         PROVE  TypeOK' /\ Placed'
    <3>1. TypeOK'
      <4>1. WorkerTypes'
        BY <2>8, <2>a, <2>g DEF Insert, Stage
      <4>2. QED
        BY <2>8, <4>1, PipelineAssumption DEF TypeOK, WorkerTypes, Health, Insert,
           Storable, Placed, AtStored, AtLine, AtReading, InMessage, Event,
           uebaVars, projVars, muteVars
    <3>2. Placed'
      BY <2>8, <2>t DEF Placed, AtStored, Insert, Storable, Advance, Goto, AtLine,
         AtReading, InMessage, Event
    <3>. QED BY <3>1, <3>2
  <2>9. ASSUME NEW w \in Worker, InsertFails(w)
         PROVE  TypeOK' /\ Placed'
    <3>1. TypeOK'
      BY <2>9, PipelineAssumption DEF TypeOK, Stage, Health, Never, None,
         InsertFails, Storable, Leave, Trouble, uebaVars, projVars, muteVars
    <3>2. Placed'
      BY <2>9, <2>t DEF Placed, AtStored, InsertFails, Storable, Leave, Trouble,
         AtLine, AtReading, InMessage, Event
    <3>. QED BY <3>1, <3>2
  <2>10. ASSUME NEW w \in Worker, Dispatch(w)
         PROVE  TypeOK' /\ Placed'
    <3>1. TypeOK'
      <4>1. WorkerTypes'
        BY <2>10, <2>a, <2>g DEF Dispatch, Stage
      <4>2. QED
        BY <2>10, <4>1, PipelineAssumption DEF TypeOK, WorkerTypes, Health,
           Dispatch, Placed, AtStored, AtLine, AtReading, InMessage, Event,
           uebaVars, projVars, muteVars
    <3>2. Placed'
      BY <2>10, <2>t DEF Placed, AtStored, Dispatch, Goto, Advance, AtLine,
         AtReading, InMessage, Event
    <3>. QED BY <3>1, <3>2
  <2>11. ASSUME NEW w \in Worker, FirstSeen(w)
         PROVE  TypeOK' /\ Placed'
    <3>1. TypeOK'
      BY <2>11, PipelineAssumption DEF TypeOK, Stage, Health, Never, None,
         FirstSeen, Goto, projVars, muteVars, Placed, AtStored, AtLine, AtReading,
         InMessage, Event
    <3>2. Placed'
      BY <2>11, <2>t DEF Placed, AtStored, FirstSeen, Goto, AtLine, AtReading,
         InMessage, Event
    <3>. QED BY <3>1, <3>2
  <2>12. ASSUME NEW w \in Worker, Upsert(w)
         PROVE  TypeOK' /\ Placed'
    <3>1. TypeOK'
      BY <2>12, PipelineAssumption DEF TypeOK, Stage, Health, Never, None, Upsert,
         Goto, projVars, muteVars
    <3>2. Placed'
      BY <2>12, <2>t DEF Placed, AtStored, Upsert, Goto, AtLine, AtReading,
         InMessage, Event
    <3>. QED BY <3>1, <3>2
  <2>13. ASSUME NEW w \in Worker, Count(w)
         PROVE  TypeOK' /\ Placed'
    <3>1. TypeOK'
      <4>1. WorkerTypes'
        BY <2>13, <2>a, <2>g DEF Count, Stage
      <4>2. QED
        BY <2>13, <4>1, PipelineAssumption DEF TypeOK, WorkerTypes, Health, Count,
           Placed, AtStored, AtLine, AtReading, InMessage, Event, uebaVars,
           projVars, muteVars
    <3>2. Placed'
      BY <2>13, <2>t DEF Placed, AtStored, Count, Goto, Advance, AtLine, AtReading,
         InMessage, Event
    <3>. QED BY <3>1, <3>2
  <2>14. ASSUME NEW w \in Worker, StoreAnomaly(w)
         PROVE  TypeOK' /\ Placed'
    <3>1. TypeOK'
      BY <2>14, PipelineAssumption DEF TypeOK, Stage, Health, Never, None,
         StoreAnomaly, Advance, projVars, muteVars
    <3>2. Placed'
      BY <2>14, <2>t DEF Placed, AtStored, StoreAnomaly, Advance, AtLine, AtReading,
         InMessage, Event
    <3>. QED BY <3>1, <3>2
  <2>15. ASSUME NEW w \in Worker, UebaFails(w)
         PROVE  TypeOK' /\ Placed'
    <3>1. TypeOK'
      BY <2>15, PipelineAssumption DEF TypeOK, Stage, Health, Never, None,
         UebaFails, Advance, Trouble, uebaVars, projVars, muteVars
    <3>2. Placed'
      BY <2>15, <2>t DEF Placed, AtStored, UebaFails, Advance, Trouble, AtLine,
         AtReading, InMessage, Event
    <3>. QED BY <3>1, <3>2
  <2>16. ASSUME NEW w \in Worker, ProjectRead(w)
         PROVE  TypeOK' /\ Placed'
    <3>1. TypeOK'
      BY <2>16, PipelineAssumption DEF TypeOK, Stage, Health, Never, None,
         ProjectRead, uebaVars, projVars, muteVars
    <3>2. Placed'
      BY <2>16, <2>t DEF Placed, AtStored, ProjectRead, AtLine, AtReading,
         InMessage, Event
    <3>. QED BY <3>1, <3>2
  <2>17. ASSUME NEW w \in Worker, ProjectWrite(w)
         PROVE  TypeOK' /\ Placed'
    <3>1. TypeOK'
      <4>1. WorkerTypes'
        BY <2>17, <2>a, <2>g DEF ProjectWrite, Stage
      <4>2. QED
        BY <2>17, <4>1, PipelineAssumption DEF TypeOK, WorkerTypes, Health,
           ProjectWrite, Placed, AtStored, AtLine, AtReading, InMessage, Event,
           uebaVars, muteVars
    <3>2. Placed'
      BY <2>17, <2>t DEF Placed, AtStored, ProjectWrite, Goto, Advance, AtLine,
         AtReading, InMessage, Event
    <3>. QED BY <3>1, <3>2
  <2>18. ASSUME NEW w \in Worker, ProjectionFails(w)
         PROVE  TypeOK' /\ Placed'
    <3>1. TypeOK'
      BY <2>18, PipelineAssumption DEF TypeOK, Stage, Health, Never, None,
         ProjectionFails, Advance, Trouble, uebaVars, projVars, muteVars
    <3>2. Placed'
      BY <2>18, <2>t DEF Placed, AtStored, ProjectionFails, Advance, Trouble,
         AtLine, AtReading, InMessage, Event
    <3>. QED BY <3>1, <3>2
  <2>19. ASSUME NEW w \in Worker, StoreDerived(w)
         PROVE  TypeOK' /\ Placed'
    <3>1. TypeOK'
      BY <2>19, PipelineAssumption, SMTT(20) DEF TypeOK, Stage, Health, Never, None,
         StoreDerived, Advance, uebaVars, muteVars, Placed, AtLine, AtReading,
         InMessage, Event
    <3>2. Placed'
      BY <2>19, <2>t DEF Placed, AtStored, StoreDerived, Advance, AtLine, AtReading,
         InMessage, Event
    <3>. QED BY <3>1, <3>2
  <2>20. ASSUME NEW w \in Worker, StoreDerivedFails(w)
         PROVE  TypeOK' /\ Placed'
    <3>1. TypeOK'
      BY <2>20, PipelineAssumption DEF TypeOK, Stage, Health, Never, None,
         StoreDerivedFails, Leave, Trouble, uebaVars, projVars, muteVars
    <3>2. Placed'
      BY <2>20, <2>t DEF Placed, AtStored, StoreDerivedFails, Leave, Trouble,
         AtLine, AtReading, InMessage, Event
    <3>. QED BY <3>1, <3>2
  <2>21. ASSUME NEW e \in Mutable, Mute(e)
         PROVE  TypeOK' /\ Placed'
    <3>1. TypeOK'
      BY <2>21, PipelineAssumption DEF TypeOK, Stage, Health, Never, None, Mute,
         workVars, uebaVars, projVars
    <3>2. Placed'
      BY <2>21, <2>t DEF Placed, AtStored, Mute, AtLine, AtReading, InMessage,
         Event, workVars
    <3>. QED BY <3>1, <3>2
  <2>22. CASE Restart
    <3>1. TypeOK'
      BY <2>22, PipelineAssumption DEF TypeOK, Stage, Health, Never, None, Restart,
         Trouble, uebaVars, projVars, muteVars
    <3>2. Placed'
      BY <2>22, <2>t DEF Placed, AtStored, Restart, Trouble, AtLine, AtReading,
         InMessage, Event
    <3>. QED BY <3>1, <3>2
  <2>23. CASE UNCHANGED vars
    BY <2>23 DEF TypeOK, Stage, Health, Never, None, Placed, AtStored, AtLine,
       AtReading, InMessage, Event, vars, workVars, uebaVars, projVars, muteVars
  <2>. QED
    BY <2>1, <2>2, <2>3, <2>4, <2>5, <2>6, <2>7, <2>8, <2>9, <2>10, <2>11, <2>12,
       <2>13, <2>14, <2>15, <2>16, <2>17, <2>18, <2>19, <2>20, <2>21, <2>22, <2>23
       DEF Next, Proceed, Fail
<1>. QED
  BY <1>1, <1>2, PTL DEF Spec

(* A message leaves the queue only when each of its lines is stored or was  *)
(* muted, whatever fails and whoever else handles it: drain deletes what    *)
(* ingest_payload went through to the end.                                  *)
THEOREM DeletedIsStoredHolds == Spec => []DeletedIsStored
<1>1. Init => Behind /\ DeletedIsStored
  BY DEF Init, Behind, DeletedIsStored
<1>2. TypeOK /\ Placed /\ Behind /\ DeletedIsStored /\ [Next]_vars => (Behind /\ DeletedIsStored)'
  <2>. SUFFICES ASSUME TypeOK, Placed, Behind, DeletedIsStored, [Next]_vars
                PROVE  Behind' /\ DeletedIsStored'
    OBVIOUS
  <2>t. /\ pc \in [Worker -> Stage] /\ pos \in [Worker -> Nat \ {0}]
        /\ msg \in [Worker -> Message \cup {None}] /\ rows \subseteq Lines
        /\ sent \in [Lines -> Nat] /\ seen \in Nat /\ anomalies \in Nat
    BY DEF TypeOK
  <2>1. ASSUME NEW w \in Worker, NEW m \in Message, Receive(w, m)
         PROVE  Behind' /\ DeletedIsStored'
    <3>1. Behind'
      BY <2>1, <2>t, SMTT(20) DEF Placed, AtStored, Behind, Accounted, Receive, AtLine,
         AtReading, InMessage, Event, muteVars
    <3>2. DeletedIsStored'
      BY <2>1, <2>t DEF Placed, Behind, Accounted, DeletedIsStored, Receive, AtLine,
         AtReading, InMessage, Event, muteVars
    <3>. QED BY <3>1, <3>2
  <2>2. ASSUME NEW m \in Message, VisibilityEnds(m)
         PROVE  Behind' /\ DeletedIsStored'
    <3>1. Behind'
      BY <2>2, <2>t DEF Placed, AtStored, Behind, Accounted, VisibilityEnds, AtLine,
         AtReading, InMessage, Event, workVars, muteVars
    <3>2. DeletedIsStored'
      BY <2>2, <2>t DEF Placed, Behind, Accounted, DeletedIsStored, VisibilityEnds,
         AtLine, AtReading, InMessage, Event, workVars, muteVars
    <3>. QED BY <3>1, <3>2
  <2>3. ASSUME NEW w \in Worker, Reject(w)
         PROVE  Behind' /\ DeletedIsStored'
    <3>1. Behind'
      BY <2>3, <2>t DEF Placed, AtStored, Behind, Accounted, Reject, Leave, AtLine,
         AtReading, InMessage, Event, muteVars
    <3>2. DeletedIsStored'
      BY <2>3, <2>t DEF Placed, Behind, Accounted, DeletedIsStored, Reject, Leave,
         AtLine, AtReading, InMessage, Event, muteVars
    <3>. QED BY <3>1, <3>2
  <2>4. ASSUME NEW w \in Worker, Ingested(w)
         PROVE  Behind' /\ DeletedIsStored'
    <3>1. Behind'
      BY <2>4, <2>t DEF Placed, AtStored, Behind, Accounted, Ingested, Goto, AtLine,
         AtReading, InMessage, Event, muteVars
    <3>2. DeletedIsStored'
      BY <2>4, <2>t DEF Placed, Behind, Accounted, DeletedIsStored, Ingested, Goto,
         AtLine, AtReading, InMessage, Event, muteVars
    <3>. QED BY <3>1, <3>2
  <2>5. ASSUME NEW w \in Worker, Delete(w)
         PROVE  Behind' /\ DeletedIsStored'
    <3>1. Behind'
      BY <2>5, <2>t DEF Placed, AtStored, Behind, Accounted, Delete, Leave, AtLine,
         AtReading, InMessage, Event, muteVars
    <3>2. DeletedIsStored'
      BY <2>5, <2>t DEF Placed, Behind, Accounted, DeletedIsStored, Delete, Leave,
         AtLine, AtReading, InMessage, Event, muteVars
    <3>. QED BY <3>1, <3>2
  <2>6. ASSUME NEW w \in Worker, DeleteFails(w)
         PROVE  Behind' /\ DeletedIsStored'
    <3>1. Behind'
      BY <2>6, <2>t DEF Placed, AtStored, Behind, Accounted, DeleteFails, Leave,
         Trouble, AtLine, AtReading, InMessage, Event, muteVars
    <3>2. DeletedIsStored'
      BY <2>6, <2>t DEF Placed, Behind, Accounted, DeletedIsStored, DeleteFails,
         Leave, Trouble, AtLine, AtReading, InMessage, Event, muteVars
    <3>. QED BY <3>1, <3>2
  <2>7. ASSUME NEW w \in Worker, Drop(w)
         PROVE  Behind' /\ DeletedIsStored'
    <3>1. Behind'
      BY <2>7, <2>t DEF Placed, AtStored, Behind, Accounted, Drop, Advance, AtLine,
         AtReading, InMessage, Event
    <3>2. DeletedIsStored'
      BY <2>7, <2>t DEF Placed, Behind, Accounted, DeletedIsStored, Drop, Advance,
         AtLine, AtReading, InMessage, Event
    <3>. QED BY <3>1, <3>2
  <2>8. ASSUME NEW w \in Worker, Insert(w)
         PROVE  Behind' /\ DeletedIsStored'
    <3>1. Behind'
      <4>a. /\ pc[w] = "event" /\ InMessage(w) /\ msg[w] \in Message
          /\ rows' = rows \cup {Event(w)} /\ UNCHANGED dropped
        BY <2>8 DEF Insert, Storable, Placed, AtStored, AtLine, AtReading, muteVars
      <4>b. CASE Event(w) \in rows /\ Advance(w)
        BY <4>a, <4>b, <2>t DEF Behind, Accounted, Advance, AtLine, AtReading,
           InMessage, Event
      <4>c. CASE Event(w) \notin rows /\ Goto(w, "dispatch")
        BY <4>a, <4>c, <2>t DEF Behind, Accounted, Goto, AtLine, AtReading,
           InMessage, Event
      <4>. QED BY <2>8, <4>b, <4>c DEF Insert
    <3>2. DeletedIsStored'
      BY <2>8, <2>t DEF Placed, Behind, Accounted, DeletedIsStored, Insert,
         Storable, Advance, Goto, AtLine, AtReading, InMessage, Event, muteVars
    <3>. QED BY <3>1, <3>2
  <2>9. ASSUME NEW w \in Worker, InsertFails(w)
         PROVE  Behind' /\ DeletedIsStored'
    <3>1. Behind'
      BY <2>9, <2>t DEF Placed, AtStored, Behind, Accounted, InsertFails, Storable,
         Leave, Trouble, AtLine, AtReading, InMessage, Event, muteVars
    <3>2. DeletedIsStored'
      BY <2>9, <2>t DEF Placed, Behind, Accounted, DeletedIsStored, InsertFails,
         Storable, Leave, Trouble, AtLine, AtReading, InMessage, Event, muteVars
    <3>. QED BY <3>1, <3>2
  <2>10. ASSUME NEW w \in Worker, Dispatch(w)
         PROVE  Behind' /\ DeletedIsStored'
    <3>1. Behind'
      BY <2>10, <2>t DEF Placed, AtStored, Behind, Accounted, Dispatch, Goto,
         Advance, AtLine, AtReading, InMessage, Event, muteVars
    <3>2. DeletedIsStored'
      BY <2>10, <2>t DEF Placed, Behind, Accounted, DeletedIsStored, Dispatch, Goto,
         Advance, AtLine, AtReading, InMessage, Event, muteVars
    <3>. QED BY <3>1, <3>2
  <2>11. ASSUME NEW w \in Worker, FirstSeen(w)
         PROVE  Behind' /\ DeletedIsStored'
    <3>1. Behind'
      BY <2>11, <2>t DEF Placed, AtStored, Behind, Accounted, FirstSeen, Goto,
         AtLine, AtReading, InMessage, Event, muteVars
    <3>2. DeletedIsStored'
      BY <2>11, <2>t DEF Placed, Behind, Accounted, DeletedIsStored, FirstSeen,
         Goto, AtLine, AtReading, InMessage, Event, muteVars
    <3>. QED BY <3>1, <3>2
  <2>12. ASSUME NEW w \in Worker, Upsert(w)
         PROVE  Behind' /\ DeletedIsStored'
    <3>1. Behind'
      BY <2>12, <2>t DEF Placed, AtStored, Behind, Accounted, Upsert, Goto, AtLine,
         AtReading, InMessage, Event, muteVars
    <3>2. DeletedIsStored'
      BY <2>12, <2>t DEF Placed, Behind, Accounted, DeletedIsStored, Upsert, Goto,
         AtLine, AtReading, InMessage, Event, muteVars
    <3>. QED BY <3>1, <3>2
  <2>13. ASSUME NEW w \in Worker, Count(w)
         PROVE  Behind' /\ DeletedIsStored'
    <3>1. Behind'
      <4>a. pc[w] = "count" /\ Event(w) \in rows /\ UNCHANGED <<rows, dropped>>
        BY <2>13 DEF Count, Storable, Placed, AtStored, AtLine, AtReading, muteVars
      <4>b. CASE Goto(w, "anomaly")
        BY <4>a, <4>b, <2>t DEF Behind, Accounted, Goto, AtLine, AtReading,
           InMessage, Event
      <4>c. CASE Advance(w)
        BY <4>a, <4>c, <2>t DEF Behind, Accounted, Advance, AtLine, AtReading,
           InMessage, Event
      <4>. QED BY <2>13, <4>b, <4>c DEF Count
    <3>2. DeletedIsStored'
      BY <2>13, <2>t DEF Placed, Behind, Accounted, DeletedIsStored, Count, Goto,
         Advance, AtLine, AtReading, InMessage, Event, muteVars
    <3>. QED BY <3>1, <3>2
  <2>14. ASSUME NEW w \in Worker, StoreAnomaly(w)
         PROVE  Behind' /\ DeletedIsStored'
    <3>1. Behind'
      BY <2>14, <2>t DEF Placed, AtStored, Behind, Accounted, StoreAnomaly, Advance,
         AtLine, AtReading, InMessage, Event, muteVars
    <3>2. DeletedIsStored'
      BY <2>14, <2>t DEF Placed, Behind, Accounted, DeletedIsStored, StoreAnomaly,
         Advance, AtLine, AtReading, InMessage, Event, muteVars
    <3>. QED BY <3>1, <3>2
  <2>15. ASSUME NEW w \in Worker, UebaFails(w)
         PROVE  Behind' /\ DeletedIsStored'
    <3>1. Behind'
      BY <2>15, <2>t DEF Placed, AtStored, Behind, Accounted, UebaFails, Advance,
         Trouble, AtLine, AtReading, InMessage, Event, muteVars
    <3>2. DeletedIsStored'
      BY <2>15, <2>t DEF Placed, Behind, Accounted, DeletedIsStored, UebaFails,
         Advance, Trouble, AtLine, AtReading, InMessage, Event, muteVars
    <3>. QED BY <3>1, <3>2
  <2>16. ASSUME NEW w \in Worker, ProjectRead(w)
         PROVE  Behind' /\ DeletedIsStored'
    <3>1. Behind'
      BY <2>16, <2>t DEF Placed, AtStored, Behind, Accounted, ProjectRead, AtLine,
         AtReading, InMessage, Event, muteVars
    <3>2. DeletedIsStored'
      BY <2>16, <2>t DEF Placed, Behind, Accounted, DeletedIsStored, ProjectRead,
         AtLine, AtReading, InMessage, Event, muteVars
    <3>. QED BY <3>1, <3>2
  <2>17. ASSUME NEW w \in Worker, ProjectWrite(w)
         PROVE  Behind' /\ DeletedIsStored'
    <3>1. Behind'
      <4>a. pc[w] = "write" /\ Event(w) \in Telemetry /\ UNCHANGED <<rows, dropped>>
        BY <2>17 DEF ProjectWrite, Storable, Placed, AtStored, AtLine, AtReading,
           muteVars
      <4>b. CASE Goto(w, "derived")
        BY <4>a, <4>b, <2>t DEF Behind, Accounted, Goto, AtLine, AtReading,
           InMessage, Event
      <4>c. CASE Advance(w)
        BY <4>a, <4>c, <2>t DEF Behind, Accounted, Advance, AtLine, AtReading,
           InMessage, Event
      <4>. QED BY <2>17, <4>b, <4>c DEF ProjectWrite
    <3>2. DeletedIsStored'
      BY <2>17, <2>t DEF Placed, Behind, Accounted, DeletedIsStored, ProjectWrite,
         Goto, Advance, AtLine, AtReading, InMessage, Event, muteVars
    <3>. QED BY <3>1, <3>2
  <2>18. ASSUME NEW w \in Worker, ProjectionFails(w)
         PROVE  Behind' /\ DeletedIsStored'
    <3>1. Behind'
      BY <2>18, <2>t DEF Placed, AtStored, Behind, Accounted, ProjectionFails,
         Advance, Trouble, AtLine, AtReading, InMessage, Event, muteVars
    <3>2. DeletedIsStored'
      BY <2>18, <2>t DEF Placed, Behind, Accounted, DeletedIsStored,
         ProjectionFails, Advance, Trouble, AtLine, AtReading, InMessage, Event,
         muteVars
    <3>. QED BY <3>1, <3>2
  <2>19. ASSUME NEW w \in Worker, StoreDerived(w)
         PROVE  Behind' /\ DeletedIsStored'
    <3>1. Behind'
      BY <2>19, <2>t DEF Placed, AtStored, Behind, Accounted, StoreDerived, Advance,
         AtLine, AtReading, InMessage, Event, muteVars
    <3>2. DeletedIsStored'
      BY <2>19, <2>t DEF Placed, Behind, Accounted, DeletedIsStored, StoreDerived,
         Advance, AtLine, AtReading, InMessage, Event, muteVars
    <3>. QED BY <3>1, <3>2
  <2>20. ASSUME NEW w \in Worker, StoreDerivedFails(w)
         PROVE  Behind' /\ DeletedIsStored'
    <3>1. Behind'
      BY <2>20, <2>t DEF Placed, AtStored, Behind, Accounted, StoreDerivedFails,
         Leave, Trouble, AtLine, AtReading, InMessage, Event, muteVars
    <3>2. DeletedIsStored'
      BY <2>20, <2>t DEF Placed, Behind, Accounted, DeletedIsStored,
         StoreDerivedFails, Leave, Trouble, AtLine, AtReading, InMessage, Event,
         muteVars
    <3>. QED BY <3>1, <3>2
  <2>21. ASSUME NEW e \in Mutable, Mute(e)
         PROVE  Behind' /\ DeletedIsStored'
    <3>1. Behind'
      BY <2>21, <2>t DEF Placed, AtStored, Behind, Accounted, Mute, AtLine,
         AtReading, InMessage, Event, workVars
    <3>2. DeletedIsStored'
      BY <2>21, <2>t DEF Placed, Behind, Accounted, DeletedIsStored, Mute, AtLine,
         AtReading, InMessage, Event, workVars
    <3>. QED BY <3>1, <3>2
  <2>22. CASE Restart
    <3>1. Behind'
      BY <2>22, <2>t DEF Placed, AtStored, Behind, Accounted, Restart, Trouble,
         AtLine, AtReading, InMessage, Event, muteVars
    <3>2. DeletedIsStored'
      BY <2>22, <2>t DEF Placed, Behind, Accounted, DeletedIsStored, Restart,
         Trouble, AtLine, AtReading, InMessage, Event, muteVars
    <3>. QED BY <3>1, <3>2
  <2>23. CASE UNCHANGED vars
    BY <2>23 DEF Placed, AtStored, Behind, Accounted, AtLine, AtReading, InMessage,
       Event, DeletedIsStored, vars, workVars, uebaVars, projVars, muteVars
  <2>. QED
    BY <2>1, <2>2, <2>3, <2>4, <2>5, <2>6, <2>7, <2>8, <2>9, <2>10, <2>11, <2>12,
       <2>13, <2>14, <2>15, <2>16, <2>17, <2>18, <2>19, <2>20, <2>21, <2>22, <2>23
       DEF Next, Proceed, Fail
<1>. QED
  BY <1>1, <1>2, TypeCorrect, PTL DEF Spec

(* No line reaches the notifier twice: insert_event reports a row as new to *)
(* one of the workers that hold the line, and _process notifies only then.  *)
THEOREM DispatchOnceHolds == Spec => []DispatchOnce
<1>1. Init => OneNotice
  BY DEF Init, OneNotice
<1>2. TypeOK /\ Placed /\ OneNotice /\ [Next]_vars => OneNotice'
  <2>. SUFFICES ASSUME TypeOK, Placed, OneNotice, [Next]_vars
                PROVE  OneNotice'
    OBVIOUS
  <2>t. /\ pc \in [Worker -> Stage] /\ pos \in [Worker -> Nat \ {0}]
        /\ msg \in [Worker -> Message \cup {None}] /\ rows \subseteq Lines
        /\ sent \in [Lines -> Nat] /\ seen \in Nat /\ anomalies \in Nat
    BY DEF TypeOK
  <2>1. ASSUME NEW w \in Worker, NEW m \in Message, Receive(w, m)
         PROVE  OneNotice'
    BY <2>1, <2>t, PipelineAssumption DEF Placed, AtStored, OneNotice, Receive,
       AtLine, AtReading, InMessage, Event
  <2>2. ASSUME NEW m \in Message, VisibilityEnds(m)
         PROVE  OneNotice'
    BY <2>2, <2>t, PipelineAssumption DEF Placed, AtStored, OneNotice,
       VisibilityEnds, AtLine, AtReading, InMessage, Event, workVars
  <2>3. ASSUME NEW w \in Worker, Reject(w)
         PROVE  OneNotice'
    BY <2>3, <2>t, PipelineAssumption DEF Placed, AtStored, OneNotice, Reject,
       Leave, AtLine, AtReading, InMessage, Event
  <2>4. ASSUME NEW w \in Worker, Ingested(w)
         PROVE  OneNotice'
    BY <2>4, <2>t, PipelineAssumption DEF Placed, AtStored, OneNotice, Ingested,
       Goto, AtLine, AtReading, InMessage, Event
  <2>5. ASSUME NEW w \in Worker, Delete(w)
         PROVE  OneNotice'
    BY <2>5, <2>t, PipelineAssumption DEF Placed, AtStored, OneNotice, Delete,
       Leave, AtLine, AtReading, InMessage, Event
  <2>6. ASSUME NEW w \in Worker, DeleteFails(w)
         PROVE  OneNotice'
    BY <2>6, <2>t, PipelineAssumption DEF Placed, AtStored, OneNotice, DeleteFails,
       Leave, Trouble, AtLine, AtReading, InMessage, Event
  <2>7. ASSUME NEW w \in Worker, Drop(w)
         PROVE  OneNotice'
    BY <2>7, <2>t, PipelineAssumption DEF Placed, AtStored, OneNotice, Drop,
       Advance, AtLine, AtReading, InMessage, Event
  <2>8. ASSUME NEW w \in Worker, Insert(w)
         PROVE  OneNotice'
    <3>a. /\ pc[w] = "event" /\ AtLine(w) /\ msg[w] \in Message
        /\ rows' = rows \cup {Event(w)} /\ UNCHANGED <<queue, sent, dropped>>
      BY <2>8 DEF Insert, Storable, Placed, muteVars
    <3>b. CASE Event(w) \in rows /\ Advance(w)
      BY <3>a, <3>b, <2>t, PipelineAssumption DEF Placed, AtStored, OneNotice,
         Advance, AtLine, AtReading, InMessage, Event
    <3>c. CASE Event(w) \notin rows /\ Goto(w, "dispatch")
      BY <3>a, <3>c, <2>t, PipelineAssumption DEF Placed, AtStored, OneNotice, Goto,
         AtLine, AtReading, InMessage, Event
    <3>. QED BY <2>8, <3>b, <3>c DEF Insert
  <2>9. ASSUME NEW w \in Worker, InsertFails(w)
         PROVE  OneNotice'
    BY <2>9, <2>t, PipelineAssumption DEF Placed, AtStored, OneNotice, InsertFails,
       Storable, Leave, Trouble, AtLine, AtReading, InMessage, Event
  <2>10. ASSUME NEW w \in Worker, Dispatch(w)
         PROVE  OneNotice'
    <3>a. /\ pc[w] = "dispatch" /\ msg[w] \in Message /\ AtLine(w)
        /\ sent' = [sent EXCEPT ![Event(w)] = @ + 1] /\ UNCHANGED rows
      BY <2>10 DEF Dispatch, Placed, AtStored
    <3>b. CASE Event(w) \in Baselined /\ Goto(w, "first")
      BY <3>a, <3>b, <2>t, PipelineAssumption DEF Placed, AtStored, OneNotice, Goto,
         AtLine, AtReading, InMessage, Event
    <3>c. CASE Event(w) \notin Baselined /\ Advance(w)
      BY <3>a, <3>c, <2>t, PipelineAssumption DEF Placed, AtStored, OneNotice,
         Advance, AtLine, AtReading, InMessage, Event
    <3>. QED BY <2>10, <3>b, <3>c DEF Dispatch
  <2>11. ASSUME NEW w \in Worker, FirstSeen(w)
         PROVE  OneNotice'
    BY <2>11, <2>t, PipelineAssumption DEF Placed, AtStored, OneNotice, FirstSeen,
       Goto, AtLine, AtReading, InMessage, Event
  <2>12. ASSUME NEW w \in Worker, Upsert(w)
         PROVE  OneNotice'
    BY <2>12, <2>t, PipelineAssumption DEF Placed, AtStored, OneNotice, Upsert,
       Goto, AtLine, AtReading, InMessage, Event
  <2>13. ASSUME NEW w \in Worker, Count(w)
         PROVE  OneNotice'
    <3>a. pc[w] = "count" /\ msg[w] \in Message /\ UNCHANGED <<rows, sent>>
      BY <2>13 DEF Count, Placed
    <3>b. CASE Goto(w, "anomaly")
      BY <3>a, <3>b, <2>t DEF OneNotice, Goto, AtLine, AtReading, InMessage, Event
    <3>c. CASE Advance(w)
      BY <3>a, <3>c, <2>t DEF OneNotice, Advance, AtLine, AtReading, InMessage,
         Event
    <3>. QED BY <2>13, <3>b, <3>c DEF Count
  <2>14. ASSUME NEW w \in Worker, StoreAnomaly(w)
         PROVE  OneNotice'
    BY <2>14, <2>t, PipelineAssumption DEF Placed, AtStored, OneNotice,
       StoreAnomaly, Advance, AtLine, AtReading, InMessage, Event
  <2>15. ASSUME NEW w \in Worker, UebaFails(w)
         PROVE  OneNotice'
    BY <2>15, <2>t, PipelineAssumption DEF Placed, AtStored, OneNotice, UebaFails,
       Advance, Trouble, AtLine, AtReading, InMessage, Event
  <2>16. ASSUME NEW w \in Worker, ProjectRead(w)
         PROVE  OneNotice'
    BY <2>16, <2>t, PipelineAssumption DEF Placed, AtStored, OneNotice, ProjectRead,
       AtLine, AtReading, InMessage, Event
  <2>17. ASSUME NEW w \in Worker, ProjectWrite(w)
         PROVE  OneNotice'
    <3>a. pc[w] = "write" /\ msg[w] \in Message /\ UNCHANGED <<rows, sent>>
      BY <2>17 DEF ProjectWrite, Placed
    <3>b. CASE Goto(w, "derived")
      BY <3>a, <3>b, <2>t DEF OneNotice, Goto, AtLine, AtReading, InMessage, Event
    <3>c. CASE Advance(w)
      BY <3>a, <3>c, <2>t DEF OneNotice, Advance, AtLine, AtReading, InMessage,
         Event
    <3>. QED BY <2>17, <3>b, <3>c DEF ProjectWrite
  <2>18. ASSUME NEW w \in Worker, ProjectionFails(w)
         PROVE  OneNotice'
    BY <2>18, <2>t, PipelineAssumption DEF Placed, AtStored, OneNotice,
       ProjectionFails, Advance, Trouble, AtLine, AtReading, InMessage, Event
  <2>19. ASSUME NEW w \in Worker, StoreDerived(w)
         PROVE  OneNotice'
    BY <2>19, <2>t, PipelineAssumption DEF Placed, AtStored, OneNotice,
       StoreDerived, Advance, AtLine, AtReading, InMessage, Event
  <2>20. ASSUME NEW w \in Worker, StoreDerivedFails(w)
         PROVE  OneNotice'
    BY <2>20, <2>t, PipelineAssumption DEF Placed, AtStored, OneNotice,
       StoreDerivedFails, Leave, Trouble, AtLine, AtReading, InMessage, Event
  <2>21. ASSUME NEW e \in Mutable, Mute(e)
         PROVE  OneNotice'
    BY <2>21, <2>t, PipelineAssumption DEF Placed, AtStored, OneNotice, Mute,
       AtLine, AtReading, InMessage, Event, workVars
  <2>22. CASE Restart
    BY <2>22, <2>t, PipelineAssumption DEF Placed, AtStored, OneNotice, Restart,
       Trouble, AtLine, AtReading, InMessage, Event
  <2>23. CASE UNCHANGED vars
    BY <2>23 DEF Placed, AtStored, OneNotice, AtLine, AtReading, InMessage, Event,
       vars, workVars, uebaVars, projVars, muteVars
  <2>. QED
    BY <2>1, <2>2, <2>3, <2>4, <2>5, <2>6, <2>7, <2>8, <2>9, <2>10, <2>11, <2>12,
       <2>13, <2>14, <2>15, <2>16, <2>17, <2>18, <2>19, <2>20, <2>21, <2>22, <2>23
       DEF Next, Proceed, Fail
<1>3. OneNotice => DispatchOnce
  BY DEF OneNotice, DispatchOnce
<1>. QED
  BY <1>1, <1>2, <1>3, TypeCorrect, PTL DEF Spec

(* A value is reported as first seen at most once: only the upsert that     *)
(* made the count one leads to a report, however the two statements of      *)
(* upsert_baseline interleave.                                              *)
THEOREM AnomalyOnceHolds == Spec => []AnomalyOnce
<1>1. Init => OneClaim
  BY DEF Init, OneClaim, Claims
<1>2. TypeOK /\ OneClaim /\ [Next]_vars => OneClaim'
  <2>. SUFFICES ASSUME TypeOK, OneClaim, [Next]_vars
                PROVE  OneClaim'
    OBVIOUS
  <2>t. /\ pc \in [Worker -> Stage] /\ pos \in [Worker -> Nat \ {0}]
        /\ msg \in [Worker -> Message \cup {None}] /\ rows \subseteq Lines
        /\ sent \in [Lines -> Nat] /\ seen \in Nat /\ anomalies \in Nat
    BY DEF TypeOK
  <2>1. ASSUME NEW w \in Worker, NEW m \in Message, Receive(w, m)
         PROVE  OneClaim'
    BY <2>1, <2>t DEF OneClaim, Claims, Receive, uebaVars
  <2>2. ASSUME NEW m \in Message, VisibilityEnds(m)
         PROVE  OneClaim'
    BY <2>2, <2>t DEF OneClaim, Claims, VisibilityEnds, workVars, uebaVars
  <2>3. ASSUME NEW w \in Worker, Reject(w)
         PROVE  OneClaim'
    BY <2>3, <2>t DEF OneClaim, Claims, Reject, Leave, uebaVars
  <2>4. ASSUME NEW w \in Worker, Ingested(w)
         PROVE  OneClaim'
    BY <2>4, <2>t DEF OneClaim, Claims, Ingested, Goto, uebaVars
  <2>5. ASSUME NEW w \in Worker, Delete(w)
         PROVE  OneClaim'
    BY <2>5, <2>t DEF OneClaim, Claims, Delete, Leave, uebaVars
  <2>6. ASSUME NEW w \in Worker, DeleteFails(w)
         PROVE  OneClaim'
    BY <2>6, <2>t DEF OneClaim, Claims, DeleteFails, Leave, Trouble, uebaVars
  <2>7. ASSUME NEW w \in Worker, Drop(w)
         PROVE  OneClaim'
    BY <2>7, <2>t DEF OneClaim, Claims, Drop, Advance, uebaVars
  <2>8. ASSUME NEW w \in Worker, Insert(w)
         PROVE  OneClaim'
    BY <2>8, <2>t DEF OneClaim, Claims, Insert, Storable, Advance, Goto, uebaVars
  <2>9. ASSUME NEW w \in Worker, InsertFails(w)
         PROVE  OneClaim'
    BY <2>9, <2>t DEF OneClaim, Claims, InsertFails, Storable, Leave, Trouble,
       uebaVars
  <2>10. ASSUME NEW w \in Worker, Dispatch(w)
         PROVE  OneClaim'
    BY <2>10, <2>t DEF OneClaim, Claims, Dispatch, Goto, Advance, uebaVars
  <2>11. ASSUME NEW w \in Worker, FirstSeen(w)
         PROVE  OneClaim'
    BY <2>11, <2>t DEF OneClaim, Claims, FirstSeen, Goto
  <2>12. ASSUME NEW w \in Worker, Upsert(w)
         PROVE  OneClaim'
    BY <2>12, <2>t DEF OneClaim, Claims, Upsert, Goto
  <2>13. ASSUME NEW w \in Worker, Count(w)
         PROVE  OneClaim'
    BY <2>13, <2>t DEF OneClaim, Claims, Count, Goto, Advance, uebaVars
  <2>14. ASSUME NEW w \in Worker, StoreAnomaly(w)
         PROVE  OneClaim'
    BY <2>14, <2>t DEF OneClaim, Claims, StoreAnomaly, Advance
  <2>15. ASSUME NEW w \in Worker, UebaFails(w)
         PROVE  OneClaim'
    BY <2>15, <2>t DEF OneClaim, Claims, UebaFails, Advance, Trouble, uebaVars
  <2>16. ASSUME NEW w \in Worker, ProjectRead(w)
         PROVE  OneClaim'
    BY <2>16, <2>t DEF OneClaim, Claims, ProjectRead, uebaVars
  <2>17. ASSUME NEW w \in Worker, ProjectWrite(w)
         PROVE  OneClaim'
    BY <2>17, <2>t DEF OneClaim, Claims, ProjectWrite, Goto, Advance, uebaVars
  <2>18. ASSUME NEW w \in Worker, ProjectionFails(w)
         PROVE  OneClaim'
    BY <2>18, <2>t DEF OneClaim, Claims, ProjectionFails, Advance, Trouble, uebaVars
  <2>19. ASSUME NEW w \in Worker, StoreDerived(w)
         PROVE  OneClaim'
    BY <2>19, <2>t DEF OneClaim, Claims, StoreDerived, Advance, uebaVars
  <2>20. ASSUME NEW w \in Worker, StoreDerivedFails(w)
         PROVE  OneClaim'
    BY <2>20, <2>t DEF OneClaim, Claims, StoreDerivedFails, Leave, Trouble, uebaVars
  <2>21. ASSUME NEW e \in Mutable, Mute(e)
         PROVE  OneClaim'
    BY <2>21, <2>t DEF OneClaim, Claims, Mute, workVars, uebaVars
  <2>22. CASE Restart
    BY <2>22, <2>t DEF OneClaim, Claims, Restart, Trouble, uebaVars
  <2>23. CASE UNCHANGED vars
    BY <2>23 DEF OneClaim, Claims, vars, workVars, uebaVars, projVars, muteVars
  <2>. QED
    BY <2>1, <2>2, <2>3, <2>4, <2>5, <2>6, <2>7, <2>8, <2>9, <2>10, <2>11, <2>12,
       <2>13, <2>14, <2>15, <2>16, <2>17, <2>18, <2>19, <2>20, <2>21, <2>22, <2>23
       DEF Next, Proceed, Fail
<1>3. OneClaim => AnomalyOnce
  BY DEF OneClaim, AnomalyOnce
<1>. QED
  BY <1>1, <1>2, <1>3, TypeCorrect, PTL DEF Spec
=============================================================================
