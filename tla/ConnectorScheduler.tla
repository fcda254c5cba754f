------------------------- MODULE ConnectorScheduler -------------------------
(***************************************************************************)
(* The scheduler thread, blackwatch/connectors/scheduler.py, over the      *)
(* operation ledger that ConnectorOps implements.  A tick lists the        *)
(* connectors, reads their latest operations in a second statement,        *)
(* repairs retry metadata from them, and starts what is due, all from that *)
(* one snapshot, while users, workers and timers go on.                    *)
(***************************************************************************)
EXTENDS OperationLedger

ASSUME SchedAssumption == {MaxOps, MaxRetry} \subseteq Nat

VARIABLES
    eligible, \* connectors that are enabled and verified
    tick,     \* where the tick is: sleeping, listed, repair or start
    view,     \* the tick's copy of connector rows and latest operations
    todo,     \* connectors the current loop of the tick has still to visit
    elapsed   \* operations whose next_attempt_at has passed

tickVars  == <<tick, view, todo>>
schedVars == <<ledgerVars, eligible, tickVars, elapsed>>

(* get_latest_connector_operations: the newest row by requested_at,        *)
(* skipped items included.                                                 *)
RowsOf(c) == {o \in Op : owner[o] = c /\ status[o] # "none"}
Newest(S) == IF S = {} THEN None ELSE CHOOSE o \in S : \A q \in S : q <= o
Latest(c) == Newest(RowsOf(c))

Meta   == [count : 0..MaxRetry, next : Op \cup {None}, reason : Reason]
NoView == [meta |-> NoMeta, eligible |-> FALSE, open |-> FALSE, repair |-> NoMeta]

(* The retry metadata of connector rows and of the snapshot is always that *)
(* of some verdict.                                                        *)
SchedTypeOK ==
    /\ status \in [Op -> {"none", "skipped"} \cup Open \cup Verdict]
    /\ count \in [Op -> 0..MaxRetry]
    /\ meta \in [Connector -> Meta]
    /\ writing \subseteq {o \in Op : status[o] \in Verdict}
    /\ eligible \subseteq Connector
    /\ tick \in {"sleeping", "listed", "repair", "start"}
    /\ view \in [Connector -> [meta : Meta, eligible : BOOLEAN, open : BOOLEAN, repair : Meta]]
    /\ todo \subseteq Connector
    /\ elapsed \subseteq {o \in Op : status[o] \in Verdict}

SchedInit == /\ Init
             /\ eligible \in SUBSET Connector
             /\ tick = "sleeping"
             /\ view = [c \in Connector |-> NoView]
             /\ todo = {}
             /\ elapsed = {}

(* list_connectors *)
ListConnectors ==
    /\ tick = "sleeping"
    /\ tick' = "listed"
    /\ view' = [c \in Connector |->
                  [NoView EXCEPT !.meta = meta[c], !.eligible = c \in eligible]]
    /\ UNCHANGED <<ledgerVars, eligible, todo, elapsed>>

(* What a connector's retry metadata should be, from its latest operation; *)
(* mutant: only successes are repaired.                                    *)
RepairOfSuccess(c, o) ==
    IF o # None /\ status[o] = "succeeded" THEN Desired(o) ELSE view[c].meta
RepairOf(c, o) ==
    IF o # None /\ status[o] \in Verdict THEN Desired(o) ELSE view[c].meta

(* get_latest_connector_operations, a statement of its own *)
ReadLatest ==
    /\ tick = "listed"
    /\ tick' = "repair"
    /\ todo' = Connector
    /\ view' = [c \in Connector |->
                  [view[c] EXCEPT
                     !.open = Latest(c) # None /\ status[Latest(c)] \in Open,
                     !.repair = RepairOf(c, Latest(c))]]
    /\ UNCHANGED <<ledgerVars, eligible, elapsed>>

(* _reconcile_retry_metadata for one connector of the snapshot: written    *)
(* only when the snapshot's own metadata differs.                          *)
Reconcile(c) ==
    /\ tick = "repair"
    /\ c \in todo
    /\ meta' = IF view[c].repair = view[c].meta
               THEN meta ELSE [meta EXCEPT ![c] = view[c].repair]
    /\ view' = [view EXCEPT ![c].meta = view[c].repair, ![c].repair = NoMeta]
    /\ IF todo = {c}
       THEN tick' = "start" /\ todo' = Connector
       ELSE tick' = tick /\ todo' = todo \ {c}
    /\ UNCHANGED <<status, owner, count, reason, writing, eligible, elapsed>>

(* A read or a repair raises: the rest of the tick is given up. *)
TickFails ==
    /\ Faults
    /\ tick \in {"listed", "repair"}
    /\ tick' = "sleeping"
    /\ todo' = {}
    /\ view' = [c \in Connector |-> NoView]
    /\ UNCHANGED <<ledgerVars, eligible, elapsed>>

(* _due; the poll interval may or may not have passed since the last run.  *)
(* Mutant: a connector with a pending attempt is never due.                *)
DueUnlessPending(v) == v.eligible /\ ~v.open /\ v.meta.next = None
Due(v) == v.eligible /\ ~v.open /\ v.meta.next \in elapsed \cup {None}

EndVisit(c) ==
    /\ view' = [view EXCEPT ![c] = NoView]
    /\ todo' = todo \ {c}
    /\ tick' = IF todo = {c} THEN "sleeping" ELSE tick

(* A scheduled start that is accepted: its guards read the row again, its  *)
(* retry count is the snapshot's.                                          *)
StartDue(c) ==
    /\ tick = "start"
    /\ c \in todo
    /\ Due(view[c])
    /\ c \in eligible
    /\ \E o \in Op : Request(o, c, view[c].meta.count)
    /\ EndVisit(c)
    /\ UNCHANGED <<eligible, elapsed>>

(* Not due, or refused: by the guards, a duplicate, the slots or the lock. *)
PassOver(c) ==
    /\ tick = "start"
    /\ c \in todo
    /\ EndVisit(c)
    /\ UNCHANGED <<ledgerVars, eligible, elapsed>>

(* The backoff of a failed or timed-out operation runs out. *)
Elapse(o) ==
    /\ status[o] \in {"failed", "timed_out"}
    /\ o \notin elapsed
    /\ elapsed' = elapsed \cup {o}
    /\ UNCHANGED <<ledgerVars, eligible, tickVars>>

(* A user's start: a test, a manual run, an item of Retry all. *)
UserStart(c) ==
    /\ \E o \in Op, n \in {0, meta[c].count} : Request(o, c, n)
    /\ UNCHANGED <<eligible, tickVars, elapsed>>

(* The operations go on by themselves. *)
Proceed(o) ==
    /\ Begin(o) \/ Close(o) \/ WriteMeta(o) \/ LoseWrites({o})
    /\ UNCHANGED <<eligible, tickVars, elapsed>>

SkipItem(o, c) == Skip(o, c) /\ UNCHANGED <<eligible, tickVars, elapsed>>

(* Editing, enabling and a passed test make connectors eligible or not. *)
Administer(c) ==
    /\ \/ eligible' = eligible \cup {c}
       \/ eligible' = eligible \ {c}
    /\ UNCHANGED <<ledgerVars, tickVars, elapsed>>

SchedRestart ==
    /\ writing' = {}
    /\ tick' = "sleeping"
    /\ view' = [c \in Connector |-> NoView]
    /\ todo' = {}
    /\ UNCHANGED <<status, owner, count, reason, meta, eligible, elapsed>>

TickStep == \/ ListConnectors \/ ReadLatest
            \/ \E c \in Connector : Reconcile(c) \/ StartDue(c) \/ PassOver(c)

SchedNext == \/ TickStep
             \/ TickFails
             \/ \E o \in Op : Elapse(o) \/ Proceed(o)
             \/ \E c \in Connector : UserStart(c) \/ Administer(c)
             \/ \E o \in Op, c \in Connector : SkipItem(o, c)
             \/ SchedRestart

SchedSpec == SchedInit /\ [][SchedNext]_schedVars

(* The thread ticks, backoffs run out and operations close (which is what  *)
(* OperationsClose of ConnectorOps shows).  Faults and restarts may come   *)
(* again and again, but not so that a step of the tick never gets through, *)
(* and a connector that stays due meets a free slot and a poll interval    *)
(* that has passed in some tick.                                           *)
SchedFairness ==
    /\ WF_schedVars(TickStep)
    /\ SF_schedVars(ReadLatest)
    /\ \A c \in Connector : SF_schedVars(Reconcile(c)) /\ SF_schedVars(StartDue(c))
    /\ \A o \in Op : WF_schedVars(Elapse(o)) /\ WF_schedVars(Close(o) /\ Proceed(o))

SchedFairSpec == SchedSpec /\ SchedFairness

-----------------------------------------------------------------------------
(* Properties *)

Closed(c) == {o \in RowsOf(c) : status[o] \in Verdict}

(* The connector row tells the retry state of operation o. *)
InStep(c, o) == status[o] \in Open \/ meta[c] = Desired(o)

(* However the write of the retry metadata was lost (a storage fault, a    *)
(* restart between the two statements) or overwritten by a stale repair,   *)
(* it comes back to what the newest operation says                         *)
(* (_reconcile_retry_metadata: "Operation history is authoritative ...     *)
(* self-healing on the next scheduler tick").                              *)
MetadataHeals ==
    \A c \in Connector : []<>(\/ Latest(c) = None
                              \/ status[Latest(c)] = "skipped"
                              \/ InStep(c, Latest(c)))

(* The same of the newest operation that ran, also when Retry all recorded *)
(* the connector as skipped after it.                                      *)
MetadataHealsDespiteSkips ==
    \A c \in Connector : []<>(Closed(c) = {} \/ InStep(c, Newest(Closed(c))))

(* A failed or timed-out connector that stays eligible is tried again,     *)
(* even if the metadata that says when was lost on the way.                *)
FailedIsRetried ==
    \A c \in Connector, o \in Op \ {MaxOps} :
        owner[o] = c /\ status[o] \in {"failed", "timed_out"}
          ~> \/ \E q \in Op : q > o /\ owner[q] = c
             \/ c \notin eligible
             \/ status[MaxOps] # "none"
=============================================================================
