------------------------------ MODULE RetryBatch ------------------------------
(***************************************************************************)
(* "Retry all" (start_retry_all and _monitor_aggregate in                  *)
(* connectors/operations.py): a parent row, a child row for each connector *)
(* that was started or skipped, and a monitor thread that writes what it   *)
(* counted until every child is closed.  What a child does by itself is    *)
(* ConnectorOps; here it runs and ends.  Lists are shorter than the 100    *)
(* rows a query returns.                                                   *)
(***************************************************************************)
EXTENDS FiniteSets, Naturals

CONSTANTS
    Retried,   \* the connectors
    MaxBreaks  \* bound: raising calls and restarts

ASSUME BatchAssumption == IsFiniteSet(Retried) /\ MaxBreaks \in Nat

VARIABLES
    batch,     \* who is at work: the starting call, the monitor, nobody
    watched,   \* the monitor was started (ghost)
    parentRow, \* the row of the batch; `told` is its outcome
    child,     \* the child rows by connector; "elsewhere": the connector had an
               \* open operation already, which is no child of this batch
    counted,   \* rows that were read and are to be counted, {} when none
    breaks

batchVars == <<batch, watched, parentRow, child, counted, breaks>>

Closed     == {"succeeded", "failed", "skipped", "timed_out"}
RowStatus  == Closed \cup {"queued", "running"}
Progress   == [total : Nat, completed : Nat, bad : Nat]
NoProgress == [total |-> 0, completed |-> 0, bad |-> 0]
Rows(l)    == {c \in Retried : l[c] \in RowStatus}

BatchTypeOK ==
    /\ batch \in {"none", "starting", "watching", "over", "dead"} /\ watched \in BOOLEAN
    /\ parentRow \in [status : RowStatus \cup {"none"}, finished : BOOLEAN, told : Progress]
    /\ parentRow.told.total <= Cardinality(Retried)
    /\ child \in [Retried -> RowStatus \cup {"none", "elsewhere"}]
    /\ counted \subseteq [Retried -> RowStatus \cup {"none", "elsewhere"}] /\ Cardinality(counted) <= 1
    /\ breaks \in 0..MaxBreaks

BatchInit ==
    /\ batch = "none" /\ watched = FALSE
    /\ parentRow = [status |-> "none", finished |-> FALSE, told |-> NoProgress]
    /\ child = [c \in Retried |-> "none"] /\ counted = {} /\ breaks = 0

Break == breaks < MaxBreaks /\ breaks' = breaks + 1

-----------------------------------------------------------------------------

RetryAll ==
    /\ batch = "none"
    /\ batch' = "starting" /\ parentRow' = [parentRow EXCEPT !.status = "queued"]
    /\ UNCHANGED <<watched, child, counted, breaks>>

(* Not eligible, or refused: a skipped row.  Accepted: a queued row.  The  *)
(* answer "duplicate" names the operation that is open already.            *)
Visits(c) ==
    /\ batch = "starting" /\ child[c] = "none"
    /\ \E as \in {"skipped", "queued", "elsewhere"} : child' = [child EXCEPT ![c] = as]
    /\ UNCHANGED <<batch, watched, parentRow, counted, breaks>>

CountsRows ==
    /\ \/ batch = "starting" /\ \A c \in Retried : child[c] # "none"
       \/ batch = "watching"
    /\ counted = {} /\ counted' = {child}
    /\ UNCHANGED <<batch, watched, parentRow, child, breaks>>

Aggregate(l) ==
    [total     |-> Cardinality(Rows(l)),
     completed |-> Cardinality({c \in Rows(l) : l[c] \in Closed}),
     bad       |-> Cardinality({c \in Rows(l) : l[c] \in {"failed", "timed_out"}})]

(* Mutant: a batch is over once nothing of it waits.                       *)
NothingWaits(l) == \A c \in Retried : l[c] # "queued"
AllDone(l)      == Aggregate(l).completed = Aggregate(l).total

(* Neither write asks whether the row is still open, and neither takes     *)
(* finished_at back.                                                       *)
WritesParent(l, status) ==
    /\ parentRow' = [status |-> status, finished |-> parentRow.finished \/ AllDone(l), told |-> Aggregate(l)]
    /\ counted' = {}
    /\ UNCHANGED <<child, breaks>>

(* The starting call does not look at what failed.                         *)
StartEnds ==
    /\ batch = "starting"
    /\ \E l \in counted :
          /\ WritesParent(l, IF AllDone(l) THEN "succeeded" ELSE "running")
          /\ batch' = IF AllDone(l) THEN "over" ELSE "watching"
          /\ watched' = ~AllDone(l)

MonitorWrites ==
    /\ batch = "watching"
    /\ \E l \in counted :
          /\ WritesParent(l, IF Aggregate(l).bad > 0 THEN "failed"
                             ELSE IF AllDone(l) THEN "succeeded" ELSE "running")
          /\ batch' = IF AllDone(l) THEN "over" ELSE "watching"
    /\ UNCHANGED watched

(* A call raises in the request or in the monitor thread, or the process   *)
(* restarts: nobody works on the batch any more.                           *)
BatchDies ==
    /\ batch \in {"starting", "watching"} /\ Break
    /\ batch' = "dead" /\ counted' = {}
    /\ UNCHANGED <<watched, parentRow, child>>

-----------------------------------------------------------------------------

ChildRuns(c) ==
    /\ child[c] = "queued" /\ child' = [child EXCEPT ![c] = "running"]
    /\ UNCHANGED <<batch, watched, parentRow, counted, breaks>>

ChildEnds(c) ==
    /\ \/ child[c] = "queued" /\ child' = [child EXCEPT ![c] = "timed_out"]
       \/ child[c] = "running"
          /\ \E as \in {"succeeded", "failed", "timed_out"} : child' = [child EXCEPT ![c] = as]
    /\ UNCHANGED <<batch, watched, parentRow, counted, breaks>>

(* The parent is a stale row like any other, at a restart and on every     *)
(* tick: also while its monitor is at work.                                *)
ParentReaped ==
    /\ parentRow.status \in {"queued", "running"}
    /\ parentRow' = [status |-> "timed_out", finished |-> TRUE,
                     told |-> NoProgress]
    /\ UNCHANGED <<batch, watched, child, counted, breaks>>

BatchNext ==
    \/ RetryAll \/ CountsRows \/ StartEnds \/ MonitorWrites \/ BatchDies \/ ParentReaped
    \/ \E c \in Retried : Visits(c) \/ ChildRuns(c) \/ ChildEnds(c)

BatchSpec == BatchInit /\ [][BatchNext]_batchVars

-----------------------------------------------------------------------------

(* The row of a Retry all tells its children: it never says "succeeded"    *)
(* while one of them is open, and says "failed" only if one failed or      *)
(* timed out, whatever died or timed the row out in between.  When its     *)
(* monitor is done the row is finished, counts every child as it ended,    *)
(* and is "failed" exactly if one failed or timed out.                     *)
BatchTold ==
    LET bad == {c \in Retried : child[c] \in {"failed", "timed_out"}}
    IN  /\ parentRow.status = "succeeded" => \A c \in Retried : child[c] \notin {"queued", "running"}
        /\ parentRow.status = "failed" => bad # {}
        /\ batch = "over" =>
              /\ parentRow.finished /\ parentRow.told = Aggregate(child)
              /\ watched => parentRow.status = IF bad # {} THEN "failed" ELSE "succeeded"
=============================================================================
