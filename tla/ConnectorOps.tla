---------------------------- MODULE ConnectorOps ----------------------------
(***************************************************************************)
(* The connector operation manager: blackwatch/connectors/operations.py    *)
(* with the storage calls it makes and the part of runner.py that writes   *)
(* the connector row.                                                      *)
(*                                                                         *)
(* Threads.  A Caller (an API request, the scheduler) walks through        *)
(* start_connector_operation; each operation has one worker thread of the  *)
(* pool, one timeout timer and, on every scheduler tick, the reaper.  Each *)
(* database statement is a step of its own; in-memory work between two     *)
(* statements that no other thread can see is merged into the step before. *)
(*                                                                         *)
(* The PostgreSQL rows (status, owner, count, reason, meta, lastBy,        *)
(* enabled, verified) survive Restart, everything else is lost in it.      *)
(***************************************************************************)
EXTENDS Naturals, FiniteSets

CONSTANTS
    Connector,      \* connector identifiers
    Caller,         \* threads that call start_connector_operation
    MaxOps,         \* bound: operations created in a behaviour
    MaxConcurrent,  \* MAX_CONCURRENT_OPERATIONS: slots, and pool threads
    MaxRetry,       \* retry counts saturate here (the backoff does, at 4)
    DbFaults,       \* may a storage call raise?
    Administered    \* connectors administrators edit, switch and retry

ASSUME ConstantsAssumption ==
    /\ IsFiniteSet(Connector) /\ IsFiniteSet(Caller)
    /\ MaxOps \in Nat /\ MaxConcurrent \in Nat \ {0} /\ MaxRetry \in Nat \ {0}
    /\ DbFaults \in BOOLEAN
    /\ Administered \subseteq Connector
    /\ 0 \notin Connector

(* Operations are numbered in the order of requested_at; 0 stands for NULL. *)
Op   == 1..MaxOps
None == 0

VARIABLES
    status,   \* connector_operations.status ("none": no such row)
    owner,    \* connector_operations.connector_id
    count,    \* connector_operations.retry_count
    reason,   \* connector_operations.error_category / outcome.reason
    old,      \* rows whose started_at or requested_at is before the cutoff
    meta,     \* connectors.retry_count, next_attempt_at, scheduler_reason
    lastBy,   \* the operation that wrote connectors.last_status (ghost)
    enabled,  \* connectors.enabled
    verified, \* connectors.verified
    edited,   \* runs whose connector was edited since they read its config (ghost)
    slots,    \* free permits of _operation_slots
    locked,   \* connectors whose entry of _connector_locks is held
    active,   \* keys of _active
    timers,   \* operations whose timeout timer is armed
    job,      \* where the worker of an operation (its Future) is
    result,   \* what the provider call of a run came to
    closer,   \* what the thread that timed an operation out has left to do
    call      \* where each caller is in start_connector_operation

rowVars  == <<status, owner, count, reason, old>>
connVars == <<meta, lastBy, enabled, verified>>
lockVars == <<active, timers, slots, locked>>
vars == <<rowVars, connVars, edited, lockVars, job, result, closer, call>>

Open     == {"queued", "running"}
Terminal == {"succeeded", "failed", "timed_out", "skipped"}
Status   == {"none"} \cup Open \cup Terminal
Reason   == {"none", "failure", "timeout", "process_restart"}
Kind     == {"test", "manual", "scheduled", "retry_all"}

(* "exit" is the moment between the worker's own _finish and the Future    *)
(* being done; "cancelled" is a Future cancelled before a thread took it.  *)
Busy == {"claim", "collect", "report", "record", "retry", "finish", "exit"}
Job  == {"none", "pending", "done", "cancelled"} \cup Busy
Done == {"done", "cancelled"}

Meta == [count : 0..MaxRetry, next : Op \cup {None}, reason : Reason]
NoMeta == [count |-> 0, next |-> None, reason |-> "none"]
Idle   == [at |-> "idle", conn |-> None, base |-> 0, op |-> None]

(* A start call knows its connector throughout, its operation once created. *)
Call ==
    {Idle}
    \cup [at : {"clear", "slot", "lock"}, conn : Connector, base : 0..MaxRetry, op : {None}]
    \cup [at : {"submitted", "registered"}, conn : Connector, base : 0..MaxRetry, op : Op]

TypeOK ==
    /\ status \in [Op -> Status]
    /\ owner \in [Op -> Connector \cup {None}]
    /\ \A o \in Op : status[o] # "none" => owner[o] \in Connector
    /\ count \in [Op -> 0..MaxRetry]
    /\ reason \in [Op -> Reason]
    /\ old \subseteq Op
    /\ meta \in [Connector -> Meta]
    /\ lastBy \in [Connector -> Op \cup {None}]
    /\ enabled \in [Connector -> BOOLEAN]
    /\ verified \in [Connector -> BOOLEAN]
    /\ edited \subseteq Op
    /\ slots \in Nat
    /\ locked \subseteq Connector
    /\ active \subseteq Op
    /\ timers \subseteq Op
    /\ job \in [Op -> Job]
    /\ result \in [Op -> {"none", "ok", "error"}]
    /\ closer \in [Op -> {"none", "retry", "detach", "recover"}]
    /\ call \in [Caller -> Call]

Init ==
    /\ status = [o \in Op |-> "none"]
    /\ owner = [o \in Op |-> None]
    /\ count = [o \in Op |-> 0]
    /\ reason = [o \in Op |-> "none"]
    /\ old = {}
    /\ meta = [c \in Connector |-> NoMeta]
    /\ lastBy = [c \in Connector |-> None]
    /\ enabled \in [Connector -> BOOLEAN]
    /\ verified \in [Connector -> BOOLEAN]
    /\ edited = {}
    /\ slots = MaxConcurrent
    /\ locked = {}
    /\ active = {}
    /\ timers = {}
    /\ job = [o \in Op |-> "none"]
    /\ result = [o \in Op |-> "none"]
    /\ closer = [o \in Op |-> "none"]
    /\ call = [p \in Caller |-> Idle]

-----------------------------------------------------------------------------
(* Helpers *)

(* find_active_connector_operation; mutant: overlooks queued rows. *)
RunningFor(c) == {o \in Op : owner[o] = c /\ status[o] = "running"}
OpenFor(c) == {o \in Op : owner[o] = c /\ status[o] \in Open}

(* The guard of the SQL statements that report and close; mutant: none. *)
OpenAssumed(o) == TRUE
StillOpen(o) == status[o] \in Open

RunsOf(c)  == {o \in Op : owner[o] = c /\ job[o] \in {"collect", "report"}}
Fresh(o)   == status[o] = "none" /\ \A q \in Op : q < o => status[q] # "none"
Threads    == {o \in Op : job[o] \in Busy}
Starting(o) == \E p \in Caller : call[p].op = o

(* A failure counts, up to the cap of the backoff; mutant: no cap. *)
BumpUncapped(n) == n + 1
Bump(n) == IF n < MaxRetry THEN n + 1 ELSE n

(* The values set_connector_retry is called with once operation o closed. *)
RetryAfter(s, n, o, r) ==
    IF s = "succeeded" THEN NoMeta ELSE [count |-> n, next |-> o, reason |-> r]
Desired(o) == RetryAfter(status[o], count[o], o, reason[o])

(* _finish and _detach_active_operation on the operations S: whoever pops  *)
(* the entry of _active returns its slot and its connector lock; mutant:   *)
(* they are returned without looking whether there was an entry.           *)
ReleaseUnchecked(S) ==
    /\ active' = active \ S
    /\ timers' = timers \ S
    /\ slots'  = slots + Cardinality(S)
    /\ locked' = locked \ {owner[o] : o \in S}

Release(S) ==
    /\ active' = active \ S
    /\ timers' = timers \ S
    /\ slots'  = slots + Cardinality(active \cap S)
    /\ locked' = locked \ {owner[o] : o \in active \cap S}

(* Bound: nobody asks for an operation beyond the MaxOps rows. *)
RowsLeft == Cardinality({p \in Caller : call[p].at \in {"clear", "slot", "lock"}})
            < Cardinality({o \in Op : status[o] = "none"})

(* The start call returns. *)
Abandon(p) == call' = [call EXCEPT ![p] = Idle]

(* A compare-and-set of the operation row against the open states.         *)
CloseRow(o, s, n, r) ==
    /\ status' = [status EXCEPT ![o] = s]
    /\ count'  = [count EXCEPT ![o] = n]
    /\ reason' = [reason EXCEPT ![o] = r]
    /\ UNCHANGED <<owner, old>>

-----------------------------------------------------------------------------
(* start_connector_operation *)

Admissible(c, k) ==
    CASE k = "manual"    -> verified[c]
      [] k = "scheduled" -> enabled[c] /\ verified[c]
      [] OTHER           -> TRUE

(* Entries of _active whose Future is done(); mutants: not running(),       *)
(* cancelled(), and judged by the row instead of the Future.               *)
FinishedUnlessRunning   == {o \in active : job[o] \notin Busy}
FinishedOnlyIfCancelled == {o \in active : job[o] = "cancelled"}
FinishedByRow           == {o \in active : status[o] \in Terminal}
Finished == {o \in active : job[o] \in Done}

(* The guards, _prune_completed_operations and the duplicate check; when   *)
(* the check itself raises, _active_result answers "no duplicate".         *)
Request(p, c, k, n) ==
    /\ call[p].at = "idle"
    /\ Admissible(c, k)
    /\ Release(Finished)
    /\ \E blind \in {FALSE, DbFaults} :
         call' = IF OpenFor(c) = {} \/ blind
                 THEN [call EXCEPT ![p] = [at |-> "clear", conn |-> c,
                                           base |-> n, op |-> None]]
                 ELSE call
    /\ UNCHANGED <<rowVars, connVars, edited, job, result, closer>>

(* The retry_count a start call is made with: the connector row's for the  *)
(* scheduler and for Retry all, 0 for the buttons.                         *)
BaseFor(c, k) == IF k \in {"scheduled", "retry_all"} THEN meta[c].count ELSE 0

Live == {o \in active : job[o] \notin Done}

AcquireSlot(p) ==
    /\ call[p].at = "clear"
    /\ IF slots > 0 /\ Cardinality(Live) < MaxConcurrent
       THEN /\ slots' = slots - 1
            /\ call' = [call EXCEPT ![p].at = "slot"]
       ELSE /\ Abandon(p)
            /\ UNCHANGED slots
    /\ UNCHANGED <<rowVars, connVars, edited, active, timers, locked,
                   job, result, closer>>

AcquireLock(p) ==
    /\ call[p].at = "slot"
    /\ LET c == call[p].conn IN
       IF c \in locked
       THEN /\ slots' = slots + 1
            /\ Abandon(p)
            /\ UNCHANGED locked
       ELSE /\ locked' = locked \cup {c}
            /\ call' = [call EXCEPT ![p].at = "lock"]
            /\ UNCHANGED slots
    /\ UNCHANGED <<rowVars, connVars, edited, active, timers,
                   job, result, closer>>

(* create_connector_operation, then _executor.submit. *)
CreateAndSubmit(p) ==
    /\ call[p].at = "lock"
    /\ \E o \in Op :
         /\ Fresh(o)
         /\ status' = [status EXCEPT ![o] = "queued"]
         /\ owner'  = [owner EXCEPT ![o] = call[p].conn]
         /\ count'  = [count EXCEPT ![o] = call[p].base]
         /\ job'    = [job EXCEPT ![o] = "pending"]
         /\ call'   = [call EXCEPT ![p] = [at |-> "submitted", conn |-> call[p].conn,
                                            base |-> call[p].base, op |-> o]]
    /\ UNCHANGED <<reason, old, connVars, edited, lockVars, result, closer>>

(* The start fails: slot and lock are given back. *)
GiveBack(p) ==
    /\ call[p].at = "lock"
    /\ slots' = slots + 1
    /\ locked' = locked \ {call[p].conn}
    /\ Abandon(p)
    /\ UNCHANGED <<rowVars, connVars, edited, active, timers,
                   job, result, closer>>

(* The insert raises, and leaves no row. *)
CreateFails(p) == DbFaults /\ GiveBack(p)

(* The entry of _active, and the timer. *)
Register(p) ==
    /\ call[p].at = "submitted"
    /\ active' = active \cup {call[p].op}
    /\ timers' = timers \cup {call[p].op}
    /\ call' = [call EXCEPT ![p].at = "registered"]
    /\ UNCHANGED <<rowVars, connVars, edited, slots, locked,
                   job, result, closer>>

(* A worker faster than Register left its entry behind: clean it up. *)
DoneCheck(p) ==
    /\ call[p].at = "registered"
    /\ Release({call[p].op} \cap Finished)
    /\ Abandon(p)
    /\ UNCHANGED <<rowVars, connVars, edited, job, result, closer>>

StartStep(p) == AcquireSlot(p) \/ AcquireLock(p) \/ CreateAndSubmit(p)
                \/ Register(p) \/ DoneCheck(p)

-----------------------------------------------------------------------------
(* _execute, on a thread of the pool *)

TakeThread(o) ==
    /\ job[o] = "pending"
    /\ Cardinality(Threads) < MaxConcurrent
    /\ job' = [job EXCEPT ![o] = "claim"]
    /\ UNCHANGED <<rowVars, connVars, edited, lockVars, result, closer, call>>

(* mark_connector_operation_running: a compare-and-set from queued;        *)
(* mutant: a plain update.                                                 *)
ClaimUnconditionally(o) ==
    /\ job[o] = "claim"
    /\ status' = [status EXCEPT ![o] = "running"]
    /\ job' = [job EXCEPT ![o] = "collect"]
    /\ UNCHANGED <<owner, count, reason, old, connVars, edited, lockVars,
                   result, closer, call>>

Claim(o) ==
    /\ job[o] = "claim"
    /\ IF status[o] = "queued"
       THEN /\ status' = [status EXCEPT ![o] = "running"]
            /\ old' = old \ {o}
            /\ job' = [job EXCEPT ![o] = "collect"]
       ELSE /\ job' = [job EXCEPT ![o] = "finish"]
            /\ UNCHANGED <<status, old>>
    /\ UNCHANGED <<owner, count, reason, connVars, edited, lockVars,
                   result, closer, call>>

(* The claim raises outside the try block: the Future ends with _finish    *)
(* never called.                                                           *)
ClaimFails(o) ==
    /\ DbFaults
    /\ job[o] = "claim"
    /\ job' = [job EXCEPT ![o] = "exit"]
    /\ UNCHANGED <<rowVars, connVars, edited, lockVars, result, closer, call>>

(* The provider call of run_connector; nothing forces it to return.        *)
Collect(o) ==
    /\ job[o] = "collect"
    /\ \E r \in {"ok", "error"} : result' = [result EXCEPT ![o] = r]
    /\ job' = [job EXCEPT ![o] = "report"]
    /\ UNCHANGED <<rowVars, connVars, edited, lockVars, closer, call>>

(* set_connector_status, guarded in SQL by the operation still being open. *)
Report(o) ==
    /\ job[o] = "report"
    /\ job' = [job EXCEPT ![o] = "record"]
    /\ IF StillOpen(o)
       THEN /\ lastBy' = [lastBy EXCEPT ![owner[o]] = o]
            /\ verified' = IF result[o] = "ok"
                           THEN [verified EXCEPT ![owner[o]] = TRUE]
                           ELSE verified
       ELSE UNCHANGED <<lastBy, verified>>
    /\ UNCHANGED <<rowVars, meta, enabled, edited, lockVars, result, closer, call>>

(* The status write raises: the run is then recorded as a failure. *)
ReportFails(o) ==
    /\ DbFaults
    /\ job[o] = "report"
    /\ job' = [job EXCEPT ![o] = "record"]
    /\ result' = [result EXCEPT ![o] = "error"]
    /\ UNCHANGED <<rowVars, connVars, edited, lockVars, closer, call>>

(* The terminal compare-and-set of a run that ended by itself. *)
Record(o) ==
    /\ job[o] = "record"
    /\ IF StillOpen(o)
       THEN /\ IF result[o] = "ok"
               THEN CloseRow(o, "succeeded", count[o], "none")
               ELSE CloseRow(o, "failed", Bump(meta[owner[o]].count), "failure")
            /\ job' = [job EXCEPT ![o] = "retry"]
       ELSE /\ job' = [job EXCEPT ![o] = "finish"]
            /\ UNCHANGED rowVars
    /\ UNCHANGED <<connVars, edited, lockVars, result, closer, call>>

(* The terminal write raises: a success is retried as a failure, a failure *)
(* leaves the row open for the reaper.                                     *)
RecordFails(o) ==
    /\ DbFaults
    /\ job[o] = "record"
    /\ \/ /\ result[o] = "ok"
          /\ result' = [result EXCEPT ![o] = "error"]
          /\ UNCHANGED job
       \/ /\ job' = [job EXCEPT ![o] = "finish"]
          /\ UNCHANGED result
    /\ UNCHANGED <<rowVars, connVars, edited, lockVars, closer, call>>

SetRetry(o) ==
    /\ job[o] = "retry"
    /\ meta' = [meta EXCEPT ![owner[o]] = Desired(o)]
    /\ job' = [job EXCEPT ![o] = "finish"]
    /\ UNCHANGED <<rowVars, lastBy, enabled, verified, edited, lockVars,
                   result, closer, call>>

SetRetryFails(o) ==
    /\ DbFaults
    /\ job[o] = "retry"
    /\ job' = [job EXCEPT ![o] = "finish"]
    /\ UNCHANGED <<rowVars, connVars, edited, lockVars, result, closer, call>>

Finish(o) ==
    /\ job[o] = "finish"
    /\ Release({o})
    /\ job' = [job EXCEPT ![o] = "exit"]
    /\ UNCHANGED <<rowVars, connVars, edited, result, closer, call>>

Exit(o) ==
    /\ job[o] = "exit"
    /\ job' = [job EXCEPT ![o] = "done"]
    /\ UNCHANGED <<rowVars, connVars, edited, lockVars, result, closer, call>>

WorkerStep(o) == Claim(o) \/ Report(o) \/ Record(o) \/ SetRetry(o)
                 \/ Finish(o) \/ Exit(o)
WorkerFault(o) == ClaimFails(o) \/ ReportFails(o) \/ RecordFails(o)
                  \/ SetRetryFails(o)

-----------------------------------------------------------------------------
(* _timeout_operation, from the timer or from the reaper *)

TimeOutRow(o, r, next) ==
    /\ CloseRow(o, "timed_out", Bump(count[o]), r)
    /\ closer' = [closer EXCEPT ![o] = next]

(* The timer fires once, at an arbitrary time; its reads or its write may  *)
(* raise, which ends the timer thread and leaves the rest to the reaper.   *)
TimerFires(o) ==
    /\ o \in timers
    /\ timers' = timers \ {o}
    /\ IF o \in active /\ job[o] \notin Done /\ status[o] \in Open
       THEN TimeOutRow(o, "timeout", "retry")
       ELSE UNCHANGED <<rowVars, closer>>
    /\ UNCHANGED <<connVars, edited, slots, locked, active, job, result, call>>

TimerFails(o) ==
    /\ DbFaults
    /\ o \in timers
    /\ timers' = timers \ {o}
    /\ UNCHANGED <<rowVars, connVars, edited, slots, locked, active,
                   job, result, closer, call>>

(* 120 seconds pass for an open row.  A start call takes milliseconds, so  *)
(* a row does not become stale while its caller is still inside it.        *)
Age(o) ==
    /\ status[o] \in Open
    /\ o \notin old
    /\ ~Starting(o)
    /\ old' = old \cup {o}
    /\ UNCHANGED <<status, owner, count, reason, connVars, edited, lockVars,
                   job, result, closer, call>>

(* reap_stale_operations on an entry of _active whose Future is done. *)
ReapDone(o) ==
    /\ o \in Finished
    /\ Release({o})
    /\ UNCHANGED <<rowVars, connVars, edited, job, result, closer, call>>

(* reap_stale_operations on a live entry of _active whose row is stale. *)
ReapStale(o) ==
    /\ o \in Live \cap old
    /\ status[o] \in Open
    /\ TimeOutRow(o, "timeout", "retry")
    /\ UNCHANGED <<connVars, edited, lockVars, job, result, call>>

(* recover_stale_operations, in the same pass, with a cutoff of its own    *)
(* that is later: it closes every stale row, registered or not (one that   *)
(* crossed 120 seconds since the loop above looked at it still is), and    *)
(* leaves entry, timer, slot and lock where they are.  Mutant: only rows   *)
(* with a started_at are looked for.                                       *)
RecoverStarted(o) ==
    /\ o \in old
    /\ status[o] = "running"
    /\ TimeOutRow(o, "process_restart", "recover")
    /\ UNCHANGED <<connVars, edited, lockVars, job, result, call>>

Recover(o) ==
    /\ o \in old
    /\ status[o] \in Open
    /\ TimeOutRow(o, "process_restart", "recover")
    /\ UNCHANGED <<connVars, edited, lockVars, job, result, call>>

(* The second write of a timeout; when it raises the entry is detached     *)
(* all the same.  A recovery writes it too and detaches nothing.           *)
AfterRetry(o) == IF closer[o] = "retry" THEN "detach" ELSE "none"

CloserSetsRetry(o) ==
    /\ closer[o] \in {"retry", "recover"}
    /\ meta' = [meta EXCEPT ![owner[o]] = Desired(o)]
    /\ closer' = [closer EXCEPT ![o] = AfterRetry(o)]
    /\ UNCHANGED <<rowVars, lastBy, enabled, verified, edited, lockVars,
                   job, result, call>>

CloserFails(o) ==
    /\ DbFaults
    /\ closer[o] \in {"retry", "recover"}
    /\ closer' = [closer EXCEPT ![o] = AfterRetry(o)]
    /\ UNCHANGED <<rowVars, connVars, edited, lockVars, job, result, call>>

(* _detach_active_operation: the slot and the lock come back although the  *)
(* worker thread may still be inside the provider call.                    *)
Detach(o) ==
    /\ closer[o] = "detach"
    /\ closer' = [closer EXCEPT ![o] = "none"]
    /\ Release({o})
    /\ job' = IF o \in active /\ job[o] = "pending"
              THEN [job EXCEPT ![o] = "cancelled"] ELSE job
    /\ UNCHANGED <<rowVars, connVars, edited, result, call>>

CloserStep(o) == CloserSetsRetry(o) \/ Detach(o)
ReaperStep(o) == ReapDone(o) \/ ReapStale(o) \/ Recover(o)

-----------------------------------------------------------------------------
(* Administration and process life *)

(* upsert_connector on an existing row. *)
EditConfig(c) ==
    /\ c \in Administered
    /\ verified' = [verified EXCEPT ![c] = FALSE]
    /\ edited' = edited \cup RunsOf(c)
    /\ UNCHANGED <<rowVars, meta, lastBy, enabled, lockVars,
                   job, result, closer, call>>

SetEnabled(c) ==
    /\ c \in Administered
    /\ enabled' = [enabled EXCEPT ![c] = ~enabled[c]]
    /\ UNCHANGED <<rowVars, meta, lastBy, verified, edited, lockVars,
                   job, result, closer, call>>

(* start_retry_all records a connector it does not start as a row that is  *)
(* born terminal.                                                          *)
SkipItem(c) ==
    /\ c \in Administered
    /\ \E o \in Op :
         /\ Fresh(o)
         /\ status' = [status EXCEPT ![o] = "skipped"]
         /\ owner'  = [owner EXCEPT ![o] = c]
    /\ UNCHANGED <<count, reason, old, connVars, edited, lockVars,
                   job, result, closer, call>>

(* The process dies and comes back: threads, timers, locks and the slot    *)
(* count are gone, the rows are not.                                       *)
Restart ==
    /\ slots' = MaxConcurrent
    /\ locked' = {}
    /\ active' = {}
    /\ timers' = {}
    /\ edited' = {}
    /\ job' = [o \in Op |-> "none"]
    /\ result' = [o \in Op |-> "none"]
    /\ closer' = [o \in Op |-> "none"]
    /\ call' = [p \in Caller |-> Idle]
    /\ UNCHANGED <<rowVars, connVars>>

Next ==
    \/ \E p \in Caller, c \in Connector, k \in Kind :
          RowsLeft /\ Request(p, c, k, BaseFor(c, k))
    \/ \E p \in Caller : StartStep(p) \/ CreateFails(p)
    \/ \E o \in Op : TakeThread(o)
    \/ \E o \in Op : WorkerStep(o)
    \/ \E o \in Op : WorkerFault(o)
    \/ \E o \in Op : Collect(o)
    \/ \E o \in Op : TimerFires(o) \/ TimerFails(o)
    \/ \E o \in Op : Age(o)
    \/ \E o \in Op : ReaperStep(o)
    \/ \E o \in Op : CloserStep(o) \/ CloserFails(o)
    \/ \E c \in Connector : EditConfig(c) \/ SetEnabled(c)
    \/ \E c \in Connector : RowsLeft /\ SkipItem(c)
    \/ Restart

Spec == Init /\ [][Next]_vars

(* Threads that are running keep running, timers fire, time passes and the *)
(* scheduler keeps ticking: for each operation, one of these goes on.      *)
(* Nothing is assumed of the provider call, of the users, of a free pool   *)
(* thread or of the process staying up.                                    *)
Progress(o) == WorkerStep(o) \/ TimerFires(o) \/ Age(o) \/ ReaperStep(o) \/ CloserStep(o)

Fairness == /\ \A p \in Caller : WF_vars(StartStep(p))
            /\ \A o \in Op : WF_vars(Progress(o))

FairSpec == Spec /\ Fairness

-----------------------------------------------------------------------------
(* Safety *)

SlotHolder == {p \in Caller : call[p].at \in {"slot", "lock", "submitted"}}
LockHolder(c) == {p \in Caller : call[p].at \in {"lock", "submitted"} /\ call[p].conn = c}
ActiveFor(c)  == {o \in active : owner[o] = c}

(* No permit of _operation_slots is ever lost or returned twice, whichever *)
(* of the worker, the timer, the reaper, the pruning start call and the    *)
(* done check of the start gets to an operation first (_finish and         *)
(* _detach_active_operation).                                              *)
SlotAccounting ==
    slots + Cardinality(SlotHolder) + Cardinality(active) = MaxConcurrent

(* A connector lock is held exactly while one start call or one entry of   *)
(* _active stands for it: nobody releases the lock of a newer operation    *)
(* (_detach_active_operation: "without allowing its finally block to       *)
(* release a lock belonging to a newer retry").                            *)
LockDiscipline ==
    \A c \in Connector :
        /\ c \in locked <=> LockHolder(c) # {} \/ ActiveFor(c) # {}
        /\ LockHolder(c) = {} \/ ActiveFor(c) = {}
        /\ \A p, q \in LockHolder(c) : p = q
        /\ \A o, q \in ActiveFor(c) : o = q

(* Until it has recorded its verdict, a worker whose row is open is the    *)
(* only such worker of its connector, even while workers of timed-out      *)
(* operations still hang in the provider call.                             *)
LiveRun(o) == status[o] \in Open
              /\ job[o] \in {"pending", "claim", "collect", "report", "record"}
ExclusiveRun ==
    \A o, q \in Op : LiveRun(o) /\ LiveRun(q) /\ owner[o] = owner[q] => o = q

(* What the two accountings rest on: an operation is registered once, by   *)
(* the call that created it; an open row with a worker before its verdict  *)
(* is registered or about to be; only closed rows are being detached.      *)
Registered ==
    /\ \A p \in Caller : call[p].at = "submitted" =>
          /\ call[p].op \notin active
          /\ status[call[p].op] # "none"
          /\ owner[call[p].op] = call[p].conn
    /\ \A o \in active : status[o] # "none"
Held(o) == o \in active \/ \E p \in Caller : call[p].at = "submitted" /\ call[p].op = o
LiveHeld == \A o \in Op : LiveRun(o) => Held(o)
CloserClosed == \A o \in Op : closer[o] # "none" => status[o] = "timed_out"

OpsInv == /\ TypeOK /\ Registered /\ LockDiscipline /\ SlotAccounting
          /\ LiveHeld /\ CloserClosed

(* And the orders: rows are created in order, none after that of a held    *)
(* operation, a verdict's retry metadata is written while it is held, and  *)
(* last_status comes from an operation that ran.                           *)
RowsInOrder ==
    /\ \A o, q \in Op : o < q /\ status[o] = "none" => status[q] = "none"
    /\ \A o \in Op : status[o] = "none" => owner[o] = None
HeldIsNewest ==
    \A o, q \in Op : Held(o) /\ o < q /\ owner[q] = owner[o] => status[q] \in {"none", "skipped"}
RetryHeld == \A o \in Op : job[o] = "retry" => Held(o) /\ status[o] \in {"succeeded", "failed"}
LastRan ==
    \A c \in Connector : lastBy[c] # None =>
        owner[lastBy[c]] = c /\ status[lastBy[c]] \notin {"none", "skipped"}

OrderInv == RowsInOrder /\ HeldIsNewest /\ RetryHeld /\ LastRan

(* Without storage faults a connector never has two open rows, across      *)
(* restarts too: the duplicate check and the lock together do what no      *)
(* constraint of the table does.                                           *)
OneOpenRow == \A o, q \in Op : /\ status[o] \in Open /\ status[q] \in Open
                               /\ owner[o] = owner[q]
                               => o = q

(* What that and the ledger below rest on: a row leaves "queued" when its   *)
(* worker claims it; only a storage fault or a restart separates an open   *)
(* row from a worker that will close it; and a start call past the         *)
(* duplicate check has seen no row that a restart left behind.             *)
ClaimedRuns ==
    \A o \in Op : /\ job[o] \in {"pending", "claim"} => status[o] # "running"
                  /\ job[o] \in {"collect", "report", "record"} => status[o] # "queued"
Orphan(o) == status[o] \in Open /\ job[o] = "none"
OpenIsLive == \A o \in Op : status[o] \in Open => LiveRun(o) \/ Orphan(o)
OrphanBlocks ==
    \A p \in Caller, o \in Op :
        call[p].at \in {"clear", "slot", "lock"} /\ Orphan(o) => owner[o] # call[p].conn

RowInv == /\ ClaimedRuns
          /\ ~DbFaults => OpenIsLive /\ OrphanBlocks /\ OneOpenRow

(* A closed operation keeps its verdict and its retry count: the timer,    *)
(* the reaper and the late worker compare-and-set the row.                 *)
TerminalFinal ==
    [][\A o \in Op : status[o] \in Terminal =>
          status'[o] = status[o] /\ count'[o] = count[o] /\ reason'[o] = reason[o]]_vars

(* connectors.last_status only moves to newer operations: a provider       *)
(* answer that arrives after its operation timed out never overwrites what *)
(* a later run reported.                                                   *)
StatusWritesInOrder ==
    [][\A c \in Connector : lastBy'[c] # lastBy[c] => lastBy'[c] > lastBy[c]]_vars

(* A connector becomes verified only by a run of the configuration it has  *)
(* (upsert_connector: "Editing config resets `verified` (host/key may have *)
(* changed) so it must be re-tested").  A run that was under way when the  *)
(* configuration changed verifies it all the same.                         *)
VerifiedMeansTested ==
    [][\A c \in Connector :
          ~verified[c] /\ verified'[c] => lastBy'[c] \notin edited]_vars

(* The retry metadata a worker or a timeout of a live operation writes is  *)
(* that of the newest operation started for the connector: its lock is     *)
(* still held, so no later verdict can be overwritten.                     *)
RetryWriteIsNewest ==
    [][\A o \in Op :
          (job[o] = "retry" \/ (closer[o] \in {"retry", "recover"} /\ o \in active))
            /\ meta' # meta /\ meta'[owner[o]] # meta[owner[o]]
          => \A q \in Op : q > o /\ owner[q] = owner[o] => status[q] = "skipped"]_vars

-----------------------------------------------------------------------------
(* Liveness, and the abstract specification *)

(* Every accepted operation is closed even if its provider call never      *)
(* returns, its thread never starts or the process restarts.               *)
OperationsClose == \A o \in Op : status[o] \in Open ~> status[o] \in Terminal

(* Every slot and connector lock an operation took comes back, also when   *)
(* the worker finished before it was registered ("the tiny submit/register *)
(* race") and when the worker hangs: its timer or the reaper detaches it.  *)
(* The one exception: recover_stale_operations closed the row first, and   *)
(* the provider call never returns or no thread is left to start it; then  *)
(* timer and reaper find a closed row and return, and entry, slot and lock *)
(* stay taken until the process restarts.                                  *)
LeftByRecovery(o) == reason[o] = "process_restart" /\ job[o] \in {"pending", "collect"}
SlotsReturn == \A o \in Op : o \in active ~> o \notin active \/ LeftByRecovery(o)

(* The ledger callers see, and the verdicts not yet on the connector row.  *)
Writing == {o \in Op : job[o] = "retry" \/ closer[o] \in {"retry", "recover"}}
Ledger  == INSTANCE OperationLedger WITH Faults <- DbFaults, writing <- Writing

(* The manager implements the ledger: whatever threads, timers, the reaper *)
(* and restarts do to each other, callers see one life per operation.      *)
ImplementsLedger == Ledger!Spec
=============================================================================
