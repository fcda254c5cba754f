---------------------------- MODULE Investigations ----------------------------
(***************************************************************************)
(* One investigation and its scans: the requests of the API (api.py,       *)
(* investigation_flow.py), the table investigation_scans and the worker    *)
(* thread (investigation_worker.py).  A unique index allows one queued or  *)
(* running scan of a case, so the newest scan is all there is to follow.   *)
(* Every database call is a step of its own, and may fail.                 *)
(***************************************************************************)
EXTENDS Integers

CONSTANTS
    Caller,      \* API requests in flight
    MaxTroubles  \* bound: failing calls, restarts and status edits

ASSUME InvestigationAssumption == MaxTroubles \in Nat

Active   == {"queued", "running"}
Verdicts == {"ready", "inconclusive"}

VARIABLES
    case,      \* investigations.status
    job,       \* the newest row of investigation_scans
    request,   \* where each request is
    worker,    \* where the worker thread is
    orphan,    \* the job runs, and no thread is on it (ghost)
    excuse,    \* case was written behind the back of the scan (ghost)
    troubles

caseVars == <<case, job, request, worker, orphan, excuse, troubles>>

CaseTypeOK ==
    /\ case \in {"new", "investigating", "closed"} \cup Verdicts
    /\ job \in {"none", "complete", "failed"} \cup Active
    /\ request \in [Caller -> {"idle", "admitted", "marked"}]
    /\ worker \in {"idle", "scanning", "answered", "handling", "gaveUp", "dead"}
    /\ {orphan, excuse} \subseteq BOOLEAN
    /\ troubles \in 0..MaxTroubles

CaseInit ==
    /\ case = "new" /\ job = "none"
    /\ request = [c \in Caller |-> "idle"] /\ worker = "idle"
    /\ orphan = FALSE /\ excuse = FALSE /\ troubles = 0

Trouble == troubles < MaxTroubles /\ troubles' = troubles + 1

-----------------------------------------------------------------------------
(* Requests: investigations_create and investigations_scan *)

(* The row is read; a closed case is not scanned.                          *)
Admit(c) ==
    /\ request[c] = "idle" /\ case # "closed"
    /\ request' = [request EXCEPT ![c] = "admitted"]
    /\ UNCHANGED <<case, job, worker, orphan, excuse, troubles>>

(* The status is set first: it may overtake a worker that has written its  *)
(* verdict and has yet to close the scan.                                  *)
Mark(c) ==
    /\ request[c] = "admitted"
    /\ case' = "investigating"
    /\ excuse' = (worker \in {"answered", "gaveUp"})
    /\ request' = [request EXCEPT ![c] = "marked"]
    /\ UNCHANGED <<job, worker, orphan, troubles>>

(* create_investigation_scan: ON CONFLICT DO NOTHING when one is active.   *)
(* (The second SELECT then answers with that scan, or fails when it is     *)
(* finished by then; neither changes anything.)                            *)
Enqueue(c) ==
    /\ request[c] = "marked"
    /\ job' = IF job \in Active THEN job ELSE "queued"
    /\ request' = [request EXCEPT ![c] = "idle"]
    /\ UNCHANGED <<case, worker, orphan, excuse, troubles>>

(* One of the two calls fails; the first is not undone.                    *)
RequestFails(c) ==
    /\ request[c] # "idle" /\ Trouble
    /\ excuse' = (excuse \/ request[c] = "marked")
    /\ request' = [request EXCEPT ![c] = "idle"]
    /\ UNCHANGED <<case, job, worker, orphan>>

(* investigations_status: the owner sets any status, whatever goes on.     *)
EditStatus(s) ==
    /\ Trouble
    /\ case' = s
    /\ excuse' = TRUE
    /\ UNCHANGED <<job, request, worker, orphan>>

-----------------------------------------------------------------------------
(* The worker: _loop *)

Claim ==
    /\ worker = "idle" /\ job = "queued"
    /\ job' = "running" /\ worker' = "scanning"
    /\ UNCHANGED <<case, request, orphan, excuse, troubles>>

(* What the worker writes to the case.  Mutant: a scan that failed leaves  *)
(* the case as it is.                                                      *)
VerdictOfSuccess(ok) == IF ok THEN "ready" ELSE case
Verdict(ok)          == IF ok THEN "ready" ELSE "inconclusive"

(* run_investigation_scan and update_investigation_status(.., "ready")     *)
Answer ==
    /\ worker = "scanning"
    /\ case' = Verdict(TRUE) /\ excuse' = FALSE
    /\ worker' = "answered"
    /\ UNCHANGED <<job, request, orphan, troubles>>

Complete ==
    /\ worker = "answered"
    /\ job' = "complete" /\ worker' = "idle"
    /\ UNCHANGED <<case, request, orphan, excuse, troubles>>

(* Any of these raises: no such row, no IP, a database error.              *)
ScanRaises ==
    /\ worker \in {"scanning", "answered"} /\ Trouble
    /\ worker' = "handling"
    /\ UNCHANGED <<case, job, request, orphan, excuse>>

GiveUp ==
    /\ worker = "handling"
    /\ case' = Verdict(FALSE) /\ excuse' = FALSE
    /\ worker' = "gaveUp"
    /\ UNCHANGED <<job, request, orphan, troubles>>

CloseFailed ==
    /\ worker = "gaveUp"
    /\ job' = "failed" /\ worker' = "idle"
    /\ UNCHANGED <<case, request, orphan, excuse, troubles>>

(* Nothing catches what the handler raises: the thread is gone.            *)
HandlerRaises ==
    /\ worker \in {"handling", "gaveUp"} /\ Trouble
    /\ worker' = "dead" /\ orphan' = TRUE
    /\ UNCHANGED <<case, job, request, excuse>>

(* The process restarts: lifespan starts a new thread, and nothing resets  *)
(* a scan that was running.                                                *)
Restart ==
    /\ Trouble
    /\ worker' = "idle"
    /\ orphan' = (orphan \/ job = "running")
    /\ excuse' = (excuse \/ \E c \in Caller : request[c] = "marked")
    /\ request' = [c \in Caller |-> "idle"]
    /\ UNCHANGED <<case, job>>

CaseNext ==
    \/ \E c \in Caller : Admit(c) \/ Mark(c) \/ Enqueue(c) \/ RequestFails(c)
    \/ \E s \in {"investigating", "closed"} \cup Verdicts : EditStatus(s)
    \/ Claim \/ Answer \/ Complete \/ ScanRaises
    \/ GiveUp \/ CloseFailed \/ HandlerRaises \/ Restart

CaseSpec == CaseInit /\ [][CaseNext]_caseVars

-----------------------------------------------------------------------------
(* Properties *)

(***************************************************************************)
(* A case does not stay "investigating" with no scan to end it: when no    *)
(* request is half-way and the worker is idle, a scan is queued, or the    *)
(* case was marked behind the back of its scan: between the worker's two   *)
(* writes, by a request that then failed, or by hand.  And the worker goes *)
(* idle on a running scan only where a restart or an exception in its      *)
(* handler left it: every other scan is closed by the thread that claimed  *)
(* it.  (sql/038 says a restart leaves unfinished work queued: a scan that *)
(* was running stays so, and then blocks every rescan of its case.)        *)
(***************************************************************************)
CaseSettles ==
    worker = "idle" /\ ~orphan /\ (\A c \in Caller : request[c] = "idle") =>
        /\ case = "investigating" /\ ~excuse => job = "queued"
        /\ job # "running"
=============================================================================
