--------------------------- MODULE OperationLedger ---------------------------
(***************************************************************************)
(* What the connector operation manager promises to the API and to the     *)
(* scheduler, with no thread, lock, slot or timer in sight: a ledger of    *)
(* operations, each closed at most once, and retry metadata on the         *)
(* connector row that follows each verdict by a write of its own, which    *)
(* may be late or lost.                                                    *)
(***************************************************************************)
EXTENDS Naturals

CONSTANTS Connector,  \* the configured connectors
          MaxOps,     \* bound: operations in a behaviour
          MaxRetry,   \* retry counts saturate here
          Faults      \* may the duplicate check fail open?

Op   == 1..MaxOps     \* in the order of requested_at
None == 0

VARIABLES status,     \* where an operation is in its life
          owner,      \* the connector it collects from
          count,      \* its retry count
          reason,     \* why it did not succeed
          meta,       \* the connectors' retry count, next attempt and reason
          writing     \* closed operations whose metadata is not yet written

ledgerVars == <<status, owner, count, reason, meta, writing>>

Open    == {"queued", "running"}
Verdict == {"succeeded", "failed", "timed_out"}
Reason  == {"none", "failure", "timeout", "process_restart"}

NoMeta == [count |-> 0, next |-> None, reason |-> "none"]

OpenFor(c) == {o \in Op : owner[o] = c /\ status[o] \in Open}
Fresh(o)   == status[o] = "none" /\ \A q \in Op : q < o => status[q] # "none"
Bump(n)    == IF n < MaxRetry THEN n + 1 ELSE n

(* The metadata that tells operation o's verdict.  Mutant: the status is   *)
(* taken for the reason.                                                   *)
DesiredWithStatus(o) == [count |-> count[o], next |-> o, reason |-> status[o]]
Desired(o) == IF status[o] = "succeeded" THEN NoMeta
              ELSE [count |-> count[o], next |-> o, reason |-> reason[o]]

Init == /\ status = [o \in Op |-> "none"]
        /\ owner = [o \in Op |-> None]
        /\ count = [o \in Op |-> 0]
        /\ reason = [o \in Op |-> "none"]
        /\ meta = [c \in Connector |-> NoMeta]
        /\ writing = {}

(* An operation is accepted while its connector has none open; a storage   *)
(* fault can hide the open one.                                            *)
Request(o, c, n) ==
    /\ Fresh(o)
    /\ OpenFor(c) = {} \/ Faults
    /\ status' = [status EXCEPT ![o] = "queued"]
    /\ owner'  = [owner EXCEPT ![o] = c]
    /\ count'  = [count EXCEPT ![o] = n]
    /\ UNCHANGED <<reason, meta, writing>>

(* Retry all records a connector it leaves out. *)
Skip(o, c) ==
    /\ Fresh(o)
    /\ status' = [status EXCEPT ![o] = "skipped"]
    /\ owner'  = [owner EXCEPT ![o] = c]
    /\ UNCHANGED <<count, reason, meta, writing>>

Begin(o) ==
    /\ status[o] = "queued"
    /\ status' = [status EXCEPT ![o] = "running"]
    /\ UNCHANGED <<owner, count, reason, meta, writing>>

(* The verdict: the run's own, or a timeout, which an operation that never *)
(* ran can have too.                                                       *)
Succeed(o) ==
    /\ status[o] = "running"
    /\ status' = [status EXCEPT ![o] = "succeeded"]
    /\ reason' = [reason EXCEPT ![o] = "none"]
    /\ writing' = writing \cup {o}
    /\ UNCHANGED <<owner, count, meta>>

Fail(o) ==
    /\ status[o] = "running"
    /\ status' = [status EXCEPT ![o] = "failed"]
    /\ count'  = [count EXCEPT ![o] = Bump(meta[owner[o]].count)]
    /\ reason' = [reason EXCEPT ![o] = "failure"]
    /\ writing' = writing \cup {o}
    /\ UNCHANGED <<owner, meta>>

TimeOut(o) ==
    /\ status[o] \in Open
    /\ status' = [status EXCEPT ![o] = "timed_out"]
    /\ count'  = [count EXCEPT ![o] = Bump(count[o])]
    /\ \E r \in {"timeout", "process_restart"} : reason' = [reason EXCEPT ![o] = r]
    /\ writing' = writing \cup {o}
    /\ UNCHANGED <<owner, meta>>

Close(o) == Succeed(o) \/ Fail(o) \/ TimeOut(o)

WriteMeta(o) ==
    /\ o \in writing
    /\ meta' = [meta EXCEPT ![owner[o]] = Desired(o)]
    /\ writing' = writing \ {o}
    /\ UNCHANGED <<status, owner, count, reason>>

(* A storage fault loses a write, a restart all of them. *)
LoseWrites(S) ==
    /\ S # {}
    /\ S \subseteq writing
    /\ writing' = writing \ S
    /\ UNCHANGED <<status, owner, count, reason, meta>>

Next == \/ \E o \in Op, c \in Connector, n \in 0..MaxRetry : Request(o, c, n)
        \/ \E o \in Op, c \in Connector : Skip(o, c)
        \/ \E o \in Op : Begin(o) \/ Close(o) \/ WriteMeta(o)
        \/ \E S \in SUBSET writing : LoseWrites(S)

Spec == Init /\ [][Next]_ledgerVars
=============================================================================
