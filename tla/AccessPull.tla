------------------------------ MODULE AccessPull ------------------------------
(***************************************************************************)
(* The pull of S3 access log objects (connectors/aws_s3_access_pull.py):   *)
(* no cursor of its own, only the last_run_at that the runner writes on    *)
(* the row of the first listed connector of the bucket, with an overlap.   *)
(* Several connectors may read one bucket, under unlike prefixes; the      *)
(* module follows one of them, listed first or not.  An object may be      *)
(* visible later than its LastModified says (uploads in parts, clocks that *)
(* differ), by no more than the overlap.  Objects pulled twice are         *)
(* duplicates to the pipeline and not modelled.                            *)
(***************************************************************************)
EXTENDS FiniteSets, Naturals

CONSTANTS
    LogObject,
    Pull,       \* runs of the connector, one of which may have timed out and go on
    Overlap,    \* overlap_seconds
    FileCap,    \* max_files_per_run
    MaxHour,    \* bound: time
    MaxMisses   \* bound: calls that fail and runs that time out

VARIABLES
    hour,     \* the time
    modified, \* LastModified of each object, 0 before it is there
    lastRun,  \* last_run_at of the connector, 0 before the first run
    listedFirst, \* no connector of the bucket is listed before it, constant
    otherRun, \* last_run_at of the one listed first, 0 before its first run
    pull,     \* what each run is doing
    pulled,   \* objects that were ingested
    passed,   \* objects a run left out and then let the time move on (ghost)
    misses

pullVars == <<hour, modified, lastRun, listedFirst, otherRun, pull, pulled, passed, misses>>

ASSUME PullAssumption ==
    Overlap \in Nat /\ FileCap \in Nat /\ MaxHour \in Nat \ {0} /\ MaxMisses \in Nat

NoPull == [started |-> 0, todo |-> {}, count |-> 0, failed |-> {}, live |-> FALSE]

Running(r) == pull[r].started # 0
There(o)   == modified[o] # 0

PullTypeOK ==
    /\ hour \in 1..MaxHour /\ modified \in [LogObject -> 0..MaxHour] /\ lastRun \in 0..MaxHour
    /\ listedFirst \in BOOLEAN /\ otherRun \in 0..MaxHour
    /\ pull \in [Pull -> [started : 0..MaxHour, todo : SUBSET LogObject, count : 0..FileCap,
                          failed : SUBSET LogObject, live : BOOLEAN]]
    /\ pulled \subseteq LogObject /\ passed \subseteq LogObject
    /\ misses \in 0..MaxMisses

PullInit ==
    /\ hour = 1 /\ modified = [o \in LogObject |-> 0] /\ lastRun = 0
    /\ listedFirst \in BOOLEAN /\ otherRun = 0
    /\ pull = [r \in Pull |-> NoPull] /\ pulled = {} /\ passed = {} /\ misses = 0

Miss == misses < MaxMisses /\ misses' = misses + 1

HourPassesBy ==
    /\ hour < MaxHour /\ hour' = hour + 1
    /\ UNCHANGED <<modified, lastRun, listedFirst, otherRun, pull, pulled, passed, misses>>

ObjectAppears(o) ==
    /\ ~There(o)
    /\ \E at \in 1..hour : at + Overlap >= hour /\ modified' = [modified EXCEPT ![o] = at]
    /\ UNCHANGED <<hour, lastRun, listedFirst, otherRun, pull, pulled, passed, misses>>

(* A run of the connector listed before this one is reported.              *)
OtherRuns ==
    /\ ~listedFirst /\ \E at \in otherRun..hour : at # otherRun /\ otherRun' = at
    /\ UNCHANGED <<hour, modified, lastRun, listedFirst, pull, pulled, passed, misses>>

-----------------------------------------------------------------------------

(* The first connector of the type with this bucket, of the list in order  *)
(* of names.                                                               *)
Cursor == IF listedFirst THEN lastRun ELSE otherRun

(* Not older than `since`.  Mutant: the overlap only on the first run.     *)
SinceLast(o) == IF Cursor = 0 THEN modified[o] + 2 * Overlap >= hour ELSE modified[o] >= Cursor
Since(o)     == IF Cursor = 0 THEN modified[o] + 2 * Overlap >= hour ELSE modified[o] + Overlap >= Cursor

(* The connector lock admits a run when the one before ended or timed out. *)
PullStarts(r) ==
    /\ ~Running(r) /\ \A x \in Pull : ~pull[x].live
    /\ pull' = [pull EXCEPT ![r] = [started |-> hour, todo |-> {o \in LogObject : There(o) /\ Since(o)}, count |-> 0,
                 failed |-> IF Cursor = 0 THEN {o \in LogObject : There(o) /\ ~Since(o)} ELSE {}, live |-> TRUE]]
    /\ UNCHANGED <<hour, modified, lastRun, listedFirst, otherRun, pulled, passed, misses>>

(* max_files_per_run is not reached.  Mutant: one file too many.           *)
RoomForMore(r) == pull[r].count <= FileCap
Room(r)        == pull[r].count < FileCap

(* Objects come in the order of their keys, which is any order of their    *)
(* times: every prefix has its own names.                                  *)
PullsObject(r, o) ==
    /\ Running(r) /\ o \in pull[r].todo /\ Room(r)
    /\ \/ /\ pulled' = pulled \cup {o} /\ UNCHANGED misses
          /\ pull' = [pull EXCEPT ![r].todo = @ \ {o}, ![r].count = @ + 1]
       \/ \* get_object raises: not counted
          /\ Miss /\ UNCHANGED pulled
          /\ pull' = [pull EXCEPT ![r].todo = @ \ {o}, ![r].failed = @ \cup {o}]
       \/ \* ingest_payload raises: counted as processed
          /\ Miss /\ UNCHANGED pulled
          /\ pull' = [pull EXCEPT ![r].todo = @ \ {o}, ![r].count = @ + 1, ![r].failed = @ \cup {o}]
    /\ UNCHANGED <<hour, modified, lastRun, listedFirst, otherRun, passed>>

(* run_connector writes the time the run started, with "ok" and with       *)
(* "error" alike, unless the operation is no longer live.                  *)
Reported(r) ==
    /\ IF pull[r].live
       THEN lastRun' = pull[r].started /\ passed' = passed \cup pull[r].todo \cup pull[r].failed
       ELSE UNCHANGED <<lastRun, passed>>
    /\ pull' = [pull EXCEPT ![r] = NoPull]
    /\ UNCHANGED <<hour, modified, listedFirst, otherRun, pulled>>

PullEnds(r) ==
    /\ Running(r) /\ (pull[r].todo = {} \/ pull[r].count = FileCap)
    /\ Reported(r) /\ UNCHANGED misses

(* The listing raises, at any of its pages.                                *)
PullRaises(r) == Running(r) /\ Miss /\ Reported(r)

PullTimesOut(r) ==
    /\ Running(r) /\ pull[r].live /\ Miss
    /\ pull' = [pull EXCEPT ![r].live = FALSE]
    /\ UNCHANGED <<hour, modified, lastRun, listedFirst, otherRun, pulled, passed>>

PullDies(r) ==
    /\ Running(r) /\ Miss
    /\ pull' = [pull EXCEPT ![r] = NoPull]
    /\ UNCHANGED <<hour, modified, lastRun, listedFirst, otherRun, pulled, passed>>

PullNext ==
    \/ HourPassesBy \/ OtherRuns
    \/ \E o \in LogObject : ObjectAppears(o)
    \/ \E r \in Pull : \/ PullStarts(r) \/ PullEnds(r) \/ PullRaises(r) \/ PullTimesOut(r) \/ PullDies(r)
                       \/ \E o \in LogObject : PullsObject(r, o)

PullSpec == PullInit /\ [][PullNext]_pullVars

-----------------------------------------------------------------------------

(* No log object is lost between two runs: one that no run has ingested is *)
(* in the window of the next run, unless a run that reported had left it   *)
(* out - it could not be read or stored, came after the cap, or the run    *)
(* raised before its turn - or it was older than the very first run looks. *)
(* Runs that time out, or die, move no time on; one that goes on after its *)
(* timeout does not either.  Two cases in which the code does not keep     *)
(* what its comments and docs/s3-access-logs.md:53 say are excepted by     *)
(* name: `passed`, because the runner writes last_run_at on an error too   *)
(* and past the cap, and a connector that is not listed first, because     *)
(* the time of another one is its cursor.                                  *)
ObjectsPulled ==
    listedFirst =>
        \A o \in LogObject :
            There(o) => o \in pulled \cup passed \/ lastRun = 0 \/ modified[o] + Overlap >= lastRun
=============================================================================
