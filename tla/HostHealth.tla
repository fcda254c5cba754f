------------------------------ MODULE HostHealth ------------------------------
(***************************************************************************)
(* EC2 hosts: which conditions the backend raises and clears from the      *)
(* heartbeats and snapshots of one host (hosts/projection.py and           *)
(* hosts/diff.py).  The projection stores host_status first; the pipeline  *)
(* then stores the derived events one by one, and may not get to the end.  *)
(* A reading is the class the thresholds put it in.                        *)
(***************************************************************************)
EXTENDS Integers, Sequences, FiniteSets

CONSTANTS
    MinSamples,   \* _BASELINE_MIN_SAMPLES
    AnomalyRun,   \* _ANOMALY_CONSECUTIVE
    NormalRun,    \* _NORMAL_CONSECUTIVE
    Level,        \* conditions that are as reported: the rpm database, each collector
    MaxLost       \* bound: derived batches cut short

ASSUME HealthAssumption ==
    /\ {AnomalyRun, NormalRun} \subseteq Nat \ {0}
    /\ MinSamples \in Nat /\ MaxLost \in Nat
    /\ IsFiniteSet(Level) /\ Level \cap {"memory", "cpu"} = {}

Condition == {"memory", "cpu"} \cup Level

Memory == {"missing", "low", "mid", "high"}       \* below 90, below 95, above
Load   == {"missing", "usual", "anomalous"}       \* above mean + 3 sigma or not
Fill   == {"missing", "normal", "band", "warn", "critical"}   \* 85, 90, 95

VARIABLES
    raised,     \* host_status.extra._state: the conditions that hold
    runs,       \* its two counters of consecutive samples
    samples,    \* n of the CPU baseline, up to MinSamples
    unstored,   \* derived events not stored yet, in order
    heard,      \* the conditions as the stored events tell them (ghost)
    muted,      \* conditions whose last event was lost (ghost)
    readings,   \* the last memory reading and the last levels (ghost)
    loads,      \* the last loads, latest first (ghost)
    cuts,       \* batches cut short so far
    fill,       \* a mount in host_status.snapshots
    fillEvent,  \* its derived event, not stored yet
    fillHeard,  \* the class the last stored event told (ghost)
    blind       \* no event since the mount came into view, or it was lost (ghost)

conditionVars == <<raised, runs, samples, unstored, heard, muted, readings, loads, cuts>>
fillVars      == <<fill, fillEvent, fillHeard, blind>>

Longest == IF AnomalyRun > NormalRun THEN AnomalyRun ELSE NormalRun

HealthTypeOK ==
    /\ raised \subseteq Condition /\ heard \subseteq Condition /\ muted \subseteq Condition
    /\ runs \in [anomalous : 0..AnomalyRun, usual : 0..NormalRun]
    /\ samples \in 0..MinSamples /\ cuts \in 0..MaxLost
    /\ unstored \in Seq(Condition)
    /\ readings \in [memory : Memory, levels : SUBSET Level]
    /\ loads \in Seq(Load) /\ Len(loads) <= Longest
    /\ {fill, fillEvent, fillHeard} \subseteq Fill /\ blind \in BOOLEAN

ConditionsInit ==
    /\ raised = {} /\ runs = [anomalous |-> 0, usual |-> 0] /\ samples = 0
    /\ unstored = <<>> /\ heard = {} /\ muted = {} /\ cuts = 0
    /\ readings = [memory |-> "missing", levels |-> {}] /\ loads = <<>>
FillInit ==
    fill = "missing" /\ fillEvent = "missing" /\ fillHeard = "missing" /\ blind = TRUE
HealthInit == ConditionsInit /\ FillInit

-----------------------------------------------------------------------------
(* host.service.health *)

(* Memory: raised at 95, cleared below 90; without a number, as it was.    *)
MemoryRaised(m) == m = "high" \/ ("memory" \in raised /\ m # "low")

(* The two counters; a load that is missing leaves them.                   *)
(* Mutant: an anomalous sample does not end the run of usual ones.         *)
Sooner(n, cap) == IF n < cap THEN n + 1 ELSE cap
RunsOfBoth(l) ==
    CASE l = "missing"   -> runs
      [] l = "anomalous" -> [runs EXCEPT !.anomalous = Sooner(@, AnomalyRun)]
      [] OTHER           -> [anomalous |-> 0, usual |-> Sooner(runs.usual, NormalRun)]
RunsAfter(l) ==
    CASE l = "missing"   -> runs
      [] l = "anomalous" -> [anomalous |-> Sooner(runs.anomalous, AnomalyRun), usual |-> 0]
      [] OTHER           -> [anomalous |-> 0, usual |-> Sooner(runs.usual, NormalRun)]

CpuRaised(l) ==
    IF "cpu" \in raised
    THEN ~(l # "missing" /\ RunsAfter(l).usual >= NormalRun)
    ELSE l # "missing" /\ RunsAfter(l).anomalous >= AnomalyRun

RaisedAfter(m, l, levels) ==
    levels \cup {c \in {"memory"} : MemoryRaised(m)} \cup {c \in {"cpu"} : CpuRaised(l)}

(* The transitions, in the order they are appended; levels in any.         *)
Flip(c, now)  == IF (c \in raised) = (c \in now) THEN <<>> ELSE <<c>>
Flipped(now)  == {c \in Level : (c \in raised) # (c \in now)}
OrdersOf(S)   == {q \in [1..Cardinality(S) -> S] : \A x \in S : \E i \in DOMAIN q : q[i] = x}
Flips(now)    == {Flip("memory", now) \o Flip("cpu", now) \o q : q \in OrdersOf(Flipped(now))}

(* _project_heartbeat; no load is anomalous before the baseline is full.   *)
Heartbeat(m, l, levels) ==
    LET n   == IF l = "missing" THEN samples ELSE Sooner(samples, MinSamples)
        now == RaisedAfter(m, l, levels)
    IN  /\ unstored = <<>>
        /\ l = "anomalous" => n >= MinSamples
        /\ samples' = n
        /\ raised' = now
        /\ runs' = RunsAfter(l)
        /\ unstored' \in Flips(now)
        /\ readings' = [memory |-> IF m = "missing" THEN readings.memory ELSE m, levels |-> levels]
        /\ loads' = IF l = "missing" THEN loads
                    ELSE SubSeq(<<l>> \o loads, 1, IF Len(loads) < Longest THEN Len(loads) + 1 ELSE Longest)
        /\ UNCHANGED <<heard, muted, cuts>>

(* ingest_payload stores the next derived event,                           *)
ConditionStored ==
    /\ unstored # <<>>
    /\ LET c == Head(unstored) IN
         /\ heard' = IF c \in raised THEN heard \cup {c} ELSE heard \ {c}
         /\ muted' = muted \ {c}
    /\ unstored' = Tail(unstored)
    /\ UNCHANGED <<raised, runs, samples, readings, loads, cuts>>

(* or the process ends, or the insert fails: the rest is lost, and the     *)
(* redelivered heartbeat finds _state as it left it.                       *)
ConditionsCut ==
    /\ unstored # <<>> /\ cuts < MaxLost
    /\ muted' = muted \cup {unstored[i] : i \in 1..Len(unstored)}
    /\ unstored' = <<>> /\ cuts' = cuts + 1
    /\ UNCHANGED <<raised, runs, samples, heard, readings, loads>>

ConditionsNext ==
    \/ \E m \in Memory, l \in Load, levels \in SUBSET Level : Heartbeat(m, l, levels)
    \/ ConditionStored \/ ConditionsCut

-----------------------------------------------------------------------------
(* host.state.snapshot: the disk category *)

(* Whether a mount that went from class p to class c tells c.              *)
(* Mutant: the band is left out of both sides.                             *)
TellsOutsideBand(p, c) ==
    /\ p \notin {"missing", "band"} /\ c \notin {"missing", "band"}
    /\ p # c
Tells(p, c) ==
    /\ p # "missing" /\ c \notin {"missing", "band"}
    /\ p # c

(* _project_snapshot and diff_snapshots: what is stored is what the next   *)
(* snapshot is compared with, whether or not it has the mount.             *)
Snapshot(c) ==
    /\ fillEvent = "missing"
    /\ fillEvent' = IF Tells(fill, c) THEN c ELSE "missing"
    /\ fill' = c
    /\ blind' = (blind \/ c = "missing" \/ fill = "missing")
    /\ UNCHANGED fillHeard

FillStored ==
    /\ fillEvent # "missing"
    /\ fillHeard' = fillEvent /\ blind' = FALSE
    /\ fillEvent' = "missing"
    /\ UNCHANGED fill

FillLost ==
    /\ fillEvent # "missing"
    /\ blind' = TRUE
    /\ fillEvent' = "missing"
    /\ UNCHANGED <<fill, fillHeard>>

FillNext == (\E c \in Fill : Snapshot(c)) \/ FillStored \/ FillLost

HealthNext ==
    \/ ConditionsNext /\ UNCHANGED fillVars
    \/ FillNext /\ UNCHANGED conditionVars
HealthSpec == HealthInit /\ [][HealthNext]_<<conditionVars, fillVars>>

-----------------------------------------------------------------------------
(* Properties *)

LastAre(l, n) == Len(loads) >= n /\ \A i \in 1..n : loads[i] = l

(***************************************************************************)
(* Once the derived events are stored, what they tell of a host is what    *)
(* its readings bear out, through any mix of reports with and without a    *)
(* number: memory is told exhausted until a reading below 90, the CPU      *)
(* anomalous exactly between AnomalyRun anomalous samples in a row and     *)
(* NormalRun usual ones, a level as last reported.  A condition whose      *)
(* event was lost stays wrong until it flips again (_state is stored       *)
(* first).  And neither CPU event is derived from a shorter run.           *)
(***************************************************************************)
ConditionsTold ==
    /\ unstored = <<>> =>
         /\ "memory" \notin muted =>
              /\ "memory" \in heard => readings.memory # "low"
              /\ "memory" \notin heard => readings.memory # "high"
         /\ "cpu" \notin muted =>
              /\ "cpu" \in heard => ~LastAre("usual", NormalRun)
              /\ "cpu" \notin heard => ~LastAre("anomalous", AnomalyRun)
         /\ \A c \in Level \ muted : c \in heard <=> c \in readings.levels
    /\ (\E i \in 1..Len(unstored) : unstored[i] = "cpu") =>
         IF "cpu" \in raised THEN LastAre("anomalous", AnomalyRun) ELSE LastAre("usual", NormalRun)

(***************************************************************************)
(* The last stored disk event of a mount is its class whenever the class   *)
(* is outside the hysteresis band, also when the reading passed through    *)
(* the band on its way up or down: except for a mount first seen in that   *)
(* class, one that was out of a snapshot in between (a snapshot without    *)
(* the disk category hides the change for good), and a lost event.         *)
(***************************************************************************)
DiskTold ==
    fillEvent = "missing" /\ fill \notin {"missing", "band"} /\ ~blind => fillHeard = fill

(***************************************************************************)
(* What the stored events tell of a host is so: its conditions and the     *)
(* fill of its disk (_project_heartbeat, _project_snapshot).               *)
(***************************************************************************)
HostTold == ConditionsTold /\ DiskTold
=============================================================================
