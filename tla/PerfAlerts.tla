------------------------------ MODULE PerfAlerts ------------------------------
(***************************************************************************)
(* One performance rule over the hosts in its scope (perf_alerts.py): a    *)
(* buffer of samples shared by all of them, of which each evaluation looks *)
(* at the reporting host's slice, and one throttle shared by all of them.  *)
(* Drains of the queue may evaluate at once, each on the row it has read.  *)
(* Time goes in heartbeats: a host reports at most once in each, so that   *)
(* the samples, a list in the row, are a set.                              *)
(***************************************************************************)
EXTENDS Integers, FiniteSets

CONSTANTS
    Host,       \* the hosts _rule_targets_instance lets through
    Window,     \* window_seconds, in heartbeats
    Throttle,   \* throttle_seconds, in heartbeats
    Percent,    \* min_breach_ratio
    MinToEval,  \* _MIN_SAMPLES_TO_EVAL
    Cap         \* _MAX_SAMPLES_PER_RULE

ASSUME PerfAssumption ==
    /\ IsFiniteSet(Host)
    /\ {Window, Throttle, MinToEval, Cap} \subseteq Nat \ {0}
    /\ Percent \in 0..100

VARIABLES
    buffer,    \* perf_alert_rules.samples, with ages for times
    fired,     \* the age of last_fired_at, up to Throttle (or never)
    reported,  \* hosts that reported since the last tick
    reading,   \* the row as it was read for the report of a host, in work
    alerted,   \* the age of the last alert, up to Throttle (ghost)
    breaching  \* breaching reports of each host in a row, all kept (ghost)

perfVars == <<buffer, fired, reported, reading, alerted, breaching>>

Sample == [age : 0..(Window + 1), breached : BOOLEAN, host : Host]
Streak == Window + 1   \* reports in a whole window

PerfTypeOK ==
    /\ buffer \subseteq Sample /\ Cardinality(buffer) <= Cap
    /\ {fired, alerted} \subseteq 0..Throttle
    /\ reported \subseteq Host
    /\ reading \in [Host -> [busy : BOOLEAN, samples : SUBSET Sample, fired : 0..Throttle]]
    /\ \A h \in Host : reading[h].busy => h \in reported
    /\ breaching \in [Host -> 0..Streak]

NotReading == [busy |-> FALSE, samples |-> {}, fired |-> Throttle]

PerfInit ==
    /\ buffer = {} /\ fired = Throttle /\ alerted = Throttle
    /\ reported = {} /\ reading = [h \in Host |-> NotReading]
    /\ breaching = [h \in Host |-> 0]

-----------------------------------------------------------------------------
Older(n, cap) == IF n < cap THEN n + 1 ELSE cap

(* The buffer after a sample: trimmed to the window, then to the newest    *)
(* Cap samples of all hosts.  Which of equally old ones go is left open,   *)
(* but the sample itself is the last of the list.                          *)
Buffered(samples, s) ==
    LET fresh == {x \in samples \cup {s} : x.age <= Window}
    IN  {now \in SUBSET fresh :
            /\ s \in now
            /\ IF Cardinality(fresh) <= Cap THEN now = fresh ELSE Cardinality(now) = Cap
            /\ \A x \in fresh \ now, y \in now : y.age <= x.age}

(* The samples an evaluation counts.  Mutant: those of the whole fleet.    *)
SliceOfAll(b, h) == b
SliceOf(b, h)    == {x \in b : x.host = h}

(* _evaluate_one, without the throttle                                     *)
Breaches(slice) ==
    /\ Cardinality(slice) >= MinToEval
    /\ 100 * Cardinality({x \in slice : x.breached}) >= Percent * Cardinality(slice)

(* A heartbeat: evaluate reads the rule, its samples and its last firing.  *)
ReadRule(h) ==
    /\ h \notin reported
    /\ reported' = reported \cup {h}
    /\ reading' = [reading EXCEPT ![h] =
                      [busy |-> TRUE, samples |-> buffer, fired |-> fired]]
    /\ UNCHANGED <<buffer, fired, alerted, breaching>>

(* Hosts whose sample of this heartbeat is not in the row that h has read. *)
Fresh(samples, g) == \E x \in samples : x.host = g /\ x.age = 0
Overwritten(h)    == {g \in Host : Fresh(buffer, g) /\ ~Fresh(reading[h].samples, g)}

(* It decides on what it read.  The alert goes out also when the new state *)
(* cannot be saved (update_perf_rule_state fails and that is swallowed);   *)
(* otherwise its samples replace the row's, and last_fired_at only if it   *)
(* fired.                                                                  *)
Evaluate(h, b, saved) ==
    /\ reading[h].busy
    /\ \E now \in Buffered(reading[h].samples, [age |-> 0, breached |-> b, host |-> h]) :
          LET fire == Breaches(SliceOf(now, h)) /\ reading[h].fired >= Throttle
          IN  /\ buffer' = IF saved THEN now ELSE buffer
              /\ fired' = IF saved /\ fire THEN 0 ELSE fired
              /\ alerted' = IF fire THEN 0 ELSE alerted
    /\ reading' = [reading EXCEPT ![h] = NotReading]
    /\ breaching' = [g \in Host |->
           CASE g = h -> IF b /\ saved THEN Older(breaching[g], Streak) ELSE 0
             [] g # h /\ saved /\ g \in Overwritten(h) -> 0
             [] OTHER -> breaching[g]]
    /\ UNCHANGED reported

(* Time passes.  A host without a report, or whose report did not get to   *)
(* the rule (list_enabled_perf_rules_for_module fails, the metric is not   *)
(* there), starts again.                                                   *)
Tick ==
    /\ \A h \in Host : ~reading[h].busy
    /\ buffer' = {[x EXCEPT !.age = Older(@, Window + 1)] : x \in buffer}
    /\ fired' = Older(fired, Throttle) /\ alerted' = Older(alerted, Throttle)
    /\ breaching' = [h \in Host |-> IF h \in reported THEN breaching[h] ELSE 0]
    /\ reported' = {}
    /\ UNCHANGED reading

PerfNext ==
    \/ \E h \in Host : ReadRule(h)
    \/ \E h \in Host, b, saved \in BOOLEAN : Evaluate(h, b, saved)
    \/ Tick
PerfSpec == PerfInit /\ [][PerfNext]_perfVars

-----------------------------------------------------------------------------
(***************************************************************************)
(* A host that breached in every report of a whole window has been heard   *)
(* of: the rule fired less than Throttle ago, however quiet the rest of    *)
(* the fleet is, and however often the state could not be saved: unless an *)
(* evaluation that ran at once wrote over one of its samples.  It needs    *)
(* room for MinToEval samples of every host in the one buffer: with 200,   *)
(* a rule over more than 100 hosts may never fire.  (_evaluate_one: "a     *)
(* fleet-wide rule fires when ANY single host has enough breach samples".) *)
(***************************************************************************)
PerfHeard ==
    Cap >= MinToEval * Cardinality(Host) /\ Streak >= MinToEval =>
        \A h \in reported : ~reading[h].busy /\ breaching[h] = Streak => alerted < Throttle
=============================================================================
