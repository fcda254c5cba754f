----------------------------- MODULE ListProofs ------------------------------
(***************************************************************************)
(* What is proved of lists that several hands make and of what is counted  *)
(* in them: the pull of log objects, the targets of service probes, the    *)
(* pages of events, of services and of connectors; the sessions and failed *)
(* logins of a database, the failures in the log of a gateway, the samples *)
(* of the fleet, and the attempts from one address.  They share no state.  *)
(* For each of them: its inductive invariant, that it holds at the start,  *)
(* is kept by a step and by a stutter and covers the property, and the     *)
(* theorem.                                                                *)
(***************************************************************************)
EXTENDS AccessPull, EcsTargets, ApiPages,
        RdsSessions, GatewayReports, PerfAlerts, BruteForce,
        SequenceTheorems, FiniteSetTheorems, TLAPS

-----------------------------------------------------------------------------
(* AccessPull.                                                             *)

(* What a run that will report has not in hand is in the window after it.  *)
WindowKept(r) ==
    listedFirst /\ Running(r) /\ pull[r].live =>
        \A o \in LogObject :
            There(o) => \/ o \in pulled \cup passed \cup pull[r].todo \cup pull[r].failed
                        \/ modified[o] + Overlap >= pull[r].started

PullInv ==
    /\ PullTypeOK /\ lastRun <= hour /\ \A r \in Pull : pull[r].started <= hour
    /\ \A r \in Pull : WindowKept(r)
    /\ ObjectsPulled

PullRow == [started : 0..MaxHour, todo : SUBSET LogObject, count : 0..FileCap,
            failed : SUBSET LogObject, live : BOOLEAN]

LEMMA PullStarted == PullInit => PullInv
<1>. SUFFICES ASSUME PullInit PROVE PullInv
  OBVIOUS
<1>1. \A r \in Pull : pull[r] = NoPull
  BY DEF PullInit
<1>2. NoPull \in PullRow /\ NoPull.started = 0
  BY PullAssumption DEF NoPull, PullRow
<1>3. pull \in [Pull -> PullRow]
  BY <1>2 DEF PullInit
<1>4. PullTypeOK
  BY <1>3, PullAssumption DEF PullInit, PullTypeOK, PullRow
<1>. QED  BY <1>1, <1>2, <1>4, PullAssumption DEF PullInit, PullInv, WindowKept, Running, ObjectsPulled, There

LEMMA PullRows ==
    ASSUME PullInv
    PROVE  /\ pull \in [Pull -> PullRow]
           /\ \A r \in Pull : /\ pull[r].started \in 0..MaxHour /\ pull[r].started <= hour
                              /\ pull[r].todo \subseteq LogObject /\ pull[r].failed \subseteq LogObject
                              /\ pull[r].count \in 0..FileCap /\ pull[r].live \in BOOLEAN
                              /\ pull[r] = [started |-> pull[r].started, todo |-> pull[r].todo,
                                            count |-> pull[r].count, failed |-> pull[r].failed,
                                            live |-> pull[r].live]
           /\ hour \in 1..MaxHour /\ modified \in [LogObject -> 0..MaxHour] /\ lastRun \in 0..MaxHour
           /\ listedFirst \in BOOLEAN /\ otherRun \in 0..MaxHour
           /\ pulled \subseteq LogObject /\ passed \subseteq LogObject /\ misses \in 0..MaxMisses
           /\ lastRun <= hour
BY DEF PullInv, PullTypeOK, PullRow

LEMMA TimeKeepsPulls == PullInv /\ HourPassesBy => PullInv'
<1>. SUFFICES ASSUME PullInv, HourPassesBy PROVE PullInv'
  OBVIOUS
<1>1. /\ hour < MaxHour /\ hour' = hour + 1
      /\ UNCHANGED <<modified, lastRun, listedFirst, otherRun, pull, pulled, passed, misses>>
  BY DEF HourPassesBy
<1>2. hour' \in 1..MaxHour /\ hour <= hour'
  BY <1>1, PullRows, PullAssumption
<1>3. PullTypeOK'
  BY <1>1, <1>2 DEF PullInv, PullTypeOK
<1>4. lastRun' <= hour' /\ \A r \in Pull : pull'[r].started <= hour'
  BY <1>1, PullRows
<1>. QED  BY <1>1, <1>3, <1>4 DEF PullInv, WindowKept, Running, There, ObjectsPulled

LEMMA ObjectsKeepPulls == \A o \in LogObject : PullInv /\ ObjectAppears(o) => PullInv'
<1>. SUFFICES ASSUME NEW o \in LogObject, PullInv, ObjectAppears(o) PROVE PullInv'
  OBVIOUS
<1>1. PICK at \in 1..hour : /\ at + Overlap >= hour /\ modified' = [modified EXCEPT ![o] = at]
                            /\ UNCHANGED <<hour, lastRun, listedFirst, otherRun, pull, pulled, passed, misses>>
  BY DEF ObjectAppears
<1>2. at \in 0..MaxHour
  BY PullRows, PullAssumption
<1>3. PullTypeOK'
  BY <1>1, <1>2 DEF PullInv, PullTypeOK
<1>4. /\ \A x \in LogObject \ {o} : modified'[x] = modified[x]
      /\ modified'[o] = at
  BY <1>1, PullRows
<1>5. \A r \in Pull : at + Overlap >= pull[r].started /\ at + Overlap >= lastRun
  BY <1>1, PullRows, PullAssumption
<1>6. \A r \in Pull : WindowKept(r)'
  BY <1>1, <1>4, <1>5 DEF PullInv, WindowKept, Running, There
<1>7. ObjectsPulled'
  <2>1. at + Overlap >= lastRun
    BY <1>1, PullRows, PullAssumption
  <2>. QED  BY <1>1, <1>4, <2>1 DEF PullInv, ObjectsPulled, There
<1>. QED  BY <1>1, <1>3, <1>6, <1>7 DEF PullInv

LEMMA StartKeepsPulls == \A r \in Pull : PullInv /\ PullStarts(r) => PullInv'
<1>. SUFFICES ASSUME NEW r \in Pull, PullInv, PullStarts(r) PROVE PullInv'
  OBVIOUS
<1>. DEFINE ahead   == {o \in LogObject : There(o) /\ Since(o)}
            failed == IF Cursor = 0 THEN {o \in LogObject : There(o) /\ ~Since(o)} ELSE {}
            new    == [started |-> hour, todo |-> ahead, count |-> 0, failed |-> failed, live |-> TRUE]
<1>1. pull' = [pull EXCEPT ![r] = new] /\ UNCHANGED <<hour, modified, lastRun, listedFirst, otherRun, pulled, passed, misses>>
  BY DEF PullStarts
<1>2. new \in PullRow
  <2>1. ahead \subseteq LogObject /\ failed \subseteq LogObject /\ hour \in 0..MaxHour /\ 0 \in 0..FileCap
    BY PullRows, PullAssumption
  <2>. HIDE DEF ahead, failed
  <2>. QED  BY <2>1 DEF PullRow
<1>3. listedFirst =>
        \A o \in LogObject : There(o) => \/ o \in pulled \cup passed \cup ahead \cup failed
                                         \/ modified[o] + Overlap >= hour
  BY DEF PullInv, ObjectsPulled, Since, Cursor
<1>4. new.started = hour /\ new.todo = ahead /\ new.failed = failed
  OBVIOUS
<1>. HIDE DEF new, ahead, failed
<1>5. pull'[r] = new /\ \A x \in Pull \ {r} : pull'[x] = pull[x]
  BY <1>1, PullRows
<1>6. pull' \in [Pull -> PullRow]
  BY <1>1, <1>2, PullRows
<1>7. PullTypeOK'
  BY <1>1, <1>6 DEF PullInv, PullTypeOK, PullRow
<1>8. \A x \in Pull : WindowKept(x)' /\ pull'[x].started <= hour'
  <2>. SUFFICES ASSUME NEW x \in Pull PROVE WindowKept(x)' /\ pull'[x].started <= hour'
    OBVIOUS
  <2>1. CASE x = r
    BY <1>1, <1>3, <1>4, <1>5, <2>1, PullRows DEF WindowKept, There
  <2>2. CASE x # r
    BY <1>1, <1>5, <2>2 DEF PullInv, WindowKept, Running, There
  <2>. QED  BY <2>1, <2>2
<1>9. ObjectsPulled' /\ lastRun' <= hour'
  BY <1>1 DEF PullInv, ObjectsPulled, There
<1>. QED  BY <1>7, <1>8, <1>9 DEF PullInv

(* A run that goes on: what it had in hand it has, pulled or failed on.    *)
LEMMA RunKeepsPulls ==
    ASSUME PullInv, NEW r \in Pull, pull'[r].started = pull[r].started,
           pull'[r].live => pull[r].live,
           \A x \in Pull \ {r} : pull'[x] = pull[x],
           pull' \in [Pull -> PullRow], UNCHANGED <<hour, modified, lastRun, listedFirst, otherRun, passed>>,
           pulled \subseteq pulled', pulled' \subseteq LogObject, misses' \in 0..MaxMisses,
           pull[r].todo \cup pull[r].failed \subseteq pulled' \cup pull'[r].todo \cup pull'[r].failed
    PROVE  PullInv'
<1>1. PullTypeOK'
  BY DEF PullInv, PullTypeOK, PullRow
<1>2. \A x \in Pull : WindowKept(x)' /\ pull'[x].started <= hour'
  <2>. SUFFICES ASSUME NEW x \in Pull PROVE WindowKept(x)' /\ pull'[x].started <= hour'
    OBVIOUS
  <2>1. WindowKept(x) /\ pull[x].started <= hour
    BY DEF PullInv
  <2>2. CASE x = r
    BY <2>1, <2>2 DEF WindowKept, Running, There
  <2>3. CASE x # r
    BY <2>1, <2>3 DEF WindowKept, Running, There
  <2>. QED  BY <2>2, <2>3
<1>3. ObjectsPulled' /\ lastRun' <= hour'
  BY DEF PullInv, ObjectsPulled, There
<1>. QED  BY <1>1, <1>2, <1>3 DEF PullInv

LEMMA ObjectKeepsPulls == \A r \in Pull, o \in LogObject : PullInv /\ PullsObject(r, o) => PullInv'
<1>. SUFFICES ASSUME NEW r \in Pull, NEW o \in LogObject, PullInv, PullsObject(r, o) PROVE PullInv'
  OBVIOUS
<1>1. UNCHANGED <<hour, modified, lastRun, listedFirst, otherRun, passed>> /\ misses' \in 0..MaxMisses /\ pulled \subseteq LogObject
  BY PullRows, PullAssumption DEF PullsObject, Miss
<1>2. pull[r].count + 1 \in 0..FileCap
  BY PullRows, PullAssumption DEF PullsObject, Room
<1>3. pull \in [Pull -> PullRow]
  BY PullRows
<1>4. CASE pulled' = pulled \cup {o}
           /\ pull' = [pull EXCEPT ![r].todo = @ \ {o}, ![r].count = @ + 1]
  <2>1. pull' \in [Pull -> PullRow]
    BY <1>2, <1>3, <1>4 DEF PullRow
  <2>2. /\ pull'[r].started = pull[r].started /\ pull'[r].live = pull[r].live
        /\ pull'[r].todo = pull[r].todo \ {o} /\ pull'[r].failed = pull[r].failed
        /\ \A x \in Pull \ {r} : pull'[x] = pull[x]
    BY <1>3, <1>4 DEF PullRow
  <2>. QED  BY <1>1, <1>4, <2>1, <2>2, RunKeepsPulls
<1>5. CASE pulled' = pulled
           /\ pull' = [pull EXCEPT ![r].todo = @ \ {o}, ![r].failed = @ \cup {o}]
  <2>1. pull' \in [Pull -> PullRow]
    BY <1>2, <1>3, <1>5 DEF PullRow
  <2>2. /\ pull'[r].started = pull[r].started /\ pull'[r].live = pull[r].live
        /\ pull'[r].todo = pull[r].todo \ {o} /\ pull'[r].failed = pull[r].failed \cup {o}
        /\ \A x \in Pull \ {r} : pull'[x] = pull[x]
    BY <1>3, <1>5 DEF PullRow
  <2>. QED  BY <1>1, <1>5, <2>1, <2>2, RunKeepsPulls
<1>6. CASE pulled' = pulled
           /\ pull' = [pull EXCEPT ![r].todo = @ \ {o}, ![r].count = @ + 1, ![r].failed = @ \cup {o}]
  <2>1. pull' \in [Pull -> PullRow]
    BY <1>2, <1>3, <1>6 DEF PullRow
  <2>2. /\ pull'[r].started = pull[r].started /\ pull'[r].live = pull[r].live
        /\ pull'[r].todo = pull[r].todo \ {o} /\ pull'[r].failed = pull[r].failed \cup {o}
        /\ \A x \in Pull \ {r} : pull'[x] = pull[x]
    BY <1>3, <1>6 DEF PullRow
  <2>. QED  BY <1>1, <1>6, <2>1, <2>2, RunKeepsPulls
<1>. QED  BY <1>4, <1>5, <1>6 DEF PullsObject

LEMMA ReportKeepsPulls ==
    ASSUME PullInv, NEW r \in Pull, Running(r), Reported(r), misses' \in 0..MaxMisses
    PROVE  PullInv'
<1>1. /\ pull' = [pull EXCEPT ![r] = NoPull] /\ UNCHANGED <<hour, modified, listedFirst, otherRun, pulled>>
      /\ \/ ~pull[r].live /\ UNCHANGED <<lastRun, passed>>
         \/ /\ pull[r].live /\ lastRun' = pull[r].started
            /\ passed' = passed \cup pull[r].todo \cup pull[r].failed
  BY DEF Reported
<1>2. NoPull \in PullRow /\ NoPull.started = 0
  BY PullAssumption DEF NoPull, PullRow
<1>3. pull'[r] = NoPull /\ \A x \in Pull \ {r} : pull'[x] = pull[x]
  BY <1>1, PullRows
<1>4. pull' \in [Pull -> PullRow]
  BY <1>1, <1>2, PullRows
<1>5. lastRun' \in 0..MaxHour /\ lastRun' <= hour' /\ passed' \subseteq LogObject /\ passed \subseteq passed'
  BY <1>1, PullRows
<1>6. PullTypeOK'
  BY <1>1, <1>4, <1>5 DEF PullInv, PullTypeOK, PullRow
<1>7. \A x \in Pull : WindowKept(x)' /\ pull'[x].started <= hour'
  <2>. SUFFICES ASSUME NEW x \in Pull PROVE WindowKept(x)' /\ pull'[x].started <= hour'
    OBVIOUS
  <2>1. WindowKept(x) /\ pull[x].started <= hour
    BY DEF PullInv
  <2>2. CASE x = r
    BY <1>1, <1>2, <1>3, <2>2, PullRows DEF WindowKept, Running
  <2>3. CASE x # r
    BY <1>1, <1>3, <1>5, <2>1, <2>3 DEF WindowKept, Running, There
  <2>. QED  BY <2>2, <2>3
<1>8. ObjectsPulled'
  <2>1. CASE ~pull[r].live
    BY <1>1, <2>1 DEF PullInv, ObjectsPulled, There
  <2>2. CASE pull[r].live
    <3>1. WindowKept(r)
      BY DEF PullInv
    <3>. QED  BY <1>1, <2>2, <3>1 DEF WindowKept, ObjectsPulled, There
  <2>. QED  BY <2>1, <2>2
<1>. QED  BY <1>5, <1>6, <1>7, <1>8 DEF PullInv

LEMMA DeathKeepsPulls == \A r \in Pull : PullInv /\ PullDies(r) => PullInv'
<1>. SUFFICES ASSUME NEW r \in Pull, PullInv, PullDies(r) PROVE PullInv'
  OBVIOUS
<1>1. pull' = [pull EXCEPT ![r] = NoPull] /\ UNCHANGED <<hour, modified, lastRun, listedFirst, otherRun, pulled, passed>>
      /\ misses' \in 0..MaxMisses
  BY PullRows, PullAssumption DEF PullDies, Miss
<1>2. NoPull \in PullRow /\ NoPull.started = 0
  BY PullAssumption DEF NoPull, PullRow
<1>3. pull'[r] = NoPull /\ \A x \in Pull \ {r} : pull'[x] = pull[x]
  BY <1>1, PullRows
<1>4. pull' \in [Pull -> PullRow]
  BY <1>1, <1>2, PullRows
<1>5. PullTypeOK'
  BY <1>1, <1>4 DEF PullInv, PullTypeOK, PullRow
<1>6. \A x \in Pull : WindowKept(x)' /\ pull'[x].started <= hour'
  <2>. SUFFICES ASSUME NEW x \in Pull PROVE WindowKept(x)' /\ pull'[x].started <= hour'
    OBVIOUS
  <2>1. WindowKept(x) /\ pull[x].started <= hour
    BY DEF PullInv
  <2>2. CASE x = r
    BY <1>1, <1>2, <1>3, <2>2, PullRows DEF WindowKept, Running
  <2>3. CASE x # r
    BY <1>1, <1>3, <2>1, <2>3 DEF WindowKept, Running, There
  <2>. QED  BY <2>2, <2>3
<1>. QED  BY <1>1, <1>5, <1>6 DEF PullInv, ObjectsPulled, There

LEMMA PullStep == PullInv /\ PullNext => PullInv'
<1>. SUFFICES ASSUME PullInv, PullNext PROVE PullInv'
  OBVIOUS
<1>1. ASSUME NEW r \in Pull, PullTimesOut(r) PROVE PullInv'
  <2>1. pull' = [pull EXCEPT ![r].live = FALSE] /\ UNCHANGED <<hour, modified, lastRun, listedFirst, otherRun, pulled, passed>>
        /\ misses' \in 0..MaxMisses
    BY <1>1, PullRows, PullAssumption DEF PullTimesOut, Miss
  <2>2. pull \in [Pull -> PullRow] /\ pulled \subseteq LogObject
    BY PullRows
  <2>3. pull' \in [Pull -> PullRow]
    BY <2>1, <2>2 DEF PullRow
  <2>4. /\ pull'[r].started = pull[r].started /\ ~pull'[r].live
        /\ pull'[r].todo = pull[r].todo /\ pull'[r].failed = pull[r].failed
        /\ \A x \in Pull \ {r} : pull'[x] = pull[x]
    BY <2>1, <2>2 DEF PullRow
  <2>. QED  BY <2>1, <2>2, <2>3, <2>4, RunKeepsPulls
<1>2. ASSUME NEW r \in Pull, PullEnds(r) \/ PullRaises(r) PROVE PullInv'
  <2>1. Running(r) /\ Reported(r) /\ misses' \in 0..MaxMisses
    BY <1>2, PullRows, PullAssumption DEF PullEnds, PullRaises, Miss
  <2>. QED  BY <2>1, ReportKeepsPulls
<1>3. ASSUME OtherRuns PROVE PullInv'
  <2>1. /\ otherRun' \in 0..MaxHour
        /\ UNCHANGED <<hour, modified, lastRun, listedFirst, pull, pulled, passed, misses>>
    BY <1>3, PullRows, PullAssumption DEF OtherRuns
  <2>. QED  BY <2>1 DEF PullInv, PullTypeOK, WindowKept, Running, There, ObjectsPulled
<1>. QED  BY <1>1, <1>2, <1>3, TimeKeepsPulls, ObjectsKeepPulls, StartKeepsPulls, ObjectKeepsPulls,
          DeathKeepsPulls DEF PullNext

LEMMA PullRests == PullInv /\ UNCHANGED pullVars => PullInv'
BY DEF PullInv, PullTypeOK, WindowKept, Running, There, ObjectsPulled, pullVars

LEMMA PullCovers == PullInv => ObjectsPulled
BY DEF PullInv

(* No log object falls between two runs, whatever they leave out or how    *)
(* they end (_parse_iso_ts(last_run_at) - overlap, run_connector).         *)
THEOREM ObjectsHold == PullSpec => []ObjectsPulled
<1>1. PullSpec => []PullInv
  BY PullStarted, PullStep, PullRests, PTL DEF PullSpec
<1>. QED  BY <1>1, PullCovers, PTL

-----------------------------------------------------------------------------
(* EcsTargets.                                                             *)

DrainRow == [stage : {"idle", "upserting", "disabling"}, list : SUBSET TargetList, todo : SUBSET Service]

OneList(copy) == copy \subseteq TargetList /\ \A a, b \in copy : a = b

(* What a drain has left to do, and what a drain alone has done.           *)
DrainSound(q) ==
    /\ OneList(sync[q].list) /\ (Syncing(q) => sync[q].list # {})
    /\ sync[q].stage = "upserting" => sync[q].todo \subseteq Names(q)
    /\ sync[q].stage = "disabling" => sync[q].todo \cap Names(q) = {}

DrainMirrors(q) ==
    Syncing(q) /\ q \notin muddled =>
        /\ \A l \in sync[q].list, s \in Names(q) :
               sync[q].stage = "disabling" \/ s \notin sync[q].todo => targetRow[s] = l[s]
        /\ sync[q].stage = "disabling" =>
               \A s \in Service \ Names(q) : targetRow[s] = "on" => s \in sync[q].todo

(* Drains of different lists are both marked, and rows that are fresh stay *)
(* so: every drain that is under way mirrors what is in the parameter.     *)
DrainsApart ==
    \A x, y \in Sync : Syncing(x) /\ Syncing(y) /\ sync[x].list # sync[y].list => x \in muddled

RowsAgree ==
    \A l \in param, s \in Service :
        IF l[s] = "absent" THEN targetRow[s] # "on" ELSE targetRow[s] = l[s]

RowsFresh ==
    "rows" \in fresh => RowsAgree /\ \A q \in Sync : Syncing(q) => sync[q].list = param

CopiesFresh == ("held" \in fresh => held = param) /\ ("onDisk" \in fresh => onDisk = param)

TargetTypes ==
    /\ discovered \subseteq TargetList /\ OneList(param) /\ OneList(held) /\ OneList(onDisk)
    /\ targetRow \in TargetList /\ sync \in [Sync -> DrainRow]
    /\ muddled \subseteq {q \in Sync : Syncing(q)}

TargetsInv ==
    /\ TargetTypes /\ CopiesFresh /\ RowsFresh /\ DrainsApart
    /\ \A q \in Sync : DrainSound(q) /\ DrainMirrors(q)

LEMMA TargetsStarted == TargetsInit => TargetsInv
<1>. SUFFICES ASSUME TargetsInit PROVE TargetsInv
  OBVIOUS
<1>1. NoSync \in DrainRow /\ NoSync.stage = "idle" /\ NoSync.list = {}
  BY DEF NoSync, DrainRow
<1>2. \A q \in Sync : sync[q] = NoSync
  BY DEF TargetsInit
<1>3. sync \in [Sync -> DrainRow]
  BY <1>1 DEF TargetsInit
<1>4. \A q \in Sync : ~Syncing(q) /\ sync[q].stage = "idle" /\ sync[q].list = {}
  BY <1>1, <1>2 DEF Syncing
<1>5. targetRow \in TargetList
  BY DEF TargetsInit, TargetList
<1>6. \A q \in Sync : DrainSound(q) /\ DrainMirrors(q)
  BY <1>4 DEF DrainSound, DrainMirrors, OneList
<1>7. TargetTypes
  BY <1>3, <1>5 DEF TargetsInit, TargetTypes, OneList
<1>. QED  BY <1>4, <1>6, <1>7 DEF TargetsInit, TargetsInv, CopiesFresh, RowsFresh, DrainsApart

(* Steps that leave the drains, the rows and the parameter as they are.    *)
LEMMA DrainsKept ==
    ASSUME TargetsInv, UNCHANGED <<param, targetRow, sync, muddled>>,
           "rows" \in fresh' => "rows" \in fresh, OneList(held'), OneList(onDisk'),
           discovered' \subseteq TargetList, CopiesFresh'
    PROVE  TargetsInv'
<1>1. \A q \in Sync : /\ DrainSound(q)' <=> DrainSound(q)
                      /\ DrainMirrors(q)' <=> DrainMirrors(q)
  BY DEF DrainSound, DrainMirrors, Names, Syncing
<1>2. TargetTypes'
  BY DEF TargetsInv, TargetTypes, Syncing, OneList
<1>3. RowsFresh' /\ DrainsApart'
  BY DEF TargetsInv, RowsFresh, RowsAgree, DrainsApart, Syncing
<1>. QED  BY <1>1, <1>2, <1>3 DEF TargetsInv

LEMMA FetchKeepsTargets == TargetsInv /\ FetchesTargets => TargetsInv'
<1>. SUFFICES ASSUME TargetsInv, FetchesTargets PROVE TargetsInv'
  OBVIOUS
<1>1. CopiesFresh' /\ OneList(held') /\ OneList(onDisk')
  BY DEF FetchesTargets, TargetsInv, CopiesFresh, TargetTypes
<1>2. "rows" \in fresh' => "rows" \in fresh
  BY DEF FetchesTargets
<1>3. UNCHANGED <<discovered, param, targetRow, sync, muddled>>
  BY DEF FetchesTargets
<1>. QED  BY <1>1, <1>2, <1>3, DrainsKept DEF TargetsInv, TargetTypes

LEMMA FailureKeepsTargets == TargetsInv /\ FetchFails => TargetsInv'
<1>. SUFFICES ASSUME TargetsInv, FetchFails PROVE TargetsInv'
  OBVIOUS
<1>1. /\ held' = IF IsEmpty(held) /\ onDisk # {} THEN onDisk ELSE held
      /\ fresh' = IF ~IsEmpty(held) \/ onDisk = {} THEN fresh
                  ELSE IF "onDisk" \in fresh THEN fresh \cup {"held"} ELSE fresh \ {"held"}
      /\ UNCHANGED <<discovered, param, onDisk, targetRow, sync, muddled>>
  BY DEF FetchFails, Fallback
<1>2. CopiesFresh' /\ OneList(held') /\ OneList(onDisk')
  <2>1. CASE IsEmpty(held) /\ onDisk # {}
    BY <1>1, <2>1 DEF TargetsInv, CopiesFresh, TargetTypes
  <2>2. CASE ~(IsEmpty(held) /\ onDisk # {})
    BY <1>1, <2>2 DEF TargetsInv, CopiesFresh, TargetTypes
  <2>. QED  BY <2>1, <2>2
<1>3. "rows" \in fresh' => "rows" \in fresh
  BY <1>1
<1>. QED  BY <1>1, <1>2, <1>3, DrainsKept DEF TargetsInv, TargetTypes

LEMMA RestartKeepsTargets == TargetsInv /\ ProbeRestarts => TargetsInv'
<1>. SUFFICES ASSUME TargetsInv, ProbeRestarts PROVE TargetsInv'
  OBVIOUS
<1>1. CopiesFresh' /\ OneList(held') /\ OneList(onDisk')
  BY DEF ProbeRestarts, TargetsInv, CopiesFresh, TargetTypes, OneList
<1>2. "rows" \in fresh' => "rows" \in fresh
  BY DEF ProbeRestarts
<1>3. UNCHANGED <<discovered, param, targetRow, sync, muddled>>
  BY DEF ProbeRestarts
<1>. QED  BY <1>1, <1>2, <1>3, DrainsKept DEF TargetsInv, TargetTypes

LEMMA DiscoveryKeepsTargets == TargetsInv /\ Discovers => TargetsInv'
<1>. SUFFICES ASSUME TargetsInv, Discovers PROVE TargetsInv'
  OBVIOUS
<1>1. [s \in Service |-> Entry(cluster[s])] \in TargetList
  BY DEF Entry, TargetList
<1>2. discovered' \subseteq TargetList /\ UNCHANGED <<param, held, onDisk, targetRow, sync, muddled, fresh>>
  BY <1>1 DEF Discovers, TargetsInv, TargetTypes
<1>. QED  BY <1>2, DrainsKept DEF TargetsInv, TargetTypes, CopiesFresh

LEMMA TurnKeepsTargets == \A s \in Service : TargetsInv /\ ServiceTurns(s) => TargetsInv'
<1>. SUFFICES ASSUME NEW s \in Service, TargetsInv, ServiceTurns(s) PROVE TargetsInv'
  OBVIOUS
<1>1. UNCHANGED <<discovered, param, held, onDisk, targetRow, sync, muddled, fresh>>
  BY DEF ServiceTurns
<1>. QED  BY <1>1, DrainsKept DEF TargetsInv, TargetTypes, CopiesFresh

LEMMA ParamKeepsTargets == \A l \in discovered : TargetsInv /\ PutsParam(l) => TargetsInv'
<1>. SUFFICES ASSUME NEW l \in discovered, TargetsInv, PutsParam(l) PROVE TargetsInv'
  OBVIOUS
<1>1. /\ discovered' \subseteq discovered /\ param' = {l} /\ fresh' = {} /\ l \in TargetList
      /\ UNCHANGED <<held, onDisk, targetRow, sync, muddled>>
  BY DEF PutsParam, TargetsInv, TargetTypes
<1>2. \A q \in Sync : /\ DrainSound(q)' <=> DrainSound(q)
                      /\ DrainMirrors(q)' <=> DrainMirrors(q)
  BY <1>1 DEF DrainSound, DrainMirrors, Names, Syncing
<1>3. TargetTypes'
  BY <1>1 DEF TargetsInv, TargetTypes, Syncing, OneList
<1>. QED  BY <1>1, <1>2, <1>3 DEF TargetsInv, CopiesFresh, RowsFresh, DrainsApart, Syncing

LEMMA DrainRows ==
    ASSUME TargetsInv, NEW q \in Sync
    PROVE  /\ sync \in [Sync -> DrainRow] /\ sync[q] \in DrainRow
           /\ sync[q].stage \in {"idle", "upserting", "disabling"}
           /\ sync[q].todo \subseteq Service /\ sync[q].list \subseteq TargetList
           /\ Names(q) \subseteq Service
           /\ \A l \in sync[q].list : Names(q) = {s \in Service : l[s] # "absent"}
BY DEF TargetsInv, TargetTypes, DrainRow, DrainSound, OneList, Names

LEMMA ReadKeepsTargets == \A q \in Sync : TargetsInv /\ SyncReads(q) => TargetsInv'
<1>. SUFFICES ASSUME NEW q \in Sync, TargetsInv, SyncReads(q) PROVE TargetsInv'
  OBVIOUS
<1>. DEFINE names == UNION {{s \in Service : l[s] # "absent"} : l \in param}
            row   == [stage |-> "upserting", list |-> param, todo |-> names]
            met   == {x \in Sync \ {q} : Syncing(x) /\ sync[x].list # param}
<1>1. /\ ~Syncing(q) /\ param # {} /\ sync' = [sync EXCEPT ![q] = row]
      /\ muddled' = (muddled \ {q}) \cup met \cup (IF met = {} THEN {} ELSE {q})
      /\ UNCHANGED <<discovered, param, held, onDisk, targetRow, fresh>>
  BY DEF SyncReads
<1>2. OneList(param) /\ sync \in [Sync -> DrainRow] /\ muddled \subseteq {x \in Sync : Syncing(x)}
  BY DEF TargetsInv, TargetTypes
<1>3. names \subseteq Service
  OBVIOUS
<1>4. row \in DrainRow /\ row.stage = "upserting" /\ row.list = param /\ row.todo = names
  <2>. HIDE DEF names
  <2>. QED  BY <1>2, <1>3 DEF DrainRow, OneList
<1>. HIDE DEF row
<1>5. sync' \in [Sync -> DrainRow] /\ sync'[q] = row /\ \A x \in Sync \ {q} : sync'[x] = sync[x]
  BY <1>1, <1>2, <1>4
<1>6. Syncing(q)' /\ \A x \in Sync \ {q} : Syncing(x)' = Syncing(x)
  BY <1>4, <1>5 DEF Syncing
<1>7. Names(q)' = names /\ \A x \in Sync \ {q} : Names(x)' = Names(x)
  BY <1>4, <1>5 DEF Names
<1>. HIDE DEF met, names
<1>8. muddled' \subseteq {x \in Sync : Syncing(x)'} /\ \A x \in Sync \ {q} : x \in muddled => x \in muddled'
  BY <1>1, <1>2, <1>6 DEF met
<1>9. TargetTypes'
  BY <1>1, <1>5, <1>8 DEF TargetsInv, TargetTypes
<1>10. DrainSound(q)' /\ DrainMirrors(q)'
  BY <1>1, <1>2, <1>4, <1>5, <1>7 DEF DrainSound, DrainMirrors
<1>11. ASSUME NEW x \in Sync \ {q} PROVE DrainSound(x)' /\ DrainMirrors(x)'
  <2>1. DrainSound(x) /\ DrainMirrors(x)
    BY DEF TargetsInv
  <2>2. x \notin muddled' => x \notin muddled
    BY <1>8
  <2>. QED  BY <1>1, <1>5, <1>6, <1>7, <2>1, <2>2 DEF DrainSound, DrainMirrors
<1>12. DrainsApart'
  <2>. SUFFICES ASSUME NEW x \in Sync, NEW y \in Sync, Syncing(x)', Syncing(y)', sync'[x].list # sync'[y].list
                PROVE  x \in muddled'
    BY DEF DrainsApart
  <2>1. CASE x = q
    <3>1. y \in met
      BY <1>4, <1>5, <1>6, <2>1 DEF met
    <3>. QED  BY <1>1, <2>1, <3>1
  <2>2. CASE x # q /\ y = q
    <3>1. x \in met
      BY <1>4, <1>5, <1>6, <2>2 DEF met
    <3>. QED  BY <1>1, <3>1
  <2>3. CASE x # q /\ y # q
    BY <1>5, <1>6, <1>8, <2>3 DEF TargetsInv, DrainsApart
  <2>. QED  BY <2>1, <2>2, <2>3
<1>13. RowsFresh'
  BY <1>1, <1>4, <1>5, <1>6 DEF TargetsInv, RowsFresh, RowsAgree
<1>. QED  BY <1>1, <1>9, <1>10, <1>11, <1>12, <1>13 DEF TargetsInv, CopiesFresh

(* A drain writes a row as its list has it, and strikes it off.            *)
LEMMA WriteKeepsTargets ==
    ASSUME TargetsInv, NEW q \in Sync, Syncing(q), NEW s \in Service, NEW l \in sync[q].list,
           NEW entry \in {"absent", "off", "on"},
           \/ s \in Names(q) /\ entry = l[s]
           \/ s \notin Names(q) /\ entry = "off",
           targetRow' = [targetRow EXCEPT ![s] = entry], sync' = [sync EXCEPT ![q].todo = @ \ {s}],
           UNCHANGED <<discovered, param, held, onDisk, muddled, fresh>>
    PROVE  TargetsInv'
<1>1. sync \in [Sync -> DrainRow] /\ sync[q] \in DrainRow
  BY DrainRows
<1>2. /\ sync' \in [Sync -> DrainRow] /\ \A x \in Sync \ {q} : sync'[x] = sync[x]
      /\ sync'[q].stage = sync[q].stage /\ sync'[q].list = sync[q].list
      /\ sync'[q].todo = sync[q].todo \ {s}
  BY <1>1 DEF DrainRow
<1>3. targetRow \in TargetList /\ targetRow' \in TargetList /\ targetRow'[s] = entry
      /\ \A x \in Service \ {s} : targetRow'[x] = targetRow[x]
  BY DEF TargetsInv, TargetTypes, TargetList
<1>4. \A x \in Sync : /\ Syncing(x)' = Syncing(x) /\ Names(x)' = Names(x)
                      /\ sync'[x].stage = sync[x].stage /\ sync'[x].list = sync[x].list
  BY <1>2 DEF Syncing, Names
<1>5. TargetTypes'
  BY <1>2, <1>3, <1>4 DEF TargetsInv, TargetTypes
<1>6. \A x \in Sync : DrainSound(x)'
  BY <1>2, <1>4 DEF TargetsInv, DrainSound
<1>7. DrainsApart'
  BY <1>4 DEF TargetsInv, DrainsApart
<1>8. ASSUME NEW x \in Sync, Syncing(x), x \notin muddled
      PROVE  /\ sync[x].list = sync[q].list
             /\ Names(x) = Names(q)
  BY <1>8 DEF TargetsInv, DrainsApart, Names
<1>9. ASSUME NEW x \in Sync PROVE DrainMirrors(x)'
  <2>1. SUFFICES ASSUME Syncing(x), x \notin muddled PROVE DrainMirrors(x)'
    BY <1>4 DEF DrainMirrors
  <2>2. DrainMirrors(x)
    BY DEF TargetsInv
  <2>3. \A k \in sync[x].list : k = l
    BY <1>8, <2>1 DEF TargetsInv, DrainSound, OneList
  <2>4. ASSUME NEW k \in sync[x].list, NEW n \in Names(x),
               sync[x].stage = "disabling" \/ n \notin sync'[x].todo
        PROVE  targetRow'[n] = k[n]
    <3>1. n \in Service
      BY DrainRows
    <3>2. CASE n = s
      BY <1>3, <1>8, <2>1, <2>3, <3>2
    <3>3. CASE n # s
      <4>1. sync[x].stage = "disabling" \/ n \notin sync[x].todo
        BY <1>2, <2>4, <3>3
      <4>. QED  BY <1>3, <2>1, <2>2, <3>1, <3>3, <4>1 DEF DrainMirrors
    <3>. QED  BY <3>2, <3>3
  <2>5. ASSUME sync[x].stage = "disabling", NEW n \in Service \ Names(x), targetRow'[n] = "on"
        PROVE  n \in sync'[x].todo
    <3>1. n # s
      BY <1>3, <1>8, <2>1, <2>5
    <3>2. n \in sync[x].todo
      BY <1>3, <2>1, <2>2, <2>5, <3>1 DEF DrainMirrors
    <3>. QED  BY <1>2, <3>1, <3>2
  <2>. QED  BY <1>4, <2>4, <2>5 DEF DrainMirrors
<1>10. RowsFresh'
  <2>1. SUFFICES ASSUME "rows" \in fresh PROVE RowsAgree'
    BY <1>4 DEF TargetsInv, RowsFresh
  <2>2. RowsAgree /\ sync[q].list = param /\ l \in param /\ OneList(param)
    BY <2>1 DEF TargetsInv, RowsFresh, TargetTypes
  <2>3. s \in Names(q) <=> l[s] # "absent"
    BY DrainRows
  <2>. QED  BY <1>3, <2>2, <2>3 DEF RowsAgree, OneList
<1>. QED  BY <1>5, <1>6, <1>7, <1>9, <1>10 DEF TargetsInv, CopiesFresh

LEMMA UpsertKeepsTargets == \A q \in Sync, s \in Service : TargetsInv /\ SyncUpserts(q, s) => TargetsInv'
<1>. SUFFICES ASSUME NEW q \in Sync, NEW s \in Service, TargetsInv, SyncUpserts(q, s) PROVE TargetsInv'
  OBVIOUS
<1>1. PICK l \in sync[q].list : targetRow' = [targetRow EXCEPT ![s] = l[s]]
  BY DEF SyncUpserts
<1>2. /\ sync[q].stage = "upserting" /\ s \in sync[q].todo
      /\ sync' = [sync EXCEPT ![q].todo = @ \ {s}]
      /\ UNCHANGED <<discovered, param, held, onDisk, muddled, fresh>>
  BY DEF SyncUpserts
<1>3. Syncing(q) /\ s \in Names(q)
  BY <1>2 DEF Syncing, TargetsInv, DrainSound
<1>4. l[s] \in {"absent", "off", "on"}
  BY <1>1, DrainRows DEF TargetList
<1>. QED  BY <1>1, <1>2, <1>3, <1>4, WriteKeepsTargets

LEMMA DisableKeepsTargets == \A q \in Sync, s \in Service : TargetsInv /\ SyncDisables(q, s) => TargetsInv'
<1>. SUFFICES ASSUME NEW q \in Sync, NEW s \in Service, TargetsInv, SyncDisables(q, s) PROVE TargetsInv'
  OBVIOUS
<1>1. /\ sync[q].stage = "disabling" /\ s \in sync[q].todo
      /\ targetRow' = [targetRow EXCEPT ![s] = "off"]
      /\ sync' = [sync EXCEPT ![q].todo = @ \ {s}]
      /\ UNCHANGED <<discovered, param, held, onDisk, muddled, fresh>>
  BY DEF SyncDisables
<1>2. Syncing(q) /\ s \notin Names(q) /\ sync[q].list # {}
  BY <1>1 DEF Syncing, TargetsInv, DrainSound
<1>3. PICK l \in sync[q].list : TRUE
  BY <1>2
<1>. QED  BY <1>1, <1>2, <1>3, WriteKeepsTargets

LEMMA LookKeepsTargets == \A q \in Sync : TargetsInv /\ SyncLooks(q) => TargetsInv'
<1>. SUFFICES ASSUME NEW q \in Sync, TargetsInv, SyncLooks(q) PROVE TargetsInv'
  OBVIOUS
<1>1. /\ sync[q].stage = "upserting" /\ sync[q].todo = {}
      /\ sync' = [sync EXCEPT ![q].stage = "disabling", ![q].todo = Leftover(q)]
      /\ UNCHANGED <<discovered, param, held, onDisk, targetRow, muddled, fresh>>
  BY DEF SyncLooks
<1>2. sync \in [Sync -> DrainRow] /\ sync[q] \in DrainRow
  BY DrainRows
<1>3. Leftover(q) \subseteq Service /\ Leftover(q) \cap Names(q) = {}
      /\ \A s \in Service \ Names(q) : targetRow[s] = "on" => s \in Leftover(q)
  BY DEF Leftover
<1>4. /\ sync' \in [Sync -> DrainRow] /\ \A x \in Sync \ {q} : sync'[x] = sync[x]
      /\ sync'[q].stage = "disabling" /\ sync'[q].list = sync[q].list
      /\ sync'[q].todo = Leftover(q)
  BY <1>1, <1>2, <1>3 DEF DrainRow
<1>5. \A x \in Sync : /\ Syncing(x)' = Syncing(x) /\ Names(x)' = Names(x) /\ sync'[x].list = sync[x].list
  BY <1>1, <1>4 DEF Syncing, Names
<1>6. TargetTypes' /\ DrainsApart' /\ RowsFresh'
  BY <1>1, <1>4, <1>5 DEF TargetsInv, TargetTypes, DrainsApart, RowsFresh, RowsAgree
<1>7. \A x \in Sync : DrainSound(x) /\ DrainMirrors(x)
  BY DEF TargetsInv
<1>8. \A x \in Sync \ {q} : DrainSound(x)' /\ DrainMirrors(x)'
  BY <1>1, <1>4, <1>5, <1>7 DEF DrainSound, DrainMirrors
<1>9. DrainSound(q)' /\ DrainMirrors(q)'
  BY <1>1, <1>3, <1>4, <1>5, <1>7 DEF DrainSound, DrainMirrors
<1>. QED  BY <1>1, <1>6, <1>8, <1>9 DEF TargetsInv, CopiesFresh

(* A drain ends, well or not: what it held is let go of.                   *)
LEMMA LetsGo ==
    ASSUME TargetsInv, NEW q \in Sync, sync' = [sync EXCEPT ![q] = NoSync], muddled' = muddled \ {q},
           UNCHANGED <<discovered, param, held, onDisk, targetRow>>
    PROVE  /\ TargetTypes' /\ DrainsApart' /\ \A x \in Sync : DrainSound(x)' /\ DrainMirrors(x)'
           /\ ~Syncing(q)'
           /\ \A x \in Sync \ {q} : Syncing(x)' = Syncing(x) /\ sync'[x] = sync[x]
<1>1. NoSync \in DrainRow /\ NoSync.stage = "idle" /\ NoSync.list = {}
  BY DEF NoSync, DrainRow
<1>2. sync'[q] = NoSync /\ sync' \in [Sync -> DrainRow] /\ \A x \in Sync \ {q} : sync'[x] = sync[x]
  BY <1>1, DrainRows
<1>3. ~Syncing(q)' /\ \A x \in Sync \ {q} : Syncing(x)' = Syncing(x) /\ Names(x)' = Names(x)
  BY <1>1, <1>2 DEF Syncing, Names
<1>4. TargetTypes' /\ DrainsApart'
  BY <1>2, <1>3 DEF TargetsInv, TargetTypes, DrainsApart
<1>5. \A x \in Sync \ {q} : DrainSound(x)' /\ DrainMirrors(x)'
  BY <1>2, <1>3 DEF TargetsInv, DrainSound, DrainMirrors
<1>6. DrainSound(q)' /\ DrainMirrors(q)'
  BY <1>1, <1>2, <1>3 DEF DrainSound, DrainMirrors, OneList
<1>. QED  BY <1>2, <1>3, <1>4, <1>5, <1>6

LEMMA EndKeepsTargets == \A q \in Sync : TargetsInv /\ SyncEnds(q) => TargetsInv'
<1>. SUFFICES ASSUME NEW q \in Sync, TargetsInv, SyncEnds(q) PROVE TargetsInv'
  OBVIOUS
<1>1. /\ sync[q].stage = "disabling" /\ sync[q].todo = {}
      /\ sync' = [sync EXCEPT ![q] = NoSync] /\ muddled' = muddled \ {q}
      /\ UNCHANGED <<discovered, param, held, onDisk, targetRow>>
  BY DEF SyncEnds
<1>2. /\ TargetTypes' /\ DrainsApart' /\ \A x \in Sync : DrainSound(x)' /\ DrainMirrors(x)'
      /\ ~Syncing(q)' /\ \A x \in Sync \ {q} : Syncing(x)' = Syncing(x) /\ sync'[x] = sync[x]
  BY <1>1, LetsGo
<1>3. CopiesFresh'
  BY <1>1 DEF SyncEnds, TargetsInv, CopiesFresh
<1>4. RowsFresh'
  <2>1. CASE /\ sync[q].list = param /\ q \notin muddled
             /\ \A x \in Sync : Syncing(x) => sync[x].list = param /\ x \notin muddled
    <3>1. \A x \in Sync : Syncing(x)' => sync'[x].list = param'
      BY <1>1, <1>2, <2>1
    <3>2. Syncing(q) /\ DrainMirrors(q)
      BY <1>1 DEF TargetsInv, Syncing
    <3>3. \A l \in param, s \in Service : s \in Names(q) <=> l[s] # "absent"
      BY <2>1, DrainRows
    <3>4. RowsAgree
      BY <1>1, <2>1, <3>2, <3>3 DEF DrainMirrors, RowsAgree
    <3>. QED  BY <1>1, <3>1, <3>4 DEF RowsFresh, RowsAgree
  <2>2. CASE fresh' = fresh
    BY <1>1, <1>2, <2>2 DEF TargetsInv, RowsFresh, RowsAgree
  <2>. QED  BY <2>1, <2>2 DEF SyncEnds
<1>. QED  BY <1>2, <1>3, <1>4 DEF TargetsInv

LEMMA BreakKeepsTargets == \A q \in Sync : TargetsInv /\ SyncBreaks(q) => TargetsInv'
<1>. SUFFICES ASSUME NEW q \in Sync, TargetsInv, SyncBreaks(q) PROVE TargetsInv'
  OBVIOUS
<1>1. /\ sync' = [sync EXCEPT ![q] = NoSync] /\ muddled' = muddled \ {q}
      /\ UNCHANGED <<discovered, param, held, onDisk, targetRow, fresh>>
  BY DEF SyncBreaks
<1>2. /\ TargetTypes' /\ DrainsApart' /\ \A x \in Sync : DrainSound(x)' /\ DrainMirrors(x)'
      /\ ~Syncing(q)' /\ \A x \in Sync \ {q} : Syncing(x)' = Syncing(x) /\ sync'[x] = sync[x]
  BY <1>1, LetsGo
<1>3. CopiesFresh' /\ RowsFresh'
  BY <1>1, <1>2 DEF TargetsInv, CopiesFresh, RowsFresh, RowsAgree
<1>. QED  BY <1>2, <1>3 DEF TargetsInv

LEMMA EditKeepsTargets == \A s \in Service : TargetsInv /\ OperatorEdits(s) => TargetsInv'
<1>. SUFFICES ASSUME NEW s \in Service, TargetsInv, OperatorEdits(s) PROVE TargetsInv'
  OBVIOUS
<1>1. PICK as \in {"absent", "on", "off"} : targetRow' = [targetRow EXCEPT ![s] = as]
  BY DEF OperatorEdits
<1>2. /\ muddled' = {q \in Sync : Syncing(q)} /\ fresh' = fresh \ {"rows"}
      /\ UNCHANGED <<discovered, param, held, onDisk, sync>>
  BY DEF OperatorEdits
<1>3. targetRow' \in TargetList
  BY <1>1 DEF TargetsInv, TargetTypes, TargetList
<1>4. \A q \in Sync : Syncing(q)' = Syncing(q) /\ Names(q)' = Names(q)
  BY <1>2 DEF Syncing, Names
<1>5. TargetTypes'
  BY <1>2, <1>3, <1>4 DEF TargetsInv, TargetTypes
<1>6. \A q \in Sync : DrainSound(q)' /\ DrainMirrors(q)'
  BY <1>2, <1>4 DEF TargetsInv, DrainSound, DrainMirrors
<1>. QED  BY <1>2, <1>4, <1>5, <1>6 DEF TargetsInv, CopiesFresh, RowsFresh, DrainsApart

LEMMA TargetsStep == TargetsInv /\ TargetsNext => TargetsInv'
BY FetchKeepsTargets, FailureKeepsTargets, RestartKeepsTargets, DiscoveryKeepsTargets, TurnKeepsTargets,
   ParamKeepsTargets, ReadKeepsTargets, UpsertKeepsTargets, DisableKeepsTargets, LookKeepsTargets,
   EndKeepsTargets, BreakKeepsTargets, EditKeepsTargets DEF TargetsNext

LEMMA TargetsRest == TargetsInv /\ UNCHANGED targetVars => TargetsInv'
<1>. SUFFICES ASSUME TargetsInv, UNCHANGED targetVars PROVE TargetsInv'
  OBVIOUS
<1>1. UNCHANGED <<discovered, param, held, onDisk, targetRow, sync, muddled, fresh>>
  BY DEF targetVars
<1>. QED  BY <1>1, DrainsKept DEF TargetsInv, TargetTypes, CopiesFresh

(* What the bounds and the clusters are like, and that a drain has a list  *)
(* exactly while it is under way.                                          *)
TargetsBounded ==
    /\ cluster \in [Service -> {"gone", "unreachable", "live"}]
    /\ fresh \subseteq {"held", "onDisk", "rows"}
    /\ turns \in 0..MaxTurns /\ outages \in 0..MaxOutages
    /\ \A q \in Sync : sync[q].list = {} <=> sync[q].stage = "idle"

LEMMA TargetsBoundedAtFirst == TargetsInit => TargetsBounded
<1>. SUFFICES ASSUME TargetsInit PROVE TargetsBounded
  OBVIOUS
<1>1. /\ cluster \in [Service -> {"gone", "unreachable", "live"}]
      /\ fresh \subseteq {"held", "onDisk", "rows"}
  BY DEF TargetsInit
<1>2. turns \in 0..MaxTurns /\ outages \in 0..MaxOutages
  BY TargetsAssumption DEF TargetsInit
<1>3. \A q \in Sync : sync[q] = NoSync
  BY DEF TargetsInit
<1>. QED  BY <1>1, <1>2, <1>3 DEF TargetsBounded, NoSync

LEMMA TargetsStayBounded == TargetsInv /\ TargetsBounded /\ TargetsNext => TargetsBounded'
<1>. SUFFICES ASSUME TargetsInv, TargetsBounded, TargetsNext PROVE TargetsBounded'
  OBVIOUS
<1>. USE TargetsAssumption DEF Outage
<1>0. sync \in [Sync -> DrainRow]
  BY DEF TargetsInv, TargetTypes
<1>. DEFINE Bounds == turns' \in 0..MaxTurns /\ outages' \in 0..MaxOutages
            Rest   == /\ cluster' \in [Service -> {"gone", "unreachable", "live"}]
                      /\ fresh' \subseteq {"held", "onDisk", "rows"}
                      /\ UNCHANGED sync
<1>7. Bounds /\ Rest => TargetsBounded'
  BY DEF TargetsBounded
<1>8. turns \in 0..MaxTurns /\ outages \in 0..MaxOutages
      /\ cluster \in [Service -> {"gone", "unreachable", "live"}] /\ fresh \subseteq {"held", "onDisk", "rows"}
  BY DEF TargetsBounded
<1>1. ASSUME NEW s \in Service, ServiceTurns(s) \/ OperatorEdits(s) PROVE TargetsBounded'
  <2>1. Bounds
    BY <1>1, <1>8 DEF ServiceTurns, OperatorEdits
  <2>2. Rest
    BY <1>1, <1>8 DEF ServiceTurns, OperatorEdits
  <2>. QED  BY <2>1, <2>2, <1>7
<1>2. ASSUME Discovers \/ \E l \in discovered : PutsParam(l) PROVE TargetsBounded'
  <2>1. Bounds /\ Rest
    BY <1>2, <1>8 DEF Discovers, PutsParam
  <2>. QED  BY <2>1, <1>7
<1>3. ASSUME FetchesTargets \/ FetchFails \/ ProbeRestarts PROVE TargetsBounded'
  <2>1. Bounds
    BY <1>3, <1>8 DEF FetchesTargets, FetchFails, ProbeRestarts
  <2>2. Rest
    BY <1>3, <1>8 DEF FetchesTargets, FetchFails, ProbeRestarts
  <2>. QED  BY <2>1, <2>2, <1>7
<1>4. ASSUME NEW q \in Sync, SyncReads(q) PROVE TargetsBounded'
  <2>1. \A x \in Sync : sync'[x].list = {} <=> sync'[x].stage = "idle"
    BY <1>0, <1>4 DEF TargetsBounded, SyncReads
  <2>. QED  BY <1>4, <2>1 DEF TargetsBounded, SyncReads
<1>5. ASSUME NEW q \in Sync,
             SyncLooks(q) \/ (\E s \in Service : SyncUpserts(q, s) \/ SyncDisables(q, s))
      PROVE  TargetsBounded'
  <2>1. \A x \in Sync : /\ sync'[x].list = sync[x].list
                        /\ sync'[x].stage = "idle" <=> sync[x].stage = "idle"
    BY <1>0, <1>5 DEF SyncLooks, SyncUpserts, SyncDisables, DrainRow
  <2>. QED  BY <1>5, <2>1 DEF TargetsBounded, SyncLooks, SyncUpserts, SyncDisables
<1>6. ASSUME NEW q \in Sync, SyncEnds(q) \/ SyncBreaks(q) PROVE TargetsBounded'
  <2>1. \A x \in Sync : sync'[x] = IF x = q THEN NoSync ELSE sync[x]
    BY <1>0, <1>6 DEF SyncEnds, SyncBreaks
  <2>2. \A x \in Sync : sync'[x].list = {} <=> sync'[x].stage = "idle"
    BY <2>1 DEF TargetsBounded, NoSync
  <2>3. Bounds /\ cluster' = cluster
    BY <1>6, <1>8 DEF SyncEnds, SyncBreaks
  <2>4. fresh' \subseteq {"held", "onDisk", "rows"}
    BY <1>6, <1>8 DEF SyncEnds, SyncBreaks
  <2>. QED  BY <2>2, <2>3, <2>4, <1>8 DEF TargetsBounded
<1>. QED  BY <1>1, <1>2, <1>3, <1>4, <1>5, <1>6 DEF TargetsNext

LEMMA TargetsRestBounded == TargetsBounded /\ UNCHANGED targetVars => TargetsBounded'
BY DEF TargetsBounded, targetVars

LEMMA TargetsTyped == TargetsInv /\ TargetsBounded => TargetsTypeOK
<1>. SUFFICES ASSUME TargetsInv, TargetsBounded PROVE TargetsTypeOK
  OBVIOUS
<1>1. \A copy : OneList(copy) => copy \subseteq TargetList /\ Cardinality(copy) <= 1
  <2>. SUFFICES ASSUME NEW copy, OneList(copy) PROVE copy \subseteq TargetList /\ Cardinality(copy) <= 1
    OBVIOUS
  <2>1. copy = {} \/ \E x : copy = {x}
    BY DEF OneList
  <2>2. Cardinality({}) = 0 /\ \A x : Cardinality({x}) = 1
    BY FS_EmptySet, FS_Singleton
  <2>3. Cardinality(copy) <= 1
    BY <2>1, <2>2
  <2>. QED  BY <2>3 DEF OneList
<1>2. OneList(param) /\ OneList(held) /\ OneList(onDisk)
  BY DEF TargetsInv, TargetTypes
<1>3. \A copy \in {param, held, onDisk} : copy \subseteq TargetList /\ Cardinality(copy) <= 1
  BY <1>1, <1>2
<1>4. \A q \in Sync :
         /\ sync[q].stage \in {"idle", "upserting", "disabling"} /\ sync[q].todo \subseteq Service
         /\ sync[q].list \subseteq TargetList
  BY DEF TargetsInv, TargetTypes, DrainRow
<1>5. discovered \subseteq TargetList /\ targetRow \in TargetList /\ muddled \subseteq Sync
  BY DEF TargetsInv, TargetTypes
<1>. QED  BY <1>3, <1>4, <1>5 DEF TargetsTypeOK, TargetsBounded

LEMMA TargetsCover == TargetsInv => TargetsAgree
<1>. SUFFICES ASSUME TargetsInv PROVE TargetsAgree
  OBVIOUS
<1>1. CopiesFresh /\ RowsFresh
  BY DEF TargetsInv
<1>2. ASSUME "held" \in fresh, "rows" \in fresh, NEW l \in held
      PROVE  {s \in Service : l[s] = "on"} = {s \in Service : targetRow[s] = "on"}
  BY <1>1, <1>2 DEF CopiesFresh, RowsFresh, RowsAgree
<1>. QED  BY <1>1, <1>2 DEF TargetsAgree, CopiesFresh, RowsFresh, RowsAgree

(* The probe checks what probe_targets has enabled, once both were taken   *)
(* from the same list (_sync_targets_from_ssm, the fallback of the probe). *)
THEOREM TargetsHold == TargetsSpec => []TargetsAgree
<1>1. TargetsSpec => []TargetsInv
  BY TargetsStarted, TargetsStep, TargetsRest, PTL DEF TargetsSpec
<1>. QED  BY <1>1, TargetsCover, PTL

-----------------------------------------------------------------------------
(* ApiPages, the stored events.                                            *)

StoredRow == [turn : Nat, kind : StoredKind, day : {"today", "before"}]

PagesInv == IsFiniteSet(eventRows) /\ eventRows \subseteq StoredRow

LEMMA LeastOf == \A a, b \in Nat : Least(a, b) \in Nat /\ Least(a, b) <= a /\ Least(a, b) <= b
                                   /\ (Least(a, b) = a \/ Least(a, b) = b)
BY DEF Least

(* A part of a finite set.                                                 *)
LEMMA PartOf ==
    ASSUME NEW R, IsFiniteSet(R), NEW S, S \subseteq R
    PROVE  /\ IsFiniteSet(S) /\ Cardinality(S) \in Nat /\ Cardinality(R) \in Nat
           /\ Cardinality(S) <= Cardinality(R)
           /\ S # R => Cardinality(S) < Cardinality(R)
BY FS_Subset, FS_CardinalityType

LEMMA SomeIn == \A S : IsFiniteSet(S) => (Cardinality(S) > 0 <=> S # {})
BY FS_EmptySet, FS_CardinalityType

LEMMA TwoParts ==
    ASSUME NEW S, NEW T, IsFiniteSet(S), IsFiniteSet(T)
    PROVE  IsFiniteSet(S \cup T) /\ Cardinality(S \cup T) <= Cardinality(S) + Cardinality(T)
<1>1. /\ IsFiniteSet(S \cup T)
      /\ Cardinality(S \cup T) = Cardinality(S) + Cardinality(T) - Cardinality(S \cap T)
  BY FS_Union
<1>2. IsFiniteSet(S \cap T)
  BY PartOf
<1>3. Cardinality(S) \in Nat /\ Cardinality(T) \in Nat /\ Cardinality(S \cap T) \in Nat
  BY <1>2, FS_CardinalityType
<1>. QED  BY <1>1, <1>3

(* What one read returns: all there is, or as many rows as it may, and no  *)
(* row of yesterday before one of the day.                                 *)
LEMMA ReadOnce ==
    ASSUME NEW R, IsFiniteSet(R), NEW n \in Nat, NEW some \in Newest(n, R)
    PROVE  /\ some \subseteq R /\ IsFiniteSet(some)
           /\ some # R => Cardinality(some) = Least(n, Limit)
           /\ Cardinality(InDay(R)) <= Least(n, Limit) => InDay(some) = InDay(R)
           /\ InDay(R) # {} /\ Least(n, Limit) # 0 => InDay(some) # {}
           /\ \A r \in some, q \in R \ some : ~OlderThan(r, q)
<1>. DEFINE k == Least(n, Limit)
<1>1. some \subseteq R /\ IsFiniteSet(some) /\ Cardinality(some) = Least(Cardinality(R), k)
      /\ \A r \in some, q \in R \ some : ~OlderThan(r, q)
  BY PartOf DEF Newest
<1>2. k \in Nat
  BY LeastOf, PagesAssumption
<1>. HIDE DEF k
<1>3. Cardinality(R) \in Nat /\ (some # R => Cardinality(some) < Cardinality(R))
  BY <1>1, PartOf
<1>4. some # R => Cardinality(some) = k
  BY <1>1, <1>2, <1>3, LeastOf
<1>5. InDay(R) \subseteq R /\ InDay(some) \subseteq InDay(R)
  BY <1>1 DEF InDay
<1>6. ASSUME NEW q \in InDay(R), q \notin some PROVE some \subseteq InDay(R) \ {q}
  <2>1. IsToday(q) /\ q \in R \ some
    BY <1>6 DEF InDay
  <2>. QED  BY <1>1, <1>6, <2>1 DEF OlderThan, InDay
<1>7. ASSUME Cardinality(InDay(R)) <= k PROVE InDay(some) = InDay(R)
  <2>. SUFFICES ASSUME NEW q \in InDay(R), q \notin some PROVE FALSE
    BY <1>5 DEF InDay
  <2>1. some \subseteq InDay(R) /\ some # InDay(R)
    BY <1>6
  <2>2. IsFiniteSet(InDay(R)) /\ Cardinality(InDay(R)) \in Nat
    BY <1>5, PartOf
  <2>3. Cardinality(some) < Cardinality(InDay(R)) /\ Cardinality(some) \in Nat
    BY <2>1, <2>2, PartOf
  <2>4. Cardinality(some) = k
    BY <1>4, <1>5
  <2>. QED  BY <1>2, <1>7, <2>2, <2>3, <2>4
<1>8. ASSUME InDay(R) # {}, k # 0 PROVE InDay(some) # {}
  <2>1. PICK q \in InDay(R) : TRUE
    BY <1>8
  <2>2. some # {}
    <3>1. some # R => Cardinality(some) > 0
      BY <1>2, <1>4, <1>8
    <3>. QED  BY <1>1, <1>5, <2>1, <3>1, SomeIn
  <2>3. CASE q \in some
    BY <2>1, <2>3 DEF InDay
  <2>4. CASE q \notin some
    BY <1>6, <2>2, <2>4 DEF InDay
  <2>. QED  BY <2>3, <2>4
<1>. QED  BY <1>1, <1>4, <1>7, <1>8 DEF k

LEMMA PagesStarted == PagesInit => PagesInv
BY FS_EmptySet DEF PagesInit, PagesInv

LEMMA PagesStep == PagesInv /\ PagesNext => PagesInv'
<1>. SUFFICES ASSUME PagesInv, PagesNext PROVE PagesInv'
  OBVIOUS
<1>0. Cardinality(eventRows) \in Nat
  BY FS_CardinalityType DEF PagesInv
<1>1. ASSUME NEW incoming \in StoredKind, NEW day \in {"today", "before"}, ComesIn(incoming, day) PROVE PagesInv'
  <2>. DEFINE row == [turn |-> Cardinality(eventRows) + 1, kind |-> incoming, day |-> day]
  <2>2. row \in StoredRow
    BY <1>0 DEF StoredRow
  <2>. HIDE DEF row
  <2>3. eventRows' = eventRows \cup {row}
    BY <1>1 DEF ComesIn, row
  <2>. QED  BY <2>2, <2>3, FS_AddElement DEF PagesInv
<1>2. CASE DayPasses
  <2>. DEFINE old(r) == [r EXCEPT !.day = "before"]
  <2>1. eventRows' = {old(r) : r \in eventRows}
    BY <1>2 DEF DayPasses
  <2>2. \A r \in StoredRow : old(r) \in StoredRow
    BY DEF StoredRow
  <2>3. IsFiniteSet(eventRows')
    <3>. HIDE DEF old
    <3>. DEFINE f == [r \in eventRows |-> old(r)]
    <3>1. f \in Surjection(eventRows, eventRows')
      BY <2>1 DEF Surjection
    <3>. HIDE DEF f
    <3>. QED  BY <3>1, FS_Surjection DEF PagesInv
  <2>. QED  BY <2>1, <2>2, <2>3 DEF PagesInv
<1>. QED  BY <1>1, <1>2 DEF PagesNext

LEMMA PagesRest == PagesInv /\ UNCHANGED pagesVars => PagesInv'
BY DEF PagesInv, pagesVars

LEMMA PagesTypedAtFirst == PagesInit => PagesTypeOK
BY DEF PagesInit, PagesTypeOK

LEMMA PagesStayTyped == PagesInv /\ PagesTypeOK /\ PagesNext => PagesTypeOK'
<1>. SUFFICES ASSUME PagesInv, PagesTypeOK, PagesNext PROVE PagesTypeOK'
  OBVIOUS
<1>0. Cardinality(eventRows) \in Nat /\ MaxStored \in Nat /\ StoredKind \subseteq StoredKinds
  BY FS_CardinalityType, PagesAssumption DEF PagesInv
<1>1. ASSUME NEW incoming \in StoredKind, NEW day \in {"today", "before"}, ComesIn(incoming, day)
      PROVE  PagesTypeOK'
  <2>1. [turn |-> Cardinality(eventRows) + 1, kind |-> incoming, day |-> day] \in
           [turn : 1..MaxStored, kind : StoredKinds, day : {"today", "before"}]
    BY <1>0, <1>1 DEF ComesIn
  <2>. QED  BY <1>1, <2>1 DEF ComesIn, PagesTypeOK
<1>2. CASE DayPasses
  BY <1>2 DEF DayPasses, PagesTypeOK
<1>. QED  BY <1>1, <1>2 DEF PagesNext

(* Every kind of a list is counted, by a counter of that list alone.       *)
LEMMA KindsCounted ==
    \A s \in DOMAIN Sections : \A k \in Sections[s] :
        \E c \in DOMAIN Counters : k \in Counters[c] /\ Counters[c] \subseteq Sections[s]
<1>. SUFFICES ASSUME NEW s \in {"logins", "iam", "kms", "groups", "topology", "exposure", "tamper", "posture"},
                     NEW k \in Sections[s]
              PROVE  \E c \in DOMAIN Counters : k \in Counters[c] /\ Counters[c] \subseteq Sections[s]
  BY DEF Sections
<1>0. DOMAIN Counters = {"logins_ok", "logins_failed", "logins_root", "logins_sso", "iam_changes",
                         "mfa_disabled", "kms_changes", "sg_changes", "network_topology",
                         "storage_exposure", "ct_tamper", "posture_findings_new"}
  BY DEF Counters
<1>1. CASE s = "logins"
  <2>1. Sections[s] = {"login", "root refused", "sso refused"}
    BY <1>1 DEF Sections
  <2>2. Counters["logins_ok"] = {"login"} /\ Counters["logins_failed"] = {"root refused", "sso refused"}
    BY DEF Counters
  <2>. QED  BY <1>0, <2>1, <2>2
<1>2. CASE s = "iam"
  <2>1. Sections[s] = Counters["iam_changes"]
    BY <1>2 DEF Sections, Counters
  <2>. QED  BY <1>0, <2>1
<1>3. CASE s = "kms"
  <2>1. Sections[s] = Counters["kms_changes"]
    BY <1>3 DEF Sections, Counters
  <2>. QED  BY <1>0, <2>1
<1>4. CASE s = "groups"
  <2>1. Sections[s] = Counters["sg_changes"]
    BY <1>4 DEF Sections, Counters
  <2>. QED  BY <1>0, <2>1
<1>5. CASE s = "topology"
  <2>1. Sections[s] = Counters["network_topology"]
    BY <1>5 DEF Sections, Counters
  <2>. QED  BY <1>0, <2>1
<1>6. CASE s = "exposure"
  <2>1. Sections[s] = Counters["storage_exposure"]
    BY <1>6 DEF Sections, Counters
  <2>. QED  BY <1>0, <2>1
<1>7. CASE s = "tamper"
  <2>1. Sections[s] = Counters["ct_tamper"]
    BY <1>7 DEF Sections, Counters
  <2>. QED  BY <1>0, <2>1
<1>8. CASE s = "posture"
  <2>1. Sections[s] = Counters["posture_findings_new"]
    BY <1>8 DEF Sections, Counters
  <2>. QED  BY <1>0, <2>1
<1>. QED  BY <1>1, <1>2, <1>3, <1>4, <1>5, <1>6, <1>7, <1>8

(* A counter of what was read, and of what happened.                       *)
LEMMA CountersTold ==
    ASSUME PagesInv, NEW page \in Newest(PageRows, eventRows), NEW c \in DOMAIN Counters
    PROVE  LET happened == Cardinality({r \in InDay(eventRows) : r.kind \in Counters[c]})
           IN  HowMany(page, c) <= happened /\ (Fits => HowMany(page, c) = happened)
<1>. DEFINE tally  == {r \in InDay(page) : r.kind \in Counters[c]}
            happened == {r \in InDay(eventRows) : r.kind \in Counters[c]}
<1>1. IsFiniteSet(eventRows) /\ PageRows \in Nat /\ Least(PageRows, Limit) = Limit
  BY PagesAssumption DEF PagesInv, Least
<1>2. page \subseteq eventRows /\ (Cardinality(InDay(eventRows)) <= Limit => InDay(page) = InDay(eventRows))
  BY <1>1, ReadOnce
<1>3. tally \subseteq happened /\ happened \subseteq eventRows
  BY <1>2 DEF InDay
<1>4. Cardinality(tally) <= Cardinality(happened)
  <2>. HIDE DEF tally, happened
  <2>1. IsFiniteSet(happened)
    BY <1>1, <1>3, PartOf
  <2>. QED  BY <1>3, <2>1, PartOf
<1>5. Fits => tally = happened
  BY <1>2 DEF Fits
<1>. QED  BY <1>4, <1>5 DEF HowMany

LEMMA ListsTold ==
    ASSUME PagesInv, NEW page \in Newest(PageRows, eventRows), NEW s \in DOMAIN Sections,
           NEW list \in Listed(page, Sections[s])
    PROVE  /\ (InDay(list) # {}) = \E c \in DOMAIN Counters :
                  Counters[c] \subseteq Sections[s] /\ HowMany(page, c) > 0
           /\ {r.kind : r \in list} \subseteq Offered(page)
<1>. DEFINE own == {r \in page : r.kind \in Sections[s]}
<1>1. IsFiniteSet(page)
  BY ReadOnce, PagesAssumption DEF PagesInv
<1>2. IsFiniteSet(own) /\ own \subseteq page
  BY <1>1, PartOf
<1>3. Least(ListCap, Limit) # 0 /\ ListCap \in Nat
  BY PagesAssumption DEF Least
<1>4. list \subseteq own /\ (InDay(own) # {} => InDay(list) # {})
  <2>1. list \in Newest(ListCap, own)
    BY DEF Listed
  <2>. HIDE DEF own
  <2>. QED  BY <1>2, <1>3, <2>1, ReadOnce
<1>5. \A c : HowMany(page, c) > 0 <=> \E r \in InDay(page) : r.kind \in Counters[c]
  <2>. SUFFICES ASSUME NEW c PROVE HowMany(page, c) > 0 <=> \E r \in InDay(page) : r.kind \in Counters[c]
    OBVIOUS
  <2>. DEFINE tally == {r \in InDay(page) : r.kind \in Counters[c]}
  <2>1. tally \subseteq page
    BY DEF InDay
  <2>2. IsFiniteSet(tally)
    <3>. HIDE DEF tally
    <3>. QED  BY <1>1, <2>1, PartOf
  <2>3. HowMany(page, c) = Cardinality(tally)
    BY DEF HowMany
  <2>4. Cardinality(tally) > 0 <=> tally # {}
    <3>. HIDE DEF tally
    <3>. QED  BY <2>2, SomeIn
  <2>. QED  BY <2>3, <2>4
<1>6. ASSUME InDay(list) # {}
      PROVE  \E c \in DOMAIN Counters : Counters[c] \subseteq Sections[s] /\ HowMany(page, c) > 0
  <2>1. PICK r \in InDay(list) : TRUE
    BY <1>6
  <2>2. r \in InDay(page) /\ r.kind \in Sections[s]
    BY <1>4, <2>1 DEF InDay
  <2>3. PICK c \in DOMAIN Counters : r.kind \in Counters[c] /\ Counters[c] \subseteq Sections[s]
    BY <2>2, KindsCounted
  <2>. QED  BY <1>5, <2>2, <2>3
<1>7. ASSUME NEW c \in DOMAIN Counters, Counters[c] \subseteq Sections[s], HowMany(page, c) > 0
      PROVE  InDay(list) # {}
  <2>1. PICK r \in InDay(page) : r.kind \in Counters[c]
    BY <1>5, <1>7
  <2>2. r \in InDay(own)
    BY <1>7, <2>1 DEF InDay
  <2>. QED  BY <1>4, <2>2
<1>8. {r.kind : r \in list} \subseteq Offered(page)
  BY <1>4 DEF Offered
<1>. QED  BY <1>6, <1>7, <1>8

LEMMA DatabasesUnnamed == ASSUME PagesInv, NEW page, page \subseteq eventRows PROVE Instances(page) = {}
<1>1. \A r \in StoredRow : "target_id" \notin DOMAIN r
  BY DEF StoredRow
<1>. QED  BY <1>1 DEF PagesInv, Instances, OfDatabases

LEMMA StorageTold ==
    ASSUME PagesInv, NEW page \in Newest(PageRows, eventRows), NEW day \in Newest(PageRows, InDay(eventRows))
    PROVE  /\ Fits => DatabaseEvents(page) = Total(day, "rds")
           /\ Fits => HowMany(page, "storage_exposure")
                        <= Total(day, "s3") + Total(day, "rds")
                           + Cardinality({r \in day : r.kind = "metadata"})
           /\ Cardinality(SecuritySignals(day)) <= Total(day, "s3")
<1>. DEFINE s3    == {r \in day : r.kind \in {"bucket open", "anonymous", "leaked"}}
            rds   == {r \in day : r.kind \in {"database", "restarted"}}
            about == {r \in day : r.kind = "metadata"}
<1>1. PageRows \in Nat /\ Least(PageRows, Limit) = Limit
  BY PagesAssumption DEF Least
<1>2. IsFiniteSet(eventRows) /\ InDay(eventRows) \subseteq eventRows /\ IsFiniteSet(InDay(eventRows))
  <2>1. InDay(eventRows) \subseteq eventRows
    BY DEF InDay
  <2>. QED  BY <2>1, PartOf DEF PagesInv
<1>3. day \subseteq InDay(eventRows) /\ IsFiniteSet(day)
  BY <1>1, <1>2, ReadOnce
<1>4. InDay(InDay(eventRows)) = InDay(eventRows) /\ InDay(day) = day
  BY <1>3 DEF InDay
<1>5. ASSUME Fits PROVE InDay(page) = day
  <2>1. Cardinality(InDay(eventRows)) <= Limit
    BY <1>5 DEF Fits
  <2>2. InDay(page) = InDay(eventRows)
    BY <1>1, <1>2, <2>1, ReadOnce
  <2>3. InDay(day) = InDay(InDay(eventRows))
    BY <1>1, <1>2, <1>4, <2>1, ReadOnce
  <2>. QED  BY <1>4, <2>2, <2>3
<1>6. Total(day, "s3") = Cardinality(s3) /\ Total(day, "rds") = Cardinality(rds)
  BY DEF Total, Groups
<1>7. s3 \subseteq day /\ rds \subseteq day /\ about \subseteq day /\ SecuritySignals(day) \subseteq s3
  BY DEF SecuritySignals, Severe
<1>8. InDay(OfDatabases(page)) = {r \in InDay(page) : r.kind \in {"database", "restarted"}}
  BY DEF InDay, OfDatabases
<1>9. Counters["storage_exposure"] = {"bucket open", "metadata", "database"}
  BY DEF Counters
<1>10. Fits => DatabaseEvents(page) = Total(day, "rds")
  BY <1>5, <1>6, <1>8 DEF DatabaseEvents
<1>. DEFINE open == {r \in day : r.kind \in {"bucket open", "metadata", "database"}}
<1>11. Fits => HowMany(page, "storage_exposure") = Cardinality(open)
  BY <1>5, <1>9 DEF HowMany
<1>12. open \subseteq (s3 \cup rds) \cup about
  OBVIOUS
<1>. HIDE DEF s3, rds, about, open
<1>13. IsFiniteSet(s3) /\ IsFiniteSet(rds) /\ IsFiniteSet(about)
  BY <1>3, <1>7, PartOf
<1>14. /\ IsFiniteSet(s3 \cup rds) /\ Cardinality(s3 \cup rds) <= Cardinality(s3) + Cardinality(rds)
  BY <1>13, TwoParts
<1>15. /\ IsFiniteSet((s3 \cup rds) \cup about)
       /\ Cardinality((s3 \cup rds) \cup about) <= Cardinality(s3 \cup rds) + Cardinality(about)
  BY <1>13, <1>14, TwoParts
<1>16. Cardinality(open) <= Cardinality((s3 \cup rds) \cup about)
  BY <1>12, <1>15, PartOf
<1>17. /\ Cardinality(open) \in Nat /\ Cardinality((s3 \cup rds) \cup about) \in Nat
       /\ Cardinality(s3 \cup rds) \in Nat /\ Cardinality(s3) \in Nat /\ Cardinality(rds) \in Nat
       /\ Cardinality(about) \in Nat
  BY <1>12, <1>13, <1>14, <1>15, PartOf, FS_CardinalityType
<1>18. Cardinality(open) <= Cardinality(s3) + Cardinality(rds) + Cardinality(about)
  BY <1>14, <1>15, <1>16, <1>17
<1>19. Cardinality(SecuritySignals(day)) <= Total(day, "s3")
  BY <1>6, <1>7, <1>13, PartOf
<1>. QED  BY <1>6, <1>10, <1>11, <1>18, <1>19 DEF about

LEMMA ShortListsTold ==
    ASSUME PagesInv, NEW kinds \in ShortLists, NEW page \in PulledFor(kinds),
           NEW list \in Listed(page, kinds), NEW r \in page \ list, r.kind \in kinds
    PROVE  Cardinality(list) = ListCap /\ \A q \in list : ~OlderThan(q, r)
<1>. DEFINE own == {q \in page : q.kind \in kinds}
<1>1. page \subseteq eventRows
  <2>1. CASE kinds = {"anomaly"}
    BY <2>1 DEF PulledFor, Newest
  <2>2. CASE kinds = {"vpn login"}
    <3>1. kinds # {"anomaly"}
      BY <2>2
    <3>. QED  BY <2>2, <3>1 DEF PulledFor, Newest
  <2>3. CASE kinds \in {{"host login"}, {"host change"}}
    <3>1. kinds # {"anomaly"} /\ kinds # {"vpn login"}
      BY <2>3
    <3>. QED  BY <2>3, <3>1 DEF PulledFor, Newest
  <2>. QED  BY <2>1, <2>2, <2>3 DEF ShortLists
<1>2. IsFiniteSet(own)
  <2>1. own \subseteq eventRows
    BY <1>1
  <2>. HIDE DEF own
  <2>. QED  BY <2>1, PartOf DEF PagesInv
<1>3. r \in own /\ r \notin list
  OBVIOUS
<1>4. list \in Newest(ListCap, own)
  BY DEF Listed
<1>. HIDE DEF own
<1>5. Least(ListCap, Limit) = ListCap /\ ListCap \in Nat
  BY PagesAssumption DEF Least
<1>. QED  BY <1>2, <1>3, <1>4, <1>5, ReadOnce

LEMMA PagesCover == PagesInv => PagesAgree
<1>. SUFFICES ASSUME PagesInv PROVE PagesAgree
  OBVIOUS
<1>1. \A page \in Newest(PageRows, eventRows) : page \subseteq eventRows
  BY DEF Newest
<1>2. ASSUME NEW kinds \in ShortLists, NEW page \in PulledFor(kinds), NEW list \in Listed(page, kinds)
      PROVE  \A r \in page \ list :
                 r.kind \in kinds => Cardinality(list) = ListCap /\ \A q \in list : ~OlderThan(q, r)
  BY ShortListsTold
<1>3. ASSUME NEW page \in Newest(PageRows, eventRows)
      PROVE  /\ \A c \in DOMAIN Counters :
                  LET happened == Cardinality({r \in InDay(eventRows) : r.kind \in Counters[c]})
                  IN  HowMany(page, c) <= happened /\ (Fits => HowMany(page, c) = happened)
             /\ \A s \in DOMAIN Sections : \A list \in Listed(page, Sections[s]) :
                  /\ (InDay(list) # {}) = \E c \in DOMAIN Counters :
                         Counters[c] \subseteq Sections[s] /\ HowMany(page, c) > 0
                  /\ {r.kind : r \in list} \subseteq Offered(page)
             /\ Instances(page) = {}
             /\ \A day \in Newest(PageRows, InDay(eventRows)) :
                  /\ Fits => DatabaseEvents(page) = Total(day, "rds")
                  /\ Fits => HowMany(page, "storage_exposure")
                               <= Total(day, "s3") + Total(day, "rds")
                                  + Cardinality({r \in day : r.kind = "metadata"})
                  /\ Cardinality(SecuritySignals(day)) <= Total(day, "s3")
  <2>1. Instances(page) = {}
    BY <1>1, DatabasesUnnamed
  <2>. QED  BY <2>1, CountersTold, ListsTold, StorageTold
<1>. QED  BY <1>2, <1>3 DEF PagesAgree

(* No page contradicts another or itself, whatever order the events of the *)
(* day came in (api.py, storage.query_events).                             *)
THEOREM PagesHold == PagesSpec => []PagesAgree
<1>1. PagesSpec => []PagesInv
  BY PagesStarted, PagesStep, PagesRest, PTL DEF PagesSpec
<1>. QED  BY <1>1, PagesCover, PTL

-----------------------------------------------------------------------------
(* ApiPages, the services.                                                 *)

(* The row keeps the start of its outage, unless results crossed.          *)
OutageKept ==
    /\ health.status = "down" /\ ~resultsCrossed => health.down_since = sinceGood
    /\ health.status # "down" => health.down_since = NotDown

ServicesInv == ServicePageTypeOK /\ OutageKept

LEMMA ServicePageStarted == ServicePageInit => ServicesInv
<1>. SUFFICES ASSUME ServicePageInit PROVE ServicesInv
  OBVIOUS
<1>1. NoHealth \in HealthRow /\ NoHealth.status = "none" /\ NoHealth.down_since = NotDown
  BY DEF NoHealth, HealthRow
<1>2. 0 \in Days
  BY ArchiveAssumption DEF Days
<1>. QED  BY <1>1, <1>2 DEF ServicePageInit, ServicesInv, ServicePageTypeOK, OutageKept, Targets

LEMMA HealthRows == 
    /\ NotDown \notin Days /\ 0 \in Days
    /\ \A row \in HealthRow : /\ row.status \in {"none", "up", "unknown", "down"}
                              /\ row.down_since \in Days \cup {NotDown}
                              /\ row = [status |-> row.status, down_since |-> row.down_since]
    /\ NotInHand \notin HealthRow
BY ArchiveAssumption DEF HealthRow, NotInHand, NoHealth, Days, NotDown

LEMMA ReadKeepsPage == \A h \in Prober : ServicesInv /\ ReadsHealth(h) => ServicesInv'
BY DEF ServicesInv, ReadsHealth, ServicePageTypeOK, OutageKept

LEMMA StoreKeepsPage ==
    \A h \in Prober, status \in {"up", "unknown", "down"} : ServicesInv /\ StoresHealth(h, status) => ServicesInv'
<1>. SUFFICES ASSUME NEW h \in Prober, NEW status \in {"up", "unknown", "down"}, ServicesInv,
                     StoresHealth(h, status)
              PROVE  ServicesInv'
  OBVIOUS
<1>. DEFINE prev  == inHand[h]
            since == DownSince(prev, status)
<1>1. prev \in HealthRow /\ health \in HealthRow
  BY DEF StoresHealth, ServicesInv, ServicePageTypeOK
<1>2. prev.down_since \in Days \cup {NotDown} /\ prev.status \in {"none", "up", "unknown", "down"}
  BY <1>1, HealthRows
<1>3. /\ since \in Days \cup {NotDown}
      /\ status # "down" => since = NotDown
      /\ status = "down" => since = IF prev.down_since = NotDown THEN 0 ELSE prev.down_since
  BY <1>2, HealthRows DEF DownSince
<1>. HIDE DEF since
<1>4. health' = [status |-> status, down_since |-> since]
  BY DEF StoresHealth, since
<1>5. health' \in HealthRow /\ health'.status = status /\ health'.down_since = since
  BY <1>3, <1>4 DEF HealthRow
<1>6. ServicePageTypeOK'
  BY <1>5, HealthRows DEF StoresHealth, ServicesInv, ServicePageTypeOK, Overlaps
<1>7. CASE status # "down"
  BY <1>3, <1>5, <1>6, <1>7 DEF ServicesInv, OutageKept
<1>8. CASE status = "down"
  <2>1. SUFFICES ASSUME ~resultsCrossed' PROVE since = sinceGood'
    BY <1>5, <1>6, <1>8 DEF ServicesInv, OutageKept
  <2>2. ~resultsCrossed /\ prev = health
    BY <1>8, <2>1 DEF StoresHealth, Overlaps, ServicesInv, ServicePageTypeOK
  <2>3. sinceGood' = IF health.status = "down" THEN sinceGood ELSE 0
    BY <1>8 DEF StoresHealth
  <2>4. CASE health.status = "down"
    <3>1. health.down_since = sinceGood /\ sinceGood # NotDown
      BY <2>2, <2>4, HealthRows DEF ServicesInv, OutageKept, ServicePageTypeOK
    <3>. QED  BY <1>3, <1>8, <2>2, <2>3, <2>4, <3>1
  <2>5. CASE health.status # "down"
    BY <1>3, <1>8, <2>2, <2>3, <2>5 DEF ServicesInv, OutageKept
  <2>. QED  BY <2>4, <2>5
<1>. QED  BY <1>7, <1>8

LEMMA DayKeepsPage == ServicesInv /\ NextDay => ServicesInv'
<1>. SUFFICES ASSUME ServicesInv, NextDay PROVE ServicesInv'
  OBVIOUS
<1>. DEFINE since == IF health.down_since = NotDown THEN NotDown ELSE DayAfter(health.down_since)
<1>1. health \in HealthRow /\ sinceGood \in Days
  BY DEF ServicesInv, ServicePageTypeOK
<1>2. \A d \in Days : DayAfter(d) \in Days
  BY ArchiveAssumption DEF Days, DayAfter
<1>3. since \in Days \cup {NotDown}
  BY <1>1, <1>2, HealthRows
<1>4. health' \in HealthRow /\ health'.status = health.status /\ health'.down_since = since
  <2>1. health' = [health EXCEPT !.down_since = since]
    BY DEF NextDay
  <2>. HIDE DEF since
  <2>. QED  BY <1>1, <1>3, <2>1 DEF HealthRow
<1>5. sinceGood' \in Days
  BY <1>1, <1>2, HealthRows DEF NextDay
<1>6. ServicePageTypeOK'
  BY <1>4, <1>5 DEF NextDay, ServicesInv, ServicePageTypeOK
<1>7. OutageKept'
  BY <1>1, <1>4, HealthRows DEF NextDay, ServicesInv, OutageKept
<1>. QED  BY <1>6, <1>7 DEF ServicesInv

LEMMA ServicePageStep == ServicesInv /\ ServicePageNext => ServicesInv'
<1>. SUFFICES ASSUME ServicesInv, ServicePageNext PROVE ServicesInv'
  OBVIOUS
<1>1. ASSUME NEW t \in Targets, TargetBecomes(t) PROVE ServicesInv'
  BY <1>1 DEF TargetBecomes, ServicesInv, ServicePageTypeOK, OutageKept
<1>2. ASSUME NEW h \in Prober, LosesHealth(h) PROVE ServicesInv'
  BY <1>2 DEF LosesHealth, ServicesInv, ServicePageTypeOK, OutageKept
<1>3. ASSUME ListsTargets \/ ShowsServices PROVE ServicesInv'
  BY <1>3 DEF ListsTargets, ShowsServices, ServicesInv, ServicePageTypeOK, OutageKept
<1>. QED  BY <1>1, <1>2, <1>3, ReadKeepsPage, StoreKeepsPage, DayKeepsPage DEF ServicePageNext

LEMMA ServicePageRests == ServicesInv /\ UNCHANGED servicePageVars => ServicesInv'
BY DEF ServicesInv, ServicePageTypeOK, OutageKept, servicePageVars

LEMMA ServicePageCovers == ServicesInv => ServicesShown
<1>. SUFFICES ASSUME ServicesInv, listing \notin {"none", "absent"} PROVE ServicesShown
  BY DEF ServicesShown
<1>1. health \in HealthRow /\ listing \in {"wanted", "off", "unprobed", "stopping"}
  BY DEF ServicesInv, ServicePageTypeOK, Targets
<1>2. health.status \in {"none", "up", "unknown", "down"} /\ ArchiveAfter # NotDown
  BY <1>1, HealthRows, ArchiveAssumption DEF NotDown
<1>. DEFINE status == ShownStatus(listing, health)
<1>3. /\ listing = "off" => status = "disabled"
      /\ listing = "unprobed" => status = "unknown"
      /\ listing \in {"wanted", "stopping"} =>
            status = IF health.status = "none" THEN "unknown" ELSE health.status
  BY DEF ShownStatus, Enabled
<1>4. status \in {"up", "down"} => Enabled(listing) /\ status = health.status
  BY <1>1, <1>2, <1>3 DEF Enabled
<1>. HIDE DEF status
<1>5. Archived(listing, health) <=>
         \/ status = "disabled"
         \/ status = "down" /\ (listing = "stopping" \/ health.down_since = ArchiveAfter)
  BY DEF Archived, status
<1>6. listing = "wanted" /\ ~resultsCrossed =>
         (Archived(listing, health) <=> health.status = "down" /\ sinceGood = ArchiveAfter)
  BY <1>2, <1>3, <1>5 DEF ServicesInv, OutageKept
<1>7. listing = "wanted" /\ health.status # "down" => ~Archived(listing, health)
  BY <1>2, <1>3, <1>5
<1>8. listing = "off" => Archived(listing, health)
  BY <1>3, <1>5
<1>. QED  BY <1>4, <1>6, <1>7, <1>8 DEF ServicesShown, status

(* A service leaves the live table only when it should (services_list).    *)
THEOREM ServicesHold == ServicePageSpec => []ServicesShown
<1>1. ServicePageSpec => []ServicesInv
  BY ServicePageStarted, ServicePageStep, ServicePageRests, PTL DEF ServicePageSpec
<1>. QED  BY <1>1, ServicePageCovers, PTL

-----------------------------------------------------------------------------
(* ApiPages, the connectors.                                               *)

(* What the row says of how the latest operation went, from the end of its *)
(* poll on.                                                                *)
RowTold ==
    /\ connectorRow.last_error => connectorRow.last_status = "error"
    /\ latest = "failed" /\ ~unwritten => connectorRow.last_status = "error"
    /\ latest = "succeeded" => connectorRow.last_status = "ok"
    /\ latest = "running" /\ thread = "polled" =>
          IF pollEnded = "ok" THEN connectorRow.last_status = "ok"
          ELSE unwritten \/ connectorRow.last_status = "error"

ConnectorsInv == ConnectorPageTypeOK /\ RowTold

LEMMA ConnectorRows ==
    \A row \in ConnectorRow :
        /\ row.enabled \in BOOLEAN /\ row.verified \in BOOLEAN /\ row.last_error \in BOOLEAN
        /\ row.last_status \in {"none", "ok", "error"} /\ row.ran \in 0..NeverRan
        /\ row.reason \in {"none", "failure", "timeout", "process_restart"}
BY DEF ConnectorRow, Reasons

LEMMA ConnectorsStarted == ConnectorPageInit => ConnectorsInv
<1>. SUFFICES ASSUME ConnectorPageInit PROVE ConnectorsInv
  OBVIOUS
<1>1. connectorRow = [enabled |-> TRUE, verified |-> FALSE, last_status |-> "none",
                      last_error |-> FALSE, ran |-> NeverRan, reason |-> "none"]
  BY DEF ConnectorPageInit
<1>2. NeverRan \in 0..NeverRan
  BY SpanAssumption DEF NeverRan
<1>3. connectorRow \in ConnectorRow /\ ~connectorRow.last_error
  BY <1>1, <1>2 DEF ConnectorRow, Reasons
<1>. QED  BY <1>3 DEF ConnectorPageInit, ConnectorsInv, ConnectorPageTypeOK, RowTold

(* Writes of the row that do not say how a poll went.                      *)
LEMMA RowEdited ==
    ASSUME NEW row \in ConnectorRow, NEW new,
           \/ \E v \in BOOLEAN : new = [row EXCEPT !.enabled = v]
           \/ \E v \in BOOLEAN : new = [row EXCEPT !.verified = v]
           \/ \E w \in {"none", "failure", "timeout", "process_restart"} : new = [row EXCEPT !.reason = w]
           \/ \E ran \in 0..NeverRan : new = [row EXCEPT !.ran = ran]
    PROVE  /\ new \in ConnectorRow /\ new.last_status = row.last_status
           /\ new.last_error = row.last_error
BY DEF ConnectorRow, Reasons

LEMMA RowPolled ==
    ASSUME NEW row \in ConnectorRow, NEW how \in {"ok", "error"}
    PROVE  /\ PolledRow(row, how) \in ConnectorRow /\ PolledRow(row, how).last_status = how
           /\ PolledRow(row, how).last_error = (how = "error")
<1>1. 0 \in 0..NeverRan /\ (how = "error") \in BOOLEAN /\ (row.verified \/ how = "ok") \in BOOLEAN
  BY SpanAssumption DEF NeverRan
<1>. QED  BY <1>1 DEF PolledRow, ConnectorRow

LEMMA ReasonsOf == \A status \in {"succeeded", "failed", "timed_out"} :
    ReasonOf(status) \in {"none", "failure", "timeout"}
BY DEF ReasonOf

LEMMA ConnectorsStep == ConnectorsInv /\ ConnectorPageNext => ConnectorsInv'
<1>. SUFFICES ASSUME ConnectorsInv, ConnectorPageNext PROVE ConnectorsInv'
  OBVIOUS
<1>1. /\ connectorRow \in ConnectorRow
      /\ latest \in {"none", "running", "succeeded", "failed", "timed_out"}
      /\ thread \in {"idle", "polling", "polled", "closed"}
      /\ pollEnded \in {"none", "ok", "error"} /\ unwritten \in BOOLEAN
  BY DEF ConnectorsInv, ConnectorPageTypeOK
<1>2. CASE Switches \/ EditsConnector
  <2>1. connectorRow.enabled \in BOOLEAN
    BY <1>1, ConnectorRows
  <2>2. \/ connectorRow' = [connectorRow EXCEPT !.enabled = ~connectorRow.enabled]
        \/ connectorRow' = [connectorRow EXCEPT !.verified = FALSE]
    BY <1>2 DEF Switches, EditsConnector
  <2>4. (~connectorRow.enabled) \in BOOLEAN
    BY <2>1
  <2>3. connectorRow' \in ConnectorRow /\ connectorRow'.last_status = connectorRow.last_status
        /\ connectorRow'.last_error = connectorRow.last_error
    BY <1>1, <2>2, <2>4, RowEdited, Zenon
  <2>. QED  BY <1>2, <2>3 DEF Switches, EditsConnector, ConnectorsInv, ConnectorPageTypeOK, RowTold
<1>3. CASE TimeGoesBy
  <2>1. connectorRow.ran \in 0..NeverRan /\ connectorRow.ran + 1 \in 0..NeverRan
    BY <1>1, <1>3, ConnectorRows, SpanAssumption DEF TimeGoesBy, NeverRan
  <2>2. connectorRow' = [connectorRow EXCEPT !.ran = connectorRow.ran + 1]
    BY <1>3 DEF TimeGoesBy
  <2>3. connectorRow' \in ConnectorRow /\ connectorRow'.last_status = connectorRow.last_status
        /\ connectorRow'.last_error = connectorRow.last_error
    BY <1>1, <2>1, <2>2, RowEdited
  <2>. QED  BY <1>3, <2>3 DEF TimeGoesBy, ConnectorsInv, ConnectorPageTypeOK, RowTold
<1>4. ASSUME NEW reason \in {"none", "failure", "timeout", "process_restart"}, Reasoned(reason)
      PROVE  connectorRow' \in ConnectorRow /\ connectorRow'.last_status = connectorRow.last_status
             /\ connectorRow'.last_error = connectorRow.last_error
  BY <1>1, <1>4, RowEdited DEF Reasoned
<1>5. CASE NotesRetry
  <2>1. CASE latest \in {"succeeded", "failed", "timed_out"}
    BY <1>4, <1>5, <2>1, ReasonsOf DEF NotesRetry, ConnectorsInv, ConnectorPageTypeOK, RowTold
  <2>2. CASE latest \in {"none", "running"}
    <3>1. ReasonOf(latest) = "timeout"
      BY <2>2 DEF ReasonOf
    <3>. QED  BY <1>4, <1>5, <2>2, <3>1 DEF NotesRetry, ConnectorsInv, ConnectorPageTypeOK, RowTold
  <2>. QED  BY <1>1, <2>1, <2>2
<1>6. CASE RepairsReason
  BY <1>4, <1>6, ReasonsOf DEF RepairsReason, ConnectorsInv, ConnectorPageTypeOK, RowTold
<1>7. CASE Orphaned
  BY <1>4, <1>7 DEF Orphaned, ConnectorsInv, ConnectorPageTypeOK, RowTold
<1>8. ASSUME NEW noted \in BOOLEAN, TimesOut(noted) PROVE ConnectorsInv'
  <2>1. connectorRow' \in ConnectorRow /\ connectorRow'.last_status = connectorRow.last_status
        /\ connectorRow'.last_error = connectorRow.last_error
    BY <1>1, <1>4, <1>8 DEF TimesOut
  <2>. QED  BY <1>8, <2>1 DEF TimesOut, ConnectorsInv, ConnectorPageTypeOK, RowTold
<1>9. ASSUME NEW how \in {"ok", "error"}, PollEnds(how) PROVE ConnectorsInv'
  <2>1. CASE latest = "running"
    <3>1. connectorRow' = PolledRow(connectorRow, how) /\ ~unwritten' /\ thread' = "polled"
          /\ pollEnded' = how /\ latest' = "running"
      BY <1>9, <2>1 DEF PollEnds
    <3>2. connectorRow' \in ConnectorRow /\ connectorRow'.last_status = how
          /\ connectorRow'.last_error = (how = "error")
      BY <1>1, <3>1, RowPolled
    <3>3. ConnectorPageTypeOK'
      BY <1>9, <2>1, <3>1, <3>2 DEF PollEnds, ConnectorPageTypeOK
    <3>. QED  BY <3>1, <3>2, <3>3 DEF ConnectorsInv, RowTold
  <2>2. CASE latest # "running"
    BY <1>9, <2>2 DEF PollEnds, ConnectorsInv, ConnectorPageTypeOK, RowTold
  <2>. QED  BY <2>1, <2>2
<1>10. CASE OperationStarts
  BY <1>10 DEF OperationStarts, ConnectorsInv, ConnectorPageTypeOK, RowTold
<1>11. CASE PollUnwritten
  BY <1>11 DEF PollUnwritten, ConnectorsInv, ConnectorPageTypeOK, RowTold
<1>12. CASE Closes
  BY <1>12 DEF Closes, ConnectorsInv, ConnectorPageTypeOK, RowTold
<1>13. CASE ProcessEnds
  BY <1>13 DEF ProcessEnds, ConnectorsInv, ConnectorPageTypeOK, RowTold
<1>. QED  BY <1>2, <1>3, <1>5, <1>6, <1>7, <1>8, <1>9, <1>10, <1>11, <1>12, <1>13 DEF ConnectorPageNext

LEMMA ConnectorsRest == ConnectorsInv /\ UNCHANGED connectorPageVars => ConnectorsInv'
BY DEF ConnectorsInv, ConnectorPageTypeOK, RowTold, connectorPageVars

LEMMA ConnectorsCover == ConnectorsInv => ConnectorsShown
<1>. SUFFICES ASSUME ConnectorsInv PROVE ConnectorsShown
  OBVIOUS
<1>. DEFINE here  == HealthState(connectorRow, latest)
            there == CoverageState(connectorRow)
<1>1. connectorRow \in ConnectorRow
  BY DEF ConnectorsInv, ConnectorPageTypeOK
<1>2. /\ connectorRow.last_status \in {"none", "ok", "error"} /\ connectorRow.ran \in 0..NeverRan
      /\ connectorRow.reason \in {"none", "failure", "timeout", "process_restart"}
  BY <1>1, ConnectorRows
<1>3. here = "disabled" <=> there = "disabled"
  BY DEF HealthState, CoverageState
<1>4. here = "healthy" => /\ connectorRow.enabled /\ connectorRow.verified /\ latest # "running"
                          /\ connectorRow.last_status # "error" /\ connectorRow.ran < HealthSpan
                          /\ connectorRow.reason \notin {"timeout", "process_restart"}
  BY <1>2, SpanAssumption DEF HealthState, NeverRan
<1>5. connectorRow.ran < HealthSpan => connectorRow.ran # NeverRan /\ ~(connectorRow.ran > CoverageSpan)
  BY <1>2, SpanAssumption DEF NeverRan
<1>6. here = "healthy" => there = "healthy"
  BY <1>4, <1>5 DEF CoverageState, ConnectorsInv, RowTold
<1>7. there = "healthy" =>
         here \in Untroubled \/ connectorRow.reason \in {"timeout", "process_restart"}
  BY <1>2 DEF HealthState, CoverageState, Untroubled
<1>8. thread = "idle" /\ latest \in {"failed", "timed_out"} /\ ~unwritten
      /\ connectorRow.reason \in {ReasonOf(latest), "process_restart"} => here # "healthy"
  BY <1>4 DEF ConnectorsInv, RowTold, ReasonOf
<1>9. thread = "idle" /\ latest = "succeeded" /\ connectorRow.reason = ReasonOf(latest)
      /\ connectorRow.enabled /\ connectorRow.verified /\ connectorRow.ran < HealthSpan
         => here = "healthy" /\ there = "healthy"
  <2>. SUFFICES ASSUME latest = "succeeded", connectorRow.reason = ReasonOf(latest), connectorRow.enabled,
                       connectorRow.verified, connectorRow.ran < HealthSpan
                PROVE  here = "healthy" /\ there = "healthy"
    OBVIOUS
  <2>1. connectorRow.reason = "none"
    BY DEF ReasonOf
  <2>2. connectorRow.last_status = "ok" /\ ~connectorRow.last_error
    BY DEF ConnectorsInv, RowTold
  <2>3. here = "healthy"
    BY <1>2, <1>5, <2>1, <2>2, SpanAssumption DEF HealthState
  <2>4. there = "healthy"
    BY <1>2, <1>5, <2>2 DEF CoverageState
  <2>. QED  BY <2>3, <2>4
<1>. HIDE DEF here, there
<1>. QED  BY <1>3, <1>6, <1>7, <1>8, <1>9 DEF ConnectorsShown, here, there

(* /connectors and the overview agree on a connector at every moment       *)
(* between the writes of its row (api.py, coverage.py).                    *)
THEOREM ConnectorsHold == ConnectorPageSpec => []ConnectorsShown
<1>1. ConnectorPageSpec => []ConnectorsInv
  BY ConnectorsStarted, ConnectorsStep, ConnectorsRest, PTL DEF ConnectorPageSpec
<1>. QED  BY <1>1, ConnectorsCover, PTL

-----------------------------------------------------------------------------
(* RdsSessions.                                                            *)

(* A drain is at a session, or at a failed login.                          *)
DrainsAt(at, where) ==
    \A d \in Drain : /\ at[d] \in {"stored", "alerting"} => where[d] \in Session
                     /\ at[d] \in {"counting", "bursting"} => where[d] \in Failure

(* Somebody will look at one of two sessions that are open side by side.   *)
WillLook(d, s, t) == step[d] \in {"stored", "alerting"} /\ on[d] \in {s, t}
BesideSeen ==
    \A s \in Session, t \in Session :
       sessions[s] = "open" /\ sessions[t] = "open" /\ Address[s] # Address[t] /\ {s, t} \cap cutOff = {}
          => concurrent \/ \E d \in Drain : WillLook(d, s, t)

(* Somebody counts the failures at the value the alert fires at.           *)
WillFire(d) == step[d] = "bursting" \/ (step[d] = "counting" /\ Cardinality(refusals) = BurstAt)
BurstSeen ==
    Cardinality(refusals) >= BurstAt /\ ~crossed => burst \/ \E d \in Drain : WillFire(d)

RdsInv == RdsTypeOK /\ DrainsAt(step, on) /\ BesideSeen /\ BurstSeen

LEMMA RdsStarts == RdsInit => RdsInv
<1>. SUFFICES ASSUME RdsInit PROVE RdsInv
  OBVIOUS
<1>1. Cardinality(refusals) = 0 /\ ~(Cardinality(refusals) >= BurstAt)
  <2>1. Cardinality({}) = 0 /\ refusals = {}
    BY FS_EmptySet DEF RdsInit
  <2>2. BurstAt \in Nat \ {0}
    BY RdsAssumption
  <2>3. ~(0 >= BurstAt)
    BY <2>2
  <2>. QED  BY <2>1, <2>3
<1>2. RdsTypeOK
  BY DEF RdsInit, RdsTypeOK
<1>3. DrainsAt(step, on) /\ BesideSeen
  BY DEF RdsInit, DrainsAt, BesideSeen
<1>. QED  BY <1>1, <1>2, <1>3 DEF RdsInv, BurstSeen

LEMMA RdsRests == RdsInv /\ UNCHANGED rdsVars => RdsInv'
<1>. SUFFICES ASSUME RdsInv, UNCHANGED rdsVars PROVE RdsInv'
  OBVIOUS
<1>1. RdsTypeOK' /\ DrainsAt(step, on)'
  BY DEF rdsVars, RdsInv, RdsTypeOK, DrainsAt
<1>2. BesideSeen'
  BY DEF rdsVars, RdsInv, BesideSeen, WillLook
<1>3. BurstSeen'
  BY DEF rdsVars, RdsInv, BurstSeen, WillFire
<1>. QED  BY <1>1, <1>2, <1>3 DEF RdsInv

(* Where a drain goes.                                                     *)
LEMMA DrainGoes ==
    ASSUME RdsInv, NEW d \in Drain, NEW at \in {"idle", "stored", "alerting", "counting", "bursting"},
           NEW what \in Session \cup Failure \cup {NoEvent}, Goto(d, at, what),
           at \in {"stored", "alerting"} => what \in Session,
           at \in {"counting", "bursting"} => what \in Failure
    PROVE  /\ step' \in [Drain -> {"idle", "stored", "alerting", "counting", "bursting"}]
           /\ on' \in [Drain -> Session \cup Failure \cup {NoEvent}]
           /\ step'[d] = at /\ on'[d] = what
           /\ \A e \in Drain \ {d} : step'[e] = step[e] /\ on'[e] = on[e]
           /\ DrainsAt(step', on')
<1>1. /\ step' \in [Drain -> {"idle", "stored", "alerting", "counting", "bursting"}]
      /\ on' \in [Drain -> Session \cup Failure \cup {NoEvent}]
      /\ step'[d] = at /\ on'[d] = what
      /\ \A e \in Drain \ {d} : step'[e] = step[e] /\ on'[e] = on[e]
  BY DEF Goto, RdsInv, RdsTypeOK
<1>. QED  BY <1>1 DEF RdsInv, DrainsAt

LEMMA LogsSeen ==
    ASSUME RdsInv, NEW s \in Session, Logs(s)
    PROVE  RdsInv'
<1>1. actual' \in [Session -> {"not yet", "open", "closed"}]
  BY DEF Logs, RdsInv, RdsTypeOK
<1>. QED  BY <1>1 DEF Logs, RdsInv, RdsTypeOK, DrainsAt, BesideSeen, WillLook, BurstSeen, WillFire

LEMMA StartSeen ==
    ASSUME RdsInv, NEW d \in Drain, NEW s \in Session, StartStored(d, s)
    PROVE  RdsInv'
<1>1. /\ step[d] = "idle" /\ Goto(d, "stored", s)
      /\ UNCHANGED <<actual, refusals, concurrent, burst, cutOff, crossed>>
      /\ sessions' \in [Session -> {"absent", "open", "closed"}]
      /\ \A t \in Session \ {s} : sessions'[t] = sessions[t]
  BY DEF StartStored, SessionUpserted, RdsInv, RdsTypeOK
<1>2. /\ step'[d] = "stored" /\ on'[d] = s
      /\ \A e \in Drain \ {d} : step'[e] = step[e] /\ on'[e] = on[e]
      /\ step' \in [Drain -> {"idle", "stored", "alerting", "counting", "bursting"}]
      /\ on' \in [Drain -> Session \cup Failure \cup {NoEvent}]
      /\ DrainsAt(step', on')
  BY <1>1, DrainGoes
<1>3. RdsTypeOK'
  BY <1>1, <1>2 DEF RdsInv, RdsTypeOK
<1>4. BesideSeen'
  BY <1>1, <1>2 DEF RdsInv, BesideSeen, WillLook
<1>5. BurstSeen'
  BY <1>1, <1>2 DEF RdsInv, BurstSeen, WillFire
<1>. QED  BY <1>2, <1>3, <1>4, <1>5 DEF RdsInv, DrainsAt

LEMMA LookSeen ==
    ASSUME RdsInv, NEW d \in Drain, LookAtOthers(d) \/ ConcurrentStored(d)
    PROVE  RdsInv'
<1>1. /\ step[d] \in {"stored", "alerting"} /\ on[d] \in Session
      /\ UNCHANGED <<actual, sessions, refusals, burst, crossed>>
      /\ concurrent' \in BOOLEAN /\ cutOff' \subseteq cutOff
  BY DEF LookAtOthers, ConcurrentStored, RdsInv, RdsTypeOK, DrainsAt
<1>2. PICK at \in {"idle", "alerting"}, what \in Session \cup {NoEvent} :
         /\ Goto(d, at, what) /\ (at = "alerting" => what = on[d] /\ UNCHANGED cutOff)
         /\ ~concurrent' => concurrent' = concurrent /\ cutOff \ {on[d]} \subseteq cutOff'
         /\ ~concurrent' /\ at = "idle" => Others(on[d]) = {}
  BY <1>1 DEF LookAtOthers, ConcurrentStored, Done
<1>3. /\ step'[d] = at /\ on'[d] = what
      /\ \A e \in Drain \ {d} : step'[e] = step[e] /\ on'[e] = on[e]
      /\ step' \in [Drain -> {"idle", "stored", "alerting", "counting", "bursting"}]
      /\ on' \in [Drain -> Session \cup Failure \cup {NoEvent}]
      /\ DrainsAt(step', on')
  BY <1>1, <1>2, DrainGoes
<1>4. RdsTypeOK'
  BY <1>1, <1>3 DEF RdsInv, RdsTypeOK
<1>5. BesideSeen'
  <2>. SUFFICES ASSUME NEW s \in Session, NEW t \in Session, ~concurrent',
                       sessions[s] = "open", sessions[t] = "open", Address[s] # Address[t],
                       {s, t} \cap cutOff' = {}
                PROVE  \E e \in Drain : WillLook(e, s, t)'
    BY <1>1 DEF BesideSeen
  <2>1. at = "idle" => on[d] # s /\ on[d] # t
    BY <1>2 DEF Others
  <2>2. {s, t} \cap cutOff = {}
    BY <2>1, <1>2
  <2>3. PICK e \in Drain : WillLook(e, s, t)
    BY <2>2, <1>2 DEF RdsInv, BesideSeen
  <2>. QED  BY <2>1, <2>3, <1>2, <1>3 DEF WillLook
<1>6. BurstSeen'
  BY <1>1, <1>3 DEF RdsInv, BurstSeen, WillFire
<1>. QED  BY <1>3, <1>4, <1>5, <1>6 DEF RdsInv, DrainsAt

LEMMA EndSeen ==
    ASSUME RdsInv, NEW d \in Drain, NEW s \in Session, EndStored(d, s)
    PROVE  RdsInv'
<1>1. /\ UNCHANGED <<actual, refusals, step, on, concurrent, burst, cutOff, crossed>>
      /\ sessions' \in [Session -> {"absent", "open", "closed"}]
      /\ \A t \in Session : sessions'[t] = "open" => sessions[t] = "open"
  BY DEF EndStored, SessionClosed, RdsInv, RdsTypeOK
<1>2. RdsTypeOK' /\ BesideSeen'
  BY <1>1 DEF RdsInv, RdsTypeOK, BesideSeen, WillLook
<1>. QED  BY <1>1, <1>2 DEF RdsInv, DrainsAt, BurstSeen, WillFire

LEMMA FailureSeen ==
    ASSUME RdsInv, NEW d \in Drain, NEW f \in Failure, FailureStored(d, f)
    PROVE  RdsInv'
<1>1. /\ step[d] = "idle" /\ Goto(d, "counting", f) /\ refusals' = refusals \cup {f}
      /\ crossed' \in BOOLEAN /\ (~crossed' => ~crossed /\ \A e \in Drain : step[e] # "counting")
      /\ UNCHANGED <<actual, sessions, concurrent, burst, cutOff>>
  <2>. DEFINE P == \E e \in Drain : step[e] = "counting"
  <2>1. crossed' = (crossed \/ P) /\ P \in BOOLEAN
    BY DEF FailureStored
  <2>. QED  BY <2>1 DEF FailureStored
<1>2. /\ step'[d] = "counting" /\ on'[d] = f
      /\ \A e \in Drain \ {d} : step'[e] = step[e] /\ on'[e] = on[e]
      /\ step' \in [Drain -> {"idle", "stored", "alerting", "counting", "bursting"}]
      /\ on' \in [Drain -> Session \cup Failure \cup {NoEvent}]
      /\ DrainsAt(step', on')
  BY <1>1, DrainGoes
<1>3. RdsTypeOK'
  BY <1>1, <1>2 DEF RdsInv, RdsTypeOK
<1>4. BesideSeen'
  BY <1>1, <1>2 DEF RdsInv, BesideSeen, WillLook
<1>5. BurstSeen'
  <2>1. IsFiniteSet(refusals) /\ Cardinality(refusals) \in Nat
    BY RdsAssumption, FS_Subset, FS_CardinalityType DEF RdsInv, RdsTypeOK
  <2>2. Cardinality(refusals') = Cardinality(refusals) \/ Cardinality(refusals') = Cardinality(refusals) + 1
    BY <1>1, <2>1, FS_AddElement
  <2>. SUFFICES ASSUME Cardinality(refusals') >= BurstAt, ~crossed', ~burst
                PROVE  \E e \in Drain : WillFire(e)'
    BY <1>1 DEF BurstSeen
  <2>3. CASE Cardinality(refusals) >= BurstAt
    <3>1. PICK e \in Drain : WillFire(e)
      BY <2>3, <1>1 DEF RdsInv, BurstSeen
    <3>. QED  BY <3>1, <1>1, <1>2 DEF WillFire
  <2>4. CASE ~(Cardinality(refusals) >= BurstAt)
    <3>1. Cardinality(refusals') = BurstAt
      BY <2>1, <2>2, <2>4, RdsAssumption
    <3>. QED  BY <3>1, <1>2 DEF WillFire
  <2>. QED  BY <2>3, <2>4
<1>. QED  BY <1>2, <1>3, <1>4, <1>5 DEF RdsInv, DrainsAt

LEMMA CountSeen ==
    ASSUME RdsInv, NEW d \in Drain, CountFailures(d) \/ BurstStored(d)
    PROVE  RdsInv'
<1>1. /\ step[d] \in {"counting", "bursting"} /\ on[d] \in Failure
      /\ UNCHANGED <<actual, sessions, refusals, concurrent, cutOff, crossed>> /\ burst' \in BOOLEAN
  BY DEF CountFailures, BurstStored, RdsInv, RdsTypeOK, DrainsAt
<1>2. PICK at \in {"idle", "bursting"}, what \in Failure \cup {NoEvent} :
         /\ Goto(d, at, what) /\ (at = "bursting" => what = on[d])
         /\ ~burst' => ~burst /\ (at = "idle" => step[d] = "counting" /\ Cardinality(refusals) # BurstAt)
  BY <1>1 DEF CountFailures, BurstStored, Done, IsBurst
<1>3. /\ step'[d] = at /\ on'[d] = what
      /\ \A e \in Drain \ {d} : step'[e] = step[e] /\ on'[e] = on[e]
      /\ step' \in [Drain -> {"idle", "stored", "alerting", "counting", "bursting"}]
      /\ on' \in [Drain -> Session \cup Failure \cup {NoEvent}]
      /\ DrainsAt(step', on')
  BY <1>1, <1>2, DrainGoes
<1>4. RdsTypeOK'
  BY <1>1, <1>3 DEF RdsInv, RdsTypeOK
<1>5. BesideSeen'
  BY <1>1, <1>3 DEF RdsInv, BesideSeen, WillLook
<1>6. BurstSeen'
  <2>. SUFFICES ASSUME Cardinality(refusals) >= BurstAt, ~crossed, ~burst'
                PROVE  \E e \in Drain : WillFire(e)'
    BY <1>1 DEF BurstSeen
  <2>1. PICK e \in Drain : WillFire(e)
    BY <1>2 DEF RdsInv, BurstSeen
  <2>. QED  BY <2>1, <1>1, <1>2, <1>3 DEF WillFire
<1>. QED  BY <1>3, <1>4, <1>5, <1>6 DEF RdsInv, DrainsAt

LEMMA CutSeen ==
    ASSUME RdsInv, NEW d \in Drain, CutOff(d)
    PROVE  RdsInv'
<1>1. /\ step[d] # "idle" /\ Goto(d, "idle", NoEvent)
      /\ cutOff' = cutOff \cup ({on[d]} \cap Session)
      /\ crossed' \in BOOLEAN /\ (~crossed' => ~crossed /\ on[d] \notin Failure)
      /\ UNCHANGED <<actual, sessions, refusals, concurrent, burst>>
  BY DEF CutOff, Done, RdsInv, RdsTypeOK
<1>2. /\ step'[d] = "idle" /\ on'[d] = NoEvent
      /\ \A e \in Drain \ {d} : step'[e] = step[e] /\ on'[e] = on[e]
      /\ step' \in [Drain -> {"idle", "stored", "alerting", "counting", "bursting"}]
      /\ on' \in [Drain -> Session \cup Failure \cup {NoEvent}]
      /\ DrainsAt(step', on')
  BY <1>1, DrainGoes
<1>3. RdsTypeOK'
  BY <1>1, <1>2 DEF RdsInv, RdsTypeOK
<1>4. BesideSeen'
  BY <1>1, <1>2 DEF RdsInv, BesideSeen, WillLook
<1>5. BurstSeen'
  BY <1>1, <1>2 DEF RdsInv, BurstSeen, WillFire, DrainsAt
<1>. QED  BY <1>2, <1>3, <1>4, <1>5 DEF RdsInv, DrainsAt

LEMMA RdsStep == RdsInv /\ RdsNext => RdsInv'
BY LogsSeen, StartSeen, LookSeen, EndSeen, FailureSeen, CountSeen, CutSeen
   DEF RdsNext, SessionsNext, LoginsNext

LEMMA RdsCovers == RdsInv => RdsTypeOK /\ RdsAlerted
BY DEF RdsInv, RdsAlerted, Idle, BesideSeen, WillLook, BurstSeen, WillFire

(* Sessions of a database that are open side by side are told whatever the *)
(* order of the drains, and so is a burst of failures that are counted one *)
(* at a time (_detect_concurrent, _detect_burst).                          *)
THEOREM RdsHolds == RdsSpec => [](RdsTypeOK /\ RdsAlerted)
<1>1. RdsInv /\ [RdsNext]_rdsVars => RdsInv'
  BY RdsStep, RdsRests
<1>. QED  BY RdsStarts, <1>1, RdsCovers, PTL DEF RdsSpec

-----------------------------------------------------------------------------
(* GatewayReports.                                                         *)

Minute(l) == accessLog[l].minute
Status(l) == accessLog[l].status

GatewayTypes ==
    /\ accessLog \in [LogLine -> [minute : 1..LastMinute, status : Faulty \cup {"other"}]]
    /\ kept \subseteq LogLine
    /\ turn \in [Drainer -> [line : SUBSET LogLine, next : 1..2,
                             doing : {"starts", "tells new", "counts", "tells burst"}]]
    /\ tellings \subseteq (Faulty \cup {"new"}) \X (0..LastMinute)
    /\ lapses \in 0..MaxCuts /\ known \in BOOLEAN /\ newUntold \in BOOLEAN /\ orderly \in BOOLEAN

(* Where a drain may be in its line.                                       *)
TurnInPlace(d) ==
    \/ turn[d] = NoTurn
    \/ \E l \in LogLine :
          /\ turn[d].line = {l}
          /\ turn[d].next = 2 => Status(l) \in Faulty
          /\ turn[d].doing = "tells new" => turn[d].next = 1
          /\ turn[d].doing \in {"counts", "tells burst"} => turn[d].next = 2 /\ l \in kept

AtLine(d, l, what) == turn[d].line = {l} /\ turn[d].doing = what

(* As long as all is orderly nothing is stored after what is counted, and  *)
(* one drain counts.                                                       *)
CountsLast ==
    orderly => \A d \in Drainer, l \in LogLine : AtLine(d, l, "counts") =>
                  \A k \in kept : Minute(k) <= Minute(l)

KeptSince(s, m, to) == Cardinality(KeptWithin(s, m - BurstSpan, to))

(* A drain is at a failure of this kind and minute.                        *)
Working(what, s, m) == \E d \in Drainer, l \in LogLine : AtLine(d, l, what) /\ Status(l) = s /\ Minute(l) = m

(* What was told, or is about to be, was so.                               *)
BurstsReal ==
    \A s \in Faulty, m \in 1..LastMinute : <<s, m>> \in tellings \/ Working("tells burst", s, m) =>
        /\ KeptSince(s, m, LastMinute) >= BurstLevel
        /\ orderly => KeptSince(s, m, m) >= BurstLevel

(* What reached the threshold was told, or is about to be counted or told. *)
HeardBy(s, n) == \/ <<s, n>> \in tellings
                 \/ Working("tells burst", s, n)
                 \/ Working("counts", s, n) /\ KeptSince(s, n, n) = BurstLevel
BurstsHeard ==
    orderly => \A s \in Faulty, m \in 1..LastMinute :
        KeptSince(s, m, m) >= BurstLevel => \E n \in 1..m : HeardBy(s, n)

NewsTold == known => \/ <<"new", 0>> \in tellings \/ newUntold
                     \/ \E d \in Drainer : turn[d].line # {} /\ turn[d].doing = "tells new"

GatewayInv ==
    /\ GatewayTypes /\ (\A d \in Drainer : TurnInPlace(d))
    /\ CountsLast /\ BurstsReal /\ BurstsHeard /\ NewsTold

LEMMA LineIs ==
    ASSUME NEW d, NEW l \in LogLine, turn[d].line = {l}
    PROVE  LineOf(d) = l
BY DEF LineOf

LEMMA EventIs ==
    ASSUME GatewayTypes, NEW d \in Drainer, NEW l \in LogLine, turn[d].line = {l},
           turn[d].next = 2 => Status(l) \in Faulty
    PROVE  /\ turn[d].next = 1 => Event(d) = "request"
           /\ turn[d].next = 2 => Event(d) = Status(l) /\ Event(d) # "request"
           /\ turn[d].next = 2 => Len(EventsOf(l)) = 2
           /\ turn[d].next = 1 /\ Len(EventsOf(l)) # 1 => Status(l) \in Faulty /\ Len(EventsOf(l)) = 2
<1>1. LineOf(d) = l
  BY LineIs
<1>2. CASE Status(l) \in Faulty
  <2>1. EventsOf(l) = <<"request", Status(l)>>
    BY <1>2 DEF EventsOf, Status
  <2>. QED  BY <1>1, <1>2, <2>1 DEF Event, Faulty
<1>3. CASE Status(l) \notin Faulty
  <2>1. EventsOf(l) = <<"request">>
    BY <1>3 DEF EventsOf, Status
  <2>. QED  BY <1>1, <1>3, <2>1 DEF Event
<1>. QED  BY <1>2, <1>3

LEMMA EmptyTurn ==
    /\ NoTurn.line = {} /\ NoTurn.next = 1 /\ NoTurn.doing = "starts"
    /\ NoTurn \in [line : SUBSET LogLine, next : 1..2, doing : {"starts", "tells new", "counts", "tells burst"}]
BY DEF NoTurn

(* What a drain goes on with.                                              *)
LEMMA ProceedsTo ==
    ASSUME GatewayTypes, NEW d \in Drainer, TurnInPlace(d), turn[d].line # {}, Proceeds(d)
    PROVE  /\ turn' \in [Drainer -> [line : SUBSET LogLine, next : 1..2,
                                     doing : {"starts", "tells new", "counts", "tells burst"}]]
           /\ \A q \in Drainer \ {d} : turn'[q] = turn[q]
           /\ turn'[d].doing = "starts"
           /\ \/ turn'[d] = NoTurn
              \/ \E l \in LogLine : turn'[d].line = {l} /\ Status(l) \in Faulty
<1>1. PICK l \in LogLine : turn[d].line = {l} /\ (turn[d].next = 2 => Status(l) \in Faulty)
  BY EmptyTurn DEF TurnInPlace
<1>2. LineOf(d) = l
  BY <1>1, LineIs
<1>3. turn[d] \in [line : SUBSET LogLine, next : 1..2, doing : {"starts", "tells new", "counts", "tells burst"}]
  BY DEF GatewayTypes
<1>4. turn' = [turn EXCEPT ![d] = IF turn[d].next = Len(EventsOf(l)) THEN NoTurn
                                  ELSE [line |-> turn[d].line, next |-> turn[d].next + 1, doing |-> "starts"]]
  BY <1>2 DEF Proceeds
<1>5. CASE turn[d].next = Len(EventsOf(l))
  <2>1. turn' = [turn EXCEPT ![d] = NoTurn]
    BY <1>4, <1>5
  <2>. QED  BY <2>1, EmptyTurn DEF GatewayTypes
<1>6. CASE turn[d].next # Len(EventsOf(l))
  <2>. DEFINE to == [line |-> turn[d].line, next |-> 2, doing |-> "starts"]
  <2>0. turn[d].next = 1 \/ turn[d].next = 2
    <3>1. turn[d].next \in 1..2
      BY <1>3
    <3>. QED  BY <3>1
  <2>1. turn[d].next = 1 /\ Status(l) \in Faulty
    BY <1>1, <1>6, <2>0, EventIs
  <2>2. to \in [line : SUBSET LogLine, next : 1..2, doing : {"starts", "tells new", "counts", "tells burst"}]
    <3>1. 2 \in 1..2
      OBVIOUS
    <3>2. turn[d].line \in SUBSET LogLine
      BY <1>3
    <3>. QED  BY <3>1, <3>2
  <2>3. to.line = {l} /\ to.doing = "starts"
    BY <1>1, <1>3
  <2>4. turn' = [turn EXCEPT ![d] = to]
    <3>1. turn[d].next + 1 = 2
      BY <2>1
    <3>. QED  BY <1>4, <1>6, <3>1
  <2>. HIDE DEF to
  <2>. QED  BY <2>1, <2>2, <2>3, <2>4 DEF GatewayTypes
<1>. QED  BY <1>5, <1>6

LEMMA DoesWhat ==
    ASSUME GatewayTypes, NEW d \in Drainer, NEW what \in {"starts", "tells new", "counts", "tells burst"}, Does(d, what)
    PROVE  /\ turn' \in [Drainer -> [line : SUBSET LogLine, next : 1..2,
                                     doing : {"starts", "tells new", "counts", "tells burst"}]]
           /\ \A q \in Drainer \ {d} : turn'[q] = turn[q]
           /\ turn'[d].line = turn[d].line /\ turn'[d].next = turn[d].next /\ turn'[d].doing = what
<1>1. turn[d] \in [line : SUBSET LogLine, next : 1..2, doing : {"starts", "tells new", "counts", "tells burst"}]
  BY DEF GatewayTypes
<1>. QED  BY <1>1 DEF Does, GatewayTypes

LEMMA SinceCounts ==
    ASSUME GatewayTypes, NEW s, NEW m \in 1..LastMinute, NEW to
    PROVE  KeptSince(s, m, to) \in Nat /\ IsFiniteSet(KeptWithin(s, m - BurstSpan, to))
<1>1. KeptWithin(s, m - BurstSpan, to) \subseteq LogLine
  BY DEF KeptWithin, GatewayTypes
<1>2. IsFiniteSet(KeptWithin(s, m - BurstSpan, to))
  BY <1>1, FS_Subset, GatewayAssumption
<1>. QED  BY <1>2, FS_CardinalityType DEF KeptSince

(* Who else works is left alone.                                           *)
LEMMA PlacesBeside ==
    ASSUME NEW d \in Drainer, \A q \in Drainer : TurnInPlace(q), \A q \in Drainer \ {d} : turn'[q] = turn[q],
           accessLog' = accessLog, kept \subseteq kept', TurnInPlace(d)'
    PROVE  \A q \in Drainer : TurnInPlace(q)'
BY ZenonT(30) DEF TurnInPlace, Status

(* Nothing is counted or told of as a burst.                               *)
LEMMA QuietInOrder ==
    ASSUME GatewayInv, NEW d \in Drainer, accessLog' = accessLog, kept' = kept,
           tellings \subseteq tellings', tellings' \subseteq tellings \cup {<<"new", 0>>},
           \A q \in Drainer \ {d} : turn'[q] = turn[q],
           turn'[d].doing \notin {"counts", "tells burst"},
           orderly' => orderly /\ turn[d].doing \notin {"counts", "tells burst"}
    PROVE  CountsLast' /\ BurstsReal' /\ BurstsHeard'
<1>1. \A s, m, to : KeptSince(s, m, to)' = KeptSince(s, m, to)
  BY DEF KeptSince, KeptWithin
<1>2. \A q \in Drainer, l \in LogLine, what \in {"counts", "tells burst"} :
        /\ AtLine(q, l, what)' => AtLine(q, l, what)
        /\ orderly' /\ AtLine(q, l, what) => AtLine(q, l, what)'
  BY DEF AtLine
<1>3. \A s \in Faulty : \A m : <<s, m>> \in tellings' <=> <<s, m>> \in tellings
  BY DEF Faulty
<1>4. \A l : Minute(l)' = Minute(l) /\ Status(l)' = Status(l)
  BY DEF Minute, Status
<1>5. CountsLast'
  BY <1>2, <1>4 DEF GatewayInv, CountsLast
<1>6. \A s, m : \A what \in {"counts", "tells burst"} :
        /\ Working(what, s, m)' => Working(what, s, m)
        /\ orderly' /\ Working(what, s, m) => Working(what, s, m)'
  BY <1>2, <1>4 DEF Working
<1>7. BurstsReal'
  BY <1>1, <1>3, <1>6 DEF GatewayInv, BurstsReal
<1>8. orderly' => \A s \in Faulty : \A n : HeardBy(s, n) => HeardBy(s, n)'
  BY <1>1, <1>3, <1>6 DEF HeardBy
<1>9. BurstsHeard'
  BY <1>1, <1>8 DEF GatewayInv, BurstsHeard
<1>. QED  BY <1>5, <1>7, <1>9

(* The steps of a drain that say nothing of failures.                      *)
Quiet(d) ==
    /\ accessLog' = accessLog /\ kept' = kept
    /\ tellings \subseteq tellings' /\ tellings' \subseteq tellings \cup {<<"new", 0>>}
    /\ \A q \in Drainer \ {d} : turn'[q] = turn[q]
    /\ turn'[d].doing \notin {"counts", "tells burst"}
    /\ orderly' => orderly /\ turn[d].doing \notin {"counts", "tells burst"}

TurnType == [line : SUBSET LogLine, next : 1..2, doing : {"starts", "tells new", "counts", "tells burst"}]

LEMMA StartIsFirst ==
    ASSUME GatewayInv, NEW d \in Drainer, turn[d].line # {}
    PROVE  \E l \in LogLine : /\ turn[d].line = {l} /\ LineOf(d) = l /\ Status(l) \in Faulty \cup {"other"}
                              /\ Minute(l) \in 1..LastMinute
                              /\ turn[d].next \in 1..2
                              /\ turn[d].next = 2 => Status(l) \in Faulty /\ Event(d) = Status(l)
                              /\ turn[d].next = 1 => Event(d) = "request"
                              /\ turn[d].doing = "tells new" => turn[d].next = 1
                              /\ turn[d].doing \in {"counts", "tells burst"} => turn[d].next = 2 /\ l \in kept
<1>0. GatewayTypes /\ TurnInPlace(d)
  BY DEF GatewayInv
<1>1. PICK l \in LogLine : /\ turn[d].line = {l}
                           /\ turn[d].next = 2 => Status(l) \in Faulty
                           /\ turn[d].doing = "tells new" => turn[d].next = 1
                           /\ turn[d].doing \in {"counts", "tells burst"} => turn[d].next = 2 /\ l \in kept
  BY <1>0, EmptyTurn DEF TurnInPlace
<1>2. LineOf(d) = l
  BY <1>1, LineIs
<1>3. (turn[d].next = 2 => Event(d) = Status(l)) /\ (turn[d].next = 1 => Event(d) = "request")
  BY <1>0, <1>1, EventIs
<1>4. turn[d].next \in 1..2 /\ Status(l) \in Faulty \cup {"other"} /\ Minute(l) \in 1..LastMinute
  BY <1>0 DEF GatewayTypes, Status, Minute
<1>. QED  BY <1>1, <1>2, <1>3, <1>4

LEMMA ProceedsWell ==
    ASSUME GatewayInv, NEW d \in Drainer, turn[d].line # {}, Proceeds(d), accessLog' = accessLog, kept \subseteq kept'
    PROVE  /\ turn' \in [Drainer -> TurnType] /\ turn'[d].doing = "starts"
           /\ \A q \in Drainer \ {d} : turn'[q] = turn[q]
           /\ \A q \in Drainer : TurnInPlace(q)'
<1>0. GatewayTypes /\ (\A q \in Drainer : TurnInPlace(q))
  BY DEF GatewayInv
<1>1. /\ turn' \in [Drainer -> TurnType] /\ turn'[d].doing = "starts"
      /\ \A q \in Drainer \ {d} : turn'[q] = turn[q]
      /\ \/ turn'[d] = NoTurn
         \/ \E l \in LogLine : turn'[d].line = {l} /\ Status(l) \in Faulty
  BY <1>0, ProceedsTo DEF TurnType
<1>2. TurnInPlace(d)'
  BY <1>1 DEF TurnInPlace, Status
<1>. QED  BY <1>0, <1>1, <1>2, PlacesBeside

(* What any quiet step keeps, and what it has to show for the rest.        *)
LEMMA QuietKeeps ==
    ASSUME GatewayInv, NEW d \in Drainer, Quiet(d), turn' \in [Drainer -> TurnType],
           \A q \in Drainer : TurnInPlace(q)', NewsTold',
           lapses' \in 0..MaxCuts, known' \in BOOLEAN, newUntold' \in BOOLEAN, orderly' \in BOOLEAN
    PROVE  GatewayInv'
<1>1. CountsLast' /\ BurstsReal' /\ BurstsHeard'
  BY QuietInOrder DEF Quiet
<1>2. GatewayTypes'
  <2>1. tellings' \subseteq (Faulty \cup {"new"}) \X (0..LastMinute)
    <3>1. <<"new", 0>> \in (Faulty \cup {"new"}) \X (0..LastMinute)
      BY GatewayAssumption
    <3>. QED  BY <3>1 DEF Quiet, GatewayInv, GatewayTypes
  <2>. QED  BY <2>1 DEF GatewayTypes, GatewayInv, Quiet, TurnType
<1>. QED  BY <1>1, <1>2 DEF GatewayInv

LEMMA ReceivesKept ==
    ASSUME GatewayInv, NEW d \in Drainer, NEW l \in LogLine, Receives(d, l)
    PROVE  GatewayInv'
<1>0. GatewayTypes /\ \A q \in Drainer : TurnInPlace(q)
  BY DEF GatewayInv
<1>. DEFINE to == [line |-> {l}, next |-> 1, doing |-> "starts"]
<1>1. /\ turn' = [turn EXCEPT ![d] = to] /\ turn[d] = NoTurn
      /\ UNCHANGED <<accessLog, known, kept, tellings, lapses, newUntold, orderly>>
  <2>1. to = [NoTurn EXCEPT !.line = {l}]
    BY DEF NoTurn
  <2>. QED  BY <1>0, <2>1 DEF Receives, GatewayTypes
<1>2. to.line = {l} /\ to.next = 1 /\ to.doing = "starts" /\ to \in TurnType
  BY DEF NoTurn, TurnType
<1>. HIDE DEF to
<1>3. /\ turn' \in [Drainer -> TurnType] /\ turn'[d] = to /\ \A q \in Drainer \ {d} : turn'[q] = turn[q]
  BY <1>0, <1>1, <1>2 DEF GatewayTypes, TurnType
<1>4. TurnInPlace(d)'
  <2>0. turn'[d].line = {l} /\ turn'[d].next = 1 /\ turn'[d].doing = "starts"
    BY <1>2, <1>3
  <2>1. turn'[d].line = {l} /\ turn'[d].next # 2 /\ turn'[d].doing \notin {"tells new", "counts", "tells burst"}
    BY <2>0
  <2>. QED  BY <2>1 DEF TurnInPlace
<1>5. \A q \in Drainer : TurnInPlace(q)'
  BY <1>0, <1>1, <1>3, <1>4, PlacesBeside
<1>6. Quiet(d)
  BY <1>1, <1>2, <1>3, EmptyTurn DEF Quiet
<1>7. NewsTold'
  BY <1>1, <1>3, EmptyTurn DEF GatewayInv, NewsTold
<1>. QED  BY <1>0, <1>1, <1>3, <1>5, <1>6, <1>7, QuietKeeps DEF GatewayTypes

LEMMA RecordedKept ==
    ASSUME GatewayInv, NEW d \in Drainer, SourceRecorded(d)
    PROVE  GatewayInv'
<1>0. GatewayTypes /\ \A q \in Drainer : TurnInPlace(q)
  BY DEF GatewayInv
<1>1. /\ turn[d].line # {} /\ turn[d].doing = "starts" /\ Event(d) = "request" /\ known' = TRUE
      /\ UNCHANGED <<accessLog, kept, tellings, lapses, newUntold, orderly>>
      /\ IF known THEN Proceeds(d) ELSE Does(d, "tells new")
  BY DEF SourceRecorded, Doing, NewlyKnown, Inserted
<1>2. CASE known
  <2>1. /\ turn' \in [Drainer -> TurnType] /\ turn'[d].doing = "starts"
        /\ \A q \in Drainer \ {d} : turn'[q] = turn[q]
        /\ \A q \in Drainer : TurnInPlace(q)'
    BY <1>1, <1>2, ProceedsWell
  <2>2. Quiet(d)
    BY <1>1, <2>1 DEF Quiet
  <2>3. NewsTold'
    <3>1. \/ <<"new", 0>> \in tellings \/ newUntold
          \/ \E q \in Drainer : turn[q].line # {} /\ turn[q].doing = "tells new"
      BY <1>2 DEF GatewayInv, NewsTold
    <3>2. \A q \in Drainer : turn[q].doing = "tells new" => turn'[q] = turn[q]
      BY <1>1, <2>1
    <3>. QED  BY <1>1, <3>1, <3>2 DEF NewsTold
  <2>. QED  BY <1>0, <1>1, <2>1, <2>2, <2>3, QuietKeeps DEF GatewayTypes
<1>3. CASE ~known
  <2>1. /\ turn' \in [Drainer -> TurnType] /\ \A q \in Drainer \ {d} : turn'[q] = turn[q]
        /\ turn'[d].line = turn[d].line /\ turn'[d].next = turn[d].next /\ turn'[d].doing = "tells new"
    BY <1>0, <1>1, <1>3, DoesWhat DEF TurnType
  <2>2. PICK l \in LogLine : turn[d].line = {l} /\ turn[d].next = 1
    <3>1. PICK l \in LogLine : /\ turn[d].line = {l} /\ turn[d].next \in 1..2
                               /\ turn[d].next = 2 => Status(l) \in Faulty /\ Event(d) = Status(l)
      BY <1>1, StartIsFirst
    <3>2. "request" \notin Faulty
      BY DEF Faulty
    <3>3. turn[d].next \in 1..2 /\ turn[d].next # 2
      <4>1. Event(d) \notin Faulty
        BY <1>1, <3>2
      <4>. QED  BY <3>1, <4>1
    <3>4. turn[d].next = 1
      BY <3>3
    <3>. QED  BY <3>1, <3>4
  <2>3. TurnInPlace(d)'
    <3>1. /\ turn'[d].line = {l} /\ turn'[d].next # 2 /\ turn'[d].next = 1
          /\ turn'[d].doing \notin {"counts", "tells burst"}
      <4>1. turn'[d].doing = "tells new" /\ turn'[d].next = 1 /\ turn'[d].line = {l}
        BY <2>1, <2>2
      <4>2. turn'[d].next = 1 => turn'[d].next # 2
        OBVIOUS
      <4>3. turn'[d].doing = "tells new" => turn'[d].doing \notin {"counts", "tells burst"}
        OBVIOUS
      <4>. QED  BY <4>1, <4>2, <4>3, Zenon
    <3>. QED  BY <3>1 DEF TurnInPlace
  <2>4. \A q \in Drainer : TurnInPlace(q)'
    BY <1>0, <1>1, <2>1, <2>3, PlacesBeside
  <2>5. Quiet(d)
    BY <1>1, <2>1 DEF Quiet
  <2>6. NewsTold'
    BY <1>1, <2>1 DEF NewsTold
  <2>. QED  BY <1>0, <1>1, <2>1, <2>4, <2>5, <2>6, QuietKeeps DEF GatewayTypes
<1>. QED  BY <1>2, <1>3

LEMMA NewToldKept ==
    ASSUME GatewayInv, NEW d \in Drainer, SourceTold(d)
    PROVE  GatewayInv'
<1>0. GatewayTypes /\ \A q \in Drainer : TurnInPlace(q)
  BY DEF GatewayInv
<1>1. /\ turn[d].line # {} /\ turn[d].doing = "tells new" /\ tellings' = tellings \cup {<<"new", 0>>}
      /\ UNCHANGED <<accessLog, known, kept, lapses, newUntold, orderly>> /\ Proceeds(d)
  BY DEF SourceTold, Doing
<1>2. /\ turn' \in [Drainer -> TurnType] /\ turn'[d].doing = "starts"
      /\ \A q \in Drainer \ {d} : turn'[q] = turn[q]
      /\ \A q \in Drainer : TurnInPlace(q)'
  BY <1>1, ProceedsWell
<1>3. Quiet(d) /\ NewsTold'
  BY <1>1, <1>2 DEF Quiet, NewsTold
<1>. QED  BY <1>0, <1>1, <1>2, <1>3, QuietKeeps DEF GatewayTypes

LEMMA SlipCounts == GatewayTypes /\ DrainerSlips => lapses' \in 0..MaxCuts
<1>1. MaxCuts \in Nat
  BY GatewayAssumption
<1>2. GatewayTypes => lapses \in 0..MaxCuts
  BY DEF GatewayTypes
<1>3. DrainerSlips => lapses < MaxCuts /\ lapses' = lapses + 1
  BY DEF DrainerSlips
<1>. QED  BY <1>1, <1>2, <1>3

LEMMA SkippedKept ==
    ASSUME GatewayInv, NEW d \in Drainer, ProjectionSkipped(d)
    PROVE  GatewayInv'
<1>0. GatewayTypes /\ \A q \in Drainer : TurnInPlace(q)
  BY DEF GatewayInv
<1>1. /\ turn[d].line # {} /\ DrainerSlips /\ Proceeds(d)
      /\ UNCHANGED <<accessLog, known, kept, tellings, newUntold>>
      /\ \/ turn[d].doing = "counts" /\ orderly' = FALSE
         \/ turn[d].doing = "starts" /\ orderly' = orderly
  BY DEF ProjectionSkipped, Doing
<1>2. /\ turn' \in [Drainer -> TurnType] /\ turn'[d].doing = "starts"
      /\ \A q \in Drainer \ {d} : turn'[q] = turn[q]
      /\ \A q \in Drainer : TurnInPlace(q)'
  BY <1>1, ProceedsWell
<1>3. Quiet(d)
  <2>1. orderly' => orderly /\ turn[d].doing \notin {"counts", "tells burst"}
    BY <1>1
  <2>. QED  BY <1>1, <1>2, <2>1 DEF Quiet
<1>4. NewsTold'
  <2>1. \A q \in Drainer : turn[q].doing = "tells new" => turn'[q] = turn[q]
    BY <1>1, <1>2
  <2>. QED  BY <1>1, <2>1 DEF GatewayInv, NewsTold
<1>5. lapses' \in 0..MaxCuts /\ orderly' \in BOOLEAN
  BY <1>0, <1>1, SlipCounts DEF GatewayTypes
<1>. QED  BY <1>0, <1>1, <1>2, <1>3, <1>4, <1>5, QuietKeeps DEF GatewayTypes

LEMMA CutKept ==
    ASSUME GatewayInv, NEW d \in Drainer, DrainerCut(d)
    PROVE  GatewayInv'
<1>0. GatewayTypes /\ \A q \in Drainer : TurnInPlace(q)
  BY DEF GatewayInv
<1>1. /\ turn[d].line # {} /\ DrainerSlips /\ turn' = [turn EXCEPT ![d] = NoTurn]
      /\ newUntold' = (newUntold \/ turn[d].doing = "tells new")
      /\ orderly' = (orderly /\ turn[d].doing \notin {"counts", "tells burst"})
      /\ UNCHANGED <<accessLog, known, kept, tellings>>
  BY DEF DrainerCut
<1>2. /\ turn' \in [Drainer -> TurnType] /\ turn'[d] = NoTurn /\ \A q \in Drainer \ {d} : turn'[q] = turn[q]
  BY <1>0, <1>1, EmptyTurn DEF GatewayTypes, TurnType
<1>3. \A q \in Drainer : TurnInPlace(q)'
  <2>1. TurnInPlace(d)'
    BY <1>2, EmptyTurn DEF TurnInPlace, NoTurn
  <2>. QED  BY <1>0, <1>1, <1>2, <2>1, PlacesBeside
<1>4. Quiet(d)
  BY <1>1, <1>2, EmptyTurn DEF Quiet
<1>5. NewsTold'
  <2>1. \A q \in Drainer : turn[q].doing = "tells new" => newUntold' \/ turn'[q] = turn[q]
    BY <1>1, <1>2
  <2>. QED  BY <1>1, <2>1 DEF GatewayInv, NewsTold
<1>6. lapses' \in 0..MaxCuts
  BY <1>0, <1>1, SlipCounts
<1>7. newUntold' \in BOOLEAN /\ orderly' \in BOOLEAN
  BY <1>1
<1>. QED  BY <1>0, <1>1, <1>2, <1>3, <1>4, <1>5, <1>6, <1>7, QuietKeeps DEF GatewayTypes

(* Storing one more failure moves a count by one at most, and not at all   *)
(* when it was stored before.                                              *)
LEMMA SinceGrows ==
    ASSUME GatewayTypes, NEW l \in LogLine, kept' = kept \cup {l}, accessLog' = accessLog,
           NEW s, NEW m \in 1..LastMinute, NEW to
    PROVE  /\ KeptSince(s, m, to)' >= KeptSince(s, m, to) /\ KeptSince(s, m, to)' <= KeptSince(s, m, to) + 1
           /\ KeptSince(s, m, to)' \in Nat /\ KeptSince(s, m, to) \in Nat
<1>. DEFINE K == KeptWithin(s, m - BurstSpan, to)
            L == {k \in kept' : Status(k) = s /\ Minute(k) \in (m - BurstSpan)..to}
<1>1. KeptSince(s, m, to) = Cardinality(K) /\ IsFiniteSet(K)
  BY SinceCounts DEF KeptSince
<1>2. KeptSince(s, m, to)' = Cardinality(L)
  BY DEF KeptSince, KeptWithin, Status, Minute
<1>3. L = K \/ L = K \cup {l}
  BY DEF KeptWithin, Status, Minute
<1>. HIDE DEF K, L
<1>4. Cardinality(K) \in Nat
  BY <1>1, FS_CardinalityType
<1>5. Cardinality(K \cup {l}) = IF l \in K THEN Cardinality(K) ELSE Cardinality(K) + 1
  BY <1>1, FS_AddElement
<1>. QED  BY <1>1, <1>2, <1>3, <1>4, <1>5

(* A window that ends later, with nothing stored later, counts no more.    *)
LEMMA LaterCountsLess ==
    ASSUME GatewayTypes, NEW s, NEW m \in 1..LastMinute, NEW n \in 1..LastMinute, n <= m,
           \A k \in kept : Minute(k) <= n
    PROVE  KeptSince(s, m, m) <= KeptSince(s, n, n) /\ KeptSince(s, n, n) = KeptSince(s, n, LastMinute)
<1>0. \A k \in kept : Minute(k) \in 1..LastMinute
  BY DEF GatewayTypes, Minute
<1>1. KeptWithin(s, m - BurstSpan, m) \subseteq KeptWithin(s, n - BurstSpan, n)
  BY <1>0, GatewayAssumption DEF KeptWithin, Minute
<1>2. KeptWithin(s, n - BurstSpan, n) = KeptWithin(s, n - BurstSpan, LastMinute)
  BY <1>0, GatewayAssumption DEF KeptWithin, Minute
<1>3. IsFiniteSet(KeptWithin(s, n - BurstSpan, n))
  BY SinceCounts
<1>. QED  BY <1>1, <1>2, <1>3, FS_Subset DEF KeptSince

LEMMA BurstNat == BurstLevel \in Nat /\ BurstLevel >= 1 /\ BurstLevel >= BurstLevel
BY GatewayAssumption

LEMMA PeakStays == \A x \in Nat, y \in Nat : y >= x /\ x >= BurstLevel => y >= BurstLevel
BY BurstNat

LEMMA KeptKept ==
    ASSUME GatewayInv, NEW d \in Drainer, FailureKept(d)
    PROVE  GatewayInv'
<1>0. GatewayTypes /\ \A q \in Drainer : TurnInPlace(q)
  BY DEF GatewayInv
<1>1. /\ turn[d].line # {} /\ turn[d].doing = "starts" /\ Event(d) # "request"
      /\ kept' = kept \cup {LineOf(d)} /\ Does(d, "counts")
      /\ orderly' = (orderly /\ ~Counting /\ \A l \in kept : Minute(l) <= Minute(LineOf(d)))
      /\ UNCHANGED <<accessLog, known, tellings, lapses, newUntold>>
  BY DEF FailureKept, Doing, Minute
<1>2. PICK l \in LogLine : /\ turn[d].line = {l} /\ LineOf(d) = l /\ turn[d].next = 2
                           /\ Status(l) \in Faulty /\ Minute(l) \in 1..LastMinute
  <2>1. PICK l \in LogLine : /\ turn[d].line = {l} /\ LineOf(d) = l /\ Minute(l) \in 1..LastMinute
                             /\ turn[d].next \in 1..2
                             /\ turn[d].next = 2 => Status(l) \in Faulty /\ Event(d) = Status(l)
                             /\ turn[d].next = 1 => Event(d) = "request"
    BY <1>1, StartIsFirst
  <2>2. turn[d].next \in 1..2 /\ turn[d].next # 1
    BY <1>1, <2>1
  <2>3. turn[d].next = 2
    BY <2>2
  <2>. QED  BY <2>1, <2>3
<1>3. /\ turn' \in [Drainer -> TurnType] /\ \A q \in Drainer \ {d} : turn'[q] = turn[q]
      /\ turn'[d].line = {l} /\ turn'[d].next = 2 /\ turn'[d].doing = "counts"
  BY <1>0, <1>1, <1>2, DoesWhat DEF TurnType
<1>4. GatewayTypes'
  <2>1. orderly' \in BOOLEAN
    BY <1>1
  <2>2. kept' \subseteq LogLine
    BY <1>0, <1>1, <1>2 DEF GatewayTypes
  <2>. QED  BY <1>0, <1>1, <1>3, <2>1, <2>2 DEF GatewayTypes, TurnType
<1>5. \A q \in Drainer : TurnInPlace(q)'
  <2>1. Status(l)' = Status(l) /\ l \in kept'
    BY <1>1, <1>2 DEF Status
  <2>2. turn'[d].doing # "tells new"
    BY <1>3
  <2>3. TurnInPlace(d)'
    BY <1>2, <1>3, <2>1, <2>2 DEF TurnInPlace
  <2>. QED  BY <1>0, <1>1, <1>3, <2>3, PlacesBeside
<1>6. \A k : Minute(k)' = Minute(k) /\ Status(k)' = Status(k)
  BY <1>1 DEF Minute, Status
<1>7. orderly' => /\ orderly /\ \A k \in kept' : Minute(k) <= Minute(l)
                  /\ \A q \in Drainer \ {d} : turn[q].doing # "counts"
  <2>1. orderly' => orderly /\ ~Counting /\ \A k \in kept : Minute(k) <= Minute(l)
    BY <1>1, <1>2
  <2>2. ~Counting => \A q \in Drainer \ {d} : turn[q].doing # "counts"
    BY DEF Counting
  <2>3. Minute(l) <= Minute(l)
    BY <1>2
  <2>. QED  BY <1>1, <1>2, <2>1, <2>2, <2>3
<1>8. CountsLast'
  <2>. SUFFICES ASSUME orderly', NEW q \in Drainer, NEW k \in LogLine, AtLine(q, k, "counts")'
                PROVE  \A j \in kept' : Minute(j) <= Minute(k)
    BY <1>6 DEF CountsLast
  <2>1. q = d
    BY <1>3, <1>7 DEF AtLine
  <2>2. k = l
    BY <1>3, <2>1 DEF AtLine
  <2>. QED  BY <1>7, <2>2
<1>9. \A s \in Faulty, m \in 1..LastMinute : \A to :
         /\ KeptSince(s, m, to)' >= KeptSince(s, m, to) /\ KeptSince(s, m, to)' <= KeptSince(s, m, to) + 1
         /\ KeptSince(s, m, to)' \in Nat /\ KeptSince(s, m, to) \in Nat
  BY <1>0, <1>1, <1>2, SinceGrows
<1>10. \A q \in Drainer, k \in LogLine, what \in {"counts", "tells burst"} :
          /\ AtLine(q, k, what)' => AtLine(q, k, what) \/ (k = l /\ what = "counts")
          /\ AtLine(q, k, what) => AtLine(q, k, what)'
  <2>. SUFFICES ASSUME NEW q \in Drainer, NEW k \in LogLine, NEW what \in {"counts", "tells burst"}
                PROVE  /\ AtLine(q, k, what)' => AtLine(q, k, what) \/ (k = l /\ what = "counts")
                       /\ AtLine(q, k, what) => AtLine(q, k, what)'
    OBVIOUS
  <2>1. CASE q = d
    <3>1. ~AtLine(q, k, what)
      BY <1>1, <2>1 DEF AtLine
    <3>2. AtLine(q, k, what)' => k = l
      BY <1>3, <2>1 DEF AtLine
    <3>3. AtLine(q, k, what)' => what = "counts"
      BY <1>3, <2>1 DEF AtLine
    <3>. QED  BY <3>1, <3>2, <3>3
  <2>2. CASE q # d
    BY <1>3, <2>2 DEF AtLine
  <2>. QED  BY <2>1, <2>2
<1>11. \A s, m : /\ Working("tells burst", s, m)' <=> Working("tells burst", s, m)
                 /\ Working("counts", s, m) => Working("counts", s, m)'
  BY <1>6, <1>10 DEF Working
<1>12. BurstsReal'
  <2>. SUFFICES ASSUME NEW s \in Faulty, NEW m \in 1..LastMinute,
                       <<s, m>> \in tellings \/ Working("tells burst", s, m)
                PROVE  /\ KeptSince(s, m, LastMinute)' >= BurstLevel
                       /\ orderly' => KeptSince(s, m, m)' >= BurstLevel
    BY <1>1, <1>11 DEF BurstsReal
  <2>1. KeptSince(s, m, LastMinute) >= BurstLevel /\ (orderly => KeptSince(s, m, m) >= BurstLevel)
    BY DEF GatewayInv, BurstsReal
  <2>2. \A to : /\ KeptSince(s, m, to)' >= KeptSince(s, m, to)
                /\ KeptSince(s, m, to)' \in Nat /\ KeptSince(s, m, to) \in Nat
    BY <1>9
  <2>3. \A to : KeptSince(s, m, to) >= BurstLevel => KeptSince(s, m, to)' >= BurstLevel
    <3>. TAKE to
    <3>1. KeptSince(s, m, to)' >= KeptSince(s, m, to) /\ KeptSince(s, m, to)' \in Nat /\ KeptSince(s, m, to) \in Nat
      BY <2>2
    <3>. QED  BY <3>1, PeakStays, Zenon
  <2>4. orderly' => orderly
    BY <1>7
  <2>. QED  BY <2>1, <2>3, <2>4, Zenon
<1>13. BurstsHeard'
  <2>. SUFFICES ASSUME orderly', NEW s \in Faulty, NEW m \in 1..LastMinute, KeptSince(s, m, m)' >= BurstLevel
                PROVE  \E n \in 1..m : HeardBy(s, n)'
    BY DEF BurstsHeard
  <2>1. \A x, n : ~Working("counts", x, n)
    <3>1. ~Counting
      BY <1>1
    <3>. QED  BY <3>1 DEF Working, AtLine, Counting
  <2>2. \A n : HeardBy(s, n) => HeardBy(s, n)'
    BY <1>1, <1>11, <2>1 DEF HeardBy
  <2>3. CASE KeptSince(s, m, m) >= BurstLevel
    <3>1. \E n \in 1..m : HeardBy(s, n)
      BY <1>7, <2>3 DEF GatewayInv, BurstsHeard
    <3>. QED  BY <2>2, <3>1
  <2>4. CASE ~(KeptSince(s, m, m) >= BurstLevel)
    <3>1. PICK n \in 1..LastMinute : n = Minute(l)
      BY <1>2
    <3>2. s = Status(l) /\ n <= m
      <4>1. KeptSince(s, m, m)' # KeptSince(s, m, m)
        BY <2>4
      <4>2. (KeptWithin(s, m - BurstSpan, m))' # KeptWithin(s, m - BurstSpan, m)
        BY <4>1 DEF KeptSince
      <4>. QED  BY <1>1, <1>2, <3>1, <4>2 DEF KeptWithin, Status, Minute
    <3>3. KeptSince(s, n, n)' >= KeptSince(s, m, m)'
      <4>. DEFINE A == {k \in kept' : Status(k) = s /\ Minute(k) \in (m - BurstSpan)..m}
                  B == {k \in kept' : Status(k) = s /\ Minute(k) \in (n - BurstSpan)..n}
      <4>1. KeptSince(s, m, m)' = Cardinality(A)
        BY <1>6 DEF KeptSince, KeptWithin, Status, Minute
      <4>2. KeptSince(s, n, n)' = Cardinality(B)
        BY <1>6, <3>1 DEF KeptSince, KeptWithin, Status, Minute
      <4>3. \A k \in kept' : Minute(k) <= n /\ Minute(k) \in 1..LastMinute
        BY <1>0, <1>4, <1>6, <1>7, <3>1 DEF GatewayTypes, Minute
      <4>4. A \subseteq B
        <5>1. BurstSpan \in Nat /\ LastMinute \in Nat
          BY GatewayAssumption
        <5>. QED  BY <3>1, <3>2, <4>3, <5>1
      <4>5. IsFiniteSet(B)
        <5>1. B \subseteq LogLine
          BY <1>4 DEF GatewayTypes
        <5>2. IsFiniteSet(LogLine)
          BY GatewayAssumption
        <5>. HIDE DEF B
        <5>. QED  BY <5>1, <5>2, FS_Subset
      <4>. HIDE DEF A, B
      <4>6. Cardinality(A) <= Cardinality(B)
        BY <4>4, <4>5, FS_Subset
      <4>. QED  BY <4>1, <4>2, <4>6
    <3>4. /\ KeptSince(s, n, n)' >= KeptSince(s, n, n) /\ KeptSince(s, n, n)' <= KeptSince(s, n, n) + 1
          /\ KeptSince(s, n, n)' \in Nat /\ KeptSince(s, n, n) \in Nat /\ KeptSince(s, m, m)' \in Nat
      BY <1>9, <3>1
    <3>5. KeptSince(s, n, n) >= BurstLevel \/ KeptSince(s, n, n)' = BurstLevel
      BY <3>3, <3>4, BurstNat
    <3>6. CASE KeptSince(s, n, n) >= BurstLevel
      <4>1. PICK j \in 1..n : HeardBy(s, j)
        BY <1>7, <3>1, <3>6 DEF GatewayInv, BurstsHeard
      <4>2. j \in 1..m
        BY <3>1, <3>2
      <4>. QED  BY <2>2, <4>1, <4>2
    <3>7. CASE KeptSince(s, n, n)' = BurstLevel
      <4>1. AtLine(d, l, "counts")'
        BY <1>3 DEF AtLine
      <4>2. Working("counts", s, n)'
        BY <1>6, <3>1, <3>2, <4>1 DEF Working
      <4>3. HeardBy(s, n)'
        BY <3>1, <3>7, <4>2 DEF HeardBy
      <4>4. n \in 1..m
        BY <3>1, <3>2
      <4>. QED  BY <4>3, <4>4
    <3>. QED  BY <3>5, <3>6, <3>7
  <2>. QED  BY <2>3, <2>4
<1>14. NewsTold'
  <2>1. \A q \in Drainer : turn[q].doing = "tells new" => turn'[q] = turn[q]
    BY <1>1, <1>3
  <2>. QED  BY <1>1, <2>1 DEF GatewayInv, NewsTold
<1>. QED  BY <1>4, <1>5, <1>8, <1>12, <1>13, <1>14 DEF GatewayInv

(* The window of the code has no upper end.                                *)
LEMMA RecentCounts ==
    ASSUME GatewayInv, NEW d \in Drainer, NEW l \in LogLine, LineOf(d) = l, Event(d) = Status(l)
    PROVE  Cardinality(Recent(d)) = KeptSince(Status(l), Minute(l), LastMinute)
<1>1. \A k \in kept : Minute(k) \in 1..LastMinute
  BY DEF GatewayInv, GatewayTypes, Minute
<1>2. \A k \in kept : accessLog[k].minute >= Minute(l) - BurstSpan <=> accessLog[k].minute \in (Minute(l) - BurstSpan)..LastMinute
  <2>1. Minute(l) \in 1..LastMinute
    BY DEF GatewayInv, GatewayTypes, Minute
  <2>. QED  BY <1>1, <2>1, GatewayAssumption DEF Minute
<1>3. Recent(d) = KeptWithin(Status(l), Minute(l) - BurstSpan, LastMinute)
  BY <1>2 DEF Recent, KeptWithin, Status, Minute
<1>. QED  BY <1>3 DEF KeptSince

(* What a drain that counts or tells is at.                                *)
LEMMA AtFailure ==
    ASSUME GatewayInv, NEW d \in Drainer, turn[d].line # {}, turn[d].doing \in {"counts", "tells burst"}
    PROVE  \E l \in LogLine : /\ turn[d].line = {l} /\ LineOf(d) = l /\ Status(l) \in Faulty
                              /\ Minute(l) \in 1..LastMinute /\ Event(d) = Status(l) /\ l \in kept
BY StartIsFirst

(* A step of a drain that counts, or tells what it counted.                *)
LEMMA CountedKept ==
    ASSUME GatewayInv, NEW d \in Drainer, FailuresCounted(d)
    PROVE  GatewayInv'
<1>0. GatewayTypes /\ \A q \in Drainer : TurnInPlace(q)
  BY DEF GatewayInv
<1>1. /\ turn[d].line # {} /\ turn[d].doing = "counts"
      /\ IF IsPeak(Cardinality(Recent(d))) THEN Does(d, "tells burst") ELSE Proceeds(d)
      /\ UNCHANGED <<accessLog, known, kept, tellings, lapses, newUntold, orderly>>
  BY DEF FailuresCounted, Doing
<1>2. PICK l \in LogLine : /\ turn[d].line = {l} /\ LineOf(d) = l /\ Status(l) \in Faulty
                           /\ Minute(l) \in 1..LastMinute /\ Event(d) = Status(l) /\ l \in kept
  BY <1>1, AtFailure
<1>3. Cardinality(Recent(d)) = KeptSince(Status(l), Minute(l), LastMinute)
  BY <1>2, RecentCounts
<1>4. orderly => KeptSince(Status(l), Minute(l), Minute(l)) = KeptSince(Status(l), Minute(l), LastMinute)
  <2>1. AtLine(d, l, "counts")
    BY <1>1, <1>2 DEF AtLine
  <2>2. Minute(l) <= Minute(l)
    BY <1>2
  <2>3. orderly => \A k \in kept : Minute(k) <= Minute(l)
    BY <2>1 DEF GatewayInv, CountsLast
  <2>. QED  BY <1>0, <1>2, <2>2, <2>3, LaterCountsLess
<1>5. \A k : Minute(k)' = Minute(k) /\ Status(k)' = Status(k)
  BY <1>1 DEF Minute, Status
<1>6. \A s, m, to : KeptSince(s, m, to)' = KeptSince(s, m, to)
  BY <1>1 DEF KeptSince, KeptWithin
<1>. DEFINE peak == KeptSince(Status(l), Minute(l), LastMinute) = BurstLevel
<1>7. /\ turn' \in [Drainer -> TurnType] /\ \A q \in Drainer \ {d} : turn'[q] = turn[q]
      /\ turn'[d].doing # "counts" /\ (turn'[d].doing = "tells burst" => peak)
      /\ peak => turn'[d].line = {l} /\ turn'[d].doing = "tells burst"
      /\ turn'[d].doing # "tells new"
      /\ \A q \in Drainer : TurnInPlace(q)'
  <2>1. CASE peak
    <3>1. Does(d, "tells burst")
      BY <1>1, <1>3, <2>1 DEF IsPeak
    <3>2. /\ turn' \in [Drainer -> TurnType] /\ \A q \in Drainer \ {d} : turn'[q] = turn[q]
          /\ turn'[d].line = turn[d].line /\ turn'[d].next = turn[d].next /\ turn'[d].doing = "tells burst"
      BY <1>0, <3>1, DoesWhat DEF TurnType
    <3>3. turn[d].next = 2
      BY <1>1, StartIsFirst
    <3>4. TurnInPlace(d)'
      <4>1. turn'[d].doing # "tells new"
        BY <3>2
      <4>2. Status(l)' \in Faulty /\ l \in kept'
        BY <1>1, <1>2, <1>5
      <4>3. turn'[d].line = {l} /\ turn'[d].next = 2
        BY <1>2, <3>2, <3>3
      <4>. QED  BY <4>1, <4>2, <4>3 DEF TurnInPlace
    <3>5. \A q \in Drainer : TurnInPlace(q)'
      BY <1>0, <1>1, <3>2, <3>4, PlacesBeside
    <3>. QED  BY <1>2, <2>1, <3>2, <3>5
  <2>2. CASE ~peak
    <3>1. Proceeds(d)
      BY <1>1, <1>3, <2>2 DEF IsPeak
    <3>2. /\ turn' \in [Drainer -> TurnType] /\ turn'[d].doing = "starts"
          /\ \A q \in Drainer \ {d} : turn'[q] = turn[q]
          /\ \A q \in Drainer : TurnInPlace(q)'
      BY <1>1, <3>1, ProceedsWell
    <3>. QED  BY <2>2, <3>2
  <2>. QED  BY <2>1, <2>2
<1>8. GatewayTypes'
  BY <1>0, <1>1, <1>7 DEF GatewayTypes, TurnType
<1>9. CountsLast'
  <2>1. \A q \in Drainer, k \in LogLine : AtLine(q, k, "counts")' => AtLine(q, k, "counts")
    BY <1>7 DEF AtLine
  <2>. QED  BY <1>1, <1>5, <2>1 DEF GatewayInv, CountsLast
<1>10. ASSUME NEW s, NEW m, Working("tells burst", s, m)'
       PROVE  Working("tells burst", s, m) \/ (peak /\ s = Status(l) /\ m = Minute(l))
  <2>1. PICK q \in Drainer, k \in LogLine : AtLine(q, k, "tells burst")' /\ Status(k) = s /\ Minute(k) = m
    BY <1>5, <1>10 DEF Working
  <2>2. CASE q = d
    <3>1. peak
      BY <1>7, <2>1, <2>2 DEF AtLine
    <3>2. k = l
      BY <1>7, <2>1, <2>2, <3>1 DEF AtLine
    <3>. QED  BY <2>1, <3>1, <3>2
  <2>3. CASE q # d
    <3>1. AtLine(q, k, "tells burst")
      BY <1>7, <2>1, <2>3 DEF AtLine
    <3>. QED  BY <2>1, <3>1 DEF Working
  <2>. QED  BY <2>2, <2>3
<1>11. ASSUME NEW s, NEW m, Working("tells burst", s, m)
       PROVE  Working("tells burst", s, m)'
  <2>1. PICK q \in Drainer, k \in LogLine : AtLine(q, k, "tells burst") /\ Status(k) = s /\ Minute(k) = m
    BY <1>11 DEF Working
  <2>2. q # d
    BY <1>1, <2>1 DEF AtLine
  <2>3. AtLine(q, k, "tells burst")'
    BY <1>7, <2>1, <2>2 DEF AtLine
  <2>. QED  BY <1>5, <2>1, <2>3 DEF Working
<1>12. ASSUME NEW s, NEW m, Working("counts", s, m)
       PROVE  Working("counts", s, m)' \/ (s = Status(l) /\ m = Minute(l))
  <2>1. PICK q \in Drainer, k \in LogLine : AtLine(q, k, "counts") /\ Status(k) = s /\ Minute(k) = m
    BY <1>12 DEF Working
  <2>2. CASE q = d
    <3>1. k = l
      BY <1>2, <2>1, <2>2 DEF AtLine
    <3>. QED  BY <2>1, <3>1
  <2>3. CASE q # d
    <3>1. AtLine(q, k, "counts")'
      BY <1>7, <2>1, <2>3 DEF AtLine
    <3>. QED  BY <1>5, <2>1, <3>1 DEF Working
  <2>. QED  BY <2>2, <2>3
<1>13. BurstsReal'
  <2>. SUFFICES ASSUME NEW s \in Faulty, NEW m \in 1..LastMinute,
                       <<s, m>> \in tellings \/ Working("tells burst", s, m)'
                PROVE  /\ KeptSince(s, m, LastMinute) >= BurstLevel
                       /\ orderly => KeptSince(s, m, m) >= BurstLevel
    BY <1>1, <1>6 DEF BurstsReal
  <2>1. CASE <<s, m>> \in tellings \/ Working("tells burst", s, m)
    BY <2>1 DEF GatewayInv, BurstsReal
  <2>2. CASE peak /\ s = Status(l) /\ m = Minute(l)
    <3>1. KeptSince(s, m, LastMinute) = BurstLevel /\ (orderly => KeptSince(s, m, m) = BurstLevel)
      BY <1>4, <2>2, Zenon
    <3>. QED  BY <3>1, BurstNat, Zenon
  <2>3. \/ <<s, m>> \in tellings \/ Working("tells burst", s, m)
        \/ peak /\ s = Status(l) /\ m = Minute(l)
    BY <1>10
  <2>. HIDE DEF peak
  <2>. QED  BY <2>1, <2>2, <2>3, Zenon
<1>14. BurstsHeard'
  <2>1. ASSUME orderly, NEW s, NEW n, HeardBy(s, n)
        PROVE  HeardBy(s, n)'
    <3>1. CASE <<s, n>> \in tellings \/ Working("tells burst", s, n)
      BY <1>1, <1>11, <3>1 DEF HeardBy
    <3>2. CASE Working("counts", s, n) /\ KeptSince(s, n, n) = BurstLevel
      <4>1. CASE Working("counts", s, n)'
        BY <1>6, <3>2, <4>1 DEF HeardBy
      <4>2. CASE s = Status(l) /\ n = Minute(l)
        <5>1. peak
          BY <1>4, <2>1, <3>2, <4>2
        <5>2. AtLine(d, l, "tells burst")'
          BY <1>7, <5>1 DEF AtLine
        <5>3. Working("tells burst", s, n)'
          BY <1>5, <4>2, <5>2 DEF Working
        <5>. QED  BY <5>3 DEF HeardBy
      <4>. QED  BY <1>12, <3>2, <4>1, <4>2
    <3>. QED  BY <2>1, <3>1, <3>2 DEF HeardBy
  <2>. QED  BY <1>1, <1>6, <2>1 DEF GatewayInv, BurstsHeard
<1>15. NewsTold'
  <2>1. \A q \in Drainer : turn[q].doing = "tells new" => turn'[q] = turn[q]
    BY <1>1, <1>7
  <2>. QED  BY <1>1, <2>1 DEF GatewayInv, NewsTold
<1>. QED  BY <1>7, <1>8, <1>9, <1>13, <1>14, <1>15 DEF GatewayInv

LEMMA BurstToldKept ==
    ASSUME GatewayInv, NEW d \in Drainer, BurstTold(d)
    PROVE  GatewayInv'
<1>0. GatewayTypes /\ \A q \in Drainer : TurnInPlace(q)
  BY DEF GatewayInv
<1>1. /\ turn[d].line # {} /\ turn[d].doing = "tells burst"
      /\ tellings' = tellings \cup {<<Event(d), accessLog[LineOf(d)].minute>>} /\ Proceeds(d)
      /\ UNCHANGED <<accessLog, known, kept, lapses, newUntold, orderly>>
  BY DEF BurstTold, Doing
<1>2. PICK l \in LogLine : /\ turn[d].line = {l} /\ LineOf(d) = l /\ Status(l) \in Faulty
                           /\ Minute(l) \in 1..LastMinute /\ Event(d) = Status(l) /\ l \in kept
  BY <1>1, AtFailure
<1>3. tellings' = tellings \cup {<<Status(l), Minute(l)>>}
  BY <1>1, <1>2 DEF Minute
<1>4. /\ turn' \in [Drainer -> TurnType] /\ turn'[d].doing = "starts"
      /\ \A q \in Drainer \ {d} : turn'[q] = turn[q]
      /\ \A q \in Drainer : TurnInPlace(q)'
  BY <1>1, ProceedsWell
<1>5. \A k : Minute(k)' = Minute(k) /\ Status(k)' = Status(k)
  BY <1>1 DEF Minute, Status
<1>6. \A s, m, to : KeptSince(s, m, to)' = KeptSince(s, m, to)
  BY <1>1 DEF KeptSince, KeptWithin
<1>7. GatewayTypes'
  <2>1. Minute(l) \in 0..LastMinute
    BY <1>2
  <2>2. tellings' \subseteq (Faulty \cup {"new"}) \X (0..LastMinute)
    <3>1. <<Status(l), Minute(l)>> \in (Faulty \cup {"new"}) \X (0..LastMinute)
      BY <1>2, <2>1
    <3>2. tellings \subseteq (Faulty \cup {"new"}) \X (0..LastMinute)
      BY <1>0 DEF GatewayTypes
    <3>. QED  BY <1>3, <3>1, <3>2
  <2>. QED  BY <1>0, <1>1, <1>4, <2>2 DEF GatewayTypes, TurnType
<1>8. \A q \in Drainer, k \in LogLine, what \in {"counts", "tells burst"} :
         AtLine(q, k, what)' => AtLine(q, k, what)
  BY <1>4 DEF AtLine
<1>9. CountsLast'
  BY <1>1, <1>5, <1>8 DEF GatewayInv, CountsLast
<1>10. Working("tells burst", Status(l), Minute(l))
  BY <1>1, <1>2 DEF Working, AtLine
<1>11. \A s, m : Working("tells burst", s, m)' => Working("tells burst", s, m)
  BY <1>5, <1>8 DEF Working
<1>12. BurstsReal'
  <2>. SUFFICES ASSUME NEW s \in Faulty, NEW m \in 1..LastMinute,
                       <<s, m>> \in tellings' \/ Working("tells burst", s, m)'
                PROVE  /\ KeptSince(s, m, LastMinute) >= BurstLevel
                       /\ orderly => KeptSince(s, m, m) >= BurstLevel
    BY <1>1, <1>6 DEF BurstsReal
  <2>1. <<s, m>> \in tellings \/ Working("tells burst", s, m)
    BY <1>3, <1>10, <1>11
  <2>. QED  BY <2>1 DEF GatewayInv, BurstsReal
<1>13. ASSUME NEW s, NEW n, HeardBy(s, n)
       PROVE  HeardBy(s, n)'
  <2>1. CASE <<s, n>> \in tellings
    BY <1>3, <2>1 DEF HeardBy
  <2>2. CASE Working("tells burst", s, n)
    <3>1. PICK q \in Drainer, k \in LogLine : AtLine(q, k, "tells burst") /\ Status(k) = s /\ Minute(k) = n
      BY <2>2 DEF Working
    <3>2. CASE q = d
      <4>1. k = l
        BY <1>2, <3>1, <3>2 DEF AtLine
      <4>. QED  BY <1>3, <3>1, <4>1 DEF HeardBy
    <3>3. CASE q # d
      <4>1. AtLine(q, k, "tells burst")'
        BY <1>4, <3>1, <3>3 DEF AtLine
      <4>. QED  BY <1>5, <3>1, <4>1 DEF HeardBy, Working
    <3>. QED  BY <3>2, <3>3
  <2>3. CASE Working("counts", s, n) /\ KeptSince(s, n, n) = BurstLevel
    <3>1. PICK q \in Drainer, k \in LogLine : AtLine(q, k, "counts") /\ Status(k) = s /\ Minute(k) = n
      BY <2>3 DEF Working
    <3>2. q # d
      BY <1>1, <3>1 DEF AtLine
    <3>3. AtLine(q, k, "counts")'
      BY <1>4, <3>1, <3>2 DEF AtLine
    <3>4. Working("counts", s, n)'
      BY <1>5, <3>1, <3>3 DEF Working
    <3>. QED  BY <1>6, <2>3, <3>4 DEF HeardBy
  <2>. QED  BY <1>13, <2>1, <2>2, <2>3 DEF HeardBy
<1>14. BurstsHeard'
  BY <1>1, <1>6, <1>13 DEF GatewayInv, BurstsHeard
<1>15. NewsTold'
  <2>1. \A q \in Drainer : turn[q].doing = "tells new" => turn'[q] = turn[q]
    BY <1>1, <1>4
  <2>2. tellings \subseteq tellings'
    BY <1>3
  <2>. QED  BY <1>1, <2>1, <2>2 DEF GatewayInv, NewsTold
<1>. QED  BY <1>4, <1>7, <1>9, <1>12, <1>14, <1>15 DEF GatewayInv

LEMMA GatewayStarts == GatewayInit => GatewayInv
<1>. SUFFICES ASSUME GatewayInit PROVE GatewayInv
  OBVIOUS
<1>1. PICK lines \in [LogLine -> [minute : 1..LastMinute, status : Faulty \cup {"other"}]] : GatewayRests(lines)
  BY DEF GatewayInit
<1>2. /\ accessLog = lines /\ known = FALSE /\ kept = {} /\ tellings = {}
      /\ turn = [d \in Drainer |-> NoTurn] /\ lapses = 0 /\ newUntold = FALSE /\ orderly = TRUE
  BY <1>1 DEF GatewayRests
<1>3. \A d \in Drainer : turn[d] = NoTurn /\ turn[d].line = {}
  BY <1>2, EmptyTurn
<1>4. GatewayTypes
  <2>1. 0 \in 0..MaxCuts
    BY GatewayAssumption
  <2>. QED  BY <1>1, <1>2, <2>1, EmptyTurn DEF GatewayTypes
<1>5. \A d \in Drainer, l \in LogLine : \A what : ~AtLine(d, l, what)
  BY <1>3 DEF AtLine
<1>6. BurstsHeard
  <2>. SUFFICES ASSUME NEW s \in Faulty, NEW m \in 1..LastMinute PROVE ~(KeptSince(s, m, m) >= BurstLevel)
    BY DEF BurstsHeard
  <2>1. KeptWithin(s, m - BurstSpan, m) = {}
    BY <1>2 DEF KeptWithin
  <2>2. KeptSince(s, m, m) = 0
    BY <2>1, FS_EmptySet DEF KeptSince
  <2>. QED  BY <2>2, BurstNat
<1>. QED  BY <1>2, <1>3, <1>4, <1>5, <1>6 DEF GatewayInv, TurnInPlace, CountsLast, BurstsReal, Working, NewsTold

LEMMA GatewayRestKept == GatewayInv /\ UNCHANGED gatewayVars => GatewayInv'
<1>. SUFFICES ASSUME GatewayInv, UNCHANGED gatewayVars PROVE GatewayInv'
  OBVIOUS
<1>0. UNCHANGED <<accessLog, known, kept, turn, tellings, lapses, newUntold, orderly>>
  BY DEF gatewayVars
<1>1. GatewayTypes' /\ (\A d \in Drainer : TurnInPlace(d)')
  BY <1>0 DEF GatewayInv, GatewayTypes, TurnInPlace, Status
<1>2. \A s, m, to : KeptSince(s, m, to)' = KeptSince(s, m, to)
  BY <1>0 DEF KeptSince, KeptWithin
<1>3. \A what, s, m : Working(what, s, m)' <=> Working(what, s, m)
  BY <1>0 DEF Working, AtLine, Status, Minute
<1>4. CountsLast'
  BY <1>0 DEF GatewayInv, CountsLast, AtLine, Minute
<1>5. BurstsReal'
  BY <1>0, <1>2, <1>3 DEF GatewayInv, BurstsReal
<1>6. BurstsHeard'
  BY <1>0, <1>2, <1>3 DEF GatewayInv, BurstsHeard, HeardBy
<1>7. NewsTold'
  BY <1>0 DEF GatewayInv, NewsTold
<1>. QED  BY <1>1, <1>4, <1>5, <1>6, <1>7 DEF GatewayInv

LEMMA GatewayStep == GatewayInv /\ GatewayNext => GatewayInv'
<1>. SUFFICES ASSUME GatewayInv, NEW d \in Drainer,
                     \/ \E l \in LogLine : Receives(d, l)
                     \/ SourceRecorded(d) \/ SourceTold(d) \/ FailureKept(d)
                     \/ FailuresCounted(d) \/ BurstTold(d)
                     \/ ProjectionSkipped(d) \/ DrainerCut(d)
              PROVE  GatewayInv'
  BY DEF GatewayNext
<1>1. CASE \E l \in LogLine : Receives(d, l)
  BY <1>1, ReceivesKept
<1>2. CASE SourceRecorded(d)
  BY <1>2, RecordedKept
<1>3. CASE SourceTold(d)
  BY <1>3, NewToldKept
<1>4. CASE FailureKept(d)
  BY <1>4, KeptKept
<1>5. CASE FailuresCounted(d)
  BY <1>5, CountedKept
<1>6. CASE BurstTold(d)
  BY <1>6, BurstToldKept
<1>7. CASE ProjectionSkipped(d)
  BY <1>7, SkippedKept
<1>8. CASE DrainerCut(d)
  BY <1>8, CutKept
<1>. QED  BY <1>1, <1>2, <1>3, <1>4, <1>5, <1>6, <1>7, <1>8

LEMMA GatewayCovers == GatewayInv => GatewayTypeOK /\ GatewayTold
<1>. SUFFICES ASSUME GatewayInv PROVE GatewayTypeOK /\ GatewayTold
  OBVIOUS
<1>0. GatewayTypes /\ \A d \in Drainer : TurnInPlace(d)
  BY DEF GatewayInv
<1>1. GatewayTypeOK
  <2>1. \A d \in Drainer : turn[d].line \in {x \in SUBSET LogLine : Cardinality(x) <= 1}
    <3>. SUFFICES ASSUME NEW d \in Drainer PROVE turn[d].line \in {x \in SUBSET LogLine : Cardinality(x) <= 1}
      OBVIOUS
    <3>0. TurnInPlace(d)
      BY <1>0
    <3>1. CASE turn[d] = NoTurn
      <4>1. turn[d].line = {}
        BY <3>1, EmptyTurn
      <4>2. Cardinality(turn[d].line) = 0
        BY <4>1, FS_EmptySet
      <4>3. turn[d].line \in SUBSET LogLine
        BY <4>1
      <4>. QED  BY <4>2, <4>3
    <3>2. CASE \E l \in LogLine : turn[d].line = {l}
      <4>1. PICK l \in LogLine : turn[d].line = {l}
        BY <3>2
      <4>2. Cardinality({l}) = 1
        BY FS_Singleton
      <4>. QED  BY <4>1, <4>2
    <3>. QED  BY <3>0, <3>1, <3>2 DEF TurnInPlace
  <2>. DEFINE One == {x \in SUBSET LogLine : Cardinality(x) <= 1}
  <2>. HIDE DEF One
  <2>2. \A d \in Drainer : turn[d] \in [line : One, next : 1..2, doing : {"starts", "tells new", "counts", "tells burst"}]
    <3>. SUFFICES ASSUME NEW d \in Drainer
                  PROVE turn[d] \in [line : One, next : 1..2, doing : {"starts", "tells new", "counts", "tells burst"}]
      OBVIOUS
    <3>1. turn[d] \in [line : SUBSET LogLine, next : 1..2, doing : {"starts", "tells new", "counts", "tells burst"}]
      BY <1>0 DEF GatewayTypes
    <3>2. turn[d].line \in One
      BY <2>1 DEF One
    <3>. QED  BY <3>1, <3>2
  <2>3. turn \in [Drainer -> [line : One, next : 1..2, doing : {"starts", "tells new", "counts", "tells burst"}]]
    BY <1>0, <2>2 DEF GatewayTypes
  <2>4. {known, newUntold, orderly} \subseteq BOOLEAN
    BY <1>0 DEF GatewayTypes
  <2>. QED  BY <1>0, <2>3, <2>4 DEF GatewayTypeOK, GatewayTypes, One
<1>2. GatewayTold
  <2>. SUFFICES ASSUME \A d \in Drainer : turn[d] = NoTurn
                PROVE  /\ known => <<"new", 0>> \in tellings \/ newUntold
                       /\ \A s \in Faulty, m \in 1..LastMinute :
                             /\ <<s, m>> \in tellings =>
                                   Cardinality(KeptWithin(s, m - BurstSpan, IF orderly THEN m ELSE LastMinute)) >= BurstLevel
                             /\ orderly /\ Cardinality(KeptWithin(s, m - BurstSpan, m)) >= BurstLevel =>
                                   \E n \in 1..m : <<s, n>> \in tellings
    BY DEF GatewayTold
  <2>1. \A d \in Drainer : turn[d].line = {}
    BY EmptyTurn
  <2>2. \A what, s, m : ~Working(what, s, m)
    BY <2>1 DEF Working, AtLine
  <2>3. known => <<"new", 0>> \in tellings \/ newUntold
    BY <2>1 DEF GatewayInv, NewsTold
  <2>4. ASSUME NEW s \in Faulty, NEW m \in 1..LastMinute
        PROVE  /\ <<s, m>> \in tellings =>
                     Cardinality(KeptWithin(s, m - BurstSpan, IF orderly THEN m ELSE LastMinute)) >= BurstLevel
               /\ orderly /\ Cardinality(KeptWithin(s, m - BurstSpan, m)) >= BurstLevel =>
                     \E n \in 1..m : <<s, n>> \in tellings
    <3>1. <<s, m>> \in tellings => /\ KeptSince(s, m, LastMinute) >= BurstLevel
                                   /\ orderly => KeptSince(s, m, m) >= BurstLevel
      BY DEF GatewayInv, BurstsReal
    <3>2. <<s, m>> \in tellings => KeptSince(s, m, IF orderly THEN m ELSE LastMinute) >= BurstLevel
      <4>1. CASE orderly
        BY <3>1, <4>1
      <4>2. CASE ~orderly
        BY <3>1, <4>2
      <4>. QED  BY <4>1, <4>2
    <3>3. orderly /\ KeptSince(s, m, m) >= BurstLevel => \E n \in 1..m : HeardBy(s, n)
      BY DEF GatewayInv, BurstsHeard
    <3>4. \A n : HeardBy(s, n) => <<s, n>> \in tellings
      BY <2>2 DEF HeardBy
    <3>. QED  BY <3>2, <3>3, <3>4 DEF KeptSince
  <2>. QED  BY <2>3, <2>4
<1>. QED  BY <1>1, <1>2

(* Failures of an address that are counted one at a time and in order are  *)
(* told as a burst by their threshold and not before it, in a log of any   *)
(* length (the drain of gateway logs).                                     *)
THEOREM GatewaysHold == GatewaySpec => [](GatewayTypeOK /\ GatewayTold)
<1>1. GatewayInv /\ [GatewayNext]_gatewayVars => GatewayInv'
  BY GatewayStep, GatewayRestKept
<1>. QED  BY <1>1, GatewayStarts, GatewayCovers, PTL DEF GatewaySpec

-----------------------------------------------------------------------------
(* PerfAlerts.                                                             *)

(* The ages of the breaching reports in a row: the report of this          *)
(* heartbeat is the first of them once it was evaluated.                   *)
Streaks(h) == IF h \in reported /\ ~reading[h].busy THEN 0..(breaching[h] - 1) ELSE 1..breaching[h]
Roomy == Cap >= MinToEval * Cardinality(Host) /\ Streak >= MinToEval

OneOfEach(S) == \A x, y \in S : x.host = y.host /\ x.age = y.age /\ x.age <= Window => x = y
Young(S) == \A x \in S : x.age = 0 => x.host \in reported /\ ~reading[x.host].busy
Streaky(S) == \A x \in S : x.age <= Window /\ x.age \in Streaks(x.host) => x.breached
SamplesKept(S) == OneOfEach(S) /\ Young(S) /\ Streaky(S)

Has(S, h, a) == \E x \in S : x.host = h /\ x.age = a
Present(S, low) == \A h \in Host, a \in low..(MinToEval - 1) : a \in Streaks(h) => Has(S, h, a)

PerfTypes ==
    /\ buffer \subseteq Sample /\ IsFiniteSet(buffer) /\ Cardinality(buffer) <= Cap
    /\ fired \in 0..Throttle /\ alerted \in 0..Throttle
    /\ reported \subseteq Host
    /\ reading \in [Host -> [busy : BOOLEAN, samples : SUBSET Sample, fired : 0..Throttle]]
    /\ \A h \in Host : IsFiniteSet(reading[h].samples) /\ (reading[h].busy => h \in reported)
    /\ breaching \in [Host -> 0..Streak]

StreaksPresent ==
    Roomy => Present(buffer, 0) /\ \A h \in Host : reading[h].busy => Present(reading[h].samples, 1)
AlertsLater == alerted <= fired /\ \A h \in Host : reading[h].busy => alerted <= reading[h].fired
StreaksHeard == Roomy => \A h \in reported : ~reading[h].busy /\ breaching[h] = Streak => alerted < Throttle

PerfInv ==
    /\ PerfTypes
    /\ SamplesKept(buffer) /\ \A h \in Host : reading[h].busy => SamplesKept(reading[h].samples)
    /\ StreaksPresent /\ AlertsLater /\ StreaksHeard

LEMMA PerfNumbers ==
    /\ IsFiniteSet(Host) /\ Window \in Nat /\ Window >= 1 /\ Throttle \in Nat /\ Throttle >= 1
    /\ MinToEval \in Nat /\ MinToEval >= 1 /\ Cap \in Nat /\ Cap >= 1
    /\ Percent \in Nat /\ Percent <= 100 /\ Streak \in Nat /\ Streak = Window + 1
<1>1. Window \in Nat /\ Window >= 1 /\ Throttle \in Nat /\ Throttle >= 1
      /\ MinToEval \in Nat /\ MinToEval >= 1 /\ Cap \in Nat /\ Cap >= 1
  BY PerfAssumption
<1>. QED  BY <1>1, PerfAssumption DEF Streak

(* The samples of a host by which its streak is judged are not trimmed:    *)
(* there is room for as many of each host.                                 *)
LEMMA TrimKeeps ==
    ASSUME NEW S \in SUBSET Sample, IsFiniteSet(S), NEW s \in Sample, s.age <= Window, OneOfEach(S \cup {s}),
           NEW now \in Buffered(S, s)
    PROVE  /\ now \subseteq S \cup {s} /\ s \in now /\ IsFiniteSet(now) /\ Cardinality(now) <= Cap
           /\ \A x \in now : x.age <= Window
           /\ Roomy => \A x \in S \cup {s} : x.age <= MinToEval - 1 => x \in now
<1>. DEFINE recent == {x \in S \cup {s} : x.age <= Window}
<1>1. /\ now \subseteq recent /\ s \in now
      /\ IF Cardinality(recent) <= Cap THEN now = recent ELSE Cardinality(now) = Cap
      /\ \A x \in recent \ now, y \in now : y.age <= x.age
  BY DEF Buffered
<1>2. IsFiniteSet(recent)
  <2>1. IsFiniteSet(S \cup {s})
    BY FS_AddElement
  <2>. QED  BY <2>1, FS_Subset
<1>3. IsFiniteSet(now) /\ Cardinality(now) <= Cap
  <2>1. IsFiniteSet(now)
    BY <1>1, <1>2, FS_Subset
  <2>. HIDE DEF recent
  <2>2. CASE Cardinality(recent) <= Cap
    BY <1>1, <2>1, <2>2
  <2>3. CASE ~(Cardinality(recent) <= Cap)
    <3>1. Cardinality(now) = Cap
      BY <1>1, <2>3
    <3>. QED  BY <2>1, <3>1, PerfNumbers
  <2>. QED  BY <2>2, <2>3
<1>4. now \subseteq S \cup {s} /\ \A x \in now : x.age <= Window
  BY <1>1
<1>5. ASSUME Roomy, NEW x \in S \cup {s}, x.age <= MinToEval - 1, x \notin now
      PROVE  FALSE
  <2>0. \A y \in S \cup {s} : y.age \in 0..(Window + 1) /\ y.host \in Host
    BY DEF Sample
  <2>1. x \in recent
    BY <1>5, <2>0, PerfNumbers DEF Roomy
  <2>2. Cardinality(now) = Cap /\ \A y \in now : y.age <= x.age
    BY <1>1, <1>5, <2>1
  <2>. DEFINE L == now \cup {x}
              R == (0..(MinToEval - 1)) \X Host
              f == [y \in L |-> <<y.age, y.host>>]
  <2>3. IsFiniteSet(L) /\ Cardinality(L) = Cap + 1
    BY <1>3, <1>5, <2>2, FS_AddElement
  <2>4. IsFiniteSet(R) /\ Cardinality(R) = MinToEval * Cardinality(Host)
    <3>1. 0 \in Int /\ MinToEval - 1 \in Int /\ ~(0 > MinToEval - 1) /\ (MinToEval - 1) - 0 + 1 = MinToEval
      BY PerfNumbers
    <3>2. IsFiniteSet(0..(MinToEval - 1))
          /\ Cardinality(0..(MinToEval - 1)) =
                IF 0 > MinToEval - 1 THEN 0 ELSE (MinToEval - 1) - 0 + 1
      BY <3>1, FS_Interval, Zenon
    <3>3. IsFiniteSet(0..(MinToEval - 1)) /\ Cardinality(0..(MinToEval - 1)) = MinToEval
      BY <3>1, <3>2
    <3>. QED  BY <3>3, PerfNumbers, FS_Product
  <2>5. Cardinality(R) < Cardinality(L)
    <3>1. Cardinality(R) <= Cap /\ Cardinality(R) \in Nat
      BY <1>5, <2>4, FS_CardinalityType DEF Roomy
    <3>. HIDE DEF R, L
    <3>. QED  BY <2>3, <3>1, PerfNumbers
  <2>6. \A y \in L : y.age \in 0..(MinToEval - 1) /\ y.host \in Host /\ y.age <= Window
    <3>. TAKE y \in L
    <3>1. y \in S \cup {s}
      BY <1>1
    <3>2. y.age <= x.age
      BY <2>0, <2>2
    <3>. QED  BY <1>5, <2>0, <3>1, <3>2, PerfNumbers DEF Roomy
  <2>7. f \in [L -> R]
    BY <2>6
  <2>8. PICK y \in L, z \in L : y # z /\ f[y] = f[z]
    <3>. HIDE DEF f, L, R
    <3>. QED  BY <2>3, <2>4, <2>5, <2>7, FS_PigeonHole
  <2>9. y.age = z.age /\ y.host = z.host /\ y \in S \cup {s} /\ z \in S \cup {s}
    BY <1>1, <2>8
  <2>. QED  BY <2>6, <2>8, <2>9 DEF OneOfEach
<1>. QED  BY <1>1, <1>3, <1>4, <1>5

(* A slice with a streak in it fires.                                      *)
LEMMA StreakBreaches ==
    ASSUME NEW now \in SUBSET Sample, IsFiniteSet(now), NEW h,
           \A a \in 0..(MinToEval - 1) : Has(now, h, a),
           \A x \in now : x.host = h => x.breached
    PROVE  Breaches(SliceOf(now, h))
<1>. DEFINE T == SliceOf(now, h)
            D == 0..(MinToEval - 1)
<1>1. T \subseteq now /\ IsFiniteSet(T)
  <2>1. T \subseteq now
    BY DEF SliceOf
  <2>. HIDE DEF T
  <2>. QED  BY <2>1, FS_Subset
<1>2. Cardinality(T) \in Nat
  BY <1>1, FS_CardinalityType
<1>3. {x \in T : x.breached} = T
  BY DEF SliceOf
<1>4. Cardinality(T) >= MinToEval
  <2>. SUFFICES ASSUME ~(Cardinality(T) >= MinToEval) PROVE FALSE
    OBVIOUS
  <2>. DEFINE f == [a \in D |-> CHOOSE x \in T : x.age = a]
  <2>1. \A a \in D : \E x \in T : x.age = a
    BY DEF Has, SliceOf
  <2>. HIDE DEF T
  <2>2. \A a \in D : f[a] \in T /\ f[a].age = a
    BY <2>1
  <2>3. f \in [D -> T]
    BY <2>2
  <2>4. IsFiniteSet(D) /\ Cardinality(D) = MinToEval
    BY PerfNumbers, FS_Interval
  <2>5. Cardinality(T) < Cardinality(D)
    BY <1>2, <2>4, PerfNumbers
  <2>. HIDE DEF f, D
  <2>6. PICK a \in D, c \in D : a # c /\ f[a] = f[c]
    BY <1>1, <2>3, <2>4, <2>5, FS_PigeonHole
  <2>. QED  BY <2>2, <2>6
<1>. HIDE DEF T
<1>5. \A n \in Nat : 100 * n >= Percent * n
  BY PerfNumbers
<1>. QED  BY <1>2, <1>3, <1>4, <1>5 DEF Breaches, T

LEMMA StreaksAre ==
    ASSUME PerfTypes, NEW h \in Host
    PROVE  /\ reading[h].busy => Streaks(h) = 1..breaching[h]
           /\ h \notin reported => Streaks(h) = 1..breaching[h]
           /\ h \in reported /\ ~reading[h].busy => Streaks(h) = 0..(breaching[h] - 1)
           /\ breaching[h] = 0 => Streaks(h) = {}
           /\ Streaks(h) \subseteq Nat /\ breaching[h] \in 0..Streak
<1>1. breaching[h] \in 0..Streak /\ breaching[h] \in Nat
  BY PerfNumbers DEF PerfTypes
<1>. QED  BY <1>1 DEF Streaks

LEMMA ReadKept ==
    ASSUME PerfInv, NEW h \in Host, ReadRule(h)
    PROVE  PerfInv'
<1>0. PerfTypes
  BY DEF PerfInv
<1>1. /\ h \notin reported /\ reported' = reported \cup {h}
      /\ reading' = [reading EXCEPT ![h] = [busy |-> TRUE, samples |-> buffer, fired |-> fired]]
      /\ buffer' = buffer /\ fired' = fired /\ alerted' = alerted /\ breaching' = breaching
  BY DEF ReadRule
<1>2. /\ reading'[h] = [busy |-> TRUE, samples |-> buffer, fired |-> fired]
      /\ \A g \in Host \ {h} : reading'[g] = reading[g]
  BY <1>0, <1>1 DEF PerfTypes
<1>3. PerfTypes'
  <2>1. reading' \in [Host -> [busy : BOOLEAN, samples : SUBSET Sample, fired : 0..Throttle]]
    BY <1>0, <1>1 DEF PerfTypes
  <2>2. \A g \in Host : IsFiniteSet(reading'[g].samples) /\ (reading'[g].busy => g \in reported')
    <3>. TAKE g \in Host
    <3>1. CASE g = h
      BY <1>0, <1>1, <1>2, <3>1 DEF PerfTypes
    <3>2. CASE g # h
      BY <1>0, <1>1, <1>2, <3>2 DEF PerfTypes
    <3>. QED  BY <3>1, <3>2
  <2>. QED  BY <1>0, <1>1, <2>1, <2>2 DEF PerfTypes
<1>4. ~reading[h].busy
  BY <1>0, <1>1 DEF PerfTypes
<1>5. \A g \in Host : Streaks(g)' = Streaks(g)
  <2>. TAKE g \in Host
  <2>1. CASE g = h
    BY <1>1, <1>2, <2>1 DEF Streaks
  <2>2. CASE g # h
    <3>1. g \in reported' <=> g \in reported
      BY <1>1, <2>2
    <3>2. reading'[g] = reading[g]
      BY <1>2, <2>2
    <3>. QED  BY <1>1, <3>1, <3>2 DEF Streaks
  <2>. QED  BY <2>1, <2>2
<1>6. \A S \in SUBSET Sample : SamplesKept(S) => SamplesKept(S)'
  <2>. SUFFICES ASSUME NEW S \in SUBSET Sample, SamplesKept(S) PROVE SamplesKept(S)'
    OBVIOUS
  <2>0. \A x \in S : x.host \in Host
    BY DEF Sample
  <2>1. OneOfEach(S)'
    BY DEF SamplesKept, OneOfEach
  <2>2. Young(S)'
    BY <1>1, <1>2, <2>0 DEF SamplesKept, Young
  <2>3. Streaky(S)'
    BY <1>5, <2>0 DEF SamplesKept, Streaky
  <2>. QED  BY <2>1, <2>2, <2>3 DEF SamplesKept
<1>7. SamplesKept(buffer)'
  <2>1. PICK S \in SUBSET Sample : S = buffer
    BY <1>0 DEF PerfTypes
  <2>2. SamplesKept(S)'
    BY <1>6, <2>1 DEF PerfInv
  <2>. QED  BY <1>1, <2>1, <2>2
<1>8. \A g \in Host : reading'[g].busy => SamplesKept(reading[g].samples)'
  <2>. SUFFICES ASSUME NEW g \in Host, reading'[g].busy PROVE SamplesKept(reading[g].samples)'
    OBVIOUS
  <2>1. CASE g = h
    <3>1. reading'[g].samples = buffer'
      BY <1>1, <1>2, <2>1
    <3>. QED  BY <1>7, <3>1
  <2>2. CASE g # h
    <3>1. PICK S \in SUBSET Sample : S = reading[g].samples
      BY <1>0 DEF PerfTypes
    <3>2. reading'[g] = reading[g]
      BY <1>2, <2>2
    <3>3. SamplesKept(S)'
      BY <1>6, <3>1, <3>2 DEF PerfInv
    <3>. QED  BY <3>1, <3>2, <3>3
  <2>. QED  BY <2>1, <2>2
<1>9. StreaksPresent'
  <2>. SUFFICES ASSUME Roomy
                PROVE  Present(buffer, 0)' /\ \A g \in Host : reading'[g].busy => Present(reading[g].samples, 1)'
    BY DEF StreaksPresent, Roomy
  <2>1. Present(buffer, 0) /\ \A g \in Host : reading[g].busy => Present(reading[g].samples, 1)
    BY DEF PerfInv, StreaksPresent
  <2>2. Present(buffer, 0)'
    BY <1>1, <1>5, <2>1 DEF Present, Has
  <2>3. ASSUME NEW g \in Host, reading'[g].busy PROVE Present(reading[g].samples, 1)'
    <3>1. CASE g = h
      <4>1. reading'[g].samples = buffer
        BY <1>2, <3>1
      <4>2. 1..(MinToEval - 1) \subseteq 0..(MinToEval - 1)
        BY PerfNumbers
      <4>. QED  BY <1>5, <2>1, <4>1, <4>2 DEF Present, Has
    <3>2. CASE g # h
      <4>1. reading'[g] = reading[g]
        BY <1>2, <3>2
      <4>2. Present(reading[g].samples, 1)
        BY <2>1, <2>3, <4>1
      <4>. QED  BY <1>5, <4>1, <4>2 DEF Present, Has
    <3>. QED  BY <3>1, <3>2
  <2>. QED  BY <2>2, <2>3
<1>10. AlertsLater'
  BY <1>1, <1>2 DEF PerfInv, AlertsLater
<1>11. StreaksHeard'
  BY <1>1, <1>2 DEF PerfInv, StreaksHeard, Roomy, Streak
<1>. QED  BY <1>3, <1>7, <1>8, <1>9, <1>10, <1>11 DEF PerfInv

LEMMA EvaluateKept ==
    ASSUME PerfInv, NEW h \in Host, NEW b \in BOOLEAN, NEW saved \in BOOLEAN, Evaluate(h, b, saved)
    PROVE  PerfInv'
<1>0. PerfTypes
  BY DEF PerfInv
<1>1. PICK S \in SUBSET Sample : S = reading[h].samples
  BY <1>0 DEF PerfTypes
<1>2. PICK s : s = [age |-> 0, breached |-> b, host |-> h]
  OBVIOUS
<1>3. s \in Sample /\ s.age = 0 /\ s.breached = b /\ s.host = h /\ s.age <= Window
  BY <1>2, PerfNumbers DEF Sample
<1>4. /\ reading[h].busy /\ reading' = [reading EXCEPT ![h] = NotReading] /\ reported' = reported
      /\ breaching' = [g \in Host |->
             CASE g = h -> IF b /\ saved THEN Older(breaching[g], Streak) ELSE 0
               [] g # h /\ saved /\ g \in Overwritten(h) -> 0
               [] OTHER -> breaching[g]]
  BY DEF Evaluate
<1>5. PICK now \in Buffered(S, s) :
         LET fire == Breaches(SliceOf(now, h)) /\ reading[h].fired >= Throttle
         IN  /\ buffer' = IF saved THEN now ELSE buffer
             /\ fired' = IF saved /\ fire THEN 0 ELSE fired
             /\ alerted' = IF fire THEN 0 ELSE alerted
  BY <1>1, <1>2 DEF Evaluate
<1>. DEFINE fire == Breaches(SliceOf(now, h)) /\ reading[h].fired >= Throttle
<1>6. /\ buffer' = IF saved THEN now ELSE buffer
      /\ fired' = IF saved /\ fire THEN 0 ELSE fired
      /\ alerted' = IF fire THEN 0 ELSE alerted
  BY <1>5
<1>7. ~fire => ~Breaches(SliceOf(now, h)) \/ ~(reading[h].fired >= Throttle)
  OBVIOUS
<1>. HIDE DEF fire
<1>8. /\ ~NotReading.busy /\ NotReading.samples = {} /\ IsFiniteSet({})
      /\ NotReading \in [busy : BOOLEAN, samples : SUBSET Sample, fired : 0..Throttle]
  BY PerfNumbers, FS_EmptySet DEF NotReading
<1>9. reading'[h] = NotReading /\ \A g \in Host \ {h} : reading'[g] = reading[g]
  BY <1>0, <1>4 DEF PerfTypes
<1>10. h \in reported
  BY <1>0, <1>4 DEF PerfTypes
<1>11. SamplesKept(S) /\ SamplesKept(buffer)
  BY <1>1, <1>4 DEF PerfInv
<1>12. \A x \in S : x.host \in Host /\ x.age \in 0..(Window + 1)
  BY DEF Sample
<1>13. \A x \in S : ~(x.host = h /\ x.age = 0)
  BY <1>4, <1>11 DEF SamplesKept, Young
<1>14. OneOfEach(S \cup {s})
  BY <1>3, <1>11, <1>13 DEF SamplesKept, OneOfEach
<1>15. /\ now \subseteq S \cup {s} /\ s \in now /\ IsFiniteSet(now) /\ Cardinality(now) <= Cap
       /\ \A x \in now : x.age <= Window
       /\ Roomy => \A x \in S \cup {s} : x.age <= MinToEval - 1 => x \in now
  <2>1. IsFiniteSet(S)
    BY <1>0, <1>1 DEF PerfTypes
  <2>. QED  BY <1>3, <1>14, <2>1, TrimKeeps
<1>16. now \subseteq Sample
  BY <1>3, <1>15
<1>17. /\ breaching'[h] = IF b /\ saved THEN Older(breaching[h], Streak) ELSE 0
       /\ \A g \in Host \ {h} : breaching'[g] = IF saved /\ g \in Overwritten(h) THEN 0 ELSE breaching[g]
  BY <1>4
<1>18. \A g \in Host : breaching[g] \in 0..Streak
  BY <1>0, StreaksAre
<1>19. breaching' \in [Host -> 0..Streak]
  <2>1. breaching'[h] \in 0..Streak
    BY <1>17, <1>18, PerfNumbers DEF Older
  <2>2. \A g \in Host : breaching'[g] \in 0..Streak
    <3>. TAKE g \in Host
    <3>1. 0 \in 0..Streak
      BY PerfNumbers
    <3>. QED  BY <1>17, <1>18, <2>1, <3>1
  <2>3. breaching' = [g \in Host |-> breaching'[g]]
    BY <1>4
  <2>. QED  BY <2>2, <2>3
<1>20. PerfTypes'
  <2>1. reading' \in [Host -> [busy : BOOLEAN, samples : SUBSET Sample, fired : 0..Throttle]]
    BY <1>0, <1>4, <1>8 DEF PerfTypes
  <2>2. \A g \in Host : IsFiniteSet(reading'[g].samples) /\ (reading'[g].busy => g \in reported')
    BY <1>0, <1>4, <1>8, <1>9 DEF PerfTypes
  <2>3. buffer' \subseteq Sample /\ IsFiniteSet(buffer') /\ Cardinality(buffer') <= Cap
    BY <1>0, <1>6, <1>15, <1>16 DEF PerfTypes
  <2>4. fired' \in 0..Throttle /\ alerted' \in 0..Throttle
    BY <1>0, <1>6, PerfNumbers DEF PerfTypes
  <2>. QED  BY <1>0, <1>4, <1>19, <2>1, <2>2, <2>3, <2>4 DEF PerfTypes
<1>21. \A g \in Host \ {h} : /\ Streaks(g)' = {} \/ Streaks(g)' = Streaks(g)
                             /\ saved /\ g \in Overwritten(h) => Streaks(g)' = {}
  <2>. SUFFICES ASSUME NEW g \in Host \ {h}
                PROVE  /\ Streaks(g)' = {} \/ Streaks(g)' = Streaks(g)
                       /\ saved /\ g \in Overwritten(h) => Streaks(g)' = {}
    OBVIOUS
  <2>1. reading'[g] = reading[g] /\ (g \in reported' <=> g \in reported)
    BY <1>4, <1>9
  <2>2. CASE saved /\ g \in Overwritten(h)
    <3>1. breaching'[g] = 0
      BY <1>17, <2>2
    <3>2. Streaks(g)' = {}
      BY <1>20, <3>1, StreaksAre DEF Streaks
    <3>. QED  BY <3>2
  <2>3. CASE ~(saved /\ g \in Overwritten(h))
    <3>1. breaching'[g] = breaching[g]
      BY <1>17, <2>3
    <3>2. Streaks(g)' = Streaks(g)
      BY <2>1, <3>1 DEF Streaks
    <3>. QED  BY <2>3, <3>2
  <2>. QED  BY <2>2, <2>3
<1>22. Streaks(h)' = 0..(breaching'[h] - 1)
  <2>1. h \in reported' /\ ~reading'[h].busy
    BY <1>4, <1>8, <1>9, <1>10
  <2>. QED  BY <2>1 DEF Streaks
<1>23. /\ ~(b /\ saved) => Streaks(h)' = {}
       /\ \A a \in Streaks(h)' : a = 0 \/ a \in Streaks(h)
  <2>1. ~(b /\ saved) => Streaks(h)' = {}
    <3>. SUFFICES ASSUME ~(b /\ saved) PROVE Streaks(h)' = {}
      OBVIOUS
    <3>1. breaching'[h] = 0
      BY <1>17
    <3>2. 0..(0 - 1) = {}
      OBVIOUS
    <3>. QED  BY <1>22, <3>1, <3>2
  <2>2. Streaks(h) = 1..breaching[h]
    BY <1>0, <1>4, StreaksAre
  <2>3. ASSUME b /\ saved, NEW a \in Streaks(h)' PROVE a = 0 \/ a \in Streaks(h)
    <3>1. breaching'[h] <= breaching[h] + 1 /\ breaching[h] \in Nat /\ breaching'[h] \in Nat
      BY <1>17, <1>18, <2>3, PerfNumbers DEF Older
    <3>2. a \in 0..(breaching'[h] - 1)
      BY <1>22, <2>3
    <3>3. a = 0 \/ a \in 1..breaching[h]
      BY <3>1, <3>2
    <3>. QED  BY <2>2, <3>3
  <2>. QED  BY <2>1, <2>3
<1>24. \A T \in SUBSET Sample : SamplesKept(T) => SamplesKept(T)'
  <2>. SUFFICES ASSUME NEW T \in SUBSET Sample, SamplesKept(T) PROVE SamplesKept(T)'
    OBVIOUS
  <2>0. \A x \in T : x.host \in Host
    BY DEF Sample
  <2>1. OneOfEach(T)'
    BY DEF SamplesKept, OneOfEach
  <2>2. \A x \in T : x.age = 0 => x.host # h
    BY <1>4 DEF SamplesKept, Young
  <2>3. Young(T)'
    BY <1>4, <1>9, <2>0, <2>2 DEF SamplesKept, Young
  <2>4. Streaky(T)'
    <3>. SUFFICES ASSUME NEW x \in T, x.age <= Window, x.age \in Streaks(x.host)' PROVE x.breached
      BY DEF Streaky
    <3>1. CASE x.host = h
      BY <1>23, <2>2, <3>1 DEF SamplesKept, Streaky
    <3>2. CASE x.host # h
      <4>1. x.age \in Streaks(x.host)
        BY <1>21, <2>0, <3>2
      <4>. QED  BY <4>1 DEF SamplesKept, Streaky
    <3>. QED  BY <3>1, <3>2
  <2>. QED  BY <2>1, <2>3, <2>4 DEF SamplesKept
<1>25. SamplesKept(now)'
  <2>0. SamplesKept(S)'
    BY <1>11, <1>24
  <2>1. OneOfEach(now)'
    BY <1>14, <1>15 DEF OneOfEach
  <2>2. Young(now)'
    <3>1. \A x \in S : x.age = 0 => x.host \in reported' /\ ~reading'[x.host].busy
      BY <2>0 DEF SamplesKept, Young
    <3>2. s.host \in reported' /\ ~reading'[s.host].busy
      BY <1>3, <1>4, <1>8, <1>9, <1>10
    <3>. QED  BY <1>15, <3>1, <3>2 DEF Young
  <2>3. Streaky(now)'
    <3>. SUFFICES ASSUME NEW x \in now, x.age <= Window, x.age \in Streaks(x.host)' PROVE x.breached
      BY DEF Streaky
    <3>1. CASE x \in S
      BY <2>0, <3>1 DEF SamplesKept, Streaky
    <3>2. CASE x = s
      BY <1>3, <1>23, <3>2
    <3>. QED  BY <1>15, <3>1, <3>2
  <2>. QED  BY <2>1, <2>2, <2>3 DEF SamplesKept
<1>26. SamplesKept(buffer)'
  <2>1. CASE saved
    BY <1>6, <1>25, <2>1
  <2>2. CASE ~saved
    <3>1. PICK T \in SUBSET Sample : T = buffer
      BY <1>0 DEF PerfTypes
    <3>2. SamplesKept(T)'
      BY <1>11, <1>24, <3>1
    <3>3. buffer' = T
      BY <1>6, <2>2, <3>1
    <3>. QED  BY <3>2, <3>3
  <2>. QED  BY <2>1, <2>2
<1>27. \A g \in Host : reading'[g].busy => SamplesKept(reading[g].samples)'
  <2>. SUFFICES ASSUME NEW g \in Host, reading'[g].busy PROVE SamplesKept(reading[g].samples)'
    OBVIOUS
  <2>1. reading'[g] = reading[g]
    BY <1>8, <1>9
  <2>2. PICK T \in SUBSET Sample : T = reading[g].samples
    BY <1>0 DEF PerfTypes
  <2>3. SamplesKept(T)'
    BY <1>24, <2>1, <2>2 DEF PerfInv
  <2>. QED  BY <2>1, <2>2, <2>3
<1>28. ASSUME Roomy
       PROVE  Present(buffer, 0)'
  <2>0. Present(buffer, 0) /\ Present(S, 1)
    BY <1>1, <1>4, <1>28 DEF PerfInv, StreaksPresent
  <2>. SUFFICES ASSUME NEW g \in Host, NEW a \in 0..(MinToEval - 1), a \in Streaks(g)'
                PROVE  \E x \in buffer' : x.host = g /\ x.age = a
    BY DEF Present, Has
  <2>1. CASE saved
    <3>1. a # 0 => a \in 1..(MinToEval - 1)
      BY PerfNumbers
    <3>2. \E x \in S \cup {s} : x.host = g /\ x.age = a
      <4>1. CASE g = h /\ a = 0
        BY <1>3, <4>1
      <4>2. CASE g = h /\ a # 0
        <5>1. a \in Streaks(g)
          BY <1>23, <4>2
        <5>. QED  BY <2>0, <3>1, <4>2, <5>1 DEF Present, Has
      <4>3. CASE g # h
        <5>1. a \in Streaks(g) /\ g \notin Overwritten(h)
          BY <1>21, <2>1, <4>3
        <5>2. CASE a = 0
          <6>1. Fresh(buffer, g)
            BY <2>0, <5>1, <5>2 DEF Present, Has, Fresh
          <6>2. Fresh(S, g)
            BY <1>1, <5>1, <6>1 DEF Overwritten
          <6>. QED  BY <5>2, <6>2 DEF Fresh
        <5>3. CASE a # 0
          BY <2>0, <3>1, <5>1, <5>3 DEF Present, Has
        <5>. QED  BY <5>2, <5>3
      <4>. QED  BY <4>1, <4>2, <4>3
    <3>3. PICK x \in S \cup {s} : x.host = g /\ x.age = a
      BY <3>2
    <3>4. a <= MinToEval - 1
      BY PerfNumbers
    <3>. QED  BY <1>6, <1>15, <1>28, <2>1, <3>3, <3>4
  <2>2. CASE ~saved
    <3>1. g # h /\ a \in Streaks(g)
      BY <1>21, <1>23, <2>2
    <3>. QED  BY <1>6, <2>0, <2>2, <3>1 DEF Present, Has
  <2>. QED  BY <2>1, <2>2
<1>29. StreaksPresent'
  <2>1. ASSUME Roomy, NEW g \in Host, reading'[g].busy PROVE Present(reading[g].samples, 1)'
    <3>1. g # h /\ reading'[g] = reading[g]
      BY <1>8, <1>9, <2>1
    <3>2. Present(reading[g].samples, 1)
      BY <2>1, <3>1 DEF PerfInv, StreaksPresent
    <3>3. \A q \in Host, a \in 1..(MinToEval - 1) : a \in Streaks(q)' => a \in Streaks(q)
      BY <1>21, <1>23
    <3>. QED  BY <3>1, <3>2, <3>3 DEF Present, Has
  <2>. QED  BY <1>28, <2>1 DEF StreaksPresent, Roomy
<1>30. AlertsLater'
  <2>1. alerted' <= alerted /\ alerted \in Nat /\ alerted' \in Nat /\ alerted' <= fired'
    <3>1. alerted \in Nat /\ fired \in Nat /\ alerted <= fired
      BY <1>0, PerfNumbers DEF PerfTypes, PerfInv, AlertsLater
    <3>2. CASE fire
      BY <1>6, <3>1, <3>2
    <3>3. CASE ~fire
      BY <1>6, <3>1, <3>3
    <3>. QED  BY <3>2, <3>3
  <2>2. ASSUME NEW g \in Host, reading'[g].busy PROVE alerted' <= reading'[g].fired
    <3>1. reading'[g] = reading[g]
      BY <1>8, <1>9, <2>2
    <3>2. alerted <= reading[g].fired /\ reading[g].fired \in Nat
      BY <1>0, <2>2, <3>1, PerfNumbers DEF PerfInv, AlertsLater, PerfTypes
    <3>. QED  BY <2>1, <3>1, <3>2
  <2>. QED  BY <2>1, <2>2 DEF AlertsLater
<1>31. StreaksHeard'
  <2>. SUFFICES ASSUME Roomy, NEW g \in reported', ~reading'[g].busy, breaching'[g] = Streak
                PROVE  alerted' < Throttle
    BY DEF StreaksHeard, Roomy, Streak
  <2>0. g \in Host
    BY <1>20 DEF PerfTypes
  <2>1. CASE fire
    BY <1>6, <2>1, PerfNumbers
  <2>2. CASE ~fire /\ g # h
    <3>1. breaching[g] = Streak /\ ~reading[g].busy
      <4>1. breaching'[g] # 0
        BY PerfNumbers
      <4>. QED  BY <1>9, <1>17, <2>0, <2>2, <4>1
    <3>2. alerted < Throttle
      BY <1>4, <3>1 DEF PerfInv, StreaksHeard
    <3>. QED  BY <1>6, <2>2, <3>2
  <2>3. CASE ~fire /\ g = h
    <3>1. Streaks(h)' = 0..Window
      BY <1>22, <2>3, PerfNumbers
    <3>2. b /\ saved
      <4>1. 0 \in Streaks(h)'
        BY <3>1, PerfNumbers
      <4>. QED  BY <1>23, <4>1
    <3>3. Breaches(SliceOf(now, h))
      <4>1. \A a \in 0..(MinToEval - 1) : Has(now, h, a)
        <5>1. \A a \in 0..(MinToEval - 1) : a \in Streaks(h)'
          BY <3>1, PerfNumbers DEF Roomy
        <5>2. \A a \in 0..(MinToEval - 1) : Has(buffer, h, a)'
          BY <1>28, <5>1 DEF Present
        <5>. QED  BY <1>6, <3>2, <5>2 DEF Has
      <4>2. \A x \in now : x.host = h => x.breached
        <5>. SUFFICES ASSUME NEW x \in now, x.host = h PROVE x.breached
          OBVIOUS
        <5>1. x.age \in 0..(Window + 1) /\ x.age <= Window
          BY <1>15, <1>16 DEF Sample
        <5>2. x.age \in Streaks(h)'
          BY <3>1, <5>1, PerfNumbers
        <5>. QED  BY <1>25, <5>1, <5>2 DEF SamplesKept, Streaky
      <4>. QED  BY <1>15, <1>16, <4>1, <4>2, StreakBreaches
    <3>4. ~(reading[h].fired >= Throttle)
      BY <1>7, <2>3, <3>3
    <3>5. alerted <= reading[h].fired /\ reading[h].fired \in Nat /\ alerted \in Nat
      BY <1>0, <1>4, PerfNumbers DEF PerfInv, AlertsLater, PerfTypes
    <3>. QED  BY <1>6, <2>3, <3>4, <3>5, PerfNumbers
  <2>. QED  BY <2>1, <2>2, <2>3
<1>. QED  BY <1>20, <1>26, <1>27, <1>29, <1>30, <1>31 DEF PerfInv

LEMMA OlderIs ==
    ASSUME NEW cap \in Nat, NEW n \in 0..cap
    PROVE  /\ Older(n, cap) \in 0..cap /\ (n < cap => Older(n, cap) = n + 1) /\ (n = cap => Older(n, cap) = cap)
BY DEF Older

LEMMA TickKept ==
    ASSUME PerfInv, Tick
    PROVE  PerfInv'
<1>0. PerfTypes
  BY DEF PerfInv
<1>. DEFINE aged == [x \in buffer |-> [x EXCEPT !.age = Older(x.age, Window + 1)]]
<1>1. /\ \A h \in Host : ~reading[h].busy
      /\ buffer' = {aged[x] : x \in buffer}
      /\ fired' = Older(fired, Throttle) /\ alerted' = Older(alerted, Throttle)
      /\ breaching' = [h \in Host |-> IF h \in reported THEN breaching[h] ELSE 0]
      /\ reported' = {} /\ reading' = reading
  BY DEF Tick
<1>2. \A x \in buffer : /\ x \in Sample /\ x.age \in 0..(Window + 1) /\ x.host \in Host
                        /\ aged[x] \in Sample /\ aged[x].host = x.host /\ aged[x].breached = x.breached
                        /\ aged[x].age = Older(x.age, Window + 1)
  <2>. SUFFICES ASSUME NEW x \in buffer
                PROVE  /\ x \in Sample /\ x.age \in 0..(Window + 1) /\ x.host \in Host
                       /\ aged[x] \in Sample /\ aged[x].host = x.host /\ aged[x].breached = x.breached
                       /\ aged[x].age = Older(x.age, Window + 1)
    OBVIOUS
  <2>1. x \in Sample
    BY <1>0 DEF PerfTypes
  <2>2. x.age \in 0..(Window + 1)
    BY <2>1 DEF Sample
  <2>3. Older(x.age, Window + 1) \in 0..(Window + 1)
    BY <2>2, OlderIs, PerfNumbers
  <2>4. aged[x] = [x EXCEPT !.age = Older(x.age, Window + 1)]
    OBVIOUS
  <2>. HIDE DEF aged
  <2>. QED  BY <2>1, <2>2, <2>3, <2>4 DEF Sample
<1>3. aged \in [buffer -> buffer'] /\ \A y \in buffer' : \E x \in buffer : aged[x] = y
  BY <1>1
<1>. HIDE DEF aged
<1>4. \A x \in buffer : aged[x].age <= Window => x.age \in Nat /\ aged[x].age = x.age + 1 /\ x.age <= Window
  <2>. SUFFICES ASSUME NEW x \in buffer, aged[x].age <= Window
                PROVE  x.age \in Nat /\ aged[x].age = x.age + 1 /\ x.age <= Window
    OBVIOUS
  <2>1. x.age \in 0..(Window + 1) /\ Window + 1 \in Nat
    BY <1>2, PerfNumbers
  <2>2. /\ x.age < Window + 1 => Older(x.age, Window + 1) = x.age + 1
        /\ x.age = Window + 1 => Older(x.age, Window + 1) = Window + 1
    BY <2>1, OlderIs
  <2>3. aged[x].age = Older(x.age, Window + 1)
    BY <1>2
  <2>. QED  BY <2>1, <2>2, <2>3, PerfNumbers
<1>5. PerfTypes'
  <2>1. aged \in Surjection(buffer, buffer')
    BY <1>3 DEF Surjection
  <2>2. IsFiniteSet(buffer') /\ Cardinality(buffer') <= Cardinality(buffer)
    BY <1>0, <2>1, FS_Surjection DEF PerfTypes
  <2>3. Cardinality(buffer') <= Cap
    <3>1. Cardinality(buffer') \in Nat /\ Cardinality(buffer) \in Nat /\ Cardinality(buffer) <= Cap
      BY <1>0, <2>2, FS_CardinalityType DEF PerfTypes
    <3>. QED  BY <2>2, <3>1, PerfNumbers
  <2>4. buffer' \subseteq Sample
    BY <1>2, <1>3
  <2>5. fired' \in 0..Throttle /\ alerted' \in 0..Throttle
    BY <1>0, <1>1, OlderIs, PerfNumbers DEF PerfTypes
  <2>6. breaching' \in [Host -> 0..Streak]
    <3>1. 0 \in 0..Streak
      BY PerfNumbers
    <3>. QED  BY <1>0, <1>1, <3>1 DEF PerfTypes
  <2>. QED  BY <1>0, <1>1, <2>2, <2>3, <2>4, <2>5, <2>6 DEF PerfTypes
<1>6. ASSUME NEW h \in Host, NEW a \in Streaks(h)'
      PROVE  a \in Nat /\ a >= 1 /\ a - 1 \in Streaks(h)
  <2>1. Streaks(h)' = 1..breaching'[h]
    BY <1>1 DEF Streaks
  <2>2. breaching'[h] = (IF h \in reported THEN breaching[h] ELSE 0) /\ breaching[h] \in Nat
    BY <1>0, <1>1, StreaksAre, PerfNumbers
  <2>3. a \in 1..breaching'[h]
    BY <1>6, <2>1
  <2>4. h \in reported /\ a \in 1..breaching[h]
    BY <2>2, <2>3
  <2>5. Streaks(h) = 0..(breaching[h] - 1)
    BY <1>1, <2>4 DEF Streaks
  <2>. QED  BY <2>2, <2>4, <2>5
<1>7. SamplesKept(buffer)'
  <2>1. OneOfEach(buffer)'
    <3>. SUFFICES ASSUME NEW u \in buffer', NEW v \in buffer', u.host = v.host, u.age = v.age, u.age <= Window
                  PROVE  u = v
      BY DEF OneOfEach
    <3>1. PICK x \in buffer, y \in buffer : aged[x] = u /\ aged[y] = v
      BY <1>3
    <3>2. x.age \in Nat /\ y.age \in Nat /\ x.age = y.age /\ x.age <= Window
      BY <1>4, <3>1
    <3>3. x.host = y.host
      BY <1>2, <3>1
    <3>4. x = y
      BY <3>2, <3>3 DEF PerfInv, SamplesKept, OneOfEach
    <3>. QED  BY <3>1, <3>4
  <2>2. Young(buffer)'
    <3>. SUFFICES ASSUME NEW u \in buffer', u.age = 0 PROVE FALSE
      BY DEF Young
    <3>1. PICK x \in buffer : aged[x] = u
      BY <1>3
    <3>2. x.age \in Nat /\ 0 = x.age + 1
      BY <1>4, <3>1, PerfNumbers
    <3>. QED  BY <3>2
  <2>3. Streaky(buffer)'
    <3>. SUFFICES ASSUME NEW u \in buffer', u.age <= Window, u.age \in Streaks(u.host)' PROVE u.breached
      BY DEF Streaky
    <3>1. PICK x \in buffer : aged[x] = u
      BY <1>3
    <3>2. x.age \in Nat /\ u.age = x.age + 1 /\ x.age <= Window
      BY <1>4, <3>1
    <3>3. x.host = u.host /\ x.host \in Host /\ u.breached = x.breached
      BY <1>2, <3>1
    <3>4. u.age - 1 \in Streaks(x.host)
      BY <1>6, <3>3
    <3>5. x.age \in Streaks(x.host)
      <4>1. u.age - 1 = x.age
        BY <3>2
      <4>. QED  BY <3>4, <4>1
    <3>. QED  BY <3>2, <3>3, <3>5 DEF PerfInv, SamplesKept, Streaky
  <2>. QED  BY <2>1, <2>2, <2>3 DEF SamplesKept
<1>8. \A h \in Host : ~reading'[h].busy
  BY <1>1
<1>9. StreaksPresent'
  <2>. SUFFICES ASSUME Roomy, NEW h \in Host, NEW a \in 0..(MinToEval - 1), a \in Streaks(h)'
                PROVE  Has(buffer, h, a)'
    BY <1>1 DEF StreaksPresent, Roomy, Present
  <2>1. a \in Nat /\ a >= 1 /\ a - 1 \in Streaks(h)
    BY <1>6
  <2>2. a - 1 \in 0..(MinToEval - 1)
    BY <2>1, PerfNumbers
  <2>3. PICK x \in buffer : x.host = h /\ x.age = a - 1
    BY <2>1, <2>2 DEF PerfInv, StreaksPresent, Present, Has
  <2>4. x.age < Window + 1 /\ x.age \in 0..(Window + 1)
    <3>1. a <= Window
      BY PerfNumbers DEF Roomy
    <3>. QED  BY <1>2, <2>1, <2>3, <3>1, PerfNumbers
  <2>5. aged[x].age = a
    <3>1. Older(x.age, Window + 1) = x.age + 1
      BY <2>4, OlderIs, PerfNumbers
    <3>. QED  BY <1>2, <2>1, <2>3, <3>1
  <2>6. aged[x].host = h /\ aged[x] \in buffer'
    BY <1>2, <1>3, <2>3
  <2>. QED  BY <2>5, <2>6 DEF Has
<1>10. AlertsLater'
  <2>1. alerted \in 0..Throttle /\ fired \in 0..Throttle /\ alerted <= fired
    BY <1>0 DEF PerfTypes, PerfInv, AlertsLater
  <2>2. alerted' <= fired'
    BY <1>1, <2>1, PerfNumbers DEF Older
  <2>. QED  BY <1>1, <2>2 DEF AlertsLater
<1>11. StreaksHeard'
  BY <1>1 DEF StreaksHeard
<1>. QED  BY <1>5, <1>7, <1>8, <1>9, <1>10, <1>11 DEF PerfInv

LEMMA PerfStarts == PerfInit => PerfInv
<1>. SUFFICES ASSUME PerfInit PROVE PerfInv
  OBVIOUS
<1>1. /\ buffer = {} /\ fired = Throttle /\ alerted = Throttle
      /\ reported = {} /\ reading = [h \in Host |-> NotReading] /\ breaching = [h \in Host |-> 0]
  BY DEF PerfInit
<1>2. /\ ~NotReading.busy /\ NotReading.samples = {}
      /\ NotReading \in [busy : BOOLEAN, samples : SUBSET Sample, fired : 0..Throttle]
  BY PerfNumbers DEF NotReading
<1>3. \A h \in Host : ~reading[h].busy /\ reading[h].samples = {}
  BY <1>1, <1>2
<1>4. PerfTypes
  <2>1. IsFiniteSet({}) /\ Cardinality({}) = 0
    BY FS_EmptySet
  <2>2. Cardinality(buffer) <= Cap
    BY <1>1, <2>1, PerfNumbers
  <2>3. Throttle \in 0..Throttle /\ 0 \in 0..Streak
    BY PerfNumbers
  <2>. QED  BY <1>1, <1>2, <1>3, <2>1, <2>2, <2>3 DEF PerfTypes
<1>5. SamplesKept(buffer) /\ \A h \in Host : SamplesKept(reading[h].samples)
  BY <1>1, <1>3 DEF SamplesKept, OneOfEach, Young, Streaky
<1>6. \A h \in Host : Streaks(h) = {}
  BY <1>1, <1>4, StreaksAre
<1>7. StreaksPresent
  BY <1>3, <1>6 DEF StreaksPresent, Present
<1>8. AlertsLater
  <2>1. Throttle <= Throttle
    BY PerfNumbers
  <2>. QED  BY <1>1, <1>3, <2>1 DEF AlertsLater
<1>9. StreaksHeard
  BY <1>1 DEF StreaksHeard
<1>. QED  BY <1>4, <1>5, <1>7, <1>8, <1>9 DEF PerfInv

LEMMA PerfRests == PerfInv /\ UNCHANGED perfVars => PerfInv'
BY DEF perfVars, PerfInv, PerfTypes, SamplesKept, OneOfEach, Young, Streaky, Streaks, StreaksPresent,
       Present, Has, AlertsLater, StreaksHeard, Roomy

LEMMA PerfStep == PerfInv /\ PerfNext => PerfInv'
BY ReadKept, EvaluateKept, TickKept DEF PerfNext

LEMMA PerfCovers == PerfInv => PerfTypeOK /\ PerfHeard
<1>. SUFFICES ASSUME PerfInv PROVE PerfTypeOK /\ PerfHeard
  OBVIOUS
<1>1. {fired, alerted} \subseteq 0..Throttle
  BY DEF PerfInv, PerfTypes
<1>. QED  BY <1>1 DEF PerfInv, PerfTypes, PerfTypeOK, PerfHeard, StreaksHeard, Roomy

(* A host that breached through a whole window has been heard of, for any  *)
(* fleet that the buffer has room for (_evaluate_one).                     *)
THEOREM PerfHolds == PerfSpec => [](PerfTypeOK /\ PerfHeard)
<1>1. PerfInv /\ [PerfNext]_perfVars => PerfInv'
  BY PerfStep, PerfRests
<1>. QED  BY <1>1, PerfStarts, PerfCovers, PTL DEF PerfSpec

-----------------------------------------------------------------------------
(* BruteForce.                                                             *)

BruteTypes ==
    /\ attempts \in Seq(Age) /\ Len(attempts) <= MaxAttempts
    /\ raisedAt \in Age \cup {Never}
    /\ watcher \in [Observer -> [at : {"idle", "waiting", "storing"}, now : 0..MaxStall]]
    /\ burstTold \in BOOLEAN /\ burstLost \in BOOLEAN
    /\ spread \in Age

(* A later attempt is no older than an earlier one by more than a wait.    *)
InTurn(deque) == \A i, j \in DOMAIN deque : i < j => deque[j] <= deque[i] + MaxStall

BurstAfter(i) == {j \in DOMAIN attempts : attempts[j] \in attempts[i]..(attempts[i] + WindowSec)}
BurstsRaise ==
    \A i \in DOMAIN attempts :
        Cardinality(BurstAfter(i)) >= Threshold /\ attempts[i] + WindowSec + MaxStall < Horizon
            => raisedAt < attempts[i] + WindowSec + MaxStall
RaisedAccounted ==
    raisedAt # Never => burstTold \/ burstLost \/ \E o \in Observer : watcher[o].at = "storing"

BruteInv ==
    /\ BruteTypes /\ InTurn(attempts) /\ BurstsRaise /\ RaisedAccounted
    /\ spread <= WindowSec + MaxStall

LEMMA BruteBounds ==
    /\ MaxStall \in Nat /\ WindowSec \in Nat /\ WindowSec >= 1 /\ Threshold \in Nat /\ Threshold >= 1
    /\ Horizon \in Nat /\ Never \in Nat /\ Horizon = WindowSec + 2 * MaxStall + 1 /\ Never = Horizon + 1
    /\ MaxAttempts \in Nat /\ MaxAttempts >= 1 /\ Age \subseteq Nat /\ 0 \in Age
    /\ \A a : a \in Age <=> a \in Nat /\ a <= Horizon
<1>1. MaxStall \in Nat /\ WindowSec \in Nat /\ WindowSec >= 1 /\ Threshold \in Nat /\ Threshold >= 1
      /\ MaxAttempts \in Nat /\ MaxAttempts >= 1
  BY BruteForceAssumption
<1>. QED  BY <1>1 DEF Horizon, Never, Age

LEMMA BruteNumbers ==
    /\ MaxStall \in Nat /\ WindowSec \in Nat /\ WindowSec >= 1 /\ Threshold \in Nat /\ Threshold >= 1
    /\ Horizon \in Nat /\ Horizon = WindowSec + 2 * MaxStall + 1
BY BruteBounds

LEMMA RestTyped == NoneAtWork \in [Observer -> [at : {"idle", "waiting", "storing"}, now : 0..MaxStall]]
BY BruteNumbers DEF NoneAtWork

LEMMA FirstOf ==
    ASSUME NEW T \in SUBSET Nat, T # {}
    PROVE  \E x \in T : \A y \in T : x <= y
<1>. DEFINE R == OpToRel(<, Nat)
<1>1. IsWellFoundedOn(R, Nat)
  BY NatLessThanWellFounded
<1>2. \A x, y \in Nat : x < y => <<x, y>> \in R
  BY DEF OpToRel
<1>. HIDE DEF R
<1>3. PICK x \in T : \A y \in T : ~(<<y, x>> \in R)
  BY <1>1, WFMin
<1>4. ASSUME NEW y \in T PROVE x <= y
  <2>1. x \in Nat /\ y \in Nat
    OBVIOUS
  <2>2. ~(y < x)
    BY <1>2, <1>3, <2>1
  <2>. QED  BY <2>1, <2>2
<1>. QED  BY <1>4

(* What the pruning leaves is in turn and within the window, give or take  *)
(* a wait.                                                                 *)
LEMMA PrunedIs ==
    ASSUME BruteTypes, InTurn(attempts), NEW now \in 0..MaxStall
    PROVE  /\ Pruned(now) \in Seq(Age) /\ InTurn(Pruned(now))
           /\ \A i \in DOMAIN Pruned(now) : Pruned(now)[i] <= now + WindowSec + MaxStall
<1>. DEFINE recent == {i \in DOMAIN attempts : attempts[i] - now <= WindowSec}
<1>1. /\ attempts \in Seq(Age) /\ Len(attempts) \in Nat /\ DOMAIN attempts = 1..Len(attempts)
      /\ \A i \in 1..Len(attempts) : attempts[i] \in Nat /\ attempts[i] \in Age
  BY BruteBounds DEF BruteTypes
<1>2. CASE recent = {}
  <2>1. Pruned(now) = <<>>
    BY <1>2 DEF Pruned
  <2>. QED  BY <2>1 DEF InTurn
<1>3. CASE recent # {}
  <2>. DEFINE f == CHOOSE i \in recent : \A j \in recent : i <= j
  <2>1. recent \in SUBSET Nat
    BY <1>1
  <2>. HIDE DEF recent
  <2>2. f \in recent
    BY <1>3, <2>1, FirstOf
  <2>3. Pruned(now) = SubSeq(attempts, f, Len(attempts))
    BY <1>3 DEF Pruned, recent
  <2>. HIDE DEF f
  <2>4. f \in 1..Len(attempts) /\ attempts[f] - now <= WindowSec
    BY <1>1, <2>2 DEF recent
  <2>. DEFINE P == SubSeq(attempts, f, Len(attempts))
              n == Len(attempts) - f + 1
  <2>5. P \in Seq(Age) /\ Len(P) = n /\ \A i \in 1..n : P[i] = attempts[f + i - 1]
    <3>1. f \in Int /\ Len(attempts) \in Int /\ f <= Len(attempts)
      BY <1>1, <2>4
    <3>2. \A i \in f..Len(attempts) : attempts[i] \in Age
      BY <1>1, <2>4
    <3>. QED  BY <3>1, <3>2, SubSeqProperties
  <2>. HIDE DEF P
  <2>6. DOMAIN P = 1..n
    BY <2>5
  <2>7. \A i \in 1..n : f + i - 1 \in 1..Len(attempts)
    BY <1>1, <2>4
  <2>8. InTurn(P)
    <3>. SUFFICES ASSUME NEW i \in 1..n, NEW j \in 1..n, i < j
                  PROVE  P[j] <= P[i] + MaxStall
      BY <2>6 DEF InTurn
    <3>1. f + i - 1 < f + j - 1
      BY <2>4
    <3>2. attempts[f + j - 1] <= attempts[f + i - 1] + MaxStall
      BY <1>1, <2>7, <3>1 DEF InTurn
    <3>. QED  BY <2>5, <3>2
  <2>9. \A i \in 1..n : P[i] <= now + WindowSec + MaxStall
    <3>. SUFFICES ASSUME NEW i \in 1..n PROVE P[i] <= now + WindowSec + MaxStall
      OBVIOUS
    <3>1. attempts[f + i - 1] <= attempts[f] + MaxStall
      <4>1. CASE i = 1
        BY <1>1, <2>4, <4>1, BruteBounds
      <4>2. CASE i # 1
        <5>1. f < f + i - 1
          BY <2>4, <4>2
        <5>. QED  BY <1>1, <2>4, <2>7, <5>1 DEF InTurn
      <4>. QED  BY <4>1, <4>2
    <3>2. P[i] = attempts[f + i - 1] /\ attempts[f + i - 1] \in Nat /\ attempts[f] \in Nat
      BY <1>1, <2>4, <2>5, <2>7
    <3>. QED  BY <2>4, <3>1, <3>2, BruteBounds, SMTT(20)
  <2>. QED  BY <2>3, <2>5, <2>6, <2>8, <2>9 DEF P
<1>. QED  BY <1>2, <1>3

LEMMA ArriveKept ==
    ASSUME BruteInv, NEW o \in Observer, Arrive(o)
    PROVE  BruteInv'
<1>1. /\ watcher[o].at = "idle" /\ watcher' = [watcher EXCEPT ![o].at = "waiting"]
      /\ UNCHANGED <<attempts, raisedAt, burstTold, burstLost, spread>>
  BY DEF Arrive
<1>2. BruteTypes'
  BY <1>1 DEF BruteInv, BruteTypes
<1>3. BurstsRaise' /\ InTurn(attempts)'
  BY <1>1 DEF BruteInv, BurstsRaise, BurstAfter, InTurn
<1>4. RaisedAccounted'
  <2>1. \A q \in Observer : watcher[q].at = "storing" => watcher'[q].at = "storing"
    BY <1>1 DEF BruteInv, BruteTypes
  <2>. QED  BY <1>1, <2>1 DEF BruteInv, RaisedAccounted
<1>. QED  BY <1>1, <1>2, <1>3, <1>4 DEF BruteInv

LEMMA AlertEnds ==
    ASSUME BruteInv, NEW o \in Observer, AlertStored(o) \/ AlertFails(o)
    PROVE  BruteInv'
<1>1. /\ watcher[o].at = "storing" /\ watcher' = [watcher EXCEPT ![o].at = "idle"]
      /\ UNCHANGED <<attempts, raisedAt, spread>>
      /\ \/ burstTold' = TRUE /\ burstLost' = burstLost
         \/ burstLost' = TRUE /\ burstTold' = burstTold
  BY DEF AlertStored, AlertFails
<1>2. BruteTypes'
  <2>1. burstTold' \in BOOLEAN /\ burstLost' \in BOOLEAN
    BY <1>1 DEF BruteInv, BruteTypes
  <2>. QED  BY <1>1, <2>1 DEF BruteInv, BruteTypes
<1>3. BurstsRaise' /\ InTurn(attempts)'
  BY <1>1 DEF BruteInv, BurstsRaise, BurstAfter, InTurn
<1>4. RaisedAccounted'
  BY <1>1 DEF RaisedAccounted
<1>. QED  BY <1>1, <1>2, <1>3, <1>4 DEF BruteInv

LEMMA CountersLostKept == BruteInv /\ CountersLost => BruteInv'
<1>. SUFFICES ASSUME CountersLost PROVE BruteInv'
  OBVIOUS
<1>1. /\ attempts' = <<>> /\ raisedAt' = Never /\ watcher' = NoneAtWork
      /\ burstTold' = FALSE /\ burstLost' = FALSE /\ spread' = 0
  BY DEF CountersLost
<1>2. BruteTypes'
  <2>1. attempts' \in Seq(Age) /\ Len(attempts') = 0
    BY <1>1
  <2>2. Len(attempts') <= MaxAttempts
    BY <2>1, BruteBounds
  <2>3. spread' \in Age
    BY <1>1, BruteBounds
  <2>. QED  BY <1>1, <2>1, <2>2, <2>3, RestTyped DEF BruteTypes
<1>. QED  BY <1>1, <1>2, BruteBounds DEF BruteInv, BurstsRaise, InTurn, RaisedAccounted

LEMMA SecondKept ==
    ASSUME BruteInv, SecondPasses
    PROVE  BruteInv'
<1>0. BruteTypes
  BY DEF BruteInv
<1>1. /\ \A o \in Observer : watcher[o].at = "waiting" => watcher[o].now < MaxStall
      /\ attempts' = [i \in DOMAIN attempts |-> Aged(attempts[i])]
      /\ raisedAt' = IF raisedAt = Never THEN Never ELSE Aged(raisedAt)
      /\ watcher' = [o \in Observer |-> IF watcher[o].at = "waiting"
                                        THEN [watcher[o] EXCEPT !.now = watcher[o].now + 1] ELSE watcher[o]]
      /\ UNCHANGED <<burstTold, burstLost, spread>>
  BY DEF SecondPasses
<1>2. \A a \in Age : Aged(a) \in Age /\ a \in Nat /\ Aged(a) \in Nat /\ (a < Horizon => Aged(a) = a + 1) /\ (~(a < Horizon) => Aged(a) = a /\ a = Horizon)
  BY BruteBounds DEF Aged
<1>3. /\ Len(attempts) \in Nat /\ DOMAIN attempts = 1..Len(attempts)
      /\ \A i \in DOMAIN attempts : attempts[i] \in Age
  BY <1>0 DEF BruteTypes
<1>4. /\ attempts' \in Seq(Age) /\ Len(attempts') = Len(attempts) /\ DOMAIN attempts' = DOMAIN attempts
      /\ \A i \in DOMAIN attempts : attempts'[i] = Aged(attempts[i])
  BY <1>1, <1>2, <1>3
<1>5. BruteTypes'
  <2>1. watcher' \in [Observer -> [at : {"idle", "waiting", "storing"}, now : 0..MaxStall]]
    <3>. SUFFICES ASSUME NEW o \in Observer
                  PROVE  watcher'[o] \in [at : {"idle", "waiting", "storing"}, now : 0..MaxStall]
      BY <1>1
    <3>0. watcher[o] \in [at : {"idle", "waiting", "storing"}, now : 0..MaxStall]
      BY <1>0 DEF BruteTypes
    <3>1. CASE watcher[o].at = "waiting"
      <4>1. watcher'[o] = [watcher[o] EXCEPT !.now = watcher[o].now + 1]
        BY <1>1, <3>1
      <4>2. watcher[o].now < MaxStall /\ watcher[o].now \in 0..MaxStall
        BY <1>1, <3>0, <3>1
      <4>3. watcher[o].now + 1 \in 0..MaxStall
        BY <4>2, BruteBounds
      <4>. QED  BY <3>0, <4>1, <4>3
    <3>2. CASE watcher[o].at # "waiting"
      BY <1>1, <3>0, <3>2
    <3>. QED  BY <3>1, <3>2
  <2>2. raisedAt' \in Age \cup {Never}
    BY <1>0, <1>1, <1>2 DEF BruteTypes
  <2>. QED  BY <1>0, <1>1, <1>4, <2>1, <2>2 DEF BruteTypes
<1>6. InTurn(attempts)'
  <2>. SUFFICES ASSUME NEW i \in DOMAIN attempts, NEW j \in DOMAIN attempts, i < j
                PROVE  attempts'[j] <= attempts'[i] + MaxStall
    BY <1>4 DEF InTurn
  <2>1. attempts[j] <= attempts[i] + MaxStall
    BY DEF BruteInv, InTurn
  <2>2. /\ attempts[i] \in Age /\ attempts[j] \in Age
        /\ attempts'[i] = Aged(attempts[i]) /\ attempts'[j] = Aged(attempts[j])
    BY <1>3, <1>4
  <2>. QED  BY <1>2, <2>1, <2>2, BruteNumbers
<1>7. BurstsRaise'
  <2>. SUFFICES ASSUME NEW i \in DOMAIN attempts, Cardinality(BurstAfter(i)') >= Threshold,
                       attempts'[i] + WindowSec + MaxStall < Horizon
                PROVE  raisedAt' < attempts'[i] + WindowSec + MaxStall
    BY <1>4 DEF BurstsRaise
  <2>1. /\ attempts[i] \in Nat /\ attempts'[i] = attempts[i] + 1
        /\ attempts[i] + WindowSec + MaxStall < Horizon
    BY <1>2, <1>3, <1>4, BruteNumbers, SMTT(20)
  <2>2. BurstAfter(i)' \subseteq BurstAfter(i)
    <3>. SUFFICES ASSUME NEW j \in DOMAIN attempts, attempts'[j] \in attempts'[i]..(attempts'[i] + WindowSec)
                  PROVE  attempts[j] \in attempts[i]..(attempts[i] + WindowSec)
      BY <1>4 DEF BurstAfter
    <3>1. attempts'[j] = attempts[j] + 1 /\ attempts[j] \in Nat
      <4>1. attempts[j] \in Age /\ attempts'[j] = Aged(attempts[j])
        BY <1>3, <1>4
      <4>2. attempts'[j] <= attempts'[i] + WindowSec
        OBVIOUS
      <4>3. attempts[j] \in Nat /\ Aged(attempts[j]) \in Nat
            /\ (attempts[j] < Horizon => Aged(attempts[j]) = attempts[j] + 1)
            /\ (~(attempts[j] < Horizon) => Aged(attempts[j]) = attempts[j] /\ attempts[j] = Horizon)
        BY <1>2, <4>1
      <4>4. Aged(attempts[j]) < Horizon
        BY <2>1, <4>1, <4>2, <4>3, BruteNumbers
      <4>. QED  BY <4>1, <4>3, <4>4
    <3>. QED  BY <2>1, <3>1, BruteBounds
  <2>3. IsFiniteSet(BurstAfter(i))
    <3>1. BurstAfter(i) \in SUBSET (1..Len(attempts))
      BY <1>3 DEF BurstAfter
    <3>2. IsFiniteSet(1..Len(attempts))
      BY <1>3, FS_Interval
    <3>. QED  BY <3>1, <3>2, FS_Subset
  <2>4. Cardinality(BurstAfter(i)) >= Threshold
    <3>1. Cardinality(BurstAfter(i)') <= Cardinality(BurstAfter(i))
      BY <2>2, <2>3, FS_Subset
    <3>2. Cardinality(BurstAfter(i)) \in Nat /\ Cardinality(BurstAfter(i)') \in Nat
      BY <2>2, <2>3, FS_Subset, FS_CardinalityType
    <3>. QED  BY <3>1, <3>2, BruteBounds
  <2>5. raisedAt < attempts[i] + WindowSec + MaxStall
    BY <2>1, <2>4 DEF BruteInv, BurstsRaise
  <2>6. raisedAt # Never /\ raisedAt \in Age
    BY <1>0, <2>1, <2>5, BruteBounds, SMTT(20) DEF BruteTypes
  <2>7. raisedAt' <= raisedAt + 1 /\ raisedAt \in Nat /\ raisedAt' \in Nat
    BY <1>1, <1>2, <2>6
  <2>. QED  BY <2>1, <2>5, <2>7, BruteBounds
<1>8. RaisedAccounted'
  <2>1. \A o \in Observer : watcher[o].at = "storing" => watcher'[o].at = "storing"
    BY <1>1
  <2>2. raisedAt' # Never => raisedAt # Never
    BY <1>1
  <2>. QED  BY <1>1, <2>1, <2>2 DEF BruteInv, RaisedAccounted
<1>. QED  BY <1>1, <1>5, <1>6, <1>7, <1>8 DEF BruteInv

LEMMA CountKept ==
    ASSUME BruteInv, NEW o \in Observer, CountAttempt(o)
    PROVE  BruteInv'
<1>0. BruteTypes /\ InTurn(attempts)
  BY DEF BruteInv
<1>1. PICK now : now = watcher[o].now
  OBVIOUS
<1>2. now \in 0..MaxStall
  BY <1>0, <1>1 DEF BruteTypes
<1>3. PICK deque : deque = Append(Pruned(now), now)
  OBVIOUS
<1>. DEFINE alerts == Len(deque) >= Threshold /\ ~Suppressed(now)
<1>4. alerts <=> Len(deque) >= Threshold /\ ~Suppressed(now)
  OBVIOUS
<1>5. /\ watcher[o].at = "waiting" /\ Len(deque) <= MaxAttempts
      /\ attempts' = deque
      /\ raisedAt' = IF alerts THEN now ELSE raisedAt
      /\ watcher' = [watcher EXCEPT ![o] = [at |-> IF alerts THEN "storing" ELSE "idle", now |-> 0]]
      /\ burstTold' = (burstTold /\ ~alerts)
      /\ burstLost' = (burstLost /\ ~alerts)
      /\ spread' = IF ~alerts THEN spread
                   ELSE CHOOSE d \in Age :
                            /\ Within(deque, now + d) >= Threshold
                            /\ \A e \in 0..(d - 1) : Within(deque, now + e) < Threshold
  BY <1>1, <1>3 DEF CountAttempt
<1>. HIDE DEF alerts
<1>6. /\ Pruned(now) \in Seq(Age) /\ InTurn(Pruned(now))
      /\ \A i \in DOMAIN Pruned(now) : Pruned(now)[i] <= now + WindowSec + MaxStall
  BY <1>0, <1>2, PrunedIs
<1>7. now \in Nat /\ now <= MaxStall /\ now \in Age
  BY <1>2, BruteBounds
<1>. DEFINE n == Len(Pruned(now)) + 1
<1>8. /\ deque \in Seq(Age) /\ Len(deque) = n /\ n \in Nat /\ DOMAIN deque = 1..n /\ deque[n] = now
      /\ \A i \in 1..n : i # n => i \in DOMAIN Pruned(now) /\ deque[i] = Pruned(now)[i]
  BY <1>3, <1>6, <1>7
<1>9. \A i \in 1..n : deque[i] \in Nat /\ deque[i] \in Age
  BY <1>8, BruteBounds
<1>. HIDE DEF n
<1>10. InTurn(deque)
  <2>. SUFFICES ASSUME NEW i \in 1..n, NEW j \in 1..n, i < j PROVE deque[j] <= deque[i] + MaxStall
    BY <1>8 DEF InTurn
  <2>1. CASE j = n
    BY <1>7, <1>8, <1>9, <2>1, BruteBounds
  <2>2. CASE j # n
    <3>1. i # n
      BY <1>8, <2>2
    <3>. QED  BY <1>6, <1>8, <2>2, <3>1 DEF InTurn
  <2>. QED  BY <2>1, <2>2
<1>11. \A i \in 1..n : deque[i] <= now + WindowSec + MaxStall
  <2>. TAKE i \in 1..n
  <2>1. CASE i = n
    BY <1>7, <1>8, <2>1, BruteBounds
  <2>2. CASE i # n
    BY <1>6, <1>8, <2>2
  <2>. QED  BY <2>1, <2>2
<1>12. BurstsRaise'
  <2>. SUFFICES ASSUME NEW i \in 1..n, Cardinality(BurstAfter(i)') >= Threshold
                PROVE  raisedAt' < deque[i] + WindowSec + MaxStall
    BY <1>5, <1>8 DEF BurstsRaise
  <2>1. n >= Threshold
    <3>1. BurstAfter(i)' \in SUBSET (1..n)
      BY <1>5, <1>8 DEF BurstAfter
    <3>2. IsFiniteSet(1..n) /\ Cardinality(1..n) = n
      BY <1>8, FS_Interval
    <3>3. Cardinality(BurstAfter(i)') <= n /\ Cardinality(BurstAfter(i)') \in Nat
      BY <3>1, <3>2, FS_Subset, FS_CardinalityType
    <3>. QED  BY <1>8, <3>3, BruteBounds
  <2>2. deque[i] \in Nat
    BY <1>9
  <2>3. CASE alerts
    BY <1>5, <1>7, <2>2, <2>3, BruteBounds
  <2>4. CASE ~alerts
    <3>1. raisedAt # Never /\ raisedAt - now < WindowSec
      BY <1>4, <1>8, <2>1, <2>4 DEF Suppressed
    <3>2. raisedAt \in Nat
      BY <1>0, <3>1, BruteBounds DEF BruteTypes
    <3>. QED  BY <1>5, <1>7, <2>2, <2>4, <3>1, <3>2, BruteBounds
  <2>. QED  BY <2>3, <2>4
<1>13. RaisedAccounted'
  <2>1. CASE alerts
    <3>1. watcher'[o] = [at |-> "storing", now |-> 0]
      BY <1>0, <1>5, <2>1 DEF BruteTypes
    <3>. QED  BY <3>1 DEF RaisedAccounted
  <2>2. CASE ~alerts
    <3>1. \A q \in Observer : watcher[q].at = "storing" => watcher'[q] = watcher[q]
      BY <1>0, <1>5 DEF BruteTypes
    <3>. QED  BY <1>5, <2>2, <3>1 DEF BruteInv, RaisedAccounted
  <2>. QED  BY <2>1, <2>2
<1>14. spread' \in Age /\ spread' <= WindowSec + MaxStall
  <2>1. CASE ~alerts
    BY <1>5, <2>1 DEF BruteInv, BruteTypes
  <2>2. CASE alerts
    <3>. DEFINE Enough(d) == Within(deque, now + d) >= Threshold
                all == WindowSec + MaxStall
                T == {d \in Nat : Enough(d)}
    <3>0. all \in Nat /\ all <= Horizon
      BY BruteBounds
    <3>1. Enough(all)
      <4>1. {i \in DOMAIN deque : deque[i] <= now + all} = 1..n
        <5>1. \A i \in 1..n : deque[i] <= now + all
          BY <1>7, <1>9, <1>11, BruteNumbers
        <5>. QED  BY <1>8, <5>1
      <4>2. Cardinality(1..n) = n
        BY <1>8, FS_Interval
      <4>3. n >= Threshold
        BY <1>4, <1>8, <2>2
      <4>4. Within(deque, now + all) = n
        BY <4>1, <4>2 DEF Within
      <4>. QED  BY <4>3, <4>4
    <3>. HIDE DEF all, Enough
    <3>2. all \in T /\ T \in SUBSET Nat /\ T # {}
      BY <3>0, <3>1
    <3>3. PICK m \in T : \A y \in T : m <= y
      BY <3>2, FirstOf
    <3>4. m \in Age /\ Enough(m) /\ \A e \in 0..(m - 1) : ~Enough(e)
      BY <3>0, <3>2, <3>3, BruteBounds
    <3>5. \A d : (\A e \in 0..(d - 1) : Within(deque, now + e) < Threshold) <=> (\A e \in 0..(d - 1) : ~Enough(e))
      <4>1. \A e : Within(deque, now + e) \in Nat
        <5>. TAKE e
        <5>1. {i \in DOMAIN deque : deque[i] <= now + e} \in SUBSET (1..n)
          BY <1>8
        <5>2. IsFiniteSet(1..n)
          BY <1>8, FS_Interval
        <5>3. IsFiniteSet({i \in DOMAIN deque : deque[i] <= now + e})
          BY <5>1, <5>2, FS_Subset
        <5>. QED  BY <5>3, FS_CardinalityType DEF Within
      <4>2. \A e : Within(deque, now + e) < Threshold <=> ~Enough(e)
        BY <4>1, BruteBounds DEF Enough
      <4>. QED  BY <4>2
    <3>6. \E d \in Age : /\ Within(deque, now + d) >= Threshold
                         /\ \A e \in 0..(d - 1) : Within(deque, now + e) < Threshold
      BY <3>4, <3>5 DEF Enough
    <3>7. /\ spread' \in Age
          /\ Within(deque, now + spread') >= Threshold
          /\ \A e \in 0..(spread' - 1) : Within(deque, now + e) < Threshold
      BY <1>5, <2>2, <3>6
    <3>8. \A e \in 0..(spread' - 1) : ~Enough(e)
      BY <3>5, <3>7
    <3>9. ~(all \in 0..(spread' - 1))
      BY <3>1, <3>8
    <3>10. spread' \in Nat
      BY <3>7, BruteBounds
    <3>11. spread' <= all
      <4>1. PICK w \in Nat : w = spread'
        BY <3>10
      <4>2. all \notin 0..(w - 1)
        BY <3>9, <4>1
      <4>3. w <= all
        BY <3>0, <4>2
      <4>. QED  BY <4>1, <4>3
    <3>. QED  BY <3>7, <3>11 DEF all
  <2>. QED  BY <2>1, <2>2
<1>15. BruteTypes'
  <2>1. watcher' \in [Observer -> [at : {"idle", "waiting", "storing"}, now : 0..MaxStall]]
    <3>. DEFINE to == [at |-> IF alerts THEN "storing" ELSE "idle", now |-> 0]
    <3>1. 0 \in 0..MaxStall
      BY BruteBounds
    <3>2. to \in [at : {"idle", "waiting", "storing"}, now : 0..MaxStall]
      BY <3>1
    <3>3. watcher' = [watcher EXCEPT ![o] = to]
      BY <1>5
    <3>. HIDE DEF to
    <3>. QED  BY <1>0, <3>2, <3>3 DEF BruteTypes
  <2>2. raisedAt' \in Age \cup {Never}
    BY <1>0, <1>5, <1>7 DEF BruteTypes
  <2>3. burstTold' \in BOOLEAN /\ burstLost' \in BOOLEAN
    BY <1>5
  <2>. QED  BY <1>5, <1>8, <1>14, <2>1, <2>2, <2>3 DEF BruteTypes
<1>. QED  BY <1>5, <1>10, <1>12, <1>13, <1>14, <1>15 DEF BruteInv

LEMMA BruteStarts == BruteInit => BruteInv
<1>. SUFFICES ASSUME BruteInit PROVE BruteInv
  OBVIOUS
<1>1. /\ attempts = <<>> /\ raisedAt = Never /\ watcher = NoneAtWork
      /\ burstTold = FALSE /\ burstLost = FALSE /\ spread = 0
  BY DEF BruteInit
<1>2. BruteTypes
  <2>1. attempts \in Seq(Age) /\ Len(attempts) = 0
    BY <1>1
  <2>2. Len(attempts) <= MaxAttempts
    BY <2>1, BruteBounds
  <2>3. spread \in Age
    BY <1>1, BruteBounds
  <2>. QED  BY <1>1, <2>1, <2>2, <2>3, RestTyped DEF BruteTypes
<1>. QED  BY <1>1, <1>2, BruteBounds DEF BruteInv, BurstsRaise, InTurn, RaisedAccounted

LEMMA BruteRests == BruteInv /\ UNCHANGED bruteVars => BruteInv'
BY DEF bruteVars, BruteInv, BruteTypes, InTurn, BurstsRaise, BurstAfter, RaisedAccounted

LEMMA BruteStep == BruteInv /\ BruteNext => BruteInv'
<1>. SUFFICES ASSUME BruteInv, BruteNext PROVE BruteInv'
  OBVIOUS
<1>1. CASE \E o \in Observer : Arrive(o)
  BY <1>1, ArriveKept
<1>2. CASE \E o \in Observer : CountAttempt(o)
  BY <1>2, CountKept
<1>3. CASE \E o \in Observer : AlertStored(o) \/ AlertFails(o)
  BY <1>3, AlertEnds
<1>4. CASE SecondPasses
  BY <1>4, SecondKept
<1>5. CASE CountersLost
  BY <1>5, CountersLostKept
<1>. QED  BY <1>1, <1>2, <1>3, <1>4, <1>5 DEF BruteNext

LEMMA BruteCovers == BruteInv => BruteTypeOK /\ BurstsTold
<1>. SUFFICES ASSUME BruteInv PROVE BruteTypeOK /\ BurstsTold
  OBVIOUS
<1>1. {burstTold, burstLost} \subseteq BOOLEAN
  BY DEF BruteInv, BruteTypes
<1>. QED  BY <1>1 DEF BruteInv, BruteTypes, BruteTypeOK, BurstsTold, BurstsRaise, BurstAfter, RaisedAccounted

(* As many attempts within a window as the threshold come with an alert,   *)
(* and an alert comes of as many, for any number of threads with unlike    *)
(* clocks (_check_dimension of correlation.py).                            *)
THEOREM BurstsHold == BruteSpec => [](BruteTypeOK /\ BurstsTold)
<1>1. BruteInv /\ [BruteNext]_bruteVars => BruteInv'
  BY BruteStep, BruteRests
<1>. QED  BY <1>1, BruteStarts, BruteCovers, PTL DEF BruteSpec
=============================================================================
