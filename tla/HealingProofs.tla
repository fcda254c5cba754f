---------------------------- MODULE HealingProofs ----------------------------
(***************************************************************************)
(* What recovers by itself, for any bounds and time-outs: the alarms of    *)
(* AgentLiveness, the changes of FimEngine, the journal lines of           *)
(* HostReports and the ledger behind ConnectorScheduler, each for its own  *)
(* behaviours, and all of them in the behaviours of MCHealing.             *)
(***************************************************************************)
EXTENDS MCHealing, WellFoundedInduction, TLAPS

-----------------------------------------------------------------------------
(* AgentLiveness: the alarms                                               *)

(* What the heartbeats in hand found, and the recovery to be stored.       *)
Holds(b) == \E d \in Drains : beat[d] = b
Alone(d) == \A e \in Drains \ {d} : beat[e] = "idle"

(* Until two heartbeats met there is one at a time.                        *)
OneBeat == ~doubled => \A d \in Drains : beat[d] # "idle" => Alone(d)

(* The recoveries that may still be stored for alarms that were: the row   *)
(* is inactive, a heartbeat found it so, or an alarm is not yet written    *)
(* back.                                                                   *)
RowOwes   == IF row.known /\ ~row.active /\ ~Holds("inactive") THEN 1 ELSE 0
BeatOwes  == IF Holds("inactive") \/ Holds("recovered") THEN 1 ELSE 0
CheckOwes == IF check = "alarmed" THEN 1 ELSE 0

Backed == ~doubled => /\ owed >= 0
                      /\ owed = MaxAlarms \/ owed >= RowOwes + BeatOwes + CheckOwes

(* Of an agent whose heartbeats and checks never met: who holds what.      *)
InTurn ==
    /\ row.active => row.known
    /\ doubled => disturbed
    /\ ~disturbed =>
          /\ check # "idle" => NoBeat /\ row.active
          /\ Holds("first") => ~row.known
          /\ Holds("active") \/ Holds("recovered") => row.active
          /\ Holds("inactive") => row.known /\ ~row.active
          /\ (check = "alarmed" \/ Holds("recovered") \/ (row.known /\ ~row.active)) => owed = 1
          /\ ~(check = "alarmed" \/ Holds("recovered") \/ (row.known /\ ~row.active)) => owed = 0

LivenessInv == LivenessTypeOK /\ OneBeat /\ Backed /\ InTurn

Beats == {"idle", "first", "active", "inactive", "recovered"}

(* A drain moves while the others rest.                                    *)
LEMMA BeatMoves ==
    ASSUME LivenessTypeOK, NEW d \in Drains, NEW b \in Beats, Beat(d, b), Alone(d)
    PROVE  /\ Alone(d)'
           /\ \A c \in Beats \ {"idle"} : (Holds(c) <=> beat[d] = c) /\ (Holds(c)' <=> b = c)
           /\ NoBeat <=> beat[d] = "idle"
           /\ NoBeat' <=> b = "idle"
BY DEF LivenessTypeOK, Beat, Alone, Holds, NoBeat, Beats

LEMMA BeatTyped ==
    ASSUME LivenessTypeOK, NEW d \in Drains, NEW b \in Beats, Beat(d, b)
    PROVE  beat' \in [Drains -> Beats] /\ beat'[d] = b
BY DEF LivenessTypeOK, Beat, Beats

LEMMA BeatsTyped ==
    ASSUME LivenessInv, NEW d \in Drains,
           BeatReads(d) \/ (\E age \in Ages : BeatUpserts(d, age)) \/ RecoveryStored(d) \/ BeatLost(d)
    PROVE  LivenessTypeOK' /\ OneBeat' /\ (row'.active => row'.known) /\ (doubled' => disturbed')
<1>0. LivenessTypeOK /\ OneBeat /\ (row.active => row.known) /\ (doubled => disturbed)
  BY DEF LivenessInv, InTurn
<1>. USE LivenessAssumption
<1>1. PICK b \in Beats : Beat(d, b) /\ (b = "idle" \/ beat[d] # "idle" \/ BeatReads(d))
  <2>1. CASE BeatReads(d)
    BY <2>1 DEF BeatReads, Beats
  <2>2. CASE \E age \in Ages : BeatUpserts(d, age)
    BY <2>2 DEF BeatUpserts, Beats
  <2>3. CASE RecoveryStored(d) \/ BeatLost(d)
    BY <2>3 DEF RecoveryStored, BeatLost, Beats
  <2>. QED  BY <2>1, <2>2, <2>3
<1>2. OneBeat'
  <2>. SUFFICES ASSUME ~doubled', NEW e \in Drains, beat'[e] # "idle" PROVE Alone(e)'
    BY DEF OneBeat
  <2>1. ~doubled
    BY DEF BeatReads, BeatUpserts, RecoveryStored, BeatLost
  <2>2. CASE Alone(d)
    BY <1>0, <1>1, <2>2, BeatMoves DEF Alone, LivenessTypeOK
  <2>3. CASE ~Alone(d)
    <3>1. beat[d] = "idle"
      BY <1>0, <2>1, <2>3 DEF OneBeat
    <3>2. CASE BeatReads(d)
      BY <1>0, <2>3, <3>1, <3>2 DEF BeatReads, NoBeat, Alone
    <3>3. CASE ~BeatReads(d)
      <4>1. beat' = beat
        BY <1>0, <1>1, <3>1, <3>3 DEF Beat, LivenessTypeOK
      <4>. QED  BY <1>0, <2>1, <4>1 DEF OneBeat, Alone
    <3>. QED  BY <3>2, <3>3
  <2>. QED  BY <2>2, <2>3
<1>3. LivenessTypeOK' /\ (row'.active => row'.known) /\ (doubled' => disturbed')
  <2>1. beat' \in [Drains -> Beats]
    BY <1>0, <1>1, BeatTyped
  <2>2. row' \in [known : BOOLEAN, active : BOOLEAN, age : Ages] /\ (row'.active => row'.known)
    <3>1. CASE BeatReads(d) \/ RecoveryStored(d) \/ BeatLost(d)
      BY <1>0, <3>1 DEF LivenessTypeOK, BeatReads, RecoveryStored, BeatLost
    <3>2. ASSUME NEW age \in Ages, BeatUpserts(d, age)
          PROVE  row' \in [known : BOOLEAN, active : BOOLEAN, age : Ages] /\ row'.known
      BY <3>2 DEF BeatUpserts
    <3>. QED  BY <3>1, <3>2
  <2>3. owed' \in -1..MaxAlarms
    <3>1. CASE RecoveryStored(d)
      <4>1. owed \in -1..MaxAlarms /\ MaxAlarms \in Nat
        BY <1>0 DEF LivenessTypeOK
      <4>. QED  BY <3>1, <4>1 DEF RecoveryStored
    <3>2. CASE BeatReads(d) \/ BeatLost(d) \/ \E age \in Ages : BeatUpserts(d, age)
      BY <1>0, <3>2 DEF LivenessTypeOK, BeatReads, BeatUpserts, BeatLost
    <3>. QED  BY <3>1, <3>2
  <2>4. disturbed' \in BOOLEAN /\ doubled' \in BOOLEAN /\ (doubled' => disturbed')
    <3>1. CASE BeatReads(d)
      BY <1>0, <3>1 DEF LivenessTypeOK, BeatReads
    <3>2. CASE BeatLost(d)
      BY <1>0, <3>2 DEF LivenessTypeOK, BeatLost
    <3>3. CASE RecoveryStored(d) \/ \E age \in Ages : BeatUpserts(d, age)
      <4>1. disturbed' = disturbed /\ doubled' = doubled
        BY <3>3 DEF BeatUpserts, RecoveryStored
      <4>. QED  BY <1>0, <4>1 DEF LivenessTypeOK
    <3>. QED  BY <3>1, <3>2, <3>3
  <2>5. UNCHANGED <<kind, check, silent>>
    BY DEF BeatReads, BeatUpserts, RecoveryStored, BeatLost
  <2>. QED  BY <1>0, <2>1, <2>2, <2>3, <2>4, <2>5 DEF LivenessTypeOK, Beats
<1>. QED  BY <1>2, <1>3

(* As long as no two met, a heartbeat's step is one of the only one.       *)
LEMMA BeatAlone ==
    ASSUME LivenessInv, NEW d \in Drains, ~doubled',
           BeatReads(d) \/ (\E age \in Ages : BeatUpserts(d, age)) \/ RecoveryStored(d) \/ BeatLost(d)
    PROVE  Alone(d) /\ ~doubled
<1>1. ~doubled
  BY DEF BeatReads, BeatUpserts, RecoveryStored, BeatLost
<1>2. CASE BeatReads(d)
  BY <1>2 DEF BeatReads, NoBeat, Alone
<1>3. CASE beat[d] # "idle"
  BY <1>1, <1>3 DEF LivenessInv, OneBeat
<1>. QED  BY <1>1, <1>2, <1>3 DEF BeatUpserts, RecoveryStored, BeatLost

LEMMA BeatsBacked ==
    ASSUME LivenessInv, NEW d \in Drains,
           BeatReads(d) \/ (\E age \in Ages : BeatUpserts(d, age)) \/ RecoveryStored(d) \/ BeatLost(d)
    PROVE  Backed' /\ InTurn'
<1>0. LivenessTypeOK /\ Backed /\ InTurn
  BY DEF LivenessInv
<1>. USE LivenessAssumption
<1>1. (row'.active => row'.known) /\ (doubled' => disturbed')
  BY BeatsTyped
<1>2. CASE doubled'
  BY <1>1, <1>2 DEF Backed, InTurn
<1>3. CASE ~doubled'
  <2>1. Alone(d) /\ ~doubled
    BY <1>3, BeatAlone
  <2>. USE DEF Backed, InTurn, RowOwes, BeatOwes, CheckOwes
  <2>2. CASE BeatReads(d)
    <3>1. PICK b \in Beats : Beat(d, b)
            /\ b = (IF ~row.known THEN "first" ELSE IF row.active THEN "active" ELSE "inactive")
      BY <2>2 DEF BeatReads, Beats
    <3>2. /\ \A c \in Beats \ {"idle"} : (Holds(c) <=> beat[d] = c) /\ (Holds(c)' <=> b = c)
          /\ NoBeat <=> beat[d] = "idle"
          /\ NoBeat' <=> b = "idle"
      BY <1>0, <2>1, <3>1, BeatMoves
    <3>3. \A c \in Beats \ {"idle"} : ~Holds(c)
      BY <2>2, <3>2 DEF BeatReads, Beats
    <3>. QED  BY <1>0, <1>1, <2>1, <2>2, <3>1, <3>2, <3>3 DEF BeatReads, Beats, LivenessTypeOK
  <2>3. ASSUME NEW age \in Ages, BeatUpserts(d, age) PROVE Backed' /\ InTurn'
    <3>1. PICK b \in Beats : Beat(d, b) /\ b = (IF beat[d] = "inactive" THEN "recovered" ELSE "idle")
      BY <2>3 DEF BeatUpserts, Recovers, Beats
    <3>2. /\ \A c \in Beats \ {"idle"} : (Holds(c) <=> beat[d] = c) /\ (Holds(c)' <=> b = c)
          /\ NoBeat <=> beat[d] = "idle"
          /\ NoBeat' <=> b = "idle"
      BY <1>0, <2>1, <3>1, BeatMoves
    <3>. QED  BY <1>0, <1>1, <2>1, <2>3, <3>1, <3>2 DEF BeatUpserts, Beats, LivenessTypeOK
  <2>4. CASE RecoveryStored(d) \/ BeatLost(d)
    <3>1. Beat(d, "idle") /\ "idle" \in Beats
      BY <2>4 DEF RecoveryStored, BeatLost, Beats
    <3>2. /\ \A c \in Beats \ {"idle"} : (Holds(c) <=> beat[d] = c) /\ ~Holds(c)'
          /\ NoBeat <=> beat[d] = "idle"
          /\ NoBeat'
      <4>1. /\ \A c \in Beats \ {"idle"} : (Holds(c) <=> beat[d] = c) /\ (Holds(c)' <=> "idle" = c)
            /\ NoBeat <=> beat[d] = "idle"
            /\ NoBeat' <=> "idle" = "idle"
        BY <1>0, <2>1, <3>1, BeatMoves
      <4>. QED  BY <4>1
    <3>3. CASE RecoveryStored(d)
      BY <1>0, <1>1, <2>1, <3>2, <3>3 DEF RecoveryStored, Beats, LivenessTypeOK
    <3>4. CASE BeatLost(d)
      BY <1>0, <1>1, <2>1, <3>2, <3>4 DEF BeatLost, Beats, LivenessTypeOK
    <3>. QED  BY <2>4, <3>3, <3>4
  <2>. QED  BY <2>2, <2>3, <2>4
<1>. QED  BY <1>2, <1>3

(* What the check does leaves the heartbeats alone.                        *)
LEMMA ChecksStep ==
    ASSUME LivenessInv, beat' = beat, doubled' = doubled,
           CheckLists \/ StaleStored \/ CheckUpserts \/ CheckFails \/ RowAges \/ FallsSilent
    PROVE  LivenessInv'
<1>. USE LivenessAssumption
<1>. LivenessTypeOK /\ OneBeat /\ Backed /\ InTurn
  BY DEF LivenessInv
<1>0. /\ OneBeat' /\ (NoBeat' <=> NoBeat)
      /\ Holds("first")' = Holds("first") /\ Holds("active")' = Holds("active")
      /\ Holds("inactive")' = Holds("inactive") /\ Holds("recovered")' = Holds("recovered")
  BY DEF OneBeat, Alone, NoBeat, Holds
<1>1. NoBeat => ~Holds("first") /\ ~Holds("active") /\ ~Holds("inactive") /\ ~Holds("recovered")
  BY DEF NoBeat, Holds
<1>. HIDE DEF NoBeat, Holds, OneBeat
<1>. USE <1>0, <1>1 DEF LivenessInv, LivenessTypeOK, Backed, InTurn, RowOwes, BeatOwes, CheckOwes, Ages
<1>5. CASE CheckLists
  BY <1>5 DEF CheckLists
<1>6. CASE StaleStored
  BY <1>6 DEF StaleStored
<1>7. CASE CheckUpserts
  <2>1. /\ check = "alarmed" /\ check' = "idle" /\ row' = AsFound
        /\ UNCHANGED <<kind, silent, owed, disturbed>>
    BY <1>7 DEF CheckUpserts
  <2>2. /\ row' \in [known : BOOLEAN, active : BOOLEAN, age : Ages] /\ row'.active = FALSE
        /\ row.known => row'.known
    <3>1. row \in [known : BOOLEAN, active : BOOLEAN, age : Ages] /\ StaleAfter + 1 \in Ages
      OBVIOUS
    <3>2. CASE kind = "probe"
      BY <2>1, <3>1, <3>2 DEF AsFound
    <3>3. CASE kind # "probe"
      <4>1. row' = [row EXCEPT !.active = FALSE]
        BY <2>1, <3>3 DEF AsFound
      <4>. QED  BY <3>1, <4>1
    <3>. QED  BY <3>2, <3>3
  <2>. QED  BY <2>1, <2>2
<1>8. CASE CheckFails
  BY <1>8 DEF CheckFails
<1>9. CASE RowAges
  BY <1>9 DEF RowAges
<1>10. CASE FallsSilent
  BY <1>10 DEF FallsSilent
<1>. QED  BY <1>5, <1>6, <1>7, <1>8, <1>9, <1>10

LEMMA LivenessStep == LivenessInv /\ LivenessNext => LivenessInv'
<1>. SUFFICES ASSUME LivenessInv, LivenessNext PROVE LivenessInv'
  OBVIOUS
<1>1. ASSUME NEW d \in Drains,
             BeatReads(d) \/ (\E age \in Ages : BeatUpserts(d, age)) \/ RecoveryStored(d) \/ BeatLost(d)
      PROVE  LivenessInv'
  BY <1>1, BeatsTyped, BeatsBacked DEF LivenessInv
<1>2. CASE CheckLists \/ StaleStored \/ CheckUpserts \/ CheckFails \/ RowAges \/ FallsSilent
  <2>1. beat' = beat /\ doubled' = doubled
    BY <1>2 DEF CheckLists, StaleStored, CheckUpserts, CheckFails, RowAges, FallsSilent
  <2>. QED  BY <1>2, <2>1, ChecksStep
<1>. QED  BY <1>1, <1>2 DEF LivenessNext

LEMMA LivenessStarts == LivenessInit => LivenessInv
<1>. SUFFICES ASSUME LivenessInit PROVE LivenessInv
  OBVIOUS
<1>1. /\ row = [known |-> FALSE, active |-> FALSE, age |-> 0] /\ beat = [d \in Drains |-> "idle"]
      /\ check = "idle" /\ owed = 0 /\ disturbed = FALSE /\ doubled = FALSE
  BY DEF LivenessInit
<1>2. /\ row.known = FALSE /\ row.active = FALSE
      /\ \A d \in Drains : beat[d] = "idle"
  BY <1>1
<1>6. NoBeat /\ OneBeat /\ ~Holds("recovered") /\ ~Holds("inactive") /\ ~Holds("first")
      /\ ~Holds("active")
  BY <1>2 DEF NoBeat, OneBeat, Holds
<1>3. LivenessTypeOK
  <2>1. row \in [known : BOOLEAN, active : BOOLEAN, age : Ages]
    BY <1>1, LivenessAssumption DEF Ages
  <2>2. owed \in -1..MaxAlarms
    BY <1>1, LivenessAssumption
  <2>. QED  BY <1>1, <2>1, <2>2 DEF LivenessInit, LivenessTypeOK
<1>4. Backed
  BY <1>1, <1>2, <1>6 DEF Backed, RowOwes, BeatOwes, CheckOwes
<1>5. InTurn
  BY <1>1, <1>2, <1>6 DEF InTurn
<1>. QED  BY <1>3, <1>4, <1>5, <1>6 DEF LivenessInv

LEMMA LivenessRests == LivenessInv /\ UNCHANGED livenessVars => LivenessInv'
BY DEF LivenessInv, LivenessTypeOK, OneBeat, Alone, Backed, InTurn, RowOwes, BeatOwes, CheckOwes,
       Holds, NoBeat, livenessVars

LEMMA LivenessInvariant == LivenessSpec => []LivenessInv
BY LivenessStarts, LivenessStep, LivenessRests, PTL DEF LivenessSpec

(***************************************************************************)
(* The row, the heartbeat and the check keep their types (hosts/ and       *)
(* services/projection.py, hosts/ and services/staleness.py).              *)
(***************************************************************************)
THEOREM LivenessTypeCorrect == LivenessSpec => []LivenessTypeOK
<1>1. LivenessInv => LivenessTypeOK
  BY DEF LivenessInv
<1>. QED  BY <1>1, LivenessInvariant, PTL

LEMMA LivenessCovers == LivenessInv => AlarmsPaired
BY DEF LivenessInv, LivenessTypeOK, Backed, InTurn, AlarmsPaired, Holds, NoBeat

(***************************************************************************)
(* An agent never recovers more often than it was said to be silent, in    *)
(* whatever order a heartbeat, checks and errors meet, unless two drains   *)
(* had heartbeats of it in hand at once; and if none of them met, each     *)
(* alarm is settled by a recovery once the agent is active again           *)
(* (_project_heartbeat and staleness.check, for probe agents and hosts).   *)
(***************************************************************************)
THEOREM AlarmsHold == LivenessSpec => []AlarmsPaired
BY LivenessInvariant, LivenessCovers, PTL

-----------------------------------------------------------------------------
(* FimEngine: the changes                                                  *)

(* A thread holds a change exactly between storing and queueing it.        *)
HandsHeld ==
    /\ scanHand # NoChange <=> scan = "queue"
    /\ watchHand # NoChange <=> watch = "queue"

(* Unless changes got lost or out of order, a change in hand is what the   *)
(* baseline holds, and only one thread has one; when none has, the last    *)
(* one told is the baseline's, or its truncation was or will be announced. *)
Told ==
    ~lost =>
        /\ scanHand # NoChange => scanHand = baseline /\ watchHand = NoChange
        /\ watchHand # NoChange => watchHand = baseline
        /\ scanHand = NoChange /\ watchHand = NoChange =>
              fimTold = baseline \/ announced \/ (scan # "idle" /\ truncated)

FimInv == FimTypeOK /\ HandsHeld /\ Told

LEMMA FimTyped ==
    ASSUME FimTypeOK, HandsHeld, FimNext
    PROVE  FimTypeOK'
<1>. USE FimAssumption DEF FimTypeOK, Values, Gone, NoChange
<1>1. CASE ScanStep
  <2>1. CASE ScanStarts \/ ScanWalks \/ ScanReads
    BY <2>1 DEF ScanStarts, ScanWalks, ScanReads, watchVars, queueVars
  <2>2. CASE ScanStores
    BY <2>2 DEF ScanStores, Diff, Found, watchVars
  <2>3. CASE ScanQueues
    <3>1. scanHand \in Values
      BY <2>3 DEF ScanQueues, HandsHeld
    <3>. QED  BY <2>3, <3>1 DEF ScanQueues, Queue, watchVars
  <2>4. CASE ScanDeletes
    BY <2>4 DEF ScanDeletes, Found, Queue, DropsDelete, watchVars, queueVars
  <2>5. CASE ScanEnds
    BY <2>5 DEF ScanEnds, watchVars
  <2>. QED  BY <1>1, <2>1, <2>2, <2>3, <2>4, <2>5 DEF ScanStep
<1>6. CASE ScanPathFails \/ ScanRaises \/ WatchFails
  BY <1>6 DEF ScanPathFails, ScanRaises, WatchFails, scanVars, watchVars, queueVars
<1>2. CASE WatchStep
  <2>1. CASE WatchReads
    BY <2>1 DEF WatchReads, scanVars, queueVars
  <2>2. CASE WatchStores
    BY <2>2 DEF WatchStores, Diff, Found, scanVars
  <2>3. CASE WatchQueues
    <3>1. watchHand \in Values
      BY <2>3 DEF WatchQueues, HandsHeld
    <3>. QED  BY <2>3, <3>1 DEF WatchQueues, Queue, scanVars
  <2>. QED  BY <1>2, <2>1, <2>2, <2>3 DEF WatchStep
<1>3. CASE \E v \in Values : FileChanges(v)
  <2>1. /\ disk' \in Values /\ writes' \in 0..MaxWrites /\ noticed' \in BOOLEAN
        /\ UNCHANGED <<baseline, critical, scanVars, watch, watchMeta, watchHand, queueVars>>
    <3>1. PICK v \in Values : FileChanges(v)
      BY <1>3
    <3>2. writes \in 0..MaxWrites /\ noticed \in BOOLEAN
      OBVIOUS
    <3>3. writes' \in 0..MaxWrites
      BY <3>1, <3>2 DEF FileChanges
    <3>. QED  BY <3>1, <3>2, <3>3 DEF FileChanges
  <2>. QED  BY <2>1 DEF scanVars, queueVars
<1>4. CASE DrainChanges
  BY <1>4 DEF DrainChanges, scanVars, watchVars
<1>5. CASE FimCrash
  BY <1>5 DEF FimCrash
<1>. QED  BY <1>1, <1>2, <1>3, <1>4, <1>5, <1>6 DEF FimNext

LEMMA FimTells ==
    ASSUME FimInv, FimNext
    PROVE  HandsHeld' /\ Told'
<1>. FimTypeOK /\ HandsHeld /\ Told
  BY DEF FimInv
<1>0. /\ NoChange \notin Values /\ Gone \in Values
      /\ {disk, baseline, fimTold, scanMeta, watchMeta} \subseteq Values
      /\ {scanHand, watchHand} \subseteq Values \cup {NoChange}
  BY FimAssumption DEF FimTypeOK, Values, Gone, NoChange
<1>. USE <1>0 DEF HandsHeld, Told
<1>1. CASE ScanStarts \/ ScanWalks \/ ScanReads
  BY <1>1 DEF ScanStarts, ScanWalks, ScanReads, watchVars, queueVars
<1>2. CASE ScanStores
  BY <1>2 DEF ScanStores, Diff, Found, watchVars
<1>3. CASE ScanQueues
  BY <1>3 DEF ScanQueues, Queue, watchVars
<1>4. CASE ScanDeletes
  BY <1>4 DEF ScanDeletes, Found, Queue, DropsDelete, watchVars, queueVars
<1>5. CASE ScanEnds
  BY <1>5 DEF ScanEnds, watchVars
<1>6. CASE WatchReads
  BY <1>6 DEF WatchReads, scanVars, queueVars
<1>7. CASE WatchStores
  BY <1>7 DEF WatchStores, Diff, Found, scanVars
<1>8. CASE WatchQueues
  BY <1>8 DEF WatchQueues, Queue, scanVars
<1>9. CASE \E v \in Values : FileChanges(v)
  BY <1>9 DEF FileChanges, scanVars, queueVars
<1>10. CASE DrainChanges
  BY <1>10 DEF DrainChanges, scanVars, watchVars
<1>11. CASE FimCrash
  BY <1>11 DEF FimCrash
<1>12. CASE ScanPathFails \/ ScanRaises
  BY <1>12 DEF ScanPathFails, ScanRaises, watchVars, queueVars
<1>13. CASE WatchFails
  BY <1>13 DEF WatchFails, scanVars, queueVars
<1>. QED  BY <1>1, <1>2, <1>3, <1>4, <1>5, <1>6, <1>7, <1>8, <1>9, <1>10, <1>11,
        <1>12, <1>13
     DEF FimNext, ScanStep, WatchStep

LEMMA FimStarts == FimInit => FimInv
<1>1. FimInit => FimTypeOK
  <2>. SUFFICES ASSUME FimInit PROVE FimTypeOK
    OBVIOUS
  <2>1. /\ disk \in Values /\ baseline \in Values /\ fimTold \in Values
        /\ Gone \in Values
    BY DEF FimInit, Values
  <2>2. writes \in 0..MaxWrites
    BY FimAssumption DEF FimInit
  <2>. QED  BY <2>1, <2>2 DEF FimInit, FimTypeOK
<1>2. FimInit => HandsHeld /\ Told
  BY DEF FimInit, HandsHeld, Told
<1>. QED  BY <1>1, <1>2 DEF FimInv

LEMMA FimStep == FimInv /\ FimNext => FimInv'
BY FimTyped, FimTells DEF FimInv

LEMMA FimRests == FimInv /\ UNCHANGED fimVars => FimInv'
BY DEF FimInv, FimTypeOK, HandsHeld, Told, fimVars, scanVars, watchVars, queueVars

LEMMA FimInvariant == FimSpec => []FimInv
BY FimStarts, FimStep, FimRests, PTL DEF FimSpec

(***************************************************************************)
(* The two threads and the process keep their types (scripts/fim_engine).  *)
(***************************************************************************)
THEOREM FimTypeCorrect == FimSpec => []FimTypeOK
<1>1. FimInv => FimTypeOK
  BY DEF FimInv
<1>. QED  BY <1>1, FimInvariant, PTL

LEMMA FimCovers == FimInv => ChangesComplete
BY DEF FimInv, Told, ChangesComplete, FimQuiet

(***************************************************************************)
(* The baseline absorbs no change in silence, whichever thread stores it:  *)
(* what was last queued of a path is what its row holds, or a truncation   *)
(* marker followed; unless the process ended with changes in memory, a     *)
(* scan raised before the marker of what it dropped, or both threads had a *)
(* change in hand (_do_scan, _handle_realtime_change).                     *)
(***************************************************************************)
THEOREM ChangesHold == FimSpec => []ChangesComplete
BY FimInvariant, FimCovers, PTL

-----------------------------------------------------------------------------
(* HostReports: types                                                      *)

LEMMA ReportsConstants ==
    /\ Interval \in Nat \ {0} /\ PerStep \in Nat \ {0} /\ SpoolMax \in Nat \ {0}
    /\ Lookback \in Nat /\ WatchdogSec \in Nat /\ FreeFailures \in Nat /\ BackoffMax \in Nat
    /\ MaxChanges \in Nat /\ MaxCrashes \in Nat
BY ReportsAssumption

LEMMA DivTyped ==
    ASSUME NEW x \in Nat, NEW p \in Nat \ {0}
    PROVE  x \div p \in Nat
OBVIOUS

LEMMA BackoffTyped ==
    ASSUME NEW f \in Nat
    PROVE  Backoff(f) \in 0..BackoffMax
<1>1. FreeFailures \in Nat /\ PerStep \in Nat \ {0} /\ BackoffMax \in Nat
  BY ReportsConstants
<1>2. CASE f <= FreeFailures
  BY <1>1, <1>2 DEF Backoff
<1>3. CASE ~(f <= FreeFailures)
  <2>. DEFINE b == (f - FreeFailures + PerStep - 1) \div PerStep
  <2>1. f - FreeFailures + PerStep - 1 \in Nat
    BY <1>1, <1>3
  <2>2. b \in Nat
    BY <1>1, <2>1, DivTyped
  <2>3. Backoff(f) = IF b < BackoffMax THEN b ELSE BackoffMax
    BY <1>3 DEF Backoff
  <2>. HIDE DEF b
  <2>. QED  BY <1>1, <2>2, <2>3
<1>. QED  BY <1>2, <1>3

LEMMA TopTyped == TopFailures \in Nat \ {0}
<1>1. FreeFailures \in Nat /\ PerStep \in Nat \ {0} /\ BackoffMax + 1 \in Nat \ {0}
  BY ReportsConstants
<1>2. ASSUME NEW a \in Nat \ {0}, NEW b \in Nat \ {0} PROVE a * b \in Nat \ {0}
  OBVIOUS
<1>3. PerStep * (BackoffMax + 1) \in Nat \ {0}
  BY <1>1, <1>2
<1>. HIDE <1>2
<1>. DEFINE c == PerStep * (BackoffMax + 1)
<1>4. TopFailures = FreeFailures + c /\ c \in Nat \ {0}
  BY <1>3 DEF TopFailures
<1>. HIDE DEF c
<1>. QED  BY <1>1, <1>4

LEMMA FilesTyped ==
    ASSUME ReportsTypeOK
    PROVE  /\ NoReport \in Report /\ spool \in Seq(Report \cup {EmptyFile})
           /\ SpoolMax \in Nat \ {0} /\ Len(spool) \in Nat /\ Len(spool) <= SpoolMax
           /\ DOMAIN spool = 1..Len(spool)
           /\ \A r \in Report \cup {EmptyFile} : r.line \in BOOLEAN
           /\ EmptyFile.line = FALSE /\ NoReport.line = FALSE
<1>1. NoReport \in Report /\ EmptyFile.line = FALSE /\ NoReport.line = FALSE
  BY DEF NoReport, EmptyFile, Report
<1>0. \A r \in Report : r.line \in BOOLEAN
  BY DEF Report
<1>2. \A r \in Report \cup {EmptyFile} : r.line \in BOOLEAN
  BY <1>0, <1>1
<1>3. SpoolMax \in Nat \ {0}
  BY ReportsConstants
<1>4. spool \in Seq(Report \cup {EmptyFile}) /\ Len(spool) <= SpoolMax
  BY DEF ReportsTypeOK
<1>5. ASSUME NEW S, NEW s \in Seq(S) PROVE Len(s) \in Nat /\ DOMAIN s = 1..Len(s)
  OBVIOUS
<1>. QED  BY <1>1, <1>2, <1>3, <1>4, <1>5

(* A file that is added pushes out the oldest one of a full spool.         *)
LEMMA SpooledTyped ==
    ASSUME ReportsTypeOK, NEW r \in Report \cup {EmptyFile}
    PROVE  /\ Spooled(r) \in Seq(Report \cup {EmptyFile}) /\ Len(Spooled(r)) <= SpoolMax
           /\ \E k \in DOMAIN Spooled(r) : Spooled(r)[k] = r
           /\ \A k \in DOMAIN spool :
                 \/ \E m \in DOMAIN Spooled(r) : Spooled(r)[m] = spool[k]
                 \/ Len(spool) = SpoolMax /\ spool[k] = Head(spool)
<1>. DEFINE S == Report \cup {EmptyFile}
            t == Append(spool, r)
            n == Len(spool)
<1>1. spool \in Seq(S) /\ n \in Nat /\ SpoolMax \in Nat \ {0} /\ n <= SpoolMax
  BY FilesTyped
<1>. HIDE DEF S
<1>2. /\ t \in Seq(S) /\ Len(t) = n + 1 /\ t[n + 1] = r
      /\ \A k \in 1..n : t[k] = spool[k]
      /\ DOMAIN t = 1..(n + 1) /\ DOMAIN spool = 1..n
  BY <1>1 DEF S
<1>. HIDE DEF t, n
<1>3. CASE n < SpoolMax
  <2>1. Spooled(r) = t
    BY <1>1, <1>2, <1>3 DEF Spooled, t
  <2>2. n + 1 \in DOMAIN t
    BY <1>1, <1>2
  <2>3. \A k \in DOMAIN spool : k \in DOMAIN t /\ t[k] = spool[k]
    BY <1>1, <1>2
  <2>4. Len(t) <= SpoolMax
    BY <1>1, <1>2, <1>3
  <2>. QED  BY <1>2, <2>1, <2>2, <2>3, <2>4 DEF S
<1>4. CASE n = SpoolMax
  <2>1. Spooled(r) = Tail(t)
    BY <1>1, <1>2, <1>4 DEF Spooled, t
  <2>2. /\ Tail(t) \in Seq(S) /\ Len(Tail(t)) = n
        /\ DOMAIN Tail(t) = 1..n /\ \A k \in 1..n : Tail(t)[k] = t[k + 1]
    BY <1>1, <1>2
  <2>3. n \in 1..n
    BY <1>1, <1>4
  <2>4. Tail(t)[n] = r
    BY <1>2, <2>2, <2>3
  <2>5. ASSUME NEW k \in DOMAIN spool, k # 1
        PROVE  \E m \in DOMAIN Tail(t) : Tail(t)[m] = spool[k]
    <3>1. k - 1 \in 1..n /\ k - 1 + 1 = k /\ k \in 1..n
      BY <1>1, <1>2, <2>5
    <3>. QED  BY <1>2, <2>2, <3>1
  <2>6. Head(spool) = spool[1]
    BY <1>1 DEF n
  <2>. QED  BY <1>4, <2>1, <2>2, <2>3, <2>4, <2>5, <2>6 DEF S, n
<1>. QED  BY <1>1, <1>3, <1>4

LEMMA QueueTyped ==
    ASSUME ReportsTypeOK, NEW r \in Report
    PROVE  /\ InQueue(r) \subseteq Report /\ sqs \subseteq InQueue(r)
           /\ r.line => r \in InQueue(r)
BY FilesTyped DEF ReportsTypeOK, InQueue

LEMMA BuildTyped ==
    ASSUME ReportsTypeOK, NEW v \in 0..MaxChanges \cup {NoValue}, NEW cut \in 0..2,
           NEW read \in BOOLEAN, Build(v, cut, read)
    PROVE  ReportsTypeOK'
<1>1. /\ lastHash' = v /\ resyncDue' \in BOOLEAN /\ agent' = "flush"
      /\ UNCHANGED <<hostState, line, failures, nap, sincePing, spool, sqs, stored, lineStored,
                     crashes>>
  BY DEF Build, clocks, backend, ReportsTypeOK
<1>2. dropped' \in BOOLEAN /\ looked' \in {"never", "missed", "read"}
  BY DEF Build, Drops, ReportsTypeOK
<1>3. report' \in Report
  <2>1. (InWindow /\ read /\ cut < 2) \in BOOLEAN
    OBVIOUS
  <2>2. (IF Include(v) /\ cut = 0 THEN v ELSE NoValue) \in 0..MaxChanges \cup {NoValue}
    OBVIOUS
  <2>. QED  BY <2>1, <2>2 DEF Build, Report
<1>4. {lastHash', stored'} \subseteq 0..MaxChanges \cup {NoValue}
  BY <1>1 DEF ReportsTypeOK
<1>5. /\ hostState' \in 0..MaxChanges /\ line' \in NotYet..(Lookback + 1)
      /\ failures' \in 0..TopFailures /\ nap' \in 0..(BackoffMax + Interval)
      /\ sincePing' \in 0..WatchdogSec /\ sqs' \subseteq Report
      /\ spool' \in Seq(Report \cup {EmptyFile}) /\ Len(spool') <= SpoolMax
      /\ lineStored' \in BOOLEAN /\ crashes' \in 0..MaxCrashes
  BY <1>1 DEF ReportsTypeOK
<1>6. /\ resyncDue' \in BOOLEAN /\ agent' \in {"tick", "backoff", "sleep"} \cup Sending
      /\ agent' # "unlink"
  BY <1>1 DEF Sending
<1>. QED  BY <1>2, <1>3, <1>4, <1>5, <1>6 DEF ReportsTypeOK

LEMMA SendTyped ==
    ASSUME ReportsTypeOK, SendReport \/ SendFails
    PROVE  ReportsTypeOK'
<1>1. CASE SendReport
  <2>1. sqs' \subseteq Report
    BY <1>1, QueueTyped DEF SendReport, ReportsTypeOK
  <2>2. nap' \in 0..(BackoffMax + Interval) /\ sincePing' \in 0..WatchdogSec
        /\ failures' \in 0..TopFailures /\ report' \in Report
    BY <1>1, ReportsConstants, TopTyped, FilesTyped DEF SendReport
  <2>3. /\ agent' = "sleep"
        /\ UNCHANGED <<hostState, line, lastHash, resyncDue, spool, stored, lineStored, dropped,
                       looked, crashes>>
    BY <1>1 DEF SendReport, backend, ghosts
  <2>. QED  BY <2>1, <2>2, <2>3 DEF ReportsTypeOK
<1>2. CASE SendFails
  <2>1. failures' \in 0..TopFailures
    BY <1>2, TopTyped DEF SendFails, ReportsTypeOK
  <2>2. nap' \in 0..(BackoffMax + Interval)
    <3>1. failures' \in Nat
      BY <2>1, TopTyped
    <3>2. nap' \in 0..BackoffMax
      BY <1>2, <3>1, BackoffTyped DEF SendFails
    <3>. QED  BY <3>2, ReportsConstants
  <2>3. spool' \in Seq(Report \cup {EmptyFile}) /\ Len(spool') <= SpoolMax
    <3>1. report \in Report
      BY DEF ReportsTypeOK
    <3>2. CASE spool' = spool
      BY <3>2 DEF ReportsTypeOK
    <3>3. CASE spool' = Spooled(report)
      BY <3>1, <3>3, SpooledTyped
    <3>4. CASE spool' = Spooled(EmptyFile)
      BY <3>4, SpooledTyped
    <3>. QED  BY <1>2, <3>2, <3>3, <3>4 DEF SendFails
  <2>4. dropped' \in BOOLEAN /\ looked' = looked
    BY <1>2, FilesTyped DEF SendFails, Drops, ReportsTypeOK
  <2>5. report' \in Report /\ agent' = "backoff"
        /\ UNCHANGED <<hostState, line, lastHash, resyncDue, sincePing, sqs, stored, lineStored,
                       crashes>>
    BY <1>2, FilesTyped DEF SendFails, backend, ghosts
  <2>. QED  BY <2>1, <2>2, <2>3, <2>4, <2>5 DEF ReportsTypeOK
<1>. QED  BY <1>1, <1>2

LEMMA FlushTyped ==
    ASSUME ReportsTypeOK, FlushFile \/ UnlinkFile
    PROVE  ReportsTypeOK'
<1>. DEFINE S == Report \cup {EmptyFile}
<1>1. CASE FlushFile
  <2>0. Head(spool) \in Report
    <3>1. spool \in Seq(S) /\ spool # <<>> /\ Head(spool) # EmptyFile
      BY <1>1, FilesTyped DEF FlushFile
    <3>2. S \ {EmptyFile} \subseteq Report
      OBVIOUS
    <3>. HIDE DEF S
    <3>3. Head(spool) \in S
      BY <3>1
    <3>. QED  BY <3>1, <3>2, <3>3
  <2>1. sqs' \subseteq Report
    BY <1>1, <2>0, QueueTyped DEF FlushFile
  <2>2. /\ agent' = "unlink" /\ spool' # <<>>
        /\ UNCHANGED <<hostState, line, lastHash, resyncDue, failures, nap, sincePing, report,
                       spool, stored, lineStored, dropped, looked, crashes>>
    BY <1>1 DEF FlushFile, memory, clocks, backend, ghosts
  <2>. QED  BY <2>1, <2>2 DEF ReportsTypeOK, Sending
<1>2. CASE UnlinkFile
  <2>1. spool' = Tail(spool) /\ spool # <<>>
    BY <1>2 DEF UnlinkFile, ReportsTypeOK
  <2>2. spool \in Seq(S) /\ Len(spool) <= SpoolMax /\ SpoolMax \in Nat
    BY FilesTyped
  <2>3. spool' \in Seq(S) /\ Len(spool') <= SpoolMax
    <3>. HIDE DEF S
    <3>. QED  BY <2>1, <2>2
  <2>4. /\ agent' = "flush"
        /\ UNCHANGED <<hostState, line, lastHash, resyncDue, failures, nap, sincePing, report,
                       sqs, stored, lineStored, dropped, looked, crashes>>
    BY <1>2 DEF UnlinkFile, memory, clocks, backend, ghosts
  <2>. QED  BY <2>3, <2>4 DEF ReportsTypeOK, Sending
<1>. QED  BY <1>1, <1>2

LEMMA LoopTyped ==
    ASSUME ReportsTypeOK, FlushEnds \/ BackoffEnds \/ WakeUp
    PROVE  ReportsTypeOK'
<1>1. nap' \in 0..(BackoffMax + Interval) /\ sincePing' \in 0..WatchdogSec
  BY ReportsConstants DEF FlushEnds, BackoffEnds, WakeUp, clocks, ReportsTypeOK
<1>2. /\ agent' \in {"send", "sleep", "tick"}
      /\ UNCHANGED <<hostState, line, lastHash, resyncDue, failures, report, spool, sqs, stored,
                     lineStored, dropped, looked, crashes>>
  BY DEF FlushEnds, BackoffEnds, WakeUp, memory, backend, ghosts
<1>3. agent' # "unlink" /\ agent' \in {"tick", "backoff", "sleep"} \cup Sending
  BY <1>2 DEF Sending
<1>. QED  BY <1>1, <1>2, <1>3 DEF ReportsTypeOK

LEMMA FreshTyped ==
    ASSUME ReportsTypeOK, AgentCrash \/ WatchdogKill
    PROVE  ReportsTypeOK'
<1>0. crashes \in 0..MaxCrashes
  BY DEF ReportsTypeOK
<1>1. FreshProcess /\ crashes' \in 0..MaxCrashes
  BY <1>0, ReportsConstants DEF AgentCrash, WatchdogKill
<1>2. nap' \in 0..(BackoffMax + Interval) /\ sincePing' \in 0..WatchdogSec
      /\ failures' \in 0..TopFailures
  BY <1>1, ReportsConstants, TopTyped DEF FreshProcess
<1>3. report' \in Report /\ lastHash' = NoValue /\ resyncDue' \in BOOLEAN /\ agent' = "tick"
  BY <1>1, FilesTyped DEF FreshProcess
<1>4. UNCHANGED <<hostState, line, spool, sqs, stored, lineStored, dropped>>
      /\ looked' \in {"never", "missed", "read"}
  BY <1>1 DEF FreshProcess, backend, ReportsTypeOK
<1>. QED  BY <1>1, <1>2, <1>3, <1>4 DEF ReportsTypeOK

LEMMA WorldTyped ==
    ASSUME ReportsTypeOK,
           \/ TimePasses \/ HourPasses \/ HostChanges \/ LineLogged
           \/ \E r \in Report, again \in BOOLEAN : DeliverReport(r, again)
    PROVE  ReportsTypeOK'
<1>0. Interval \in Nat /\ BackoffMax \in Nat /\ WatchdogSec \in Nat /\ Lookback \in Nat
  BY ReportsConstants
<1>1. CASE TimePasses
  <2>1. nap' \in 0..(BackoffMax + Interval) /\ sincePing' \in 0..WatchdogSec
    BY <1>0, <1>1 DEF TimePasses, ReportsTypeOK
  <2>2. line' \in NotYet..(Lookback + 1)
    BY <1>0, <1>1 DEF TimePasses, ReportsTypeOK, NotYet
  <2>3. UNCHANGED <<hostState, agent, lastHash, resyncDue, failures, report, spool, sqs, stored,
                    lineStored, dropped, looked, crashes>>
    BY <1>1 DEF TimePasses, memory, backend, ghosts
  <2>. QED  BY <2>1, <2>2, <2>3 DEF ReportsTypeOK
<1>2. CASE HourPasses
  BY <1>2 DEF HourPasses, ReportsTypeOK, clocks, backend, ghosts
<1>3. CASE HostChanges
  <2>1. hostState' \in 0..MaxChanges
    BY <1>3, ReportsConstants DEF HostChanges, ReportsTypeOK
  <2>2. UNCHANGED <<line, agent, lastHash, resyncDue, failures, nap, sincePing, report, spool,
                    sqs, stored, lineStored, dropped, looked, crashes>>
    BY <1>3 DEF HostChanges, memory, clocks, backend, ghosts
  <2>. QED  BY <2>1, <2>2 DEF ReportsTypeOK
<1>4. CASE LineLogged
  <2>1. line' \in NotYet..(Lookback + 1)
    BY <1>0, <1>4 DEF LineLogged, NotYet
  <2>2. UNCHANGED <<hostState, agent, lastHash, resyncDue, failures, nap, sincePing, report,
                    spool, sqs, stored, lineStored, dropped, looked, crashes>>
    BY <1>4 DEF LineLogged, memory, clocks, backend, ghosts
  <2>. QED  BY <2>1, <2>2 DEF ReportsTypeOK
<1>5. ASSUME NEW r \in Report, NEW again \in BOOLEAN, DeliverReport(r, again)
      PROVE  ReportsTypeOK'
  <2>1. stored' \in 0..MaxChanges \cup {NoValue} /\ lineStored' \in BOOLEAN /\ dropped' \in BOOLEAN
    BY <1>5 DEF DeliverReport, ReportsTypeOK, Report
  <2>2. sqs' \subseteq Report
    BY <1>5 DEF DeliverReport, ReportsTypeOK
  <2>3. UNCHANGED <<hostState, line, agent, lastHash, resyncDue, failures, nap, sincePing,
                    report, spool, looked, crashes>>
    BY <1>5 DEF DeliverReport, memory, clocks
  <2>. QED  BY <2>1, <2>2, <2>3 DEF ReportsTypeOK
<1>. QED  BY <1>1, <1>2, <1>3, <1>4, <1>5

LEMMA ReportsTyped == ReportsTypeOK /\ ReportsNext => ReportsTypeOK'
<1>. SUFFICES ASSUME ReportsTypeOK, ReportsNext PROVE ReportsTypeOK'
  OBVIOUS
<1>1. CASE Collect
  <2>1. hostState \in 0..MaxChanges \cup {NoValue}
    BY DEF ReportsTypeOK
  <2>. QED  BY <1>1, <2>1, BuildTyped DEF Collect
<1>2. CASE KeepCollected
  <2>1. lastHash \in 0..MaxChanges \cup {NoValue}
    BY DEF ReportsTypeOK
  <2>. QED  BY <1>2, <2>1, BuildTyped DEF KeepCollected
<1>. QED  BY <1>1, <1>2, FlushTyped, LoopTyped, SendTyped, FreshTyped, WorldTyped
     DEF ReportsNext, AgentStep

-----------------------------------------------------------------------------
(* HostReports: the journal                                                *)

(* A line that a report holds stays in one, or the report was given up;    *)
(* an end of the process can only lose the report in memory.  A line waits *)
(* for a tick that journalctl gives it to.                                 *)
Safe     == Carried \/ dropped
Waiting  == line # NotYet /\ ~Safe /\ looked # "missed"
OnItsWay == lineStored \/ \E r \in sqs : r.line

(* From one tick to the next an Interval passes at least, except in a      *)
(* process that has not slept yet, whose backoff is the first.             *)
Paced ==
    /\ agent \in {"tick"} \cup Sending => sincePing >= Interval \/ failures = 0
    /\ agent = "backoff" => sincePing >= Interval \/ (failures = 1 /\ nap <= Backoff(1))
    /\ agent = "sleep" => nap <= Interval /\ sincePing + nap >= Interval

(* A line that waits was logged after the last tick read the journal; it   *)
(* will be within the window of the next, also when the watchdog ends the  *)
(* wait.  A file is unlinked when what it holds was sent.  A line that a   *)
(* tick has read is in its report as long as the process lives.            *)
Read ==
    /\ Waiting /\ agent = "tick" => line <= Lookback
    /\ Waiting /\ agent \in Sending => line = 0
    /\ Waiting /\ agent = "backoff" =>
          line + Interval <= sincePing \/ (failures = 1 /\ line + nap <= Backoff(1))
    /\ Waiting /\ agent = "sleep" => line + nap <= Lookback
    /\ looked = "read" => Safe
    /\ report.line => agent \in Sending /\ line \in 0..Lookback /\ looked = "read"
    /\ agent = "unlink" /\ Head(spool).line => OnItsWay

HostInv == ReportsTypeOK /\ Paced /\ Read

(* What the arithmetic of the invariant needs of the types.                *)
LEMMA TimesTyped ==
    ASSUME ReportsTypeOK
    PROVE  /\ nap \in Nat /\ sincePing \in Nat /\ sincePing <= WatchdogSec /\ failures \in Nat
           /\ line \in Int /\ line >= NotYet /\ NotYet = -1
           /\ Interval \in Nat \ {0} /\ Lookback \in Nat /\ WatchdogSec \in Nat
           /\ Backoff(1) \in Nat
           /\ WatchdogSec <= Lookback /\ Backoff(1) + Interval <= Lookback
<1>1. Interval \in Nat \ {0} /\ Lookback \in Nat /\ WatchdogSec \in Nat /\ BackoffMax \in Nat
  BY ReportsConstants
<1>2. Backoff(1) \in 0..BackoffMax
  BY BackoffTyped
<1>3. TopFailures \in Nat
  BY TopTyped
<1>4. /\ nap \in 0..(BackoffMax + Interval) /\ sincePing \in 0..WatchdogSec
      /\ failures \in 0..TopFailures /\ line \in NotYet..(Lookback + 1)
  BY DEF ReportsTypeOK
<1>. HIDE DEF Backoff
<1>. QED  BY <1>1, <1>2, <1>3, <1>4, WindowAssumption DEF NotYet

LEMMA PacedKept ==
    ASSUME HostInv, ReportsNext
    PROVE  Paced'
<1>. ReportsTypeOK /\ Paced
  BY DEF HostInv
<1>0. /\ nap \in Nat /\ sincePing \in Nat /\ failures \in Nat /\ Interval \in Nat \ {0}
      /\ Backoff(1) \in Nat
  BY TimesTyped
<1>1. CASE Collect \/ KeepCollected
  BY <1>1 DEF Collect, KeepCollected, Build, clocks, Paced, Sending
<1>2. CASE FlushFile \/ UnlinkFile \/ FlushEnds
  BY <1>2 DEF FlushFile, UnlinkFile, FlushEnds, clocks, memory, Paced, Sending
<1>3. CASE SendReport \/ BackoffEnds
  BY <1>0, <1>3 DEF SendReport, BackoffEnds, Paced, Sending
<1>4. CASE SendFails
  <2>1. CASE sincePing >= Interval
    BY <1>4, <2>1 DEF SendFails, Paced, Sending
  <2>2. CASE ~(sincePing >= Interval)
    <3>1. failures = 0
      BY <1>4, <2>2 DEF SendFails, Paced, Sending
    <3>2. failures' = 1
      BY <1>4, <3>1, TopTyped DEF SendFails
    <3>3. nap' = Backoff(1) /\ agent' = "backoff"
      BY <1>4, <3>2 DEF SendFails
    <3>. QED  BY <1>0, <3>2, <3>3 DEF Paced, Sending
  <2>. QED  BY <2>1, <2>2
<1>5. CASE WakeUp
  BY <1>0, <1>5 DEF WakeUp, clocks, Paced, Sending
<1>6. CASE WatchdogKill \/ AgentCrash
  BY <1>6 DEF WatchdogKill, AgentCrash, FreshProcess, Paced, Sending
<1>7. CASE TimePasses
  <2>1. /\ agent \in {"backoff", "sleep"} /\ agent' = agent /\ failures' = failures
        /\ nap > 0 /\ nap' = nap - 1 /\ sincePing' = sincePing + 1
    BY <1>7 DEF TimePasses, memory
  <2>. QED  BY <1>0, <2>1 DEF Paced, Sending
<1>8. CASE \/ HourPasses \/ HostChanges \/ LineLogged
           \/ \E r \in Report, again \in BOOLEAN : DeliverReport(r, again)
  BY <1>8 DEF HourPasses, HostChanges, LineLogged, DeliverReport, clocks, memory, Paced
<1>. QED  BY <1>1, <1>2, <1>3, <1>4, <1>5, <1>6, <1>7, <1>8 DEF ReportsNext, AgentStep

LEMMA TickReads ==
    ASSUME ReportsTypeOK, Read, Collect \/ KeepCollected
    PROVE  Read'
<1>1. PICK v \in {hostState, lastHash}, cut \in 0..2, read \in BOOLEAN : Build(v, cut, read)
  BY DEF Collect, KeepCollected
<1>2. /\ agent = "tick" /\ agent' = "flush" /\ report'.line = (InWindow /\ read /\ cut < 2)
      /\ dropped' = (~lineStored /\ (dropped \/ (InWindow /\ read /\ cut = 2)))
      /\ looked' = IF ~InWindow \/ looked = "read" THEN looked
                   ELSE IF read THEN "read" ELSE "missed"
      /\ UNCHANGED <<line, spool, sqs, lineStored>>
  BY <1>1 DEF Build, Drops, backend
<1>3. Safe => Safe'
  BY <1>2 DEF Safe, Carried, Sending
<1>4. InWindow /\ read => Safe'
  <2>. SUFFICES ASSUME InWindow, read PROVE Safe'
    OBVIOUS
  <2>1. CASE cut < 2
    BY <1>2, <2>1 DEF Safe, Carried, Sending
  <2>2. CASE cut = 2
    BY <1>2, <2>2 DEF Safe, Carried
  <2>. QED  BY <2>1, <2>2
<1>5. looked' = "read" => Safe'
  BY <1>2, <1>3, <1>4 DEF Read
<1>6. Waiting' => InWindow
  <2>. SUFFICES ASSUME Waiting', ~InWindow PROVE FALSE
    OBVIOUS
  <2>1. Waiting
    BY <1>2, <1>3 DEF Waiting
  <2>. QED  BY <1>2, <2>1, TimesTyped DEF Waiting, InWindow, Read
<1>7. ~Waiting'
  <2>. SUFFICES ASSUME Waiting' PROVE FALSE
    OBVIOUS
  <2>1. InWindow /\ ~Safe' /\ looked' # "missed" /\ looked' # "read"
    BY <1>5, <1>6 DEF Waiting
  <2>. QED  BY <1>2, <1>4, <2>1
<1>8. report'.line => line' \in 0..Lookback /\ looked' = "read"
  BY <1>2 DEF InWindow
<1>. QED  BY <1>2, <1>5, <1>7, <1>8 DEF Read, Sending

LEMMA FlushReads ==
    ASSUME ReportsTypeOK, Read, FlushFile \/ UnlinkFile \/ FlushEnds
    PROVE  Read'
<1>1. CASE FlushFile
  <2>1. /\ agent = "flush" /\ agent' = "unlink" /\ sqs \subseteq sqs'
        /\ Head(spool).line => Head(spool) \in sqs'
        /\ UNCHANGED <<line, report, spool, lineStored, dropped, looked>>
    BY <1>1, FilesTyped DEF FlushFile, InQueue, backend, ghosts
  <2>2. Safe => Safe'
    BY <2>1 DEF Safe, Carried, Sending
  <2>3. Waiting' => Waiting
    BY <2>1, <2>2 DEF Waiting
  <2>4. OnItsWay' \/ ~Head(spool').line
    BY <2>1 DEF OnItsWay
  <2>. QED  BY <2>1, <2>2, <2>3, <2>4 DEF Read, Sending
<1>2. CASE UnlinkFile
  <2>1. /\ agent = "unlink" /\ agent' = "flush" /\ spool' = Tail(spool) /\ spool # <<>>
        /\ UNCHANGED <<line, report, sqs, lineStored, dropped, looked>>
    BY <1>2 DEF UnlinkFile, ReportsTypeOK, backend, ghosts
  <2>2. ASSUME NEW k \in DOMAIN spool, spool[k].line
        PROVE  OnItsWay \/ \E m \in DOMAIN spool' : spool'[m].line
    <3>. DEFINE S == Report \cup {EmptyFile}
    <3>1. spool \in Seq(S) /\ Len(spool) \in Nat
      BY FilesTyped
    <3>. HIDE DEF S
    <3>2. CASE k = 1
      BY <2>1, <2>2, <3>1, <3>2 DEF Read
    <3>3. CASE k # 1
      <4>1. k - 1 \in DOMAIN Tail(spool) /\ Tail(spool)[k - 1] = spool[k]
        BY <2>1, <3>1, <3>3
      <4>. QED  BY <2>1, <2>2, <4>1
    <3>. QED  BY <3>2, <3>3
  <2>3. Safe => Safe'
    BY <2>1, <2>2 DEF Safe, Carried, OnItsWay, Sending
  <2>4. Waiting' => Waiting
    BY <2>1, <2>3 DEF Waiting
  <2>. QED  BY <2>1, <2>3, <2>4 DEF Read, Sending
<1>3. CASE FlushEnds
  <2>1. /\ agent = "flush" /\ agent' = "send"
        /\ UNCHANGED <<line, report, spool, sqs, lineStored, dropped, looked>>
    BY <1>3 DEF FlushEnds, backend, ghosts
  <2>2. (Safe => Safe') /\ (Waiting' => Waiting)
    BY <2>1 DEF Safe, Waiting, Carried, Sending
  <2>. QED  BY <2>1, <2>2 DEF Read, Sending
<1>. QED  BY <1>1, <1>2, <1>3

LEMMA SendReads ==
    ASSUME ReportsTypeOK, Paced', Read, SendReport \/ SendFails
    PROVE  Read'
<1>1. CASE SendReport
  <2>1. /\ agent = "send" /\ agent' = "sleep" /\ nap' = Interval /\ sqs \subseteq sqs'
        /\ report.line => report \in sqs'
        /\ UNCHANGED <<line, spool, lineStored, dropped, looked>>
    BY <1>1, FilesTyped DEF SendReport, InQueue, backend, ghosts
  <2>2. Safe => Safe'
    BY <2>1 DEF Safe, Carried, Sending
  <2>3. Waiting' => Waiting
    BY <2>1, <2>2 DEF Waiting
  <2>4. Waiting' => line = 0
    BY <2>1, <2>3 DEF Read, Sending
  <2>5. Waiting' => line' + nap' <= Lookback
    BY <2>1, <2>4, TimesTyped
  <2>6. ~report'.line
    BY <1>1 DEF SendReport, NoReport
  <2>. QED  BY <2>1, <2>2, <2>5, <2>6 DEF Read, Sending
<1>2. CASE SendFails
  <2>1. /\ agent = "send" /\ agent' = "backoff"
        /\ UNCHANGED <<line, sqs, lineStored, sincePing, looked>>
        /\ \/ spool' = Spooled(report) /\ Drops(EvictsLine)
           \/ spool' = Spooled(EmptyFile) /\ Drops(EvictsLine \/ report.line)
           \/ spool' = spool /\ Drops(report.line)
    BY <1>2 DEF SendFails, backend, ghosts
  <2>2. report \in Report
    BY DEF ReportsTypeOK
  <2>3. ASSUME report.line PROVE Safe'
    <3>1. CASE spool' = Spooled(report)
      BY <2>2, <2>3, <3>1, SpooledTyped DEF Safe, Carried
    <3>2. CASE Drops(TRUE)
      BY <2>1, <3>2 DEF Drops, Safe, Carried
    <3>. QED  BY <2>1, <2>3, <3>1, <3>2 DEF Drops
  <2>4. ASSUME NEW k \in DOMAIN spool, spool[k].line PROVE Safe'
    <3>1. CASE spool' = spool
      BY <2>4, <3>1 DEF Safe, Carried
    <3>2. ASSUME NEW r \in Report \cup {EmptyFile}, spool' = Spooled(r), EvictsLine => Drops(TRUE)
          PROVE  Safe'
      <4>1. CASE \E m \in DOMAIN Spooled(r) : Spooled(r)[m] = spool[k]
        BY <2>4, <3>2, <4>1 DEF Safe, Carried
      <4>2. CASE Len(spool) = SpoolMax /\ spool[k] = Head(spool)
        <5>1. Drops(TRUE)
          BY <2>4, <3>2, <4>2 DEF EvictsLine
        <5>. QED  BY <2>1, <5>1 DEF Drops, Safe, Carried
      <4>. QED  BY <3>2, <4>1, <4>2, SpooledTyped
    <3>. QED  BY <2>1, <2>2, <3>1, <3>2 DEF Drops
  <2>5. dropped => Safe'
    BY <2>1 DEF Drops, Safe, Carried
  <2>6. Safe => Safe'
    <3>1. lineStored \/ (\E r \in sqs : r.line) => Safe'
      BY <2>1 DEF Safe, Carried
    <3>. QED  BY <2>3, <2>4, <2>5, <3>1 DEF Safe, Carried
  <2>7. Waiting' => Waiting
    BY <2>1, <2>6 DEF Waiting
  <2>8. Waiting' => line' = 0
    BY <2>1, <2>7 DEF Read, Sending
  <2>9. Waiting' => line' + Interval <= sincePing' \/ (failures' = 1 /\ line' + nap' <= Backoff(1))
    <3>1. nap' = Backoff(failures') /\ failures' \in Nat
      <4>1. failures \in Nat
        BY TimesTyped
      <4>. QED  BY <1>2, <4>1 DEF SendFails
    <3>2. Backoff(failures') \in Nat
      <4>1. BackoffMax \in Nat
        BY ReportsConstants
      <4>. QED  BY <3>1, <4>1, BackoffTyped
    <3>. HIDE DEF Backoff
    <3>. QED  BY <2>1, <2>8, <3>1, <3>2, TimesTyped DEF Paced
  <2>10. ~report'.line
    BY <1>2 DEF SendFails, NoReport
  <2>. QED  BY <2>1, <2>6, <2>9, <2>10 DEF Read, Sending
<1>. QED  BY <1>1, <1>2

LEMMA LoopReads ==
    ASSUME ReportsTypeOK, Read, BackoffEnds \/ WakeUp
    PROVE  Read'
<1>1. CASE BackoffEnds
  <2>1. /\ agent = "backoff" /\ agent' = "sleep" /\ nap = 0 /\ nap' = Interval
        /\ UNCHANGED <<line, report, spool, sqs, lineStored, dropped, looked>>
    BY <1>1 DEF BackoffEnds, backend, ghosts
  <2>2. (Safe => Safe') /\ (Waiting' => Waiting)
    BY <2>1 DEF Safe, Waiting, Carried, Sending
  <2>3. Waiting' => line + Interval <= sincePing \/ line <= Backoff(1)
    BY <2>1, <2>2, TimesTyped DEF Read
  <2>4. Waiting' => line' + nap' <= Lookback
    BY <2>1, <2>3, TimesTyped
  <2>. QED  BY <2>1, <2>2, <2>4 DEF Read, Sending
<1>2. CASE WakeUp
  <2>1. /\ agent = "sleep" /\ agent' = "tick" /\ nap = 0
        /\ UNCHANGED <<line, report, spool, sqs, lineStored, dropped, looked>>
    BY <1>2 DEF WakeUp, backend, ghosts
  <2>2. (Safe => Safe') /\ (Waiting' => Waiting)
    BY <2>1 DEF Safe, Waiting, Carried, Sending
  <2>3. Waiting' => line' <= Lookback
    BY <2>1, <2>2, TimesTyped DEF Read
  <2>. QED  BY <2>1, <2>2, <2>3 DEF Read, Sending
<1>. QED  BY <1>1, <1>2

LEMMA FreshReads ==
    ASSUME ReportsTypeOK, Read, AgentCrash \/ WatchdogKill
    PROVE  Read'
<1>1. /\ agent' = "tick" /\ UNCHANGED <<line, spool, sqs, lineStored, dropped>>
      /\ looked' = IF report.line THEN "never" ELSE looked
      /\ ~report'.line
  BY DEF AgentCrash, WatchdogKill, FreshProcess, backend, NoReport
<1>2. Waiting' => Waiting \/ (agent \in Sending /\ report.line)
  <2>1. report.line => agent \in Sending
    BY DEF Read
  <2>2. ~report.line /\ Safe => Safe'
    BY <1>1 DEF Safe, Carried
  <2>. QED  BY <1>1, <2>1, <2>2 DEF Waiting
<1>5. looked' = "read" => Safe'
  BY <1>1 DEF Read, Safe, Carried
<1>3. Waiting => line <= Lookback
  <2>. SUFFICES ASSUME Waiting PROVE line <= Lookback
    OBVIOUS
  <2>1. CASE agent = "tick" \/ agent \in Sending
    BY <2>1, TimesTyped DEF Read
  <2>2. CASE agent = "backoff"
    BY <2>2, TimesTyped DEF Read
  <2>3. CASE agent = "sleep"
    BY <2>3, TimesTyped DEF Read
  <2>. QED  BY <2>1, <2>2, <2>3 DEF ReportsTypeOK
<1>4. agent \in Sending /\ report.line => line <= Lookback
  BY TimesTyped DEF Read
<1>. QED  BY <1>1, <1>2, <1>3, <1>4, <1>5 DEF Read, Sending

LEMMA WorldReads ==
    ASSUME ReportsTypeOK, Paced, Read,
           \/ TimePasses \/ HourPasses \/ HostChanges \/ LineLogged
           \/ \E r \in Report, again \in BOOLEAN : DeliverReport(r, again)
    PROVE  Read'
<1>1. CASE TimePasses
  <2>1. /\ agent \in {"backoff", "sleep"} /\ agent' = agent /\ failures' = failures /\ nap > 0
        /\ nap' = nap - 1 /\ sincePing' = sincePing + 1
        /\ UNCHANGED <<report, spool, sqs, lineStored, dropped, looked>>
    BY <1>1 DEF TimePasses, memory, backend, ghosts
  <2>2. line' <= line + 1 /\ line' \in Int /\ (line' = NotYet <=> line = NotYet)
    BY <1>1, TimesTyped DEF TimePasses
  <2>3. (Safe => Safe') /\ (Waiting' => Waiting)
    BY <2>1, <2>2 DEF Safe, Waiting, Carried, Sending
  <2>4. CASE agent = "backoff"
    BY <2>1, <2>2, <2>3, <2>4, TimesTyped DEF Read, Sending
  <2>5. CASE agent = "sleep"
    BY <2>1, <2>2, <2>3, <2>5, TimesTyped DEF Read, Sending
  <2>. QED  BY <2>1, <2>4, <2>5
<1>2. CASE HourPasses \/ HostChanges
  <2>1. UNCHANGED <<line, agent, failures, nap, sincePing, report, spool, sqs, lineStored, dropped, looked>>
    BY <1>2 DEF HourPasses, HostChanges, memory, clocks, backend, ghosts
  <2>. QED  BY <2>1 DEF Read, Safe, Waiting, Carried, OnItsWay
<1>3. CASE LineLogged
  <2>1. /\ line = NotYet /\ line' = 0
        /\ UNCHANGED <<agent, failures, nap, sincePing, report, spool, sqs, lineStored, dropped, looked>>
    BY <1>3 DEF LineLogged, memory, clocks, backend, ghosts
  <2>2. agent = "backoff" => line' + Interval <= sincePing
                             \/ (failures = 1 /\ line' + nap <= Backoff(1))
    BY <2>1, TimesTyped DEF Paced
  <2>3. agent = "sleep" => line' + nap <= Lookback
    BY <2>1, TimesTyped DEF Paced
  <2>4. line' \in 0..Lookback
    BY <2>1, TimesTyped
  <2>5. Safe => Safe'
    BY <2>1 DEF Safe, Carried
  <2>. QED  BY <2>1, <2>2, <2>3, <2>4, <2>5 DEF Read, OnItsWay
<1>4. ASSUME NEW r \in Report, NEW again \in BOOLEAN, DeliverReport(r, again)
      PROVE  Read'
  <2>1. /\ lineStored' = (lineStored \/ r.line) /\ sqs \ {r} \subseteq sqs'
        /\ dropped' = (dropped /\ ~r.line)
        /\ UNCHANGED <<line, agent, failures, nap, sincePing, report, spool, looked>>
    BY <1>4 DEF DeliverReport, memory, clocks
  <2>2. OnItsWay => OnItsWay'
    BY <2>1 DEF OnItsWay
  <2>3. Safe => Safe'
    BY <2>1, <2>2 DEF Safe, Carried, OnItsWay
  <2>4. Waiting' => Waiting
    BY <2>1, <2>3 DEF Waiting
  <2>. QED  BY <2>1, <2>2, <2>3, <2>4 DEF Read
<1>. QED  BY <1>1, <1>2, <1>3, <1>4

LEMMA HostStarts == ReportsInit => HostInv
<1>. SUFFICES ASSUME ReportsInit PROVE HostInv
  OBVIOUS
<1>1. ReportsTypeOK
  <2>1. /\ hostState = 0 /\ stored = 0 /\ lastHash = NoValue /\ line = NotYet /\ agent = "tick"
        /\ resyncDue = TRUE /\ failures = 0 /\ nap = 0 /\ sincePing = 0 /\ spool = <<>>
        /\ sqs = {} /\ lineStored = FALSE /\ dropped = FALSE /\ looked = "never" /\ crashes = 0
        /\ report = NoReport
    BY DEF ReportsInit
  <2>2. NoReport \in Report
    BY DEF NoReport, Report
  <2>3. spool \in Seq(Report \cup {EmptyFile}) /\ Len(spool) = 0
    BY <2>1
  <2>4. 0 \in 0..MaxChanges /\ 0 \in 0..TopFailures /\ 0 \in 0..(BackoffMax + Interval)
        /\ 0 \in 0..WatchdogSec /\ 0 \in 0..MaxCrashes /\ NotYet \in NotYet..(Lookback + 1)
        /\ 0 <= SpoolMax
    BY ReportsConstants, TopTyped DEF NotYet
  <2>. QED  BY <2>1, <2>2, <2>3, <2>4 DEF ReportsTypeOK
<1>2. Paced /\ Read
  BY DEF ReportsInit, Paced, Read, Safe, Waiting, Sending, NoReport
<1>. QED  BY <1>1, <1>2 DEF HostInv

LEMMA HostStep == HostInv /\ ReportsNext => HostInv'
<1>. SUFFICES ASSUME HostInv, ReportsNext PROVE HostInv'
  OBVIOUS
<1>1. ReportsTypeOK /\ Paced /\ Read
  BY DEF HostInv
<1>2. ReportsTypeOK' /\ Paced'
  BY <1>1, ReportsTyped, PacedKept
<1>3. Read'
  BY <1>1, <1>2, TickReads, FlushReads, SendReads, LoopReads, FreshReads, WorldReads
     DEF ReportsNext, AgentStep
<1>. QED  BY <1>2, <1>3 DEF HostInv

LEMMA HostRests == HostInv /\ UNCHANGED reportsVars => HostInv'
<1>. SUFFICES ASSUME HostInv, UNCHANGED reportsVars PROVE HostInv'
  OBVIOUS
<1>1. UNCHANGED <<hostState, line, agent, lastHash, resyncDue, failures, nap, sincePing, report,
                  spool, sqs, stored, lineStored, dropped, looked, crashes>>
  BY DEF reportsVars, memory, clocks, backend, ghosts
<1>2. ReportsTypeOK'
  BY <1>1 DEF HostInv, ReportsTypeOK
<1>3. Paced' /\ Read'
  BY <1>1 DEF HostInv, Paced, Read, Safe, Waiting, Carried, OnItsWay
<1>. QED  BY <1>2, <1>3 DEF HostInv

LEMMA HostInvariant == ReportsSpec => []HostInv
BY HostStarts, HostStep, HostRests, PTL DEF ReportsSpec

(***************************************************************************)
(* The loop, its clocks, the spool and the queue keep their types          *)
(* (scripts/ec2_agent.py).                                                 *)
(***************************************************************************)
THEOREM ReportsTypeCorrect == ReportsSpec => []ReportsTypeOK
<1>1. HostInv => ReportsTypeOK
  BY DEF HostInv
<1>. QED  BY <1>1, HostInvariant, PTL

LEMMA HostCovers == HostInv => JournalCovered
<1>. SUFFICES ASSUME HostInv, line > Lookback, Waiting PROVE FALSE
  BY TimesTyped DEF JournalCovered, Safe, Waiting, HostInv
<1>1. ReportsTypeOK /\ Read
  BY DEF HostInv
<1>2. CASE agent \in {"tick"} \cup Sending
  BY <1>1, <1>2, TimesTyped DEF Read
<1>3. CASE agent = "backoff"
  BY <1>1, <1>3, TimesTyped DEF Read
<1>4. CASE agent = "sleep"
  BY <1>1, <1>4, TimesTyped DEF Read
<1>. QED  BY <1>1, <1>2, <1>3, <1>4 DEF ReportsTypeOK

(***************************************************************************)
(* No journal line falls between two windows: one that is older than any   *)
(* tick would read was stored or is in a report, unless one with it was    *)
(* given up or journalctl failed whenever it was asked for the line        *)
(* (read_auth_events, _spool, _enforce_spool_caps), for any interval,      *)
(* backoff and spool, if the window outlasts the watchdog.                 *)
(***************************************************************************)
THEOREM JournalHolds == ReportsSpec => []JournalCovered
BY HostInvariant, HostCovers, PTL

-----------------------------------------------------------------------------
(* ConnectorScheduler: types                                               *)

(* A set of operations has a newest one.                                   *)
LEMMA NewestOp ==
    ASSUME NEW S \in SUBSET Op, S # {}
    PROVE  Newest(S) \in S
<1>. DEFINE T == {MaxOps - o : o \in S}
            R == OpToRel(<, Nat)
<1>0. MaxOps \in Nat
  BY SchedAssumption
<1>1. T # {}
  OBVIOUS
<1>2. T \subseteq Nat
  BY <1>0 DEF Op
<1>3. IsWellFoundedOn(R, Nat)
  BY NatLessThanWellFounded
<1>4. \A x, y \in Nat : x < y => <<x, y>> \in R
  BY DEF OpToRel
<1>. HIDE DEF R
<1>5. PICK x \in T : \A y \in T : ~(<<y, x>> \in R)
  <2>. HIDE DEF T
  <2>. QED  BY <1>1, <1>2, <1>3, WFMin
<1>6. PICK o \in S : x = MaxOps - o
  BY <1>5
<1>7. ASSUME NEW q \in S PROVE q <= o
  <2>1. MaxOps - q \in T
    OBVIOUS
  <2>2. ~(MaxOps - q < MaxOps - o)
    BY <1>2, <1>4, <1>5, <1>6, <2>1
  <2>. QED  BY <1>0, <2>2 DEF Op
<1>8. \E n \in S : \A q \in S : q <= n
  BY <1>7
<1>. QED  BY <1>8 DEF Newest

Decided == {o \in Op : status[o] \in Verdict}

(* The types of the ledger; whoever has run belongs to a connector.        *)
LedgerTypeOK ==
    /\ status \in [Op -> {"none", "skipped"} \cup Open \cup Verdict]
    /\ owner \in [Op -> Connector \cup {None}]
    /\ count \in [Op -> 0..MaxRetry]
    /\ reason \in [Op -> Reason]
    /\ meta \in [Connector -> Meta]
    /\ writing \subseteq Decided
    /\ \A o \in Op : status[o] # "none" => owner[o] \in Connector

LEMMA BumpTyped == ASSUME NEW n \in 0..MaxRetry PROVE Bump(n) \in 0..MaxRetry
BY SchedAssumption DEF Bump

LEMMA DesiredTyped ==
    ASSUME LedgerTypeOK, NEW o \in Op
    PROVE  Desired(o) \in Meta
<1>1. count[o] \in 0..MaxRetry /\ reason[o] \in Reason /\ 0 \in 0..MaxRetry
  BY SchedAssumption DEF LedgerTypeOK
<1>. QED  BY <1>1 DEF Desired, Meta, NoMeta, Reason

LEMMA RequestTyped ==
    ASSUME LedgerTypeOK, NEW o \in Op, NEW c \in Connector, NEW n \in 0..MaxRetry, Request(o, c, n)
    PROVE  LedgerTypeOK' /\ Decided \subseteq Decided'
<1>1. /\ status[o] = "none" /\ UNCHANGED <<reason, meta, writing>>
      /\ status' = [status EXCEPT ![o] = "queued"]
      /\ owner' = [owner EXCEPT ![o] = c]
      /\ count' = [count EXCEPT ![o] = n]
  BY DEF Request, Fresh
<1>2. Decided \subseteq Decided'
  BY <1>1 DEF Decided, LedgerTypeOK, Open, Verdict
<1>. QED  BY <1>1, <1>2 DEF LedgerTypeOK, Open

LEMMA SkipTyped ==
    ASSUME LedgerTypeOK, NEW o \in Op, NEW c \in Connector, Skip(o, c)
    PROVE  LedgerTypeOK' /\ Decided \subseteq Decided'
<1>1. /\ status[o] = "none" /\ UNCHANGED <<count, reason, meta, writing>>
      /\ status' = [status EXCEPT ![o] = "skipped"]
      /\ owner' = [owner EXCEPT ![o] = c]
  BY DEF Skip, Fresh
<1>2. Decided \subseteq Decided'
  BY <1>1 DEF Decided, LedgerTypeOK, Open, Verdict
<1>. QED  BY <1>1, <1>2 DEF LedgerTypeOK

LEMMA ProceedTyped ==
    ASSUME LedgerTypeOK, NEW o \in Op, Begin(o) \/ Close(o) \/ WriteMeta(o) \/ LoseWrites({o})
    PROVE  LedgerTypeOK' /\ Decided \subseteq Decided'
<1>1. CASE Begin(o)
  <2>1. /\ status[o] = "queued" /\ status' = [status EXCEPT ![o] = "running"]
        /\ UNCHANGED <<owner, count, reason, meta, writing>>
    BY <1>1 DEF Begin
  <2>2. Decided \subseteq Decided'
    BY <2>1 DEF Decided, LedgerTypeOK, Open, Verdict
  <2>. QED  BY <2>1, <2>2 DEF LedgerTypeOK, Open
<1>2. CASE Close(o)
  <2>1. PICK v \in Verdict, r \in Reason :
          /\ status' = [status EXCEPT ![o] = v] /\ reason' = [reason EXCEPT ![o] = r]
    BY <1>2 DEF Close, Succeed, Fail, TimeOut, Verdict, Reason
  <2>2. status[o] \in Open /\ writing' = writing \cup {o} /\ UNCHANGED <<owner, meta>>
    BY <1>2 DEF Close, Succeed, Fail, TimeOut, Open
  <2>3. count' \in [Op -> 0..MaxRetry]
    <3>1. count[o] \in 0..MaxRetry /\ meta[owner[o]].count \in 0..MaxRetry
      BY <2>2 DEF LedgerTypeOK, Open, Meta
    <3>2. \/ count' = count
          \/ count' = [count EXCEPT ![o] = Bump(meta[owner[o]].count)]
          \/ count' = [count EXCEPT ![o] = Bump(count[o])]
      BY <1>2 DEF Close, Succeed, Fail, TimeOut
    <3>. QED  BY <3>1, <3>2, BumpTyped DEF LedgerTypeOK
  <2>4. Decided' = Decided \cup {o}
    BY <2>1, <2>2 DEF Decided, LedgerTypeOK
  <2>5. /\ status' \in [Op -> {"none", "skipped"} \cup Open \cup Verdict]
        /\ reason' \in [Op -> Reason]
    BY <2>1 DEF LedgerTypeOK
  <2>6. \A q \in Op : status'[q] # "none" => owner'[q] \in Connector
    BY <2>1, <2>2 DEF LedgerTypeOK, Open
  <2>. QED  BY <2>2, <2>3, <2>4, <2>5, <2>6 DEF LedgerTypeOK
<1>3. CASE WriteMeta(o) \/ LoseWrites({o})
  <2>1. UNCHANGED <<status, owner, count, reason>> /\ writing' \subseteq writing
    BY <1>3 DEF WriteMeta, LoseWrites
  <2>2. meta' \in [Connector -> Meta]
    BY <1>3, DesiredTyped DEF WriteMeta, LoseWrites, LedgerTypeOK
  <2>3. Decided' = Decided
    BY <2>1 DEF Decided
  <2>. QED  BY <2>1, <2>2, <2>3 DEF LedgerTypeOK
<1>. QED  BY <1>1, <1>2, <1>3

View == [meta : Meta, eligible : BOOLEAN, open : BOOLEAN, repair : Meta]

LEMMA NoViewTyped == NoMeta \in Meta /\ NoView \in View /\ [c \in Connector |-> NoView] \in [Connector -> View]
<1>1. 0 \in 0..MaxRetry
  BY SchedAssumption
<1>2. NoMeta \in Meta
  BY <1>1 DEF NoMeta, Meta, Reason
<1>3. NoView \in View
  BY <1>2 DEF NoView, View
<1>. QED  BY <1>2, <1>3

(* What the tick and the surroundings keep, whatever the ledger does.      *)
TickTypeOK ==
    /\ eligible \subseteq Connector
    /\ tick \in {"sleeping", "listed", "repair", "start"}
    /\ view \in [Connector -> View]
    /\ todo \subseteq Connector
    /\ elapsed \subseteq Decided

SchedInv == LedgerTypeOK /\ TickTypeOK

LEMMA TickTyped ==
    ASSUME SchedInv, TickStep
    PROVE  SchedInv'
<1>0. LedgerTypeOK /\ TickTypeOK
  BY DEF SchedInv
<1>1. CASE ListConnectors
  <2>1. UNCHANGED <<status, owner, count, reason, meta, writing, eligible, todo, elapsed>>
        /\ tick' = "listed"
    BY <1>1 DEF ListConnectors, ledgerVars
  <2>2. view' \in [Connector -> View]
    <3>1. ASSUME NEW m \in Meta, NEW b \in BOOLEAN
          PROVE  [NoView EXCEPT !.meta = m, !.eligible = b] \in View
      BY NoViewTyped DEF View
    <3>2. \A c \in Connector : meta[c] \in Meta /\ (c \in eligible) \in BOOLEAN
      BY <1>0 DEF LedgerTypeOK
    <3>. QED  BY <1>1, <3>1, <3>2 DEF ListConnectors
  <2>. QED  BY <1>0, <2>1, <2>2 DEF SchedInv, LedgerTypeOK, TickTypeOK, Decided
<1>2. CASE ReadLatest
  <2>1. UNCHANGED <<status, owner, count, reason, meta, writing, eligible, elapsed>>
        /\ tick' = "repair" /\ todo' = Connector
    BY <1>2 DEF ReadLatest, ledgerVars
  <2>2. view' \in [Connector -> View]
    <3>1. ASSUME NEW c \in Connector PROVE RepairOf(c, Latest(c)) \in Meta
      <4>1. CASE RowsOf(c) = {}
        <5>1. RepairOf(c, Latest(c)) = view[c].meta
          BY <4>1 DEF Latest, Newest, RepairOf
        <5>. QED  BY <1>0, <5>1 DEF TickTypeOK, View
      <4>2. CASE RowsOf(c) # {}
        <5>1. Latest(c) \in Op
          BY <4>2, NewestOp DEF Latest, RowsOf
        <5>2. Desired(Latest(c)) \in Meta
          BY <1>0, <5>1, DesiredTyped
        <5>3. view[c].meta \in Meta
          BY <1>0 DEF TickTypeOK, View
        <5>. QED  BY <5>2, <5>3 DEF RepairOf
      <4>. QED  BY <4>1, <4>2
    <3>2. ASSUME NEW c \in Connector, NEW b \in BOOLEAN, NEW r \in Meta
          PROVE  [view[c] EXCEPT !.open = b, !.repair = r] \in View
      BY <1>0 DEF TickTypeOK, View
    <3>3. \A c \in Connector : (Latest(c) # None /\ status[Latest(c)] \in Open) \in BOOLEAN
      OBVIOUS
    <3>. QED  BY <1>2, <3>1, <3>2, <3>3 DEF ReadLatest
  <2>. QED  BY <1>0, <2>1, <2>2 DEF SchedInv, LedgerTypeOK, TickTypeOK, Decided
<1>3. ASSUME NEW c \in Connector, Reconcile(c) PROVE SchedInv'
  <2>1. UNCHANGED <<status, owner, count, reason, writing, eligible, elapsed>>
        /\ tick' \in {"repair", "start"} /\ todo' \subseteq Connector
    BY <1>0, <1>3 DEF Reconcile, TickTypeOK
  <2>2. view[c].repair \in Meta
    BY <1>0 DEF TickTypeOK, View
  <2>3. meta' \in [Connector -> Meta]
    BY <1>0, <1>3, <2>2 DEF Reconcile, LedgerTypeOK
  <2>4. view' \in [Connector -> View]
    <3>1. [view[c] EXCEPT !.meta = view[c].repair, !.repair = NoMeta] \in View
      BY <1>0, <2>2, NoViewTyped DEF TickTypeOK, View
    <3>. QED  BY <1>0, <1>3, <3>1 DEF Reconcile, TickTypeOK
  <2>. QED  BY <1>0, <2>1, <2>3, <2>4 DEF SchedInv, LedgerTypeOK, TickTypeOK, Decided
<1>4. ASSUME NEW c \in Connector, EndVisit(c)
      PROVE  /\ view' \in [Connector -> View] /\ todo' \subseteq Connector
             /\ tick' \in {"sleeping", "listed", "repair", "start"}
  BY <1>0, <1>4, NoViewTyped DEF EndVisit, TickTypeOK
<1>5. ASSUME NEW c \in Connector, StartDue(c) PROVE SchedInv'
  <2>1. PICK o \in Op : Request(o, c, view[c].meta.count)
    BY <1>5 DEF StartDue
  <2>2. view[c].meta.count \in 0..MaxRetry
    BY <1>0 DEF TickTypeOK, View, Meta
  <2>3. LedgerTypeOK' /\ Decided \subseteq Decided'
    BY <1>0, <2>1, <2>2, RequestTyped
  <2>4. UNCHANGED <<eligible, elapsed>> /\ EndVisit(c)
    BY <1>5 DEF StartDue
  <2>. QED  BY <1>0, <1>4, <2>3, <2>4 DEF SchedInv, TickTypeOK
<1>6. ASSUME NEW c \in Connector, PassOver(c) PROVE SchedInv'
  <2>1. UNCHANGED <<status, owner, count, reason, meta, writing, eligible, elapsed>> /\ EndVisit(c)
    BY <1>6 DEF PassOver, ledgerVars
  <2>. QED  BY <1>0, <1>4, <2>1 DEF SchedInv, LedgerTypeOK, TickTypeOK, Decided
<1>. QED  BY <1>1, <1>2, <1>3, <1>5, <1>6 DEF TickStep

LEMMA SchedTyped == SchedInv /\ SchedNext => SchedInv'
<1>. SUFFICES ASSUME SchedInv, SchedNext PROVE SchedInv'
  OBVIOUS
<1>0. LedgerTypeOK /\ TickTypeOK
  BY DEF SchedInv
<1>1. CASE TickFails \/ SchedRestart
  <2>1. UNCHANGED <<status, owner, count, reason, meta, eligible, elapsed>>
        /\ tick' = "sleeping" /\ todo' = {} /\ writing' \subseteq writing
        /\ view' = [c \in Connector |-> NoView]
    BY <1>1 DEF TickFails, SchedRestart, ledgerVars
  <2>. QED  BY <1>0, <2>1, NoViewTyped DEF SchedInv, LedgerTypeOK, TickTypeOK, Decided
<1>2. ASSUME NEW o \in Op, Elapse(o) PROVE SchedInv'
  <2>1. UNCHANGED <<status, owner, count, reason, meta, writing, eligible, tick, view, todo>>
        /\ elapsed' = elapsed \cup {o} /\ status[o] \in Verdict
    BY <1>2 DEF Elapse, ledgerVars, tickVars, Verdict
  <2>. QED  BY <1>0, <2>1 DEF SchedInv, LedgerTypeOK, TickTypeOK, Decided
<1>3. ASSUME NEW o \in Op, Proceed(o) PROVE SchedInv'
  <2>1. LedgerTypeOK' /\ Decided \subseteq Decided'
    BY <1>0, <1>3, ProceedTyped DEF Proceed
  <2>2. UNCHANGED <<eligible, tick, view, todo, elapsed>>
    BY <1>3 DEF Proceed, tickVars
  <2>. QED  BY <1>0, <2>1, <2>2 DEF SchedInv, TickTypeOK
<1>4. ASSUME NEW c \in Connector, UserStart(c) PROVE SchedInv'
  <2>1. PICK o \in Op, n \in {0, meta[c].count} : Request(o, c, n)
    BY <1>4 DEF UserStart
  <2>2. n \in 0..MaxRetry
    BY <1>0, SchedAssumption DEF LedgerTypeOK, Meta
  <2>3. LedgerTypeOK' /\ Decided \subseteq Decided'
    BY <1>0, <2>1, <2>2, RequestTyped
  <2>4. UNCHANGED <<eligible, tick, view, todo, elapsed>>
    BY <1>4 DEF UserStart, tickVars
  <2>. QED  BY <1>0, <2>3, <2>4 DEF SchedInv, TickTypeOK
<1>5. ASSUME NEW c \in Connector, Administer(c) PROVE SchedInv'
  <2>1. UNCHANGED <<status, owner, count, reason, meta, writing, tick, view, todo, elapsed>>
        /\ eligible' \subseteq eligible \cup {c}
    BY <1>5 DEF Administer, ledgerVars, tickVars
  <2>. QED  BY <1>0, <2>1 DEF SchedInv, LedgerTypeOK, TickTypeOK, Decided
<1>6. ASSUME NEW o \in Op, NEW c \in Connector, SkipItem(o, c) PROVE SchedInv'
  <2>1. LedgerTypeOK' /\ Decided \subseteq Decided'
    BY <1>0, <1>6, SkipTyped DEF SkipItem
  <2>2. UNCHANGED <<eligible, tick, view, todo, elapsed>>
    BY <1>6 DEF SkipItem, tickVars
  <2>. QED  BY <1>0, <2>1, <2>2 DEF SchedInv, TickTypeOK
<1>. QED  BY <1>1, <1>2, <1>3, <1>4, <1>5, <1>6, TickTyped DEF SchedNext

LEMMA SchedStarts == SchedInit => SchedInv
<1>. SUFFICES ASSUME SchedInit PROVE SchedInv
  OBVIOUS
<1>1. 0 \in 0..MaxRetry
  BY SchedAssumption
<1>2. LedgerTypeOK
  BY <1>1, NoViewTyped DEF SchedInit, Init, LedgerTypeOK, Reason, None
<1>3. TickTypeOK
  BY NoViewTyped DEF SchedInit, TickTypeOK
<1>. QED  BY <1>2, <1>3 DEF SchedInv

LEMMA SchedRests == SchedInv /\ UNCHANGED schedVars => SchedInv'
BY DEF schedVars, ledgerVars, tickVars, SchedInv, LedgerTypeOK, TickTypeOK, Decided

LEMMA SchedTypes == SchedInv => SchedTypeOK
BY DEF SchedTypeOK, SchedInv, LedgerTypeOK, TickTypeOK, Decided, View

(***************************************************************************)
(* The ledger, the snapshot and the tick keep their types: whatever the    *)
(* tick writes back from its snapshot is the metadata of some verdict of   *)
(* the ledger, or none (_reconcile_retry_metadata).                        *)
(***************************************************************************)
THEOREM SchedTypeCorrect == SchedSpec => []SchedTypeOK
<1>1. SchedSpec => []SchedInv
  BY SchedStarts, SchedTyped, SchedRests, PTL DEF SchedSpec
<1>. QED  BY <1>1, SchedTypes, PTL

-----------------------------------------------------------------------------
(* MCHealing: one part moves                                               *)

HealingInv == part \in Parts /\ SchedInv /\ HostInv /\ FimInv /\ LivenessInv

(***************************************************************************)
(* The parts do not disturb each other: with one of them moving, whichever *)
(* it is, every part keeps its type and its promise.                       *)
(***************************************************************************)
THEOREM HealingHolds ==
    HealingSpec => [](HealingTypeOK /\ JournalCovered /\ ChangesComplete /\ AlarmsPaired)
<1>1. HealingInit => HealingInv
  BY SchedStarts, HostStarts, FimStarts, LivenessStarts DEF HealingInit, HealingInv
<1>2. HealingInv /\ [HealingNext]_healingVars => HealingInv'
  <2>. SUFFICES ASSUME HealingInv, [HealingNext]_healingVars PROVE HealingInv'
    OBVIOUS
  <2>1. /\ SchedNext \/ UNCHANGED schedVars
        /\ ReportsNext \/ UNCHANGED reportsVars
        /\ FimNext \/ UNCHANGED fimVars
        /\ LivenessNext \/ UNCHANGED livenessVars
        /\ UNCHANGED part
    BY DEF HealingNext, healingVars, OthersRest, Rests
  <2>2. SchedInv'
    BY <2>1, SchedTyped, SchedRests DEF HealingInv
  <2>3. HostInv'
    BY <2>1, HostStep, HostRests DEF HealingInv
  <2>4. FimInv'
    BY <2>1, FimStep, FimRests DEF HealingInv
  <2>5. LivenessInv'
    BY <2>1, LivenessStep, LivenessRests DEF HealingInv
  <2>. QED  BY <2>1, <2>2, <2>3, <2>4, <2>5 DEF HealingInv, Parts
<1>3. HealingInv => HealingTypeOK /\ JournalCovered /\ ChangesComplete /\ AlarmsPaired
  BY SchedTypes, HostCovers, FimCovers, LivenessCovers
     DEF HealingInv, HealingTypeOK, HostInv, FimInv, LivenessInv
<1>. QED  BY <1>1, <1>2, <1>3, PTL DEF HealingSpec
=============================================================================
