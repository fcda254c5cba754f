----------------------------- MODULE AgentLiveness -----------------------------
(***************************************************************************)
(* Absence detection: the heartbeats of an agent against the periodic      *)
(* check that finds it silent.  The code has it twice, for probe agents    *)
(* (services/projection.py, services/staleness.py) and for hosts           *)
(* (hosts/projection.py, hosts/staleness.py).  The two differ in what the  *)
(* check writes back and in the time that a heartbeat is given.            *)
(***************************************************************************)
EXTENDS Integers

CONSTANTS
    Drains,       \* the drains of the queue, each with a heartbeat in hand
    StaleAfter,   \* STALE_AFTER_SECONDS, in units of time
    MaxAlarms     \* bound: that many stale alarms without a recovery, or more

(* With a bound of 1 an alarm could not be told from many.                 *)
ASSUME LivenessAssumption == StaleAfter \in Nat \ {0} /\ MaxAlarms \in Nat \ {0, 1}

VARIABLES
    kind,       \* of agent
    row,        \* its row; age is that of last_report or updated_at
    beat,       \* of each drain: prev_active as it was read, or a recovery to be stored
    check,      \* staleness.check: idle, row listed, alarm stored
    silent,     \* the agent sends no more reports
    owed,       \* stale alarms stored minus recoveries stored (ghost)
    disturbed,  \* a heartbeat met a check or another, or one did not finish (ghost)
    doubled     \* a heartbeat met another (ghost)

livenessVars == <<kind, row, beat, check, silent, owed, disturbed, doubled>>

Ages == 0..(StaleAfter + 1)

LivenessTypeOK ==
    /\ kind \in {"probe", "host"}
    /\ row \in [known : BOOLEAN, active : BOOLEAN, age : Ages]
    /\ beat \in [Drains -> {"idle", "first", "active", "inactive", "recovered"}]
    /\ check \in {"idle", "listed", "alarmed"}
    /\ silent \in BOOLEAN
    /\ owed \in -1..MaxAlarms
    /\ disturbed \in BOOLEAN /\ doubled \in BOOLEAN

LivenessInit ==
    /\ kind \in {"probe", "host"}
    /\ row = [known |-> FALSE, active |-> FALSE, age |-> 0]
    /\ beat = [d \in Drains |-> "idle"] /\ check = "idle"
    /\ silent = FALSE
    /\ owed = 0 /\ disturbed = FALSE /\ doubled = FALSE

-----------------------------------------------------------------------------
(* A heartbeat: _project_heartbeat, in a drain d *)

NoBeat  == \A d \in Drains : beat[d] = "idle"
Beat(d, b) == beat' = [beat EXCEPT ![d] = b]

(* It reads the row, whatever another drain is about to do to it, *)
BeatReads(d) ==
    /\ beat[d] = "idle" /\ ~silent
    /\ Beat(d, IF ~row.known THEN "first" ELSE IF row.active THEN "active" ELSE "inactive")
    /\ disturbed' = (disturbed \/ check # "idle" \/ ~NoBeat)
    /\ doubled' = (doubled \/ ~NoBeat)
    /\ UNCHANGED <<kind, row, check, silent, owed>>

(* Mutant: any agent that was not active before has recovered.             *)
RecoversAlways(d) == beat[d] \in {"inactive", "first"}
Recovers(d)       == beat[d] = "inactive"

(* and stores it.  A host's report is as old as its arrival; a probe       *)
(* agent's carries observed_at, and the queue may have kept it.            *)
BeatUpserts(d, age) ==
    /\ beat[d] \in {"first", "active", "inactive"}
    /\ kind = "host" => age = 0
    /\ row' = [known |-> TRUE, active |-> TRUE, age |-> age]
    /\ Beat(d, IF Recovers(d) THEN "recovered" ELSE "idle")
    /\ UNCHANGED <<kind, check, silent, owed, disturbed, doubled>>

(* The pipeline stores the recovery that the projection returned.  Bound:  *)
(* recoveries beyond the alarms are counted up to one.                     *)
RecoveryStored(d) ==
    /\ beat[d] = "recovered"
    /\ Beat(d, "idle")
    /\ owed' = IF owed \in {-1, MaxAlarms} THEN owed ELSE owed - 1
    /\ UNCHANGED <<kind, row, check, silent, disturbed, doubled>>

BeatLost(d) ==
    /\ beat[d] # "idle"
    /\ Beat(d, "idle")
    /\ disturbed' = TRUE
    /\ UNCHANGED <<kind, row, check, silent, owed, doubled>>

-----------------------------------------------------------------------------
(* staleness.check, on the scheduler's thread *)

(* It lists the rows, *)
CheckLists ==
    /\ check = "idle"
    /\ row.known /\ row.active /\ row.age > StaleAfter
    /\ check' = "listed"
    /\ disturbed' = (disturbed \/ ~NoBeat)
    /\ UNCHANGED <<kind, row, beat, silent, owed, doubled>>

(* stores the alarm of one that is too old, *)
StaleStored ==
    /\ check = "listed"
    /\ owed' = IF owed = MaxAlarms THEN owed ELSE owed + 1
    /\ check' = "alarmed"
    /\ UNCHANGED <<kind, row, beat, silent, disturbed, doubled>>

(* Mutant: the row is written back as it was listed. *)
AsListed == [known |-> TRUE, active |-> TRUE, age |-> StaleAfter + 1]
AsFound  == IF kind = "probe" THEN [known |-> TRUE, active |-> FALSE, age |-> StaleAfter + 1]
                              ELSE [row EXCEPT !.active = FALSE]

(* and makes it inactive: upsert_probe_agent with the last_report that was *)
(* listed, or set_host_active.                                             *)
CheckUpserts ==
    /\ check = "alarmed"
    /\ row' = AsFound
    /\ check' = "idle"
    /\ UNCHANGED <<kind, beat, silent, owed, disturbed, doubled>>

(* An error ends the check of this agent until the next tick. *)
CheckFails ==
    /\ check # "idle"
    /\ check' = "idle"
    /\ disturbed' = TRUE
    /\ UNCHANGED <<kind, row, beat, silent, owed, doubled>>

-----------------------------------------------------------------------------
RowAges ==
    /\ row.known /\ row.age <= StaleAfter
    /\ row' = [row EXCEPT !.age = @ + 1]
    /\ UNCHANGED <<kind, beat, check, silent, owed, disturbed, doubled>>

FallsSilent ==
    /\ ~silent
    /\ silent' = TRUE
    /\ UNCHANGED <<kind, row, beat, check, owed, disturbed, doubled>>

LivenessNext ==
    \/ \E d \in Drains : BeatReads(d) \/ RecoveryStored(d) \/ BeatLost(d)
    \/ \E d \in Drains, age \in Ages : BeatUpserts(d, age)
    \/ CheckLists \/ StaleStored \/ CheckUpserts \/ CheckFails
    \/ RowAges \/ FallsSilent

LivenessSpec == LivenessInit /\ [][LivenessNext]_livenessVars

(* Time passes, the scheduler ticks, and not every tick meets an error;    *)
(* a handler ends one way or the other.                                    *)
BeatEnds(d) == RecoveryStored(d) \/ BeatLost(d) \/ \E age \in Ages : BeatUpserts(d, age)

LivenessFairness ==
    /\ WF_livenessVars(RowAges) /\ WF_livenessVars(CheckLists)
    /\ WF_livenessVars(\E d \in Drains : BeatEnds(d))
    /\ SF_livenessVars(StaleStored) /\ SF_livenessVars(CheckUpserts)

LivenessFairSpec == LivenessSpec /\ LivenessFairness

-----------------------------------------------------------------------------
(* Properties *)

(***************************************************************************)
(* An agent is never said to have recovered more often than it was said to *)
(* be silent, unless two drains had a heartbeat of it in hand at once (each *)
(* reads the inactive row and each stores a recovery); and all alarms are  *)
(* settled while it is active, unless two heartbeats met, one ran in the   *)
(* midst of a check or an error cut one of the two short: the window is    *)
(* open between the list of the rows and the write that makes one inactive. *)
(***************************************************************************)
AlarmsPaired ==
    /\ ~doubled => owed >= 0
    /\ ~disturbed /\ NoBeat /\ check = "idle" /\ row.active => owed = 0

(***************************************************************************)
(* An agent that fell silent is found out: its row becomes inactive, which *)
(* only happens after an alarm was stored, whatever late heartbeat or      *)
(* failing check comes in between.                                         *)
(***************************************************************************)
SilenceFound == (silent /\ row.known) ~> (row.known /\ ~row.active)
=============================================================================
