------------------------------- MODULE FimEngine -------------------------------
(***************************************************************************)
(* File integrity monitoring on a host (scripts/fim_engine.py): the scan   *)
(* thread and the inotify thread, which compare a file with a baseline     *)
(* that survives the process, and the queue of changes that the agent's    *)
(* tick drains.  One path is followed; what it holds (hash, mode, owner) is*)
(* one value.  Other paths only fill the queue.                            *)
(***************************************************************************)
EXTENDS Integers

CONSTANTS
    Contents,   \* what the file can hold
    Big,        \* those of them over _MAX_HASH_BYTES
    MaxWrites   \* bound: changes on the disk

ASSUME FimAssumption ==
    Contents \subseteq Nat /\ Contents # {} /\ Big \subseteq Contents /\ MaxWrites \in Nat

Gone     == -1   \* no such file, or no such row
NoChange == -2
Values   == Contents \cup {Gone}

VARIABLES
    disk,      \* the file
    writes,    \* how often it changed
    baseline,  \* its row in baseline.db
    critical,  \* the path is one of critical_files, not just in a watched directory
    noticed,   \* inotify reported an event that is not handled
    scan,      \* where the scan thread is
    scanMeta,  \* what it read
    scanHand,  \* a change that it has found and not queued
    seen,      \* the walk of this scan met the path
    truncated, \* a change did not fit in this scan
    watch,     \* where the inotify thread is
    watchMeta,
    watchHand,
    unsent,    \* _pending is not empty
    fimTold,   \* the path according to the last change that was queued (ghost)
    lost,      \* a change after it was lost, with the process or with the marker of a
               \* scan that raised, or out of order (ghost)
    announced  \* a truncation marker was queued after it (ghost)

scanVars  == <<scan, scanMeta, scanHand, seen, truncated>>
watchVars == <<noticed, watch, watchMeta, watchHand>>
queueVars == <<unsent, fimTold, lost, announced>>
fimVars   == <<disk, writes, baseline, critical, scanVars, watchVars, queueVars>>

FimTypeOK ==
    /\ {disk, baseline, fimTold, scanMeta, watchMeta} \subseteq Values
    /\ writes \in 0..MaxWrites
    /\ {critical, noticed, seen, truncated, unsent, lost, announced} \subseteq BOOLEAN
    /\ scan \in {"idle", "walk", "stat", "store", "queue", "deletes", "end"}
    /\ watch \in {"idle", "store", "queue"}
    /\ {scanHand, watchHand} \subseteq Values \cup {NoChange}

FimInit ==
    /\ disk \in Values /\ baseline = disk /\ fimTold = disk   \* left by an earlier run
    /\ writes = 0
    /\ critical \in BOOLEAN
    /\ scan = "idle" /\ scanMeta = Gone /\ scanHand = NoChange
    /\ seen = FALSE /\ truncated = FALSE
    /\ noticed = FALSE
    /\ watch = "idle" /\ watchMeta = Gone /\ watchHand = NoChange
    /\ unsent = FALSE /\ lost = FALSE /\ announced = FALSE

-----------------------------------------------------------------------------
(* Helpers *)

(* _diff_one: what was read, unless the baseline knows it. *)
Diff(meta) == IF meta = baseline THEN NoChange ELSE meta

(* A change is found while the other thread holds one: the order in which  *)
(* the two are queued says nothing about the baseline.                     *)
Found(change, other) == lost' = IF change = NoChange THEN lost ELSE other # NoChange

(* _queue_change *)
Queue(change) == fimTold' = change /\ unsent' = TRUE /\ announced' = FALSE

(* The delete phase passes over a path that inotify watches by itself and  *)
(* that is still there.  Mutant: whether it is there or not.               *)
SkipsWatched == critical
Skips        == critical /\ disk # Gone

(* What a walk takes the file for: in a watched directory a file that is   *)
(* too large is passed over like one that is not there.                    *)
Walked(v) == IF v \in Big /\ ~critical THEN Gone ELSE v

-----------------------------------------------------------------------------
(* The scan thread: _do_scan *)

ScanStarts ==
    /\ scan = "idle"
    /\ scan' = "walk" /\ seen' = FALSE /\ truncated' = FALSE
    /\ UNCHANGED <<disk, writes, baseline, critical, scanMeta, scanHand, watchVars, queueVars>>

(* _iter_paths: the walk yields the path or passes it. *)
ScanWalks ==
    /\ scan = "walk"
    /\ seen' = (Walked(disk) # Gone)
    /\ scan' = IF seen' THEN "stat" ELSE "deletes"
    /\ UNCHANGED <<disk, writes, baseline, critical, scanMeta, scanHand, truncated,
                   watchVars, queueVars>>

(* _scan_one_path reads the file before it takes the lock, *)
ScanReads ==
    /\ scan = "stat"
    /\ scanMeta' = disk
    /\ scan' = IF disk # Gone THEN "store" ELSE "deletes"
    /\ UNCHANGED <<disk, writes, baseline, critical, scanHand, seen, truncated,
                   watchVars, queueVars>>

(* compares and stores under the lock, *)
ScanStores ==
    /\ scan = "store"
    /\ scanHand' = Diff(scanMeta)
    /\ Found(scanHand', watchHand)
    /\ baseline' = scanMeta
    /\ scan' = IF scanHand' = NoChange THEN "deletes" ELSE "queue"
    /\ UNCHANGED <<disk, writes, critical, scanMeta, seen, truncated, watchVars,
                   unsent, fimTold, announced>>

(* and queues the change afterwards, if there is room. *)
ScanQueues ==
    /\ scan = "queue"
    /\ \/ Queue(scanHand) /\ UNCHANGED truncated
       \/ truncated' = TRUE /\ UNCHANGED <<unsent, fimTold, announced>>
    /\ scanHand' = NoChange
    /\ scan' = "deletes"
    /\ UNCHANGED <<disk, writes, baseline, critical, scanMeta, seen, watchVars, lost>>

(* _scan_one_path raises or cannot read: the walk goes on with the next. *)
ScanPathFails ==
    /\ scan \in {"stat", "store"}
    /\ scan' = "deletes"
    /\ UNCHANGED <<disk, writes, baseline, critical, scanMeta, scanHand, seen, truncated,
                   watchVars, queueVars>>

(* Mutant: a deletion that does not fit leaves no trace. *)
DropsDeleteUnsaid == UNCHANGED <<truncated, unsent, fimTold, announced>>
DropsDelete       == truncated' = TRUE /\ UNCHANGED <<unsent, fimTold, announced>>

(* The delete phase holds the lock from the list to the queue.  A file     *)
(* that has grown too large is deleted too.                                *)
ScanDeletes ==
    /\ scan = "deletes"
    /\ IF ~seen /\ baseline # Gone /\ ~Skips
       THEN /\ baseline' = Gone
            /\ Found(Gone, watchHand)
            /\ \/ Queue(Gone) /\ UNCHANGED truncated
               \/ DropsDelete
       ELSE UNCHANGED <<baseline, truncated, queueVars>>
    /\ scan' = "end"
    /\ UNCHANGED <<disk, writes, critical, scanMeta, scanHand, seen, watchVars>>

ScanEnds ==
    /\ scan = "end"
    /\ scan' = "idle"
    /\ announced' = (announced \/ truncated)
    /\ unsent' = (unsent \/ truncated)
    /\ UNCHANGED <<disk, writes, baseline, critical, scanMeta, scanHand, seen, truncated,
                   watchVars, fimTold, lost>>

(* A statement of the delete phase raises, before the path's turn or after *)
(* it: _scan_loop goes on with the next scan, and there is no marker.      *)
ScanRaises ==
    /\ scan \in {"deletes", "end"}
    /\ scan' = "idle"
    /\ lost' = (lost \/ truncated)
    /\ UNCHANGED <<disk, writes, baseline, critical, scanMeta, scanHand, seen, truncated,
                   watchVars, unsent, fimTold, announced>>

ScanStep == ScanStarts \/ ScanWalks \/ ScanReads \/ ScanStores \/ ScanQueues
            \/ ScanDeletes \/ ScanEnds

-----------------------------------------------------------------------------
(* The inotify thread: _handle_realtime_change *)

(* The file is read, or found missing, without the lock, *)
WatchReads ==
    /\ watch = "idle" /\ noticed
    /\ noticed' = FALSE
    /\ watchMeta' = disk
    /\ watch' = "store"
    /\ UNCHANGED <<disk, writes, baseline, critical, scanVars, watchHand, queueVars>>

(* the baseline follows, whatever it is by now, *)
WatchStores ==
    /\ watch = "store"
    /\ watchHand' = Diff(watchMeta)
    /\ Found(watchHand', scanHand)
    /\ baseline' = watchMeta
    /\ watch' = IF watchHand' = NoChange THEN "idle" ELSE "queue"
    /\ UNCHANGED <<disk, writes, critical, scanVars, noticed, watchMeta,
                   unsent, fimTold, announced>>

(* and the change is queued, with no limit to the queue. *)
WatchQueues ==
    /\ watch = "queue"
    /\ Queue(watchHand)
    /\ watchHand' = NoChange
    /\ watch' = "idle"
    /\ UNCHANGED <<disk, writes, baseline, critical, scanVars, noticed, watchMeta, lost>>

(* The file cannot be read, or a statement raises: the event is forgotten. *)
WatchFails ==
    /\ (watch = "idle" /\ noticed) \/ watch = "store"
    /\ watch' = "idle"
    /\ noticed' = (noticed /\ watch = "store")
    /\ UNCHANGED <<disk, writes, baseline, critical, scanVars, watchMeta, watchHand, queueVars>>

WatchStep == WatchReads \/ WatchStores \/ WatchQueues

-----------------------------------------------------------------------------
(* Surroundings *)

(* The watch of a file ends when the file is replaced, and there may be    *)
(* none: inotify need not report a change.                                 *)
FileChanges(v) ==
    /\ writes < MaxWrites /\ v # disk
    /\ disk' = v
    /\ writes' = writes + 1
    /\ noticed' \in {noticed, TRUE}
    /\ UNCHANGED <<baseline, critical, scanVars, watch, watchMeta, watchHand, queueVars>>

(* drain_changes, by the agent's tick. *)
DrainChanges ==
    /\ unsent
    /\ unsent' = FALSE
    /\ UNCHANGED <<disk, writes, baseline, critical, scanVars, watchVars, fimTold, lost, announced>>

(* The process ends: the baseline stays, the queue and the threads do not. *)
FimCrash ==
    /\ \/ unsent \/ scan # "idle" \/ watch # "idle"
    /\ scan' = "idle" /\ scanMeta' = Gone /\ scanHand' = NoChange
    /\ seen' = FALSE /\ truncated' = FALSE
    /\ noticed' = FALSE
    /\ watch' = "idle" /\ watchMeta' = Gone /\ watchHand' = NoChange
    /\ lost' = (lost \/ unsent \/ truncated \/ {scanHand, watchHand} # {NoChange})
    /\ unsent' = FALSE
    /\ UNCHANGED <<disk, writes, baseline, critical, fimTold, announced>>

FimNext ==
    \/ ScanStep \/ WatchStep
    \/ ScanPathFails \/ ScanRaises \/ WatchFails
    \/ \E v \in Values : FileChanges(v)
    \/ DrainChanges \/ FimCrash

FimSpec == FimInit /\ [][FimNext]_fimVars

(* The threads go on.  The process may end and a scan raise any number of  *)
(* times, but not in every scan at the same place.                         *)
FimFairness ==
    /\ WF_fimVars(ScanStep) /\ WF_fimVars(WatchStep)
    /\ SF_fimVars(ScanWalks) /\ SF_fimVars(ScanReads)
    /\ SF_fimVars(ScanStores) /\ SF_fimVars(ScanDeletes)

FimFairSpec == FimSpec /\ FimFairness

-----------------------------------------------------------------------------
(* Properties *)

FimQuiet == scan = "idle" /\ scanHand = NoChange /\ watchHand = NoChange

(***************************************************************************)
(* The baseline absorbs no change in silence: what the last queued change  *)
(* said of the path is what the baseline holds, or a truncation marker was *)
(* queued; unless the process ended with changes in memory, a scan that    *)
(* dropped changes raised before its marker (the next one finds nothing to *)
(* say: the baseline has them), or both threads had one in hand and queued *)
(* them in the wrong order.                                                *)
(***************************************************************************)
ChangesComplete == FimQuiet /\ ~lost => fimTold = baseline \/ announced

(***************************************************************************)
(* Once the file stays as it is, the baseline comes to agree with it,      *)
(* though both threads read it before they take the lock and the later may *)
(* store the older content, and though inotify may miss everything.  What  *)
(* it agrees with is what a walk makes of the file: one over 50 MB in a    *)
(* watched directory, which inotify hashes and stores, ends as deleted.    *)
(***************************************************************************)
BaselineCatchesUp == <>[](baseline = Walked(disk))
=============================================================================
