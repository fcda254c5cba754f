---------------------------- MODULE HostCollectors ----------------------------
(***************************************************************************)
(* What the collectors of a host agent read (scripts/ec2_agent.py) and     *)
(* what is told of it (hosts/projection.py, hosts/diff.py): one item that  *)
(* one collector looks for, and the package database.  A collector keeps   *)
(* its value while it fails.  Reports arrive in order; how they may be     *)
(* lost is in HostReports, how they are compared in HostInventory.         *)
(***************************************************************************)
EXTENDS Integers

CONSTANTS
    Every,     \* interval of the collector
    ResyncEvery, \* _FULL_RESYNC_SECONDS
    MaxTick,   \* bound: time
    MaxFlips   \* bound: changes of the host

ASSUME CollectorAssumption ==
    Every \in Nat \ {0} /\ ResyncEvery \in Nat /\ MaxTick \in Nat /\ MaxFlips \in Nat

VARIABLES
    readerKind,     \* how the collector reads; or the look at the database
    item,       \* the item is on the host; its package database is stuck
    tick,       \* the time
    collector,  \* value, error, next_run and last_success_at of the collector
    asTold,     \* the item as snapshot and events tell it, "nothing" before
    resyncAt,   \* _last_full_send_at
    untoldFor,  \* how long that is not what the collector has (ghost)
    stalled,    \* host.collector.stalled was told, and no recovery
    corrupted,  \* host.package_db.corrupted likewise
    readAs,     \* the item when the collector last succeeded (ghost)
    misread,    \* it was taken for missing then (ghost)
    apart,      \* how long the item has not been as the collector has it (ghost)
    look,       \* the last look at the database (ghost)
    flips

collectorVars == <<readerKind, item, tick, collector, asTold, resyncAt, untoldFor, stalled,
                   corrupted, readAs, misread, apart, look, flips>>

Readers  == {"command", "gated", "processes", "files", "search", "database"}
Outcomes == {"runs", "fails", "empty", "partial"}
Sightings  == {"nothing", "absent", "there"}

CollectorTypeOK ==
    /\ readerKind \in Readers /\ tick \in 0..MaxTick /\ flips \in 0..MaxFlips
    /\ collector \in [value : Sightings, error : BOOLEAN, next : 0..(MaxTick + Every), success : 0..MaxTick]
    /\ asTold \in Sightings /\ apart \in 0..MaxTick
    /\ resyncAt \in -(ResyncEvery + 1)..MaxTick /\ untoldFor \in 0..MaxTick
    /\ {item, stalled, corrupted, readAs, misread} \subseteq BOOLEAN
    /\ look \in [stuck : BOOLEAN, inUse : BOOLEAN, asked : BOOLEAN, answers : BOOLEAN]

CollectorInit ==
    /\ readerKind \in Readers /\ item \in BOOLEAN /\ tick = 0 /\ flips = 0
    /\ collector = [value |-> "nothing", error |-> FALSE, next |-> 0, success |-> 0]
    /\ asTold = "nothing" /\ resyncAt = -(ResyncEvery + 1) /\ untoldFor = 0 /\ stalled = FALSE /\ corrupted = FALSE
    /\ readAs = FALSE /\ misread = FALSE /\ apart = 0
    /\ look = [stuck |-> FALSE, inUse |-> FALSE, asked |-> TRUE, answers |-> TRUE]

-----------------------------------------------------------------------------
AsFound(there) == IF there THEN "there" ELSE "absent"

(* Listening ports, users, enabled units: nothing is known when the        *)
(* command raises or returns an error.                                     *)
CommandFinds(there, outcome) ==
    CASE outcome = "runs"  -> AsFound(there)
      [] outcome = "empty" -> "absent"
      [] OTHER -> "nothing"

(* Packages, kernel modules, disks, processes: nor is it when there is no  *)
(* output.  Mutant: a list without the item is as good as any.             *)
UngatedFinds(there, outcome) == IF outcome = "runs" THEN AsFound(there) ELSE "absent"
GatedFinds(there, outcome)   == IF outcome = "runs" THEN AsFound(there) ELSE "nothing"

(* Authorized keys, sudoers, critical files, cron: a file that cannot be   *)
(* read is passed over; a directory that cannot be listed raises.          *)
FilesFind(there, outcome) ==
    CASE outcome = "fails"   -> "nothing"
      [] outcome = "partial" -> "absent"
      [] OTHER -> AsFound(there)

(* SUID binaries: whatever find printed is accepted.                       *)
SearchFinds(there, outcome) ==
    CASE outcome = "fails" -> "nothing"
      [] outcome \in {"empty", "partial"} -> "absent"
      [] OTHER -> AsFound(there)

Finds(there, outcome) ==
    CASE readerKind = "command" -> CommandFinds(there, outcome)
      [] readerKind \in {"gated", "processes"} -> GatedFinds(there, outcome)
      [] readerKind = "files"   -> FilesFind(there, outcome)
      [] readerKind = "search"  -> SearchFinds(there, outcome)

(* maybe_run.  Mutant: a failure is only an error before the first success.*)
KeepsQuiet(c) == [c EXCEPT !.error = (c.success = 0)]
Errs(c)       == [c EXCEPT !.error = TRUE]

RunsAt(c, now, found) ==
    [IF found # "nothing" THEN [c EXCEPT !.value = found, !.error = FALSE, !.success = now]
     ELSE Errs(c) EXCEPT !.next = now + Every]

(* is_stalled                                                              *)
Stalls(c, now) == c.success # 0 /\ now - c.success > 3 * Every

(* detect_rpm_db_corruption, with lock files on the disk: `rpm -qa` fails  *)
(* on a stuck database, and on one in use.  When pgrep itself fails nobody *)
(* asks who uses it.  Mutant: nobody ever asks.                            *)
DatabaseLooks == [stuck : {item}, inUse : BOOLEAN, asked : BOOLEAN, answers : BOOLEAN]
CorruptUnasked(k) == k.answers /\ (k.stuck \/ k.inUse)
Corrupt(k)        == ~(k.inUse /\ k.asked) /\ k.answers /\ (k.stuck \/ k.inUse)

(* The snapshots go with a report when one that is diffable is not as in   *)
(* the last of them, others among them, and after an hour.  Processes are  *)
(* not diffable.  Mutant: nor are packages.                                *)
ResyncDue == tick' - resyncAt > ResyncEvery
OnlyCommandsDiffable(value) == readerKind \notin {"processes", "gated"} /\ value # asTold
ChangeShips(value)          == readerKind # "processes" /\ value # asTold

(* build_report, and what the projection tells of it.                      *)
AgentTicks ==
    /\ readerKind # "database" /\ tick < MaxTick /\ tick' = tick + 1
    /\ IF tick' < collector.next THEN UNCHANGED <<collector, readAs, misread>>
       ELSE \E outcome \in Outcomes :
              LET found == Finds(item, outcome)
              IN  /\ collector' = RunsAt(collector, tick', found)
                  /\ IF found # "nothing"
                     THEN readAs' = item /\ misread' = (found # AsFound(item))
                     ELSE UNCHANGED <<readAs, misread>>
    /\ \E othersChanged \in BOOLEAN :
           asTold' = IF ResyncDue \/ othersChanged \/ ChangeShips(collector'.value)
                     THEN collector'.value ELSE asTold
    /\ untoldFor' = IF asTold' = collector'.value THEN 0 ELSE untoldFor + 1
    /\ resyncAt' = IF ResyncDue THEN tick' ELSE resyncAt
    /\ stalled' = Stalls(collector', tick')
    /\ apart' = IF collector'.value \in {"nothing", AsFound(item)} THEN 0 ELSE apart + 1
    /\ UNCHANGED <<readerKind, item, corrupted, look, flips>>

AgentLooks ==
    /\ readerKind = "database"
    /\ look' \in DatabaseLooks /\ corrupted' = Corrupt(look')
    /\ UNCHANGED <<readerKind, item, tick, collector, asTold, resyncAt, untoldFor, stalled, readAs, misread,
                   apart, flips>>

HostFlips ==
    /\ flips < MaxFlips /\ flips' = flips + 1
    /\ item' = ~item /\ apart' = 0
    /\ UNCHANGED <<readerKind, tick, collector, asTold, resyncAt, untoldFor, stalled, corrupted, readAs, misread,
                   look>>

CollectorsNext == AgentTicks \/ AgentLooks \/ HostFlips

CollectorsSpec == CollectorInit /\ [][CollectorsNext]_collectorVars

-----------------------------------------------------------------------------
(* No failure of a collector makes the events tell that something is gone  *)
(* (diff.py: "a transient collector failure ... flooding with false        *)
(* 'everything removed' events"), but for three kinds: a command that      *)
(* succeeds and prints nothing, a file that cannot be read and a search    *)
(* that breaks off are taken for the item's absence.  What a collector has *)
(* is told at once, but for processes, which wait for others to change or  *)
(* for the hour; it is behind the host for longer than an interval only    *)
(* while the collector reports an error, and a collector is never told as  *)
(* stalled without one.  A database is told as corrupted only if it is     *)
(* stuck, or in use while nobody could ask; one that is stuck is told as   *)
(* such unless the look could not tell: a run of yum, too, tells a         *)
(* recovery.                                                               *)
CollectedTold ==
    /\ collector.value # "nothing" /\ collector.value # AsFound(readAs) =>
           misread /\ readerKind \notin {"gated", "processes"}
    /\ asTold # collector.value => readerKind = "processes" /\ untoldFor <= ResyncEvery
    /\ apart > Every => collector.error \/ misread
    /\ stalled => collector.error
    /\ corrupted => look.stuck \/ ~look.asked
    /\ look.stuck /\ ~look.inUse /\ look.answers => corrupted
=============================================================================
