------------------------------ MODULE HostReports ------------------------------
(***************************************************************************)
(* The reports of an EC2 host agent (scripts/ec2_agent.py), from the       *)
(* collectors through spool and queue to the snapshot that the backend     *)
(* stores (hosts/projection.py).  One host; its observable state is a      *)
(* version number, and one line of its journal is followed.  Time passes   *)
(* in units longer than the work of a tick and a restart by systemd.       *)
(***************************************************************************)
EXTENDS Integers, Sequences

CONSTANTS
    Interval,     \* INTERVAL
    Lookback,     \* how far back a tick reads the journal: INTERVAL + 120
    WatchdogSec,  \* of the systemd unit (deploy/ec2/install-agent.sh)
    FreeFailures, \* failed sends before there is a backoff
    PerStep,      \* failed sends for each unit of backoff
    BackoffMax,   \* _BACKOFF_MAX_SECS
    SpoolMax,     \* SPOOL_MAX_FILES, or as many as SPOOL_MAX_BYTES allows
    MaxChanges,   \* bound: changes of the host's state
    MaxCrashes    \* bound: crashes of the agent

ASSUME ReportsAssumption ==
    /\ {Interval, PerStep, SpoolMax} \subseteq Nat \ {0}
    /\ {Lookback, WatchdogSec, FreeFailures, BackoffMax} \subseteq Nat
    /\ {MaxChanges, MaxCrashes} \subseteq Nat

NoValue == -1
NotYet  == -1
Report  == [snap : 0..MaxChanges \cup {NoValue}, line : BOOLEAN]
NoReport == [snap |-> NoValue, line |-> FALSE]
EmptyFile == [snap |-> -2, line |-> FALSE]   \* its content was never written

VARIABLES
    hostState,  \* what the collectors would find
    line,       \* age of the journal line; Lookback + 1 and more are one
    agent,      \* where the agent's loop is
    lastHash,   \* what the last tick knew: Collector.value, _last_snapshot_hash
    resyncDue,  \* an hour has passed since _last_full_send_at
    failures,   \* _send_failures
    nap,        \* what is left of the current sleep
    sincePing,  \* time since the last WATCHDOG=1
    report,     \* the payload being sent
    spool,      \* spool files, oldest first
    sqs,        \* messages in the queue, in no order
    stored,     \* host_status.snapshots
    lineStored, \* the journal line is an event
    dropped,    \* a report with the line was given up, and the line is not stored (ghost)
    looked,     \* how the ticks that had the line in their window fared (ghost)
    crashes

memory  == <<lastHash, resyncDue, failures>>
clocks  == <<nap, sincePing>>
backend == <<stored, lineStored>>
ghosts  == <<dropped, looked>>
reportsVars == <<hostState, line, agent, memory, clocks, report, spool, sqs, backend,
                 ghosts, crashes>>

Sending == {"flush", "unlink", "send"}

(* _backoff_seconds *)
Backoff(f) ==
    IF f <= FreeFailures THEN 0
    ELSE LET b == (f - FreeFailures + PerStep - 1) \div PerStep
         IN  IF b < BackoffMax THEN b ELSE BackoffMax

(* A backoff that would reach beyond the window is ended by the watchdog,  *)
(* or it is the first of a process: 180 s and 60 s against 180 s by default. *)
ASSUME WindowAssumption == WatchdogSec <= Lookback /\ Backoff(1) + Interval <= Lookback

(* How many failures there can be before the watchdog ends the process.    *)
TopFailures == FreeFailures + PerStep * (BackoffMax + 1)

ReportsTypeOK ==
    /\ hostState \in 0..MaxChanges
    /\ line \in NotYet..(Lookback + 1)
    /\ agent \in {"tick", "backoff", "sleep"} \cup Sending
    /\ {lastHash, stored} \subseteq 0..MaxChanges \cup {NoValue}
    /\ resyncDue \in BOOLEAN
    /\ failures \in 0..TopFailures
    /\ nap \in 0..(BackoffMax + Interval)
    /\ sincePing \in 0..WatchdogSec
    /\ report \in Report
    /\ spool \in Seq(Report \cup {EmptyFile}) /\ Len(spool) <= SpoolMax
    /\ sqs \subseteq Report
    /\ lineStored \in BOOLEAN /\ dropped \in BOOLEAN
    /\ looked \in {"never", "missed", "read"}
    /\ crashes \in 0..MaxCrashes
    /\ agent = "unlink" => spool # <<>>

ReportsInit ==
    /\ hostState = 0
    /\ line = NotYet
    /\ agent = "tick"
    /\ lastHash = NoValue /\ resyncDue = TRUE /\ failures = 0
    /\ nap = 0 /\ sincePing = 0
    /\ report = NoReport
    /\ spool = <<>> /\ sqs = {}
    /\ stored = 0 /\ lineStored = FALSE   \* a host that has reported before
    /\ dropped = FALSE /\ looked = "never"
    /\ crashes = 0

-----------------------------------------------------------------------------
(* One tick: build_report, then send *)

Drops(b) == dropped' = (~lineStored /\ (dropped \/ b))

(* Mutants: a snapshot is only sent when its hash changed; a tick reads    *)
(* the journal of one interval.                                            *)
IncludeIfChanged(v) == v # NoValue /\ v # lastHash
Include(v)          == v # NoValue /\ (v # lastHash \/ resyncDue)
InLastInterval == line \in 0..Interval
InWindow       == line \in 0..Lookback

(* build_report: v is what the collectors know, and the hash is kept as    *)
(* sent before anything was sent.  _shrink_for_sqs: the snapshots go       *)
(* first, the journal lines last.  read_auth_events: when journalctl fails *)
(* or takes too long the report goes out with the lines it gave, or none.  *)
Build(v, cut, read) ==
    /\ agent = "tick"
    /\ lastHash' = v
    /\ resyncDue' = (resyncDue /\ ~Include(v))
    /\ report' = [snap |-> IF Include(v) /\ cut = 0 THEN v ELSE NoValue,
                  line |-> InWindow /\ read /\ cut < 2]
    /\ Drops(InWindow /\ read /\ cut = 2)
    /\ looked' = IF ~InWindow \/ looked = "read" THEN looked
                 ELSE IF read THEN "read" ELSE "missed"
    /\ agent' = "flush"
    /\ UNCHANGED <<hostState, line, failures, clocks, spool, sqs, backend, crashes>>

(* Collector.maybe_run: a collector that fails or is not due keeps its value. *)
Collect       == \E cut \in 0..2, read \in BOOLEAN : Build(hostState, cut, read)
KeepCollected == \E cut \in 0..2, read \in BOOLEAN : Build(lastHash, cut, read)

(* A report without either is of no interest any more. *)
InQueue(r) == sqs \cup ({r} \ {NoReport})

(* _flush_spool: a file is sent, then unlinked.  It gives up without a word *)
(* when the queue refuses: always, for the empty body of an empty file.    *)
FlushFile ==
    /\ agent = "flush" /\ spool # <<>> /\ Head(spool) # EmptyFile
    /\ sqs' = InQueue(Head(spool))
    /\ agent' = "unlink"
    /\ UNCHANGED <<hostState, line, memory, clocks, report, spool, backend, ghosts, crashes>>

UnlinkFile ==
    /\ agent = "unlink"
    /\ spool' = Tail(spool)
    /\ agent' = "flush"
    /\ UNCHANGED <<hostState, line, memory, clocks, report, sqs, backend, ghosts, crashes>>

FlushEnds ==
    /\ agent = "flush"
    /\ agent' = "send"
    /\ UNCHANGED <<hostState, line, memory, clocks, report, spool, sqs, backend, ghosts, crashes>>

SendReport ==
    /\ agent = "send"
    /\ sqs' = InQueue(report)
    /\ failures' = 0
    /\ report' = NoReport
    /\ agent' = "sleep" /\ nap' = Interval /\ sincePing' = 0
    /\ UNCHANGED <<hostState, line, lastHash, resyncDue, spool, backend, ghosts, crashes>>

(* _spool and _enforce_spool_caps: the oldest file makes room.  With a full *)
(* disk the file is not created, or it stays behind empty.                 *)
Spooled(r) == LET s == Append(spool, r)
              IN  IF Len(s) > SpoolMax THEN Tail(s) ELSE s

EvictsLine == Len(spool) = SpoolMax /\ Head(spool).line

SendFails ==
    /\ agent = "send"
    /\ failures' = IF failures < TopFailures THEN failures + 1 ELSE failures
    /\ \/ spool' = Spooled(report) /\ Drops(EvictsLine)
       \/ spool' = Spooled(EmptyFile) /\ Drops(EvictsLine \/ report.line)
       \/ spool' = spool /\ Drops(report.line)
    /\ report' = NoReport
    /\ agent' = "backoff" /\ nap' = Backoff(failures')
    /\ UNCHANGED <<looked, hostState, line, lastHash, resyncDue, sincePing, sqs, backend, crashes>>

(* main: the watchdog is told when send is over, its backoff included. *)
BackoffEnds ==
    /\ agent = "backoff" /\ nap = 0
    /\ agent' = "sleep" /\ nap' = Interval /\ sincePing' = 0
    /\ UNCHANGED <<hostState, line, memory, report, spool, sqs, backend, ghosts, crashes>>

WakeUp ==
    /\ agent = "sleep" /\ nap = 0
    /\ agent' = "tick"
    /\ UNCHANGED <<hostState, line, memory, clocks, report, spool, sqs, backend, ghosts, crashes>>

-----------------------------------------------------------------------------
(* Process, time and surroundings *)

(* systemd starts it again within RestartSec, less than a unit; the spool stays. *)
FreshProcess ==
    /\ agent' = "tick"
    /\ lastHash' = NoValue /\ resyncDue' = TRUE /\ failures' = 0
    /\ nap' = 0 /\ sincePing' = 0
    /\ report' = NoReport
    /\ looked' = IF report.line THEN "never" ELSE looked   \* nothing came of it
    /\ UNCHANGED <<hostState, line, spool, sqs, backend, dropped>>

AgentCrash   == crashes < MaxCrashes /\ crashes' = crashes + 1 /\ FreshProcess
WatchdogKill == sincePing = WatchdogSec /\ crashes' = crashes /\ FreshProcess

TimePasses ==
    /\ agent \in {"backoff", "sleep"} /\ nap > 0
    /\ sincePing < WatchdogSec
    /\ nap' = nap - 1 /\ sincePing' = sincePing + 1
    /\ line' = IF line \in 0..Lookback THEN line + 1 ELSE line
    /\ UNCHANGED <<hostState, agent, memory, report, spool, sqs, backend, ghosts, crashes>>

HourPasses ==
    /\ ~resyncDue
    /\ resyncDue' = TRUE
    /\ UNCHANGED <<hostState, line, agent, lastHash, failures, clocks, report, spool,
                   sqs, backend, ghosts, crashes>>

(* Bound: the host changes or the line is logged; the two do not meet. *)
HostChanges ==
    /\ hostState < MaxChanges /\ line = NotYet
    /\ hostState' = hostState + 1
    /\ UNCHANGED <<line, agent, memory, clocks, report, spool, sqs, backend, ghosts, crashes>>

LineLogged ==
    /\ line = NotYet /\ hostState = 0
    /\ line' = 0
    /\ UNCHANGED <<hostState, agent, memory, clocks, report, spool, sqs, backend, ghosts, crashes>>

(* The queue hands out any message, perhaps not for the last time; the     *)
(* adapter gives a snapshot a new event id, so that a late or repeated one *)
(* is projected like a new one: set_host_snapshots replaces the row's.     *)
DeliverReport(r, again) ==
    /\ r \in sqs
    /\ stored' = IF r.snap = NoValue THEN stored ELSE r.snap
    /\ lineStored' = (lineStored \/ r.line)
    /\ sqs' = IF again THEN sqs ELSE sqs \ {r}
    /\ dropped' = (dropped /\ ~r.line)
    /\ UNCHANGED <<looked, hostState, line, agent, memory, clocks, report, spool, crashes>>

Arrives(v) == \E r \in Report : r.snap = v /\ DeliverReport(r, FALSE)

AgentStep == Collect \/ KeepCollected \/ FlushFile \/ UnlinkFile \/ FlushEnds \/ SendReport
             \/ SendFails \/ BackoffEnds \/ WakeUp \/ WatchdogKill

ReportsNext ==
    \/ AgentStep \/ AgentCrash
    \/ TimePasses \/ HourPasses \/ HostChanges \/ LineLogged
    \/ \E r \in Report, again \in BOOLEAN : DeliverReport(r, again)

ReportsSpec == ReportsInit /\ [][ReportsNext]_reportsVars

(* The loop goes on and time passes.  The queue is not down, the disk not   *)
(* full and the payload not too large at each of the ticks that would send *)
(* the present state, and the backend works on what it is sent.            *)
ReportsFairness ==
    /\ WF_reportsVars(AgentStep) /\ WF_reportsVars(TimePasses) /\ WF_reportsVars(HourPasses)
    /\ SF_reportsVars(Include(hostState) /\ \E read \in BOOLEAN : Build(hostState, 0, read))
    /\ SF_reportsVars(report.snap = hostState /\ SendReport)
    /\ SF_reportsVars(Arrives(hostState))

ReportsFairSpec == ReportsSpec /\ ReportsFairness

-----------------------------------------------------------------------------
(* Properties *)

Carried == \/ lineStored
           \/ agent \in Sending /\ report.line
           \/ \E r \in sqs : r.line
           \/ \E k \in DOMAIN spool : spool[k].line

(***************************************************************************)
(* A journal line that no tick will read any more is in the backend or on  *)
(* its way: neither a crash in the middle of a tick nor the backoff of     *)
(* failing sends opens a gap between the windows of read_auth_events (the  *)
(* watchdog ends a backoff before it is longer than the window's overlap). *)
(* Unless a report with it was dropped for want of space, or journalctl    *)
(* failed in each tick that had the line in its window: those reports go   *)
(* out without it, and nothing reads the same window again.                *)
(***************************************************************************)
JournalCovered == line > Lookback => Carried \/ dropped \/ looked = "missed"

(***************************************************************************)
(* However a snapshot was lost (too large, evicted from the spool, a full  *)
(* disk) or a late one overwrote a newer, the backend comes to hold the    *)
(* host's state: _last_snapshot_hash counts what was built, not what       *)
(* arrived, and only the hourly resync of build_report makes up for it.    *)
(***************************************************************************)
BackendCatchesUp == []<>(stored = hostState)
=============================================================================
