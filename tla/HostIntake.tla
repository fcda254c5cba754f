------------------------------ MODULE HostIntake ------------------------------
(***************************************************************************)
(* A report of a host agent in the backend: the events it is taken apart   *)
(* into (modules/ec2_host.py), which of them are stored, and what file     *)
(* integrity keeps of them (hosts/projection.py, storage.py).  One host,   *)
(* one watched file, one attempt to log in that the journals of all        *)
(* reports hold.  Several threads drain the queue; a report comes in any   *)
(* order and any number of times.                                          *)
(***************************************************************************)
EXTENDS Integers, Sequences, FiniteSets

CONSTANTS
    LastReport,   \* reports 1..LastReport, each with one change of the file
    Intake,       \* threads inside ingest_payload
    MaxArrivals,  \* bound: how often one report comes
    MaxSlips      \* bound: faults

ASSUME IntakeAssumption ==
    IsFiniteSet(Intake) /\ LastReport \in Nat /\ MaxArrivals \in Nat /\ MaxSlips \in Nat

VARIABLES
    fileAt,     \* the file before the first report and in each of them
    attempt,    \* what is in the journal
    oversized,  \* reports with a snapshot above _SNAPSHOT_BYTE_CAP
    rescanned,  \* reports since whose agent start a scan has ended
    mutedKind,  \* a kind of change that the operator muted
    work,       \* report and step of each drain
    timesCome,    \* how often each report came
    lineEvents, \* inserted events of the journal
    fileEvents, \* inserted events of file integrity, by report
    refused,    \* host.state.snapshot.rejected events
    history,    \* rows of fim_history of each report
    baselineRow,\* the row in fim_baselines
    coverage,   \* the row in fim_coverage: files tracked by, last scan in report
    handled,    \* reports that were handled to their end (ghost)
    coverageIn, \* reports whose coverage was written (ghost)
    straight,   \* no baseline write came after that of a later report, none was
                \* left out (ghost)
    slips

intakeVars == <<fileAt, attempt, oversized, rescanned, mutedKind, work, timesCome, lineEvents, fileEvents,
                refused, history, baselineRow, coverage, handled, coverageIn, straight, slips>>
given == <<fileAt, attempt, oversized, rescanned, mutedKind>>

HostReportNos == 1..LastReport
FileStates == {"gone", "x", "x of others", "y"}   \* content and permissions
Steps == <<"snapshot", "journal", "event", "history", "baseline", "coverage">>

(* What the agent calls a change (_diff_one).                              *)
KindOf(before, after) ==
    IF after = "gone" THEN "deleted"
    ELSE IF before = "gone" THEN "created"
    ELSE IF {before, after} = {"x", "x of others"} THEN "perm_changed"
    ELSE "modified"
ChangeKind(r) == KindOf(fileAt[r - 1], fileAt[r])

(* Lines of sshd and sudo for an attempt.  sudo names the command in the   *)
(* line of one it runs and of one that it refuses.                         *)
Attempts == {"key", "password", "mistyped", "stranger", "sudo", "denied", "unproven", "cron"}
LinesOf(a) ==
    CASE a = "stranger" -> {"Invalid_user", "Failed_for_invalid_user"}
      [] a = "sudo"     -> {"sudo_COMMAND"}
      [] a = "denied"   -> {"sudo_not_allowed_COMMAND"}
      [] a = "unproven" -> {"sudo_authentication_failure", "sudo_incorrect_password_COMMAND"}
      [] OTHER          -> {a}

(* What _classify makes of a line: it looks for a command before it looks  *)
(* for the words of a failure.                                             *)
WithCommand   == {"sudo_COMMAND", "sudo_not_allowed_COMMAND", "sudo_incorrect_password_COMMAND"}
SaysFailure   == {"sudo_not_allowed_COMMAND", "sudo_authentication_failure", "sudo_incorrect_password_COMMAND"}

Classify(l) ==
    CASE l = "key"      -> {"host.auth.ssh.success"}
      [] l = "password" -> {"host.auth.ssh.password.success"}
      [] l \in {"mistyped", "Invalid_user", "Failed_for_invalid_user"} -> {"host.auth.ssh.failure"}
      [] l \in WithCommand               -> {"host.sudo.exec"}
      [] l \in SaysFailure \ WithCommand -> {"host.sudo.failure"}
      [] OTHER -> {}

(* Events of the journal: their id is that of the line.                    *)
JournalEvents == UNION {{l} \X Classify(l) : l \in LinesOf(attempt)}

IntakeTypeOK ==
    /\ fileAt \in [0..LastReport -> FileStates] /\ attempt \in Attempts
    /\ oversized \subseteq HostReportNos /\ rescanned \subseteq HostReportNos
    /\ mutedKind \in {"none", "modified"}
    /\ work \in [Intake -> [report : 0..LastReport, step : 1..Len(Steps)]]
    /\ timesCome \in [HostReportNos -> 0..MaxArrivals] /\ refused \in [HostReportNos -> 0..MaxArrivals]
    /\ history \in [HostReportNos -> 0..MaxArrivals]
    /\ lineEvents \subseteq JournalEvents /\ fileEvents \subseteq HostReportNos
    /\ baselineRow \in FileStates
    /\ coverage \in [tracked : 0..LastReport, scan : 0..LastReport]
    /\ handled \subseteq HostReportNos /\ coverageIn \subseteq handled /\ straight \in BOOLEAN /\ slips \in 0..MaxSlips

Free == [report |-> 0, step |-> 1]

IntakeRests ==
    /\ work = [d \in Intake |-> Free] /\ timesCome = [r \in HostReportNos |-> 0]
    /\ lineEvents = {} /\ fileEvents = {} /\ refused = [r \in HostReportNos |-> 0] /\ history = [r \in HostReportNos |-> 0]
    /\ baselineRow = fileAt[0] /\ coverage = [tracked |-> 0, scan |-> 0]
    /\ handled = {} /\ coverageIn = {} /\ straight = TRUE /\ slips = 0

IntakeInit ==
    /\ fileAt \in [0..LastReport -> FileStates]
    /\ \A r \in HostReportNos : fileAt[r] # fileAt[r - 1]
    /\ attempt \in Attempts /\ oversized \in SUBSET HostReportNos
    /\ rescanned \in SUBSET HostReportNos
    /\ mutedKind \in {"none", "modified"}
    /\ IntakeRests

-----------------------------------------------------------------------------
On(d)       == work[d].report
Is(d, what) == On(d) # 0 /\ Steps[work[d].step] = what
StepsTo(d, n)  == work' = [work EXCEPT ![d].step = n]
StepsOn(d)  == StepsTo(d, work[d].step + 1)
After(d, what) == StepsTo(d, CHOOSE n \in DOMAIN Steps : Steps[n] = what)

Arrives(d, r) ==
    /\ work[d] = Free /\ timesCome[r] < MaxArrivals
    /\ work' = [work EXCEPT ![d].report = r]
    /\ timesCome' = [timesCome EXCEPT ![r] = @ + 1]
    /\ UNCHANGED <<given, lineEvents, fileEvents, refused, history, baselineRow, coverage, handled, coverageIn, straight,
                   slips>>

(* The heartbeat, and the snapshot if it fits: that one is refused has a   *)
(* new id each time.                                                       *)
SnapshotTaken(d) ==
    /\ Is(d, "snapshot") /\ StepsOn(d)
    /\ refused' = IF On(d) \in oversized THEN [refused EXCEPT ![On(d)] = @ + 1] ELSE refused
    /\ UNCHANGED <<given, timesCome, lineEvents, fileEvents, history, baselineRow, coverage, handled, coverageIn, straight, slips>>

JournalTaken(d) ==
    /\ Is(d, "journal") /\ StepsOn(d)
    /\ lineEvents' = lineEvents \cup JournalEvents
    /\ UNCHANGED <<given, timesCome, fileEvents, refused, history, baselineRow, coverage, handled, coverageIn, straight, slips>>

(* An event that is muted is not projected either.                         *)
ChangeTaken(d) ==
    /\ Is(d, "event")
    /\ IF ChangeKind(On(d)) = mutedKind THEN After(d, "coverage") /\ straight' = FALSE /\ UNCHANGED fileEvents
       ELSE StepsOn(d) /\ fileEvents' = fileEvents \cup {On(d)} /\ UNCHANGED straight
    /\ UNCHANGED <<given, timesCome, lineEvents, refused, history, baselineRow, coverage, handled, coverageIn, slips>>

HistoryAppended(d) ==
    /\ Is(d, "history") /\ StepsOn(d)
    /\ history' = [history EXCEPT ![On(d)] = @ + 1]
    /\ UNCHANGED <<given, timesCome, lineEvents, fileEvents, refused, baselineRow, coverage, handled, coverageIn, straight, slips>>

(* Mutant: the row of a deleted file stays as it is.                       *)
KeptOnDelete(r) == IF ChangeKind(r) = "deleted" THEN baselineRow ELSE fileAt[r]
RowAfter(r)     == IF ChangeKind(r) = "deleted" THEN "gone" ELSE fileAt[r]

BaselineWritten(d) ==
    /\ Is(d, "baseline") /\ StepsOn(d)
    /\ baselineRow' = RowAfter(On(d))
    /\ straight' = (straight /\ \A r \in HostReportNos : r > On(d) => history[r] = 0)
    /\ UNCHANGED <<given, timesCome, lineEvents, fileEvents, refused, history, coverage, handled, coverageIn, slips>>

(* upsert_fim_coverage.  Mutant: a new agent forgets the last scan.        *)
ForgetfulScan(r) == IF r \in rescanned THEN r ELSE 0
LastScan(r)      == IF r \in rescanned THEN r ELSE coverage.scan

Covered(r) == [tracked |-> r, scan |-> LastScan(r)]

CoverageWritten(d) ==
    /\ Is(d, "coverage")
    /\ coverage' = Covered(On(d)) /\ coverageIn' = coverageIn \cup {On(d)}
    /\ handled' = handled \cup {On(d)}
    /\ work' = [work EXCEPT ![d] = Free]
    /\ UNCHANGED <<given, timesCome, lineEvents, fileEvents, refused, history, baselineRow, straight, slips>>

(* A statement of the projection raises: the rest of it is left out.       *)
ProjectionLeaves(d) ==
    /\ slips < MaxSlips /\ slips' = slips + 1
    /\ \/ Is(d, "history") \/ Is(d, "baseline")
    /\ After(d, "coverage") /\ straight' = FALSE
    /\ UNCHANGED <<given, timesCome, lineEvents, fileEvents, refused, history, baselineRow, coverage, handled, coverageIn>>

(* upsert_fim_coverage raises: the report is handled without it.           *)
CoverageLeft(d) ==
    /\ Is(d, "coverage") /\ slips < MaxSlips /\ slips' = slips + 1
    /\ handled' = handled \cup {On(d)}
    /\ work' = [work EXCEPT ![d] = Free]
    /\ UNCHANGED <<given, timesCome, lineEvents, fileEvents, refused, history, baselineRow, coverage, coverageIn, straight>>

(* The process ends, or storing an event raises: the report comes again.   *)
IntakeCut(d) ==
    /\ slips < MaxSlips /\ slips' = slips + 1
    /\ On(d) # 0 /\ work' = [work EXCEPT ![d] = Free]
    /\ UNCHANGED <<given, timesCome, lineEvents, fileEvents, refused, history, baselineRow, coverage, handled, coverageIn, straight>>

IntakeNext ==
    \E d \in Intake :
      \/ \E r \in HostReportNos : Arrives(d, r)
      \/ SnapshotTaken(d) \/ JournalTaken(d) \/ ChangeTaken(d) \/ HistoryAppended(d)
      \/ BaselineWritten(d) \/ CoverageWritten(d) \/ ProjectionLeaves(d) \/ CoverageLeft(d)
      \/ IntakeCut(d)

IntakeSpec == IntakeInit /\ [][IntakeNext]_intakeVars

-----------------------------------------------------------------------------
FailedAttempts == {"mistyped", "stranger", "unproven"}

(* Once nothing is at work: a report that was handled left its events      *)
(* behind, the lines of a login one each (those of an unknown user are two *)
(* failures), and what went wrong is among them as a failure, but for a    *)
(* command that sudo refuses: its line names the command and is stored as  *)
(* one that ran.  The history has the change, twice only if the report     *)
(* came twice.  While reports are handled in order and whole, the baseline *)
(* is the file of the last one: a late report puts back a file that is     *)
(* gone, as does a muted kind of change, which is not projected.  A scan   *)
(* that was written is never forgotten, though the number of files beside  *)
(* it is that of an agent that has not scanned yet.                        *)
ReportsHandled ==
    (\A d \in Intake : work[d] = Free) =>
       /\ \A r \in handled :
             /\ JournalEvents \subseteq lineEvents
             /\ attempt \in FailedAttempts =>
                    \E e \in lineEvents : e[2] \in {"host.auth.ssh.failure", "host.sudo.failure"}
             /\ ChangeKind(r) # mutedKind => r \in fileEvents
             /\ straight => history[r] >= 1
             /\ r \in oversized => refused[r] >= 1
       /\ \A r \in HostReportNos : history[r] > 1 => timesCome[r] > 1
       /\ straight /\ (\A r \in HostReportNos : history[r] > 0 => r \in handled) =>
             \A r \in {0} \cup handled : (\A q \in handled : q <= r) => baselineRow = fileAt[r]
       /\ coverageIn \cap rescanned # {} => coverage.scan \in coverageIn \cap rescanned
=============================================================================
