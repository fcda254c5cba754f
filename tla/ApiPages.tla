------------------------------ MODULE ApiPages -------------------------------
(***************************************************************************)
(* What pages of the API say of something from rows that several hands     *)
(* write one after the other: the pages made from the stored events, the   *)
(* page of ECS services, which joins two tables, and the two pages about a *)
(* connector, which read different columns of a row.  They share no state. *)
(***************************************************************************)
EXTENDS FiniteSets, Naturals

(***************************************************************************)
(* Pages made from the stored events (api.py): the newest rows are read    *)
(* once (storage.query_events, which never reads more than its own limit), *)
(* and counted, filtered and cut in Python.  Events come in any order of   *)
(* their times: a reader that was behind stores yesterday's.  Formatting   *)
(* and the other columns are left out.                                     *)
(***************************************************************************)

CONSTANTS
    StoredKind, \* the kinds of events that come
    MaxStored,  \* bound: events
    Limit,      \* the most rows query_events reads (1000)
    PageRows,   \* what the pages ask for (2000, 3000, 5000)
    FewRows,    \* what the lists of hosts and VPN servers ask for (150, 200)
    ListCap     \* the most entries of a list (20, 30, 40 or 50)

(* Signals are S3 requests that need a look; "leaked" ones carry no        *)
(* severity worth a look.                                                  *)
StoredKinds == {"login", "root refused", "sso refused", "user", "mfa off", "key", "group", "network",
               "bucket open", "metadata", "database", "restarted", "trail", "finding",
               "anonymous", "leaked", "anomaly", "host login", "host change", "vpn login"}

ASSUME PagesAssumption ==
    /\ StoredKind \subseteq StoredKinds
    /\ {Limit, PageRows, ListCap} \subseteq Nat \ {0} /\ {MaxStored, FewRows} \subseteq Nat
    /\ ListCap <= Limit /\ Limit <= PageRows

VARIABLE eventRows  \* the stored events: their turn, kind and day
pagesVars == <<eventRows>>

PagesTypeOK ==
    eventRows \subseteq [turn : 1..MaxStored, kind : StoredKinds, day : {"today", "before"}]

PagesInit == eventRows = {}

ComesIn(kind, day) ==
    /\ Cardinality(eventRows) < MaxStored
    /\ eventRows' = eventRows \cup {[turn |-> Cardinality(eventRows) + 1, kind |-> kind, day |-> day]}

(* The last 24 hours move on.                                              *)
DayPasses ==
    /\ eventRows # {}
    /\ eventRows' = {[r EXCEPT !.day = "before"] : r \in eventRows}

PagesNext ==
    \/ \E kind \in StoredKind, day \in {"today", "before"} : ComesIn(kind, day)
    \/ DayPasses

PagesSpec == PagesInit /\ [][PagesNext]_pagesVars

-----------------------------------------------------------------------------
(* Reading                                                                 *)

Least(a, b) == IF a < b THEN a ELSE b
IsToday(r)  == r.day = "today"
InDay(rows) == {r \in rows : IsToday(r)}

(* ORDER BY event_time DESC: events of the same day come in any order.     *)
(* Mutant: the order they were stored in.                                  *)
StoredBefore(r, q) == r.turn < q.turn
OlderThan(r, q)    == ~IsToday(r) /\ IsToday(q)

(* What a read of the given rows may return.                               *)
Newest(limit, rows) ==
    {some \in SUBSET rows :
        /\ Cardinality(some) = Least(Cardinality(rows), Least(limit, Limit))
        /\ \A r \in some, q \in rows \ some : ~OlderThan(r, q)}

(* The rows of a list: filtered, then cut.  Mutant: cut, then filtered.    *)
CutFirst(rows, kinds) ==
    {{r \in some : r.kind \in kinds} : some \in Newest(ListCap, rows)}
Listed(rows, kinds) == Newest(ListCap, {r \in rows : r.kind \in kinds})

-----------------------------------------------------------------------------
(* /iam                                                                    *)

Sections == [logins |-> {"login", "root refused", "sso refused"}, iam |-> {"user", "mfa off"},
             kms |-> {"key"}, groups |-> {"group"}, topology |-> {"network"},
             exposure |-> {"bucket open", "metadata", "database"}, tamper |-> {"trail"},
             posture |-> {"finding"}]

Counters == [logins_ok |-> {"login"}, logins_failed |-> {"root refused", "sso refused"},
             logins_root |-> {"root refused"}, logins_sso |-> {"sso refused"},
             iam_changes |-> {"user", "mfa off"}, mfa_disabled |-> {"mfa off"},
             kms_changes |-> {"key"}, sg_changes |-> {"group"}, network_topology |-> {"network"},
             storage_exposure |-> {"bucket open", "metadata", "database"}, ct_tamper |-> {"trail"},
             posture_findings_new |-> {"finding"}]

(* Counted over the day; the lists of the page have no such window.        *)
(* Mutant: the counters have none either.                                  *)
HowManyEver(rows, counter) == Cardinality({r \in rows : r.kind \in Counters[counter]})
HowMany(rows, counter)     == Cardinality({r \in InDay(rows) : r.kind \in Counters[counter]})

(* /rds: instances are told by the column target_id, and the rows are      *)
(* envelopes, which have none.                                             *)
OfDatabases(rows)  == {r \in rows : r.kind \in {"database", "restarted"}}
DatabaseEvents(rows) == Cardinality(InDay(OfDatabases(rows)))
Instances(rows)    == {r.target_id : r \in {r \in OfDatabases(rows) : "target_id" \in DOMAIN r}}

-----------------------------------------------------------------------------
(* /storage/summary reads the day only.                                    *)

Groups == [s3 |-> {"bucket open", "anonymous", "leaked"}, rds |-> {"database", "restarted"}]
Total(rows, group) == Cardinality({r \in rows : r.kind \in Groups[group]})

(* S3 requests that need a look, of those with a severity that does.       *)
Severe(r) == r.kind \in {"anonymous", "bucket open"}
SecuritySignals(rows) == {r \in rows : r.kind \in {"anonymous", "leaked"} /\ Severe(r)}

-----------------------------------------------------------------------------
(* /hosts, /hosts/{id}, /vpn and /ueba/anomalies                           *)

PulledFor(kinds) == CASE kinds = {"anomaly"}   -> Newest(4 * ListCap, eventRows)
                      [] kinds = {"vpn login"} -> Newest(FewRows, {r \in eventRows : r.kind = "vpn login"})
                      [] OTHER -> Newest(FewRows, {r \in eventRows : r.kind \in {"host login", "host change"}})
ShortLists == {{"anomaly"}, {"vpn login"}, {"host login"}, {"host change"}}

(* The values the filters of the events page offer.                        *)
Offered(rows) == {r.kind : r \in rows}

-----------------------------------------------------------------------------

(* What came in on the day, as far as one read can hold it.                *)
Fits == Cardinality(InDay(eventRows)) <= Limit

(* No event of the day that came late, or was pushed out of the newest by  *)
(* later ones, makes a page contradict another one or itself: a counter is *)
(* never above what happened, and is what happened while a day's events    *)
(* fit one read; a list of a page holds an event of the day exactly when   *)
(* its counters do, and everything that was read for it, if newer ones do  *)
(* not fill it; the databases' events are the same number on both pages,   *)
(* and exposures are among the events of the storage page, except changes  *)
(* of instance metadata, which have no group there.                        *)
PagesAgree ==
    /\ \A rows \in Newest(PageRows, eventRows) :
           /\ \A c \in DOMAIN Counters :
                  LET happened == Cardinality({r \in InDay(eventRows) : r.kind \in Counters[c]})
                  IN  HowMany(rows, c) <= happened /\ (Fits => HowMany(rows, c) = happened)
           /\ \A s \in DOMAIN Sections : \A list \in Listed(rows, Sections[s]) :
                  /\ (InDay(list) # {}) = \E c \in DOMAIN Counters :
                         Counters[c] \subseteq Sections[s] /\ HowMany(rows, c) > 0
                  /\ {r.kind : r \in list} \subseteq Offered(rows)
           /\ Instances(rows) = {}
           /\ \A day \in Newest(PageRows, InDay(eventRows)) :
                  /\ Fits => DatabaseEvents(rows) = Total(day, "rds")
                  /\ Fits => HowMany(rows, "storage_exposure")
                               <= Total(day, "s3") + Total(day, "rds")
                                  + Cardinality({r \in day : r.kind = "metadata"})
                  /\ Cardinality(SecuritySignals(day)) <= Total(day, "s3")
    /\ \A kinds \in ShortLists : \A rows \in PulledFor(kinds) : \A list \in Listed(rows, kinds) :
           \A r \in rows \ list :
               r.kind \in kinds => Cardinality(list) = ListCap /\ \A q \in list : ~OlderThan(q, r)

-----------------------------------------------------------------------------
(***************************************************************************)
(* ECS services (api.py, services_list): targets, as the sync of clusters  *)
(* leaves them, joined with the status rows that probe results write       *)
(* (services/projection.py, storage.py).  The page reads the two tables    *)
(* one after the other, results may overlap, and a target that goes leaves *)
(* its status row behind.  One service; "degraded" is treated as "down"    *)
(* is, and the hysteresis is in ServiceHealth.                             *)
(***************************************************************************)

CONSTANTS
    Prober,       \* threads with a result in hand
    ArchiveAfter  \* days: _SERVICE_ARCHIVE_AFTER

VARIABLES
    probed,     \* the row of probe_targets
    health,     \* the row of service_status; down_since in days
    inHand,     \* the row each handler read
    sinceGood,  \* days since the row was last stored as not failing (ghost)
    resultsCrossed,    \* results that were in hand at once since (ghost)
    listing     \* the target as a page in the making read it

servicePageVars == <<probed, health, inHand, sinceGood, resultsCrossed, listing>>

ASSUME ArchiveAssumption == ArchiveAfter \in Nat \ {0}

(* A target AWS wants running, one it does not, one that cannot be probed, *)
(* and one not switched off yet although AWS wants none.                   *)
Targets == {"absent", "wanted", "off", "unprobed", "stopping"}
Days    == 0..ArchiveAfter
NotDown == ArchiveAfter + 1
HealthRow == [status : {"none", "up", "unknown", "down"}, down_since : Days \cup {NotDown}]
NoHealth  == [status |-> "none", down_since |-> NotDown]
NotInHand == [NoHealth EXCEPT !.status = "idle"]

ServicePageTypeOK ==
    /\ probed \in Targets /\ health \in HealthRow
    /\ inHand \in [Prober -> HealthRow \cup {NotInHand}]
    /\ sinceGood \in Days /\ resultsCrossed \in BOOLEAN
    /\ listing \in Targets \cup {"none"}

ServicePageInit ==
    /\ probed = "absent" /\ health = NoHealth
    /\ inHand = [h \in Prober |-> NotInHand]
    /\ sinceGood = 0 /\ resultsCrossed = FALSE /\ listing = "none"

-----------------------------------------------------------------------------

(* The sync of a cluster, and the deletion of a target.                    *)
TargetBecomes(t) ==
    /\ t # probed /\ probed' = t
    /\ UNCHANGED <<health, inHand, sinceGood, resultsCrossed, listing>>

(* A probe agent works on the list it has, so results come late as well.   *)
ReadsHealth(h) ==
    /\ inHand[h] = NotInHand
    /\ inHand' = [inHand EXCEPT ![h] = health]
    /\ UNCHANGED <<probed, health, sinceGood, resultsCrossed, listing>>

(* Set when the service goes down, kept while it stays down.  Mutant: set  *)
(* by each result.                                                         *)
DownSinceNow(prev, status)  == IF status = "down" THEN 0 ELSE NotDown
DownSince(prev, status) ==
    IF status # "down" THEN NotDown ELSE IF prev.down_since = NotDown THEN 0 ELSE prev.down_since

Overlaps(h) == inHand[h] # health

StoresHealth(h, status) ==
    /\ inHand[h] # NotInHand
    /\ health' = [status |-> status, down_since |-> DownSince(inHand[h], status)]
    /\ inHand' = [inHand EXCEPT ![h] = NotInHand]
    /\ sinceGood' = IF status = "down" /\ health.status = "down" THEN sinceGood ELSE 0
    /\ resultsCrossed' = IF status = "down" THEN resultsCrossed \/ Overlaps(h) ELSE FALSE
    /\ UNCHANGED <<probed, listing>>

LosesHealth(h) ==
    /\ inHand[h] # NotInHand
    /\ inHand' = [inHand EXCEPT ![h] = NotInHand]
    /\ UNCHANGED <<probed, health, sinceGood, resultsCrossed, listing>>

(* Pages and results take less than a day.                                 *)
DayAfter(d) == IF d = ArchiveAfter THEN d ELSE d + 1
NextDay ==
    /\ listing = "none" /\ \A h \in Prober : inHand[h] = NotInHand
    /\ sinceGood' = IF health.status = "down" THEN DayAfter(sinceGood) ELSE 0
    /\ health' = [health EXCEPT !.down_since = IF @ = NotDown THEN @ ELSE DayAfter(@)]
    /\ UNCHANGED <<probed, inHand, resultsCrossed, listing>>

(* The page reads the targets,                                             *)
ListsTargets ==
    /\ listing = "none" /\ listing' = probed
    /\ UNCHANGED <<probed, health, inHand, sinceGood, resultsCrossed>>

(* then the status rows, and is done.                                      *)
ShowsServices ==
    /\ listing # "none" /\ listing' = "none"
    /\ UNCHANGED <<probed, health, inHand, sinceGood, resultsCrossed>>

ServicePageNext ==
    \/ \E t \in Targets : TargetBecomes(t)
    \/ \E h \in Prober :
           \/ ReadsHealth(h) \/ LosesHealth(h)
           \/ \E status \in {"up", "unknown", "down"} : StoresHealth(h, status)
    \/ NextDay \/ ListsTargets \/ ShowsServices

ServicePageSpec == ServicePageInit /\ [][ServicePageNext]_servicePageVars

-----------------------------------------------------------------------------
(* The page of a target as it was read, with the status row as it is.      *)

Enabled(t) == t \in {"wanted", "stopping"}

(* What was stored of a target that is not probed is not shown.  Mutant:   *)
(* it is.                                                                  *)
GhostStatus(t, row) == IF t = "off" THEN "disabled" ELSE IF row.status = "none" THEN "unknown" ELSE row.status
ShownStatus(t, row) ==
    IF t = "off" THEN "disabled"
    ELSE IF ~Enabled(t) \/ row.status = "none" THEN "unknown"
    ELSE row.status

Archived(t, row) ==
    LET status == ShownStatus(t, row)
    IN  \/ status = "disabled"
        \/ status = "down" /\ (t = "stopping" \/ row.down_since = ArchiveAfter)

(* Whatever came between the two reads, a service leaves the live table    *)
(* only if AWS wants none of it, or if nothing has found it up or could    *)
(* not tell for ArchiveAfter days - those it was not probed in, or its     *)
(* target was gone, included; one that is up is back at once; and nothing  *)
(* is shown as up or down that is not probed.  Overlapping results are     *)
(* excepted: one may keep the start of an outage another had ended.        *)
ServicesShown ==
    listing \notin {"none", "absent"} =>
        LET status == ShownStatus(listing, health)
        IN  /\ status \in {"up", "down"} => Enabled(listing) /\ status = health.status
            /\ listing = "wanted" /\ ~resultsCrossed =>
                  (Archived(listing, health) <=> health.status = "down" /\ sinceGood = ArchiveAfter)
            /\ listing = "wanted" /\ health.status # "down" => ~Archived(listing, health)
            /\ listing = "off" => Archived(listing, health)

-----------------------------------------------------------------------------

(***************************************************************************)
(* A connector: its health on /connectors (api.py,                         *)
(* connectors/scheduler.py) and its coverage on the overview (coverage.py).*)
(* The columns they read are written by different hands one after the      *)
(* other: how the poll went (runner.py), how the operation ended and why   *)
(* the next one waits (operations.py), and what the user of the pages      *)
(* sets.  One connector with one interval.                                 *)
(***************************************************************************)

CONSTANTS
    HealthSpan,   \* age at which /connectors calls a run stale: an interval
    CoverageSpan  \* age after which the overview does: three, or 15 minutes

ASSUME SpanAssumption == HealthSpan \in Nat \ {0} /\ CoverageSpan \in Nat /\ HealthSpan <= CoverageSpan

VARIABLES
    connectorRow, \* the row of connectors
    latest,       \* the status of its latest operation
    thread,       \* where the thread of the operation is
    pollEnded,    \* how its poll ended
    unwritten     \* the latest operation closed without a status of the row (ghost)

connectorPageVars == <<connectorRow, latest, thread, pollEnded, unwritten>>

NeverRan == CoverageSpan + 2
Reasons == {"none", "failure", "timeout", "process_restart"}
ConnectorRow == [enabled : BOOLEAN, verified : BOOLEAN, last_status : {"none", "ok", "error"},
                 last_error : BOOLEAN, ran : 0..NeverRan, reason : Reasons]

ConnectorPageTypeOK ==
    /\ connectorRow \in ConnectorRow
    /\ latest \in {"none", "running", "succeeded", "failed", "timed_out"}
    /\ thread \in {"idle", "polling", "polled", "closed"}
    /\ pollEnded \in {"none", "ok", "error"} /\ unwritten \in BOOLEAN

ConnectorPageInit ==
    /\ connectorRow = [enabled |-> TRUE, verified |-> FALSE, last_status |-> "none",
                       last_error |-> FALSE, ran |-> NeverRan, reason |-> "none"]
    /\ latest = "none" /\ thread = "idle" /\ pollEnded = "none" /\ unwritten = FALSE

-----------------------------------------------------------------------------
(* The user                                                                *)

Switches ==
    /\ connectorRow' = [connectorRow EXCEPT !.enabled = ~@]
    /\ UNCHANGED <<latest, thread, pollEnded, unwritten>>

EditsConnector ==
    /\ connectorRow' = [connectorRow EXCEPT !.verified = FALSE]
    /\ UNCHANGED <<latest, thread, pollEnded, unwritten>>

-----------------------------------------------------------------------------
(* An operation                                                            *)

OperationStarts ==
    /\ thread = "idle" /\ latest # "running"
    /\ latest' = "running" /\ thread' = "polling"
    /\ UNCHANGED <<connectorRow, pollEnded, unwritten>>

(* run_connector writes the row if the operation is live.  Mutant: an      *)
(* error is kept until somebody looks.                                     *)
PolledRowKept(row, how) ==
    [row EXCEPT !.last_status = how, !.last_error = @ \/ how = "error", !.ran = 0,
                !.verified = @ \/ how = "ok"]
PolledRow(row, how) ==
    [row EXCEPT !.last_status = how, !.last_error = (how = "error"), !.ran = 0,
                !.verified = @ \/ how = "ok"]

PollEnds(how) ==
    /\ thread = "polling" /\ thread' = "polled" /\ pollEnded' = how
    /\ IF latest = "running"
       THEN connectorRow' = PolledRow(connectorRow, how) /\ unwritten' = FALSE
       ELSE UNCHANGED <<connectorRow, unwritten>>
    /\ UNCHANGED latest

(* Writing it fails: the operation fails, the row stays as it was.         *)
PollUnwritten ==
    /\ thread = "polling" /\ thread' = "polled"
    /\ pollEnded' = "error" /\ unwritten' = (latest = "running" \/ unwritten)
    /\ UNCHANGED <<connectorRow, latest>>

Closes ==
    /\ thread = "polled" /\ pollEnded' = "none"
    /\ IF latest = "running"
       THEN latest' = (IF pollEnded = "ok" THEN "succeeded" ELSE "failed") /\ thread' = "closed"
       ELSE thread' = "idle" /\ UNCHANGED latest
    /\ UNCHANGED <<connectorRow, unwritten>>

(* The reason of an operation's end.  Mutant: a success leaves it.         *)
ReasonStays(status) ==
    IF status = "succeeded" THEN connectorRow.reason ELSE IF status = "failed" THEN "failure" ELSE "timeout"
ReasonOf(status) ==
    IF status = "succeeded" THEN "none" ELSE IF status = "failed" THEN "failure" ELSE "timeout"

Reasoned(reason) == connectorRow' = [connectorRow EXCEPT !.reason = reason]

NotesRetry ==
    /\ thread = "closed" /\ thread' = "idle"
    /\ Reasoned(ReasonOf(latest))
    /\ UNCHANGED <<latest, pollEnded, unwritten>>

(* _timeout_operation; the write of the reason may fail.                   *)
TimesOut(noted) ==
    /\ latest = "running" /\ thread \in {"polling", "polled"}
    /\ latest' = "timed_out"
    /\ IF noted THEN Reasoned("timeout") ELSE UNCHANGED connectorRow
    /\ UNCHANGED <<thread, pollEnded, unwritten>>

(* The process ends,                                                       *)
ProcessEnds ==
    /\ thread # "idle" /\ thread' = "idle" /\ pollEnded' = "none"
    /\ UNCHANGED <<connectorRow, latest, unwritten>>

(* and what it left running is closed later.                               *)
Orphaned ==
    /\ latest = "running" /\ thread = "idle"
    /\ latest' = "timed_out" /\ Reasoned("process_restart")
    /\ UNCHANGED <<thread, pollEnded, unwritten>>

(* The scheduler repairs the reason from the latest operation, whose       *)
(* outcome says whether it was orphaned.                                   *)
RepairsReason ==
    /\ latest \in {"succeeded", "failed", "timed_out"}
    /\ connectorRow.reason # "process_restart" \/ latest # "timed_out"
    /\ Reasoned(ReasonOf(latest))
    /\ UNCHANGED <<latest, thread, pollEnded, unwritten>>

TimeGoesBy ==
    /\ connectorRow.ran <= CoverageSpan
    /\ connectorRow' = [connectorRow EXCEPT !.ran = @ + 1]
    /\ UNCHANGED <<latest, thread, pollEnded, unwritten>>

ConnectorPageNext ==
    \/ Switches \/ EditsConnector
    \/ OperationStarts \/ PollUnwritten \/ Closes \/ NotesRetry
    \/ \E how \in {"ok", "error"} : PollEnds(how)
    \/ \E noted \in BOOLEAN : TimesOut(noted)
    \/ ProcessEnds \/ Orphaned \/ RepairsReason \/ TimeGoesBy

ConnectorPageSpec == ConnectorPageInit /\ [][ConnectorPageNext]_connectorPageVars

-----------------------------------------------------------------------------
(* The pages                                                               *)

HealthState(row, operation) ==
    IF ~row.enabled THEN "disabled"
    ELSE IF ~row.verified THEN "unverified"
    ELSE IF operation = "running" THEN "running"
    ELSE IF row.ran = NeverRan THEN "never_run"
    ELSE IF row.last_status = "error" \/ row.reason \in {"timeout", "process_restart"} THEN "failing"
    ELSE IF row.ran >= HealthSpan THEN "stale"
    ELSE "healthy"

CoverageState(row) ==
    IF ~row.enabled THEN "disabled"
    ELSE IF row.last_status = "error" \/ row.last_error THEN "failing"
    ELSE IF ~row.verified THEN "unverified"
    ELSE IF row.ran = NeverRan \/ row.ran > CoverageSpan THEN "stale"
    ELSE "healthy"

Untroubled == {"healthy", "running", "stale"}

(* The two pages agree on a connector at every moment between the writes:  *)
(* one calls it disabled exactly when the other does; what /connectors     *)
(* calls healthy has coverage, and what has coverage is at worst stale, or *)
(* waits for a retry after a timeout or a restart, which the overview does *)
(* not look at.  And once the thread is done and the reason repaired, a    *)
(* connector whose latest operation failed or timed out is nowhere healthy *)
(* on /connectors - unless the failure was to write the row - and one that *)
(* just succeeded is healthy on both.                                      *)
ConnectorsShown ==
    LET here  == HealthState(connectorRow, latest)
        there == CoverageState(connectorRow)
    IN  /\ here = "disabled" <=> there = "disabled"
        /\ here = "healthy" => there = "healthy"
        /\ there = "healthy" =>
              here \in Untroubled \/ connectorRow.reason \in {"timeout", "process_restart"}
        /\ thread = "idle" /\ latest \in {"failed", "timed_out"} /\ ~unwritten
           /\ connectorRow.reason \in {ReasonOf(latest), "process_restart"} => here # "healthy"
        /\ thread = "idle" /\ latest = "succeeded" /\ connectorRow.reason = ReasonOf(latest)
           /\ connectorRow.enabled /\ connectorRow.verified /\ connectorRow.ran < HealthSpan
              => here = "healthy" /\ there = "healthy"
=============================================================================
