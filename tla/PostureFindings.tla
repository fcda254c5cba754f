---------------------------- MODULE PostureFindings ----------------------------
(***************************************************************************)
(* AWS posture findings of one account: what a drift scan sees             *)
(* (connectors/aws_posture_drift.py), which report the adapter makes of it *)
(* (modules/aws_posture.py), and what the projection does to the rows of   *)
(* posture_findings and says of them (posture/projection.py).  A scan that *)
(* outlives its operation goes on, so two of them may overlap.             *)
(***************************************************************************)
EXTENDS FiniteSets

CONSTANTS
    Scan,     \* runs of the connector that may overlap
    Finding   \* what a resource may fail, each found by a check of its own

Sights == {"unseen", "bad", "fine", "hidden", "failed"}

VARIABLES
    scanner,   \* where each scan is: its stage, whether it knows its account
    sawOf,     \* what each scan saw of each finding
    todo,      \* the findings a scan has yet to record or resolve
    derivedBy, \* what a scan derived and has not told yet
    finding,   \* rows of posture_findings: none, open or resolved
    news,      \* finding.new of a row: no, said or lost (ghost)
    gone,      \* finding.resolved since it was last opened (ghost)
    judged     \* what the scan that resolved it had seen of it (ghost)

postureVars == <<scanner, sawOf, todo, derivedBy, finding, news, gone, judged>>

Stages == {"idle", "scanning", "recording", "resolving", "telling"}

PostureTypeOK ==
    /\ scanner \in [Scan -> [stage : Stages, known : BOOLEAN]]
    /\ sawOf \in [Scan -> [Finding -> Sights]]
    /\ todo \in [Scan -> SUBSET Finding] /\ derivedBy \in [Scan -> SUBSET Finding]
    /\ finding \in [Finding -> {"none", "open", "resolved"}]
    /\ {news, gone} \subseteq [Finding -> {"no", "said", "lost"}]
    /\ judged \in [Finding -> Sights]

Unseen == [f \in Finding |-> "unseen"]
AtRest   == [stage |-> "idle", known |-> FALSE]

PostureInit ==
    /\ scanner = [s \in Scan |-> AtRest] /\ sawOf = [s \in Scan |-> Unseen]
    /\ todo = [s \in Scan |-> {}] /\ derivedBy = [s \in Scan |-> {}]
    /\ finding = [f \in Finding |-> "none"]
    /\ news = [f \in Finding |-> "no"] /\ gone = [f \in Finding |-> "no"]
    /\ judged = Unseen

At(s, stage) == scanner[s].stage = stage
GoesTo(s, stage) == scanner' = [scanner EXCEPT ![s].stage = stage]
Over(s) == scanner' = [scanner EXCEPT ![s] = AtRest] /\ sawOf' = [sawOf EXCEPT ![s] = Unseen]

-----------------------------------------------------------------------------
(* scan_account *)

(* The account is asked for first; no answer is an account of None.        *)
Begin(s, known) ==
    /\ At(s, "idle")
    /\ scanner' = [scanner EXCEPT ![s] = [stage |-> "scanning", known |-> known]]
    /\ UNCHANGED <<sawOf, todo, derivedBy, finding, news, gone, judged>>

(* A check finds the resource bad or fine; cannot read it and skips it     *)
(* ("except Exception: continue"); or raises as a whole.                   *)
Examine(s, f, as) ==
    /\ At(s, "scanning") /\ sawOf[s][f] = "unseen"
    /\ as \in Sights \ {"unseen"}
    /\ sawOf' = [sawOf EXCEPT ![s][f] = as]
    /\ UNCHANGED <<scanner, todo, derivedBy, finding, news, gone, judged>>

Bad(s) == {f \in Finding : sawOf[s][f] = "bad"}

(* scan_complete.  Mutant: a check that raised does not matter.            *)
ScanCompleteAnyway(s) == TRUE
ScanComplete(s)       == \A f \in Finding : sawOf[s][f] # "failed"

(* poll: the report goes to ingest_payload in one call.                    *)
Ship(s) ==
    /\ At(s, "scanning") /\ \A f \in Finding : sawOf[s][f] # "unseen"
    /\ GoesTo(s, "recording")
    /\ todo' = [todo EXCEPT ![s] = Bad(s)]
    /\ UNCHANGED <<sawOf, derivedBy, finding, news, gone, judged>>

-----------------------------------------------------------------------------
(* aws.posture.finding *)

DoneWith(s, f) == todo' = [todo EXCEPT ![s] = @ \ {f}]

(* The next event has its turn when the one derived before it is stored.   *)
AtFinding(s, f) == At(s, "recording") /\ f \in todo[s] /\ derivedBy[s] = {}

FindingUpserted(f) == finding' = [finding EXCEPT ![f] = "open"]

(* upsert_posture_finding says whether it inserted: a row that was resolved*)
(* is opened again and not announced.                                      *)
Record(s, f) ==
    /\ AtFinding(s, f) /\ scanner[s].known /\ finding[f] # "none"
    /\ FindingUpserted(f)
    /\ gone' = IF finding[f] = "resolved" THEN [gone EXCEPT ![f] = "no"] ELSE gone
    /\ DoneWith(s, f)
    /\ UNCHANGED <<scanner, sawOf, derivedBy, news, judged>>

RecordNew(s, f) ==
    /\ AtFinding(s, f) /\ scanner[s].known /\ finding[f] = "none"
    /\ FindingUpserted(f)
    /\ derivedBy' = [derivedBy EXCEPT ![s] = {f}]
    /\ DoneWith(s, f)
    /\ UNCHANGED <<scanner, sawOf, news, gone, judged>>

Announce(s, f) ==
    /\ At(s, "recording") /\ f \in derivedBy[s]
    /\ news' = [news EXCEPT ![f] = "said"]
    /\ derivedBy' = [derivedBy EXCEPT ![s] = {}]
    /\ UNCHANGED <<scanner, sawOf, todo, finding, gone, judged>>

(* Without its account the finding has another finding_id: it is announced *)
(* once more, in a row that no reconciliation lists, and is not followed.  *)
RecordStray(s, f) ==
    /\ AtFinding(s, f) /\ ~scanner[s].known
    /\ DoneWith(s, f)
    /\ UNCHANGED <<scanner, sawOf, derivedBy, finding, news, gone, judged>>

(* A projection that raises is caught, and the next event has its turn.    *)
RecordFails(s, f) ==
    /\ AtFinding(s, f)
    /\ DoneWith(s, f)
    /\ UNCHANGED <<scanner, sawOf, derivedBy, finding, news, gone, judged>>

-----------------------------------------------------------------------------
(* aws.posture.scan.completed *)

Recorded(s) == At(s, "recording") /\ todo[s] = {} /\ derivedBy[s] = {}

(* list_unresolved_finding_ids_for_account                                 *)
Reconcile(s) ==
    /\ Recorded(s) /\ ScanComplete(s) /\ scanner[s].known
    /\ GoesTo(s, "resolving")
    /\ todo' = [todo EXCEPT ![s] = {f \in Finding : finding[f] = "open"} \ Bad(s)]
    /\ UNCHANGED <<sawOf, derivedBy, finding, news, gone, judged>>

(* No completion marker, or no account in it: nothing is reconciled.       *)
LeaveOpen(s) ==
    /\ Recorded(s) /\ ~(ScanComplete(s) /\ scanner[s].known)
    /\ Over(s)
    /\ UNCHANGED <<todo, derivedBy, finding, news, gone, judged>>

(* The derived event is made whether or not the update found an open row.  *)
Resolve(s, f) ==
    /\ At(s, "resolving") /\ f \in todo[s]
    /\ finding' = [finding EXCEPT ![f] = "resolved"]
    /\ judged' = IF finding[f] = "open" THEN [judged EXCEPT ![f] = sawOf[s][f]] ELSE judged
    /\ derivedBy' = [derivedBy EXCEPT ![s] = @ \cup {f}]
    /\ DoneWith(s, f)
    /\ UNCHANGED <<scanner, sawOf, news, gone>>

Resolved(s) ==
    /\ At(s, "resolving") /\ todo[s] = {}
    /\ GoesTo(s, "telling")
    /\ UNCHANGED <<sawOf, todo, derivedBy, finding, news, gone, judged>>

Tell(s, f) ==
    /\ At(s, "telling") /\ f \in derivedBy[s]
    /\ gone' = [gone EXCEPT ![f] = "said"]
    /\ derivedBy' = [derivedBy EXCEPT ![s] = @ \ {f}]
    /\ UNCHANGED <<scanner, sawOf, todo, finding, news, judged>>

Told(s) ==
    /\ At(s, "telling") /\ derivedBy[s] = {}
    /\ Over(s)
    /\ UNCHANGED <<todo, derivedBy, finding, news, gone, judged>>

-----------------------------------------------------------------------------
(* Faults *)

Forget(tells, fs) == [f \in Finding |-> IF f \in fs /\ tells[f] = "no" THEN "lost" ELSE tells[f]]

(* Scan s ends where it is: its events are not stored.  Half-way through   *)
(* the reconciliation its list of derived events goes with the exception,  *)
(* which is caught; an insert that raises ends the run of the connector.   *)
Ends(s) ==
    /\ ~At(s, "idle")
    /\ news' = IF At(s, "recording") THEN Forget(news, derivedBy[s]) ELSE news
    /\ gone' = IF At(s, "recording") THEN gone ELSE Forget(gone, derivedBy[s])
    /\ Over(s)
    /\ todo' = [todo EXCEPT ![s] = {}] /\ derivedBy' = [derivedBy EXCEPT ![s] = {}]
    /\ UNCHANGED <<finding, judged>>

PostureNext ==
    \E s \in Scan :
        \/ \E known \in BOOLEAN : Begin(s, known)
        \/ Ship(s) \/ Reconcile(s) \/ LeaveOpen(s) \/ Resolved(s) \/ Told(s) \/ Ends(s)
        \/ \E f \in Finding :
            \/ \E as \in Sights : Examine(s, f, as)
            \/ Record(s, f) \/ RecordNew(s, f) \/ Announce(s, f) \/ RecordStray(s, f)
            \/ RecordFails(s, f) \/ Resolve(s, f) \/ Tell(s, f)

PostureSpec == PostureInit /\ [][PostureNext]_postureVars

-----------------------------------------------------------------------------
(* Properties *)

(***************************************************************************)
(* However scans overlap, a finding is resolved by a scan that looked at   *)
(* its resource, never by one whose check raised or that did not get to it *)
(* ("better to skip ... than wrongly mark live findings resolved"): it saw *)
(* the resource in order, or could not read it and said nothing, the gap   *)
(* of that promise.  And with no scan under way, a row was announced and,  *)
(* if it is resolved, its end was told since it was last opened, unless    *)
(* the event was lost: a later scan cannot make up for either.             *)
(***************************************************************************)
FindingsTold ==
    /\ \A f \in Finding : finding[f] = "resolved" => judged[f] \in {"fine", "hidden"}
    /\ (\A s \in Scan : At(s, "idle")) =>
          \A f \in Finding :
              /\ finding[f] # "none" => news[f] # "no"
              /\ finding[f] = "resolved" => gone[f] # "no"
=============================================================================
