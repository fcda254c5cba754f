------------------------------ MODULE MCHealing ------------------------------
(***************************************************************************)
(* The parts that recover by themselves: the connector scheduler's repair  *)
(* of retry metadata, an agent's report, the FIM baseline, the staleness   *)
(* check.  They share no state; a behaviour picks one and only that one    *)
(* moves, so what holds of every behaviour here holds of each part's own   *)
(* behaviours and the states add up instead of multiplying.  Fairness is   *)
(* that of the part that moves: asked of all of them it would exclude      *)
(* every behaviour in which another part rests.                            *)
(***************************************************************************)
EXTENDS ConnectorScheduler, HostReports, FimEngine, AgentLiveness

CONSTANTS c1, c2, d1, d2

VARIABLE part

healingVars == <<part, schedVars, reportsVars, fimVars, livenessVars>>

Parts == {"scheduler", "reports", "fim", "liveness"}

(* A part at rest has one initial state.                                   *)
HealingInit ==
    /\ part \in Parts
    /\ SchedInit /\ ReportsInit /\ FimInit /\ LivenessInit
    /\ part # "scheduler" => eligible = {}
    /\ part # "fim" => disk = Gone /\ ~critical
    /\ part # "liveness" => kind = "host"

Rests(p, vars) == IF part = p THEN TRUE ELSE UNCHANGED vars

OthersRest ==
    /\ UNCHANGED part
    /\ Rests("scheduler", schedVars) /\ Rests("reports", reportsVars)
    /\ Rests("fim", fimVars) /\ Rests("liveness", livenessVars)

HealingNext ==
    \/ part = "scheduler" /\ SchedNext /\ OthersRest
    \/ part = "reports" /\ ReportsNext /\ OthersRest
    \/ part = "fim" /\ FimNext /\ OthersRest
    \/ part = "liveness" /\ LivenessNext /\ OthersRest

(* SchedFairness (of two operations and one connector), ReportsFairness,   *)
(* FimFairness and LivenessFairness.  As part is constant, one fairness    *)
(* condition over several parts' actions is one for each.                  *)
Weak1 == \/ part = "scheduler" /\ TickStep
         \/ part = "reports" /\ AgentStep
         \/ part = "fim" /\ ScanStep
         \/ part = "liveness" /\ RowAges
Weak2 == \/ part = "scheduler" /\ Elapse(1)
         \/ part = "reports" /\ TimePasses
         \/ part = "fim" /\ WatchStep
         \/ part = "liveness" /\ CheckLists
Weak3 == \/ part = "scheduler" /\ Elapse(2)
         \/ part = "reports" /\ HourPasses
         \/ part = "liveness" /\ \E d \in Drains : BeatEnds(d)
Weak4 == part = "scheduler" /\ Close(1) /\ Proceed(1)
Weak5 == part = "scheduler" /\ Close(2) /\ Proceed(2)
Strong1 == \/ part = "scheduler" /\ ReadLatest
           \/ part = "reports" /\ Include(hostState) /\ \E read \in BOOLEAN : Build(hostState, 0, read)
           \/ part = "fim" /\ ScanWalks
           \/ part = "liveness" /\ StaleStored
Strong2 == \/ part = "scheduler" /\ Reconcile(c1)
           \/ part = "reports" /\ report.snap = hostState /\ SendReport
           \/ part = "fim" /\ ScanReads
           \/ part = "liveness" /\ CheckUpserts
Strong3 == \/ part = "scheduler" /\ StartDue(c1)
           \/ part = "reports" /\ Arrives(hostState)
           \/ part = "fim" /\ ScanStores
Strong4 == part = "fim" /\ ScanDeletes

\* The variables of the part that moves.
Moving == CASE part = "scheduler" -> schedVars
            [] part = "reports" -> reportsVars
            [] part = "fim" -> fimVars
            [] OTHER -> livenessVars

HealingFairness ==
    /\ WF_Moving(UNCHANGED part /\ Weak1) /\ WF_Moving(UNCHANGED part /\ Weak2)
    /\ WF_Moving(UNCHANGED part /\ Weak3) /\ WF_Moving(UNCHANGED part /\ Weak4)
    /\ WF_Moving(UNCHANGED part /\ Weak5)
    /\ SF_Moving(UNCHANGED part /\ Strong1) /\ SF_Moving(UNCHANGED part /\ Strong2)
    /\ SF_Moving(UNCHANGED part /\ Strong3) /\ SF_Moving(UNCHANGED part /\ Strong4)

HealingSpec == HealingInit /\ [][HealingNext]_healingVars /\ HealingFairness

(* The type invariant of the part that moves.                              *)
HealingTypeOK ==
    /\ part \in Parts
    /\ part = "scheduler" => SchedTypeOK
    /\ part = "reports" => ReportsTypeOK
    /\ part = "fim" => FimTypeOK
    /\ part = "liveness" => LivenessTypeOK
=============================================================================
