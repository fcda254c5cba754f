------------------------------- MODULE MCParts -------------------------------
(***************************************************************************)
(* Parts of the system that share no state, each on a small instance, in   *)
(* one run: a behaviour picks a part and only that part ever moves.        *)
(* What holds of every behaviour here holds of every behaviour of each     *)
(* part by itself, and the parts cost the sum of their states and not the  *)
(* product.                                                                *)
(***************************************************************************)
EXTENDS PartProofs, ListProofs, StateProofs, VpnAgent, HostHealth, PerfAlerts, ServiceHealth, RdsSessions,
        Investigations, PostureFindings, BruteForce, LiveSettings,
        BucketDrift, RdsTrace, EcsTargets, AccessPull, RetryBatch,
        VpnReports, CloudSignals, LoginSessions, IntelFeeds,
        HostInventory, EventMatching, GatewayReports, HostCollectors,
        FileActors, HostIntake, RouteViews, NoteSenders, ApiPages

CONSTANTS s1, s2, i1, i2, b1, a1, d1, p1
RdsAddress == [s \in {s1, s2} |-> IF s = s1 THEN i1 ELSE i2]
BucketAccounts == [b \in {b1} |-> a1]

VARIABLE part

partsVars == <<part, vpnVars, conditionVars, fillVars, perfVars,
               serviceVars, rdsVars, caseVars, postureVars,
               bruteVars, settingsVars, bucketVars, traceVars, targetVars,
               pullVars, batchVars, vpnReportVars, signalVars, loginVars,
               intelVars, inventoryVars, matchVars,
               gatewayVars, collectorVars, actorVars, intakeVars,
               routeVars, senderVars, pagesVars, servicePageVars,
               connectorPageVars>>

Parts == {"vpn", "conditions", "disk", "perf", "service",
          "sessions", "logins", "case", "posture", "brute",
          "settings", "buckets", "trace", "targets", "access", "batch",
          "clients", "signals", "signing", "intel", "inventory", "matching",
          "gateway", "collectors", "actors", "intake", "routes", "senders",
          "event pages", "service page", "connector pages"}

(* The statuses of the log lines; refused requests among others.           *)
GatewayLines ==
    {<<"refused", "refused", "refused">>, <<"refused", "broken", "refused">>}

(* The file in the reports, what else is in them and what is muted.        *)
IntakeGiven ==
    /\ fileAt[0] = "x" /\ oversized = {1} /\ rescanned = {1}
    /\ \/ attempt = "stranger" /\ fileAt[1] \in {"y", "gone"}
       \/ fileAt[1] = "gone" /\ fileAt[2] = "x" /\ mutedKind = "none"


Resting(p, at) == IF part = p THEN TRUE ELSE at

(* A part at rest has one initial state.  Clients, connections and ports   *)
(* are interchangeable: s1 is pinned to d1, and d1 comes from p1.          *)
PartsInit ==
    /\ part \in Parts
    /\ VpnInit /\ HealthInit /\ PerfInit /\ ServiceInit /\ RdsInit /\ CaseInit
    /\ PostureInit /\ BruteInit
    /\ Resting("settings", subject = "mute") /\ SettingsInit
    /\ bucket = [b \in Bucket |-> IF part = "buckets" THEN Exposed ELSE NewBucket] /\ BucketInit
    /\ Resting("targets", cluster = [s \in Service |-> "gone"]) /\ TargetsInit
    /\ Resting("trace", /\ pinOf = [c \in Client |-> Nobody]
                        /\ portOf = [d \in Backend |-> p1] /\ lines = Logged({}))
    /\ TraceInit /\ (IF part = "trace" THEN pinOf[s1] = d1 /\ portOf[d1] = p1 ELSE TRUE)
    /\ Resting("access", listedFirst = TRUE) /\ PullInit /\ BatchInit
    /\ VpnReportsInit
    /\ \A p \in Peer : ipOf[p] \in (IF part = "clients" THEN {s1, p} ELSE {s1})
    /\ Resting("signals", kind = "group") /\ SignalsInit
    /\ LoginInit /\ IntelInit /\ InventoryInit
    /\ IF part = "matching" THEN MatchInit ELSE MatchRests
    /\ IF part = "gateway"
       THEN GatewayInit /\ [l \in LogLine |-> accessLog[l].status] \in GatewayLines
       ELSE GatewayRests([l \in LogLine |-> [minute |-> 1, status |-> "other"]])
    /\ Resting("collectors", readerKind = "database" /\ item = FALSE) /\ CollectorInit
    /\ ActorsInit
    /\ IF part = "intake" THEN IntakeInit /\ IntakeGiven
       ELSE /\ fileAt = [r \in 0..LastReport |-> "gone"] /\ attempt = "cron" /\ IntakeRests
            /\ oversized = {} /\ rescanned = {} /\ mutedKind = "none"
    /\ IF part = "routes" THEN RoutesInit ELSE RoutesRest
    /\ Resting("senders", /\ channel = [kind |-> "post", setup |-> "complete"]
                          /\ noteOf = [n \in Note |-> [from |-> "test", print |-> ""]])
    /\ SendersInit
    /\ PagesInit /\ ServicePageInit /\ ConnectorPageInit

Rests(p, vars) == IF part = p THEN TRUE ELSE UNCHANGED vars

OthersRest ==
    /\ UNCHANGED part
    /\ Rests("vpn", vpnVars)
    /\ Rests("conditions", conditionVars) /\ Rests("disk", fillVars)
    /\ Rests("perf", perfVars) /\ Rests("service", serviceVars)
    /\ Rests("case", caseVars)
    /\ Rests("posture", postureVars) /\ Rests("brute", bruteVars)
    /\ Rests("settings", settingsVars)
    /\ Rests("buckets", bucketVars) /\ Rests("trace", traceVars)
    /\ Rests("targets", targetVars) /\ Rests("access", pullVars)
    /\ Rests("batch", batchVars) /\ Rests("clients", vpnReportVars)
    /\ Rests("signals", signalVars) /\ Rests("signing", loginVars)
    /\ Rests("intel", intelVars) /\ Rests("inventory", inventoryVars)
    /\ Rests("matching", matchVars)
    /\ Rests("gateway", gatewayVars) /\ Rests("collectors", collectorVars)
    /\ Rests("actors", actorVars) /\ Rests("intake", intakeVars)
    /\ Rests("routes", routeVars) /\ Rests("senders", senderVars)
    /\ Rests("event pages", pagesVars) /\ Rests("service page", servicePageVars)
    /\ Rests("connector pages", connectorPageVars)
    /\ IF part \in {"sessions", "logins"} THEN TRUE ELSE UNCHANGED rdsVars

PartsNext ==
    \/ part = "vpn" /\ OthersRest /\ VpnNext
    \/ part = "conditions" /\ OthersRest /\ ConditionsNext
    \/ part = "disk" /\ OthersRest /\ FillNext
    \/ part = "perf" /\ OthersRest /\ PerfNext
    \/ part = "service" /\ OthersRest /\ ServiceNext
    \/ part = "sessions" /\ OthersRest /\ SessionsNext
    \/ part = "logins" /\ OthersRest /\ LoginsNext
    \/ part = "case" /\ OthersRest /\ CaseNext
    \/ part = "posture" /\ OthersRest /\ PostureNext
    \/ part = "brute" /\ OthersRest /\ BruteNext
    \/ part = "settings" /\ OthersRest /\ SettingsNext
    \/ part = "buckets" /\ OthersRest /\ BucketNext
    \/ part = "trace" /\ OthersRest /\ TraceNext
    \/ part = "targets" /\ OthersRest /\ TargetsNext
    \/ part = "access" /\ OthersRest /\ PullNext
    \/ part = "batch" /\ OthersRest /\ BatchNext
    \/ part = "clients" /\ OthersRest /\ VpnReportsNext
    \/ part = "signals" /\ OthersRest /\ SignalsNext
    \/ part = "signing" /\ OthersRest /\ LoginNext
    \/ part = "intel" /\ OthersRest /\ IntelNext
    \/ part = "inventory" /\ OthersRest /\ InventoryNext
    \/ part = "matching" /\ OthersRest /\ MatchNext
    \/ part = "gateway" /\ OthersRest /\ GatewayNext
    \/ part = "collectors" /\ OthersRest /\ CollectorsNext
    \/ part = "actors" /\ OthersRest /\ ActorsNext
    \/ part = "intake" /\ OthersRest /\ IntakeNext
    \/ part = "routes" /\ OthersRest /\ RoutesNext
    \/ part = "senders" /\ OthersRest /\ SendersNext
    \/ part = "event pages" /\ OthersRest /\ PagesNext
    \/ part = "service page" /\ OthersRest /\ ServicePageNext
    \/ part = "connector pages" /\ OthersRest /\ ConnectorPageNext

PartsSpec == PartsInit /\ [][PartsNext]_partsVars

(* The type invariant of the part that moves.                              *)
PartsTypeOK ==
    /\ part \in Parts
    /\ part = "vpn" => VpnTypeOK
    /\ part \in {"conditions", "disk"} => HealthTypeOK
    /\ part = "perf" => PerfTypeOK
    /\ part = "service" => ServiceTypeOK
    /\ part \in {"sessions", "logins"} => RdsTypeOK
    /\ part = "case" => CaseTypeOK
    /\ part = "posture" => PostureTypeOK
    /\ part = "brute" => BruteTypeOK
    /\ part = "settings" => SettingsTypeOK
    /\ part = "buckets" => BucketTypeOK
    /\ part = "trace" => TraceTypeOK
    /\ part = "targets" => TargetsTypeOK
    /\ part = "access" => PullTypeOK
    /\ part = "batch" => BatchTypeOK
    /\ part = "clients" => VpnReportsTypeOK
    /\ part = "signals" => SignalsTypeOK
    /\ part = "signing" => LoginTypeOK
    /\ part = "intel" => IntelTypeOK
    /\ part = "inventory" => InventoryTypeOK
    /\ part = "matching" => MatchTypeOK
    /\ part = "gateway" => GatewayTypeOK
    /\ part = "collectors" => CollectorTypeOK
    /\ part = "actors" => ActorsTypeOK
    /\ part = "intake" => IntakeTypeOK
    /\ part = "routes" => RoutesTypeOK
    /\ part = "senders" => SendersTypeOK
    /\ part = "event pages" => PagesTypeOK
    /\ part = "service page" => ServicePageTypeOK
    /\ part = "connector pages" => ConnectorPageTypeOK

(* A monitored state is told as it is, one alert for each change of it:    *)
(* host conditions and disks, service targets, what overlapping scans of   *)
(* posture and of buckets find, the clients and certificates of VPN        *)
(* servers, what a host has and what its collectors read, changes of its   *)
(* files, and weak settings of AWS resources.                              *)
StatesTold ==
    /\ part = "collectors" => CollectedTold
    /\ part = "intake" => ReportsHandled
    /\ part \in {"conditions", "disk"} => HostTold
    /\ part = "service" => ServiceTold
    /\ part = "posture" => FindingsTold
    /\ part = "buckets" => BucketsTold
    /\ part = "clients" => ClientsAreTold
    /\ part = "inventory" => InventoryTold
    /\ part = "signals" => ChangesSignalled

(* A run of events that passes a threshold is told, whatever else the      *)
(* counters see: performance samples, failed logins of a database, and     *)
(* failed logins and requests from one address.                            *)
ThresholdsTold ==
    /\ part = "gateway" => GatewayTold
    /\ part = "perf" => PerfHeard
    /\ part \in {"sessions", "logins"} => RdsAlerted
    /\ part = "brute" => BurstsTold

(* A job that was asked for ends as what it did ended, whoever dies or     *)
(* times out: an investigation, the retry of all connectors, and sending a *)
(* notification.                                                           *)
JobsSettle ==
    /\ part = "senders" => SendersTold
    /\ part = "case" => CaseSettles
    /\ part = "batch" => BatchTold

(* What an operator set is in force, is what events are matched with, and  *)
(* is what the pages show of it.                                           *)
SettingsApply ==
    /\ part = "routes" => RoutesShown
    /\ part = "settings" => SettingsInForce
    /\ part = "matching" => MatchesMeant

(* A list that is made by several hands loses nothing it should have, and  *)
(* no page of one contradicts another: objects pulled from a bucket,       *)
(* targets of service probes, the pages of events, of services and of      *)
(* connectors.                                                             *)
ListsComplete ==
    /\ part = "event pages" => PagesAgree
    /\ part = "service page" => ServicesShown
    /\ part = "connector pages" => ConnectorsShown
    /\ part = "access" => ObjectsPulled
    /\ part = "targets" => TargetsAgree

(* Nothing is granted or answered from state that has run out: sessions of *)
(* the user interface, cached answers about addresses and about the last   *)
(* writer of a file.                                                       *)
NothingOutdated ==
    /\ part = "actors" => ActorsNamed
    /\ part = "signing" => SignedOutStaysOut
    /\ part = "intel" => AnswersRecent

-----------------------------------------------------------------------------
(* Parts whose invariants are proved (PartProofs) keep them here: each of  *)
(* them takes its own steps or rests.                                      *)
ProvedInv ==
    /\ VpnInv /\ LoginInv /\ IntelInv /\ CaseInv /\ BatchInv /\ SendersInv /\ ActorsInv
    /\ TraceInv /\ SettingsInv /\ RoutesInv /\ MatchInv

LEMMA EachMovesOrRests ==
    ASSUME PartsNext
    PROVE  /\ VpnNext \/ UNCHANGED vpnVars
           /\ LoginNext \/ UNCHANGED loginVars
           /\ IntelNext \/ UNCHANGED intelVars
           /\ CaseNext \/ UNCHANGED caseVars
           /\ BatchNext \/ UNCHANGED batchVars
           /\ SendersNext \/ UNCHANGED senderVars
           /\ ActorsNext \/ UNCHANGED actorVars
           /\ TraceNext \/ UNCHANGED traceVars
           /\ SettingsNext \/ UNCHANGED settingsVars
           /\ RoutesNext \/ UNCHANGED routeVars
           /\ MatchNext \/ UNCHANGED matchVars
<1>1. OthersRest
  BY DEF PartsNext
<1>2. /\ part = "vpn" => VpnNext
      /\ part = "signing" => LoginNext
      /\ part = "intel" => IntelNext
      /\ part = "case" => CaseNext
      /\ part = "batch" => BatchNext
      /\ part = "senders" => SendersNext
      /\ part = "actors" => ActorsNext
      /\ part = "trace" => TraceNext
      /\ part = "settings" => SettingsNext
      /\ part = "routes" => RoutesNext
      /\ part = "matching" => MatchNext
  BY DEF PartsNext
<1>3. /\ part # "vpn" => UNCHANGED vpnVars
      /\ part # "signing" => UNCHANGED loginVars
      /\ part # "intel" => UNCHANGED intelVars
      /\ part # "case" => UNCHANGED caseVars
      /\ part # "batch" => UNCHANGED batchVars
      /\ part # "senders" => UNCHANGED senderVars
      /\ part # "actors" => UNCHANGED actorVars
      /\ part # "trace" => UNCHANGED traceVars
      /\ part # "settings" => UNCHANGED settingsVars
      /\ part # "routes" => UNCHANGED routeVars
      /\ part # "matching" => UNCHANGED matchVars
  BY <1>1 DEF OthersRest, Rests
<1>. QED  BY <1>2, <1>3

LEMMA ProvedInvariant == PartsSpec => []ProvedInv
<1>1. PartsInit => ProvedInv
  <2>. SUFFICES ASSUME PartsInit PROVE ProvedInv
    OBVIOUS
  <2>1. /\ VpnInit /\ LoginInit /\ IntelInit /\ CaseInit /\ BatchInit /\ SendersInit /\ ActorsInit
        /\ TraceInit /\ SettingsInit
        /\ RoutesInit \/ RoutesRest
        /\ MatchInit \/ MatchRests
    BY DEF PartsInit
  <2>. QED  BY <2>1, VpnStarts, LoginStarts, IntelStarts, CaseStarts, BatchStarts,
            SendersStarts, ActorsStarts, TraceStarts, SettingsStarts, RoutesStarts,
            RoutesAtRest, MatchStarts, MatchAtRest DEF ProvedInv
<1>2. ProvedInv /\ PartsNext => ProvedInv'
  BY EachMovesOrRests, VpnStep, VpnRests, LoginStep, LoginRests, IntelStep, IntelRests,
     CaseStep, CaseRests, BatchStep, BatchRests, SendersStep, SendersRests,
     ActorsStep, ActorsRests, TraceStep, TraceRests, SettingsStep, SettingsRests,
     RoutesStep, RoutesRests, MatchStep, MatchKeptAtRest DEF ProvedInv
<1>3. ProvedInv /\ UNCHANGED partsVars => ProvedInv'
  <2>1. UNCHANGED partsVars => UNCHANGED <<vpnVars, loginVars, intelVars, caseVars, batchVars,
                                           senderVars, actorVars, traceVars, settingsVars,
                                           routeVars, matchVars>>
    BY DEF partsVars
  <2>. QED  BY <2>1, VpnRests, LoginRests, IntelRests, CaseRests, BatchRests, SendersRests,
            ActorsRests, TraceRests, SettingsRests, RoutesRests, MatchKeptAtRest DEF ProvedInv
<1>. QED  BY <1>1, <1>2, <1>3, PTL DEF PartsSpec

(***************************************************************************)
(* An investigation, the retry of all connectors and the sending of a      *)
(* notification end as what they did ended, whatever the parts beside them *)
(* do.                                                                     *)
(***************************************************************************)
THEOREM JobsHold == PartsSpec => []JobsSettle
<1>1. ProvedInv => JobsSettle
  BY CaseCovers, BatchCovers, SendersCovers DEF ProvedInv, JobsSettle
<1>. QED  BY <1>1, ProvedInvariant, PTL

(***************************************************************************)
(* What an operator set is in force, is what events are matched with, and  *)
(* is what the pages show of it.                                           *)
(***************************************************************************)
THEOREM SettingsApplied == PartsSpec => []SettingsApply
<1>1. ProvedInv => SettingsApply
  BY SettingsCovers, RoutesCovers, MatchCovers DEF ProvedInv, SettingsApply
<1>. QED  BY <1>1, ProvedInvariant, PTL

(***************************************************************************)
(* Neither a session, nor an answer about an address, nor the last writer  *)
(* of a file is taken from state that has run out.                         *)
(***************************************************************************)
THEOREM OutdatedHold == PartsSpec => []NothingOutdated
<1>1. ProvedInv => NothingOutdated
  BY LoginCovers, IntelCovers, ActorsCovers DEF ProvedInv, NothingOutdated
<1>. QED  BY <1>1, ProvedInvariant, PTL

ListsInv == PullInv /\ TargetsInv /\ PagesInv /\ ServicesInv /\ ConnectorsInv

LEMMA ListsMoveOrRest ==
    ASSUME PartsNext
    PROVE  /\ PullNext \/ UNCHANGED pullVars
           /\ TargetsNext \/ UNCHANGED targetVars
           /\ PagesNext \/ UNCHANGED pagesVars
           /\ ServicePageNext \/ UNCHANGED servicePageVars
           /\ ConnectorPageNext \/ UNCHANGED connectorPageVars
<1>1. OthersRest
  BY DEF PartsNext
<1>2. /\ part = "access" => PullNext
      /\ part = "targets" => TargetsNext
      /\ part = "event pages" => PagesNext
      /\ part = "service page" => ServicePageNext
      /\ part = "connector pages" => ConnectorPageNext
  BY DEF PartsNext
<1>3. /\ part # "access" => UNCHANGED pullVars
      /\ part # "targets" => UNCHANGED targetVars
      /\ part # "event pages" => UNCHANGED pagesVars
      /\ part # "service page" => UNCHANGED servicePageVars
      /\ part # "connector pages" => UNCHANGED connectorPageVars
  BY <1>1 DEF OthersRest, Rests
<1>. QED  BY <1>2, <1>3

LEMMA ListsInvariant == PartsSpec => []ListsInv
<1>1. PartsInit => ListsInv
  BY PullStarted, TargetsStarted, PagesStarted, ServicePageStarted, ConnectorsStarted
     DEF PartsInit, ListsInv
<1>2. ListsInv /\ PartsNext => ListsInv'
  BY ListsMoveOrRest, PullStep, PullRests, TargetsStep, TargetsRest, PagesStep, PagesRest,
     ServicePageStep, ServicePageRests, ConnectorsStep, ConnectorsRest DEF ListsInv
<1>3. ListsInv /\ UNCHANGED partsVars => ListsInv'
  <2>1. UNCHANGED partsVars => UNCHANGED <<pullVars, targetVars, pagesVars, servicePageVars,
                                           connectorPageVars>>
    BY DEF partsVars
  <2>. QED  BY <2>1, PullRests, TargetsRest, PagesRest, ServicePageRests, ConnectorsRest DEF ListsInv
<1>. QED  BY <1>1, <1>2, <1>3, PTL DEF PartsSpec

(***************************************************************************)
(* No object between two pulls, and no target between its list and the     *)
(* probe, is lost, and no page of events, services or connectors           *)
(* contradicts another.                                                    *)
(***************************************************************************)
THEOREM ListsHold == PartsSpec => []ListsComplete
<1>1. ListsInv => ListsComplete
  BY PullCovers, TargetsCover, PagesCover, ServicePageCovers, ConnectorsCover DEF ListsInv, ListsComplete
<1>. QED  BY <1>1, ListsInvariant, PTL

-----------------------------------------------------------------------------
(* Monitored states and thresholds.  The drains of host reports and of     *)
(* gateways rest in states of their own, so that their invariants are kept *)
(* only where they move.                                                   *)
StatesInv ==
    /\ HealthInv /\ ServiceInv /\ PostureInv /\ BucketInv /\ ClientsInv /\ InventoryInv
    /\ SignalsInv /\ CollectorInv /\ (part = "intake" => IntakeInv)

ThresholdsInv ==
    PerfInv /\ RdsInv /\ BruteInv /\ (part = "gateway" => GatewayInv)

LEMMA StatesMoveOrRest ==
    ASSUME PartsNext
    PROVE  /\ ConditionsNext \/ UNCHANGED conditionVars
           /\ FillNext \/ UNCHANGED fillVars
           /\ ServiceNext \/ UNCHANGED serviceVars
           /\ PostureNext \/ UNCHANGED postureVars
           /\ BucketNext \/ UNCHANGED bucketVars
           /\ VpnReportsNext \/ UNCHANGED vpnReportVars
           /\ InventoryNext \/ UNCHANGED inventoryVars
           /\ SignalsNext \/ UNCHANGED signalVars
           /\ CollectorsNext \/ UNCHANGED collectorVars
           /\ part' = part /\ (part = "intake" => IntakeNext)
<1>1. OthersRest
  BY DEF PartsNext
<1>2. /\ part = "conditions" => ConditionsNext
      /\ part = "disk" => FillNext
      /\ part = "service" => ServiceNext
      /\ part = "posture" => PostureNext
      /\ part = "buckets" => BucketNext
      /\ part = "clients" => VpnReportsNext
      /\ part = "inventory" => InventoryNext
      /\ part = "signals" => SignalsNext
      /\ part = "collectors" => CollectorsNext
      /\ part = "intake" => IntakeNext
  BY DEF PartsNext
<1>3. /\ part # "conditions" => UNCHANGED conditionVars
      /\ part # "disk" => UNCHANGED fillVars
      /\ part # "service" => UNCHANGED serviceVars
      /\ part # "posture" => UNCHANGED postureVars
      /\ part # "buckets" => UNCHANGED bucketVars
      /\ part # "clients" => UNCHANGED vpnReportVars
      /\ part # "inventory" => UNCHANGED inventoryVars
      /\ part # "signals" => UNCHANGED signalVars
      /\ part # "collectors" => UNCHANGED collectorVars
      /\ part' = part
  BY <1>1 DEF OthersRest, Rests
<1>. QED  BY <1>2, <1>3

LEMMA StatesInvariant == PartsSpec => []StatesInv
<1>1. PartsInit => StatesInv
  <2>. SUFFICES ASSUME PartsInit PROVE StatesInv
    OBVIOUS
  <2>1. /\ ConditionsInit /\ FillInit /\ ServiceInit /\ PostureInit /\ BucketInit
        /\ VpnReportsInit /\ InventoryInit /\ SignalsInit /\ CollectorInit
        /\ part = "intake" => IntakeInit
    BY DEF PartsInit, HealthInit
  <2>. QED  BY <2>1, ConditionsStart, FillStarts, ServiceStarts, PostureStarts, BucketStarts,
            ClientsStart, InventoryStarts, SignalsStart, CollectorStarts, IntakeStarts
            DEF StatesInv, HealthInv
<1>2. StatesInv /\ PartsNext => StatesInv'
  <2>. SUFFICES ASSUME StatesInv, PartsNext PROVE StatesInv'
    OBVIOUS
  <2>1. ConditionsInv' /\ FillInv' /\ ServiceInv' /\ PostureInv' /\ BucketInv'
    BY StatesMoveOrRest, ConditionsStep, ConditionsRest, FillStep, FillRests, ServiceStep,
       ServiceRests, PostureStep, PostureRests, BucketStep, BucketRests DEF StatesInv, HealthInv
  <2>2. ClientsInv' /\ InventoryInv' /\ SignalsInv' /\ CollectorInv'
    BY StatesMoveOrRest, ClientsStep, ClientsRest, InventoryStep, InventoryRests, SignalsStep,
       SignalsRest, CollectorStep, CollectorRests DEF StatesInv
  <2>3. (part = "intake" => IntakeInv)'
    BY StatesMoveOrRest, IntakeStep DEF StatesInv
  <2>. QED  BY <2>1, <2>2, <2>3 DEF StatesInv, HealthInv
<1>3. StatesInv /\ UNCHANGED partsVars => StatesInv'
  <2>. SUFFICES ASSUME StatesInv, UNCHANGED partsVars PROVE StatesInv'
    OBVIOUS
  <2>1. UNCHANGED <<part, conditionVars, fillVars, serviceVars, postureVars, bucketVars,
                    vpnReportVars, inventoryVars, signalVars, collectorVars, intakeVars>>
    BY DEF partsVars
  <2>2. ConditionsInv' /\ FillInv' /\ ServiceInv' /\ PostureInv' /\ BucketInv'
    BY <2>1, ConditionsRest, FillRests, ServiceRests, PostureRests, BucketRests DEF StatesInv, HealthInv
  <2>3. ClientsInv' /\ InventoryInv' /\ SignalsInv' /\ CollectorInv' /\ (part = "intake" => IntakeInv)'
    BY <2>1, ClientsRest, InventoryRests, SignalsRest, CollectorRests, IntakeRest DEF StatesInv
  <2>. QED  BY <2>2, <2>3 DEF StatesInv, HealthInv
<1>. QED  BY <1>1, <1>2, <1>3, PTL DEF PartsSpec

(***************************************************************************)
(* Every monitored state is told as it is, whatever moves: conditions and  *)
(* disks of hosts, service targets, findings of overlapping scans, clients *)
(* and certificates of VPN servers, what a host has and what its           *)
(* collectors read, changes of its files, and settings of AWS resources.   *)
(***************************************************************************)
THEOREM StatesHold == PartsSpec => []StatesTold
<1>1. StatesInv => StatesTold
  BY HealthCovers, ServiceCovers, PostureCovers, BucketCovers, ClientsCover, InventoryCovers,
     SignalsCover, CollectorCovers, IntakeCovers DEF StatesInv, StatesTold
<1>. QED  BY <1>1, StatesInvariant, PTL

LEMMA ThresholdsMoveOrRest ==
    ASSUME PartsNext
    PROVE  /\ PerfNext \/ UNCHANGED perfVars
           /\ RdsNext \/ UNCHANGED rdsVars
           /\ BruteNext \/ UNCHANGED bruteVars
           /\ part' = part /\ (part = "gateway" => GatewayNext)
<1>1. OthersRest
  BY DEF PartsNext
<1>2. /\ part = "perf" => PerfNext
      /\ part = "sessions" => SessionsNext
      /\ part = "logins" => LoginsNext
      /\ part = "brute" => BruteNext
      /\ part = "gateway" => GatewayNext
  BY DEF PartsNext
<1>3. /\ part # "perf" => UNCHANGED perfVars
      /\ part \notin {"sessions", "logins"} => UNCHANGED rdsVars
      /\ part # "brute" => UNCHANGED bruteVars
      /\ part' = part
  BY <1>1 DEF OthersRest, Rests
<1>. QED  BY <1>2, <1>3 DEF RdsNext

LEMMA ThresholdsInvariant == PartsSpec => []ThresholdsInv
<1>1. PartsInit => ThresholdsInv
  <2>. SUFFICES ASSUME PartsInit PROVE ThresholdsInv
    OBVIOUS
  <2>1. PerfInit /\ RdsInit /\ BruteInit /\ (part = "gateway" => GatewayInit)
    BY DEF PartsInit
  <2>. QED  BY <2>1, PerfStarts, RdsStarts, BruteStarts, GatewayStarts DEF ThresholdsInv
<1>2. ThresholdsInv /\ PartsNext => ThresholdsInv'
  <2>. SUFFICES ASSUME ThresholdsInv, PartsNext PROVE ThresholdsInv'
    OBVIOUS
  <2>1. PerfInv' /\ RdsInv' /\ BruteInv'
    BY ThresholdsMoveOrRest, PerfStep, PerfRests, RdsStep, RdsRests, BruteStep, BruteRests
       DEF ThresholdsInv
  <2>2. (part = "gateway" => GatewayInv)'
    BY ThresholdsMoveOrRest, GatewayStep DEF ThresholdsInv
  <2>. QED  BY <2>1, <2>2 DEF ThresholdsInv
<1>3. ThresholdsInv /\ UNCHANGED partsVars => ThresholdsInv'
  <2>1. UNCHANGED partsVars => UNCHANGED <<part, perfVars, rdsVars, bruteVars, gatewayVars>>
    BY DEF partsVars
  <2>. QED  BY <2>1, PerfRests, RdsRests, BruteRests, GatewayRestKept DEF ThresholdsInv
<1>. QED  BY <1>1, <1>2, <1>3, PTL DEF PartsSpec

(***************************************************************************)
(* Events that pass a threshold are told, but for what the parts except by *)
(* name: breaching samples of the fleet, sessions and failed logins of a   *)
(* database, failed logins and refused requests from one address.          *)
(***************************************************************************)
THEOREM ThresholdsHold == PartsSpec => []ThresholdsTold
<1>1. ThresholdsInv => ThresholdsTold
  BY PerfCovers, RdsCovers, BruteCovers, GatewayCovers DEF ThresholdsInv, ThresholdsTold
<1>. QED  BY <1>1, ThresholdsInvariant, PTL

-----------------------------------------------------------------------------
(* What the types of three parts need beside their invariants.             *)
TypesInv == part \in Parts /\ TargetsBounded /\ PagesTypeOK /\ RoutesTyped

LEMMA TypesInvariant == PartsSpec => []TypesInv
<1>1. PartsInit => TypesInv
  <2>. SUFFICES ASSUME PartsInit PROVE TypesInv
    OBVIOUS
  <2>1. part \in Parts /\ TargetsInit /\ PagesInit /\ (RoutesInit \/ RoutesRest)
    BY DEF PartsInit
  <2>. QED  BY <2>1, TargetsBoundedAtFirst, PagesTypedAtFirst, RoutesTypedAtFirst DEF TypesInv
<1>2. TypesInv /\ ListsInv /\ ProvedInv /\ PartsNext => TypesInv'
  <2>. SUFFICES ASSUME TypesInv, ListsInv, ProvedInv, PartsNext PROVE TypesInv'
    OBVIOUS
  <2>1. TargetsBounded'
    BY ListsMoveOrRest, TargetsStayBounded, TargetsRestBounded DEF TypesInv, ListsInv
  <2>2. PagesTypeOK'
    BY ListsMoveOrRest, PagesStayTyped DEF TypesInv, ListsInv, pagesVars, PagesTypeOK
  <2>3. RoutesTyped'
    BY EachMovesOrRests, RoutesStayTyped, RoutesRestTyped DEF TypesInv, ProvedInv
  <2>4. part' = part
    BY StatesMoveOrRest
  <2>. QED  BY <2>1, <2>2, <2>3, <2>4 DEF TypesInv, Parts
<1>3. TypesInv /\ UNCHANGED partsVars => TypesInv'
  <2>1. UNCHANGED partsVars => UNCHANGED <<part, targetVars, eventRows, routeVars>>
    BY DEF partsVars, pagesVars
  <2>. QED  BY <2>1, TargetsRestBounded, RoutesRestTyped DEF TypesInv, Parts, PagesTypeOK
<1>. QED  BY <1>1, <1>2, <1>3, ListsInvariant, ProvedInvariant, PTL DEF PartsSpec

(***************************************************************************)
(* Whichever part moves, its variables keep their types.                   *)
(***************************************************************************)
THEOREM TypesHold == PartsSpec => []PartsTypeOK
<1>. DEFINE ListsTyped == /\ TargetsTypeOK /\ PagesTypeOK /\ PullTypeOK
                          /\ ServicePageTypeOK /\ ConnectorPageTypeOK
            PartsTyped == /\ RoutesTypeOK /\ MatchTypeOK /\ VpnTypeOK /\ LoginTypeOK /\ IntelTypeOK
                          /\ CaseTypeOK /\ BatchTypeOK /\ SendersTypeOK /\ ActorsTypeOK
                          /\ TraceTypeOK /\ SettingsTypeOK
            StatesTyped == /\ HealthTypeOK /\ ServiceTypeOK /\ PostureTypeOK /\ BucketTypeOK
                           /\ VpnReportsTypeOK /\ InventoryTypeOK /\ SignalsTypeOK
                           /\ CollectorTypeOK /\ (part = "intake" => IntakeTypeOK)
            CountsTyped == /\ PerfTypeOK /\ RdsTypeOK /\ BruteTypeOK
                           /\ part = "gateway" => GatewayTypeOK
<1>1. TypesInv /\ ListsInv => ListsTyped
  BY TargetsTyped DEF TypesInv, ListsInv, PullInv, ServicesInv, ConnectorsInv
<1>2. TypesInv /\ ProvedInv => PartsTyped
  BY RoutesAreTyped, MatchTyped DEF TypesInv, ProvedInv, VpnInv, LoginInv, IntelInv, CaseInv,
     BatchInv, SendersInv, ActorsInv, TraceInv, SettingsInv
<1>3. StatesInv => StatesTyped
  BY HealthCovers, ServiceCovers, PostureCovers, BucketCovers, ClientsCover, InventoryCovers,
     SignalsCover, CollectorCovers, IntakeCovers DEF StatesInv
<1>4. ThresholdsInv => CountsTyped
  BY PerfCovers, RdsCovers, BruteCovers, GatewayCovers DEF ThresholdsInv
<1>5. TypesInv /\ ListsTyped /\ PartsTyped /\ StatesTyped /\ CountsTyped => PartsTypeOK
  BY DEF TypesInv, PartsTypeOK
<1>. HIDE DEF ListsTyped, PartsTyped, StatesTyped, CountsTyped
<1>6. TypesInv /\ ListsInv /\ ProvedInv /\ StatesInv /\ ThresholdsInv => PartsTypeOK
  BY <1>1, <1>2, <1>3, <1>4, <1>5
<1>. QED  BY <1>6, TypesInvariant, ListsInvariant, ProvedInvariant, StatesInvariant,
             ThresholdsInvariant, PTL
=============================================================================
