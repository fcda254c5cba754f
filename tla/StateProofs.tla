----------------------------- MODULE StateProofs -----------------------------
(***************************************************************************)
(* What is proved of monitored states and of what is told of them:         *)
(* findings of posture and of buckets, services, the inventory, collectors,*)
(* conditions and reports of hosts, clients of VPN servers, and changes of *)
(* AWS resources.  They share no state.  For each of them: its inductive   *)
(* invariant, that it holds at the start, is kept by a step and by a       *)
(* stutter and covers the property, and the theorem.                       *)
(***************************************************************************)
EXTENDS PostureFindings, ServiceHealth, HostInventory, HostCollectors, HostHealth,
        HostIntake, VpnReports, CloudSignals, BucketDrift,
        SequenceTheorems, FiniteSetTheorems, TLAPS

-----------------------------------------------------------------------------
(* PostureFindings.                                                        *)

(* A scan that resolves has looked at everything; what it resolves has a   *)
(* row, and it did not see it.  Nothing is in hand between scans.          *)
ScanInOrder(s) ==
    /\ scanner[s].stage \in {"idle", "scanning"} => todo[s] = {} /\ derivedBy[s] = {}
    /\ scanner[s].stage \notin {"idle", "scanning"} => \A f \in Finding : sawOf[s][f] # "unseen"
    /\ scanner[s].stage = "telling" => todo[s] = {}
    /\ scanner[s].stage = "recording" => \A f, g \in derivedBy[s] : f = g
    /\ scanner[s].stage = "resolving" =>
          \A f \in Finding : /\ sawOf[s][f] # "failed"
                             /\ f \in todo[s] => finding[f] # "none" /\ sawOf[s][f] # "bad"

(* The news of a row, and that of its end, are told, lost or on their way. *)
NewsOf(f) ==
    /\ finding[f] # "none" => \/ news[f] # "no"
                              \/ \E s \in Scan : scanner[s].stage = "recording" /\ f \in derivedBy[s]
    /\ finding[f] = "resolved" =>
          /\ judged[f] \in {"fine", "hidden"}
          /\ \/ gone[f] # "no"
             \/ \E s \in Scan : scanner[s].stage \in {"resolving", "telling"} /\ f \in derivedBy[s]

PostureInv ==
    /\ PostureTypeOK
    /\ \A s \in Scan : ScanInOrder(s)
    /\ \A f \in Finding : NewsOf(f)

ScanRow == [stage : Stages, known : BOOLEAN]

LEMMA PostureRows ==
    ASSUME PostureTypeOK
    PROVE  /\ scanner \in [Scan -> ScanRow]
           /\ \A s \in Scan : scanner[s].stage \in Stages /\ scanner[s].known \in BOOLEAN
           /\ \A s \in Scan, f \in Finding : sawOf[s][f] \in Sights
           /\ \A s \in Scan : /\ sawOf[s] \in [Finding -> Sights]
                              /\ todo[s] \subseteq Finding /\ derivedBy[s] \subseteq Finding
           /\ news \in [Finding -> {"no", "said", "lost"}] /\ gone \in [Finding -> {"no", "said", "lost"}]
BY DEF PostureTypeOK, ScanRow

LEMMA PostureStarts == PostureInit => PostureInv
<1>. SUFFICES ASSUME PostureInit PROVE PostureInv
  OBVIOUS
<1>1. AtRest \in [stage : Stages, known : BOOLEAN] /\ AtRest.stage = "idle"
  BY DEF AtRest, Stages
<1>2. Unseen \in [Finding -> Sights]
  BY DEF Unseen, Sights
<1>3. PostureTypeOK
  BY <1>1, <1>2 DEF PostureInit, PostureTypeOK
<1>. QED  BY <1>1, <1>3 DEF PostureInit, PostureInv, ScanInOrder, NewsOf

(* What each step does to the stages and to what the scans saw.            *)
LEMMA PostureTypes ==
    ASSUME PostureTypeOK, PostureNext
    PROVE  PostureTypeOK'
<1>. USE PostureRows
<1>1. ASSUME NEW s \in Scan, NEW listed \in BOOLEAN, Begin(s, listed)
      PROVE  PostureTypeOK'
  BY <1>1 DEF Begin, PostureTypeOK, Stages
<1>2. ASSUME NEW s \in Scan, NEW to \in Stages, GoesTo(s, to)
      PROVE  scanner' \in [Scan -> [stage : Stages, known : BOOLEAN]]
  BY <1>2 DEF GoesTo, PostureTypeOK
<1>3. ASSUME NEW s \in Scan, Over(s)
      PROVE  /\ scanner' \in [Scan -> [stage : Stages, known : BOOLEAN]]
             /\ sawOf' \in [Scan -> [Finding -> Sights]]
  BY <1>3 DEF Over, PostureTypeOK, AtRest, Unseen, Stages, Sights
<1>4. ASSUME NEW s \in Scan, NEW f \in Finding, NEW as \in Sights, Examine(s, f, as)
      PROVE  PostureTypeOK'
  BY <1>4 DEF Examine, PostureTypeOK
<1>5. ASSUME NEW s \in Scan,
             Ship(s) \/ Reconcile(s) \/ Resolved(s)
      PROVE  PostureTypeOK'
  <2>1. scanner' \in [Scan -> [stage : Stages, known : BOOLEAN]]
    BY <1>5, <1>2 DEF Ship, Reconcile, Resolved, Stages
  <2>2. todo' \in [Scan -> SUBSET Finding]
    BY <1>5 DEF Ship, Reconcile, Resolved, PostureTypeOK, Bad
  <2>. QED  BY <1>5, <2>1, <2>2 DEF Ship, Reconcile, Resolved, PostureTypeOK
<1>6. ASSUME NEW s \in Scan, LeaveOpen(s) \/ Told(s)
      PROVE  PostureTypeOK'
  BY <1>6, <1>3 DEF LeaveOpen, Told, PostureTypeOK
<1>7. ASSUME NEW s \in Scan, Ends(s)
      PROVE  PostureTypeOK'
  <2>1. ASSUME NEW tells \in [Finding -> {"no", "said", "lost"}], NEW fs
        PROVE  Forget(tells, fs) \in [Finding -> {"no", "said", "lost"}]
    BY DEF Forget
  <2>2. news' \in [Finding -> {"no", "said", "lost"}] /\ gone' \in [Finding -> {"no", "said", "lost"}]
    BY <1>7, <2>1 DEF Ends
  <2>3. todo' \in [Scan -> SUBSET Finding] /\ derivedBy' \in [Scan -> SUBSET Finding]
    BY <1>7 DEF Ends, PostureTypeOK
  <2>. QED  BY <1>7, <1>3, <2>2, <2>3 DEF Ends, PostureTypeOK
<1>8. ASSUME NEW s \in Scan, NEW f \in Finding,
             \/ Record(s, f) \/ RecordNew(s, f) \/ Announce(s, f) \/ RecordStray(s, f)
             \/ RecordFails(s, f) \/ Resolve(s, f) \/ Tell(s, f)
      PROVE  PostureTypeOK'
  <2>1. scanner' = scanner /\ sawOf' = sawOf
    BY <1>8 DEF Record, RecordNew, Announce, RecordStray, RecordFails, Resolve, Tell
  <2>2. todo' \in [Scan -> SUBSET Finding]
    <3>1. DoneWith(s, f) \/ todo' = todo
      BY <1>8 DEF Record, RecordNew, Announce, RecordStray, RecordFails, Resolve, Tell
    <3>2. todo[s] \ {f} \in SUBSET Finding
      OBVIOUS
    <3>. QED  BY <3>1, <3>2 DEF DoneWith, PostureTypeOK
  <2>3. derivedBy' \in [Scan -> SUBSET Finding]
    BY <1>8 DEF Record, RecordNew, Announce, RecordStray, RecordFails, Resolve, Tell, PostureTypeOK
  <2>4. finding' \in [Finding -> {"none", "open", "resolved"}]
    BY <1>8 DEF Record, RecordNew, Announce, RecordStray, RecordFails, Resolve, Tell, FindingUpserted, PostureTypeOK
  <2>5. news' \in [Finding -> {"no", "said", "lost"}] /\ gone' \in [Finding -> {"no", "said", "lost"}]
    BY <1>8 DEF Record, RecordNew, Announce, RecordStray, RecordFails, Resolve, Tell
  <2>6. judged' \in [Finding -> Sights]
    BY <1>8, SMTT(20) DEF Record, RecordNew, Announce, RecordStray, RecordFails, Resolve, Tell, PostureTypeOK
  <2>. QED  BY <2>1, <2>2, <2>3, <2>4, <2>5, <2>6 DEF PostureTypeOK
<1>. QED  BY <1>1, <1>4, <1>5, <1>6, <1>7, <1>8 DEF PostureNext

LEMMA PostureStep == PostureInv /\ PostureNext => PostureInv'
<1>. SUFFICES ASSUME PostureInv, PostureNext PROVE PostureInv'
  OBVIOUS
<1>0. PostureTypeOK /\ PostureTypeOK'
  BY PostureTypes DEF PostureInv
<1>. USE <1>0, PostureRows
<1>. USE DEF PostureInv, ScanInOrder, NewsOf, At
<1>1. ASSUME NEW s \in Scan, NEW listed \in BOOLEAN, Begin(s, listed)
      PROVE  PostureInv'
  BY <1>1 DEF Begin, ScanRow
<1>2. ASSUME NEW s \in Scan, NEW f \in Finding, NEW as \in Sights, Examine(s, f, as)
      PROVE  PostureInv'
  <2>0. /\ \A t \in Scan : t # s => sawOf'[t] = sawOf[t]
        /\ scanner[s].stage = "scanning" /\ UNCHANGED <<scanner, todo, derivedBy, finding>>
    BY <1>2 DEF Examine, PostureTypeOK
  <2>1. ASSUME NEW t \in Scan PROVE ScanInOrder(t)'
    BY <2>0
  <2>2. ASSUME NEW g \in Finding PROVE NewsOf(g)'
    BY <1>2 DEF Examine, PostureTypeOK
  <2>. QED  BY <2>1, <2>2
<1>3. ASSUME NEW s \in Scan, Ship(s)
      PROVE  PostureInv'
  BY <1>3 DEF Ship, GoesTo, Bad, PostureTypeOK
<1>4. ASSUME NEW s \in Scan, Reconcile(s)
      PROVE  PostureInv'
  BY <1>4 DEF Reconcile, Recorded, ScanComplete, GoesTo, Bad, PostureTypeOK
<1>5. ASSUME NEW s \in Scan, Resolved(s)
      PROVE  PostureInv'
  BY <1>5 DEF Resolved, GoesTo, PostureTypeOK
<1>6. ASSUME NEW s \in Scan, LeaveOpen(s) \/ Told(s)
      PROVE  PostureInv'
  <2>0. /\ scanner'[s].stage = "idle" /\ todo'[s] = {} /\ derivedBy'[s] = {}
        /\ \A t \in Scan : t # s => scanner'[t] = scanner[t] /\ sawOf'[t] = sawOf[t]
        /\ UNCHANGED <<todo, derivedBy, finding, news, gone, judged>>
    <3>1. todo[s] = {} /\ derivedBy[s] = {}
      BY <1>6 DEF LeaveOpen, Told, Recorded
    <3>2. /\ UNCHANGED <<todo, derivedBy, finding, news, gone, judged>> /\ Over(s)
      BY <1>6 DEF LeaveOpen, Told
    <3>. QED  BY <3>1, <3>2 DEF Over, AtRest, PostureTypeOK
  <2>1. ASSUME NEW t \in Scan PROVE ScanInOrder(t)'
    BY <2>0
  <2>2. ASSUME NEW g \in Finding PROVE NewsOf(g)'
    BY <2>0
  <2>. QED  BY <2>1, <2>2
<1>7. ASSUME NEW s \in Scan, Ends(s)
      PROVE  PostureInv'
  <2>1. ASSUME NEW t \in Scan PROVE ScanInOrder(t)'
    BY <1>7 DEF Ends, Over, AtRest, Forget, PostureTypeOK
  <2>2. ASSUME NEW g \in Finding PROVE NewsOf(g)'
    BY <1>7 DEF Ends, Over, AtRest, Forget, PostureTypeOK
  <2>. QED  BY <2>1, <2>2
<1>8. ASSUME NEW s \in Scan, NEW f \in Finding, Record(s, f)
      PROVE  PostureInv'
  BY <1>8 DEF Record, AtFinding, FindingUpserted, DoneWith, PostureTypeOK
<1>9. ASSUME NEW s \in Scan, NEW f \in Finding, RecordNew(s, f)
      PROVE  PostureInv'
  BY <1>9 DEF RecordNew, AtFinding, FindingUpserted, DoneWith, PostureTypeOK
<1>10. ASSUME NEW s \in Scan, NEW f \in Finding, Announce(s, f)
      PROVE  PostureInv'
  <2>1. ASSUME NEW t \in Scan PROVE ScanInOrder(t)'
    BY <1>10 DEF Announce, PostureTypeOK
  <2>2. ASSUME NEW g \in Finding PROVE NewsOf(g)'
    <3>1. /\ \A t \in Scan : derivedBy'[t] = IF t = s THEN {} ELSE derivedBy[t]
          /\ news'[g] = IF g = f THEN "said" ELSE news[g]
          /\ scanner[s].stage = "recording" /\ f \in derivedBy[s]
          /\ UNCHANGED <<scanner, finding, gone, judged>>
      BY <1>10 DEF Announce, PostureTypeOK
    <3>2. g # f => g \notin derivedBy[s]
      BY <3>1
    <3>. QED  BY <3>1, <3>2
  <2>. QED  BY <2>1, <2>2
<1>11. ASSUME NEW s \in Scan, NEW f \in Finding, RecordStray(s, f) \/ RecordFails(s, f)
      PROVE  PostureInv'
  <2>1. ASSUME NEW t \in Scan PROVE ScanInOrder(t)'
    <3>1. /\ \A x \in Scan : todo'[x] \subseteq todo[x]
          /\ UNCHANGED <<scanner, sawOf, derivedBy, finding>>
      <4>1. DoneWith(s, f) /\ UNCHANGED <<scanner, sawOf, derivedBy, finding>>
        BY <1>11 DEF RecordStray, RecordFails
      <4>2. \A x \in Scan : todo'[x] = IF x = s THEN todo[s] \ {f} ELSE todo[x]
        BY <4>1 DEF DoneWith, PostureTypeOK
      <4>. QED  BY <4>1, <4>2
    <3>. QED  BY <3>1
  <2>2. ASSUME NEW g \in Finding PROVE NewsOf(g)'
    BY <1>11 DEF RecordStray, RecordFails
  <2>. QED  BY <2>1, <2>2
<1>12. ASSUME NEW s \in Scan, NEW f \in Finding, Resolve(s, f)
      PROVE  PostureInv'
  BY <1>12, SMTT(20) DEF Resolve, DoneWith, PostureTypeOK, Sights
<1>13. ASSUME NEW s \in Scan, NEW f \in Finding, Tell(s, f)
      PROVE  PostureInv'
  BY <1>13 DEF Tell, PostureTypeOK
<1>. QED  BY <1>1, <1>2, <1>3, <1>4, <1>5, <1>6, <1>7, <1>8, <1>9, <1>10, <1>11, <1>12, <1>13 DEF PostureNext

LEMMA PostureRests == PostureInv /\ UNCHANGED postureVars => PostureInv'
BY DEF postureVars, PostureInv, PostureTypeOK, ScanInOrder, NewsOf

LEMMA PostureCovers == PostureInv => PostureTypeOK /\ FindingsTold
BY DEF PostureInv, ScanInOrder, NewsOf, FindingsTold, At

(* However scans of posture overlap, a finding is resolved only by a scan  *)
(* that looked at its resource, and rows are announced and their ends told *)
(* unless the event was lost (posture/projection.py).                      *)
THEOREM PostureHolds == PostureSpec => [](PostureTypeOK /\ FindingsTold)
<1>1. PostureInv /\ [PostureNext]_postureVars => PostureInv'
  BY PostureStep, PostureRests
<1>. QED  BY PostureStarts, <1>1, PostureCovers, PTL DEF PostureSpec

-----------------------------------------------------------------------------
(* ServiceHealth.                                                          *)

(* The counters of a row go back to the last result in it.                 *)
ServiceCounted(row, of) ==
    /\ row.status = None <=> of = None
    /\ row.fails > 0 => of \in Failing
    /\ row.succs > 0 => of = "up"

(* A service that was never known, and is unknown without an alert.        *)
UnknownFirst == service.status = "unknown" /\ ~service.alerted => early

(* A handler that is alone has the row as it is, and what it is about to   *)
(* tell is the status in it.                                               *)
HandlerInOrder(h) ==
    /\ alone[h] => \A g \in Handler \ {h} : stage[g] = "idle"
    /\ alone[h] /\ stage[h] = "read" => found[h].row = service /\ found[h].last = last
    /\ alone[h] /\ stage[h] = "derived" => derived[h].says = service.status /\ UnknownFirst
    /\ ServiceCounted(found[h].row, found[h].last)

ServiceInv ==
    /\ ServiceTypeOK /\ SustainedOnly
    /\ ServiceCounted(service, last)
    /\ \A h \in Handler : HandlerInOrder(h)
    /\ ~untold /\ (\A h \in Handler : stage[h] # "derived") =>
          /\ told = service.status \/ (told = "unknown" /\ service.status = "up" /\ early)
          /\ UnknownFirst

LEMMA NoneIsNoStatus == None \notin Statuses
BY DEF None, Statuses, Failing

LEMMA ServiceRows ==
    ASSUME ServiceTypeOK
    PROVE  /\ service.status \in Last /\ service.fails \in 0..DownThreshold
           /\ service.succs \in 0..UpThreshold /\ service.since \in BOOLEAN /\ service.alerted \in BOOLEAN
           /\ \A h \in Handler :
                 /\ found[h].row \in Row /\ found[h].last \in Last
                 /\ found[h].row.status \in Last /\ found[h].row.fails \in 0..DownThreshold
                 /\ found[h].row.succs \in 0..UpThreshold
                 /\ found[h].row.since \in BOOLEAN /\ found[h].row.alerted \in BOOLEAN
                 /\ derived[h].says \in Last
                 /\ stage[h] \in {"idle", "read", "derived"} /\ alone[h] \in BOOLEAN
BY DEF ServiceTypeOK, Row, Last

LEMMA ServiceStarts == ServiceInit => ServiceInv
<1>. SUFFICES ASSUME ServiceInit PROVE ServiceInv
  OBVIOUS
<1>1. NoRow \in Row /\ NoRow.status = None /\ NoRow.fails = 0 /\ NoRow.succs = 0
  BY ServiceAssumption DEF NoRow, Row
<1>2. /\ NotFound \in [row : Row, last : Last] /\ NotFound.row = NoRow /\ NotFound.last = None
      /\ NoTransition \in [says : Last, of : Last \X Last] /\ NoTransition.says = None
  BY <1>1 DEF NotFound, NoTransition, Last
<1>3. ServiceTypeOK
  BY <1>1, <1>2 DEF ServiceInit, ServiceTypeOK, Last
<1>4. SustainedOnly /\ \A h \in Handler : ServiceCounted(found[h].row, found[h].last) /\ ~alone[h]
  BY <1>1, <1>2 DEF ServiceInit, SustainedOnly, ServiceCounted
<1>5. UnknownFirst /\ told = service.status /\ ServiceCounted(service, last)
  BY <1>1 DEF ServiceInit, UnknownFirst, None, ServiceCounted
<1>. QED  BY <1>3, <1>4, <1>5 DEF ServiceInv, HandlerInOrder

LEMMA LeavesInOrder ==
    ASSUME ServiceTypeOK, NEW h \in Handler, Leaves(h)
    PROVE  /\ stage' \in [Handler -> {"idle", "read", "derived"}]
           /\ found' \in [Handler -> [row : Row, last : Last]] /\ alone' \in [Handler -> BOOLEAN]
           /\ stage'[h] = "idle" /\ ~alone'[h] /\ ServiceCounted(found'[h].row, found'[h].last)
           /\ \A g \in Handler \ {h} : /\ stage'[g] = stage[g] /\ alone'[g] = alone[g]
                                       /\ found'[g] = found[g]
<1>1. NoRow \in Row /\ NoRow.status = None /\ NoRow.fails = 0 /\ NoRow.succs = 0
  BY ServiceAssumption DEF NoRow, Row
<1>2. NotFound \in [row : Row, last : Last] /\ NotFound.row = NoRow /\ NotFound.last = None
  BY <1>1 DEF NotFound, Last
<1>. QED  BY <1>1, <1>2 DEF Leaves, ServiceTypeOK, ServiceCounted

LEMMA ReadInOrder ==
    ASSUME ServiceInv, NEW h \in Handler, ResultReads(h)
    PROVE  ServiceInv'
<1>. USE ServiceRows DEF ServiceInv
<1>1. /\ found'[h] = [row |-> service, last |-> last] /\ stage'[h] = "read" /\ stage[h] = "idle"
      /\ \A g \in Handler \ {h} : found'[g] = found[g] /\ stage'[g] = stage[g] /\ ~alone'[g]
      /\ alone'[h] => \A g \in Handler : stage[g] = "idle"
      /\ UNCHANGED <<service, last, derived, told, untold, early>>
  BY DEF ResultReads, ServiceTypeOK
<1>2. ServiceTypeOK'
  <2>1. found' \in [Handler -> [row : Row, last : Last]]
    BY DEF ResultReads, ServiceTypeOK
  <2>2. alone' \in [Handler -> BOOLEAN] /\ stage' \in [Handler -> {"idle", "read", "derived"}]
    BY DEF ResultReads, ServiceTypeOK
  <2>. QED  BY <1>1, <2>1, <2>2 DEF ServiceTypeOK
<1>3. SustainedOnly'
  BY <1>1 DEF SustainedOnly
<1>4. \A g \in Handler : HandlerInOrder(g)'
  BY <1>1 DEF HandlerInOrder, ServiceCounted
<1>. QED  BY <1>1, <1>2, <1>3, <1>4 DEF ServiceCounted, UnknownFirst

LEMMA FailInOrder ==
    ASSUME ServiceInv, NEW h \in Handler, ResultFails(h)
    PROVE  ServiceInv'
<1>. USE ServiceRows, LeavesInOrder DEF ServiceInv
<1>1. /\ stage[h] = "read" /\ Leaves(h)
      /\ UNCHANGED <<service, last, derived, told, untold, early>>
  BY DEF ResultFails
<1>2. ServiceTypeOK'
  BY <1>1 DEF ServiceTypeOK
<1>3. SustainedOnly'
  BY <1>1 DEF SustainedOnly
<1>4. \A g \in Handler : HandlerInOrder(g)'
  BY <1>1 DEF HandlerInOrder, UnknownFirst
<1>. QED  BY <1>1, <1>2, <1>3, <1>4 DEF ServiceCounted, UnknownFirst

LEMMA StoredOrLost ==
    ASSUME ServiceInv, NEW h \in Handler, TransitionStored(h) \/ TransitionLost(h)
    PROVE  ServiceInv'
<1>. USE ServiceRows, LeavesInOrder DEF ServiceInv
<1>1. /\ stage[h] = "derived" /\ Leaves(h) /\ derived' = [derived EXCEPT ![h] = NoTransition]
      /\ UNCHANGED <<service, last, early>>
      /\ ~untold' => alone[h] /\ told' = derived[h].says
      /\ told' \in Last /\ untold' \in BOOLEAN
  BY ZenonT(30) DEF TransitionStored, TransitionLost, ServiceTypeOK
<1>2. NoTransition \in [says : Last, of : Last \X Last] /\ NoTransition.says = None
  BY DEF NoTransition, Last
<1>3. ServiceTypeOK'
  BY <1>1, <1>2 DEF ServiceTypeOK
<1>4. SustainedOnly'
  BY <1>1, <1>2 DEF SustainedOnly, ServiceTypeOK
<1>5. \A g \in Handler : HandlerInOrder(g)'
  BY <1>1 DEF HandlerInOrder, UnknownFirst, ServiceTypeOK
<1>6. ~untold' => told' = service'.status /\ UnknownFirst'
  BY <1>1 DEF HandlerInOrder, UnknownFirst
<1>. QED  BY <1>1, <1>3, <1>4, <1>5, <1>6 DEF ServiceCounted

(* What a result makes of a row.                                           *)
LEMMA ResultMakes ==
    ASSUME NEW row \in Row, NEW of \in Last, ServiceCounted(row, of), NEW r \in Statuses, NEW ready \in BOOLEAN,
           ready => row.since
    PROVE  LET eff   == Effective(row, r, ready)
               keeps == r = "unknown" \/ eff = "unknown"
               says  == Derives(row, eff, ready)
               new   == [status |-> eff, fails |-> Fails(row, r), succs |-> Succs(row, r),
                         since |-> keeps /\ (row.since \/ r = "unknown"),
                         alerted |-> keeps /\ (row.alerted \/ ready)]
           IN  /\ new \in Row /\ eff \in Statuses /\ says \in Last /\ ServiceCounted(new, r)
               /\ says # None => says = eff
               /\ says # None /\ of # None =>
                     /\ says = "up" => of = "up" /\ r = "up"
                     /\ says \in Failing => of \in Failing /\ r = says
               /\ says # None /\ eff = "unknown" /\ ~new.alerted => row.status = None
               /\ says = None => \/ eff = row.status /\ (eff = "unknown" /\ ~new.alerted => ~row.alerted)
                                 \/ eff = "up" /\ row.status = "unknown" /\ ~row.alerted
<1>. DEFINE eff   == Effective(row, r, ready)
            keeps == r = "unknown" \/ eff = "unknown"
            says  == Derives(row, eff, ready)
<1>1. /\ row.status \in Last /\ row.fails \in 0..DownThreshold /\ row.succs \in 0..UpThreshold
      /\ row.since \in BOOLEAN /\ row.alerted \in BOOLEAN
  BY DEF Row, Last
<1>2. /\ DownThreshold \in Nat /\ DownThreshold > 1 /\ UpThreshold \in Nat /\ UpThreshold > 1
  BY ServiceAssumption
<1>3. /\ Fails(row, r) \in 0..DownThreshold /\ Succs(row, r) \in 0..UpThreshold
      /\ Fails(row, r) > 0 => r \in Failing
      /\ Succs(row, r) > 0 => r = "up"
      /\ Fails(row, r) >= DownThreshold => r \in Failing /\ row.fails > 0
      /\ Succs(row, r) >= UpThreshold => r = "up" /\ row.succs > 0
  BY <1>1, <1>2 DEF Fails, Succs, Capped
<1>4. /\ eff \in Statuses /\ (eff = r \/ eff = row.status)
      /\ row.status = None => eff = r
      /\ eff # row.status /\ row.status # None =>
            \/ r = "up" /\ Succs(row, r) >= UpThreshold
            \/ r \in Failing /\ Fails(row, r) >= DownThreshold
            \/ r = "unknown" /\ ready
  BY <1>1 DEF Effective, Last
<1>5. /\ says # None => says = eff
      /\ says # None => eff # row.status \/ (eff = "unknown" /\ ready)
      /\ says = None => \/ eff = row.status /\ ~(eff = "unknown" /\ ready /\ ~row.alerted)
                        \/ eff = "up" /\ row.status = "unknown" /\ ~row.alerted
  BY <1>4, NoneIsNoStatus DEF Derives
<1>6. of # None => row.status # None
  BY DEF ServiceCounted
<1>7. says # None /\ of # None =>
         /\ says = "up" => of = "up" /\ r = "up"
         /\ says \in Failing => of \in Failing /\ r = says
  BY <1>3, <1>4, <1>5, <1>6 DEF ServiceCounted, Failing
<1>8. [status |-> eff, fails |-> Fails(row, r), succs |-> Succs(row, r),
       since |-> keeps /\ (row.since \/ r = "unknown"),
       alerted |-> keeps /\ (row.alerted \/ ready)] \in Row
  BY <1>3, <1>4 DEF Row
<1>9. says # None /\ eff = "unknown" /\ ~(keeps /\ (row.alerted \/ ready)) => row.status = None
  BY <1>4, <1>5 DEF Failing
<1>10. says = None /\ eff = "unknown" /\ ~(keeps /\ (row.alerted \/ ready)) => ~row.alerted
  OBVIOUS
<1>. HIDE DEF eff, says
<1>11. says \in Last
  BY <1>4, <1>5 DEF Last
<1>12. r # None /\ eff # None
  BY <1>4, NoneIsNoStatus
<1>13. ServiceCounted([status |-> eff, fails |-> Fails(row, r), succs |-> Succs(row, r),
       since |-> keeps /\ (row.since \/ r = "unknown"),
       alerted |-> keeps /\ (row.alerted \/ ready)], r)
  BY <1>3, <1>12 DEF ServiceCounted
<1>14. [status |-> eff, fails |-> Fails(row, r), succs |-> Succs(row, r),
       since |-> keeps /\ (row.since \/ r = "unknown"),
       alerted |-> keeps /\ (row.alerted \/ ready)].alerted = (keeps /\ (row.alerted \/ ready))
  OBVIOUS
<1>. QED  BY <1>4, <1>5, <1>7, <1>8, <1>9, <1>10, <1>11, <1>13, <1>14 DEF eff, says

LEMMA ResultInOrder ==
    ASSUME ServiceInv, NEW h \in Handler, NEW r \in Statuses, NEW ready \in BOOLEAN,
           ProbeResult(h, r, ready)
    PROVE  ServiceInv'
<1>. DEFINE row  == found[h].row
            of   == found[h].last
            eff  == Effective(row, r, ready)
            says == Derives(row, eff, ready)
<1>. USE ServiceRows DEF ServiceInv
<1>1. row \in Row /\ of \in Last /\ ServiceCounted(row, of)
  BY DEF HandlerInOrder
<1>2. ready => row.since
  BY DEF ProbeResult
<1>3. /\ service' \in Row /\ service'.status = eff /\ says \in Last /\ ServiceCounted(service', r)
      /\ eff \in Statuses
      /\ says # None => says = eff
      /\ says # None /\ of # None =>
            /\ says = "up" => of = "up" /\ r = "up"
            /\ says \in Failing => of \in Failing /\ r = says
      /\ says # None /\ eff = "unknown" /\ ~service'.alerted => row.status = None
      /\ says = None => \/ eff = row.status /\ (eff = "unknown" /\ ~service'.alerted => ~row.alerted)
                        \/ eff = "up" /\ row.status = "unknown" /\ ~row.alerted
  BY <1>1, <1>2, ResultMakes DEF ProbeResult
<1>4. /\ stage[h] = "read" /\ last' = r /\ untold' = (untold \/ ~alone[h]) /\ told' = told
      /\ \/ says = None /\ Leaves(h) /\ UNCHANGED <<derived, early>>
         \/ /\ says # None /\ stage' = [stage EXCEPT ![h] = "derived"]
            /\ derived' = [derived EXCEPT ![h] = [says |-> says, of |-> <<of, r>>]]
            /\ found' = [found EXCEPT ![h] = NotFound]
            /\ early' = (row.status = None) /\ alone' = alone
  BY DEF ProbeResult
<1>. HIDE DEF row, of, eff, says
<1>5. NotFound \in [row : Row, last : Last] /\ ServiceCounted(NotFound.row, NotFound.last)
  <2>1. NoRow \in Row /\ NoRow.status = None /\ NoRow.fails = 0 /\ NoRow.succs = 0
    BY ServiceAssumption DEF NoRow, Row
  <2>. QED  BY <2>1 DEF NotFound, Last, ServiceCounted
<1>6. r \in Last
  BY DEF Last
<1>7. CASE says = None
  <2>1. ServiceTypeOK'
    BY <1>3, <1>4, <1>6, <1>7, LeavesInOrder DEF ServiceTypeOK
  <2>2. /\ stage'[h] = "idle" /\ ~alone'[h] /\ ServiceCounted(found'[h].row, found'[h].last)
        /\ \A g \in Handler \ {h} : stage'[g] = stage[g] /\ alone'[g] = alone[g] /\ found'[g] = found[g]
        /\ UNCHANGED <<derived, early, told>>
    BY <1>4, <1>7, LeavesInOrder
  <2>3. SustainedOnly'
    BY <2>2 DEF SustainedOnly
  <2>4. \A g \in Handler : HandlerInOrder(g)'
    BY <2>2, <1>4 DEF HandlerInOrder
  <2>5. ASSUME ~untold'
        PROVE  /\ told' = service'.status \/ (told' = "unknown" /\ service'.status = "up" /\ early')
               /\ UnknownFirst'
    <3>1. /\ alone[h] /\ ~untold /\ row = service
          /\ \A g \in Handler : stage[g] # "derived"
      BY <2>5, <1>4 DEF HandlerInOrder, row
    <3>. QED  BY <3>1, <2>2, <1>3, <1>7 DEF UnknownFirst
  <2>. QED  BY <2>1, <2>3, <2>4, <2>5, <1>3, <1>4
<1>8. CASE says # None
  <2>1. /\ stage' \in [Handler -> {"idle", "read", "derived"}]
        /\ found' \in [Handler -> [row : Row, last : Last]]
        /\ derived' \in [Handler -> [says : Last, of : Last \X Last]]
        /\ early' \in BOOLEAN /\ untold' \in BOOLEAN
        /\ stage'[h] = "derived" /\ derived'[h].says = says /\ derived'[h].of = <<of, r>>
        /\ found'[h] = NotFound
        /\ \A g \in Handler \ {h} : stage'[g] = stage[g] /\ found'[g] = found[g] /\ derived'[g] = derived[g]
    <3>0. early' \in BOOLEAN /\ untold' \in BOOLEAN
      <4>1. untold' = (untold \/ ~alone[h]) /\ early' = (row.status = None)
        BY <1>4, <1>8
      <4>. QED  BY <4>1
    <3>1. /\ stage' \in [Handler -> {"idle", "read", "derived"}]
          /\ found' \in [Handler -> [row : Row, last : Last]]
      <4>1. /\ stage' = [stage EXCEPT ![h] = "derived"]
            /\ found' = [found EXCEPT ![h] = NotFound]
        BY <1>4, <1>8
      <4>. QED  BY <4>1, <1>5 DEF ServiceTypeOK
    <3>2. [says |-> says, of |-> <<of, r>>] \in [says : Last, of : Last \X Last]
      BY <1>1, <1>3, <1>6
    <3>3. derived' \in [Handler -> [says : Last, of : Last \X Last]]
      BY <1>4, <1>8, <3>2 DEF ServiceTypeOK
    <3>. QED  BY <1>4, <1>8, <3>0, <3>1, <3>3 DEF ServiceTypeOK
  <2>2. ServiceTypeOK'
    BY <2>1, <1>3, <1>4, <1>6, <1>8, SMTT(20) DEF ServiceTypeOK
  <2>3. SustainedOnly'
    BY <2>1, <1>3, <1>8 DEF SustainedOnly
  <2>4. \A g \in Handler : HandlerInOrder(g)'
    BY <2>1, <1>3, <1>4, <1>5, <1>8 DEF HandlerInOrder, UnknownFirst
  <2>. QED  BY <2>1, <2>2, <2>3, <2>4, <1>3, <1>4
<1>. QED  BY <1>7, <1>8

LEMMA ServiceStep == ServiceInv /\ ServiceNext => ServiceInv'
BY ReadInOrder, FailInOrder, StoredOrLost, ResultInOrder DEF ServiceNext

LEMMA ServiceRests == ServiceInv /\ UNCHANGED serviceVars => ServiceInv'
BY DEF serviceVars, ServiceInv, ServiceTypeOK, SustainedOnly, HandlerInOrder, ServiceCounted, UnknownFirst

LEMMA ServiceCovers == ServiceInv => ServiceTypeOK /\ ServiceTold
BY DEF ServiceInv, ServiceTold, ToldIsStored

(* A service is told as up or failing only if its last two results bear it *)
(* out, and what was told last is the status in its row, for any           *)
(* thresholds of at least two (_project_result).                           *)
THEOREM ServiceHolds == ServiceSpec => [](ServiceTypeOK /\ ServiceTold)
<1>1. ServiceInv /\ [ServiceNext]_serviceVars => ServiceInv'
  BY ServiceStep, ServiceRests
<1>. QED  BY ServiceStarts, <1>1, ServiceCovers, PTL DEF ServiceSpec

-----------------------------------------------------------------------------
(* HostInventory.                                                          *)

Projection == [phase : {"found", "told"}, next : HostRow, says : SUBSET {"item", "process"}, anew : BOOLEAN]

RowIsTold(s) ==
    /\ s.item = toldItem \/ "item" \in unsaid
    /\ toldProc = 1 => s.seen = "all"

(* What is about to be stored, beside the row it was compared with.        *)
ComparedWith(x, s) ==
    /\ "item" \in x.says \/ x.anew \/ x.next.item = s.item
    /\ s.seen = "all" => x.next.seen = "all" /\ "process" \notin x.says

ProjectionInOrder(x) ==
    /\ arrived >= 1
    /\ x.anew => "item" \notin x.says
    /\ "process" \in x.says => x.next.seen = "all" /\ toldProc = 0
    /\ x.phase = "found" =>
          /\ \A s \in stored : RowIsTold(s) /\ ComparedWith(x, s)
          /\ stored = {} => x.anew /\ x.says = {}
    /\ x.phase = "told" =>
          /\ stored = {x.next}
          /\ "item" \in x.says \/ x.next.item = toldItem \/ "item" \in unsaid
          /\ toldProc = 1 => x.next.seen = "all"

InventoryInv ==
    /\ stored = {} \/ \E s \in HostRow : stored = {s}
    /\ projected = {} \/ \E x \in Projection : projected = {x}
    /\ arrived \in 0..MaxArrived /\ shocks \in 0..MaxShocks /\ toldItem \in Items
    /\ unsaid \subseteq {"item", "process"}
    /\ toldProc \in {0, 1} /\ toldProc <= arrived /\ (stored = {} => toldProc = 0)
    /\ \A x \in projected : ProjectionInOrder(x)
    /\ projected = {} => \A s \in stored : RowIsTold(s)

LEMMA InventoryStarts == InventoryInit => InventoryInv
BY InventoryAssumption DEF InventoryInit, InventoryInv, Items

LEMMA ReadsInOrder == InventoryInv /\ ReadsStored => InventoryInv'
<1>. SUFFICES ASSUME InventoryInv, ReadsStored PROVE InventoryInv'
  OBVIOUS
<1>1. PICK r \in Report :
         LET was == IF stored = {} THEN "nothing" ELSE (CHOOSE s \in stored : TRUE).seen
         IN  projected' =
                {[phase |-> "found", next |-> [item |-> r.item, seen |-> Sees(r, was)],
                  says |-> UNION {Differences(r, s) : s \in stored},
                  anew |-> \A s \in stored : "missing" \in {s.item, r.item}]}
  BY DEF ReadsStored
<1>. DEFINE was == IF stored = {} THEN "nothing" ELSE (CHOOSE s \in stored : TRUE).seen
<1>2. PICK x : x = [phase |-> "found", next |-> [item |-> r.item, seen |-> Sees(r, was)],
                    says |-> UNION {Differences(r, s) : s \in stored},
                    anew |-> \A s \in stored : "missing" \in {s.item, r.item}]
  OBVIOUS
<1>6. /\ projected = {} /\ arrived < MaxArrived /\ arrived' = arrived + 1 /\ projected' = {x}
      /\ UNCHANGED <<stored, shocks, toldItem, toldProc, unsaid>>
  BY <1>1, <1>2 DEF ReadsStored
<1>3. r.item \in Items /\ r.procs \in {"missing", "without", "with"}
  BY DEF Report
<1>4. CASE stored = {}
  <2>1. x.says = {} /\ x.anew = TRUE /\ x.phase = "found"
    BY <1>2, <1>4
  <2>2. x.next \in HostRow
    BY <1>2, <1>3, <1>4 DEF HostRow, Sees
  <2>3. x \in Projection
    BY <1>2, <2>1, <2>2 DEF Projection
  <2>4. ProjectionInOrder(x)'
    BY <1>6, <1>4, <2>1 DEF ProjectionInOrder, InventoryInv
  <2>. QED  BY <1>6, <1>4, <2>3, <2>4, InventoryAssumption DEF InventoryInv, Items
<1>5. CASE stored # {}
  <2>1. PICK s \in HostRow : stored = {s}
    BY <1>5 DEF InventoryInv
  <2>2. /\ was = s.seen /\ s.item \in Items /\ s.seen \in {"nothing", "others", "all"}
    BY <2>1 DEF HostRow
  <2>3. /\ x.says = Differences(r, s) /\ x.phase = "found"
        /\ x.anew \in BOOLEAN /\ (x.anew <=> "missing" \in {s.item, r.item})
        /\ x.next.item = r.item /\ x.next.seen = Sees(r, was)
    <3>1. UNION {Differences(r, t) : t \in stored} = Differences(r, s)
      BY <2>1
    <3>2. (\A t \in stored : "missing" \in {t.item, r.item}) <=> "missing" \in {s.item, r.item}
      BY <2>1
    <3>3. /\ x.anew = (\A t \in stored : "missing" \in {t.item, r.item})
          /\ x.says = UNION {Differences(r, t) : t \in stored} /\ x.phase = "found"
          /\ x.next = [item |-> r.item, seen |-> Sees(r, was)]
      BY <1>2
    <3>4. x.anew \in BOOLEAN /\ (x.anew <=> "missing" \in {s.item, r.item})
      <4>. DEFINE all == \A t \in stored : "missing" \in {t.item, r.item}
      <4>1. all \in BOOLEAN /\ (all <=> "missing" \in {s.item, r.item})
        BY <3>2
      <4>2. x.anew = all
        BY <3>3
      <4>. HIDE DEF all
      <4>. QED  BY <4>1, <4>2
    <3>. QED  BY <3>1, <3>3, <3>4
  <2>4. Sees(r, was) \in {"nothing", "others", "all"}
    BY <1>3, <2>2 DEF Sees
  <2>5. x \in Projection
    BY <1>2, <1>3, <2>1, <2>3, <2>4 DEF Projection, HostRow, Differences
  <2>6. /\ "item" \in Differences(r, s) <=> ItemDiffers(r, s)
        /\ "process" \in Differences(r, s) <=> FirstSeen(r, s)
    BY DEF Differences
  <2>7. ComparedWith(x, s)
    BY <1>3, <2>2, <2>3, <2>6 DEF ComparedWith, ItemDiffers, FirstSeen, Sees
  <2>8. /\ x.anew => "item" \notin x.says
        /\ "process" \in x.says => x.next.seen = "all" /\ s.seen = "others"
    BY <1>3, <2>3, <2>6 DEF ItemDiffers, FirstSeen, Sees
  <2>9. RowIsTold(s) /\ toldProc \in {0, 1}
    BY <1>6, <2>1 DEF InventoryInv
  <2>10. ProjectionInOrder(x)'
    <3>1. arrived' >= 1 /\ stored' = {s} /\ toldProc' = toldProc /\ (ComparedWith(x, s)) /\ RowIsTold(s)'
      BY <1>6, <2>1, <2>7, <2>9 DEF InventoryInv, RowIsTold
    <3>. QED  BY <3>1, <2>3, <2>8, <2>9 DEF ProjectionInOrder, RowIsTold, ComparedWith
  <2>. QED  BY <1>6, <1>5, <2>1, <2>5, <2>10, InventoryAssumption DEF InventoryInv
<1>. QED  BY <1>4, <1>5

LEMMA StoresInOrder == InventoryInv /\ StoresSnapshot => InventoryInv'
<1>. SUFFICES ASSUME InventoryInv, StoresSnapshot PROVE InventoryInv'
  OBVIOUS
<1>1. PICK x \in projected :
         /\ x.phase = "found" /\ stored' = {x.next}
         /\ projected' = {[x EXCEPT !.phase = "told"]}
         /\ IF x.anew THEN toldItem' = x.next.item /\ unsaid' = unsaid \ {"item"}
            ELSE UNCHANGED <<toldItem, unsaid>>
         /\ UNCHANGED <<arrived, shocks, toldProc>>
  BY DEF StoresSnapshot
<1>2. x \in Projection /\ ProjectionInOrder(x)
  BY DEF InventoryInv
<1>. DEFINE y == [x EXCEPT !.phase = "told"]
<1>3. /\ y \in Projection /\ y.phase = "told" /\ y.next = x.next /\ y.says = x.says /\ y.anew = x.anew
      /\ x.next \in HostRow /\ x.next.item \in Items /\ x.anew \in BOOLEAN
  BY <1>2 DEF Projection, HostRow
<1>. HIDE DEF y
<1>4. projected' = {y}
  BY <1>1 DEF y
<1>5. stored = {} \/ \E s \in HostRow : stored = {s}
  BY DEF InventoryInv
<1>6. ProjectionInOrder(y)'
  BY <1>1, <1>2, <1>3, <1>5 DEF ProjectionInOrder, RowIsTold, ComparedWith, InventoryInv
<1>. QED  BY <1>1, <1>3, <1>4, <1>6 DEF InventoryInv

LEMMA TellsInOrder == InventoryInv /\ (TellsChanges \/ ProjectionDies) => InventoryInv'
<1>. SUFFICES ASSUME InventoryInv, TellsChanges \/ ProjectionDies PROVE InventoryInv'
  OBVIOUS
<1>1. ASSUME NEW x \in projected, x.phase = "told", projected' = {},
             toldItem' = IF "item" \in x.says THEN x.next.item ELSE toldItem,
             toldProc' = toldProc + Cardinality(x.says \cap {"process"}),
             UNCHANGED <<stored, arrived, shocks, unsaid>>
      PROVE  InventoryInv'
  <2>1. x \in Projection /\ ProjectionInOrder(x)
    BY DEF InventoryInv
  <2>2. /\ x.next \in HostRow /\ x.next.item \in Items /\ stored = {x.next}
    BY <1>1, <2>1 DEF Projection, HostRow, ProjectionInOrder
  <2>3. Cardinality(x.says \cap {"process"}) = IF "process" \in x.says THEN 1 ELSE 0
    <3>1. x.says \cap {"process"} = IF "process" \in x.says THEN {"process"} ELSE {}
      OBVIOUS
    <3>. QED  BY <3>1, FS_EmptySet, FS_Singleton
  <2>4. toldProc' = IF "process" \in x.says THEN 1 ELSE toldProc
    BY <1>1, <2>1, <2>3 DEF ProjectionInOrder, InventoryInv
  <2>5. RowIsTold(x.next)'
    BY <1>1, <2>1, <2>4 DEF ProjectionInOrder, RowIsTold
  <2>. QED  BY <1>1, <2>1, <2>2, <2>4, <2>5 DEF InventoryInv, ProjectionInOrder
<1>2. ASSUME NEW x \in projected, shocks < MaxShocks, shocks' = shocks + 1, projected' = {},
             unsaid' = IF x.phase = "told" THEN unsaid \cup x.says ELSE unsaid,
             UNCHANGED <<stored, arrived, toldItem, toldProc>>
      PROVE  InventoryInv'
  <2>1. x \in Projection /\ ProjectionInOrder(x)
    BY DEF InventoryInv
  <2>2. x.phase \in {"found", "told"} /\ x.says \subseteq {"item", "process"}
    BY <2>1 DEF Projection
  <2>3. \A s \in stored : RowIsTold(s)'
    BY <1>2, <2>1, <2>2 DEF ProjectionInOrder, RowIsTold
  <2>4. unsaid' \subseteq {"item", "process"}
    BY <1>2, <2>2 DEF InventoryInv
  <2>5. shocks' \in 0..MaxShocks
    BY <1>2, InventoryAssumption DEF InventoryInv
  <2>. QED  BY <1>2, <2>3, <2>4, <2>5 DEF InventoryInv
<1>. QED  BY <1>1, <1>2 DEF TellsChanges, ProjectionDies

LEMMA InventoryStep == InventoryInv /\ InventoryNext => InventoryInv'
BY ReadsInOrder, StoresInOrder, TellsInOrder DEF InventoryNext

LEMMA InventoryRests == InventoryInv /\ UNCHANGED inventoryVars => InventoryInv'
BY DEF inventoryVars, InventoryInv, ProjectionInOrder, RowIsTold, ComparedWith

LEMMA InventoryCovers == InventoryInv => InventoryTypeOK /\ InventoryTold
<1>. SUFFICES ASSUME InventoryInv PROVE InventoryTypeOK /\ InventoryTold
  OBVIOUS
<1>0. Cardinality({}) = 0 /\ \A x : Cardinality({x}) = 1
  BY FS_EmptySet, FS_Singleton
<1>1. stored \subseteq HostRow /\ Cardinality(stored) <= 1
  BY <1>0 DEF InventoryInv
<1>2. Cardinality(projected) <= 1 /\ projected \subseteq Projection
  <2>1. projected = {} \/ \E x \in Projection : projected = {x}
    BY DEF InventoryInv
  <2>2. CASE projected = {}
    BY <1>0, <2>2
  <2>3. ASSUME NEW x \in Projection, projected = {x}
        PROVE  Cardinality(projected) <= 1 /\ projected \subseteq Projection
    BY <1>0, <2>3
  <2>. QED  BY <2>1, <2>2, <2>3
<1>3. toldProc \in 0..MaxArrived
  BY InventoryAssumption DEF InventoryInv
<1>4. InventoryTypeOK
  BY <1>1, <1>2, <1>3 DEF InventoryInv, InventoryTypeOK, Projection
<1>5. InventoryTold
  BY DEF InventoryInv, InventoryTold, RowIsTold
<1>. QED  BY <1>4, <1>5

(* The changes told of a host add up to the item it has, and a process is  *)
(* told as first seen at most once (_project_snapshot).                    *)
THEOREM InventoryHolds == InventorySpec => [](InventoryTypeOK /\ InventoryTold)
<1>1. InventoryInv /\ [InventoryNext]_inventoryVars => InventoryInv'
  BY InventoryStep, InventoryRests
<1>. QED  BY InventoryStarts, <1>1, InventoryCovers, PTL DEF InventorySpec

-----------------------------------------------------------------------------
(* HostCollectors.                                                         *)

CollectorRow == [value : Sightings, error : BOOLEAN, next : 0..(MaxTick + Every), success : 0..MaxTick]

CollectorInv ==
    /\ CollectorTypeOK
    /\ asTold # collector.value => readerKind = "processes" /\ untoldFor <= tick - resyncAt
    /\ asTold = collector.value => untoldFor = 0
    /\ (tick = 0 /\ asTold = collector.value) \/ tick - resyncAt <= ResyncEvery
    /\ resyncAt <= tick /\ untoldFor <= tick
    /\ readerKind \in {"gated", "processes"} => ~misread
    /\ collector.value = "nothing" \/ collector.value = AsFound(readAs) \/ misread
    /\ tick < collector.next \/ tick = 0
    /\ collector.next <= tick + Every /\ apart <= tick
    /\ collector.error \/ misread \/ apart + collector.next <= tick + Every
    /\ collector.error \/ collector.success = 0 \/ collector.next = collector.success + Every
    /\ stalled => collector.error
    /\ corrupted <=> Corrupt(look)

LEMMA CollectorFacts ==
    ASSUME CollectorTypeOK
    PROVE  /\ Every \in Nat /\ Every > 0 /\ MaxTick \in Nat /\ tick \in 0..MaxTick /\ apart \in 0..MaxTick
           /\ collector \in CollectorRow
           /\ collector.value \in Sightings /\ collector.error \in BOOLEAN
           /\ collector.next \in 0..(MaxTick + Every) /\ collector.success \in 0..MaxTick
           /\ ResyncEvery \in Nat /\ resyncAt \in -(ResyncEvery + 1)..MaxTick /\ untoldFor \in 0..MaxTick
BY CollectorAssumption DEF CollectorTypeOK, CollectorRow

LEMMA CollectorStarts == CollectorInit => CollectorInv
<1>. SUFFICES ASSUME CollectorInit PROVE CollectorInv
  OBVIOUS
<1>1. CollectorTypeOK
  <2>1. /\ resyncAt \in -(ResyncEvery + 1)..MaxTick /\ untoldFor \in 0..MaxTick
        /\ collector \in CollectorRow /\ asTold \in Sightings /\ flips \in 0..MaxFlips
        /\ tick \in 0..MaxTick /\ apart \in 0..MaxTick /\ readerKind \in Readers
    BY CollectorAssumption DEF CollectorInit, CollectorRow, Sightings
  <2>2. look \in [stuck : BOOLEAN, inUse : BOOLEAN, asked : BOOLEAN, answers : BOOLEAN]
    BY DEF CollectorInit
  <2>3. {item, stalled, corrupted, readAs, misread} \subseteq BOOLEAN
    BY DEF CollectorInit
  <2>. QED  BY <2>1, <2>2, <2>3 DEF CollectorTypeOK, CollectorRow
<1>. QED  BY <1>1, CollectorAssumption DEF CollectorInit, CollectorInv, Corrupt

(* What a run of the collector makes of it.                                *)
LEMMA RunMakes ==
    ASSUME NEW c \in CollectorRow, NEW now \in 1..MaxTick, NEW seen \in Sightings
    PROVE  LET new == RunsAt(c, now, seen)
           IN  /\ new \in CollectorRow /\ new.next = now + Every
               /\ seen = "nothing" => new.error = TRUE /\ new.value = c.value /\ new.success = c.success
               /\ seen # "nothing" => new.error = FALSE /\ new.value = seen /\ new.success = now
<1>1. Every \in Nat /\ Every > 0 /\ MaxTick \in Nat /\ now + Every \in 0..(MaxTick + Every) /\ now \in 0..MaxTick
  BY CollectorAssumption
<1>2. CASE seen = "nothing"
  BY <1>1, <1>2 DEF RunsAt, Errs, CollectorRow
<1>3. CASE seen # "nothing"
  <2>. DEFINE mid == [c EXCEPT !.value = seen, !.error = FALSE, !.success = now]
  <2>1. /\ mid \in CollectorRow /\ mid.error = FALSE /\ mid.value = seen /\ mid.success = now
    BY <1>1 DEF CollectorRow
  <2>. HIDE DEF mid
  <2>2. RunsAt(c, now, seen) = [mid EXCEPT !.next = now + Every]
    BY <1>3 DEF RunsAt, mid
  <2>. QED  BY <1>1, <1>3, <2>1, <2>2 DEF CollectorRow
<1>. QED  BY <1>2, <1>3

LEMMA FindsSomething ==
    ASSUME CollectorTypeOK, readerKind # "database", NEW outcome \in Outcomes
    PROVE  /\ Finds(item, outcome) \in Sightings
           /\ readerKind \in {"gated", "processes"} => Finds(item, outcome) \in {"nothing", AsFound(item)}
<1>1. readerKind \in {"command", "gated", "processes", "files", "search"}
  BY DEF CollectorTypeOK, Readers
<1>. QED  BY <1>1 DEF Finds, CommandFinds, GatedFinds, FilesFind, SearchFinds, AsFound, Sightings

LEMMA TickInOrder == CollectorInv /\ AgentTicks => CollectorInv'
<1>. SUFFICES ASSUME CollectorInv, AgentTicks PROVE CollectorInv'
  OBVIOUS
<1>. USE CollectorFacts DEF CollectorInv
<1>1. /\ readerKind # "database" /\ tick < MaxTick /\ tick' = tick + 1
      /\ stalled' = Stalls(collector', tick')
      /\ apart' = IF collector'.value \in {"nothing", AsFound(item)} THEN 0 ELSE apart + 1
      /\ UNCHANGED <<readerKind, item, corrupted, look, flips>>
  BY DEF AgentTicks
<1>2. apart' \in 0..MaxTick /\ apart' <= tick'
  BY <1>1
<1>5. /\ resyncAt' = IF ResyncDue THEN tick' ELSE resyncAt
      /\ untoldFor' = IF asTold' = collector'.value THEN 0 ELSE untoldFor + 1
      /\ asTold' \in {collector'.value, asTold}
      /\ asTold' # collector'.value => ~ResyncDue /\ readerKind = "processes"
  <2>1. PICK othersChanged \in BOOLEAN :
           asTold' = IF ResyncDue \/ othersChanged \/ ChangeShips(collector'.value)
                     THEN collector'.value ELSE asTold
    BY DEF AgentTicks
  <2>. QED  BY <2>1 DEF AgentTicks, ChangeShips
<1>6. /\ tick' - resyncAt' <= ResyncEvery /\ resyncAt' <= tick'
      /\ resyncAt' \in -(ResyncEvery + 1)..MaxTick
  BY <1>1, <1>5 DEF ResyncDue
<1>7. /\ asTold' # collector'.value => readerKind' = "processes" /\ untoldFor' <= tick' - resyncAt'
      /\ asTold' = collector'.value => untoldFor' = 0
      /\ untoldFor' \in 0..MaxTick /\ untoldFor' <= tick'
  <2>1. CASE asTold' = collector'.value
    BY <1>1, <1>5, <2>1
  <2>2. CASE asTold' # collector'.value
    <3>1. resyncAt' = resyncAt /\ untoldFor' = untoldFor + 1 /\ readerKind = "processes"
      BY <1>5, <2>2
    <3>2. untoldFor <= tick - resyncAt
      <4>1. CASE asTold # collector.value
        BY <4>1
      <4>2. CASE asTold = collector.value
        BY <1>1, <1>6, <3>1, <4>2
      <4>. QED  BY <4>1, <4>2
    <3>. QED  BY <1>1, <2>2, <3>1, <3>2
  <2>. QED  BY <2>1, <2>2
<1>3. CASE tick' < collector.next
  <2>1. UNCHANGED <<collector, readAs, misread>>
    BY <1>3 DEF AgentTicks
  <2>2. CollectorTypeOK'
    BY <1>1, <1>2, <1>5, <1>6, <1>7, <2>1 DEF CollectorTypeOK, Stalls
  <2>3. stalled' => collector'.error
    BY <1>1, <1>3, <2>1 DEF Stalls
  <2>. QED  BY <1>1, <1>2, <1>3, <1>6, <1>7, <2>1, <2>2, <2>3
<1>4. CASE ~(tick' < collector.next)
  <2>1. PICK outcome \in Outcomes :
           /\ collector' = RunsAt(collector, tick', Finds(item, outcome))
           /\ IF Finds(item, outcome) # "nothing"
              THEN readAs' = item /\ misread' = (Finds(item, outcome) # AsFound(item))
              ELSE UNCHANGED <<readAs, misread>>
    BY <1>4 DEF AgentTicks
  <2>. DEFINE sighting == Finds(item, outcome)
  <2>2. sighting \in Sightings /\ (readerKind \in {"gated", "processes"} => sighting \in {"nothing", AsFound(item)})
    BY <1>1, FindsSomething
  <2>3. tick' \in 1..MaxTick
    BY <1>1
  <2>4. /\ collector' \in CollectorRow /\ collector'.next = tick' + Every
        /\ sighting = "nothing" => /\ collector'.error = TRUE /\ collector'.value = collector.value
                                /\ collector'.success = collector.success
        /\ sighting # "nothing" => collector'.error = FALSE /\ collector'.value = sighting /\ collector'.success = tick'
    <3>1. collector \in CollectorRow /\ collector' = RunsAt(collector, tick', sighting)
      BY <2>1
    <3>. HIDE DEF sighting
    <3>. QED  BY ONLY <3>1, <2>2, <2>3, RunMakes
  <2>5. /\ sighting # "nothing" => readAs' = item /\ misread' = (sighting # AsFound(item))
        /\ sighting = "nothing" => readAs' = readAs /\ misread' = misread
        /\ readAs' \in BOOLEAN /\ misread' \in BOOLEAN
    BY <2>1 DEF CollectorTypeOK
  <2>. HIDE DEF sighting
  <2>6. stalled' \in BOOLEAN
    BY <1>1 DEF Stalls
  <2>7. CollectorTypeOK'
    BY <1>1, <1>2, <1>5, <1>6, <1>7, <2>3, <2>4, <2>5, <2>6 DEF CollectorTypeOK, CollectorRow
  <2>8. stalled' => collector'.error
    <3>1. stalled' = Stalls(collector', tick') /\ Every \in Nat /\ Every > 0
      BY <1>1
    <3>2. CASE sighting # "nothing"
      <4>1. collector'.success = tick' /\ tick' \in Nat
        BY <2>3, <2>4, <3>2
      <4>2. \A n \in Nat : ~(n - n > 3 * Every)
        BY <3>1
      <4>3. stalled' => tick' - tick' > 3 * Every
        BY <3>1, <4>1 DEF Stalls
      <4>. QED  BY <4>1, <4>2, <4>3
    <3>. QED  BY <2>4, <3>2
  <2>9. collector'.error \/ misread' \/ apart' = 0
    BY <1>1, <2>4, <2>5
  <2>10. collector'.value = "nothing" \/ collector'.value = AsFound(readAs') \/ misread'
    BY <2>4, <2>5
  <2>11. readerKind \in {"gated", "processes"} => ~misread'
    BY <2>2, <2>5
  <2>. QED  BY <1>1, <1>2, <1>6, <1>7, <2>3, <2>4, <2>7, <2>8, <2>9, <2>10, <2>11 DEF AsFound
<1>. QED  BY <1>3, <1>4

LEMMA LookInOrder == CollectorInv /\ AgentLooks => CollectorInv'
<1>. SUFFICES ASSUME CollectorInv, AgentLooks PROVE CollectorInv'
  OBVIOUS
<1>1. /\ look' \in DatabaseLooks /\ corrupted' = Corrupt(look')
      /\ UNCHANGED <<readerKind, item, tick, collector, asTold, resyncAt, untoldFor, stalled, readAs, misread,
                  apart, flips>>
  BY DEF AgentLooks
<1>2. look' \in [stuck : BOOLEAN, inUse : BOOLEAN, asked : BOOLEAN, answers : BOOLEAN] /\ corrupted' \in BOOLEAN
  <2>1. item \in BOOLEAN
    BY DEF CollectorInv, CollectorTypeOK
  <2>2. look' \in [stuck : BOOLEAN, inUse : BOOLEAN, asked : BOOLEAN, answers : BOOLEAN]
    BY <1>1, <2>1 DEF DatabaseLooks
  <2>. QED  BY <1>1, <2>2 DEF Corrupt
<1>3. CollectorTypeOK'
  BY <1>1, <1>2 DEF CollectorInv, CollectorTypeOK
<1>. QED  BY <1>1, <1>3 DEF CollectorInv, AsFound

LEMMA FlipInOrder == CollectorInv /\ HostFlips => CollectorInv'
<1>. SUFFICES ASSUME CollectorInv, HostFlips PROVE CollectorInv'
  OBVIOUS
<1>1. CollectorTypeOK'
  BY CollectorAssumption DEF HostFlips, CollectorInv, CollectorTypeOK
<1>. QED  BY <1>1, CollectorFacts DEF HostFlips, CollectorInv, AsFound, Corrupt

LEMMA CollectorStep == CollectorInv /\ CollectorsNext => CollectorInv'
BY TickInOrder, LookInOrder, FlipInOrder DEF CollectorsNext

LEMMA CollectorRests == CollectorInv /\ UNCHANGED collectorVars => CollectorInv'
BY DEF collectorVars, CollectorInv, CollectorTypeOK, AsFound, Corrupt

LEMMA CollectorCovers == CollectorInv => CollectorTypeOK /\ CollectedTold
<1>. SUFFICES ASSUME CollectorInv PROVE CollectedTold
  BY DEF CollectorInv
<1>. USE CollectorFacts DEF CollectorInv
<1>1. collector.value # "nothing" /\ collector.value # AsFound(readAs) =>
          misread /\ readerKind \notin {"gated", "processes"}
  OBVIOUS
<1>4. asTold # collector.value => readerKind = "processes" /\ untoldFor <= ResyncEvery
  OBVIOUS
<1>2. apart > Every => collector.error \/ misread
  OBVIOUS
<1>3. /\ corrupted => look.stuck \/ ~look.asked
      /\ look.stuck /\ ~look.inUse /\ look.answers => corrupted
  BY DEF Corrupt
<1>. QED  BY <1>1, <1>2, <1>3, <1>4 DEF CollectedTold

(* A collector that cannot look says so and does not tell that the item is *)
(* gone, but for the three kinds of reader that take a failure for an      *)
(* absence; none is told as stalled without an error (ec2_agent            *)
(* collectors, diff.py).                                                   *)
THEOREM CollectorsHold == CollectorsSpec => [](CollectorTypeOK /\ CollectedTold)
<1>1. CollectorInv /\ [CollectorsNext]_collectorVars => CollectorInv'
  BY CollectorStep, CollectorRests
<1>. QED  BY CollectorStarts, <1>1, CollectorCovers, PTL DEF CollectorsSpec

-----------------------------------------------------------------------------
(* HostHealth.                                                             *)

AreLast(q, l, n) == Len(q) >= n /\ \A i \in 1..n : q[i] = l
IsIn(q, c)       == \E i \in 1..Len(q) : q[i] = c

(* The runs of the row are those of the loads, up to what is compared.     *)
RunsOf ==
    /\ runs.anomalous < AnomalyRun => ~AreLast(loads, "anomalous", runs.anomalous + 1)
    /\ runs.usual < NormalRun => ~AreLast(loads, "usual", runs.usual + 1)
    /\ AreLast(loads, "anomalous", runs.anomalous) /\ AreLast(loads, "usual", runs.usual)

InLine(c) == IsIn(unstored, c)

ConditionsInv ==
    /\ raised \subseteq Condition /\ heard \subseteq Condition /\ muted \subseteq Condition
    /\ runs \in [anomalous : 0..AnomalyRun, usual : 0..NormalRun]
    /\ samples \in 0..MinSamples /\ cuts \in 0..MaxLost
    /\ unstored \in Seq(Condition)
    /\ readings \in [memory : Memory, levels : SUBSET Level]
    /\ loads \in Seq(Load) /\ Len(loads) <= Longest
    /\ RunsOf
    /\ IF "memory" \in raised THEN readings.memory # "low" ELSE readings.memory # "high"
    /\ IF "cpu" \in raised THEN runs.usual < NormalRun ELSE runs.anomalous < AnomalyRun
    /\ \A c \in Level : c \in raised <=> c \in readings.levels
    /\ \A c \in Condition : c \in muted \/ InLine(c) \/ (c \in heard <=> c \in raised)
    /\ InLine("cpu") => IF "cpu" \in raised THEN runs.anomalous = AnomalyRun ELSE runs.usual = NormalRun

FillInv ==
    /\ {fill, fillEvent, fillHeard} \subseteq Fill /\ blind \in BOOLEAN
    /\ fillEvent = "missing" \/ fillEvent = fill
    /\ fill \in {"missing", "band"} \/ blind \/ fillEvent = fill \/ (fillEvent = "missing" /\ fillHeard = fill)

LEMMA HealthConstants ==
    /\ AnomalyRun \in Nat /\ AnomalyRun > 0 /\ NormalRun \in Nat /\ NormalRun > 0
    /\ MinSamples \in Nat /\ MaxLost \in Nat
    /\ Longest \in Nat /\ Longest >= AnomalyRun /\ Longest >= NormalRun
    /\ "memory" \notin Level /\ "cpu" \notin Level /\ IsFiniteSet(Level)
BY HealthAssumption DEF Longest

LEMMA FillStarts == FillInit => FillInv
BY DEF FillInit, FillInv, Fill

LEMMA FillStep == FillInv /\ FillNext => FillInv'
<1>. USE DEF FillInv, Fill
<1>1. ASSUME FillInv, NEW c \in Fill, Snapshot(c) PROVE FillInv'
  BY <1>1 DEF Snapshot, Tells
<1>2. ASSUME FillInv, FillStored PROVE FillInv'
  BY <1>2 DEF FillStored
<1>3. ASSUME FillInv, FillLost PROVE FillInv'
  BY <1>3 DEF FillLost
<1>. QED  BY <1>1, <1>2, <1>3 DEF FillNext

LEMMA FillRests == FillInv /\ UNCHANGED fillVars => FillInv'
BY DEF FillInv, fillVars

LEMMA FillCovers == FillInv => DiskTold
BY DEF FillInv, DiskTold

-----------------------------------------------------------------------------

LEMMA ConditionsStart == ConditionsInit => ConditionsInv
<1>. SUFFICES ASSUME ConditionsInit PROVE ConditionsInv
  OBVIOUS
<1>. USE HealthConstants DEF ConditionsInit
<1>1. /\ loads \in Seq(Load) /\ Len(loads) = 0 /\ unstored \in Seq(Condition)
      /\ runs.anomalous = 0 /\ runs.usual = 0
  OBVIOUS
<1>2. RunsOf
  BY <1>1 DEF RunsOf, AreLast
<1>3. /\ raised = {} /\ heard = {} /\ readings \in [memory : Memory, levels : SUBSET Level]
      /\ readings.memory = "missing" /\ readings.levels = {}
  BY DEF Memory
<1>4. ~InLine("cpu")
  BY DEF InLine, IsIn
<1>. QED  BY <1>1, <1>2, <1>3, <1>4 DEF ConditionsInv

(* A longer run of one kind ends that of the other.                        *)
LEMMA LoadsGrow ==
    ASSUME loads \in Seq(Load), Len(loads) <= Longest, NEW l \in Load,
           loads' = SubSeq(<<l>> \o loads, 1, IF Len(loads) < Longest THEN Len(loads) + 1 ELSE Longest)
    PROVE  /\ loads' \in Seq(Load) /\ Len(loads') <= Longest
           /\ \A k \in Load, n \in 1..Longest : AreLast(loads', k, n) <=> k = l /\ AreLast(loads, k, n - 1)
<1>. USE HealthConstants
<1>. DEFINE n0 == IF Len(loads) < Longest THEN Len(loads) + 1 ELSE Longest
            q  == <<l>> \o loads
<1>1. /\ Len(loads) \in Nat /\ n0 \in Nat /\ n0 <= Len(loads) + 1 /\ n0 <= Longest /\ n0 >= 1
      /\ (n0 = Len(loads) + 1 \/ n0 = Longest)
  BY LenProperties
<1>2. /\ q \in Seq(Load) /\ Len(q) = Len(loads) + 1
      /\ \A i \in 1..(Len(loads) + 1) : q[i] = IF i <= 1 THEN l ELSE loads[i - 1]
  <2>1. <<l>> \in Seq(Load) /\ Len(<<l>>) = 1 /\ <<l>>[1] = l
    OBVIOUS
  <2>2. /\ q \in Seq(Load) /\ Len(q) = 1 + Len(loads)
        /\ \A i \in 1..(1 + Len(loads)) : q[i] = IF i <= 1 THEN <<l>>[i] ELSE loads[i - 1]
    BY <2>1, ConcatProperties
  <2>. HIDE DEF q
  <2>. QED  BY <2>1, <2>2, <1>1
<1>. HIDE DEF q, n0
<1>3. \A i \in 1..n0 : q[i] \in Load
  BY <1>1, <1>2, ElementOfSeq
<1>4. loads' = SubSeq(q, 1, n0)
  BY DEF q, n0
<1>5. /\ loads' \in Seq(Load) /\ Len(loads') = n0
      /\ \A i \in 1..n0 : loads'[i] = q[i]
  BY <1>1, <1>3, <1>4, SubSeqProperties
<1>6. ASSUME NEW k \in Load, NEW n \in 1..Longest
      PROVE  AreLast(loads', k, n) <=> k = l /\ AreLast(loads, k, n - 1)
  <2>1. Len(loads') >= n <=> Len(loads) >= n - 1
    BY <1>1, <1>5
  <2>2. ASSUME Len(loads') >= n
        PROVE  /\ loads'[1] = l
               /\ \A i \in 2..n : loads'[i] = loads[i - 1]
    BY <1>1, <1>2, <1>5, <2>2
  <2>3. ASSUME AreLast(loads', k, n) PROVE k = l /\ AreLast(loads, k, n - 1)
    <3>1. Len(loads') >= n /\ \A i \in 1..n : loads'[i] = k
      BY <2>3 DEF AreLast
    <3>2. k = l
      BY <2>2, <3>1
    <3>3. ASSUME NEW i \in 1..(n - 1) PROVE loads[i] = k
      <4>1. i + 1 \in 2..n /\ i + 1 \in 1..n /\ (i + 1) - 1 = i
        OBVIOUS
      <4>. QED  BY <2>2, <3>1, <4>1
    <3>. QED  BY <2>1, <3>1, <3>2, <3>3 DEF AreLast
  <2>4. ASSUME k = l, AreLast(loads, k, n - 1) PROVE AreLast(loads', k, n)
    <3>1. Len(loads') >= n
      BY <2>1, <2>4 DEF AreLast
    <3>2. ASSUME NEW i \in 1..n PROVE loads'[i] = k
      <4>1. i = 1 \/ (i \in 2..n /\ i - 1 \in 1..(n - 1))
        OBVIOUS
      <4>. QED  BY <2>2, <2>4, <3>1, <4>1 DEF AreLast
    <3>. QED  BY <3>1, <3>2 DEF AreLast
  <2>. QED  BY <2>3, <2>4
<1>. QED  BY <1>1, <1>5, <1>6

(* The events of a heartbeat are those of the conditions it changed.       *)
LEMMA FlipsAreChanges ==
    ASSUME raised \subseteq Condition, NEW now \in SUBSET Condition, NEW q \in Flips(now)
    PROVE  /\ q \in Seq(Condition)
           /\ \A c \in Condition : IsIn(q, c) <=> (c \in raised) # (c \in now)
<1>. USE HealthConstants
<1>1. PICK levels \in OrdersOf(Flipped(now)) : q = Flip("memory", now) \o Flip("cpu", now) \o levels
  BY DEF Flips
<1>2. IsFiniteSet(Flipped(now)) /\ Cardinality(Flipped(now)) \in Nat
  <2>1. Flipped(now) \in SUBSET Level
    BY DEF Flipped
  <2>. QED  BY <2>1, FS_Subset, FS_CardinalityType
<1>3. /\ levels \in Seq(Condition)
      /\ \A c : IsIn(levels, c) <=> c \in Flipped(now)
  <2>1. levels \in [1..Cardinality(Flipped(now)) -> Flipped(now)]
    BY DEF OrdersOf
  <2>2. levels \in Seq(Flipped(now)) /\ Len(levels) = Cardinality(Flipped(now))
    BY <1>2, <2>1
  <2>3. levels \in Seq(Condition)
    BY <2>2, SeqMonotonic DEF Flipped, Condition
  <2>. QED  BY <2>1, <2>2, <2>3 DEF OrdersOf, IsIn
<1>4. ASSUME NEW c \in Condition
      PROVE  /\ Flip(c, now) \in Seq(Condition)
             /\ \A d : IsIn(Flip(c, now), d) <=> d = c /\ (c \in raised) # (c \in now)
  BY DEF Flip, IsIn
<1>. DEFINE m == Flip("memory", now)
            p == Flip("cpu", now)
<1>5. ASSUME NEW s \in Seq(Condition), NEW t \in Seq(Condition)
      PROVE  /\ s \o t \in Seq(Condition)
             /\ \A d : IsIn(s \o t, d) <=> IsIn(s, d) \/ IsIn(t, d)
  <2>1. Len(s) \in Nat /\ Len(t) \in Nat
    BY LenProperties
  <2>2. /\ s \o t \in Seq(Condition) /\ Len(s \o t) = Len(s) + Len(t)
        /\ \A i \in 1..(Len(s) + Len(t)) : (s \o t)[i] = IF i <= Len(s) THEN s[i] ELSE t[i - Len(s)]
    BY ConcatProperties
  <2>3. ASSUME NEW i \in 1..Len(t) PROVE i + Len(s) \in 1..Len(s \o t) /\ (s \o t)[i + Len(s)] = t[i]
    <3>1. i + Len(s) \in 1..(Len(s) + Len(t)) /\ ~(i + Len(s) <= Len(s)) /\ (i + Len(s)) - Len(s) = i
      BY <2>1
    <3>. QED  BY <2>2, <3>1
  <2>4. ASSUME NEW i \in 1..Len(s) PROVE i \in 1..Len(s \o t) /\ (s \o t)[i] = s[i]
    BY <2>1, <2>2
  <2>5. ASSUME NEW i \in 1..Len(s \o t)
        PROVE  \/ i \in 1..Len(s) /\ (s \o t)[i] = s[i]
               \/ i - Len(s) \in 1..Len(t) /\ (s \o t)[i] = t[i - Len(s)]
    BY <2>1, <2>2
  <2>. QED  BY <2>2, <2>3, <2>4, <2>5 DEF IsIn
<1>6. "memory" \in Condition /\ "cpu" \in Condition
  BY DEF Condition
<1>7. m \in Seq(Condition) /\ p \in Seq(Condition)
  BY <1>4, <1>6
<1>8. q = (m \o p) \o levels
  BY <1>1
<1>9. \A d : IsIn(q, d) <=>
             \/ d = "memory" /\ ("memory" \in raised) # ("memory" \in now)
             \/ d = "cpu" /\ ("cpu" \in raised) # ("cpu" \in now)
             \/ d \in Flipped(now)
  <2>1. \A d : IsIn(m \o p, d) <=>
             \/ d = "memory" /\ ("memory" \in raised) # ("memory" \in now)
             \/ d = "cpu" /\ ("cpu" \in raised) # ("cpu" \in now)
    BY <1>4, <1>5, <1>6, <1>7
  <2>2. m \o p \in Seq(Condition)
    BY <1>5, <1>7
  <2>. HIDE DEF m, p
  <2>. QED  BY <1>3, <1>5, <1>8, <2>1, <2>2
<1>. HIDE DEF m, p
<1>10. q \in Seq(Condition)
  BY <1>3, <1>5, <1>7, <1>8
<1>. QED  BY <1>9, <1>10 DEF Flipped, Condition

LEMMA HeartbeatInOrder ==
    ASSUME ConditionsInv, NEW m \in Memory, NEW l \in Load, NEW levels \in SUBSET Level,
           Heartbeat(m, l, levels)
    PROVE  ConditionsInv'
<1>. USE HealthConstants
<1>. DEFINE now == RaisedAfter(m, l, levels)
<1>1. /\ unstored = <<>> /\ raised' = now /\ runs' = RunsAfter(l)
      /\ unstored' \in Flips(now)
      /\ samples' = IF l = "missing" THEN samples ELSE Sooner(samples, MinSamples)
      /\ readings' = [memory |-> IF m = "missing" THEN readings.memory ELSE m, levels |-> levels]
      /\ loads' = IF l = "missing" THEN loads
                  ELSE SubSeq(<<l>> \o loads, 1, IF Len(loads) < Longest THEN Len(loads) + 1 ELSE Longest)
      /\ UNCHANGED <<heard, muted, cuts>>
  BY DEF Heartbeat
<1>2. /\ now \subseteq Condition
      /\ "memory" \in now <=> MemoryRaised(m)
      /\ "cpu" \in now <=> CpuRaised(l)
      /\ \A c \in Level : c \in now <=> c \in levels
  BY DEF RaisedAfter, Condition
<1>. HIDE DEF now
<1>3. /\ unstored' \in Seq(Condition)
      /\ \A c \in Condition : InLine(c)' <=> (c \in raised) # (c \in raised')
  BY <1>1, <1>2, FlipsAreChanges DEF ConditionsInv, InLine
<1>4. /\ runs.anomalous \in 0..AnomalyRun /\ runs.usual \in 0..NormalRun
      /\ samples \in 0..MinSamples /\ readings.memory \in Memory
      /\ loads \in Seq(Load) /\ Len(loads) <= Longest /\ RunsOf
  BY DEF ConditionsInv
<1>5. /\ runs' \in [anomalous : 0..AnomalyRun, usual : 0..NormalRun]
      /\ l = "missing" => runs' = runs
      /\ l = "anomalous" => runs'.anomalous = Sooner(runs.anomalous, AnomalyRun) /\ runs'.usual = 0
      /\ l = "usual" => runs'.anomalous = 0 /\ runs'.usual = Sooner(runs.usual, NormalRun)
  BY <1>1, <1>4 DEF RunsAfter, Sooner, Load, ConditionsInv
<1>6. /\ loads' \in Seq(Load) /\ Len(loads') <= Longest /\ RunsOf'
  <2>1. CASE l = "missing"
    BY <1>1, <1>4, <1>5, <2>1 DEF RunsOf, AreLast
  <2>2. CASE l # "missing"
    <3>1. /\ loads' \in Seq(Load) /\ Len(loads') <= Longest
          /\ \A k \in Load, n \in 1..Longest : AreLast(loads', k, n) <=> k = l /\ AreLast(loads, k, n - 1)
      BY <1>1, <1>4, <2>2, LoadsGrow
    <3>2. \A k \in Load : AreLast(loads', k, 0)
      BY <3>1, LenProperties DEF AreLast
    <3>3. "anomalous" \in Load /\ "usual" \in Load /\ l \in {"anomalous", "usual"}
      BY <2>2 DEF Load
    <3>4. CASE l = "anomalous"
      <4>1. ~AreLast(loads', "usual", 1)
        BY <3>1, <3>3, <3>4
      <4>2. runs'.anomalous = Sooner(runs.anomalous, AnomalyRun) /\ runs'.usual = 0
        BY <1>5, <3>4
      <4>3. \A n \in 1..Longest : AreLast(loads', "anomalous", n) <=> AreLast(loads, "anomalous", n - 1)
        BY <3>1, <3>3, <3>4
      <4>4. runs.anomalous < AnomalyRun => /\ runs.anomalous + 1 \in 1..Longest /\ (runs.anomalous + 1) - 1 = runs.anomalous
                                           /\ runs'.anomalous = runs.anomalous + 1
        BY <1>4, <4>2 DEF Sooner
      <4>5. runs.anomalous = AnomalyRun => runs'.anomalous = AnomalyRun
        BY <4>2 DEF Sooner
      <4>6. AreLast(loads', "anomalous", runs'.anomalous)
        <5>1. CASE runs.anomalous < AnomalyRun
          BY <1>4, <4>3, <4>4, <5>1 DEF RunsOf
        <5>2. CASE runs.anomalous = AnomalyRun
          <6>1. AreLast(loads, "anomalous", AnomalyRun - 1)
            BY <1>4, <5>2 DEF RunsOf, AreLast
          <6>. QED  BY <4>3, <4>5, <5>2, <6>1
        <5>. QED  BY <1>4, <5>1, <5>2
      <4>7. runs'.anomalous < AnomalyRun => ~AreLast(loads', "anomalous", runs'.anomalous + 1)
        <5>1. SUFFICES ASSUME runs'.anomalous < AnomalyRun PROVE ~AreLast(loads', "anomalous", runs'.anomalous + 1)
          OBVIOUS
        <5>2. /\ runs.anomalous < AnomalyRun /\ runs'.anomalous = runs.anomalous + 1
              /\ runs'.anomalous + 1 \in 1..Longest /\ (runs'.anomalous + 1) - 1 = runs.anomalous + 1
          BY <1>4, <4>4, <4>5, <5>1
        <5>. QED  BY <1>4, <4>3, <5>2 DEF RunsOf
      <4>. QED  BY <3>1, <3>2, <3>3, <4>1, <4>2, <4>6, <4>7 DEF RunsOf
    <3>5. CASE l = "usual"
      <4>1. ~AreLast(loads', "anomalous", 1)
        BY <3>1, <3>3, <3>5
      <4>2. runs'.usual = Sooner(runs.usual, NormalRun) /\ runs'.anomalous = 0
        BY <1>5, <3>5
      <4>3. \A n \in 1..Longest : AreLast(loads', "usual", n) <=> AreLast(loads, "usual", n - 1)
        BY <3>1, <3>3, <3>5
      <4>4. runs.usual < NormalRun => /\ runs.usual + 1 \in 1..Longest /\ (runs.usual + 1) - 1 = runs.usual
                                      /\ runs'.usual = runs.usual + 1
        BY <1>4, <4>2 DEF Sooner
      <4>5. runs.usual = NormalRun => runs'.usual = NormalRun
        BY <4>2 DEF Sooner
      <4>6. AreLast(loads', "usual", runs'.usual)
        <5>1. CASE runs.usual < NormalRun
          BY <1>4, <4>3, <4>4, <5>1 DEF RunsOf
        <5>2. CASE runs.usual = NormalRun
          <6>1. AreLast(loads, "usual", NormalRun - 1)
            BY <1>4, <5>2 DEF RunsOf, AreLast
          <6>. QED  BY <4>3, <4>5, <5>2, <6>1
        <5>. QED  BY <1>4, <5>1, <5>2
      <4>7. runs'.usual < NormalRun => ~AreLast(loads', "usual", runs'.usual + 1)
        <5>1. SUFFICES ASSUME runs'.usual < NormalRun PROVE ~AreLast(loads', "usual", runs'.usual + 1)
          OBVIOUS
        <5>2. /\ runs.usual < NormalRun /\ runs'.usual = runs.usual + 1
              /\ runs'.usual + 1 \in 1..Longest /\ (runs'.usual + 1) - 1 = runs.usual + 1
          BY <1>4, <4>4, <4>5, <5>1
        <5>. QED  BY <1>4, <4>3, <5>2 DEF RunsOf
      <4>. QED  BY <3>1, <3>2, <3>3, <4>1, <4>2, <4>6, <4>7 DEF RunsOf
    <3>. QED  BY <3>1, <3>3, <3>4, <3>5
  <2>. QED  BY <2>1, <2>2
<1>7. /\ IF "memory" \in raised' THEN readings'.memory # "low" ELSE readings'.memory # "high"
      /\ readings' \in [memory : Memory, levels : SUBSET Level]
      /\ \A c \in Level : c \in raised' <=> c \in readings'.levels
  BY <1>1, <1>2, <1>4 DEF MemoryRaised, Memory, ConditionsInv
<1>8. l \in {"missing", "usual", "anomalous"}
  BY DEF Load
<1>9. /\ IF "cpu" \in raised' THEN runs'.usual < NormalRun ELSE runs'.anomalous < AnomalyRun
      /\ ("cpu" \in raised) # ("cpu" \in raised') =>
            IF "cpu" \in raised' THEN runs'.anomalous = AnomalyRun ELSE runs'.usual = NormalRun
  BY <1>1, <1>2, <1>4, <1>5, <1>8 DEF CpuRaised, Sooner, ConditionsInv
<1>10. samples' \in 0..MinSamples
  BY <1>1, <1>4 DEF Sooner
<1>11. \A c \in Condition : c \in muted' \/ InLine(c)' \/ (c \in heard' <=> c \in raised')
  <2>1. \A c \in Condition : ~InLine(c)
    BY <1>1 DEF InLine, IsIn
  <2>. QED  BY <1>1, <1>3, <2>1 DEF ConditionsInv
<1>12. "cpu" \in Condition
  BY DEF Condition
<1>. QED  BY <1>1, <1>2, <1>3, <1>5, <1>6, <1>7, <1>9, <1>10, <1>11, <1>12 DEF ConditionsInv

LEMMA StoredInOrder == ConditionsInv /\ ConditionStored => ConditionsInv'
<1>. SUFFICES ASSUME ConditionsInv, ConditionStored PROVE ConditionsInv'
  OBVIOUS
<1>. DEFINE c == Head(unstored)
<1>1. /\ unstored # <<>> /\ unstored' = Tail(unstored) /\ muted' = muted \ {c}
      /\ heard' = IF c \in raised THEN heard \cup {c} ELSE heard \ {c}
      /\ UNCHANGED <<raised, runs, samples, readings, loads, cuts>>
  BY DEF ConditionStored
<1>2. /\ unstored \in Seq(Condition) /\ c \in Condition /\ unstored' \in Seq(Condition)
      /\ Len(unstored) \in Nat /\ Len(unstored') \in Nat /\ Len(unstored') = Len(unstored) - 1
      /\ \A i \in 1..Len(unstored') : unstored'[i] = unstored[i + 1]
      /\ c = unstored[1]
  <2>1. unstored \in Seq(Condition)
    BY DEF ConditionsInv
  <2>. QED  BY <1>1, <2>1, HeadTailProperties, LenProperties
<1>. HIDE DEF c
<1>3. \A d : InLine(d) => d = c \/ InLine(d)'
  <2>. SUFFICES ASSUME NEW d, NEW i \in 1..Len(unstored), unstored[i] = d, d # c PROVE InLine(d)'
    BY DEF InLine, IsIn
  <2>1. i - 1 \in 1..Len(unstored') /\ (i - 1) + 1 = i
    BY <1>2
  <2>. QED  BY <1>2, <2>1 DEF InLine, IsIn
<1>4. \A d : InLine(d)' => InLine(d)
  <2>. SUFFICES ASSUME NEW d, NEW i \in 1..Len(unstored'), unstored'[i] = d PROVE InLine(d)
    BY DEF InLine, IsIn
  <2>1. i + 1 \in 1..Len(unstored)
    BY <1>2
  <2>. QED  BY <1>2, <2>1 DEF InLine, IsIn
<1>5. RunsOf'
  BY <1>1 DEF ConditionsInv, RunsOf, AreLast
<1>. QED  BY <1>1, <1>2, <1>3, <1>4, <1>5 DEF ConditionsInv

LEMMA CutInOrder == ConditionsInv /\ ConditionsCut => ConditionsInv'
<1>. SUFFICES ASSUME ConditionsInv, ConditionsCut PROVE ConditionsInv'
  OBVIOUS
<1>1. /\ cuts < MaxLost /\ cuts' = cuts + 1 /\ unstored' = <<>>
      /\ muted' = muted \cup {unstored[i] : i \in 1..Len(unstored)}
      /\ UNCHANGED <<raised, runs, samples, heard, readings, loads>>
  BY DEF ConditionsCut
<1>2. \A d : InLine(d) => d \in muted'
  BY <1>1 DEF InLine, IsIn
<1>3. \A d : ~InLine(d)'
  BY <1>1 DEF InLine, IsIn
<1>4. RunsOf'
  BY <1>1 DEF ConditionsInv, RunsOf, AreLast
<1>5. {unstored[i] : i \in 1..Len(unstored)} \subseteq Condition /\ unstored' \in Seq(Condition)
  BY <1>1, ElementOfSeq DEF ConditionsInv
<1>6. cuts' \in 0..MaxLost
  BY <1>1, HealthConstants DEF ConditionsInv
<1>. QED  BY <1>1, <1>2, <1>3, <1>4, <1>5, <1>6 DEF ConditionsInv

LEMMA ConditionsStep == ConditionsInv /\ ConditionsNext => ConditionsInv'
BY HeartbeatInOrder, StoredInOrder, CutInOrder DEF ConditionsNext

LEMMA ConditionsRest == ConditionsInv /\ UNCHANGED conditionVars => ConditionsInv'
BY DEF ConditionsInv, conditionVars, RunsOf, AreLast, InLine, IsIn

LEMMA ConditionsCover == ConditionsInv => ConditionsTold
<1>. SUFFICES ASSUME ConditionsInv PROVE ConditionsTold
  OBVIOUS
<1>. USE HealthConstants
<1>1. /\ runs.anomalous \in 0..AnomalyRun /\ runs.usual \in 0..NormalRun /\ RunsOf
      /\ Len(loads) \in Nat
  BY LenProperties DEF ConditionsInv
<1>2. ASSUME "cpu" \in raised PROVE ~LastAre("usual", NormalRun)
  BY <1>1, <1>2 DEF ConditionsInv, RunsOf, LastAre, AreLast
<1>3. ASSUME "cpu" \notin raised PROVE ~LastAre("anomalous", AnomalyRun)
  BY <1>1, <1>3 DEF ConditionsInv, RunsOf, LastAre, AreLast
<1>4. InLine("cpu") => IF "cpu" \in raised THEN LastAre("anomalous", AnomalyRun) ELSE LastAre("usual", NormalRun)
  BY <1>1 DEF ConditionsInv, RunsOf, LastAre, AreLast
<1>5. unstored = <<>> => \A c \in Condition \ muted : c \in heard <=> c \in raised
  BY DEF ConditionsInv, InLine, IsIn
<1>6. "memory" \in Condition /\ "cpu" \in Condition /\ Level \subseteq Condition
  BY DEF Condition
<1>. QED  BY <1>2, <1>3, <1>4, <1>5, <1>6 DEF ConditionsTold, ConditionsInv, InLine, IsIn

(* HostHealth: both of them.                                               *)
HealthInv == ConditionsInv /\ FillInv

LEMMA HealthCovers == HealthInv => HealthTypeOK /\ HostTold
BY ConditionsCover, FillCovers DEF HealthInv, HostTold, HealthTypeOK, ConditionsInv, FillInv

(* What the stored events tell of a host is so: its conditions and the     *)
(* fill of its disk (_project_heartbeat, _project_snapshot).               *)
THEOREM HealthHolds == HealthSpec => [](HealthTypeOK /\ HostTold)
<1>1. HealthInit => HealthInv
  BY ConditionsStart, FillStarts DEF HealthInit, HealthInv
<1>2. HealthInv /\ [HealthNext]_<<conditionVars, fillVars>> => HealthInv'
  BY ConditionsStep, ConditionsRest, FillStep, FillRests DEF HealthNext, HealthInv
<1>. QED  BY <1>1, <1>2, HealthCovers, PTL DEF HealthSpec

-----------------------------------------------------------------------------
(* HostIntake.                                                             *)

(* Drains at a report that have not come past one of its steps.            *)
Before(w, r, n) == {d \in Intake : w[d].report = r /\ w[d].step <= n}

(* What a drain has left behind, and what a report that was handled.       *)
LinesIn       == JournalEvents \subseteq lineEvents
ChangeIn(r)   == ChangeKind(r) # mutedKind => r \in fileEvents
HistoryIn(r)  == straight => history[r] >= 1
RefusalIn(r)  == r \in oversized => refused[r] >= 1

DrainLeft(d) ==
    On(d) # 0 =>
        /\ work[d].step > 1 => RefusalIn(On(d))
        /\ work[d].step > 2 => LinesIn
        /\ work[d].step > 3 => ChangeIn(On(d))
        /\ work[d].step > 4 => HistoryIn(On(d))
ReportLeft(r) == LinesIn /\ ChangeIn(r) /\ HistoryIn(r) /\ RefusalIn(r)

(* No report is in the history, or refused, more often than it came.       *)
CameAsOften(r) ==
    /\ refused[r] + Cardinality(Before(work, r, 1)) <= timesCome[r]
    /\ history[r] + Cardinality(Before(work, r, 4)) <= timesCome[r]

(* The baseline is that of a report in the history, and none that is past  *)
(* its baseline is later.                                                  *)
BaselineOf(w) ==
    /\ w = 0 \/ (w \in HostReportNos /\ history[w] >= 1)
    /\ baselineRow = fileAt[w]
    /\ \A r \in handled : r <= w
    /\ \A d \in Intake : work[d].step = 6 => On(d) <= w

IntakeInv ==
    /\ IntakeTypeOK
    /\ \A d \in Intake : DrainLeft(d)
    /\ \A r \in handled : ReportLeft(r)
    /\ \A r \in HostReportNos : CameAsOften(r)
    /\ straight => \E w \in 0..LastReport : BaselineOf(w)
    /\ coverageIn \cap rescanned # {} => coverage.scan \in coverageIn \cap rescanned

LEMMA StepNames ==
    /\ Steps[1] = "snapshot" /\ Steps[2] = "journal" /\ Steps[3] = "event"
    /\ Steps[4] = "history" /\ Steps[5] = "baseline" /\ Steps[6] = "coverage"
    /\ DOMAIN Steps = 1..6 /\ Len(Steps) = 6
    /\ (CHOOSE n \in DOMAIN Steps : Steps[n] = "coverage") = 6
<1>1. /\ Steps[1] = "snapshot" /\ Steps[2] = "journal" /\ Steps[3] = "event"
      /\ Steps[4] = "history" /\ Steps[5] = "baseline" /\ Steps[6] = "coverage"
      /\ DOMAIN Steps = 1..6 /\ Len(Steps) = 6
  BY DEF Steps
<1>2. \A n \in 1..6 : Steps[n] = "coverage" => n = 6
  BY <1>1
<1>. QED  BY <1>1, <1>2

LEMMA BeforeFinite ==
    ASSUME NEW w, NEW r, NEW n
    PROVE  IsFiniteSet(Before(w, r, n)) /\ Cardinality(Before(w, r, n)) \in Nat
BY IntakeAssumption, FS_Subset, FS_CardinalityType DEF Before

(* How many they are when one drain moves: before it was one of them, and  *)
(* is one after.                                                           *)
Counts(old, new, was, is) ==
    /\ old \in Nat /\ new \in Nat
    /\ is => new <= old + 1
    /\ is /\ was => new = old
    /\ ~is => new <= old
    /\ ~is /\ was => new = old - 1

LEMMA BeforeMoves ==
    ASSUME work \in [Intake -> [report : 0..LastReport, step : 1..6]], NEW d \in Intake,
           NEW v \in [report : 0..LastReport, step : 1..6], work' = [work EXCEPT ![d] = v],
           NEW r \in HostReportNos, NEW n \in 1..6
    PROVE  Counts(Cardinality(Before(work, r, n)), Cardinality(Before(work', r, n)),
                  On(d) = r /\ work[d].step <= n, v.report = r /\ v.step <= n)
<1>. DEFINE B == Before(work, r, n)
            C == Before(work', r, n)
<1>1. IsFiniteSet(B) /\ Cardinality(B) \in Nat /\ Cardinality(C) \in Nat
  BY BeforeFinite
<1>2. v.report = r /\ v.step <= n => C = B \cup {d}
  BY DEF Before
<1>3. ~(v.report = r /\ v.step <= n) => C = B \ {d}
  BY DEF Before
<1>4. d \in B <=> On(d) = r /\ work[d].step <= n
  BY DEF Before, On
<1>. HIDE DEF B, C
<1>5. Cardinality(B \cup {d}) = IF d \in B THEN Cardinality(B) ELSE Cardinality(B) + 1
  BY <1>1, FS_AddElement
<1>6. Cardinality(B \ {d}) = IF d \in B THEN Cardinality(B) - 1 ELSE Cardinality(B)
  BY <1>1, FS_RemoveElement
<1>7. /\ v.report = r /\ v.step <= n => Cardinality(C) <= Cardinality(B) + 1
      /\ v.report = r /\ v.step <= n /\ d \in B => Cardinality(C) = Cardinality(B)
      /\ ~(v.report = r /\ v.step <= n) => Cardinality(C) <= Cardinality(B)
      /\ ~(v.report = r /\ v.step <= n) /\ d \in B => Cardinality(C) = Cardinality(B) - 1
  BY <1>1, <1>2, <1>3, <1>5, <1>6
<1>. QED  BY <1>1, <1>4, <1>7 DEF B, C, Counts

LEMMA IntakeStarts == IntakeInit => IntakeInv
<1>. SUFFICES ASSUME IntakeInit PROVE IntakeInv
  OBVIOUS
<1>. USE IntakeAssumption
<1>1. IntakeTypeOK
  BY StepNames DEF IntakeInit, IntakeRests, IntakeTypeOK, Free, HostReportNos
<1>2. \A r \in HostReportNos, n \in 1..6 : Cardinality(Before(work, r, n)) = 0
  <2>. SUFFICES ASSUME NEW r \in HostReportNos, NEW n \in 1..6 PROVE Before(work, r, n) = {}
    BY FS_EmptySet
  <2>. QED  BY DEF Before, IntakeInit, IntakeRests, Free, HostReportNos
<1>3. \A r \in HostReportNos : CameAsOften(r)
  BY <1>2 DEF CameAsOften, IntakeInit, IntakeRests
<1>4. straight => BaselineOf(0)
  BY DEF IntakeInit, IntakeRests, BaselineOf, Free
<1>5. \A d \in Intake : DrainLeft(d)
  BY DEF IntakeInit, IntakeRests, DrainLeft, On, Free
<1>. QED  BY <1>1, <1>3, <1>4, <1>5 DEF IntakeInv, IntakeInit, IntakeRests

LEMMA IntakeRest == IntakeInv /\ UNCHANGED intakeVars => IntakeInv'
<1>. SUFFICES ASSUME IntakeInv, UNCHANGED intakeVars PROVE IntakeInv'
  OBVIOUS
<1>1. /\ UNCHANGED given
      /\ UNCHANGED <<work, timesCome, lineEvents, fileEvents, refused, history, baselineRow, coverage,
                     handled, coverageIn, straight, slips>>
  BY DEF intakeVars, given
<1>2. IntakeTypeOK'
  BY <1>1 DEF IntakeInv, IntakeTypeOK, given, JournalEvents
<1>3. \A d \in Intake : DrainLeft(d)'
  BY <1>1 DEF IntakeInv, DrainLeft, RefusalIn, LinesIn, ChangeIn, HistoryIn, On, given, ChangeKind, JournalEvents
<1>4. \A r \in handled' : ReportLeft(r)'
  BY <1>1 DEF IntakeInv, ReportLeft, RefusalIn, LinesIn, ChangeIn, HistoryIn, given, ChangeKind, JournalEvents
<1>5. \A r \in HostReportNos : CameAsOften(r)'
  BY <1>1 DEF IntakeInv, CameAsOften
<1>6. straight' => \E w \in 0..LastReport : BaselineOf(w)'
  BY <1>1 DEF IntakeInv, BaselineOf, On, given
<1>. QED  BY <1>1, <1>2, <1>3, <1>4, <1>5, <1>6 DEF IntakeInv, given

(* What every step of a drain does to what it and others have left: only   *)
(* itself it has to account for.                                           *)
LEMMA IntakeMoves ==
    ASSUME IntakeInv, NEW d \in Intake, NEW v \in [report : 0..LastReport, step : 1..6],
           work' = [work EXCEPT ![d] = v], UNCHANGED given,
           timesCome' \in [HostReportNos -> 0..MaxArrivals], slips' \in 0..MaxSlips,
           lineEvents \subseteq lineEvents', lineEvents' \subseteq JournalEvents,
           fileEvents \subseteq fileEvents', fileEvents' \subseteq HostReportNos,
           refused' \in [HostReportNos -> Nat], \A r \in HostReportNos : refused'[r] >= refused[r],
           history' \in [HostReportNos -> Nat], \A r \in HostReportNos : history'[r] >= history[r],
           straight' \in BOOLEAN, straight' => straight,
           baselineRow' \in FileStates, coverage' \in [tracked : 0..LastReport, scan : 0..LastReport],
           handled \subseteq handled', handled' \subseteq HostReportNos,
           DrainLeft(d)', \A r \in handled' \ handled : ReportLeft(r)',
           \A r \in HostReportNos : CameAsOften(r)',
           straight' => \E w \in 0..LastReport : BaselineOf(w)',
           coverageIn' \subseteq handled',
           coverageIn' \cap rescanned # {} => coverage'.scan \in coverageIn' \cap rescanned
    PROVE  IntakeInv'
<1>. USE IntakeAssumption
<1>0. /\ UNCHANGED <<fileAt, attempt, oversized, rescanned, mutedKind>>
      /\ JournalEvents' = JournalEvents /\ \A r : ChangeKind(r)' = ChangeKind(r)
  BY DEF given, JournalEvents, ChangeKind
<1>1. /\ work' \in [Intake -> [report : 0..LastReport, step : 1..6]]
      /\ \A e \in Intake \ {d} : work'[e] = work[e]
  BY StepNames DEF IntakeInv, IntakeTypeOK
<1>2. /\ refused' \in [HostReportNos -> 0..MaxArrivals]
      /\ history' \in [HostReportNos -> 0..MaxArrivals]
  <2>. SUFFICES ASSUME NEW r \in HostReportNos
                PROVE  refused'[r] \in 0..MaxArrivals /\ history'[r] \in 0..MaxArrivals
    OBVIOUS
  <2>1. /\ Cardinality(Before(work', r, 1)) \in Nat /\ Cardinality(Before(work', r, 4)) \in Nat
        /\ refused'[r] + Cardinality(Before(work', r, 1)) <= timesCome'[r]
        /\ history'[r] + Cardinality(Before(work', r, 4)) <= timesCome'[r]
    BY BeforeFinite DEF CameAsOften
  <2>2. timesCome'[r] \in 0..MaxArrivals /\ refused'[r] \in Nat /\ history'[r] \in Nat
    OBVIOUS
  <2>. QED  BY <2>1, <2>2
<1>3. IntakeTypeOK'
  BY <1>0, <1>1, <1>2, StepNames DEF IntakeInv, IntakeTypeOK
<1>4. \A r \in HostReportNos :
         /\ RefusalIn(r) => RefusalIn(r)'
         /\ ChangeIn(r) => ChangeIn(r)'
         /\ HistoryIn(r) => HistoryIn(r)'
         /\ LinesIn => LinesIn'
  <2>. SUFFICES ASSUME NEW r \in HostReportNos
                PROVE  /\ RefusalIn(r) => RefusalIn(r)'
                       /\ ChangeIn(r) => ChangeIn(r)'
                       /\ HistoryIn(r) => HistoryIn(r)'
                       /\ LinesIn => LinesIn'
    OBVIOUS
  <2>1. /\ refused[r] \in Nat /\ refused'[r] \in Nat /\ refused'[r] >= refused[r]
        /\ history[r] \in Nat /\ history'[r] \in Nat /\ history'[r] >= history[r]
    BY DEF IntakeInv, IntakeTypeOK
  <2>2. RefusalIn(r) => RefusalIn(r)'
    BY <1>0, <2>1 DEF RefusalIn
  <2>3. HistoryIn(r) => HistoryIn(r)'
    BY <2>1 DEF HistoryIn
  <2>4. ChangeIn(r) => ChangeIn(r)'
    BY <1>0 DEF ChangeIn
  <2>5. LinesIn => LinesIn'
    BY <1>0 DEF LinesIn
  <2>. QED  BY <2>2, <2>3, <2>4, <2>5
<1>5. ASSUME NEW e \in Intake
      PROVE  DrainLeft(e)'
  <2>1. CASE e = d
    BY <2>1
  <2>2. CASE e # d
    <3>1. work'[e] = work[e] /\ work[e].report \in 0..LastReport
      BY <1>1, <2>2, StepNames DEF IntakeInv, IntakeTypeOK
    <3>2. On(e)' = On(e) /\ (On(e) # 0 => On(e) \in HostReportNos) /\ DrainLeft(e)
      BY <3>1 DEF On, HostReportNos, IntakeInv
    <3>. QED  BY <3>1, <3>2, <1>4 DEF DrainLeft
  <2>. QED  BY <2>1, <2>2
<1>6. ASSUME NEW r \in handled'
      PROVE  ReportLeft(r)'
  BY <1>4 DEF IntakeInv, ReportLeft
<1>. QED  BY <1>0, <1>3, <1>5, <1>6 DEF IntakeInv

LEMMA DrainPlace ==
    ASSUME IntakeInv, NEW d \in Intake
    PROVE  /\ work \in [Intake -> [report : 0..LastReport, step : 1..6]]
           /\ work[d] \in [report : 0..LastReport, step : 1..6] /\ On(d) \in 0..LastReport
           /\ work[d].step \in 1..6
           /\ Free \in [report : 0..LastReport, step : 1..6]
           /\ On(d) # 0 => On(d) \in HostReportNos
           /\ Is(d, "snapshot") => On(d) # 0 /\ work[d].step = 1
           /\ Is(d, "journal")  => On(d) # 0 /\ work[d].step = 2
           /\ Is(d, "event")    => On(d) # 0 /\ work[d].step = 3
           /\ Is(d, "history")  => On(d) # 0 /\ work[d].step = 4
           /\ Is(d, "baseline") => On(d) # 0 /\ work[d].step = 5
           /\ Is(d, "coverage") => On(d) # 0 /\ work[d].step = 6
<1>. USE IntakeAssumption, StepNames
<1>1. /\ work \in [Intake -> [report : 0..LastReport, step : 1..6]]
      /\ work[d] \in [report : 0..LastReport, step : 1..6] /\ On(d) \in 0..LastReport
      /\ work[d].step \in 1..6
  BY DEF IntakeInv, IntakeTypeOK, On
<1>2. Free \in [report : 0..LastReport, step : 1..6]
  BY DEF Free
<1>3. On(d) # 0 => On(d) \in HostReportNos
  BY <1>1 DEF HostReportNos
<1>. QED  BY <1>1, <1>2, <1>3 DEF Is

(* The baseline of the drains' reports, when a drain moves not to its last *)
(* step.                                                                   *)
LEMMA BaselineStays ==
    ASSUME IntakeInv, NEW d \in Intake, NEW v \in [report : 0..LastReport, step : 1..6],
           work' = [work EXCEPT ![d] = v], v.step # 6,
           UNCHANGED <<fileAt, baselineRow, handled>>, straight' => straight,
           history' \in [HostReportNos -> Nat], \A r \in HostReportNos : history'[r] >= history[r]
    PROVE  straight' => \E w \in 0..LastReport : BaselineOf(w)'
<1>. SUFFICES ASSUME straight' PROVE \E w \in 0..LastReport : BaselineOf(w)'
  OBVIOUS
<1>1. PICK w \in 0..LastReport : BaselineOf(w)
  BY DEF IntakeInv
<1>2. \A e \in Intake : work'[e].step = 6 => e # d /\ work'[e] = work[e]
  BY DrainPlace
<1>3. w \in HostReportNos => history[w] \in Nat
  BY DEF IntakeInv, IntakeTypeOK
<1>. QED  BY <1>1, <1>2, <1>3 DEF BaselineOf, On

LEMMA ArriveLeaves ==
    ASSUME IntakeInv, NEW d \in Intake, NEW r \in HostReportNos, Arrives(d, r)
    PROVE  IntakeInv'
<1>. USE IntakeAssumption
<1>. PICK v \in [report : 0..LastReport, step : 1..6] : v = [report |-> r, step |-> 1]
  <2>1. [report |-> r, step |-> 1] \in [report : 0..LastReport, step : 1..6]
    BY DEF HostReportNos
  <2>. QED  BY <2>1
<1>1. /\ work[d] = Free /\ timesCome[r] < MaxArrivals
      /\ timesCome' = [timesCome EXCEPT ![r] = @ + 1]
      /\ UNCHANGED given
      /\ UNCHANGED <<lineEvents, fileEvents, refused, history, baselineRow, coverage, handled, coverageIn, straight, slips>>
  BY DEF Arrives
<1>2. work' = [work EXCEPT ![d] = v]
  <2>1. [work[d] EXCEPT !.report = r] = v
    BY <1>1 DEF Free
  <2>. QED  BY <2>1 DEF Arrives
<1>3. timesCome' \in [HostReportNos -> 0..MaxArrivals]
  BY <1>1 DEF IntakeInv, IntakeTypeOK
<1>4. DrainLeft(d)'
  BY <1>2, DrainPlace DEF DrainLeft, On
<1>5. \A q \in HostReportNos : CameAsOften(q)'
  <2>. TAKE q \in HostReportNos
  <2>1. \A n \in 1..6 : /\ Cardinality(Before(work', q, n)) <= Cardinality(Before(work, q, n)) + (IF q = r THEN 1 ELSE 0)
                        /\ Cardinality(Before(work', q, n)) \in Nat /\ Cardinality(Before(work, q, n)) \in Nat
    <3>. TAKE n \in 1..6
    <3>1. work \in [Intake -> [report : 0..LastReport, step : 1..6]]
      BY DrainPlace
    <3>2. Counts(Cardinality(Before(work, q, n)), Cardinality(Before(work', q, n)),
                 On(d) = q /\ work[d].step <= n, v.report = q /\ v.step <= n)
      BY <1>2, <3>1, BeforeMoves
    <3>. QED  BY <3>2 DEF Counts
  <2>2. /\ refused[q] \in Nat /\ history[q] \in Nat /\ timesCome[q] \in Nat
        /\ timesCome'[q] = timesCome[q] + (IF q = r THEN 1 ELSE 0)
    BY <1>1 DEF IntakeInv, IntakeTypeOK
  <2>. QED  BY <1>1, <2>1, <2>2 DEF IntakeInv, CameAsOften
<1>6. straight' => \E w \in 0..LastReport : BaselineOf(w)'
  <2>1. UNCHANGED <<fileAt, baselineRow, handled>> /\ (straight' => straight) /\ v.step # 6
        /\ history' \in [HostReportNos -> Nat] /\ \A q \in HostReportNos : history'[q] >= history[q]
    BY <1>1 DEF given, IntakeInv, IntakeTypeOK
  <2>. QED  BY <1>2, <2>1, BaselineStays
<1>7. /\ lineEvents \subseteq lineEvents' /\ lineEvents' \subseteq JournalEvents
      /\ fileEvents \subseteq fileEvents' /\ fileEvents' \subseteq HostReportNos
      /\ baselineRow' \in FileStates /\ coverage' \in [tracked : 0..LastReport, scan : 0..LastReport]
      /\ handled \subseteq handled' /\ handled' \subseteq HostReportNos
      /\ \A q \in handled' \ handled : ReportLeft(q)'
      /\ coverageIn' \subseteq handled'
      /\ coverageIn' \cap rescanned # {} => coverage'.scan \in coverageIn' \cap rescanned
  BY <1>1 DEF IntakeInv, IntakeTypeOK
<1>8. /\ refused' \in [HostReportNos -> Nat] /\ \A q \in HostReportNos : refused'[q] >= refused[q]
      /\ history' \in [HostReportNos -> Nat] /\ \A q \in HostReportNos : history'[q] >= history[q]
  BY <1>1 DEF IntakeInv, IntakeTypeOK
<1>9. slips' \in 0..MaxSlips /\ straight' \in BOOLEAN /\ (straight' => straight)
  BY <1>1 DEF IntakeInv, IntakeTypeOK
<1>. QED  BY <1>1, <1>2, <1>3, <1>4, <1>5, <1>6, <1>7, <1>8, <1>9, IntakeMoves

(* A drain that goes on with its report, or leaves it: once it is past the *)
(* step that adds, there may be one more.                                  *)
LEMMA CamePasses ==
    ASSUME IntakeInv, NEW d \in Intake, NEW v \in [report : 0..LastReport, step : 1..6],
           work' = [work EXCEPT ![d] = v], On(d) # 0, UNCHANGED timesCome,
           v.report = 0 \/ (v.report = On(d) /\ v.step >= work[d].step),
           \/ UNCHANGED refused
           \/ work[d].step = 1 /\ v.step > 1 /\ refused' = [refused EXCEPT ![On(d)] = @ + 1],
           \/ UNCHANGED history
           \/ work[d].step = 4 /\ v.step > 4 /\ history' = [history EXCEPT ![On(d)] = @ + 1]
    PROVE  \A q \in HostReportNos : CameAsOften(q)'
<1>. TAKE q \in HostReportNos
<1>0. /\ work \in [Intake -> [report : 0..LastReport, step : 1..6]] /\ work[d].step \in 1..6
      /\ v.step \in 1..6 /\ q # 0
  BY DrainPlace DEF HostReportNos
<1>1. /\ refused \in [HostReportNos -> Nat] /\ history \in [HostReportNos -> Nat] /\ timesCome[q] \in Nat
      /\ refused[q] + Cardinality(Before(work, q, 1)) <= timesCome[q]
      /\ history[q] + Cardinality(Before(work, q, 4)) <= timesCome[q]
  BY DEF IntakeInv, IntakeTypeOK, CameAsOften
<1>2. ASSUME NEW n \in 1..6
      PROVE  /\ Cardinality(Before(work, q, n)) \in Nat /\ Cardinality(Before(work', q, n)) \in Nat
             /\ Cardinality(Before(work', q, n)) <= Cardinality(Before(work, q, n))
             /\ q = On(d) /\ work[d].step <= n /\ v.step > n =>
                   Cardinality(Before(work', q, n)) = Cardinality(Before(work, q, n)) - 1
  <2>1. Counts(Cardinality(Before(work, q, n)), Cardinality(Before(work', q, n)),
               On(d) = q /\ work[d].step <= n, v.report = q /\ v.step <= n)
    BY <1>0, BeforeMoves
  <2>2. v.report = q /\ v.step <= n => On(d) = q /\ work[d].step <= n
    BY <1>0
  <2>3. v.step > n => ~(v.report = q /\ v.step <= n)
    BY <1>0
  <2>. QED  BY <2>1, <2>2, <2>3 DEF Counts
<1>3. refused'[q] + Cardinality(Before(work', q, 1)) <= timesCome[q]
  BY <1>0, <1>1, <1>2
<1>4. history'[q] + Cardinality(Before(work', q, 4)) <= timesCome[q]
  BY <1>0, <1>1, <1>2
<1>. QED  BY <1>3, <1>4 DEF CameAsOften

(* A drain that goes on by a step.                                         *)
LEMMA GoesOn ==
    ASSUME IntakeInv, NEW d \in Intake, NEW n \in 1..6, StepsTo(d, n)
    PROVE  \E v \in [report : 0..LastReport, step : 1..6] :
              v.report = On(d) /\ v.step = n /\ work' = [work EXCEPT ![d] = v]
<1>1. [report |-> On(d), step |-> n] \in [report : 0..LastReport, step : 1..6]
  BY DrainPlace
<1>2. [work[d] EXCEPT !.step = n] = [report |-> On(d), step |-> n]
  BY DrainPlace DEF On
<1>3. work' = [work EXCEPT ![d] = [report |-> On(d), step |-> n]]
  BY <1>2 DEF StepsTo
<1>. QED  BY <1>1, <1>3

(* The drains that only add what they have read.                           *)
LEMMA AddLeaves ==
    ASSUME IntakeInv, NEW d \in Intake,
           SnapshotTaken(d) \/ JournalTaken(d) \/ ChangeTaken(d) \/ HistoryAppended(d)
    PROVE  IntakeInv'
<1>. USE IntakeAssumption
<1>1. /\ On(d) # 0 /\ On(d) \in HostReportNos /\ work[d].step \in 1..4 /\ DrainLeft(d)
      /\ UNCHANGED given /\ UNCHANGED <<timesCome, baselineRow, coverage, handled, coverageIn, slips>>
      /\ lineEvents \subseteq lineEvents' /\ lineEvents' \subseteq JournalEvents
      /\ fileEvents \subseteq fileEvents' /\ fileEvents' \subseteq HostReportNos
      /\ straight' \in BOOLEAN /\ (straight' => straight)
  <2>1. /\ On(d) # 0 /\ On(d) \in HostReportNos /\ work[d].step \in 1..4
        /\ UNCHANGED given /\ UNCHANGED <<timesCome, baselineRow, coverage, handled, coverageIn, slips>>
    BY DrainPlace DEF SnapshotTaken, JournalTaken, ChangeTaken, HistoryAppended
  <2>2. DrainLeft(d) /\ lineEvents \subseteq JournalEvents /\ fileEvents \subseteq HostReportNos /\ straight \in BOOLEAN
    BY DEF IntakeInv, IntakeTypeOK
  <2>3. /\ lineEvents' = lineEvents \/ lineEvents' = lineEvents \cup JournalEvents
        /\ fileEvents' = fileEvents \/ fileEvents' = fileEvents \cup {On(d)}
        /\ straight' = straight \/ straight' = FALSE
    BY DEF SnapshotTaken, JournalTaken, ChangeTaken, HistoryAppended
  <2>4. straight' \in BOOLEAN /\ (straight' => straight)
    <3>1. CASE straight' = straight
      BY <3>1, <2>2
    <3>2. CASE straight' = FALSE
      BY <3>2
    <3>. QED  BY <3>1, <3>2, <2>3
  <2>5. /\ lineEvents \subseteq lineEvents' /\ lineEvents' \subseteq JournalEvents
        /\ fileEvents \subseteq fileEvents' /\ fileEvents' \subseteq HostReportNos
    BY <2>1, <2>2, <2>3
  <2>. QED  BY <2>1, <2>2, <2>4, <2>5
<1>2. PICK n \in 1..6 :
         /\ StepsTo(d, n) /\ n > work[d].step /\ (straight' => n = work[d].step + 1)
         /\ n = work[d].step + 1 \/ (n = 6 /\ work[d].step = 3)
  BY DrainPlace, StepNames DEF SnapshotTaken, JournalTaken, ChangeTaken, HistoryAppended, StepsOn, After
<1>3. PICK v \in [report : 0..LastReport, step : 1..6] :
         v.report = On(d) /\ v.step = n /\ work' = [work EXCEPT ![d] = v]
  BY <1>2, GoesOn
<1>4. /\ refused \in [HostReportNos -> Nat] /\ history \in [HostReportNos -> Nat]
  BY DEF IntakeInv, IntakeTypeOK
<1>5. /\ \/ UNCHANGED refused
         \/ work[d].step = 1 /\ v.step > 1 /\ refused' = [refused EXCEPT ![On(d)] = @ + 1]
      /\ \/ UNCHANGED history
         \/ work[d].step = 4 /\ v.step > 4 /\ history' = [history EXCEPT ![On(d)] = @ + 1]
  BY <1>2, <1>3, DrainPlace DEF SnapshotTaken, JournalTaken, ChangeTaken, HistoryAppended
<1>6. /\ refused' \in [HostReportNos -> Nat] /\ history' \in [HostReportNos -> Nat]
      /\ \A q \in HostReportNos : refused'[q] >= refused[q] /\ history'[q] >= history[q]
  BY <1>1, <1>4, <1>5
<1>7. \A q \in HostReportNos : CameAsOften(q)'
  <2>1. /\ UNCHANGED timesCome /\ (v.report = 0 \/ (v.report = On(d) /\ v.step >= work[d].step))
        /\ \/ UNCHANGED refused
           \/ work[d].step = 1 /\ v.step > 1 /\ refused' = [refused EXCEPT ![On(d)] = @ + 1]
        /\ \/ UNCHANGED history
           \/ work[d].step = 4 /\ v.step > 4 /\ history' = [history EXCEPT ![On(d)] = @ + 1]
    BY <1>1, <1>2, <1>3, <1>5, DrainPlace
  <2>. QED  BY <2>1, <1>1, <1>3, CamePasses
<1>8. DrainLeft(d)'
  <2>1. On(d)' = On(d) /\ work'[d].step = n /\ work[d].step \in 1..4
    BY <1>1, <1>3, DrainPlace DEF On
  <2>2. /\ UNCHANGED <<oversized, mutedKind>> /\ JournalEvents' = JournalEvents
        /\ ChangeKind(On(d))' = ChangeKind(On(d))
    BY <1>1, <2>1 DEF given, JournalEvents, ChangeKind
  <2>3. n > 1 => RefusalIn(On(d))'
    <3>1. work[d].step > 1 => RefusalIn(On(d))
      BY <1>1 DEF DrainLeft
    <3>2. work[d].step = 1 => SnapshotTaken(d)
      BY DrainPlace DEF JournalTaken, ChangeTaken, HistoryAppended
    <3>3. work[d].step = 1 /\ On(d) \in oversized => refused'[On(d)] = refused[On(d)] + 1
      BY <3>2, <1>1, <1>4 DEF SnapshotTaken
    <3>4. refused[On(d)] \in Nat /\ refused'[On(d)] \in Nat /\ refused'[On(d)] >= refused[On(d)]
      BY <1>1, <1>4, <1>6
    <3>. QED  BY <2>1, <2>2, <3>1, <3>3, <3>4 DEF RefusalIn
  <2>4. n > 2 => LinesIn'
    <3>1. work[d].step > 2 => LinesIn
      BY <1>1 DEF DrainLeft
    <3>2. work[d].step = 2 => lineEvents' = lineEvents \cup JournalEvents
      BY DrainPlace DEF SnapshotTaken, JournalTaken, ChangeTaken, HistoryAppended
    <3>. QED  BY <1>1, <1>2, <2>1, <2>2, <3>1, <3>2 DEF LinesIn
  <2>5. n > 3 => ChangeIn(On(d))'
    <3>1. work[d].step > 3 => ChangeIn(On(d))
      BY <1>1 DEF DrainLeft
    <3>2. work[d].step = 3 => ChangeKind(On(d)) = mutedKind \/ On(d) \in fileEvents'
      BY DrainPlace DEF SnapshotTaken, JournalTaken, ChangeTaken, HistoryAppended
    <3>. QED  BY <1>1, <1>2, <2>1, <2>2, <3>1, <3>2 DEF ChangeIn
  <2>6. n > 4 => HistoryIn(On(d))'
    <3>1. straight' /\ n > 4 => work[d].step = 4
      BY <1>2, <2>1
    <3>2. work[d].step = 4 => history'[On(d)] = history[On(d)] + 1
      BY <1>1, <1>4, DrainPlace DEF SnapshotTaken, JournalTaken, ChangeTaken, HistoryAppended
    <3>3. history[On(d)] \in Nat
      BY <1>1, <1>4
    <3>. QED  BY <2>1, <3>1, <3>2, <3>3 DEF HistoryIn
  <2>. QED  BY <2>1, <2>3, <2>4, <2>5, <2>6 DEF DrainLeft
<1>9. straight' => \E w \in 0..LastReport : BaselineOf(w)'
  <2>1. CASE n = 6
    <3>1. ~straight'
      BY <2>1, <1>1, <1>2
    <3>. QED  BY <3>1
  <2>2. CASE n # 6
    <3>1. UNCHANGED <<fileAt, baselineRow, handled>> /\ v.step # 6
      BY <1>1, <1>3, <2>2 DEF given
    <3>. QED  BY <3>1, <1>1, <1>3, <1>6, BaselineStays
  <2>. QED  BY <2>1, <2>2
<1>10. /\ timesCome' \in [HostReportNos -> 0..MaxArrivals] /\ slips' \in 0..MaxSlips
       /\ baselineRow' \in FileStates /\ coverage' \in [tracked : 0..LastReport, scan : 0..LastReport]
       /\ handled \subseteq handled' /\ handled' \subseteq HostReportNos /\ handled' \ handled = {}
       /\ coverageIn' \subseteq handled'
       /\ coverageIn' \cap rescanned # {} => coverage'.scan \in coverageIn' \cap rescanned
  BY <1>1 DEF IntakeInv, IntakeTypeOK
<1>. QED  BY <1>1, <1>3, <1>6, <1>7, <1>8, <1>9, <1>10, IntakeMoves

LEMMA BaselineLeaves ==
    ASSUME IntakeInv, NEW d \in Intake, BaselineWritten(d)
    PROVE  IntakeInv'
<1>. USE IntakeAssumption
<1>1. /\ On(d) # 0 /\ On(d) \in HostReportNos /\ work[d].step = 5 /\ DrainLeft(d)
      /\ UNCHANGED given
      /\ UNCHANGED <<timesCome, lineEvents, fileEvents, refused, history, coverage, handled, coverageIn, slips>>
      /\ baselineRow' = RowAfter(On(d)) /\ StepsTo(d, 6)
  BY DrainPlace DEF BaselineWritten, StepsOn, IntakeInv
<1>2. PICK v \in [report : 0..LastReport, step : 1..6] :
         v.report = On(d) /\ v.step = 6 /\ work' = [work EXCEPT ![d] = v]
  BY <1>1, GoesOn
<1>3. straight' \in BOOLEAN /\ (straight' => straight /\ \A r \in HostReportNos : r > On(d) => history[r] = 0)
  <2>. DEFINE P == \A r \in HostReportNos : r > On(d) => history[r] = 0
  <2>1. straight' = (straight /\ P) /\ straight \in BOOLEAN /\ P \in BOOLEAN
    BY DEF BaselineWritten, IntakeInv, IntakeTypeOK
  <2>. QED  BY <2>1
<1>4. RowAfter(On(d)) = fileAt[On(d)] /\ fileAt[On(d)] \in FileStates
  <2>1. fileAt \in [0..LastReport -> FileStates] /\ On(d) - 1 \in 0..LastReport /\ On(d) \in 0..LastReport
    <3>1. fileAt \in [0..LastReport -> FileStates]
      BY DEF IntakeInv, IntakeTypeOK
    <3>2. On(d) \in 1..LastReport
      BY <1>1 DEF HostReportNos
    <3>. QED  BY <3>1, <3>2
  <2>2. fileAt[On(d) - 1] \in FileStates /\ fileAt[On(d)] \in FileStates
    BY <2>1
  <2>. QED  BY <2>2 DEF RowAfter, ChangeKind, KindOf
<1>5. refused' \in [HostReportNos -> Nat] /\ history' \in [HostReportNos -> Nat]
  BY <1>1 DEF IntakeInv, IntakeTypeOK
<1>6. \A q \in HostReportNos : CameAsOften(q)'
  <2>1. /\ UNCHANGED timesCome /\ (v.report = 0 \/ (v.report = On(d) /\ v.step >= work[d].step))
        /\ \/ UNCHANGED refused
           \/ work[d].step = 1 /\ v.step > 1 /\ refused' = [refused EXCEPT ![On(d)] = @ + 1]
        /\ \/ UNCHANGED history
           \/ work[d].step = 4 /\ v.step > 4 /\ history' = [history EXCEPT ![On(d)] = @ + 1]
    BY <1>1, <1>2, DrainPlace
  <2>. QED  BY <2>1, <1>1, <1>2, CamePasses
<1>7. DrainLeft(d)'
  <2>1. On(d)' = On(d) /\ UNCHANGED <<oversized, mutedKind>> /\ JournalEvents' = JournalEvents
        /\ ChangeKind(On(d))' = ChangeKind(On(d))
    BY <1>1, <1>2, DrainPlace DEF On, given, JournalEvents, ChangeKind
  <2>. QED  BY <1>1, <1>3, <2>1 DEF DrainLeft, RefusalIn, LinesIn, ChangeIn, HistoryIn
<1>8. ASSUME straight'
      PROVE  BaselineOf(On(d))'
  <2>1. straight /\ \A r \in HostReportNos : history[r] >= 1 => r <= On(d)
    BY <1>3, <1>8, <1>1 DEF HostReportNos
  <2>2. history[On(d)] >= 1
    BY <2>1, <1>1 DEF DrainLeft, HistoryIn
  <2>3. \A r \in handled : r <= On(d)
    BY <2>1 DEF IntakeInv, IntakeTypeOK, ReportLeft, HistoryIn
  <2>4. \A e \in Intake : work'[e].step = 6 => On(e)' <= On(d)
    <3>. SUFFICES ASSUME NEW e \in Intake \ {d}, work[e].step = 6 PROVE On(e) <= On(d)
      BY <1>1, <1>2, DrainPlace DEF On, HostReportNos
    <3>1. On(e) # 0 => history[On(e)] >= 1
      BY <2>1 DEF IntakeInv, DrainLeft, HistoryIn
    <3>. QED  BY <3>1, <2>1, <1>1, DrainPlace DEF HostReportNos
  <2>5. On(d)' = On(d) /\ fileAt' = fileAt
    BY <1>1, <1>2, DrainPlace DEF On, given
  <2>. QED  BY <1>1, <1>4, <2>2, <2>3, <2>4, <2>5 DEF BaselineOf
<1>9. straight' => \E w \in 0..LastReport : BaselineOf(w)'
  <2>1. PICK w \in 0..LastReport : w = On(d) /\ On(d)' = On(d)
    BY <1>1, <1>2, DrainPlace DEF On
  <2>. QED  BY <2>1, <1>8 DEF BaselineOf
<1>10. /\ timesCome' \in [HostReportNos -> 0..MaxArrivals] /\ slips' \in 0..MaxSlips
       /\ lineEvents \subseteq lineEvents' /\ lineEvents' \subseteq JournalEvents
       /\ fileEvents \subseteq fileEvents' /\ fileEvents' \subseteq HostReportNos
       /\ \A q \in HostReportNos : refused'[q] >= refused[q] /\ history'[q] >= history[q]
       /\ baselineRow' \in FileStates /\ coverage' \in [tracked : 0..LastReport, scan : 0..LastReport]
       /\ handled \subseteq handled' /\ handled' \subseteq HostReportNos /\ handled' \ handled = {}
       /\ coverageIn' \subseteq handled'
       /\ coverageIn' \cap rescanned # {} => coverage'.scan \in coverageIn' \cap rescanned
  <2>1. \A q \in HostReportNos : refused[q] \in Nat /\ history[q] \in Nat
    BY DEF IntakeInv, IntakeTypeOK
  <2>2. \A q \in HostReportNos : refused'[q] >= refused[q] /\ history'[q] >= history[q]
    BY <1>1, <2>1
  <2>3. baselineRow' \in FileStates
    BY <1>1, <1>4
  <2>. QED  BY <1>1, <2>2, <2>3 DEF IntakeInv, IntakeTypeOK
<1>. QED  BY <1>1, <1>2, <1>3, <1>5, <1>6, <1>7, <1>9, <1>10, IntakeMoves

LEMMA CoverageLeaves ==
    ASSUME IntakeInv, NEW d \in Intake, CoverageWritten(d) \/ CoverageLeft(d)
    PROVE  IntakeInv'
<1>. USE IntakeAssumption
<1>1. /\ On(d) # 0 /\ On(d) \in HostReportNos /\ work[d].step = 6 /\ DrainLeft(d)
      /\ UNCHANGED given
      /\ UNCHANGED <<timesCome, lineEvents, fileEvents, refused, history, baselineRow, straight>>
      /\ handled' = handled \cup {On(d)}
      /\ \/ coverage' = Covered(On(d)) /\ coverageIn' = coverageIn \cup {On(d)}
         \/ UNCHANGED <<coverage, coverageIn>>
      /\ slips' = slips \/ (slips < MaxSlips /\ slips' = slips + 1)
      /\ work' = [work EXCEPT ![d] = Free]
  <2>1. IntakeInv => DrainLeft(d)
    BY DEF IntakeInv
  <2>2. CASE CoverageWritten(d)
    BY <2>1, <2>2, DrainPlace DEF CoverageWritten
  <2>3. CASE CoverageLeft(d)
    BY <2>1, <2>3, DrainPlace DEF CoverageLeft
  <2>. QED  BY <2>2, <2>3
<1>2. PICK v \in [report : 0..LastReport, step : 1..6] :
         v = Free /\ v.report = 0 /\ v.step = 1 /\ work' = [work EXCEPT ![d] = v]
  BY <1>1, DrainPlace DEF Free
<1>3. /\ refused' \in [HostReportNos -> Nat] /\ history' \in [HostReportNos -> Nat]
      /\ coverage.scan \in 0..LastReport
  BY <1>1 DEF IntakeInv, IntakeTypeOK
<1>4. coverage' \in [tracked : 0..LastReport, scan : 0..LastReport]
  <2>1. coverage \in [tracked : 0..LastReport, scan : 0..LastReport]
    BY DEF IntakeInv, IntakeTypeOK
  <2>2. Covered(On(d)) \in [tracked : 0..LastReport, scan : 0..LastReport]
    BY <1>1, <1>3 DEF Covered, LastScan, HostReportNos
  <2>. QED  BY <1>1, <2>1, <2>2
<1>5. \A q \in HostReportNos : CameAsOften(q)'
  <2>1. /\ UNCHANGED timesCome /\ (v.report = 0 \/ (v.report = On(d) /\ v.step >= work[d].step))
        /\ \/ UNCHANGED refused
           \/ work[d].step = 1 /\ v.step > 1 /\ refused' = [refused EXCEPT ![On(d)] = @ + 1]
        /\ \/ UNCHANGED history
           \/ work[d].step = 4 /\ v.step > 4 /\ history' = [history EXCEPT ![On(d)] = @ + 1]
    BY <1>1, <1>2, DrainPlace
  <2>. QED  BY <2>1, <1>1, <1>2, CamePasses
<1>6. DrainLeft(d)'
  BY <1>2, DrainPlace DEF DrainLeft, On
<1>7. \A r \in handled' \ handled : ReportLeft(r)'
  <2>1. UNCHANGED <<oversized, mutedKind>> /\ JournalEvents' = JournalEvents
        /\ \A r : ChangeKind(r)' = ChangeKind(r)
    BY <1>1 DEF given, JournalEvents, ChangeKind
  <2>. SUFFICES ASSUME NEW r, r = On(d) PROVE ReportLeft(r)'
    BY <1>1
  <2>. QED  BY <1>1, <2>1 DEF DrainLeft, ReportLeft, RefusalIn, LinesIn, ChangeIn, HistoryIn
<1>8. straight' => \E w \in 0..LastReport : BaselineOf(w)'
  <2>. SUFFICES ASSUME straight' PROVE \E w \in 0..LastReport : BaselineOf(w)'
    OBVIOUS
  <2>1. PICK w \in 0..LastReport : BaselineOf(w)
    BY <1>1 DEF IntakeInv
  <2>2. On(d) <= w
    BY <1>1, <2>1 DEF BaselineOf
  <2>3. \A e \in Intake : work'[e].step = 6 => e # d /\ work'[e] = work[e]
    BY <1>2, DrainPlace
  <2>. QED  BY <1>1, <2>1, <2>2, <2>3 DEF BaselineOf, On, given
<1>9. /\ coverageIn' \subseteq handled'
      /\ coverageIn' \cap rescanned # {} => coverage'.scan \in coverageIn' \cap rescanned
  <2>1. coverageIn \subseteq handled /\ (coverageIn \cap rescanned # {} => coverage.scan \in coverageIn \cap rescanned)
    BY DEF IntakeInv, IntakeTypeOK
  <2>2. CASE coverage' = Covered(On(d)) /\ coverageIn' = coverageIn \cup {On(d)}
    BY <1>1, <2>1, <2>2 DEF Covered, LastScan
  <2>3. CASE UNCHANGED <<coverage, coverageIn>>
    BY <1>1, <2>1, <2>3
  <2>. QED  BY <1>1, <2>2, <2>3
<1>10. /\ timesCome' \in [HostReportNos -> 0..MaxArrivals] /\ slips' \in 0..MaxSlips
       /\ lineEvents \subseteq lineEvents' /\ lineEvents' \subseteq JournalEvents
       /\ fileEvents \subseteq fileEvents' /\ fileEvents' \subseteq HostReportNos
       /\ \A q \in HostReportNos : refused'[q] >= refused[q] /\ history'[q] >= history[q]
       /\ straight' \in BOOLEAN /\ baselineRow' \in FileStates
       /\ handled \subseteq handled' /\ handled' \subseteq HostReportNos
  BY <1>1 DEF IntakeInv, IntakeTypeOK
<1>. QED  BY <1>1, <1>2, <1>3, <1>4, <1>5, <1>6, <1>7, <1>8, <1>9, <1>10, IntakeMoves

LEMMA FaultLeaves ==
    ASSUME IntakeInv, NEW d \in Intake, ProjectionLeaves(d) \/ IntakeCut(d)
    PROVE  IntakeInv'
<1>. USE IntakeAssumption
<1>1. /\ On(d) # 0 /\ On(d) \in HostReportNos /\ work[d].step \in 1..6 /\ DrainLeft(d)
      /\ UNCHANGED given
      /\ UNCHANGED <<timesCome, lineEvents, fileEvents, refused, history, baselineRow, coverage, handled, coverageIn>>
      /\ straight' \in BOOLEAN /\ (straight' => straight) /\ slips' \in 0..MaxSlips
  <2>1. /\ On(d) # 0 /\ On(d) \in HostReportNos /\ work[d].step \in 1..6
        /\ UNCHANGED given
        /\ UNCHANGED <<timesCome, lineEvents, fileEvents, refused, history, baselineRow, coverage, handled, coverageIn>>
        /\ straight' = straight \/ straight' = FALSE
        /\ slips < MaxSlips /\ slips' = slips + 1
    BY DrainPlace DEF ProjectionLeaves, IntakeCut
  <2>2. DrainLeft(d) /\ straight \in BOOLEAN /\ slips \in 0..MaxSlips
    BY DEF IntakeInv, IntakeTypeOK
  <2>3. straight' \in BOOLEAN /\ (straight' => straight)
    <3>1. CASE straight' = straight
      BY <3>1, <2>2
    <3>2. CASE straight' = FALSE
      BY <3>2
    <3>. QED  BY <3>1, <3>2, <2>1
  <2>4. slips' \in 0..MaxSlips
    BY <2>1, <2>2
  <2>. QED  BY <2>1, <2>2, <2>3, <2>4
<1>2. PICK v \in [report : 0..LastReport, step : 1..6] :
         /\ work' = [work EXCEPT ![d] = v]
         /\ \/ v.report = 0 /\ v.step = 1
            \/ v.report = On(d) /\ v.step = 6 /\ work[d].step \in {4, 5} /\ ~straight'
  <2>1. CASE ProjectionLeaves(d)
    <3>1. StepsTo(d, 6) /\ work[d].step \in {4, 5} /\ ~straight'
      BY <2>1, DrainPlace, StepNames DEF ProjectionLeaves, After
    <3>. QED  BY <3>1, GoesOn
  <2>2. CASE IntakeCut(d)
    BY <2>2, DrainPlace DEF IntakeCut, Free
  <2>. QED  BY <2>1, <2>2
<1>3. refused' \in [HostReportNos -> Nat] /\ history' \in [HostReportNos -> Nat]
  BY <1>1 DEF IntakeInv, IntakeTypeOK
<1>4. \A q \in HostReportNos : CameAsOften(q)'
  <2>1. /\ UNCHANGED timesCome /\ (v.report = 0 \/ (v.report = On(d) /\ v.step >= work[d].step))
        /\ \/ UNCHANGED refused
           \/ work[d].step = 1 /\ v.step > 1 /\ refused' = [refused EXCEPT ![On(d)] = @ + 1]
        /\ \/ UNCHANGED history
           \/ work[d].step = 4 /\ v.step > 4 /\ history' = [history EXCEPT ![On(d)] = @ + 1]
    BY <1>1, <1>2, DrainPlace
  <2>. QED  BY <2>1, <1>1, <1>2, CamePasses
<1>5. DrainLeft(d)'
  <2>1. UNCHANGED <<oversized, mutedKind>> /\ JournalEvents' = JournalEvents
        /\ \A r : ChangeKind(r)' = ChangeKind(r)
    BY <1>1 DEF given, JournalEvents, ChangeKind
  <2>. QED  BY <1>1, <1>2, <2>1, DrainPlace
            DEF DrainLeft, RefusalIn, LinesIn, ChangeIn, HistoryIn, On
<1>6. straight' => \E w \in 0..LastReport : BaselineOf(w)'
  <2>1. CASE v.step = 6
    BY <2>1, <1>2
  <2>2. CASE v.step # 6
    <3>1. /\ UNCHANGED <<fileAt, baselineRow, handled>>
          /\ \A q \in HostReportNos : history'[q] >= history[q]
      BY <1>1, <1>3 DEF given
    <3>. QED  BY <2>2, <3>1, <1>1, <1>2, <1>3, BaselineStays
  <2>. QED  BY <2>1, <2>2
<1>7. /\ timesCome' \in [HostReportNos -> 0..MaxArrivals]
      /\ lineEvents \subseteq lineEvents' /\ lineEvents' \subseteq JournalEvents
      /\ fileEvents \subseteq fileEvents' /\ fileEvents' \subseteq HostReportNos
      /\ \A q \in HostReportNos : refused'[q] >= refused[q] /\ history'[q] >= history[q]
      /\ baselineRow' \in FileStates /\ coverage' \in [tracked : 0..LastReport, scan : 0..LastReport]
      /\ handled \subseteq handled' /\ handled' \subseteq HostReportNos /\ handled' \ handled = {}
      /\ coverageIn' \subseteq handled'
      /\ coverageIn' \cap rescanned # {} => coverage'.scan \in coverageIn' \cap rescanned
  <2>1. \A q \in HostReportNos : refused[q] \in Nat /\ history[q] \in Nat
    BY DEF IntakeInv, IntakeTypeOK
  <2>2. \A q \in HostReportNos : refused'[q] >= refused[q] /\ history'[q] >= history[q]
    BY <1>1, <2>1
  <2>. QED  BY <1>1, <2>2 DEF IntakeInv, IntakeTypeOK
<1>. QED  BY <1>1, <1>2, <1>3, <1>4, <1>5, <1>6, <1>7, IntakeMoves

LEMMA IntakeStep == IntakeInv /\ IntakeNext => IntakeInv'
BY ArriveLeaves, AddLeaves, BaselineLeaves, CoverageLeaves, FaultLeaves DEF IntakeNext

(* The event of a line that is classified as a failure.                    *)
LEMMA LineTells ==
    ASSUME NEW l \in LinesOf(attempt), NEW a \in {"host.auth.ssh.failure", "host.sudo.failure"},
           a \in Classify(l)
    PROVE  \E e \in JournalEvents : e[2] \in {"host.auth.ssh.failure", "host.sudo.failure"}
<1>1. <<l, a>> \in {l} \X Classify(l)
  OBVIOUS
<1>2. <<l, a>> \in JournalEvents
  BY <1>1, Zenon DEF JournalEvents
<1>3. <<l, a>>[2] = a
  OBVIOUS
<1>. QED  BY <1>2, <1>3

(* What went wrong has such a line.                                        *)
LEMMA FailureTold ==
    ASSUME attempt \in FailedAttempts
    PROVE  \E e \in JournalEvents : e[2] \in {"host.auth.ssh.failure", "host.sudo.failure"}
<1>1. CASE attempt = "mistyped"
  <2>1. "mistyped" \in LinesOf(attempt) /\ "host.auth.ssh.failure" \in Classify("mistyped")
    BY <1>1 DEF LinesOf, Classify, WithCommand, SaysFailure
  <2>. QED  BY <2>1, LineTells
<1>2. CASE attempt = "stranger"
  <2>1. "Invalid_user" \in LinesOf(attempt) /\ "host.auth.ssh.failure" \in Classify("Invalid_user")
    BY <1>2 DEF LinesOf, Classify, WithCommand, SaysFailure
  <2>. QED  BY <2>1, LineTells
<1>3. CASE attempt = "unproven"
  <2>1. /\ "sudo_authentication_failure" \in LinesOf(attempt)
        /\ "host.sudo.failure" \in Classify("sudo_authentication_failure")
    BY <1>3 DEF LinesOf, Classify, WithCommand, SaysFailure
  <2>. QED  BY <2>1, LineTells
<1>. QED  BY <1>1, <1>2, <1>3 DEF FailedAttempts

LEMMA IntakeCovers == IntakeInv => IntakeTypeOK /\ ReportsHandled
<1>. SUFFICES ASSUME IntakeInv, \A d \in Intake : work[d] = Free
              PROVE  /\ \A r \in handled :
                           /\ JournalEvents \subseteq lineEvents
                           /\ attempt \in FailedAttempts =>
                                  \E e \in lineEvents : e[2] \in {"host.auth.ssh.failure", "host.sudo.failure"}
                           /\ ChangeKind(r) # mutedKind => r \in fileEvents
                           /\ straight => history[r] >= 1
                           /\ r \in oversized => refused[r] >= 1
                     /\ \A r \in HostReportNos : history[r] > 1 => timesCome[r] > 1
                     /\ straight /\ (\A r \in HostReportNos : history[r] > 0 => r \in handled) =>
                           \A r \in {0} \cup handled : (\A q \in handled : q <= r) => baselineRow = fileAt[r]
                     /\ coverageIn \cap rescanned # {} => coverage.scan \in coverageIn \cap rescanned
  BY DEF ReportsHandled, IntakeInv
<1>1. \A r \in handled :
         /\ JournalEvents \subseteq lineEvents
         /\ ChangeKind(r) # mutedKind => r \in fileEvents
         /\ straight => history[r] >= 1
         /\ r \in oversized => refused[r] >= 1
  BY DEF IntakeInv, ReportLeft, LinesIn, ChangeIn, HistoryIn, RefusalIn
<1>4. ASSUME JournalEvents \subseteq lineEvents, attempt \in FailedAttempts
      PROVE  \E e \in lineEvents : e[2] \in {"host.auth.ssh.failure", "host.sudo.failure"}
  BY <1>4, FailureTold
<1>2. ASSUME NEW r \in HostReportNos, history[r] > 1
      PROVE  timesCome[r] > 1
  <2>1. /\ history[r] + Cardinality(Before(work, r, 4)) <= timesCome[r]
        /\ Cardinality(Before(work, r, 4)) \in Nat
    BY BeforeFinite DEF IntakeInv, CameAsOften
  <2>2. history[r] \in Nat /\ timesCome[r] \in Nat
    BY IntakeAssumption DEF IntakeInv, IntakeTypeOK
  <2>. QED  BY <1>2, <2>1, <2>2
<1>3. ASSUME straight, \A r \in HostReportNos : history[r] > 0 => r \in handled,
             NEW r \in {0} \cup handled, \A q \in handled : q <= r
      PROVE  baselineRow = fileAt[r]
  <2>1. PICK w \in 0..LastReport : BaselineOf(w)
    BY <1>3 DEF IntakeInv
  <2>2. w = 0 \/ w \in handled
    <3>1. w \in HostReportNos /\ history[w] >= 1 => history[w] > 0
      BY IntakeAssumption DEF IntakeInv, IntakeTypeOK
    <3>. QED  BY <2>1, <3>1, <1>3 DEF BaselineOf
  <2>3. w = r
    BY <2>1, <2>2, <1>3, IntakeAssumption DEF BaselineOf, IntakeInv, IntakeTypeOK, HostReportNos
  <2>. QED  BY <2>1, <2>3 DEF BaselineOf
<1>. QED  BY <1>1, <1>2, <1>3, <1>4 DEF IntakeInv

(* A report of an agent that was handled left its events behind, and while *)
(* reports come in order and whole the baseline is the file of the last    *)
(* one (the drain of host reports).                                        *)
THEOREM IntakeHolds == IntakeSpec => [](IntakeTypeOK /\ ReportsHandled)
<1>1. IntakeInv /\ [IntakeNext]_intakeVars => IntakeInv'
  BY IntakeStep, IntakeRest
<1>. QED  BY IntakeStarts, <1>1, IntakeCovers, PTL DEF IntakeSpec

-----------------------------------------------------------------------------
(* VpnReports.                                                             *)

Beside  == <<"pair", 0>>
RowsOf  == {{}} \cup {{p} : p \in SUBSET Peer}
Drains  == [stage : {"idle", "read", "telling", "cert", "band"}, of : Reports,
            prev : RowsOf, todo : SUBSET Tidings]

(* Drains that have yet to tell something.                                 *)
Owing(rd, t) == {r \in Reader : t \in rd[r].todo}

(* The sessions told and the sessions yet to be told add up to the row.    *)
AddsUp(rd, n, p, in) ==
    n + Cardinality(Owing(rd, <<p, 1>>)) - Cardinality(Owing(rd, <<p, -1>>)) = (IF in THEN 1 ELSE 0)
SessionsAddUp == \A s \in clientsRow, p \in Peer : AddsUp(reader, net[p], p, p \in s)

(* Only a drain that tells has something to tell, and only an expiring     *)
(* certificate has a band to tell.                                         *)
TodoInPlace ==
    \A r \in Reader : /\ reader[r].stage # "telling" => reader[r].todo = {}
                      /\ reader[r].stage = "band" => reader[r].of.band = "expiring"

(* The drain that has read the row is alone with it, and nobody tells of a *)
(* row that is not there.                                                  *)
AloneWithRow ==
    /\ \A r \in Reader : reader[r].stage = "read" =>
          reader[r].prev = clientsRow /\ \A x \in Reader \ {r} : reader[x].stage # "read"
    /\ clientsRow = {} => \A r \in Reader : reader[r].stage # "telling"

PairKnown == (\E s \in clientsRow : Pair(s)) => pairTold \/ \E r \in Reader : Beside \in reader[r].todo
BandKnown == certRow = "expiring" => \/ "expiring" \in bandsTold
                                     \/ \E r \in Reader : reader[r].stage = "band"

ClientsInv ==
    /\ VpnReportsTypeOK /\ TodoInPlace
    /\ ~upset => AloneWithRow /\ SessionsAddUp /\ PairKnown /\ BandKnown

LEMMA PairStays ==
    ASSUME UNCHANGED ipOf
    PROVE  \A s : Pair(s) <=> Pair(s)'
BY DEF Pair

LEMMA DrainParts ==
    ASSUME VpnReportsTypeOK
    PROVE  /\ reader \in [Reader -> Drains] /\ AtEase \in Drains
           /\ AtEase.stage = "idle" /\ AtEase.todo = {} /\ AtEase.of = NoReport /\ AtEase.prev = {}
           /\ \A r \in Reader : /\ reader[r].of \in Reports /\ reader[r].of.band \in Band
                                /\ reader[r].of.peers \in RowsOf
                                /\ reader[r].prev \in RowsOf /\ reader[r].todo \in SUBSET Tidings
                                /\ reader[r].stage \in {"idle", "read", "telling", "cert", "band"}
<1>1. NoReport \in Reports
  BY DEF NoReport, Reports, Band
<1>2. AtEase \in Drains /\ AtEase.stage = "idle" /\ AtEase.todo = {} /\ AtEase.of = NoReport /\ AtEase.prev = {}
  BY <1>1 DEF AtEase, Drains, RowsOf
<1>3. reader \in [Reader -> Drains]
  BY DEF VpnReportsTypeOK, Drains, RowsOf
<1>. QED  BY <1>2, <1>3 DEF Drains, Reports, RowsOf

LEMMA OwingFinite ==
    ASSUME NEW rd, NEW t
    PROVE  IsFiniteSet(Owing(rd, t)) /\ Cardinality(Owing(rd, t)) \in Nat
BY VpnReportsAssumption, FS_Subset, FS_CardinalityType DEF Owing

LEMMA ClientsStart == VpnReportsInit => ClientsInv
<1>. SUFFICES ASSUME VpnReportsInit PROVE ClientsInv
  OBVIOUS
<1>. USE VpnReportsAssumption
<1>1. NoReport \in Reports
  BY DEF NoReport, Reports, Band
<1>2. VpnReportsTypeOK
  <2>1. reader \in [Reader -> Drains]
    BY <1>1 DEF VpnReportsInit, AtEase, Drains, RowsOf
  <2>2. /\ reader \in [Reader -> [stage : {"idle", "read", "telling", "cert", "band"}, of : Reports,
                                 prev : {{}} \cup {{p} : p \in SUBSET Peer}, todo : SUBSET Tidings]]
    BY <2>1 DEF Drains, RowsOf
  <2>3. 0 \in 0..MaxComings /\ 0 \in 0..MaxUpsets
    OBVIOUS
  <2>4. net \in [Peer -> Int]
    BY DEF VpnReportsInit
  <2>. QED  BY <2>2, <2>3, <2>4 DEF VpnReportsInit, VpnReportsTypeOK, Band
<1>3. TodoInPlace /\ AloneWithRow /\ SessionsAddUp /\ PairKnown /\ BandKnown
  BY DEF VpnReportsInit, TodoInPlace, AtEase, AloneWithRow, SessionsAddUp, PairKnown, Pair, BandKnown
<1>. QED  BY <1>2, <1>3 DEF ClientsInv

LEMMA ClientsRest == ClientsInv /\ UNCHANGED vpnReportVars => ClientsInv'
<1>. SUFFICES ASSUME ClientsInv, UNCHANGED vpnReportVars PROVE ClientsInv'
  OBVIOUS
<1>1. VpnReportsTypeOK'
  BY DEF vpnReportVars, ClientsInv, VpnReportsTypeOK
<1>2. TodoInPlace' /\ (~upset => AloneWithRow')
  BY DEF vpnReportVars, ClientsInv, TodoInPlace, AloneWithRow
<1>3. ~upset => SessionsAddUp'
  BY DEF vpnReportVars, ClientsInv, SessionsAddUp, AddsUp, Owing
<1>4. ~upset => PairKnown' /\ BandKnown'
  BY DEF vpnReportVars, ClientsInv, PairKnown, Pair, BandKnown
<1>5. upset' = upset
  BY DEF vpnReportVars
<1>. QED  BY <1>1, <1>2, <1>3, <1>4, <1>5 DEF ClientsInv

(* The box changes nothing that the backend keeps.                         *)
LEMMA BoxAdds ==
    ASSUME ClientsInv, Beats \/ (\E p \in Peer : PeerTurns(p)) \/ (\E b \in Band : CertTurns(b))
    PROVE  ClientsInv'
<1>. USE VpnReportsAssumption
<1>1. UNCHANGED <<ipOf, clientsRow, certRow, reader, net, pairTold, bandsTold, upset, upsets>>
  BY DEF Beats, PeerTurns, CertTurns, lingering
<1>2. online' \subseteq Peer /\ certBand' \in Band /\ comings' \in 0..MaxComings
  BY DEF Beats, PeerTurns, CertTurns, ClientsInv, VpnReportsTypeOK
<1>3. sentReports' \subseteq Reports
  <2>1. \A s \in StatusRead : [peers |-> s, band |-> certBand] \in Reports
    BY DEF StatusRead, Reports, ClientsInv, VpnReportsTypeOK
  <2>. QED  BY <2>1 DEF Beats, PeerTurns, CertTurns, ClientsInv, VpnReportsTypeOK
<1>4. VpnReportsTypeOK'
  BY <1>1, <1>2, <1>3 DEF ClientsInv, VpnReportsTypeOK
<1>. QED  BY <1>1, <1>4
          DEF ClientsInv, TodoInPlace, AloneWithRow, SessionsAddUp, AddsUp, Owing, PairKnown, Pair, BandKnown

LEMMA UpsetTurns ==
    ASSUME VpnReportsTypeOK, NEW u \in BOOLEAN, Upsetting(u)
    PROVE  /\ upset' \in BOOLEAN /\ net' \in [Peer -> Int]
           /\ ~upset' => ~upset /\ ~u /\ net' = net
BY DEF VpnReportsTypeOK, Upsetting, Nothing

LEMMA BeginAdds ==
    ASSUME ClientsInv, NEW r \in Reader, NEW m \in sentReports, Begins(r, m)
    PROVE  ClientsInv'
<1>. USE VpnReportsAssumption, DrainParts DEF ClientsInv
<1>. DEFINE u == m.peers # {} /\ \E x \in Reader : reader[x].stage = "read"
            w == IF m.peers = {} THEN [AtEase EXCEPT !.stage = "cert", !.of = m]
                 ELSE [AtEase EXCEPT !.stage = "read", !.of = m, !.prev = clientsRow]
<1>1. /\ reader[r].stage = "idle" /\ reader' = [reader EXCEPT ![r] = w]
      /\ UNCHANGED <<ipOf, online, certBand, sentReports, comings, clientsRow, certRow, pairTold, bandsTold, upsets>>
  BY DEF Begins, box
<1>2. /\ w \in Drains /\ w.todo = {} /\ w.stage \in {"cert", "read"} /\ w.of = m
      /\ w.stage = "read" => m.peers # {} /\ w.prev = clientsRow
  BY DEF VpnReportsTypeOK, Drains, AtEase, RowsOf
<1>3. Upsetting(u) /\ u \in BOOLEAN
  BY DEF Begins
<1>4. u <=> m.peers # {} /\ \E x \in Reader : reader[x].stage = "read"
  OBVIOUS
<1>. HIDE DEF u, w
<1>5. /\ upset' \in BOOLEAN /\ net' \in [Peer -> Int]
      /\ ~upset' => ~upset /\ ~u /\ net' = net
  BY <1>3, UpsetTurns
<1>6. /\ reader' \in [Reader -> Drains] /\ reader'[r] = w
      /\ \A x \in Reader \ {r} : reader'[x] = reader[x]
  BY <1>1, <1>2
<1>7. VpnReportsTypeOK'
  BY <1>1, <1>5, <1>6 DEF VpnReportsTypeOK, Drains, RowsOf
<1>8. TodoInPlace'
  BY <1>2, <1>6 DEF TodoInPlace
<1>9. \A x \in Reader : reader'[x].todo = reader[x].todo
  BY <1>1, <1>2, <1>6 DEF TodoInPlace
<1>10. ~upset' => AloneWithRow'
  BY <1>1, <1>2, <1>4, <1>5, <1>6 DEF AloneWithRow
<1>11. ~upset' => SessionsAddUp'
  <2>1. \A t : Owing(reader', t) = Owing(reader, t)
    BY <1>9 DEF Owing
  <2>. SUFFICES ASSUME ~upset', NEW s \in clientsRow, NEW p \in Peer
                PROVE  AddsUp(reader', net'[p], p, p \in s)
    BY <1>1 DEF SessionsAddUp
  <2>2. AddsUp(reader, net[p], p, p \in s)
    BY <1>5 DEF SessionsAddUp
  <2>. QED  BY <1>5, <2>1, <2>2 DEF AddsUp
<1>12. ~upset' => PairKnown' /\ BandKnown'
  <2>1. \A s : Pair(s) <=> Pair(s)'
    BY <1>1, PairStays
  <2>. QED  BY <1>1, <1>2, <1>5, <1>6, <1>9, <2>1 DEF PairKnown, BandKnown
<1>. QED  BY <1>7, <1>8, <1>10, <1>11, <1>12

(* A drain that goes on, or ends, with nothing left to tell.               *)
LEMMA QuietMoves ==
    ASSUME ClientsInv, NEW r \in Reader, NEW w \in Drains, reader' = [reader EXCEPT ![r] = w],
           UNCHANGED <<ipOf, clientsRow, pairTold>>, w.stage \in {"idle", "cert", "band"}, w.todo = {},
           w.stage = "band" => w.of.band = "expiring",
           ~upset' => ~upset /\ net' = net /\ reader[r].todo = {}
    PROVE  /\ reader' \in [Reader -> Drains] /\ TodoInPlace'
           /\ ~upset' => AloneWithRow' /\ SessionsAddUp' /\ PairKnown'
<1>. USE DrainParts DEF ClientsInv
<1>1. /\ reader' \in [Reader -> Drains] /\ reader'[r] = w
      /\ \A x \in Reader \ {r} : reader'[x] = reader[x]
  OBVIOUS
<1>2. TodoInPlace'
  BY <1>1 DEF TodoInPlace
<1>3. ~upset' => AloneWithRow'
  BY <1>1 DEF AloneWithRow
<1>4. ~upset' => \A x \in Reader : reader'[x].todo = reader[x].todo
  BY <1>1
<1>5. ~upset' => SessionsAddUp'
  <2>. SUFFICES ASSUME ~upset', NEW s \in clientsRow, NEW p \in Peer
                PROVE  AddsUp(reader', net'[p], p, p \in s)
    BY DEF SessionsAddUp
  <2>1. \A t : Owing(reader', t) = Owing(reader, t)
    BY <1>4 DEF Owing
  <2>2. AddsUp(reader, net[p], p, p \in s)
    BY DEF SessionsAddUp
  <2>. QED  BY <2>1, <2>2 DEF AddsUp
<1>6. ~upset' => PairKnown'
  <2>1. \A s : Pair(s) <=> Pair(s)'
    BY PairStays
  <2>. QED  BY <1>4, <2>1 DEF PairKnown
<1>. QED  BY <1>1, <1>2, <1>3, <1>5, <1>6

LEMMA TellAdds ==
    ASSUME ClientsInv, NEW r \in Reader, ClientsTold(r)
    PROVE  ClientsInv'
<1>. USE VpnReportsAssumption, DrainParts DEF ClientsInv
<1>. DEFINE w == [reader[r] EXCEPT !.stage = "cert"]
<1>1. /\ reader[r].todo = {} /\ reader' = [reader EXCEPT ![r] = w]
      /\ UNCHANGED <<ipOf, online, certBand, sentReports, comings, clientsRow, certRow, net, pairTold, bandsTold,
                     upset, upsets>>
  BY DEF ClientsTold, box, lingering
<1>2. w \in Drains /\ w.todo = {} /\ w.stage = "cert"
  BY <1>1 DEF Drains
<1>3. w.stage \in {"idle", "cert", "band"} /\ (w.stage = "band" => w.of.band = "expiring")
  BY <1>2
<1>. HIDE DEF w
<1>4. /\ reader' \in [Reader -> Drains] /\ TodoInPlace'
      /\ ~upset' => AloneWithRow' /\ SessionsAddUp' /\ PairKnown'
  BY <1>1, <1>2, <1>3, QuietMoves
<1>5. VpnReportsTypeOK'
  BY <1>1, <1>4 DEF VpnReportsTypeOK, Drains, RowsOf
<1>6. ~upset' => BandKnown'
  <2>1. \A x \in Reader : reader[x].stage = "band" => reader'[x].stage = "band"
    BY <1>1 DEF ClientsTold
  <2>. QED  BY <1>1, <2>1 DEF BandKnown
<1>. QED  BY <1>4, <1>5, <1>6

LEMMA CertAdds ==
    ASSUME ClientsInv, NEW r \in Reader, WritesCert(r) \/ BandStored(r)
    PROVE  ClientsInv'
<1>. USE VpnReportsAssumption, DrainParts DEF ClientsInv
<1>1. /\ reader[r].stage \in {"cert", "band"} /\ reader[r].todo = {}
      /\ UNCHANGED <<ipOf, online, certBand, sentReports, comings, clientsRow, net, pairTold, upset, upsets>>
  BY DEF WritesCert, BandStored, box, lingering, TodoInPlace
<1>2. PICK w \in Drains :
         /\ reader' = [reader EXCEPT ![r] = w] /\ w.todo = {}
         /\ \/ /\ w.stage = "idle" /\ bandsTold' = bandsTold \cup {reader[r].of.band}
               /\ certRow' = certRow /\ reader[r].stage = "band"
            \/ /\ w.stage = (IF reader[r].of.band = "fine" THEN "idle" ELSE "band") /\ w.of = reader[r].of
               /\ certRow' = reader[r].of.band /\ bandsTold' = bandsTold
            \/ w.stage = "idle" /\ certRow' = reader[r].of.band /\ reader[r].of.band = "fine"
               /\ bandsTold' = bandsTold
  <2>1. CASE BandStored(r)
    BY <2>1 DEF BandStored
  <2>2. CASE WritesCert(r) /\ reader[r].of.band = "fine"
    BY <2>2 DEF WritesCert, lingering
  <2>3. CASE WritesCert(r) /\ reader[r].of.band # "fine"
    <3>1. PICK w \in Drains : w = [reader[r] EXCEPT !.stage = "band"]
      BY DEF Drains
    <3>2. w.todo = {} /\ w.stage = "band" /\ w.of = reader[r].of
      BY <1>1, <3>1 DEF Drains
    <3>3. reader' = [reader EXCEPT ![r] = w]
      BY <2>3, <3>1 DEF WritesCert
    <3>. QED  BY <2>3, <3>2, <3>3 DEF WritesCert, lingering
  <2>. QED  BY <2>1, <2>2, <2>3
<1>3. reader[r].of.band \in {"fine", "expiring"} /\ (reader[r].stage = "band" => reader[r].of.band = "expiring")
  BY DEF Band, TodoInPlace
<1>4. w.stage \in {"idle", "cert", "band"} /\ (w.stage = "band" => w.of.band = "expiring")
  BY <1>2, <1>3
<1>5. /\ reader' \in [Reader -> Drains] /\ TodoInPlace'
      /\ ~upset' => AloneWithRow' /\ SessionsAddUp' /\ PairKnown'
  BY <1>1, <1>2, <1>4, QuietMoves
<1>6. certRow' \in Band \cup {"none"} /\ bandsTold' \subseteq {"expiring"}
  BY <1>2, <1>3 DEF VpnReportsTypeOK
<1>7. VpnReportsTypeOK'
  BY <1>1, <1>5, <1>6 DEF VpnReportsTypeOK, Drains, RowsOf
<1>8. ~upset' => BandKnown'
  <2>1. \A x \in Reader \ {r} : reader'[x] = reader[x]
    BY <1>2
  <2>2. reader'[r] = w
    BY <1>2
  <2>. QED  BY <1>1, <1>2, <1>3, <2>1, <2>2 DEF BandKnown
<1>. QED  BY <1>5, <1>7, <1>8

LEMMA FaultAdds ==
    ASSUME ClientsInv, NEW r \in Reader, ProjectionFails(r) \/ ReaderCut(r)
    PROVE  ClientsInv'
<1>. USE VpnReportsAssumption, DrainParts DEF ClientsInv
<1>1. /\ UNCHANGED <<ipOf, online, certBand, sentReports, comings, clientsRow, certRow, pairTold, bandsTold>>
      /\ upsets' \in 0..MaxUpsets
  BY DEF ProjectionFails, ReaderCut, box, lingering, Upset, VpnReportsTypeOK
<1>2. /\ upset' \in BOOLEAN /\ net' \in [Peer -> Int]
      /\ ~upset' => ~upset /\ net' = net /\ reader[r].todo = {} /\ (ReaderCut(r) => reader[r].stage # "band")
  <2>1. CASE ProjectionFails(r)
    <3>1. UNCHANGED <<net, upset>> /\ reader[r].todo = {} /\ reader[r].stage \in {"read", "cert"}
      BY <2>1 DEF ProjectionFails, lingering, TodoInPlace
    <3>2. upset' \in BOOLEAN /\ net' \in [Peer -> Int]
      BY <3>1 DEF VpnReportsTypeOK
    <3>. QED  BY <3>1, <3>2
  <2>2. CASE ReaderCut(r)
    <3>. DEFINE v == reader[r].todo # {} \/ reader[r].stage = "band"
    <3>1. Upsetting(v) /\ v \in BOOLEAN
      BY <2>2 DEF ReaderCut
    <3>2. ~v => reader[r].todo = {} /\ reader[r].stage # "band"
      OBVIOUS
    <3>. HIDE DEF v
    <3>. QED  BY <3>1, <3>2, UpsetTurns
  <2>. QED  BY <2>1, <2>2
<1>3. PICK w \in Drains :
         /\ reader' = [reader EXCEPT ![r] = w] /\ (~upset' => w.todo = {})
         /\ w.todo = {}
         /\ w.stage \in {"idle", "cert", "band"} /\ (w.stage = "band" => w.of.band = "expiring")
         /\ reader[r].stage = "band" => ReaderCut(r)
  <2>1. CASE ReaderCut(r)
    BY <2>1 DEF ReaderCut
  <2>2. CASE ProjectionFails(r)
    <3>1. reader[r].todo = {} /\ reader[r].stage \in {"read", "cert"} /\ reader[r].of.band \in {"fine", "expiring"}
      BY <2>2 DEF ProjectionFails, TodoInPlace, Band
    <3>2. PICK w : w = IF reader[r].stage = "read"
                       THEN [reader[r] EXCEPT !.stage = "cert", !.prev = {}, !.of.peers = {}]
                       ELSE IF reader[r].of.band = "fine" THEN AtEase ELSE [reader[r] EXCEPT !.stage = "band"]
      OBVIOUS
    <3>3. reader' = [reader EXCEPT ![r] = w]
      BY <2>2, <3>2 DEF ProjectionFails
    <3>4. CASE reader[r].stage = "read"
      <4>1. [reader[r].of EXCEPT !.peers = {}] \in Reports
        BY DEF Reports
      <4>2. w \in Drains /\ w.todo = {} /\ w.stage = "cert"
        BY <3>1, <3>2, <3>4, <4>1 DEF Drains, RowsOf
      <4>. QED  BY <3>3, <3>4, <4>2
    <3>5. CASE reader[r].stage = "cert"
      <4>1. w \in Drains /\ w.todo = {} /\ w.stage \in {"idle", "band"} /\ (w.stage = "band" => w.of.band = "expiring")
        BY <3>1, <3>2, <3>5 DEF Drains
      <4>. QED  BY <3>3, <3>5, <4>1
    <3>. QED  BY <3>1, <3>4, <3>5
  <2>. QED  BY <2>1, <2>2
<1>4. /\ reader' \in [Reader -> Drains] /\ TodoInPlace'
      /\ ~upset' => AloneWithRow' /\ SessionsAddUp' /\ PairKnown'
  BY <1>1, <1>2, <1>3, QuietMoves
<1>5. VpnReportsTypeOK'
  BY <1>1, <1>2, <1>4 DEF VpnReportsTypeOK, Drains, RowsOf
<1>6. ~upset' => BandKnown'
  <2>1. \A x \in Reader \ {r} : reader'[x] = reader[x]
    BY <1>3
  <2>2. ~upset' => reader[r].stage # "band"
    BY <1>2, <1>3
  <2>. QED  BY <1>1, <1>2, <2>1, <2>2 DEF BandKnown
<1>. QED  BY <1>4, <1>5, <1>6

LEMMA RowDropAdds ==
    ASSUME ClientsInv, RowDropped
    PROVE  ClientsInv'
<1>. USE VpnReportsAssumption, DrainParts DEF ClientsInv
<1>. DEFINE v == \E r \in Reader : reader[r].stage \in {"read", "telling"}
<1>1. /\ UNCHANGED <<ipOf, online, certBand, sentReports, comings, reader, bandsTold>>
      /\ upsets' \in 0..MaxUpsets /\ clientsRow' = {} /\ certRow' = "none" /\ pairTold' = FALSE
  BY DEF RowDropped, box, Upset, VpnReportsTypeOK
<1>2. Upsetting(v) /\ v \in BOOLEAN
  BY DEF RowDropped
<1>3. ~v => \A r \in Reader : reader[r].stage \notin {"read", "telling"}
  OBVIOUS
<1>. HIDE DEF v
<1>4. /\ upset' \in BOOLEAN /\ net' \in [Peer -> Int]
      /\ ~upset' => \A r \in Reader : reader[r].stage \notin {"read", "telling"}
  BY <1>2, <1>3, UpsetTurns
<1>5. VpnReportsTypeOK'
  BY <1>1, <1>4 DEF VpnReportsTypeOK
<1>6. TodoInPlace'
  BY <1>1 DEF TodoInPlace
<1>7. ~upset' => AloneWithRow' /\ SessionsAddUp' /\ PairKnown' /\ BandKnown'
  BY <1>1, <1>4 DEF AloneWithRow, SessionsAddUp, PairKnown, Pair, BandKnown
<1>. QED  BY <1>5, <1>6, <1>7

(* What a drain gains and loses of what is yet to be told.                 *)
LEMMA OwingTurns ==
    ASSUME reader \in [Reader -> Drains], NEW r \in Reader, NEW w \in Drains,
           reader' = [reader EXCEPT ![r] = w], NEW t
    PROVE  LET old == Cardinality(Owing(reader, t))
               new == Cardinality(Owing(reader', t))
           IN  /\ old \in Nat /\ new \in Nat
               /\ (t \in w.todo <=> t \in reader[r].todo) => new = old
               /\ t \in w.todo /\ t \notin reader[r].todo => new = old + 1
               /\ t \notin w.todo /\ t \in reader[r].todo => new = old - 1
<1>. DEFINE B == Owing(reader, t)
            C == Owing(reader', t)
<1>1. IsFiniteSet(B) /\ Cardinality(B) \in Nat /\ Cardinality(C) \in Nat
  BY OwingFinite
<1>2. /\ t \in w.todo => C = B \cup {r}
      /\ t \notin w.todo => C = B \ {r}
      /\ t \in reader[r].todo <=> r \in B
  BY DEF Owing
<1>. HIDE DEF B, C
<1>3. Cardinality(B \cup {r}) = IF r \in B THEN Cardinality(B) ELSE Cardinality(B) + 1
  BY <1>1, FS_AddElement
<1>4. Cardinality(B \ {r}) = IF r \in B THEN Cardinality(B) - 1 ELSE Cardinality(B)
  BY <1>1, FS_RemoveElement
<1>5. /\ Cardinality(B) \in Nat /\ Cardinality(C) \in Nat
      /\ (t \in w.todo <=> t \in reader[r].todo) => Cardinality(C) = Cardinality(B)
      /\ t \in w.todo /\ t \notin reader[r].todo => Cardinality(C) = Cardinality(B) + 1
      /\ t \notin w.todo /\ t \in reader[r].todo => Cardinality(C) = Cardinality(B) - 1
  BY <1>1, <1>2, <1>3, <1>4
<1>. QED  BY <1>5 DEF B, C

LEMMA TidyAdds ==
    ASSUME ClientsInv, NEW r \in Reader, NEW t \in reader[r].todo, Tidies(r, t)
    PROVE  ClientsInv'
<1>. USE VpnReportsAssumption, DrainParts DEF ClientsInv
<1>1. /\ reader[r].stage = "telling"
      /\ UNCHANGED <<ipOf, online, certBand, sentReports, comings, clientsRow, certRow, bandsTold, upset, upsets>>
  BY DEF Tidies, box
<1>2. PICK w \in Drains : /\ reader' = [reader EXCEPT ![r] = w] /\ w.stage = "telling"
                          /\ w.todo = reader[r].todo \ {t}
  <2>1. PICK w : w = [reader[r] EXCEPT !.todo = @ \ {t}]
    OBVIOUS
  <2>2. reader[r].todo \ {t} \in SUBSET Tidings
    OBVIOUS
  <2>3. w \in Drains /\ w.stage = "telling" /\ w.todo = reader[r].todo \ {t}
    BY <1>1, <2>1, <2>2 DEF Drains
  <2>. QED  BY <2>1, <2>3 DEF Tidies
<1>3. /\ reader' \in [Reader -> Drains] /\ reader'[r] = w
      /\ \A x \in Reader \ {r} : reader'[x] = reader[x]
  BY <1>2
<1>4. /\ t = Beside => pairTold' = (pairTold \/ \E s \in clientsRow : Pair(s)) /\ net' = net
      /\ t # Beside => /\ net' = (IF upset THEN net ELSE [net EXCEPT ![t[1]] = @ + t[2]])
                       /\ pairTold' = pairTold /\ t[1] \in Peer /\ t[2] \in {1, -1} /\ t = <<t[1], t[2]>>
  BY DEF Tidies, Beside, Tidings
<1>5. pairTold' \in BOOLEAN /\ (pairTold => pairTold')
  <2>. DEFINE v == \E s \in clientsRow : Pair(s)
  <2>1. v \in BOOLEAN /\ (pairTold' = (pairTold \/ v) \/ pairTold' = pairTold)
    BY <1>4
  <2>. HIDE DEF v
  <2>. QED  BY <2>1 DEF VpnReportsTypeOK
<1>6. net \in [Peer -> Int] /\ net' \in [Peer -> Int]
  BY <1>4 DEF VpnReportsTypeOK
<1>7. VpnReportsTypeOK'
  BY <1>1, <1>3, <1>5, <1>6 DEF VpnReportsTypeOK, Drains, RowsOf
<1>8. TodoInPlace' /\ (~upset' => AloneWithRow')
  BY <1>1, <1>2, <1>3 DEF TodoInPlace, AloneWithRow
<1>9. ~upset' => SessionsAddUp'
  <2>. SUFFICES ASSUME ~upset, NEW s \in clientsRow, NEW p \in Peer
                PROVE  AddsUp(reader', net'[p], p, p \in s)
    BY <1>1 DEF SessionsAddUp
  <2>1. AddsUp(reader, net[p], p, p \in s)
    BY DEF SessionsAddUp
  <2>2. ASSUME NEW k \in {1, -1}
        PROVE  /\ Cardinality(Owing(reader, <<p, k>>)) \in Nat /\ Cardinality(Owing(reader', <<p, k>>)) \in Nat
               /\ Cardinality(Owing(reader', <<p, k>>)) =
                     Cardinality(Owing(reader, <<p, k>>)) - (IF t = <<p, k>> THEN 1 ELSE 0)
    <3>. PICK at : at = <<p, k>>
      OBVIOUS
    <3>1. t = at => at \notin w.todo /\ at \in reader[r].todo
      BY <1>2
    <3>2. t # at => (at \in w.todo <=> at \in reader[r].todo)
      BY <1>2
    <3>3. /\ Cardinality(Owing(reader, at)) \in Nat /\ Cardinality(Owing(reader', at)) \in Nat
          /\ t # at => Cardinality(Owing(reader', at)) = Cardinality(Owing(reader, at))
          /\ t = at => Cardinality(Owing(reader', at)) = Cardinality(Owing(reader, at)) - 1
      BY <3>1, <3>2, <1>2, OwingTurns, ZenonT(60)
    <3>. HIDE VpnReportsAssumption, DrainParts DEF ClientsInv
    <3>4. CASE t = at
      BY <3>3, <3>4
    <3>5. CASE t # at
      BY <3>3, <3>5
    <3>. QED  BY <3>4, <3>5
  <2>3. net'[p] = net[p] + (IF t = <<p, 1>> THEN 1 ELSE 0) - (IF t = <<p, -1>> THEN 1 ELSE 0)
    BY <1>4, <1>6 DEF Beside
  <2>. QED  BY <2>1, <2>2, <2>3, <1>6 DEF AddsUp
<1>10. ~upset' => PairKnown'
  <2>. SUFFICES ASSUME ~upset, NEW s \in clientsRow, Pair(s), ~pairTold'
                PROVE  \E x \in Reader : Beside \in reader'[x].todo
    BY <1>1 DEF PairKnown, Pair
  <2>1. t # Beside
    BY <1>4
  <2>2. PICK x \in Reader : Beside \in reader[x].todo
    BY <1>5 DEF PairKnown, Pair
  <2>. QED  BY <1>2, <1>3, <2>1, <2>2
<1>11. ~upset' => BandKnown'
  BY <1>1, <1>3 DEF BandKnown
<1>. QED  BY <1>7, <1>8, <1>9, <1>10, <1>11

(* What a snapshot makes of a row that has one already.                    *)
LEMMA DiffOfRow ==
    ASSUME NEW q, NEW s
    PROVE  DiffOf({q}, s) = ((s \ q) \X {1}) \cup ((q \ s) \X {-1}) /\ DiffOf({}, s) = {}
BY DEF DiffOf

LEMMA WriteAdds ==
    ASSUME ClientsInv, NEW r \in Reader, WritesClients(r)
    PROVE  ClientsInv'
<1>. USE VpnReportsAssumption, DrainParts DEF ClientsInv
<1>1. PICK s \in reader[r].of.peers :
          /\ clientsRow' = {s}
          /\ reader' = [reader EXCEPT ![r].stage = "telling", ![r].prev = {}, ![r].of.peers = {},
                 ![r].todo = DiffOf(reader[r].prev, s) \cup (IF Pair(s) THEN {Beside} ELSE {})]
          /\ net' = IF reader[r].prev = {} /\ ~upset THEN [p \in Peer |-> IF p \in s THEN 1 ELSE 0] ELSE net
          /\ pairTold' = (pairTold /\ Pair(s))
  BY DEF WritesClients, ClientsUpserted, Beside
<1>2. /\ reader[r].stage = "read" /\ reader[r].todo = {} /\ s \in SUBSET Peer
      /\ UNCHANGED <<ipOf, online, certBand, sentReports, comings, certRow, bandsTold, upset, upsets>>
  BY <1>1 DEF WritesClients, box, TodoInPlace, RowsOf
<1>. DEFINE new == DiffOf(reader[r].prev, s) \cup (IF Pair(s) THEN {Beside} ELSE {})
<1>3. new \in SUBSET Tidings
  <2>1. CASE reader[r].prev = {}
    BY <2>1, DiffOfRow DEF Tidings, Beside
  <2>2. ASSUME NEW q \in SUBSET Peer, reader[r].prev = {q}
        PROVE  new \in SUBSET Tidings
    <3>1. DiffOf({q}, s) \subseteq Peer \X {1, -1}
      <4>1. DiffOf({q}, s) = ((s \ q) \X {1}) \cup ((q \ s) \X {-1})
        BY DiffOfRow
      <4>2. ((s \ q) \X {1}) \subseteq Peer \X {1, -1} /\ ((q \ s) \X {-1}) \subseteq Peer \X {1, -1}
        BY <1>2
      <4>. QED  BY <4>1, <4>2
    <3>. QED  BY <2>2, <3>1 DEF Tidings, Beside
  <2>3. reader[r].prev \in RowsOf
    OBVIOUS
  <2>. QED  BY <2>1, <2>2, <2>3 DEF RowsOf
<1>4. PICK w \in Drains : /\ reader' = [reader EXCEPT ![r] = w] /\ w.stage = "telling" /\ w.todo = new
  <2>1. PICK w : w = [reader[r] EXCEPT !.stage = "telling", !.prev = {}, !.of.peers = {}, !.todo = new]
    OBVIOUS
  <2>2. [reader[r].of EXCEPT !.peers = {}] \in Reports /\ {} \in RowsOf
    BY DEF Reports, RowsOf
  <2>3. w \in Drains /\ w.stage = "telling" /\ w.todo = new
    BY <1>3, <2>1, <2>2 DEF Drains
  <2>4. reader' = [reader EXCEPT ![r] = w]
    BY <1>1, <2>1 DEF Drains
  <2>. QED  BY <2>3, <2>4
<1>5. /\ reader' \in [Reader -> Drains] /\ reader'[r] = w
      /\ \A x \in Reader \ {r} : reader'[x] = reader[x]
  BY <1>4
<1>6. pairTold' \in BOOLEAN
  <2>. DEFINE v == Pair(s)
  <2>1. v \in BOOLEAN /\ pairTold' = (pairTold /\ v)
    BY <1>1 DEF Pair
  <2>. HIDE DEF v
  <2>. QED  BY <2>1 DEF VpnReportsTypeOK
<1>7. net \in [Peer -> Int] /\ net' \in [Peer -> Int]
  BY <1>1 DEF VpnReportsTypeOK
<1>8. VpnReportsTypeOK'
  BY <1>1, <1>2, <1>5, <1>6, <1>7 DEF VpnReportsTypeOK, Drains, RowsOf
<1>9. TodoInPlace'
  BY <1>4, <1>5 DEF TodoInPlace
<1>10. ~upset' => AloneWithRow'
  BY <1>1, <1>2, <1>4, <1>5 DEF AloneWithRow
<1>11. ~upset' => SessionsAddUp'
  <2>. SUFFICES ASSUME ~upset, NEW p \in Peer
                PROVE  AddsUp(reader', net'[p], p, p \in s)
    BY <1>1, <1>2 DEF SessionsAddUp
  <2>1. reader[r].prev = clientsRow /\ AloneWithRow
    BY <1>2 DEF AloneWithRow
  <2>2. ASSUME NEW k \in {1, -1}
        PROVE  /\ Cardinality(Owing(reader, <<p, k>>)) \in Nat /\ Cardinality(Owing(reader', <<p, k>>)) \in Nat
               /\ <<p, k>> \in new => Cardinality(Owing(reader', <<p, k>>)) = Cardinality(Owing(reader, <<p, k>>)) + 1
               /\ <<p, k>> \notin new => Cardinality(Owing(reader', <<p, k>>)) = Cardinality(Owing(reader, <<p, k>>))
    BY <1>2, <1>4, OwingTurns, ZenonT(30)
  <2>3. \A k \in {1, -1} : <<p, k>> \in new <=> <<p, k>> \in DiffOf(clientsRow, s)
    BY <2>1 DEF Beside
  <2>4. CASE clientsRow = {}
    <3>1. \A k \in {1, -1} : Owing(reader, <<p, k>>) = {}
      BY <2>1, <2>4 DEF AloneWithRow, TodoInPlace, Owing
    <3>2. \A k \in {1, -1} : Cardinality(Owing(reader, <<p, k>>)) = 0
      BY <3>1, FS_EmptySet
    <3>3. \A k \in {1, -1} : <<p, k>> \notin new
      BY <2>3, <2>4, DiffOfRow
    <3>4. net'[p] = IF p \in s THEN 1 ELSE 0
      BY <1>1, <2>1, <2>4
    <3>. QED  BY <2>2, <3>2, <3>3, <3>4 DEF AddsUp
  <2>5. ASSUME NEW q \in SUBSET Peer, clientsRow = {q}
        PROVE  AddsUp(reader', net'[p], p, p \in s)
    <3>1. /\ <<p, 1>> \in new <=> p \in s /\ p \notin q
          /\ <<p, -1>> \in new <=> p \in q /\ p \notin s
      <4>1. DiffOf({q}, s) = ((s \ q) \X {1}) \cup ((q \ s) \X {-1})
        BY DiffOfRow
      <4>2. /\ <<p, 1>> \in DiffOf({q}, s) <=> p \in s /\ p \notin q
            /\ <<p, -1>> \in DiffOf({q}, s) <=> p \in q /\ p \notin s
        BY <4>1, SMTT(20)
      <4>3. /\ <<p, 1>> \in new <=> <<p, 1>> \in DiffOf({q}, s)
            /\ <<p, -1>> \in new <=> <<p, -1>> \in DiffOf({q}, s)
        BY <2>3, <2>5
      <4>. QED  BY <4>2, <4>3
    <3>2. AddsUp(reader, net[p], p, p \in q) /\ net' = net
      BY <1>1, <2>1, <2>5 DEF SessionsAddUp
    <3>. HIDE DEF new
    <3>. QED  BY <2>2, <3>1, <3>2, <1>7 DEF AddsUp
  <2>. QED  BY <2>4, <2>5 DEF VpnReportsTypeOK
<1>12. ~upset' => PairKnown'
  <2>1. Pair(s) <=> Pair(s)'
    BY <1>2, PairStays
  <2>2. (\E x \in clientsRow : Pair(x))' <=> Pair(s)'
    BY <1>1
  <2>3. Pair(s) => Beside \in reader'[r].todo
    BY <1>4, <1>5
  <2>. QED  BY <2>1, <2>2, <2>3 DEF PairKnown
<1>13. ~upset' => BandKnown'
  BY <1>2, <1>5 DEF BandKnown
<1>. QED  BY <1>8, <1>9, <1>10, <1>11, <1>12, <1>13

LEMMA ClientsStep == ClientsInv /\ VpnReportsNext => ClientsInv'
BY BoxAdds, BeginAdds, TellAdds, CertAdds, FaultAdds, RowDropAdds, TidyAdds, WriteAdds DEF VpnReportsNext

LEMMA ClientsCover == ClientsInv => VpnReportsTypeOK /\ ClientsAreTold
<1>. SUFFICES ASSUME ClientsInv PROVE VpnReportsTypeOK /\ ClientsAreTold
  OBVIOUS
<1>1. \A p : Owing(reader, <<p, 1>>) = {r \in Reader : <<p, 1>> \in reader[r].todo}
  BY DEF Owing
<1>2. \A p : Owing(reader, <<p, -1>>) = {r \in Reader : <<p, -1>> \in reader[r].todo}
  BY DEF Owing
<1>3. ~upset => \A s \in clientsRow, p \in Peer :
               net[p] + Cardinality({r \in Reader : <<p, 1>> \in reader[r].todo})
                      - Cardinality({r \in Reader : <<p, -1>> \in reader[r].todo}) = (IF p \in s THEN 1 ELSE 0)
  BY <1>1, <1>2 DEF ClientsInv, SessionsAddUp, AddsUp
<1>4. ~upset => ((\E s \in clientsRow : Pair(s)) => pairTold \/ \E r \in Reader : <<"pair", 0>> \in reader[r].todo)
  BY DEF ClientsInv, PairKnown, Pair, Beside
<1>5. ~upset => (certRow = "expiring" =>
               \/ certRow \in bandsTold
               \/ \E r \in Reader : reader[r].stage = "band" /\ reader[r].of.band = certRow)
  BY DEF ClientsInv, BandKnown, TodoInPlace
<1>. QED  BY <1>3, <1>4, <1>5 DEF ClientsAreTold, ClientsInv

(* The starts and ends told of a VPN session add up to its presence in the *)
(* row, whatever order the reports come in (the projection of VPN status   *)
(* reports).                                                               *)
THEOREM ClientsHold == VpnReportsSpec => [](VpnReportsTypeOK /\ ClientsAreTold)
<1>1. ClientsInv /\ [VpnReportsNext]_vpnReportVars => ClientsInv'
  BY ClientsStep, ClientsRest
<1>. QED  BY ClientsStart, <1>1, ClientsCover, PTL DEF VpnReportsSpec

-----------------------------------------------------------------------------
(* CloudSignals.                                                           *)

(* A condition that came about was said or is one the adapter does not     *)
(* look at.                                                                *)
Known == flagged \cup silent

(* Rules whose ports the adapter looks at all.                             *)
Near(r) == ~(r.hi >= r.lo + MostPorts)
NearAndRisky(s) == \E r \in s : Near(r) /\ Ports(r) \cap Risky # {}

(* What has to be known of a resource with settings s.                     *)
Owed(k, s) ==
    IF k = "group" THEN (GroupHeld(s) \cap {"public_ingress", "all_traffic"}) \cup When(NearAndRisky(s), "risky_port")
    ELSE Held(k, {s})

SignalsInv ==
    /\ kind \in Kind /\ flagged \cap silent = {} /\ said \subseteq Flag
    /\ state = {} \/ \E s \in SettingsOf(kind) : state = {s}
    /\ \A s \in state : Owed(kind, s) \subseteq Known
    /\ kind = "trail" /\ state = {} => "no_multi_region" \in Known
    /\ kind \in {"group", "snapshot", "instance", "database", "bucket"} => said \subseteq Held(kind, state)

(* A call leaves behind what it says, and says what it leaves, unless it   *)
(* was known before or the adapter does not look.                          *)
Looked == {"group", "snapshot", "instance", "database", "bucket"}
MakesKnown(k, before, c) ==
    /\ c.says \subseteq Flag /\ c.says \cap c.quiet = {}
    /\ Owed(k, c.to) \subseteq before \cup c.says \cup c.quiet
    /\ k \in Looked => c.says \subseteq Held(k, {c.to})

LEMMA GroupHolds ==
    ASSUME NEW k, NEW s, k = "group"
    PROVE  Held(k, {s}) = GroupHeld(s) /\ Findings(k, {s}) = GroupFinding(s)
BY DEF Held, Findings, RoleFinding, DatabaseFindings

LEMMA SnapshotHolds ==
    ASSUME NEW k, NEW s, k = "snapshot"
    PROVE  Held(k, {s}) = (When("all" \in s, "made_public") \cup When("account" \in s, "shared")) /\ Findings(k, {s}) = SnapshotFinding(s)
BY DEF Held, Findings, RoleFinding, DatabaseFindings

LEMMA InstanceHolds ==
    ASSUME NEW k, NEW s, k = "instance"
    PROVE  Held(k, {s}) = s \cap {"imdsv1"} /\ Findings(k, {s}) = InstanceFinding(s)
BY DEF Held, Findings, RoleFinding, DatabaseFindings

LEMMA KeyHolds ==
    ASSUME NEW k, NEW s, k = "key"
    PROVE  Held(k, {s}) = s \ {"enabled"} /\ Findings(k, {s}) = KeyFindings(s)
BY DEF Held, Findings, RoleFinding, DatabaseFindings

LEMMA RoleHolds ==
    ASSUME NEW k, NEW s, k = "role"
    PROVE  Held(k, {s}) = s /\ Findings(k, {s}) = s
BY DEF Held, Findings, RoleFinding, DatabaseFindings

LEMMA UserHolds ==
    ASSUME NEW k, NEW s, k = "user"
    PROVE  Held(k, {s}) = When("login" \in s /\ "mfa" \notin s, "no_mfa") /\ Findings(k, {s}) = UserFinding(s)
BY DEF Held, Findings, RoleFinding, DatabaseFindings

LEMMA TrailHolds ==
    ASSUME NEW k, NEW s, k = "trail"
    PROVE  Held(k, {s}) = TrailHeld(s) /\ Findings(k, {s}) = TrailFindings(s)
BY DEF Held, Findings, RoleFinding, DatabaseFindings

LEMMA DatabaseHolds ==
    ASSUME NEW k, NEW s, k = "database"
    PROVE  Held(k, {s}) = s /\ Findings(k, {s}) = s
BY DEF Held, Findings, RoleFinding, DatabaseFindings

LEMMA BucketHolds ==
    ASSUME NEW k, NEW s, k = "bucket"
    PROVE  Held(k, {s}) = s /\ Findings(k, {s}) = BucketFinding(s)
BY DEF Held, Findings, RoleFinding, DatabaseFindings

LEMMA HeldOfNone ==
    ASSUME NEW k
    PROVE  Held(k, {}) = IF k = "trail" THEN {"no_multi_region"} ELSE {}
BY DEF Held

LEMMA CallParts ==
    ASSUME NEW to, NEW says, NEW quiet
    PROVE  Call(to, says, quiet).to = to /\ Call(to, says, quiet).says = says /\ Call(to, says, quiet).quiet = quiet
BY DEF Call

LEMMA WhenIs ==
    ASSUME NEW p \in BOOLEAN, NEW x
    PROVE  When(p, x) \subseteq {x} /\ (x \in When(p, x) <=> p)
BY DEF When

LEMMA SnapshotTells ==
    ASSUME NEW s \in SettingsOf("snapshot"), NEW c \in CallsOn("snapshot", s)
    PROVE  MakesKnown("snapshot", Owed("snapshot", s), c)
<1>1. c \in ShareCalls(s)
  BY DEF CallsOn
<1>2. Owed("snapshot", s) = When("all" \in s, "made_public") \cup When("account" \in s, "shared")
      /\ Owed("snapshot", c.to) = Held("snapshot", {c.to})
      /\ Held("snapshot", {c.to}) = When("all" \in c.to, "made_public") \cup When("account" \in c.to, "shared")
  BY SnapshotHolds DEF Owed
<1>3. \/ c.to = s \cup {"all"} /\ c.says = {"made_public"} /\ c.quiet = {}
      \/ c.to = s \cup {"account"} /\ c.says = {"shared"} /\ c.quiet = {}
      \/ \E w \in s : c.to = s \ {w} /\ c.says = {} /\ c.quiet = {}
  <2>1. c = Call(s \cup {"all"}, {"made_public"}, {}) \/ c = Call(s \cup {"account"}, {"shared"}, {})
         \/ \E w \in s : c = Call(s \ {w}, {}, {})
    BY <1>1 DEF ShareCalls
  <2>. QED  BY <2>1 DEF Call
<1>. QED  BY <1>2, <1>3 DEF MakesKnown, When, Looked, Flag

LEMMA InstanceTells ==
    ASSUME NEW s \in SettingsOf("instance"), NEW c \in CallsOn("instance", s)
    PROVE  MakesKnown("instance", Owed("instance", s), c)
<1>1. c \in InstanceCalls(s)
  BY DEF CallsOn
<1>2. Owed("instance", s) = s \cap {"imdsv1"} /\ Owed("instance", c.to) = c.to \cap {"imdsv1"}
      /\ Held("instance", {c.to}) = c.to \cap {"imdsv1"}
  BY InstanceHolds DEF Owed
<1>3. \/ c.to = s \cup {"imdsv1"} /\ c.says = {"imdsv1"} /\ c.quiet = {}
      \/ c.to = s \cup {"imdsv1"} /\ c.says = {} /\ c.quiet = {"imdsv1"}
      \/ c.to \in {s \ {"imdsv1"}, s \cup {"running"}, s \ {"running"}} /\ c.says = {} /\ c.quiet = {}
  BY <1>1, CallParts DEF InstanceCalls
<1>. QED  BY <1>2, <1>3 DEF MakesKnown, Looked, Flag

LEMMA KeyTells ==
    ASSUME NEW s \in SettingsOf("key"), NEW c \in CallsOn("key", s)
    PROVE  MakesKnown("key", Owed("key", s), c)
<1>1. c \in KeyCalls(s)
  BY DEF CallsOn
<1>2. Owed("key", s) = s \ {"enabled"} /\ Owed("key", c.to) = c.to \ {"enabled"}
  BY KeyHolds DEF Owed
<1>3. \/ c.to = s \cup {"wildcard"} /\ c.says = {"wildcard"} /\ c.quiet = {}
      \/ c.to = s \cup {"no_rotation"} /\ c.says = {"no_rotation"} /\ c.quiet = {}
      \/ \E x \in s : c.to = s \ {x} /\ c.says = {} /\ c.quiet = {}
      \/ c.to = s \cup {"enabled"} /\ c.says = {} /\ c.quiet = {}
  <2>1. \/ c = Call(s \cup {"wildcard"}, {"wildcard"}, {}) \/ c = Call(s \cup {"no_rotation"}, {"no_rotation"}, {})
        \/ c = Call(s \cup {"enabled"}, {}, {}) \/ \E x \in s : c = Call(s \ {x}, {}, {})
    BY <1>1 DEF KeyCalls
  <2>. QED  BY <2>1 DEF Call
<1>. QED  BY <1>2, <1>3 DEF MakesKnown, Looked, Flag

LEMMA RoleTells ==
    ASSUME NEW s \in SettingsOf("role"), NEW c \in CallsOn("role", s)
    PROVE  MakesKnown("role", Owed("role", s), c)
<1>1. c \in RoleCalls(s)
  BY DEF CallsOn
<1>2. Owed("role", s) = s /\ Owed("role", c.to) = c.to
  BY RoleHolds DEF Owed
<1>3. /\ c.to = s \cup {"wildcard_trust"} \/ c.to = {}
      /\ c.says = {"wildcard_trust"} /\ c.quiet = {}
  BY <1>1, CallParts DEF RoleCalls
<1>. QED  BY <1>2, <1>3 DEF MakesKnown, Looked, Flag

LEMMA UserTells ==
    ASSUME NEW s \in SettingsOf("user"), NEW c \in CallsOn("user", s)
    PROVE  MakesKnown("user", Owed("user", s), c)
<1>1. c \in UserCalls(s)
  BY DEF CallsOn
<1>2. Owed("user", s) = When("login" \in s /\ "mfa" \notin s, "no_mfa")
      /\ Owed("user", c.to) = When("login" \in c.to /\ "mfa" \notin c.to, "no_mfa")
  BY UserHolds DEF Owed
<1>3. \/ c.to \in {s \cup {"login"}, s \ {"mfa"}} /\ c.says = {"no_mfa"} /\ c.quiet = {}
      \/ c.to \in {s \cup {"mfa"}, s \ {"login"}} /\ c.says = {} /\ c.quiet = {}
  BY <1>1, CallParts DEF UserCalls
<1>. QED  BY <1>2, <1>3 DEF MakesKnown, Looked, When, Flag

LEMMA TrailTells ==
    ASSUME NEW s \in SettingsOf("trail"), NEW c \in CallsOn("trail", s)
    PROVE  MakesKnown("trail", Owed("trail", s), c)
<1>1. c \in TrailCalls(s)
  BY DEF CallsOn
<1>2. Owed("trail", s) = TrailHeld(s) /\ Owed("trail", c.to) = TrailHeld(c.to)
  BY TrailHolds DEF Owed
<1>3. \/ c.to = s \ {"logging"} /\ c.says = {"not_logging", "no_multi_region"} /\ c.quiet = {}
      \/ c.to = s \cup {"logging"} /\ c.says = {} /\ c.quiet = {}
      \/ \E u \in SUBSET {"multi", "validated"} :
            c.to = (s \cap {"logging"}) \cup u /\ c.says = {"not_validated", "no_multi_region"} /\ c.quiet = {}
  <2>1. \/ c = Call(s \ {"logging"}, {"not_logging", "no_multi_region"}, {}) \/ c = Call(s \cup {"logging"}, {}, {})
        \/ \E u \in SUBSET {"multi", "validated"} :
              c = Call((s \cap {"logging"}) \cup u, {"not_validated", "no_multi_region"}, {})
    BY <1>1 DEF TrailCalls
  <2>. QED  BY <2>1 DEF Call
<1>. QED  BY <1>2, <1>3 DEF MakesKnown, Looked, When, TrailHeld, Flag

LEMMA DatabaseTells ==
    ASSUME NEW s \in SettingsOf("database"), NEW c \in CallsOn("database", s)
    PROVE  MakesKnown("database", Owed("database", s), c)
<1>1. c \in DatabaseCalls(s)
  BY DEF CallsOn
<1>2. Owed("database", s) = s /\ Owed("database", c.to) = c.to /\ Held("database", {c.to}) = c.to
  BY DatabaseHolds DEF Owed
<1>3. \E x \in Settings : \/ c.to = s \cup {x} /\ c.says = {x} /\ c.quiet = {}
                          \/ c.to = s \ {x} /\ c.says = {} /\ c.quiet = {}
  <2>1. \/ \E x \in Settings \ {"unencrypted"} : c = Call(s \cup {x}, {x}, {})
        \/ \E x \in Settings \ {"unencrypted"} : c = Call(s \ {x}, {}, {})
    BY <1>1 DEF DatabaseCalls
  <2>. QED  BY <2>1 DEF Call
<1>. QED  BY <1>2, <1>3 DEF MakesKnown, Looked, Flag

LEMMA BucketTells ==
    ASSUME NEW s \in SettingsOf("bucket"), NEW c \in CallsOn("bucket", s)
    PROVE  MakesKnown("bucket", Owed("bucket", s), c)
<1>1. c \in BucketCalls(s)
  BY DEF CallsOn
<1>2. Owed("bucket", s) = s /\ Owed("bucket", c.to) = c.to /\ Held("bucket", {c.to}) = c.to
  BY BucketHolds DEF Owed
<1>3. \/ \E x \in {"public_acl", "public_policy", "bpa_weakened"} : c.to = s \cup {x} /\ c.says = {x} /\ c.quiet = {}
      \/ \E x \in s : c.to = s \ {x} /\ c.says = {} /\ c.quiet = {}
  <2>1. \/ \E x \in {"public_acl", "public_policy", "bpa_weakened"} : c = Call(s \cup {x}, {x}, {})
        \/ \E x \in s : c = Call(s \ {x}, {}, {})
    BY <1>1 DEF BucketCalls
  <2>. QED  BY <2>1 DEF Call
<1>. QED  BY <1>2, <1>3 DEF MakesKnown, Looked, Flag

(* A rule that is near is looked at whole.                                 *)
LEMMA NearIsSeen ==
    ASSUME NEW r \in PublicRule, Near(r), Ports(r) \cap Risky # {}
    PROVE  "risky_port" \in IngressSignals(r)
<1>1. r.lo \in Int /\ r.hi \in Int
  BY SignalsAssumption DEF PublicRule
<1>2. PICK p \in Ports(r) : p \in Risky
  OBVIOUS
<1>3. p \in r.lo..r.hi
  BY <1>2 DEF Ports
<1>4. p < r.lo + MostPorts
  BY <1>1, <1>3, SignalsAssumption DEF Near
<1>5. Looks(r) \cap Risky # {}
  BY <1>2, <1>4 DEF Looks
<1>. QED  BY <1>5 DEF IngressSignals, When

LEMMA GroupTells ==
    ASSUME NEW s \in SettingsOf("group"), NEW c \in CallsOn("group", s)
    PROVE  MakesKnown("group", Owed("group", s), c)
<1>1. c \in GroupCalls(s)
  BY DEF CallsOn
<1>2. s \subseteq PublicRule
  BY DEF SettingsOf
<1>3. /\ Owed("group", s) = (GroupHeld(s) \cap {"public_ingress", "all_traffic"}) \cup When(NearAndRisky(s), "risky_port")
      /\ Owed("group", c.to) = (GroupHeld(c.to) \cap {"public_ingress", "all_traffic"}) \cup When(NearAndRisky(c.to), "risky_port")
      /\ Held("group", {c.to}) = GroupHeld(c.to)
  BY GroupHolds DEF Owed
<1>4. CASE \E r \in s : c = Call(s \ {r}, {}, {})
  <2>1. PICK r \in s : c.to = s \ {r} /\ c.says = {} /\ c.quiet = {}
    BY <1>4, CallParts
  <2>2. c.to \subseteq s
    BY <2>1
  <2>3. /\ GroupHeld(c.to) \cap {"public_ingress", "all_traffic"} \subseteq GroupHeld(s)
        /\ NearAndRisky(c.to) => NearAndRisky(s)
    BY <2>2 DEF GroupHeld, When, NearAndRisky
  <2>. QED  BY <1>3, <2>1, <2>3 DEF MakesKnown, When, Flag
<1>5. CASE \E r \in PublicRule : c = Call(s \cup {r}, IngressSignals(r), {})
  <2>1. PICK r \in PublicRule : c.to = s \cup {r} /\ c.says = IngressSignals(r) /\ c.quiet = {}
    BY <1>5, CallParts
  <2>2. c.says \subseteq {"public_ingress", "all_traffic", "risky_port"} /\ "public_ingress" \in c.says
    BY <2>1 DEF IngressSignals, When
  <2>3. c.says \subseteq GroupHeld(c.to)
    <3>1. Looks(r) \cap Risky # {} => Ports(r) \cap Risky # {}
      BY DEF Looks
    <3>. QED  BY <2>1, <3>1 DEF IngressSignals, GroupHeld, When
  <2>4. NearAndRisky(c.to) => NearAndRisky(s) \/ "risky_port" \in c.says
    BY <2>1, NearIsSeen DEF NearAndRisky
  <2>5. "all_traffic" \in GroupHeld(c.to) => "all_traffic" \in GroupHeld(s) \/ "all_traffic" \in c.says
    BY <2>1 DEF GroupHeld, IngressSignals, When
  <2>. QED  BY <1>3, <2>1, <2>2, <2>3, <2>4, <2>5, ZenonT(30) DEF MakesKnown, When, Flag, Looked
<1>. QED  BY <1>1, <1>4, <1>5 DEF GroupCalls

LEMMA OwedIsHeld ==
    ASSUME NEW k, NEW s
    PROVE  Owed(k, s) \subseteq Held(k, {s})
<1>1. NearAndRisky(s) => "risky_port" \in GroupHeld(s)
  <2>1. NearAndRisky(s) => \E r \in s : Ports(r) \cap Risky # {}
    BY DEF NearAndRisky
  <2>. QED  BY <2>1 DEF GroupHeld, When
<1>2. When(NearAndRisky(s), "risky_port") \subseteq GroupHeld(s)
  BY <1>1 DEF When
<1>3. k = "group" => Owed(k, s) \subseteq Held(k, {s})
  BY <1>2, GroupHolds DEF Owed
<1>. QED  BY <1>3 DEF Owed

LEMMA DatabaseBorn ==
    ASSUME NEW c \in DatabaseBirths
    PROVE  MakesKnown("database", {}, c) /\ c.to \in SettingsOf("database")
<1>1. Owed("database", c.to) = c.to /\ Held("database", {c.to}) = c.to /\ SettingsOf("database") = SUBSET Settings
  BY DatabaseHolds DEF Owed, SettingsOf
<1>2. Defaults \subseteq SUBSET Settings
  BY DEF Defaults, Settings
<1>3. CASE \E named \in SUBSET Settings, d \in Defaults : \E bad \in SUBSET named :
             c = Call(bad \cup (d \ named), bad, d \ named)
  <2>0. PICK named \in SUBSET Settings, d \in Defaults :
           \E bad \in SUBSET named : c = Call(bad \cup (d \ named), bad, d \ named)
    BY <1>3
  <2>1. PICK bad \in SUBSET named :
           c.to = bad \cup (d \ named) /\ c.says = bad /\ c.quiet = d \ named
    BY <2>0 DEF Call
  <2>. QED  BY <1>1, <1>2, <2>1 DEF MakesKnown, Flag
<1>4. CASE \E bad \in SUBSET Settings : c = Call(bad, {}, bad)
  <2>1. PICK bad \in SUBSET Settings : c.to = bad /\ c.says = {} /\ c.quiet = bad
    BY <1>4 DEF Call
  <2>. QED  BY <1>1, <2>1 DEF MakesKnown
<1>5. \/ \E named \in SUBSET Settings : c \in RequestBirths(named)
      \/ \E bad \in SUBSET Settings : c = Call(bad, {}, bad)
  <2>1. c \in RestoreBirths => \E bad \in SUBSET Settings : c = Call(bad, {}, bad)
    BY DEF RestoreBirths
  <2>2. c \in UNION {RequestBirths(named) : named \in SUBSET Settings} \/ c \in RestoreBirths
    BY DEF DatabaseBirths
  <2>. QED  BY <2>1, <2>2
<1>6. \A named : c \in RequestBirths(named) =>
                  \E d \in Defaults : \E bad \in SUBSET named : c = Call(bad \cup (d \ named), bad, d \ named)
  BY DEF RequestBirths
<1>. QED  BY <1>3, <1>4, <1>5, <1>6

LEMMA NothingOwed ==
    ASSUME NEW k \in {"group", "snapshot", "user", "bucket"}
    PROVE  Owed(k, {}) = {} /\ {} \in SettingsOf(k)
<1>1. Cardinality({}) <= MaxRules
  BY FS_EmptySet, SignalsAssumption
<1>2. {} \in SettingsOf(k)
  BY <1>1 DEF SettingsOf
<1>3. GroupHeld({}) = {} /\ When(NearAndRisky({}), "risky_port") = {}
  BY DEF GroupHeld, NearAndRisky, When
<1>4. k # "group" => Held(k, {{}}) = {}
  <2>1. k = "snapshot" => Held(k, {{}}) = {}
    BY SnapshotHolds DEF When
  <2>2. k = "user" => Held(k, {{}}) = {}
    BY UserHolds DEF When
  <2>3. k = "bucket" => Held(k, {{}}) = {}
    BY BucketHolds
  <2>. QED  BY <2>1, <2>2, <2>3
<1>. QED  BY <1>2, <1>3, <1>4 DEF Owed

LEMMA BirthTells ==
    ASSUME NEW k \in Kind, NEW c \in Births(k)
    PROVE  MakesKnown(k, {}, c) /\ c.to \in SettingsOf(k)
<1>1. CASE k = "database"
  BY <1>1, DatabaseBorn DEF Births
<1>2. CASE k \in {"instance", "key", "role", "trail"}
  <2>1. PICK s \in SettingsOf(k) : c = Call(s, {}, Held(k, {s}))
    BY <1>2 DEF Births
  <2>2. c.to = s /\ c.says = {} /\ c.quiet = Held(k, {s})
    BY <2>1 DEF Call
  <2>. QED  BY <2>2, OwedIsHeld DEF MakesKnown
<1>3. CASE k \in {"group", "snapshot", "user", "bucket"}
  <2>1. c = Call({}, {}, {})
    BY <1>3 DEF Births
  <2>2. c.to = {} /\ c.says = {} /\ c.quiet = {}
    BY <2>1 DEF Call
  <2>. QED  BY <1>3, <2>2, NothingOwed DEF MakesKnown
<1>. QED  BY <1>1, <1>2, <1>3 DEF Kind

LEMMA CallTells ==
    ASSUME NEW k \in Kind, NEW s \in SettingsOf(k), NEW c \in CallsOn(k, s)
    PROVE  MakesKnown(k, Owed(k, s), c)
BY GroupTells, SnapshotTells, InstanceTells, KeyTells, RoleTells, UserTells, TrailTells, DatabaseTells, BucketTells
   DEF Kind

(* What becomes known: what was, what is said, and what is not looked at.  *)
LEMMA BecomesKnown ==
    ASSUME NEW is, NEW says, NEW quiet, says \cap quiet = {}, flagged \cap silent = {},
           Becomes(is, says, quiet \ flagged)
    PROVE  /\ flagged' \cap silent' = {} /\ state' = is /\ said' = says /\ kind' = kind
           /\ \A x \in Held(kind, is) : x \in Known \cup says \cup quiet => x \in Known'
BY DEF Becomes, Known

LEMMA SignalsStart == SignalsInit => SignalsInv
BY HeldOfNone DEF SignalsInit, SignalsInv, Known

LEMMA MadeKnown == SignalsInv /\ Made => SignalsInv'
<1>. SUFFICES ASSUME SignalsInv, Made PROVE SignalsInv'
  OBVIOUS
<1>1. PICK c \in Births(kind) : Becomes({c.to}, c.says, c.quiet \ flagged)
  BY DEF Made
<1>2. MakesKnown(kind, {}, c) /\ c.to \in SettingsOf(kind)
  BY BirthTells DEF SignalsInv
<1>3. /\ flagged' \cap silent' = {} /\ state' = {c.to} /\ said' = c.says /\ kind' = kind
      /\ \A x \in Held(kind, {c.to}) : x \in Known \cup c.says \cup c.quiet => x \in Known'
  BY <1>1, <1>2, BecomesKnown DEF SignalsInv, MakesKnown
<1>4. Owed(kind, c.to) \subseteq Known'
  BY <1>2, <1>3, OwedIsHeld DEF MakesKnown
<1>5. \A s \in state' : Owed(kind', s) \subseteq Known'
  BY <1>3, <1>4
<1>. QED  BY <1>2, <1>3, <1>5 DEF SignalsInv, MakesKnown, Looked

LEMMA ChangedKnown == SignalsInv /\ Changed => SignalsInv'
<1>. SUFFICES ASSUME SignalsInv, Changed PROVE SignalsInv'
  OBVIOUS
<1>1. PICK s \in state : \E c \in CallsOn(kind, s) :
               c.to \in SettingsOf(kind) /\ Becomes({c.to}, c.says, c.quiet \ flagged)
  BY DEF Changed
<1>2. PICK c \in CallsOn(kind, s) : c.to \in SettingsOf(kind) /\ Becomes({c.to}, c.says, c.quiet \ flagged)
  BY <1>1
<1>3. MakesKnown(kind, Owed(kind, s), c) /\ Owed(kind, s) \subseteq Known
  BY CallTells DEF SignalsInv
<1>4. /\ flagged' \cap silent' = {} /\ state' = {c.to} /\ said' = c.says /\ kind' = kind
      /\ \A x \in Held(kind, {c.to}) : x \in Known \cup c.says \cup c.quiet => x \in Known'
  BY <1>2, <1>3, BecomesKnown DEF SignalsInv, MakesKnown
<1>5. Owed(kind, c.to) \subseteq Known'
  BY <1>3, <1>4, OwedIsHeld DEF MakesKnown
<1>6. \A t \in state' : Owed(kind', t) \subseteq Known'
  BY <1>4, <1>5
<1>. QED  BY <1>2, <1>3, <1>4, <1>6 DEF SignalsInv, MakesKnown, Looked

LEMMA RemovedKnown == SignalsInv /\ Removed => SignalsInv'
<1>. SUFFICES ASSUME SignalsInv, Removed PROVE SignalsInv'
  OBVIOUS
<1>. DEFINE says == {"no_multi_region"} \cap Held(kind, {})
<1>1. Becomes({}, says, {} \ flagged)
  <2>1. {} \ flagged = {}
    OBVIOUS
  <2>. QED  BY <2>1 DEF Removed
<1>2. /\ flagged' \cap silent' = {} /\ state' = {} /\ said' = says /\ kind' = kind
      /\ \A x \in Held(kind, {}) : x \in Known \cup says \cup {} => x \in Known'
  <2>1. says \cap {} = {} /\ flagged \cap silent = {}
    BY DEF SignalsInv
  <2>. HIDE DEF says
  <2>. QED  BY <1>1, <2>1, BecomesKnown
<1>3. says \subseteq Flag /\ says \subseteq Held(kind, {}) /\ (kind = "trail" => "no_multi_region" \in Known')
  BY <1>2, HeldOfNone DEF Flag
<1>. QED  BY <1>2, <1>3 DEF SignalsInv

LEMMA SignalsRest == SignalsInv /\ UNCHANGED signalVars => SignalsInv'
BY DEF SignalsInv, signalVars, Known

LEMMA SignalsStep == SignalsInv /\ SignalsNext => SignalsInv'
BY MadeKnown, ChangedKnown, RemovedKnown DEF SignalsNext

(* What a scan finds of a resource, by what is owed of it.                 *)
LEMMA FindingsOfNone ==
    ASSUME NEW k
    PROVE  Findings(k, {}) = IF k = "trail" THEN {"no_multi_region"} ELSE {}
BY DEF Findings

LEMMA FindingsKnown ==
    ASSUME SignalsInv, NEW s \in state, kind # "group", NEW f \in Findings(kind, state)
    PROVE  /\ f \notin {"risky_port", "non_web"} /\ (f # "public_bucket" => f \in Known)
           /\ f = "public_bucket" => "bpa_weakened" \in Known /\ {"public_acl", "public_policy"} \cap Known # {}
<1>1. state = {s} /\ s \in SettingsOf(kind) /\ Held(kind, {s}) \subseteq Known
  BY DEF SignalsInv, Owed
<1>2. CASE kind = "bucket"
  <2>1. s \subseteq Known /\ f \in BucketFinding(s)
    BY <1>1, <1>2, BucketHolds
  <2>. QED  BY <2>1 DEF BucketFinding, When
<1>3. CASE kind # "bucket"
  <2>1. f \in Held(kind, {s})
    <3>1. CASE kind = "snapshot"
      BY <3>1, <1>1, SnapshotHolds, ZenonT(30) DEF SnapshotFinding, When
    <3>2. CASE kind = "instance"
      BY <3>2, <1>1, InstanceHolds DEF InstanceFinding
    <3>3. CASE kind = "key"
      BY <3>3, <1>1, KeyHolds DEF KeyFindings
    <3>4. CASE kind \in {"role", "database"}
      BY <3>4, <1>1, RoleHolds, DatabaseHolds
    <3>5. CASE kind = "user"
      <4>1. f \in UserFinding(s) /\ Held(kind, {s}) = When("login" \in s /\ "mfa" \notin s, "no_mfa")
        BY <3>5, <1>1, UserHolds
      <4>. QED  BY <4>1 DEF UserFinding
    <3>6. CASE kind = "trail"
      <4>1. f \in TrailFindings(s) /\ Held(kind, {s}) = TrailHeld(s)
        BY <3>6, <1>1, TrailHolds
      <4>. QED  BY <4>1 DEF TrailFindings
    <3>. QED  BY <1>3, <3>1, <3>2, <3>3, <3>4, <3>5, <3>6 DEF SignalsInv, Kind
  <2>2. f \notin {"risky_port", "non_web", "public_bucket"}
    <3>1. CASE kind = "snapshot"
      BY <3>1, <1>1, <2>1, SnapshotHolds DEF When
    <3>2. CASE kind = "instance"
      BY <3>2, <1>1, <2>1, InstanceHolds
    <3>3. CASE kind \in {"key", "role", "database"}
      <4>1. f \in s
        <5>1. kind = "key" => f \in s
          BY <2>1, KeyHolds
        <5>2. kind = "role" => f \in s
          BY <2>1, RoleHolds
        <5>3. kind = "database" => f \in s
          BY <2>1, DatabaseHolds
        <5>. QED  BY <3>3, <5>1, <5>2, <5>3
      <4>2. kind = "key" => f \in {"wildcard", "no_rotation", "enabled"}
        BY <4>1, <1>1 DEF SettingsOf
      <4>3. kind = "role" => f \in {"wildcard_trust"}
        BY <4>1, <1>1 DEF SettingsOf
      <4>4. kind = "database" => f \in Settings
        BY <4>1, <1>1 DEF SettingsOf
      <4>. QED  BY <3>3, <4>2, <4>3, <4>4 DEF Settings
    <3>4. CASE kind = "user"
      <4>1. f \in When("login" \in s /\ "mfa" \notin s, "no_mfa")
        BY <3>4, <2>1, UserHolds
      <4>. QED  BY <4>1 DEF When
    <3>5. CASE kind = "trail"
      BY <3>5, <1>1, <2>1, TrailHolds DEF When, TrailHeld
    <3>. QED  BY <1>3, <3>1, <3>2, <3>3, <3>4, <3>5 DEF SignalsInv, Kind
  <2>. QED  BY <1>1, <2>1, <2>2
<1>. QED  BY <1>2, <1>3

LEMMA GroupFindingsKnown ==
    ASSUME SignalsInv, NEW s \in state, kind = "group", NEW f \in Findings(kind, state)
    PROVE  /\ f \in {"all_traffic", "risky_port", "non_web"} /\ "public_ingress" \in Known
           /\ f = "all_traffic" => "all_traffic" \in Known
           /\ f = "risky_port" => "risky_port" \in Known \/ ~NearAndRisky(s)
<1>1. /\ state = {s} /\ f \in GroupFinding(s)
      /\ GroupHeld(s) \cap {"public_ingress", "all_traffic"} \subseteq Known
      /\ NearAndRisky(s) => "risky_port" \in Known
  BY GroupHolds DEF SignalsInv, Owed, When
<1>2. f \in {"all_traffic", "risky_port", "non_web"} /\ f \in GroupHeld(s)
  BY <1>1 DEF GroupFinding
<1>3. s # {}
  BY <1>2 DEF GroupHeld, When
<1>4. "public_ingress" \in GroupHeld(s)
  BY <1>3 DEF GroupHeld, When
<1>. QED  BY <1>1, <1>2, <1>4

LEMMA SignalsCover == SignalsInv => SignalsTypeOK /\ ChangesSignalled
<1>. SUFFICES ASSUME SignalsInv PROVE SignalsTypeOK /\ ChangesSignalled
  OBVIOUS
<1>1. SignalsTypeOK
  <2>1. CASE state = {}
    BY <2>1, FS_EmptySet DEF SignalsInv, SignalsTypeOK
  <2>2. ASSUME NEW s \in SettingsOf(kind), state = {s}
        PROVE  SignalsTypeOK
    <3>1. Cardinality({s}) = 1
      BY FS_Singleton
    <3>. QED  BY <2>2, <3>1 DEF SignalsInv, SignalsTypeOK
  <2>. QED  BY <2>1, <2>2 DEF SignalsInv
<1>. DEFINE far == \A s \in state : \A r \in s : Ports(r) \cap Risky # {} => r.hi >= r.lo + MostPorts
<1>2. ASSUME NEW f \in Findings(kind, state)
      PROVE  CASE f = "risky_port"    -> f \in flagged \cup silent \/ (far /\ "public_ingress" \in flagged \cup silent)
               [] f = "non_web"       -> "public_ingress" \in flagged \cup silent
               [] f = "public_bucket" -> "bpa_weakened" \in flagged \cup silent
                                         /\ {"public_acl", "public_policy"} \cap (flagged \cup silent) # {}
               [] OTHER               -> f \in flagged \cup silent
  <2>1. CASE state = {}
    <3>1. kind = "trail" /\ f = "no_multi_region" /\ f \in Known
      BY <2>1, FindingsOfNone DEF SignalsInv
    <3>. QED  BY <3>1 DEF Known
  <2>2. ASSUME NEW s \in state, kind # "group"
        PROVE  /\ f \notin {"risky_port", "non_web"} /\ (f # "public_bucket" => f \in Known)
               /\ f = "public_bucket" => "bpa_weakened" \in Known /\ {"public_acl", "public_policy"} \cap Known # {}
    BY <2>2, FindingsKnown
  <2>3. CASE state # {} /\ kind # "group"
    BY <2>2, <2>3 DEF Known
  <2>4. CASE state # {} /\ kind = "group"
    <3>1. PICK s \in state : state = {s}
      BY <2>4 DEF SignalsInv
    <3>2. /\ f \in {"all_traffic", "risky_port", "non_web"} /\ "public_ingress" \in Known
          /\ f = "all_traffic" => "all_traffic" \in Known
          /\ f = "risky_port" => "risky_port" \in Known \/ ~NearAndRisky(s)
      BY <2>4, GroupFindingsKnown
    <3>3. ~NearAndRisky(s) => far
      BY <3>1 DEF NearAndRisky, Near
    <3>. QED  BY <3>2, <3>3 DEF Known
  <2>. QED  BY <2>1, <2>3, <2>4
<1>. QED  BY <1>1, <1>2 DEF SignalsInv, ChangesSignalled

(* What a posture scan finds of an AWS resource was told by the event of a *)
(* call since the resource was last in order, but for what the adapter     *)
(* does not look at (modules/aws_cloudtrail.py).                           *)
THEOREM SignalsHold == SignalsSpec => [](SignalsTypeOK /\ ChangesSignalled)
<1>1. SignalsInv /\ [SignalsNext]_signalVars => SignalsInv'
  BY SignalsStep, SignalsRest
<1>. QED  BY SignalsStart, <1>1, SignalsCover, PTL DEF SignalsSpec

-----------------------------------------------------------------------------
(* BucketDrift.                                                            *)

BlockedNow(b) == IF bucket[b].blocked THEN "on" ELSE "off"
SweepTypes == [stage : {"idle", "reading", "storing", "dropping"}, account : Account \cup {"none"},
               names : SUBSET Bucket, todo : SUBSET Bucket,
               blocked : [Bucket -> {"unread", "on", "off"}],
               report : [Bucket -> BucketSnapshot], of : SUBSET Bucket,
               prev : BucketSnapshot, derived : SUBSET Bucket]

(* Where a scan is, by itself.                                             *)
SweepInPlace(s) ==
    /\ InStage(s, "idle") => outdated[s] = {}
    /\ \A b \in Bucket : sweep[s].blocked[b] # "unread" => InStage(s, "reading") /\ b \in sweep[s].todo
    /\ ~InStage(s, "storing") => sweep[s].of = {}
    /\ InStage(s, "idle") \/ InStage(s, "reading") => sweep[s].derived = {}
    /\ InStage(s, "reading") \/ InStage(s, "storing") => sweep[s].todo \subseteq sweep[s].names
    /\ InStage(s, "storing") =>
           /\ sweep[s].of \subseteq sweep[s].todo
           /\ sweep[s].of # {} => sweep[s].derived = {}
           /\ sweep[s].derived \cap sweep[s].todo = {}
           /\ \A x, y \in sweep[s].of \cup sweep[s].derived : x = y
    /\ InStage(s, "dropping") =>
           \A b \in sweep[s].todo : AccountOf[b] = sweep[s].account /\ b \notin sweep[s].names

(* What a scan knows of a bucket that did not change since it was listed.  *)
Knows(s, b) ==
    b \notin outdated[s] =>
        /\ ~InStage(s, "idle") /\ b \in sweep[s].names => bucket[b].there
        /\ ~InStage(s, "idle") /\ b \notin sweep[s].names /\ AccountOf[b] = sweep[s].account => ~bucket[b].there
        /\ sweep[s].blocked[b] # "unread" => sweep[s].blocked[b] = BlockedNow(b)
        /\ InStage(s, "reading") /\ b \in sweep[s].names /\ b \notin sweep[s].todo =>
               RowTells(sweep[s].report[b], bucket[b])
        /\ InStage(s, "storing") /\ b \in sweep[s].todo => RowTells(sweep[s].report[b], bucket[b])

(* What was told of a bucket adds up to its row.                           *)
BucketAddsUp(row, tally, off) ==
    /\ tally.there = row.there
    /\ row.there => /\ tally.public = row.public /\ tally.bare = (row.encryption = "none")
                    /\ off => tally.off = Off(row.versioning)

(* What a scan has in hand of a bucket that no other scan met.             *)
HandInOrder(s, b) ==
    /\ b \in sweep[s].of =>
           /\ sweep[s].prev = bucketRow[b]
           /\ BucketAddsUp(bucketRow[b], alert[b], b \notin unread)
    /\ InStage(s, "storing") /\ b \in sweep[s].derived =>
           BucketAddsUp(bucketRow[b], Says(alert[b], sweep[s].prev, sweep[s].report[b]), b \notin unread)
    /\ InStage(s, "dropping") /\ b \in sweep[s].derived => bucketRow[b] = NoRecord

AlertInOrder(b) ==
    b \notin tangled =>
        /\ \A s, q \in Sweep : InHand(s, b) /\ InHand(q, b) => s = q
        /\ \A s \in Sweep : HandInOrder(s, b)
        /\ (\A s \in Sweep : ~InHand(s, b)) => BucketAddsUp(bucketRow[b], alert[b], b \notin unread)

ReportsThere(s) ==
    /\ InStage(s, "reading") => \A b \in sweep[s].names \ sweep[s].todo : sweep[s].report[b].there
    /\ InStage(s, "storing") => \A b \in sweep[s].todo : sweep[s].report[b].there

SweepsInPlace == \A s \in Sweep : SweepInPlace(s) /\ ReportsThere(s)
SweepsKnow    == \A s \in Sweep, b \in Bucket : Knows(s, b)
RowsTell      == \A b \in Bucket : b \notin unclear => RowTells(bucketRow[b], bucket[b])
AlertsInOrder ==
    /\ \A b \in Bucket : AlertInOrder(b)
    /\ \A b \in Bucket : IF b \in unread THEN bucketRow[b].versioning # "Enabled"
                       ELSE bucketRow[b].versioning # "unknown"

BucketTypes ==
    /\ bucket \in [Bucket -> Config] /\ bucketRow \in [Bucket -> BucketSnapshot] /\ alert \in [Bucket -> Alert]
    /\ sweep \in [Sweep -> SweepTypes]
    /\ outdated \in [Sweep -> SUBSET Bucket]
    /\ unclear \subseteq Bucket /\ tangled \subseteq Bucket /\ unread \subseteq Bucket
    /\ stirs \in 0..MaxStirs /\ snags \in 0..MaxSnags

BucketInv == BucketTypes /\ SweepsInPlace /\ SweepsKnow /\ RowsTell /\ AlertsInOrder

ScanSteps(s) ==
    \/ \E a \in Account : ListsBuckets(s, a)
    \/ \E b \in Bucket :
           \/ ReadsBlock(s, b) \/ ReadsRest(s, b) \/ Unexamined(s, b)
           \/ LooksAtRow(s, b) \/ StoresRow(s, b) \/ TellsOfBucket(s, b) \/ SkipsBucket(s, b)
           \/ DropsRow(s, b) \/ TellsGone(s, b)
    \/ ShipsReport(s) \/ Completes(s) \/ SweepEnds(s) \/ SweepBreaks(s)

LEMMA BucketSteps ==
    ASSUME BucketNext
    PROVE  (\E b \in Bucket : BucketChanges(b)) \/ \E s \in Sweep : ScanSteps(s)
BY DEF BucketNext, ScanSteps

(* Every change of a bucket is a stir of it to another configuration.      *)
LEMMA ChangesAreStirs ==
    ASSUME BucketTypes, NEW b \in Bucket, BucketChanges(b)
    PROVE  \E c \in Config : Stir(b, c)
<1>. DEFINE was == bucket[b]
<1>0. was \in Config
  BY DEF BucketTypes
<1>1. NoBucket \in Config /\ NewBucket \in Config
  BY DEF NoBucket, NewBucket, Config, Versioning
<1>2. /\ \A x \in BOOLEAN : /\ [was EXCEPT !.blocked = x] \in Config
                            /\ [was EXCEPT !.granted = x] \in Config
                            /\ [was EXCEPT !.encrypted = x] \in Config
      /\ \A v \in {"Enabled", "Suspended"} : [was EXCEPT !.versioning = v] \in Config
  BY <1>0 DEF Config, Versioning
<1>. QED  BY <1>1, <1>2 DEF BucketChanges

LEMMA StirTypes ==
    ASSUME BucketTypes, NEW b \in Bucket, NEW c \in Config, Stir(b, c)
    PROVE  BucketTypes'
BY BucketAssumption DEF BucketTypes, Stir

LEMMA EmptySweep == NoSweep \in SweepTypes /\ NoRecord \in BucketSnapshot
BY DEF NoSweep, SweepTypes, NoRecord, BucketSnapshot, Versioning

(* A scan that becomes another one leaves the others what they are.        *)
LEMMA SweepBecomes ==
    ASSUME BucketTypes, NEW s \in Sweep, NEW to \in SweepTypes, sweep' = [sweep EXCEPT ![s] = to]
    PROVE  /\ sweep' \in [Sweep -> SweepTypes] /\ sweep'[s] = to
           /\ \A q \in Sweep \ {s} : sweep'[q] = sweep[q]
BY DEF BucketTypes

LEMMA ReportFilled ==
    ASSUME BucketTypes, NEW s \in Sweep, NEW b \in Bucket, NEW new \in BucketSnapshot,
           sweep' = [sweep EXCEPT ![s].todo = @ \ {b}, ![s].blocked[b] = "unread", ![s].report[b] = new]
    PROVE  sweep' \in [Sweep -> SweepTypes]
<1>. DEFINE was == sweep[s]
            to == [was EXCEPT !.todo = was.todo \ {b}, !.blocked = [was.blocked EXCEPT ![b] = "unread"],
                              !.report = [was.report EXCEPT ![b] = new]]
<1>0. was \in SweepTypes
  BY DEF BucketTypes
<1>1. to \in SweepTypes
  BY <1>0 DEF SweepTypes
<1>2. sweep' = [sweep EXCEPT ![s] = to]
  BY <1>0 DEF BucketTypes, SweepTypes
<1>. QED  BY <1>1, <1>2 DEF BucketTypes

LEMMA CallFailsTypes ==
    ASSUME BucketTypes, NEW s \in Sweep, NEW b \in Bucket, CallFails(s, b) \/ Answers
    PROVE  outdated' \in [Sweep -> SUBSET Bucket] /\ snags' \in 0..MaxSnags
BY BucketAssumption DEF BucketTypes, CallFails, Answers

LEMMA ScanTypes ==
    ASSUME BucketTypes, NEW s \in Sweep, ScanSteps(s)
    PROVE  BucketTypes'
<1>. DEFINE was == sweep[s]
<1>0. was \in SweepTypes
  BY DEF BucketTypes
<1>1. ASSUME NEW a \in Account, ListsBuckets(s, a) PROVE BucketTypes'
  BY <1>1, EmptySweep DEF BucketTypes, ListsBuckets, SweepTypes, NoSweep
<1>2. ASSUME NEW b \in Bucket, ReadsBlock(s, b) PROVE BucketTypes'
  <2>1. outdated' \in [Sweep -> SUBSET Bucket] /\ snags' \in 0..MaxSnags
    BY <1>2, CallFailsTypes DEF ReadsBlock
  <2>2. sweep' \in [Sweep -> SweepTypes]
    <3>1. PICK as \in {"on", "off"} : sweep' = [sweep EXCEPT ![s].blocked[b] = as]
      BY <1>2 DEF ReadsBlock
    <3>. QED  BY <1>0, <3>1 DEF BucketTypes, SweepTypes
  <2>. QED  BY <1>2, <2>1, <2>2 DEF BucketTypes, ReadsBlock
<1>3. ASSUME NEW b \in Bucket, ReadsRest(s, b) PROVE BucketTypes'
  <2>1. PICK granted \in BOOLEAN, enc \in {"none", "set"}, ver \in Versioning :
            Examined(s, b, granted, enc, ver) /\ (CallFails(s, b) \/ Answers)
    <3>1. bucket[b] \in Config
      BY DEF BucketTypes
    <3>. QED  BY <1>3, <3>1 DEF ReadsRest, Config, Versioning, EncryptionOf
  <2>2. outdated' \in [Sweep -> SUBSET Bucket] /\ snags' \in 0..MaxSnags
    BY <2>1, CallFailsTypes
  <2>. DEFINE new == [there |-> TRUE, public |-> IsPublic(sweep[s].blocked[b] = "on", granted),
                      encryption |-> enc, versioning |-> ver]
  <2>3. IsPublic(sweep[s].blocked[b] = "on", granted) \in BOOLEAN
    BY DEF IsPublic
  <2>4. new \in BucketSnapshot
    BY <2>3 DEF BucketSnapshot, Versioning
  <2>5. sweep' = [sweep EXCEPT ![s].todo = @ \ {b}, ![s].blocked[b] = "unread", ![s].report[b] = new]
    BY <2>1 DEF Examined
  <2>. HIDE DEF new
  <2>6. sweep' \in [Sweep -> SweepTypes]
    BY <2>4, <2>5, ReportFilled
  <2>. QED  BY <2>1, <2>2, <2>6 DEF BucketTypes, Examined
<1>4. ASSUME NEW b \in Bucket, Unexamined(s, b) PROVE BucketTypes'
  <2>2. outdated' \in [Sweep -> SUBSET Bucket] /\ snags' \in 0..MaxSnags
    BY <1>4, CallFailsTypes DEF Unexamined
  <2>. DEFINE new == [there |-> TRUE, public |-> FALSE, encryption |-> "unknown", versioning |-> "unknown"]
  <2>4. new \in BucketSnapshot
    BY DEF BucketSnapshot, Versioning
  <2>5. sweep' = [sweep EXCEPT ![s].todo = @ \ {b}, ![s].blocked[b] = "unread", ![s].report[b] = new]
    BY <1>4 DEF Unexamined
  <2>. HIDE DEF new
  <2>6. sweep' \in [Sweep -> SweepTypes]
    BY <2>4, <2>5, ReportFilled
  <2>. QED  BY <1>4, <2>2, <2>6 DEF BucketTypes, Unexamined
<1>5. ASSUME NEW b \in Bucket, LooksAtRow(s, b) PROVE BucketTypes'
  <2>1. bucketRow[b] \in BucketSnapshot
    BY DEF BucketTypes
  <2>2. sweep' \in [Sweep -> SweepTypes]
    BY <1>0, <1>5, <2>1, ZenonT(30) DEF BucketTypes, LooksAtRow, SweepTypes
  <2>3. tangled' \subseteq Bucket
    BY <1>5 DEF BucketTypes, LooksAtRow
  <2>. QED  BY <1>5, <2>2, <2>3 DEF BucketTypes, LooksAtRow
<1>6. ASSUME NEW b \in Bucket, StoresRow(s, b) PROVE BucketTypes'
  <2>1. sweep' \in [Sweep -> SweepTypes]
    BY <1>0, <1>6, ZenonT(30) DEF BucketTypes, StoresRow, SweepTypes
  <2>2. bucketRow' \in [Bucket -> BucketSnapshot]
    BY <1>0, <1>6 DEF BucketTypes, StoresRow, BucketUpserted, SweepTypes
  <2>3. unclear' \subseteq Bucket
    BY <1>6 DEF BucketTypes, StoresRow, Judged
  <2>4. unread' \subseteq Bucket
    BY <1>6 DEF BucketTypes, StoresRow
  <2>. QED  BY <1>6, <2>1, <2>2, <2>3, <2>4 DEF BucketTypes, StoresRow
<1>7. ASSUME NEW b \in Bucket, TellsOfBucket(s, b) PROVE BucketTypes'
  <2>1. sweep' \in [Sweep -> SweepTypes]
    BY <1>0, <1>7, EmptySweep DEF BucketTypes, TellsOfBucket, SweepTypes
  <2>. DEFINE new == Says(alert[b], sweep[s].prev, sweep[s].report[b])
  <2>2. new \in Alert
    <3>1. alert[b] \in Alert /\ sweep[s].prev \in BucketSnapshot /\ sweep[s].report[b] \in BucketSnapshot
      BY <1>0 DEF BucketTypes, SweepTypes
    <3>2. new.there = TRUE /\ DOMAIN new = {"there", "public", "bare", "off"}
      BY DEF Says
    <3>3. new.public \in BOOLEAN
      BY <3>1 DEF Says, Alert, BucketSnapshot
    <3>4. new.bare \in BOOLEAN
      <4>1. \/ new.bare = (sweep[s].report[b].encryption = "none")
            \/ new.bare = alert[b].bare
        BY DEF Says
      <4>2. (sweep[s].report[b].encryption = "none") \in BOOLEAN
        OBVIOUS
      <4>3. alert[b].bare \in BOOLEAN
        BY <3>1 DEF Alert
      <4>. QED  BY <4>1, <4>2, <4>3, Zenon
    <3>5. new.off \in BOOLEAN
      <4>1. \/ new.off = Off(sweep[s].report[b].versioning)
            \/ new.off = alert[b].off
            \/ new.off = TRUE
            \/ new.off = FALSE
        BY DEF Says
      <4>2. Off(sweep[s].report[b].versioning) \in BOOLEAN
        BY DEF Off
      <4>3. alert[b].off \in BOOLEAN
        BY <3>1 DEF Alert
      <4>. QED  BY <4>1, <4>2, <4>3, Zenon
    <3>6. new = [there |-> new.there, public |-> new.public, bare |-> new.bare, off |-> new.off]
      BY DEF Says
    <3>. HIDE DEF new
    <3>. QED  BY <3>2, <3>3, <3>4, <3>5, <3>6 DEF Alert
  <2>3. alert' = [alert EXCEPT ![b] = new]
    BY <1>7 DEF TellsOfBucket
  <2>. HIDE DEF new
  <2>. QED  BY <1>7, <2>1, <2>2, <2>3 DEF BucketTypes, TellsOfBucket
<1>8. ASSUME NEW b \in Bucket, SkipsBucket(s, b) PROVE BucketTypes'
  <2>1. sweep' \in [Sweep -> SweepTypes]
    BY <1>0, <1>8 DEF BucketTypes, SkipsBucket, SweepTypes
  <2>2. snags' \in 0..MaxSnags
    BY <1>8, BucketAssumption DEF BucketTypes, SkipsBucket
  <2>. QED  BY <1>8, <2>1, <2>2 DEF BucketTypes, SkipsBucket
<1>9. ASSUME NEW b \in Bucket, DropsRow(s, b) PROVE BucketTypes'
  <2>1. sweep' \in [Sweep -> SweepTypes]
    BY <1>0, <1>9, ZenonT(30) DEF BucketTypes, DropsRow, SweepTypes
  <2>2. bucketRow' \in [Bucket -> BucketSnapshot]
    BY <1>9, EmptySweep DEF BucketTypes, DropsRow
  <2>3. unclear' \subseteq Bucket
    BY <1>9 DEF BucketTypes, DropsRow, Judged
  <2>4. tangled' \subseteq Bucket
    BY <1>9 DEF BucketTypes, DropsRow
  <2>. QED  BY <1>9, <2>1, <2>2, <2>3, <2>4 DEF BucketTypes, DropsRow
<1>10. ASSUME NEW b \in Bucket, TellsGone(s, b) PROVE BucketTypes'
  <2>1. sweep' \in [Sweep -> SweepTypes]
    BY <1>0, <1>10 DEF BucketTypes, TellsGone, SweepTypes
  <2>2. alert' \in [Bucket -> Alert]
    BY <1>10 DEF BucketTypes, TellsGone, Silent, Alert
  <2>. QED  BY <1>10, <2>1, <2>2 DEF BucketTypes, TellsGone
<1>11. ASSUME ShipsReport(s) PROVE BucketTypes'
  <2>1. sweep' \in [Sweep -> SweepTypes]
    BY <1>0, <1>11 DEF BucketTypes, ShipsReport, SweepTypes
  <2>. QED  BY <1>11, <2>1 DEF BucketTypes, ShipsReport
<1>12. ASSUME Completes(s) PROVE BucketTypes'
  <2>1. sweep' \in [Sweep -> SweepTypes]
    BY <1>0, <1>12 DEF BucketTypes, Completes, SweepTypes, Missing
  <2>2. tangled' \subseteq Bucket
    BY <1>12 DEF BucketTypes, Completes, Missing
  <2>. QED  BY <1>12, <2>1, <2>2 DEF BucketTypes, Completes
<1>13. ASSUME SweepEnds(s) \/ SweepBreaks(s) PROVE BucketTypes'
  <2>1. sweep' \in [Sweep -> SweepTypes]
    BY <1>13, EmptySweep, SweepBecomes DEF SweepEnds, SweepBreaks
  <2>2. snags' \in 0..MaxSnags
    BY <1>13, BucketAssumption DEF BucketTypes, SweepEnds, SweepBreaks
  <2>3. tangled' \subseteq Bucket
    BY <1>0, <1>13 DEF BucketTypes, SweepEnds, SweepBreaks, SweepTypes
  <2>4. outdated' \in [Sweep -> SUBSET Bucket]
    BY <1>13 DEF BucketTypes, SweepEnds, SweepBreaks
  <2>. QED  BY <1>13, <2>1, <2>2, <2>3, <2>4 DEF BucketTypes, SweepEnds, SweepBreaks
<1>. QED  BY <1>1, <1>2, <1>3, <1>4, <1>5, <1>6, <1>7, <1>8, <1>9, <1>10, <1>11, <1>12, <1>13 DEF ScanSteps

(* A scan changes neither the buckets nor the other scans.                 *)
LEMMA OthersStay ==
    ASSUME BucketTypes, NEW s \in Sweep, ScanSteps(s)
    PROVE  /\ bucket' = bucket
           /\ \A q \in Sweep \ {s} : sweep'[q] = sweep[q] /\ outdated'[q] = outdated[q]
<1>1. bucket' = bucket
  BY DEF ScanSteps, ListsBuckets, ReadsBlock, ReadsRest, Examined, Unexamined, LooksAtRow, StoresRow,
         TellsOfBucket, SkipsBucket, DropsRow, TellsGone, ShipsReport, Completes, SweepEnds, SweepBreaks
<1>2. \A q \in Sweep \ {s} : outdated'[q] = outdated[q]
  BY DEF BucketTypes, ScanSteps, ListsBuckets, ReadsBlock, ReadsRest, Examined, Unexamined, LooksAtRow, StoresRow,
         TellsOfBucket, SkipsBucket, DropsRow, TellsGone, ShipsReport, Completes, SweepEnds, SweepBreaks,
         CallFails, Answers
<1>3. \A q \in Sweep \ {s} : sweep'[q] = sweep[q]
  <2>1. CASE \E b \in Bucket : ReadsBlock(s, b) \/ ReadsRest(s, b) \/ Unexamined(s, b)
    BY <2>1 DEF BucketTypes, ReadsBlock, ReadsRest, Examined, Unexamined
  <2>2. CASE \E b \in Bucket : LooksAtRow(s, b) \/ StoresRow(s, b) \/ TellsOfBucket(s, b) \/ SkipsBucket(s, b)
    BY <2>2 DEF BucketTypes, LooksAtRow, StoresRow, TellsOfBucket, SkipsBucket
  <2>3. CASE \E b \in Bucket : DropsRow(s, b) \/ TellsGone(s, b)
    BY <2>3 DEF BucketTypes, DropsRow, TellsGone
  <2>4. CASE (\E a \in Account : ListsBuckets(s, a)) \/ ShipsReport(s) \/ Completes(s) \/ SweepEnds(s) \/ SweepBreaks(s)
    BY <2>4 DEF BucketTypes, ListsBuckets, ShipsReport, Completes, SweepEnds, SweepBreaks
  <2>. QED  BY <2>1, <2>2, <2>3, <2>4 DEF ScanSteps
<1>. QED  BY <1>1, <1>2, <1>3

(* What reads and stores of a bucket make of a scan.                       *)
LEMMA ReadsBlockIs ==
    ASSUME BucketTypes, NEW s \in Sweep, NEW b \in Bucket, ReadsBlock(s, b)
    PROVE  /\ \E as \in {"on", "off"} :
                  /\ sweep'[s] = [sweep[s] EXCEPT !.blocked = [sweep[s].blocked EXCEPT ![b] = as]]
                  /\ \/ outdated' = outdated /\ as = IF bucket[b].there /\ bucket[b].blocked THEN "on" ELSE "off"
                     \/ outdated'[s] = outdated[s] \cup {b}
           /\ InStage(s, "reading") /\ b \in sweep[s].todo
BY DEF BucketTypes, ReadsBlock, UpToBucket, SweepTypes, CallFails, Answers

Filled(s, b, new) ==
    [sweep[s] EXCEPT !.todo = @ \ {b}, !.blocked = [sweep[s].blocked EXCEPT ![b] = "unread"],
                     !.report = [sweep[s].report EXCEPT ![b] = new]]

LEMMA UpToOne ==
    ASSUME NEW s \in Sweep, NEW b \in Bucket, UpToBucket(s, b)
    PROVE  /\ InStage(s, "reading") /\ b \in sweep[s].todo
           /\ \A x \in Bucket \ {b} : sweep[s].blocked[x] = "unread"
BY DEF UpToBucket

LEMMA FilledIs ==
    ASSUME BucketTypes, NEW s \in Sweep, NEW b \in Bucket, ReadsRest(s, b) \/ Unexamined(s, b)
    PROVE  /\ UpToBucket(s, b)
           /\ \E new \in BucketSnapshot :
                  /\ sweep'[s] = Filled(s, b, new) /\ new.there
                  /\ \/ outdated'[s] = outdated[s] \cup {b}
                     \/ /\ outdated' = outdated /\ sweep[s].blocked[b] # "unread"
                        /\ new.public = (bucket[b].granted /\ sweep[s].blocked[b] # "on")
                        /\ new.encryption = EncryptionOf(bucket[b]) /\ new.versioning = bucket[b].versioning
<1>1. CASE Unexamined(s, b)
  <2>. DEFINE new == [there |-> TRUE, public |-> FALSE, encryption |-> "unknown", versioning |-> "unknown"]
  <2>1. new \in BucketSnapshot /\ new.there
    BY DEF BucketSnapshot, Versioning
  <2>2. sweep' = [sweep EXCEPT ![s].todo = @ \ {b}, ![s].blocked[b] = "unread", ![s].report[b] = new]
    BY <1>1 DEF Unexamined
  <2>. HIDE DEF new
  <2>3. sweep'[s] = Filled(s, b, new)
    BY <2>2 DEF BucketTypes, SweepTypes, Filled
  <2>4. outdated'[s] = outdated[s] \cup {b} /\ UpToBucket(s, b)
    BY <1>1 DEF Unexamined, CallFails, BucketTypes
  <2>. QED  BY <2>1, <2>3, <2>4
<1>2. CASE ReadsRest(s, b)
  <2>0. bucket[b] \in Config
    BY DEF BucketTypes
  <2>1. PICK granted \in BOOLEAN, enc \in {"none", "set"}, ver \in Versioning :
            /\ Examined(s, b, granted, enc, ver)
            /\ \/ CallFails(s, b)
               \/ /\ Answers /\ granted = bucket[b].granted
                  /\ enc = EncryptionOf(bucket[b]) /\ ver = bucket[b].versioning
    BY <1>2, <2>0 DEF ReadsRest, Config, Versioning, EncryptionOf
  <2>. DEFINE new == [there |-> TRUE, public |-> IsPublic(sweep[s].blocked[b] = "on", granted),
                      encryption |-> enc, versioning |-> ver]
  <2>2. IsPublic(sweep[s].blocked[b] = "on", granted) \in BOOLEAN
    BY DEF IsPublic
  <2>3. new \in BucketSnapshot /\ new.there
    BY <2>2 DEF BucketSnapshot, Versioning
  <2>4. /\ new.public = (granted /\ sweep[s].blocked[b] # "on")
        /\ new.encryption = enc /\ new.versioning = ver
    BY DEF IsPublic
  <2>5. sweep' = [sweep EXCEPT ![s].todo = @ \ {b}, ![s].blocked[b] = "unread", ![s].report[b] = new]
    BY <2>1 DEF Examined
  <2>. HIDE DEF new
  <2>6. sweep'[s] = Filled(s, b, new)
    BY <2>5 DEF BucketTypes, SweepTypes, Filled
  <2>7. UpToBucket(s, b) /\ sweep[s].blocked[b] # "unread"
    BY <2>1 DEF Examined
  <2>8. CallFails(s, b) => outdated'[s] = outdated[s] \cup {b}
    BY DEF CallFails, BucketTypes
  <2>9. Answers => outdated' = outdated
    BY DEF Answers
  <2>. QED  BY <2>1, <2>3, <2>4, <2>6, <2>7, <2>8, <2>9
<1>. QED  BY <1>1, <1>2

LEMMA StoreIs ==
    ASSUME BucketTypes, NEW s \in Sweep, NEW b \in Bucket, StoresRow(s, b)
    PROVE  /\ sweep'[s] = [sweep[s] EXCEPT !.of = {}, !.todo = @ \ {b}, !.derived = {b}]
           /\ bucketRow' = [bucketRow EXCEPT ![b] = sweep[s].report[b]]
           /\ UNCHANGED <<alert, tangled, outdated>>
           /\ InStage(s, "storing") /\ b \in sweep[s].of
BY DEF BucketTypes, StoresRow, BucketUpserted

LEMMA TellIs ==
    ASSUME BucketTypes, NEW s \in Sweep, NEW b \in Bucket, TellsOfBucket(s, b)
    PROVE  /\ sweep'[s] = [sweep[s] EXCEPT !.derived = {}, !.prev = NoRecord,
                                            !.report = [sweep[s].report EXCEPT ![b] = NoRecord]]
           /\ InStage(s, "storing") /\ b \in sweep[s].derived
BY DEF BucketTypes, SweepTypes, TellsOfBucket

(* The scan that moves stays in its place.                                 *)
LEMMA ReadingInPlace ==
    ASSUME BucketTypes, SweepsInPlace, NEW s \in Sweep, NEW b \in Bucket,
           ReadsBlock(s, b) \/ ReadsRest(s, b) \/ Unexamined(s, b)
    PROVE  SweepInPlace(s)' /\ ReportsThere(s)'
<1>0. sweep[s] \in SweepTypes /\ SweepInPlace(s) /\ ReportsThere(s)
  BY DEF BucketTypes, SweepsInPlace
<1>1. CASE ReadsBlock(s, b)
  <2>1. PICK as \in {"on", "off"} :
            sweep'[s] = [sweep[s] EXCEPT !.blocked = [sweep[s].blocked EXCEPT ![b] = as]]
    BY <1>1, ReadsBlockIs
  <2>2. InStage(s, "reading") /\ b \in sweep[s].todo
    BY <1>1, ReadsBlockIs
  <2>3. /\ sweep'[s].stage = "reading" /\ sweep'[s].of = sweep[s].of /\ sweep'[s].derived = sweep[s].derived
        /\ sweep'[s].todo = sweep[s].todo /\ sweep'[s].names = sweep[s].names
        /\ sweep'[s].report = sweep[s].report
        /\ \A x \in Bucket \ {b} : sweep'[s].blocked[x] = sweep[s].blocked[x]
    BY <1>0, <2>1, <2>2 DEF SweepTypes, InStage
  <2>4. SweepInPlace(s)'
    BY <1>0, <2>2, <2>3 DEF SweepInPlace, InStage
  <2>5. ReportsThere(s)'
    BY <1>0, <2>2, <2>3 DEF ReportsThere, InStage
  <2>. QED  BY <2>4, <2>5
<1>2. CASE ReadsRest(s, b) \/ Unexamined(s, b)
  <2>1. PICK new \in BucketSnapshot : sweep'[s] = Filled(s, b, new) /\ new.there
    BY <1>2, FilledIs
  <2>2. InStage(s, "reading") /\ b \in sweep[s].todo
    BY <1>2, FilledIs, UpToOne
  <2>3. SweepInPlace(s)'
    BY <1>0, <2>1, <2>2 DEF SweepTypes, SweepInPlace, InStage, Filled
  <2>4. ReportsThere(s)'
    BY <1>0, <2>1, <2>2 DEF SweepTypes, SweepInPlace, ReportsThere, InStage, Filled
  <2>. QED  BY <2>3, <2>4
<1>. QED  BY <1>1, <1>2

LEMMA StoringInPlace ==
    ASSUME BucketTypes, SweepsInPlace, NEW s \in Sweep, NEW b \in Bucket,
           LooksAtRow(s, b) \/ StoresRow(s, b) \/ TellsOfBucket(s, b) \/ SkipsBucket(s, b)
    PROVE  SweepInPlace(s)' /\ ReportsThere(s)'
<1>0. sweep[s] \in SweepTypes /\ SweepInPlace(s) /\ ReportsThere(s)
  BY DEF BucketTypes, SweepsInPlace
<1>1. CASE LooksAtRow(s, b)
  BY <1>0, <1>1 DEF BucketTypes, SweepTypes, SweepInPlace, ReportsThere, InStage, LooksAtRow
<1>2. CASE StoresRow(s, b)
  <2>0. InStage(s, "storing") /\ sweep'[s] = [sweep[s] EXCEPT !.of = {}, !.todo = @ \ {b}, !.derived = {b}]
    BY <1>2, StoreIs
  <2>1. /\ sweep'[s].stage = "storing" /\ sweep'[s].of = {} /\ sweep'[s].derived = {b}
        /\ sweep'[s].todo = sweep[s].todo \ {b} /\ sweep'[s].names = sweep[s].names
        /\ sweep'[s].report = sweep[s].report /\ sweep'[s].blocked = sweep[s].blocked
    BY <1>0, <2>0 DEF SweepTypes, InStage
  <2>2. InStage(s, "storing")
    BY <1>2, StoreIs
  <2>3. SweepInPlace(s)'
    BY <1>0, <2>1, <2>2 DEF SweepInPlace, InStage
  <2>4. ReportsThere(s)'
    BY <1>0, <2>1, <2>2 DEF ReportsThere, InStage
  <2>. QED  BY <2>3, <2>4
<1>3. CASE TellsOfBucket(s, b)
  <2>1. InStage(s, "storing") /\ b \in sweep[s].derived
    BY <1>3, TellIs
  <2>2. b \notin sweep[s].todo
    BY <1>0, <2>1 DEF SweepInPlace
  <2>0. sweep'[s] = [sweep[s] EXCEPT !.derived = {}, !.prev = NoRecord,
                                      !.report = [sweep[s].report EXCEPT ![b] = NoRecord]]
    BY <1>3, TellIs
  <2>3. /\ sweep'[s].stage = "storing" /\ sweep'[s].of = sweep[s].of /\ sweep'[s].derived = {}
        /\ sweep'[s].todo = sweep[s].todo /\ sweep'[s].names = sweep[s].names
        /\ sweep'[s].blocked = sweep[s].blocked
        /\ \A x \in Bucket \ {b} : sweep'[s].report[x] = sweep[s].report[x]
    BY <1>0, <2>0, <2>1 DEF SweepTypes, InStage
  <2>4. SweepInPlace(s)'
    BY <1>0, <2>1, <2>3 DEF SweepInPlace, InStage
  <2>5. ReportsThere(s)'
    BY <1>0, <2>1, <2>2, <2>3 DEF ReportsThere, InStage, SweepTypes
  <2>. QED  BY <2>4, <2>5
<1>4. CASE SkipsBucket(s, b)
  BY <1>0, <1>4 DEF BucketTypes, SweepTypes, SweepInPlace, ReportsThere, InStage, SkipsBucket
<1>. QED  BY <1>1, <1>2, <1>3, <1>4

LEMMA ListingInPlace ==
    ASSUME BucketTypes, NEW s \in Sweep, NEW a \in Account, ListsBuckets(s, a)
    PROVE  SweepInPlace(s)' /\ ReportsThere(s)'
<1>1. /\ sweep'[s].stage = "reading" /\ sweep'[s].of = {} /\ sweep'[s].derived = {}
      /\ sweep'[s].todo = sweep'[s].names
      /\ \A x \in Bucket : sweep'[s].blocked[x] = "unread"
  BY DEF BucketTypes, ListsBuckets, NoSweep
<1>. QED  BY <1>1 DEF SweepInPlace, ReportsThere, InStage

LEMMA DroppingInPlace ==
    ASSUME BucketTypes, SweepsInPlace, NEW s \in Sweep, NEW b \in Bucket, DropsRow(s, b) \/ TellsGone(s, b)
    PROVE  SweepInPlace(s)' /\ ReportsThere(s)'
<1>0. sweep[s] \in SweepTypes /\ SweepInPlace(s) /\ ReportsThere(s)
  BY DEF BucketTypes, SweepsInPlace
<1>1. /\ InStage(s, "dropping")
      /\ sweep'[s].stage = "dropping" /\ sweep'[s].of = sweep[s].of
      /\ sweep'[s].todo \subseteq sweep[s].todo /\ sweep'[s].names = sweep[s].names
      /\ sweep'[s].account = sweep[s].account /\ sweep'[s].blocked = sweep[s].blocked
  <2>1. CASE DropsRow(s, b)
    BY <1>0, <2>1 DEF BucketTypes, SweepTypes, DropsRow, InStage
  <2>2. CASE TellsGone(s, b)
    BY <1>0, <2>2 DEF BucketTypes, SweepTypes, TellsGone, InStage
  <2>. QED  BY <2>1, <2>2
<1>. QED  BY <1>0, <1>1 DEF SweepInPlace, ReportsThere, InStage

LEMMA TurningInPlace ==
    ASSUME BucketTypes, SweepsInPlace, NEW s \in Sweep,
           ShipsReport(s) \/ Completes(s) \/ SweepEnds(s) \/ SweepBreaks(s)
    PROVE  SweepInPlace(s)' /\ ReportsThere(s)'
<1>0. sweep[s] \in SweepTypes /\ SweepInPlace(s) /\ ReportsThere(s)
  BY DEF BucketTypes, SweepsInPlace
<1>1. CASE ShipsReport(s)
  <2>1. /\ InStage(s, "reading") /\ sweep[s].todo = {}
        /\ sweep'[s].stage = "storing" /\ sweep'[s].of = sweep[s].of /\ sweep'[s].derived = sweep[s].derived
        /\ sweep'[s].todo = sweep[s].names /\ sweep'[s].names = sweep[s].names
        /\ sweep'[s].report = sweep[s].report /\ sweep'[s].blocked = sweep[s].blocked
    BY <1>0, <1>1 DEF BucketTypes, SweepTypes, ShipsReport, InStage
  <2>2. SweepInPlace(s)'
    BY <1>0, <2>1 DEF SweepInPlace, InStage
  <2>3. ReportsThere(s)'
    BY <1>0, <2>1 DEF ReportsThere, InStage
  <2>. QED  BY <2>2, <2>3
<1>2. CASE Completes(s)
  <2>1. /\ InStage(s, "storing") /\ sweep[s].todo = {} /\ sweep[s].derived = {}
        /\ sweep'[s].stage = "dropping" /\ sweep'[s].of = sweep[s].of /\ sweep'[s].derived = sweep[s].derived
        /\ sweep'[s].todo = Missing(s) /\ sweep'[s].names = sweep[s].names
        /\ sweep'[s].account = sweep[s].account /\ sweep'[s].blocked = sweep[s].blocked
    BY <1>0, <1>2 DEF BucketTypes, SweepTypes, Completes, InStage
  <2>2. SweepInPlace(s)'
    BY <1>0, <2>1 DEF SweepInPlace, InStage, Missing
  <2>. QED  BY <2>1, <2>2 DEF ReportsThere, InStage
<1>3. CASE SweepEnds(s) \/ SweepBreaks(s)
  <2>1. /\ sweep'[s].stage = "idle" /\ sweep'[s].of = {} /\ sweep'[s].derived = {} /\ outdated'[s] = {}
        /\ \A x \in Bucket : sweep'[s].blocked[x] = "unread"
    BY <1>3 DEF BucketTypes, SweepEnds, SweepBreaks, NoSweep
  <2>. QED  BY <2>1 DEF SweepInPlace, ReportsThere, InStage
<1>. QED  BY <1>1, <1>2, <1>3

LEMMA ScanInPlace ==
    ASSUME BucketTypes, SweepsInPlace, NEW s \in Sweep, ScanSteps(s)
    PROVE  SweepsInPlace'
<1>1. SweepInPlace(s)' /\ ReportsThere(s)'
  BY ReadingInPlace, StoringInPlace, ListingInPlace, DroppingInPlace, TurningInPlace DEF ScanSteps
<1>2. ASSUME NEW q \in Sweep \ {s} PROVE SweepInPlace(q)' /\ ReportsThere(q)'
  BY OthersStay DEF SweepsInPlace, SweepInPlace, ReportsThere, InStage
<1>. QED  BY <1>1, <1>2 DEF SweepsInPlace

LEMMA StirKept ==
    ASSUME BucketInv, NEW b \in Bucket, NEW c \in Config, Stir(b, c)
    PROVE  SweepsInPlace' /\ SweepsKnow' /\ RowsTell' /\ AlertsInOrder'
<1>1. /\ sweep' = sweep /\ bucketRow' = bucketRow /\ alert' = alert /\ tangled' = tangled /\ unread' = unread
      /\ unclear' = unclear \cup {b}
      /\ \A x \in Bucket \ {b} : bucket'[x] = bucket[x]
      /\ \A s \in Sweep : outdated'[s] = IF InStage(s, "idle") THEN {} ELSE outdated[s] \cup {b}
  BY DEF Stir, BucketInv, BucketTypes
<1>2. SweepsInPlace'
  <2>. SUFFICES ASSUME NEW s \in Sweep PROVE SweepInPlace(s)' /\ ReportsThere(s)'
    BY DEF SweepsInPlace
  <2>1. SweepInPlace(s) /\ ReportsThere(s)
    BY DEF BucketInv, SweepsInPlace
  <2>2. sweep'[s] = sweep[s] /\ (InStage(s, "idle") => outdated'[s] = {})
    BY <1>1
  <2>3. SweepInPlace(s)'
    BY <2>1, <2>2 DEF SweepInPlace, InStage
  <2>. QED  BY <2>1, <2>2, <2>3 DEF ReportsThere, InStage
<1>3. SweepsKnow'
  <2>. SUFFICES ASSUME NEW s \in Sweep, NEW x \in Bucket PROVE Knows(s, x)'
    BY DEF SweepsKnow
  <2>1. Knows(s, x) /\ SweepInPlace(s)
    BY DEF BucketInv, SweepsKnow, SweepsInPlace
  <2>2. CASE InStage(s, "idle")
    BY <1>1, <2>1, <2>2 DEF Knows, SweepInPlace, InStage
  <2>3. CASE ~InStage(s, "idle")
    BY <1>1, <2>1, <2>3 DEF Knows, InStage, BlockedNow
  <2>. QED  BY <2>2, <2>3
<1>4. RowsTell'
  BY <1>1 DEF BucketInv, RowsTell
<1>5. AlertsInOrder'
  BY <1>1 DEF BucketInv, AlertsInOrder, AlertInOrder, HandInOrder, InHand, InStage
<1>. QED  BY <1>2, <1>3, <1>4, <1>5

(* What the scan that moves knows.                                         *)
LEMMA ReadingKnows ==
    ASSUME BucketTypes, SweepsInPlace, SweepsKnow, NEW s \in Sweep, NEW b \in Bucket, bucket' = bucket,
           ReadsBlock(s, b) \/ ReadsRest(s, b) \/ Unexamined(s, b), NEW x \in Bucket
    PROVE  Knows(s, x)'
<1>0. sweep[s] \in SweepTypes /\ SweepInPlace(s) /\ Knows(s, x) /\ Knows(s, b)
  BY DEF BucketTypes, SweepsInPlace, SweepsKnow
<1>1. CASE ReadsBlock(s, b)
  <2>1. PICK as \in {"on", "off"} :
            /\ sweep'[s] = [sweep[s] EXCEPT !.blocked = [sweep[s].blocked EXCEPT ![b] = as]]
            /\ \/ outdated' = outdated /\ as = IF bucket[b].there /\ bucket[b].blocked THEN "on" ELSE "off"
               \/ outdated'[s] = outdated[s] \cup {b}
    BY <1>1, ReadsBlockIs
  <2>2. InStage(s, "reading") /\ b \in sweep[s].todo /\ b \in sweep[s].names
    BY <1>0, <1>1, ReadsBlockIs DEF SweepInPlace
  <2>3. /\ sweep'[s].stage = "reading" /\ sweep'[s].account = sweep[s].account
        /\ sweep'[s].todo = sweep[s].todo /\ sweep'[s].names = sweep[s].names
        /\ sweep'[s].report = sweep[s].report
        /\ \A y \in Bucket : sweep'[s].blocked[y] = IF y = b THEN as ELSE sweep[s].blocked[y]
    BY <1>0, <2>1, <2>2 DEF SweepTypes, InStage
  <2>4. CASE x = b
    BY <1>0, <2>1, <2>2, <2>3, <2>4 DEF Knows, InStage, BlockedNow
  <2>5. CASE x # b
    BY <1>0, <2>1, <2>2, <2>3, <2>5 DEF Knows, InStage, BlockedNow
  <2>. QED  BY <2>4, <2>5
<1>2. CASE ReadsRest(s, b) \/ Unexamined(s, b)
  <2>1. PICK new \in BucketSnapshot :
                  /\ sweep'[s] = Filled(s, b, new) /\ new.there
                  /\ \/ outdated'[s] = outdated[s] \cup {b}
                     \/ /\ outdated' = outdated /\ sweep[s].blocked[b] # "unread"
                        /\ new.public = (bucket[b].granted /\ sweep[s].blocked[b] # "on")
                        /\ new.encryption = EncryptionOf(bucket[b]) /\ new.versioning = bucket[b].versioning
    BY <1>2, FilledIs
  <2>2. InStage(s, "reading") /\ b \in sweep[s].todo /\ b \in sweep[s].names
    BY <1>0, <1>2, FilledIs, UpToOne DEF SweepInPlace
  <2>3. /\ sweep'[s].stage = "reading" /\ sweep'[s].account = sweep[s].account
        /\ sweep'[s].todo = sweep[s].todo \ {b} /\ sweep'[s].names = sweep[s].names
        /\ \A y \in Bucket : /\ sweep'[s].report[y] = IF y = b THEN new ELSE sweep[s].report[y]
                             /\ sweep'[s].blocked[y] = IF y = b THEN "unread" ELSE sweep[s].blocked[y]
    BY <1>0, <2>1, <2>2 DEF SweepTypes, InStage, Filled
  <2>4. CASE x = b
    <3>1. b \in outdated'[s] \/ RowTells(new, bucket[b])
      BY <1>0, <2>1, <2>2 DEF Knows, RowTells, BlockedNow, InStage
    <3>. QED  BY <1>0, <2>1, <2>2, <2>3, <2>4, <3>1 DEF Knows, InStage, BlockedNow
  <2>5. CASE x # b
    BY <1>0, <2>1, <2>2, <2>3, <2>5 DEF Knows, InStage, BlockedNow
  <2>. QED  BY <2>4, <2>5
<1>. QED  BY <1>1, <1>2

LEMMA ListingKnows ==
    ASSUME BucketTypes, NEW s \in Sweep, NEW a \in Account, ListsBuckets(s, a), NEW x \in Bucket
    PROVE  Knows(s, x)'
<1>1. /\ sweep'[s].stage = "reading" /\ sweep'[s].account = a /\ bucket' = bucket
      /\ sweep'[s].names = {b \in Bucket : bucket[b].there /\ AccountOf[b] = a}
      /\ sweep'[s].todo = sweep'[s].names
      /\ sweep'[s].blocked[x] = "unread"
  BY DEF BucketTypes, ListsBuckets, NoSweep
<1>. QED  BY <1>1 DEF Knows, InStage

(* Whoever goes on with less to do and the reports of it knows as before.  *)
LEMMA GoesOnKnowing ==
    ASSUME BucketTypes, SweepsKnow, NEW s \in Sweep, NEW x \in Bucket, bucket' = bucket, outdated' = outdated,
           sweep'[s].stage = sweep[s].stage \/ sweep'[s].stage = "dropping",
           sweep[s].stage # "idle", sweep'[s].stage # "reading",
           sweep'[s].account = sweep[s].account, sweep'[s].names = sweep[s].names,
           sweep'[s].blocked = sweep[s].blocked,
           sweep'[s].stage = "storing" =>
               /\ sweep'[s].todo \subseteq sweep[s].todo
               /\ \A y \in sweep'[s].todo : sweep'[s].report[y] = sweep[s].report[y]
    PROVE  Knows(s, x)'
<1>1. Knows(s, x)
  BY DEF SweepsKnow
<1>. QED  BY <1>1 DEF Knows, InStage, BlockedNow

LEMMA StoringKnows ==
    ASSUME BucketTypes, SweepsInPlace, SweepsKnow, NEW s \in Sweep, NEW b \in Bucket, bucket' = bucket,
           \/ LooksAtRow(s, b) \/ StoresRow(s, b) \/ TellsOfBucket(s, b) \/ SkipsBucket(s, b)
           \/ DropsRow(s, b) \/ TellsGone(s, b),
           NEW x \in Bucket
    PROVE  Knows(s, x)'
<1>0. sweep[s] \in SweepTypes /\ SweepInPlace(s)
  BY DEF BucketTypes, SweepsInPlace
<1>1. CASE TellsOfBucket(s, b)
  <2>1. /\ InStage(s, "storing") /\ b \notin sweep[s].todo
        /\ sweep'[s] = [sweep[s] EXCEPT !.derived = {}, !.prev = NoRecord,
                                         !.report = [sweep[s].report EXCEPT ![b] = NoRecord]]
    BY <1>0, <1>1, TellIs DEF SweepInPlace
  <2>2. /\ sweep'[s].stage = "storing" /\ sweep'[s].todo = sweep[s].todo /\ sweep'[s].names = sweep[s].names
        /\ sweep'[s].account = sweep[s].account /\ sweep'[s].blocked = sweep[s].blocked
        /\ \A y \in Bucket \ {b} : sweep'[s].report[y] = sweep[s].report[y]
    BY <1>0, <2>1 DEF SweepTypes, InStage
  <2>3. outdated' = outdated
    BY <1>1 DEF TellsOfBucket
  <2>4. \A y \in sweep'[s].todo : sweep'[s].report[y] = sweep[s].report[y]
    BY <1>0, <2>1, <2>2 DEF SweepTypes
  <2>. QED  BY <2>1, <2>2, <2>3, <2>4, GoesOnKnowing DEF InStage
<1>2. ASSUME \/ LooksAtRow(s, b) \/ StoresRow(s, b) \/ SkipsBucket(s, b)
             \/ DropsRow(s, b) \/ TellsGone(s, b)
      PROVE  /\ sweep[s].stage \in {"storing", "dropping"} /\ sweep'[s].stage = sweep[s].stage
             /\ sweep'[s].names = sweep[s].names /\ sweep'[s].account = sweep[s].account
             /\ sweep'[s].blocked = sweep[s].blocked /\ sweep'[s].report = sweep[s].report
             /\ sweep'[s].todo \subseteq sweep[s].todo /\ outdated' = outdated
  <2>1. CASE LooksAtRow(s, b)
    BY <1>0, <2>1 DEF BucketTypes, SweepTypes, LooksAtRow, InStage
  <2>2. CASE StoresRow(s, b)
    BY <1>0, <2>2 DEF BucketTypes, SweepTypes, StoresRow, InStage
  <2>3. CASE SkipsBucket(s, b)
    BY <1>0, <2>3 DEF BucketTypes, SweepTypes, SkipsBucket, InStage
  <2>4. CASE DropsRow(s, b)
    BY <1>0, <2>4 DEF BucketTypes, SweepTypes, DropsRow, InStage
  <2>5. CASE TellsGone(s, b)
    BY <1>0, <2>5 DEF BucketTypes, SweepTypes, TellsGone, InStage
  <2>. QED  BY <1>2, <2>1, <2>2, <2>3, <2>4, <2>5
<1>3. CASE ~TellsOfBucket(s, b)
  BY <1>2, <1>3, GoesOnKnowing
<1>. QED  BY <1>1, <1>3

LEMMA TurningKnows ==
    ASSUME BucketTypes, SweepsInPlace, SweepsKnow, NEW s \in Sweep, bucket' = bucket,
           ShipsReport(s) \/ Completes(s) \/ SweepEnds(s) \/ SweepBreaks(s), NEW x \in Bucket
    PROVE  Knows(s, x)'
<1>0. sweep[s] \in SweepTypes /\ SweepInPlace(s) /\ Knows(s, x)
  BY DEF BucketTypes, SweepsInPlace, SweepsKnow
<1>1. CASE ShipsReport(s)
  <2>1. /\ InStage(s, "reading") /\ sweep[s].todo = {}
        /\ sweep'[s].stage = "storing" /\ sweep'[s].account = sweep[s].account /\ outdated' = outdated
        /\ sweep'[s].todo = sweep[s].names /\ sweep'[s].names = sweep[s].names
        /\ sweep'[s].report = sweep[s].report /\ sweep'[s].blocked = sweep[s].blocked
    BY <1>0, <1>1 DEF BucketTypes, SweepTypes, ShipsReport, InStage
  <2>. QED  BY <1>0, <2>1 DEF Knows, InStage, BlockedNow
<1>2. CASE Completes(s)
  <2>1. /\ sweep[s].stage = "storing" /\ outdated' = outdated
        /\ sweep'[s].stage = "dropping" /\ sweep'[s].names = sweep[s].names
        /\ sweep'[s].account = sweep[s].account /\ sweep'[s].blocked = sweep[s].blocked
    BY <1>0, <1>2 DEF BucketTypes, SweepTypes, Completes, InStage
  <2>. QED  BY <2>1, GoesOnKnowing
<1>3. CASE SweepEnds(s) \/ SweepBreaks(s)
  <2>1. /\ sweep'[s].stage = "idle" /\ sweep'[s].blocked[x] = "unread"
    BY <1>3 DEF BucketTypes, SweepEnds, SweepBreaks, NoSweep
  <2>. QED  BY <2>1 DEF Knows, InStage
<1>. QED  BY <1>1, <1>2, <1>3

LEMMA ScanKnows ==
    ASSUME BucketTypes, SweepsInPlace, SweepsKnow, NEW s \in Sweep, ScanSteps(s)
    PROVE  SweepsKnow'
<1>0. bucket' = bucket
  BY OthersStay
<1>1. ASSUME NEW x \in Bucket PROVE Knows(s, x)'
  BY <1>0, ReadingKnows, StoringKnows, ListingKnows, TurningKnows DEF ScanSteps
<1>2. ASSUME NEW q \in Sweep \ {s}, NEW x \in Bucket PROVE Knows(q, x)'
  BY OthersStay DEF SweepsKnow, Knows, InStage, BlockedNow
<1>. QED  BY <1>1, <1>2 DEF SweepsKnow

LEMMA ScanRowsTell ==
    ASSUME BucketTypes, SweepsInPlace, SweepsKnow, RowsTell, NEW s \in Sweep, ScanSteps(s)
    PROVE  RowsTell'
<1>0. bucket' = bucket
  BY OthersStay
<1>1. ASSUME NEW b \in Bucket, StoresRow(s, b) PROVE RowsTell'
  <2>1. bucketRow' = [bucketRow EXCEPT ![b] = sweep[s].report[b]] /\ InStage(s, "storing") /\ b \in sweep[s].of
    BY <1>1, StoreIs
  <2>2. unclear' = IF b \in outdated[s] THEN unclear \cup {b} ELSE unclear \ {b}
    BY <1>1 DEF StoresRow, Judged
  <2>3. b \in sweep[s].todo
    BY <2>1 DEF SweepsInPlace, SweepInPlace
  <2>4. b \notin outdated[s] => RowTells(sweep[s].report[b], bucket[b])
    BY <2>1, <2>3 DEF SweepsKnow, Knows
  <2>. QED  BY <1>0, <2>1, <2>2, <2>4 DEF RowsTell, BucketTypes
<1>2. ASSUME NEW b \in Bucket, DropsRow(s, b) PROVE RowsTell'
  <2>1. /\ bucketRow' = [bucketRow EXCEPT ![b] = NoRecord] /\ InStage(s, "dropping") /\ b \in sweep[s].todo
        /\ unclear' = IF b \in outdated[s] THEN unclear \cup {b} ELSE unclear \ {b}
    BY <1>2 DEF DropsRow, Judged
  <2>2. AccountOf[b] = sweep[s].account /\ b \notin sweep[s].names
    BY <2>1 DEF SweepsInPlace, SweepInPlace
  <2>3. b \notin outdated[s] => ~bucket[b].there
    BY <2>1, <2>2 DEF SweepsKnow, Knows, InStage
  <2>4. bucket[b].there \in BOOLEAN
    BY DEF BucketTypes, Config
  <2>5. b \notin outdated[s] => RowTells(NoRecord, bucket[b])
    BY <2>3, <2>4 DEF RowTells, NoRecord
  <2>. QED  BY <1>0, <2>1, <2>5 DEF RowsTell, BucketTypes
<1>3. CASE ~\E b \in Bucket : StoresRow(s, b) \/ DropsRow(s, b)
  <2>1. bucketRow' = bucketRow /\ unclear' = unclear
    BY <1>3 DEF ScanSteps, ListsBuckets, ReadsBlock, ReadsRest, Examined, Unexamined, LooksAtRow,
         TellsOfBucket, SkipsBucket, TellsGone, ShipsReport, Completes, SweepEnds, SweepBreaks
  <2>. QED  BY <1>0, <2>1 DEF RowsTell
<1>. QED  BY <1>1, <1>2, <1>3

(* A bucket nothing happens to is told of as before.                       *)
LEMMA BesideInOrder ==
    ASSUME NEW x \in Bucket, AlertInOrder(x), x \notin tangled' => x \notin tangled,
           bucketRow'[x] = bucketRow[x], alert'[x] = alert[x], x \in unread' <=> x \in unread,
           \A q \in Sweep : /\ x \in sweep'[q].of <=> x \in sweep[q].of
                            /\ x \in sweep'[q].derived <=> x \in sweep[q].derived
                            /\ InHand(q, x) => /\ sweep'[q].stage = sweep[q].stage /\ sweep'[q].prev = sweep[q].prev
                                               /\ sweep'[q].report[x] = sweep[q].report[x]
    PROVE  AlertInOrder(x)'
<1>1. \A q \in Sweep : InHand(q, x)' <=> InHand(q, x)
  BY DEF InHand
<1>2. ASSUME NEW q \in Sweep, HandInOrder(q, x) PROVE HandInOrder(q, x)'
  BY <1>2 DEF HandInOrder, InHand, InStage
<1>. QED  BY <1>1, <1>2 DEF AlertInOrder

(* A scan that had and has nothing in hand.                                *)
LEMMA HandlessInOrder ==
    ASSUME NEW s \in Sweep, AlertsInOrder, UNCHANGED <<bucketRow, alert, unread>>, tangled \subseteq tangled',
           \A q \in Sweep \ {s} : sweep'[q] = sweep[q],
           sweep[s].of = {}, sweep[s].derived = {}, sweep'[s].of = {}, sweep'[s].derived = {}
    PROVE  AlertsInOrder'
<1>1. ASSUME NEW x \in Bucket PROVE AlertInOrder(x)'
  <2>1. AlertInOrder(x) /\ (x \notin tangled' => x \notin tangled)
    BY DEF AlertsInOrder
  <2>2. bucketRow'[x] = bucketRow[x] /\ alert'[x] = alert[x] /\ (x \in unread' <=> x \in unread)
    OBVIOUS
  <2>3. ASSUME NEW q \in Sweep
        PROVE  /\ x \in sweep'[q].of <=> x \in sweep[q].of
               /\ x \in sweep'[q].derived <=> x \in sweep[q].derived
               /\ InHand(q, x) => /\ sweep'[q].stage = sweep[q].stage /\ sweep'[q].prev = sweep[q].prev
                                  /\ sweep'[q].report[x] = sweep[q].report[x]
    BY DEF InHand
  <2>. QED  BY <2>1, <2>2, <2>3, BesideInOrder
<1>. QED  BY <1>1 DEF AlertsInOrder

(* What is told of a bucket after its row was written adds up to the row.  *)
LEMMA SaysAddUp ==
    ASSUME NEW prev \in BucketSnapshot, NEW new \in BucketSnapshot, NEW tally \in Alert,
           NEW off \in BOOLEAN, NEW offAfter \in BOOLEAN, new.there,
           BucketAddsUp(prev, tally, off), prev.versioning # IF off THEN "unknown" ELSE "Enabled",
           offAfter => new.versioning = "Enabled" \/ (off /\ ~Unlikely(prev.versioning, new.versioning))
    PROVE  BucketAddsUp(new, Says(tally, prev, new), offAfter)
<1>. DEFINE says == Says(tally, prev, new)
<1>1. says.there = TRUE /\ new.there = TRUE /\ prev.there \in BOOLEAN /\ prev.public \in BOOLEAN /\ new.public \in BOOLEAN
  BY DEF Says, BucketSnapshot
<1>2. CASE ~prev.there
  BY <1>1, <1>2 DEF Says, BucketAddsUp
<1>3. CASE prev.there
  <2>1. says.public = new.public
    BY <1>1, <1>3 DEF Says, BucketAddsUp
  <2>2. says.bare = (new.encryption = "none")
    BY <1>3 DEF Says, BucketAddsUp
  <2>3. offAfter => says.off = Off(new.versioning)
    <3>1. prev.versioning \in {"Enabled", "Suspended", "Disabled", "unknown"}
          /\ new.versioning \in {"Enabled", "Suspended", "Disabled", "unknown"}
      BY DEF BucketSnapshot, Versioning
    <3>0. Off("Enabled") = FALSE /\ Off("Suspended") = TRUE /\ Off("Disabled") = TRUE
      BY DEF Off
    <3>2. off => tally.off = Off(prev.versioning)
      BY <1>3 DEF BucketAddsUp
    <3>3. offAfter => new.versioning # "unknown" /\ ~(prev.versioning = "Enabled" /\ new.versioning = "Disabled")
      BY DEF Unlikely
    <3>4. CASE prev.versioning = "Enabled"
      <4>1. off
        BY <3>4
      <4>2. tally.off = FALSE
        BY <3>0, <3>2, <3>4, <4>1
      <4>3. says.off = IF new.versioning = "Suspended" THEN TRUE ELSE tally.off
        BY <1>3, <3>4 DEF Says
      <4>4. CASE new.versioning = "Suspended"
        BY <3>0, <4>3, <4>4
      <4>5. CASE new.versioning = "Enabled"
        BY <3>0, <4>2, <4>3, <4>5
      <4>. QED  BY <3>1, <3>3, <3>4, <4>4, <4>5
    <3>5. CASE prev.versioning # "Enabled" /\ new.versioning = "Enabled"
      <4>1. says.off = FALSE
        BY <1>3, <3>5 DEF Says
      <4>. QED  BY <3>0, <3>5, <4>1
    <3>6. CASE prev.versioning # "Enabled" /\ new.versioning # "Enabled"
      <4>1. offAfter => off /\ tally.off = TRUE
        BY <3>1, <3>2, <3>6 DEF Off
      <4>. QED  BY <1>3, <3>1, <3>3, <3>6, <4>1 DEF Says, Off
    <3>. QED  BY <3>4, <3>5, <3>6
  <2>. QED  BY <1>1, <2>1, <2>2, <2>3 DEF BucketAddsUp
<1>. QED  BY <1>2, <1>3

LEMMA LooksInOrder ==
    ASSUME BucketTypes, SweepsInPlace, AlertsInOrder, NEW s \in Sweep, NEW b \in Bucket, LooksAtRow(s, b)
    PROVE  AlertsInOrder'
<1>0. sweep[s] \in SweepTypes
  BY DEF BucketTypes
<1>1. /\ InStage(s, "storing") /\ sweep[s].of = {} /\ sweep[s].derived = {}
      /\ sweep'[s].stage = "storing" /\ sweep'[s].of = {b} /\ sweep'[s].derived = {}
      /\ sweep'[s].prev = bucketRow[b]
      /\ \A q \in Sweep \ {s} : sweep'[q] = sweep[q]
      /\ UNCHANGED <<bucketRow, alert, unread>>
      /\ tangled' = IF Meets(s, b) THEN tangled \cup {b} ELSE tangled
  BY <1>0 DEF BucketTypes, SweepTypes, LooksAtRow, InStage
<1>2. AlertInOrder(b)'
  <2>. SUFFICES ASSUME b \notin tangled' PROVE AlertInOrder(b)'
    BY DEF AlertInOrder
  <2>1. \A q \in Sweep \ {s} : ~InHand(q, b) /\ ~InHand(q, b)'
    BY <1>1 DEF Meets, InHand
  <2>2. BucketAddsUp(bucketRow[b], alert[b], b \notin unread)
    BY <1>1, <2>1 DEF AlertsInOrder, AlertInOrder, InHand
  <2>3. HandInOrder(s, b)'
    BY <1>1, <2>2 DEF HandInOrder
  <2>4. \A q \in Sweep \ {s} : HandInOrder(q, b)'
    BY <2>1 DEF HandInOrder, InHand
  <2>5. InHand(s, b)'
    BY <1>1 DEF InHand
  <2>. QED  BY <2>1, <2>3, <2>4, <2>5 DEF AlertInOrder
<1>3. ASSUME NEW x \in Bucket \ {b} PROVE AlertInOrder(x)'
  <2>1. AlertInOrder(x) /\ (x \notin tangled' => x \notin tangled)
    BY <1>1 DEF AlertsInOrder
  <2>2. bucketRow'[x] = bucketRow[x] /\ alert'[x] = alert[x] /\ (x \in unread' <=> x \in unread)
    BY <1>1
  <2>3. ASSUME NEW q \in Sweep
        PROVE  /\ x \in sweep'[q].of <=> x \in sweep[q].of
               /\ x \in sweep'[q].derived <=> x \in sweep[q].derived
               /\ InHand(q, x) => /\ sweep'[q].stage = sweep[q].stage /\ sweep'[q].prev = sweep[q].prev
                                  /\ sweep'[q].report[x] = sweep[q].report[x]
    BY <1>1 DEF InHand
  <2>. QED  BY <2>1, <2>2, <2>3, BesideInOrder
<1>. QED  BY <1>1, <1>2, <1>3 DEF AlertsInOrder

LEMMA StoreInOrder ==
    ASSUME BucketTypes, SweepsInPlace, AlertsInOrder, NEW s \in Sweep, NEW b \in Bucket, StoresRow(s, b)
    PROVE  AlertsInOrder'
<1>. DEFINE new == sweep[s].report[b]
<1>0. sweep[s] \in SweepTypes /\ SweepInPlace(s) /\ ReportsThere(s)
  BY DEF BucketTypes, SweepsInPlace
<1>1. /\ sweep'[s] = [sweep[s] EXCEPT !.of = {}, !.todo = @ \ {b}, !.derived = {b}]
      /\ bucketRow' = [bucketRow EXCEPT ![b] = new] /\ UNCHANGED <<alert, tangled, outdated>>
      /\ InStage(s, "storing") /\ b \in sweep[s].of
  BY StoreIs
<1>2. /\ sweep'[s].stage = "storing" /\ sweep'[s].of = {} /\ sweep'[s].derived = {b}
      /\ sweep'[s].prev = sweep[s].prev /\ sweep'[s].report = sweep[s].report
  BY <1>0, <1>1 DEF SweepTypes, InStage
<1>3. sweep[s].of = {b} /\ sweep[s].derived = {} /\ b \in sweep[s].todo /\ new.there
  BY <1>0, <1>1 DEF SweepInPlace, ReportsThere
<1>4. \A q \in Sweep \ {s} : sweep'[q] = sweep[q]
  BY OthersStay DEF ScanSteps
<1>5. unread' = IF new.versioning = "Enabled" THEN unread \ {b}
                ELSE IF Unlikely(sweep[s].prev.versioning, new.versioning) THEN unread \cup {b} ELSE unread
  BY DEF StoresRow
<1>6. bucketRow'[b] = new
  BY <1>1 DEF BucketTypes
<1>7. AlertInOrder(b)'
  <2>. SUFFICES ASSUME b \notin tangled' PROVE AlertInOrder(b)'
    BY DEF AlertInOrder
  <2>0. AlertInOrder(b) /\ b \notin tangled
    BY <1>1 DEF AlertsInOrder
  <2>1. \A q \in Sweep \ {s} : ~InHand(q, b) /\ ~InHand(q, b)'
    BY <1>1, <1>4, <2>0 DEF AlertInOrder, InHand
  <2>2. sweep[s].prev = bucketRow[b] /\ BucketAddsUp(bucketRow[b], alert[b], b \notin unread)
    BY <1>1, <2>0 DEF AlertInOrder, HandInOrder
  <2>3. bucketRow[b].versioning # IF b \notin unread THEN "unknown" ELSE "Enabled"
    BY DEF AlertsInOrder
  <2>4. (b \notin unread)' => new.versioning = "Enabled"
                              \/ (b \notin unread /\ ~Unlikely(bucketRow[b].versioning, new.versioning))
    BY <1>5, <2>2
  <2>5. bucketRow[b] \in BucketSnapshot /\ new \in BucketSnapshot /\ alert[b] \in Alert
    BY <1>0 DEF BucketTypes, SweepTypes
  <2>6. BucketAddsUp(new, Says(alert[b], bucketRow[b], new), b \notin unread')
    <3>. DEFINE off == b \notin unread
                offAfter == b \notin unread'
    <3>1. off \in BOOLEAN /\ offAfter \in BOOLEAN
      OBVIOUS
    <3>2. /\ bucketRow[b].versioning # IF off THEN "unknown" ELSE "Enabled"
          /\ offAfter => new.versioning = "Enabled"
                              \/ (off /\ ~Unlikely(bucketRow[b].versioning, new.versioning))
          /\ BucketAddsUp(bucketRow[b], alert[b], off)
      BY <2>2, <2>3, <2>4
    <3>. HIDE DEF off, offAfter
    <3>3. BucketAddsUp(new, Says(alert[b], bucketRow[b], new), offAfter)
      BY <1>3, <2>5, <3>1, <3>2, SaysAddUp
    <3>. QED  BY <3>3 DEF offAfter
  <2>7. HandInOrder(s, b)'
    BY <1>1, <1>2, <1>6, <2>2, <2>6 DEF HandInOrder, InStage
  <2>8. \A q \in Sweep \ {s} : HandInOrder(q, b)'
    BY <2>1 DEF HandInOrder, InHand
  <2>9. InHand(s, b)'
    BY <1>2 DEF InHand
  <2>. QED  BY <2>1, <2>7, <2>8, <2>9 DEF AlertInOrder
<1>8. ASSUME NEW x \in Bucket \ {b} PROVE AlertInOrder(x)'
  <2>1. AlertInOrder(x) /\ (x \notin tangled' => x \notin tangled)
    BY <1>1 DEF AlertsInOrder
  <2>2. bucketRow'[x] = bucketRow[x] /\ alert'[x] = alert[x] /\ (x \in unread' <=> x \in unread)
    BY <1>1, <1>5 DEF BucketTypes
  <2>3. ASSUME NEW q \in Sweep
        PROVE  /\ x \in sweep'[q].of <=> x \in sweep[q].of
               /\ x \in sweep'[q].derived <=> x \in sweep[q].derived
               /\ InHand(q, x) => /\ sweep'[q].stage = sweep[q].stage /\ sweep'[q].prev = sweep[q].prev
                                  /\ sweep'[q].report[x] = sweep[q].report[x]
    BY <1>2, <1>3, <1>4 DEF InHand
  <2>. QED  BY <2>1, <2>2, <2>3, BesideInOrder
<1>9. \A x \in Bucket : IF x \in unread' THEN bucketRow'[x].versioning # "Enabled"
                        ELSE bucketRow'[x].versioning # "unknown"
  <2>1. ASSUME NEW x \in Bucket \ {b}
        PROVE  IF x \in unread' THEN bucketRow'[x].versioning # "Enabled"
                        ELSE bucketRow'[x].versioning # "unknown"
    BY <1>1, <1>5 DEF AlertsInOrder, BucketTypes
  <2>2. IF b \in unread' THEN new.versioning # "Enabled" ELSE new.versioning # "unknown"
    BY <1>5 DEF Unlikely
  <2>. QED  BY <1>6, <2>1, <2>2
<1>. QED  BY <1>7, <1>8, <1>9 DEF AlertsInOrder

LEMMA TellInOrder ==
    ASSUME BucketTypes, SweepsInPlace, AlertsInOrder, NEW s \in Sweep, NEW b \in Bucket, TellsOfBucket(s, b)
    PROVE  AlertsInOrder'
<1>. DEFINE new == Says(alert[b], sweep[s].prev, sweep[s].report[b])
<1>0. sweep[s] \in SweepTypes /\ SweepInPlace(s)
  BY DEF BucketTypes, SweepsInPlace
<1>1. /\ InStage(s, "storing") /\ b \in sweep[s].derived /\ sweep'[s].stage = "storing"
      /\ sweep'[s].of = sweep[s].of /\ sweep'[s].derived = {}
  BY <1>0, TellIs DEF SweepTypes, InStage
<1>2. sweep[s].of = {} /\ sweep[s].derived = {b}
  BY <1>0, <1>1 DEF SweepInPlace
<1>3. \A q \in Sweep \ {s} : sweep'[q] = sweep[q]
  BY OthersStay DEF ScanSteps
<1>4. UNCHANGED <<bucketRow, tangled, unread>> /\ alert' = [alert EXCEPT ![b] = new]
  BY DEF TellsOfBucket
<1>5. alert'[b] = new
  BY <1>4 DEF BucketTypes
<1>6. AlertInOrder(b)'
  <2>. SUFFICES ASSUME b \notin tangled' PROVE AlertInOrder(b)'
    BY DEF AlertInOrder
  <2>0. AlertInOrder(b) /\ b \notin tangled
    BY <1>4 DEF AlertsInOrder
  <2>1. \A q \in Sweep : ~InHand(q, b)'
    BY <1>1, <1>2, <1>3, <2>0 DEF AlertInOrder, InHand
  <2>2. BucketAddsUp(bucketRow[b], new, b \notin unread)
    BY <1>1, <2>0 DEF AlertInOrder, HandInOrder
  <2>3. BucketAddsUp(bucketRow[b], alert[b], b \notin unread)'
    BY <1>4, <1>5, <2>2 DEF BucketAddsUp
  <2>4. \A q \in Sweep : HandInOrder(q, b)'
    BY <2>1 DEF HandInOrder, InHand
  <2>. QED  BY <2>1, <2>3, <2>4 DEF AlertInOrder
<1>7. ASSUME NEW x \in Bucket \ {b} PROVE AlertInOrder(x)'
  <2>1. AlertInOrder(x) /\ (x \notin tangled' => x \notin tangled)
    BY <1>4 DEF AlertsInOrder
  <2>2. bucketRow'[x] = bucketRow[x] /\ alert'[x] = alert[x] /\ (x \in unread' <=> x \in unread)
    BY <1>4 DEF BucketTypes
  <2>3. ASSUME NEW q \in Sweep
        PROVE  /\ x \in sweep'[q].of <=> x \in sweep[q].of
               /\ x \in sweep'[q].derived <=> x \in sweep[q].derived
               /\ InHand(q, x) => /\ sweep'[q].stage = sweep[q].stage /\ sweep'[q].prev = sweep[q].prev
                                  /\ sweep'[q].report[x] = sweep[q].report[x]
    BY <1>1, <1>2, <1>3 DEF InHand
  <2>. QED  BY <2>1, <2>2, <2>3, BesideInOrder
<1>. QED  BY <1>4, <1>6, <1>7 DEF AlertsInOrder

LEMMA SkipInOrder ==
    ASSUME BucketTypes, SweepsInPlace, AlertsInOrder, NEW s \in Sweep, NEW b \in Bucket, SkipsBucket(s, b)
    PROVE  AlertsInOrder'
<1>0. sweep[s] \in SweepTypes /\ SweepInPlace(s)
  BY DEF BucketTypes, SweepsInPlace
<1>1. /\ InStage(s, "storing") /\ b \in sweep[s].of
      /\ sweep'[s].of = {} /\ sweep'[s].derived = sweep[s].derived
      /\ UNCHANGED <<bucketRow, alert, tangled, unread>>
  BY <1>0 DEF BucketTypes, SweepTypes, SkipsBucket, InStage
<1>2. sweep[s].of = {b} /\ sweep[s].derived = {}
  BY <1>0, <1>1 DEF SweepInPlace
<1>3. \A q \in Sweep \ {s} : sweep'[q] = sweep[q]
  BY OthersStay DEF ScanSteps
<1>6. AlertInOrder(b)'
  <2>. SUFFICES ASSUME b \notin tangled' PROVE AlertInOrder(b)'
    BY DEF AlertInOrder
  <2>0. AlertInOrder(b) /\ b \notin tangled
    BY <1>1 DEF AlertsInOrder
  <2>1. \A q \in Sweep : ~InHand(q, b)'
    BY <1>1, <1>2, <1>3, <2>0 DEF AlertInOrder, InHand
  <2>2. BucketAddsUp(bucketRow[b], alert[b], b \notin unread)
    BY <1>1, <2>0 DEF AlertInOrder, HandInOrder
  <2>4. \A q \in Sweep : HandInOrder(q, b)'
    BY <2>1 DEF HandInOrder, InHand
  <2>. QED  BY <1>1, <2>1, <2>2, <2>4 DEF AlertInOrder
<1>7. ASSUME NEW x \in Bucket \ {b} PROVE AlertInOrder(x)'
  <2>1. AlertInOrder(x) /\ (x \notin tangled' => x \notin tangled)
    BY <1>1 DEF AlertsInOrder
  <2>2. bucketRow'[x] = bucketRow[x] /\ alert'[x] = alert[x] /\ (x \in unread' <=> x \in unread)
    BY <1>1
  <2>3. ASSUME NEW q \in Sweep
        PROVE  /\ x \in sweep'[q].of <=> x \in sweep[q].of
               /\ x \in sweep'[q].derived <=> x \in sweep[q].derived
               /\ InHand(q, x) => /\ sweep'[q].stage = sweep[q].stage /\ sweep'[q].prev = sweep[q].prev
                                  /\ sweep'[q].report[x] = sweep[q].report[x]
    BY <1>1, <1>2, <1>3 DEF InHand
  <2>. QED  BY <2>1, <2>2, <2>3, BesideInOrder
<1>. QED  BY <1>1, <1>6, <1>7 DEF AlertsInOrder

LEMMA DropInOrder ==
    ASSUME BucketTypes, SweepsInPlace, AlertsInOrder, NEW s \in Sweep, NEW b \in Bucket, DropsRow(s, b)
    PROVE  AlertsInOrder'
<1>0. sweep[s] \in SweepTypes /\ SweepInPlace(s)
  BY DEF BucketTypes, SweepsInPlace
<1>1. /\ InStage(s, "dropping") /\ sweep'[s].stage = "dropping" /\ sweep'[s].of = sweep[s].of
      /\ sweep'[s].derived = sweep[s].derived \cup {b}
      /\ sweep'[s].prev = sweep[s].prev /\ sweep'[s].report = sweep[s].report
      /\ bucketRow' = [bucketRow EXCEPT ![b] = NoRecord] /\ UNCHANGED <<alert, unread>>
      /\ tangled \subseteq tangled' /\ (Meets(s, b) => b \in tangled')
  BY <1>0 DEF BucketTypes, SweepTypes, DropsRow, InStage
<1>2. sweep[s].of = {}
  BY <1>0, <1>1 DEF SweepInPlace, InStage
<1>3. \A q \in Sweep \ {s} : sweep'[q] = sweep[q]
  BY OthersStay DEF ScanSteps
<1>4. bucketRow'[b] = NoRecord
  BY <1>1 DEF BucketTypes
<1>6. AlertInOrder(b)'
  <2>. SUFFICES ASSUME b \notin tangled' PROVE AlertInOrder(b)'
    BY DEF AlertInOrder
  <2>1. \A q \in Sweep \ {s} : ~InHand(q, b)'
    BY <1>1, <1>3 DEF Meets, InHand
  <2>2. InHand(s, b)'
    BY <1>1 DEF InHand
  <2>3. HandInOrder(s, b)'
    BY <1>1, <1>2, <1>4 DEF HandInOrder, InStage
  <2>4. \A q \in Sweep \ {s} : HandInOrder(q, b)'
    BY <2>1 DEF HandInOrder, InHand
  <2>. QED  BY <2>1, <2>2, <2>3, <2>4 DEF AlertInOrder
<1>7. ASSUME NEW x \in Bucket \ {b} PROVE AlertInOrder(x)'
  <2>1. AlertInOrder(x) /\ (x \notin tangled' => x \notin tangled)
    BY <1>1 DEF AlertsInOrder
  <2>2. bucketRow'[x] = bucketRow[x] /\ alert'[x] = alert[x] /\ (x \in unread' <=> x \in unread)
    BY <1>1 DEF BucketTypes
  <2>3. ASSUME NEW q \in Sweep
        PROVE  /\ x \in sweep'[q].of <=> x \in sweep[q].of
               /\ x \in sweep'[q].derived <=> x \in sweep[q].derived
               /\ InHand(q, x) => /\ sweep'[q].stage = sweep[q].stage /\ sweep'[q].prev = sweep[q].prev
                                  /\ sweep'[q].report[x] = sweep[q].report[x]
    BY <1>1, <1>2, <1>3 DEF InHand, InStage
  <2>. QED  BY <2>1, <2>2, <2>3, BesideInOrder
<1>8. \A x \in Bucket : IF x \in unread' THEN bucketRow'[x].versioning # "Enabled"
                        ELSE bucketRow'[x].versioning # "unknown"
  <2>1. NoRecord.versioning = "Disabled"
    BY DEF NoRecord
  <2>. QED  BY <1>1, <2>1 DEF AlertsInOrder, BucketTypes
<1>. QED  BY <1>6, <1>7, <1>8 DEF AlertsInOrder

LEMMA GoneInOrder ==
    ASSUME BucketTypes, SweepsInPlace, AlertsInOrder, NEW s \in Sweep, NEW b \in Bucket, TellsGone(s, b)
    PROVE  AlertsInOrder'
<1>0. sweep[s] \in SweepTypes /\ SweepInPlace(s)
  BY DEF BucketTypes, SweepsInPlace
<1>1. /\ InStage(s, "dropping") /\ b \in sweep[s].derived
      /\ sweep'[s].stage = "dropping" /\ sweep'[s].of = sweep[s].of
      /\ sweep'[s].derived = sweep[s].derived \ {b}
      /\ sweep'[s].prev = sweep[s].prev /\ sweep'[s].report = sweep[s].report
      /\ alert' = [alert EXCEPT ![b] = Silent] /\ UNCHANGED <<bucketRow, tangled, unread>>
  BY <1>0 DEF BucketTypes, SweepTypes, TellsGone, InStage
<1>2. sweep[s].of = {}
  BY <1>0, <1>1 DEF SweepInPlace, InStage
<1>3. \A q \in Sweep \ {s} : sweep'[q] = sweep[q]
  BY OthersStay DEF ScanSteps
<1>4. alert'[b] = Silent
  BY <1>1 DEF BucketTypes
<1>6. AlertInOrder(b)'
  <2>. SUFFICES ASSUME b \notin tangled' PROVE AlertInOrder(b)'
    BY DEF AlertInOrder
  <2>0. AlertInOrder(b) /\ b \notin tangled
    BY <1>1 DEF AlertsInOrder
  <2>1. \A q \in Sweep : ~InHand(q, b)'
    BY <1>1, <1>2, <1>3, <2>0 DEF AlertInOrder, InHand
  <2>2. bucketRow[b] = NoRecord
    BY <1>1, <2>0 DEF AlertInOrder, HandInOrder
  <2>3. BucketAddsUp(NoRecord, Silent, (b \notin unread)')
    BY DEF BucketAddsUp, NoRecord, Silent
  <2>4. \A q \in Sweep : HandInOrder(q, b)'
    BY <2>1 DEF HandInOrder, InHand
  <2>. QED  BY <1>1, <1>4, <2>1, <2>2, <2>3, <2>4 DEF AlertInOrder
<1>7. ASSUME NEW x \in Bucket \ {b} PROVE AlertInOrder(x)'
  <2>1. AlertInOrder(x) /\ (x \notin tangled' => x \notin tangled)
    BY <1>1 DEF AlertsInOrder
  <2>2. bucketRow'[x] = bucketRow[x] /\ alert'[x] = alert[x] /\ (x \in unread' <=> x \in unread)
    BY <1>1 DEF BucketTypes
  <2>3. ASSUME NEW q \in Sweep
        PROVE  /\ x \in sweep'[q].of <=> x \in sweep[q].of
               /\ x \in sweep'[q].derived <=> x \in sweep[q].derived
               /\ InHand(q, x) => /\ sweep'[q].stage = sweep[q].stage /\ sweep'[q].prev = sweep[q].prev
                                  /\ sweep'[q].report[x] = sweep[q].report[x]
    BY <1>1, <1>2, <1>3 DEF InHand, InStage
  <2>. QED  BY <2>1, <2>2, <2>3, BesideInOrder
<1>. QED  BY <1>1, <1>6, <1>7 DEF AlertsInOrder

LEMMA BreakInOrder ==
    ASSUME BucketTypes, AlertsInOrder, NEW s \in Sweep, SweepBreaks(s)
    PROVE  AlertsInOrder'
<1>1. /\ sweep'[s].of = {} /\ sweep'[s].derived = {}
      /\ tangled' = tangled \cup sweep[s].derived /\ UNCHANGED <<bucketRow, alert, unread>>
  BY DEF BucketTypes, SweepBreaks, NoSweep
<1>2. \A q \in Sweep \ {s} : sweep'[q] = sweep[q]
  BY OthersStay DEF ScanSteps
<1>3. ASSUME NEW x \in Bucket, x \notin tangled' PROVE AlertInOrder(x)'
  <2>0. AlertInOrder(x) /\ x \notin tangled /\ x \notin sweep[s].derived
    BY <1>1, <1>3 DEF AlertsInOrder
  <2>1. ~InHand(s, x)' /\ \A q \in Sweep \ {s} : InHand(q, x)' <=> InHand(q, x)
    BY <1>1, <1>2 DEF InHand
  <2>2. HandInOrder(s, x)'
    BY <1>1 DEF HandInOrder
  <2>3. \A q \in Sweep \ {s} : HandInOrder(q, x)'
    BY <1>1, <1>2, <2>0 DEF AlertInOrder, HandInOrder, InStage
  <2>4. x \in sweep[s].of => BucketAddsUp(bucketRow[x], alert[x], x \notin unread)
    BY <2>0 DEF AlertInOrder, HandInOrder
  <2>5. (\A q \in Sweep : ~InHand(q, x)') => BucketAddsUp(bucketRow[x], alert[x], x \notin unread)
    BY <2>0, <2>1, <2>4 DEF AlertInOrder, InHand
  <2>. QED  BY <1>1, <2>0, <2>1, <2>2, <2>3, <2>5 DEF AlertInOrder
<1>4. ASSUME NEW x \in Bucket PROVE AlertInOrder(x)'
  BY <1>3 DEF AlertInOrder
<1>. QED  BY <1>1, <1>4 DEF AlertsInOrder

LEMMA BucketScanInOrder ==
    ASSUME BucketTypes, SweepsInPlace, AlertsInOrder, NEW s \in Sweep, ScanSteps(s)
    PROVE  AlertsInOrder'
<1>0. sweep[s] \in SweepTypes /\ SweepInPlace(s)
  BY DEF BucketTypes, SweepsInPlace
<1>1. \A q \in Sweep \ {s} : sweep'[q] = sweep[q]
  BY OthersStay
<1>2. ASSUME NEW b \in Bucket, ReadsBlock(s, b) \/ ReadsRest(s, b) \/ Unexamined(s, b) PROVE AlertsInOrder'
  <2>1. InStage(s, "reading")
    BY <1>2, ReadsBlockIs, FilledIs, UpToOne
  <2>2. UNCHANGED <<bucketRow, alert, unread, tangled>>
    BY <1>2 DEF ReadsBlock, ReadsRest, Examined, Unexamined
  <2>3. SweepInPlace(s)' /\ InStage(s, "reading")'
    <3>1. SweepInPlace(s)'
      BY <1>2, ReadingInPlace
    <3>2. CASE ReadsBlock(s, b)
      BY <1>0, <2>1, <3>1, <3>2, ReadsBlockIs DEF InStage, SweepTypes
    <3>3. CASE ReadsRest(s, b) \/ Unexamined(s, b)
      <4>1. PICK new \in BucketSnapshot : sweep'[s] = Filled(s, b, new)
        BY <3>3, FilledIs
      <4>. QED  BY <1>0, <2>1, <3>1, <4>1 DEF InStage, SweepTypes, Filled
    <3>. QED  BY <1>2, <3>1, <3>2, <3>3
  <2>4. sweep[s].of = {} /\ sweep[s].derived = {} /\ sweep'[s].of = {} /\ sweep'[s].derived = {}
    BY <1>0, <2>1, <2>3 DEF SweepInPlace, InStage
  <2>. QED  BY <1>1, <2>2, <2>4, HandlessInOrder
<1>3. ASSUME NEW a \in Account, ListsBuckets(s, a) PROVE AlertsInOrder'
  <2>1. InStage(s, "idle") /\ sweep'[s].of = {} /\ sweep'[s].derived = {}
    BY <1>3 DEF BucketTypes, ListsBuckets, NoSweep
  <2>2. sweep[s].of = {} /\ sweep[s].derived = {}
    BY <1>0, <2>1 DEF SweepInPlace, InStage
  <2>. QED  BY <1>1, <1>3, <2>1, <2>2, HandlessInOrder DEF ListsBuckets
<1>4. CASE ShipsReport(s) \/ Completes(s)
  <2>1. /\ sweep'[s].of = sweep[s].of /\ sweep'[s].derived = sweep[s].derived
        /\ UNCHANGED <<bucketRow, alert, unread>> /\ tangled \subseteq tangled'
    BY <1>0, <1>4 DEF BucketTypes, SweepTypes, ShipsReport, Completes
  <2>2. sweep[s].of = {} /\ sweep[s].derived = {}
    BY <1>0, <1>4 DEF SweepInPlace, InStage, ShipsReport, Completes
  <2>. QED  BY <1>1, <2>1, <2>2, HandlessInOrder
<1>5. CASE SweepEnds(s)
  <2>1. /\ sweep'[s].of = {} /\ sweep'[s].derived = {} /\ UNCHANGED <<bucketRow, alert, unread, tangled>>
    BY <1>5 DEF BucketTypes, SweepEnds, NoSweep
  <2>2. sweep[s].of = {} /\ sweep[s].derived = {}
    BY <1>0, <1>5 DEF SweepInPlace, InStage, SweepEnds
  <2>. QED  BY <1>1, <2>1, <2>2, HandlessInOrder
<1>. QED  BY <1>2, <1>3, <1>4, <1>5, LooksInOrder, StoreInOrder, TellInOrder, SkipInOrder, DropInOrder,
          GoneInOrder, BreakInOrder DEF ScanSteps

LEMMA BucketStarts == BucketInit => BucketInv
<1>. SUFFICES ASSUME BucketInit PROVE BucketInv
  OBVIOUS
<1>0. bucket \in [Bucket -> Config]
  <2>1. NewBucket \in Config /\ Exposed \in Config
    BY DEF Config, Exposed, NewBucket, NoBucket, Versioning
  <2>. QED  BY <2>1 DEF BucketInit
<1>1. BucketTypes
  BY <1>0, EmptySweep, BucketAssumption DEF BucketInit, BucketTypes, Alert, Silent
<1>2. \A s \in Sweep : sweep[s] = NoSweep /\ outdated[s] = {}
  BY DEF BucketInit
<1>3. SweepsInPlace
  BY <1>2 DEF SweepsInPlace, SweepInPlace, ReportsThere, NoSweep, InStage
<1>4. SweepsKnow
  BY <1>2 DEF SweepsKnow, Knows, NoSweep, InStage
<1>5. RowsTell
  BY DEF BucketInit, RowsTell
<1>6. BucketAddsUp(NoRecord, Silent, TRUE)
  BY DEF BucketAddsUp, NoRecord, Silent
<1>7. AlertsInOrder
  <2>1. \A b \in Bucket, s \in Sweep : ~InHand(s, b)
    BY <1>2 DEF InHand, NoSweep
  <2>2. \A b \in Bucket : bucketRow[b] = NoRecord /\ alert[b] = Silent /\ b \notin unread
    BY DEF BucketInit
  <2>3. NoRecord.versioning = "Disabled"
    BY DEF NoRecord
  <2>4. ASSUME NEW b \in Bucket PROVE AlertInOrder(b)
    BY <1>6, <2>1, <2>2, <2>4 DEF AlertInOrder, HandInOrder, InHand
  <2>. QED  BY <2>2, <2>3, <2>4 DEF AlertsInOrder
<1>. QED  BY <1>1, <1>3, <1>4, <1>5, <1>7 DEF BucketInv

LEMMA BucketStep == BucketInv /\ BucketNext => BucketInv'
<1>. SUFFICES ASSUME BucketInv, BucketNext PROVE BucketInv'
  OBVIOUS
<1>0. BucketTypes /\ SweepsInPlace /\ SweepsKnow /\ RowsTell /\ AlertsInOrder
  BY DEF BucketInv
<1>1. ASSUME NEW b \in Bucket, BucketChanges(b) PROVE BucketInv'
  <2>1. PICK c \in Config : Stir(b, c)
    BY <1>0, <1>1, ChangesAreStirs
  <2>2. BucketTypes'
    BY <1>0, <2>1, StirTypes
  <2>. QED  BY <2>1, <2>2, StirKept DEF BucketInv
<1>2. ASSUME NEW s \in Sweep, ScanSteps(s) PROVE BucketInv'
  <2>1. BucketTypes'
    BY <1>0, <1>2, ScanTypes
  <2>2. SweepsInPlace' /\ SweepsKnow' /\ RowsTell' /\ AlertsInOrder'
    BY <1>0, <1>2, ScanInPlace, ScanKnows, ScanRowsTell, BucketScanInOrder
  <2>. QED  BY <2>1, <2>2 DEF BucketInv
<1>. QED  BY <1>1, <1>2, BucketSteps

LEMMA BucketRests == BucketInv /\ UNCHANGED bucketVars => BucketInv'
BY DEF BucketInv, bucketVars, BucketTypes, SweepsInPlace, SweepInPlace, ReportsThere, SweepsKnow, Knows, BlockedNow,
       RowsTell, AlertsInOrder, AlertInOrder, HandInOrder, InHand, InStage

LEMMA BucketCovers == BucketInv => BucketTypeOK /\ BucketsTold
<1>. SUFFICES ASSUME BucketInv PROVE BucketTypeOK /\ BucketsTold
  OBVIOUS
<1>1. ASSUME NEW s \in Sweep PROVE Cardinality(sweep[s].of) <= 1
  <2>1. \A x, y \in sweep[s].of : x = y
    BY DEF BucketInv, SweepsInPlace, SweepInPlace
  <2>2. CASE sweep[s].of = {}
    BY <2>2, FS_EmptySet
  <2>3. CASE sweep[s].of # {}
    <3>1. PICK b \in sweep[s].of : TRUE
      BY <2>3
    <3>2. sweep[s].of = {b}
      BY <2>1, <3>1
    <3>3. Cardinality({b}) = 1
      BY FS_Singleton
    <3>. QED  BY <3>2, <3>3
  <2>. QED  BY <2>2, <2>3
<1>2. BucketTypeOK
  BY <1>1 DEF BucketInv, BucketTypes, BucketTypeOK, SweepTypes
<1>3. BucketsTold
  BY DEF BucketInv, RowsTell, AlertsInOrder, AlertInOrder, BucketAddsUp, BucketsTold
<1>. QED  BY <1>2, <1>3

(* The events told of a bucket add up to its row, and the row is what the  *)
(* bucket is if nothing changed or failed since its list was made, however *)
(* scans overlap (aws_s3_drift.py).                                        *)
THEOREM BucketsHold == BucketSpec => [](BucketTypeOK /\ BucketsTold)
<1>. QED  BY BucketStarts, BucketStep, BucketRests, BucketCovers, PTL DEF BucketSpec
=============================================================================
