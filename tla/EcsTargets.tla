------------------------------ MODULE EcsTargets ------------------------------
(***************************************************************************)
(* Which services are watched: a discovery (scripts/ecs_discover.py)       *)
(* writes the list of a VPC into an SSM parameter, the probe in the VPC    *)
(* (scripts/ecs_probe.py) fetches it and keeps it in memory and on disk,   *)
(* and every drain of the probe's queue (connectors/aws_ecs_probe_sqs.py)  *)
(* mirrors it into probe_targets, row by row.  Ports, names, tags and      *)
(* severities are left out.                                                *)
(***************************************************************************)
EXTENDS FiniteSets, Naturals

CONSTANTS
    Service,
    Sync,       \* drains that may overlap
    MaxTurns,   \* bound: changes of the cluster and of rows by an operator
    MaxOutages  \* bound: calls that fail and processes that restart

ASSUME TargetsAssumption == MaxTurns \in Nat /\ MaxOutages \in Nat

VARIABLES
    cluster,    \* the services of the cluster as ECS describes them
    discovered, \* lists that were discovered and not yet written
    param,    \* the SSM parameter; {} before the first list
    held,     \* the list in the memory of the probe
    onDisk,   \* the list in its cache on disk
    targetRow, \* probe_targets
    sync,     \* what each drain is doing
    muddled,  \* drains that met another list, or an operator, on the way (ghost)
    fresh,    \* which copies were taken from the list that is in param (ghost)
    turns, outages

targetVars == <<cluster, discovered, param, held, onDisk, targetRow, sync, muddled, fresh, turns, outages>>

TargetList == [Service -> {"absent", "off", "on"}]
NoSync     == [stage |-> "idle", list |-> {}, todo |-> {}]

TargetsTypeOK ==
    /\ cluster \in [Service -> {"gone", "unreachable", "live"}] /\ discovered \subseteq TargetList
    /\ \A copy \in {param, held, onDisk} : copy \subseteq TargetList /\ Cardinality(copy) <= 1
    /\ targetRow \in TargetList
    /\ \A q \in Sync :
           /\ sync[q].stage \in {"idle", "upserting", "disabling"} /\ sync[q].todo \subseteq Service
           /\ sync[q].list \subseteq TargetList /\ (sync[q].list = {} <=> sync[q].stage = "idle")
    /\ muddled \subseteq Sync /\ fresh \subseteq {"held", "onDisk", "rows"}
    /\ turns \in 0..MaxTurns /\ outages \in 0..MaxOutages

TargetsInit ==
    /\ cluster \in [Service -> {"gone", "live"}] /\ discovered = {}
    /\ param = {} /\ held = {} /\ onDisk = {}
    /\ targetRow = [s \in Service |-> "absent"]
    /\ sync = [q \in Sync |-> NoSync] /\ muddled = {} /\ fresh = {}
    /\ turns = 0 /\ outages = 0

Outage == outages < MaxOutages /\ outages' = outages + 1

-----------------------------------------------------------------------------
(* The cluster and its discovery                                           *)

ServiceTurns(s) ==
    /\ turns < MaxTurns /\ turns' = turns + 1
    /\ \E as \in {"gone", "unreachable", "live"} : as # cluster[s] /\ cluster' = [cluster EXCEPT ![s] = as]
    /\ UNCHANGED <<discovered, param, held, onDisk, targetRow, sync, muddled, fresh, outages>>

(* A service without a port, without a name in Cloud Map, or scaled to     *)
(* zero is listed, and not to be probed.                                   *)
Entry(as) == IF as = "gone" THEN "absent" ELSE IF as = "live" THEN "on" ELSE "off"

Discovers ==
    /\ discovered' = discovered \cup {[s \in Service |-> Entry(cluster[s])]}
    /\ UNCHANGED <<cluster, param, held, onDisk, targetRow, sync, muddled, fresh, turns, outages>>

(* Discoveries may overlap: the last one to write wins.                    *)
PutsParam(l) ==
    /\ l \in discovered
    /\ discovered' = discovered \ {l} /\ param' = {l} /\ fresh' = {}
    /\ UNCHANGED <<cluster, held, onDisk, targetRow, sync, muddled, turns, outages>>

-----------------------------------------------------------------------------
(* The probe                                                               *)

(* The cache is written after the list is taken; a failed write is not     *)
(* fatal.                                                                  *)
FetchesTargets ==
    /\ param # {} /\ held' = param
    /\ \/ onDisk' = param /\ fresh' = fresh \cup {"held", "onDisk"} /\ UNCHANGED outages
       \/ Outage /\ fresh' = fresh \cup {"held"} /\ UNCHANGED onDisk
    /\ UNCHANGED <<cluster, discovered, param, targetRow, sync, muddled, turns>>

IsEmpty(copy) == \A l \in copy, s \in Service : l[s] = "absent"

(* What a failed fetch leaves in memory.  Mutant: the cache, always.       *)
FromCache == onDisk
Fallback  == IF IsEmpty(held) /\ onDisk # {} THEN onDisk ELSE held

FetchFails ==
    /\ Outage /\ held' = Fallback
    /\ fresh' = IF ~IsEmpty(held) \/ onDisk = {} THEN fresh
                ELSE IF "onDisk" \in fresh THEN fresh \cup {"held"} ELSE fresh \ {"held"}
    /\ UNCHANGED <<cluster, discovered, param, onDisk, targetRow, sync, muddled, turns>>

(* Another task of the service starts; its disk may be a new one.          *)
ProbeRestarts ==
    /\ Outage /\ held' = {}
    /\ \/ fresh' = fresh \ {"held"} /\ UNCHANGED onDisk
       \/ fresh' = fresh \ {"held", "onDisk"} /\ onDisk' = {}
    /\ UNCHANGED <<cluster, discovered, param, targetRow, sync, muddled, turns>>

-----------------------------------------------------------------------------
(* _sync_targets_from_ssm, at the start of every drain                     *)

Syncing(q) == sync[q].stage # "idle"
Names(q)   == UNION {{s \in Service : l[s] # "absent"} : l \in sync[q].list}

SyncReads(q) ==
    /\ ~Syncing(q) /\ param # {}
    /\ sync' = [sync EXCEPT ![q] = [stage |-> "upserting", list |-> param,
                                    todo |-> UNION {{s \in Service : l[s] # "absent"} : l \in param}]]
    /\ LET met == {x \in Sync \ {q} : Syncing(x) /\ sync[x].list # param}
       IN  muddled' = (muddled \ {q}) \cup met \cup (IF met = {} THEN {} ELSE {q})
    /\ UNCHANGED <<cluster, discovered, param, held, onDisk, targetRow, fresh, turns, outages>>

SyncUpserts(q, s) ==
    /\ sync[q].stage = "upserting" /\ s \in sync[q].todo
    /\ \E l \in sync[q].list : targetRow' = [targetRow EXCEPT ![s] = l[s]]
    /\ sync' = [sync EXCEPT ![q].todo = @ \ {s}]
    /\ UNCHANGED <<cluster, discovered, param, held, onDisk, muddled, fresh, turns, outages>>

(* Rows the list no longer has.  Mutant: they are left as they are.        *)
NoneLeft(q) == {}
Leftover(q) == {s \in Service : targetRow[s] = "on"} \ Names(q)

SyncLooks(q) ==
    /\ sync[q].stage = "upserting" /\ sync[q].todo = {}
    /\ sync' = [sync EXCEPT ![q].stage = "disabling", ![q].todo = Leftover(q)]
    /\ UNCHANGED <<cluster, discovered, param, held, onDisk, targetRow, muddled, fresh, turns, outages>>

(* The row is upserted as it was read, disabled.                           *)
SyncDisables(q, s) ==
    /\ sync[q].stage = "disabling" /\ s \in sync[q].todo
    /\ targetRow' = [targetRow EXCEPT ![s] = "off"]
    /\ sync' = [sync EXCEPT ![q].todo = @ \ {s}]
    /\ UNCHANGED <<cluster, discovered, param, held, onDisk, muddled, fresh, turns, outages>>

SyncEnds(q) ==
    /\ sync[q].stage = "disabling" /\ sync[q].todo = {}
    /\ sync' = [sync EXCEPT ![q] = NoSync] /\ muddled' = muddled \ {q}
    /\ fresh' = IF /\ sync[q].list = param /\ q \notin muddled
                   /\ \A x \in Sync : Syncing(x) => sync[x].list = param /\ x \notin muddled
                THEN fresh \cup {"rows"} ELSE fresh
    /\ UNCHANGED <<cluster, discovered, param, held, onDisk, targetRow, turns, outages>>

(* A statement raises, or the process restarts: the drain fails half-way.  *)
SyncBreaks(q) ==
    /\ Syncing(q) /\ Outage
    /\ sync' = [sync EXCEPT ![q] = NoSync] /\ muddled' = muddled \ {q}
    /\ UNCHANGED <<cluster, discovered, param, held, onDisk, targetRow, fresh, turns>>

(* An operator switches or deletes a row (ui/views.py): the next drain     *)
(* writes it as the list has it.                                           *)
OperatorEdits(s) ==
    /\ turns < MaxTurns /\ turns' = turns + 1
    /\ targetRow[s] # "absent"
    /\ \E as \in {"absent", "on", "off"} : targetRow' = [targetRow EXCEPT ![s] = as]
    /\ muddled' = {q \in Sync : Syncing(q)} /\ fresh' = fresh \ {"rows"}
    /\ UNCHANGED <<cluster, discovered, param, held, onDisk, sync, outages>>

TargetsNext ==
    \/ \E s \in Service : ServiceTurns(s) \/ OperatorEdits(s)
    \/ Discovers \/ \E l \in discovered : PutsParam(l)
    \/ FetchesTargets \/ FetchFails \/ ProbeRestarts
    \/ \E q \in Sync : \/ SyncReads(q) \/ SyncLooks(q) \/ SyncEnds(q) \/ SyncBreaks(q)
                       \/ \E s \in Service : SyncUpserts(q, s) \/ SyncDisables(q, s)

TargetsSpec == TargetsInit /\ [][TargetsNext]_targetVars

-----------------------------------------------------------------------------

(* The probe checks what probe_targets has enabled, once both were taken   *)
(* from the list that is in the parameter now: services that left the list *)
(* are disabled although the list is mirrored row by row, and a fetch that *)
(* fails or a probe that starts again never turn the probe back to an      *)
(* older list, or to none, unless its cache was lost or never written.     *)
(* Drains that mirror different lists at the same time are excepted until  *)
(* one runs alone.                                                         *)
TargetsAgree ==
    /\ "rows" \in fresh => \A l \in param, s \in Service :
           IF l[s] = "absent" THEN targetRow[s] # "on" ELSE targetRow[s] = l[s]
    /\ "held" \in fresh => held = param
    /\ "onDisk" \in fresh => onDisk = param
    /\ {"held", "rows"} \subseteq fresh =>
           \A l \in held : {s \in Service : l[s] = "on"} = {s \in Service : targetRow[s] = "on"}
=============================================================================
