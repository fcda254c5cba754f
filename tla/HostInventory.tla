----------------------------- MODULE HostInventory -----------------------------
(***************************************************************************)
(* What a host reports it has (hosts/diff.py, _project_snapshot in         *)
(* hosts/projection.py): each snapshot is compared with the stored one and *)
(* the differences are told, and a process name is told the first time it  *)
(* is seen.  One item of one section, with a version where the section has *)
(* hashes, and one process beside others that always run; sections and     *)
(* items are compared alike and independently.  A snapshot misses sections *)
(* that a collector failed to build or that were dropped to fit a message. *)
(* Snapshots come in any order, so with any content at any time; they are  *)
(* projected one after the other.                                          *)
(***************************************************************************)
EXTENDS FiniteSets, Naturals

CONSTANTS
    MaxArrived, \* bound: snapshots
    MaxShocks   \* bound: crashes while one is projected

ASSUME InventoryAssumption == MaxArrived \in Nat /\ MaxShocks \in Nat

VARIABLES
    stored,    \* the snapshots of host_status, {} before the first
    projected, \* what is about to be stored, and then told
    arrived, shocks,
    toldItem,  \* the item as the events tell it, counted from the first of each
               \* row of snapshots that have its section (ghost)
    toldProc,  \* how often the process was told as first seen (ghost)
    unsaid     \* the item, the process: an event was lost (ghost)

inventoryVars == <<stored, projected, arrived, shocks, toldItem, toldProc, unsaid>>

Items   == {"missing", "gone", "v1", "v2"}
Report  == [item : Items, procs : {"missing", "without", "with"}]
HostRow == [item : Items, seen : {"nothing", "others", "all"}]  \* seen_process_comms

InventoryTypeOK ==
    /\ stored \subseteq HostRow /\ Cardinality(stored) <= 1
    /\ Cardinality(projected) <= 1
    /\ \A x \in projected :
          /\ x.phase \in {"found", "told"} /\ x.next \in HostRow
          /\ x.says \subseteq {"item", "process"} /\ x.anew \in BOOLEAN
    /\ arrived \in 0..MaxArrived /\ shocks \in 0..MaxShocks /\ toldItem \in Items
    /\ toldProc \in 0..MaxArrived /\ unsaid \subseteq {"item", "process"}

InventoryInit ==
    /\ stored = {} /\ projected = {} /\ arrived = 0 /\ shocks = 0
    /\ toldItem = "missing" /\ toldProc = 0 /\ unsaid = {}

-----------------------------------------------------------------------------

(* Mutant: the names seen are kept only beside a list of processes.        *)
SeesOnlyListed(r, was) == CASE r.procs = "missing" -> "nothing"
                            [] r.procs = "with"    -> "all"
                            [] OTHER -> IF was = "all" THEN "all" ELSE "others"
Sees(r, was) == CASE r.procs = "missing" -> was
                  [] r.procs = "with"    -> "all"
                  [] OTHER -> IF was = "all" THEN "all" ELSE "others"

(* Only sections that are in both snapshots are compared.                  *)
ItemDiffers(r, s) == "missing" \notin {r.item, s.item} /\ r.item # s.item

(* The first snapshot tells nothing, nor does one before any names were    *)
(* stored.                                                                 *)
FirstSeen(r, s) == s.seen = "others" /\ r.procs = "with"

Differences(r, s) == {x \in {"item", "process"} : IF x = "item" THEN ItemDiffers(r, s) ELSE FirstSeen(r, s)}

ReadsStored ==
    /\ projected = {} /\ arrived < MaxArrived /\ arrived' = arrived + 1
    /\ \E r \in Report :
          LET was == IF stored = {} THEN "nothing" ELSE (CHOOSE s \in stored : TRUE).seen
          IN  projected' =
                 {[phase |-> "found", next |-> [item |-> r.item, seen |-> Sees(r, was)],
                   says |-> UNION {Differences(r, s) : s \in stored},
                   anew |-> \A s \in stored : "missing" \in {s.item, r.item}]}
    /\ UNCHANGED <<stored, shocks, toldItem, toldProc, unsaid>>

(* The stored snapshots are replaced, whichever is newer.  Events go into  *)
(* the pipeline after that.                                                *)
StoresSnapshot ==
    \E x \in projected :
       /\ x.phase = "found" /\ stored' = {x.next}
       /\ projected' = {[x EXCEPT !.phase = "told"]}
       /\ IF x.anew THEN toldItem' = x.next.item /\ unsaid' = unsaid \ {"item"}
          ELSE UNCHANGED <<toldItem, unsaid>>
       /\ UNCHANGED <<arrived, shocks, toldProc>>

TellsChanges ==
    \E x \in projected :
       /\ x.phase = "told" /\ projected' = {}
       /\ toldItem' = IF "item" \in x.says THEN x.next.item ELSE toldItem
       /\ toldProc' = toldProc + Cardinality(x.says \cap {"process"})
       /\ UNCHANGED <<stored, arrived, shocks, unsaid>>

(* The process dies, or a statement raises.  The report's own event is     *)
(* stored: it is not projected again.                                      *)
ProjectionDies ==
    \E x \in projected :
       /\ shocks < MaxShocks /\ shocks' = shocks + 1
       /\ projected' = {} /\ unsaid' = IF x.phase = "told" THEN unsaid \cup x.says ELSE unsaid
       /\ UNCHANGED <<stored, arrived, toldItem, toldProc>>

InventoryNext ==
    ReadsStored \/ StoresSnapshot \/ TellsChanges \/ ProjectionDies

InventorySpec == InventoryInit /\ [][InventoryNext]_inventoryVars

-----------------------------------------------------------------------------

(* The changes told of a host add up: whenever no report is being worked   *)
(* on, the item is as the events tell it, counted from the first snapshot  *)
(* of every row of snapshots that have its section; a process is told as   *)
(* first seen at most once, also when snapshots without the list of        *)
(* processes or older ones come in between.  Excepted are events lost with *)
(* the thread that stored the snapshot.                                    *)
InventoryTold ==
    projected = {} =>
       \A s \in stored :
          /\ s.item = toldItem \/ "item" \in unsaid
          /\ toldProc <= 1 /\ (toldProc = 1 => s.seen = "all")
=============================================================================
