------------------------------ MODULE FileActors ------------------------------
(***************************************************************************)
(* Who changed a file (scripts/fim_engine.py, AuditReaderThread): the      *)
(* reader of the audit log puts the records of a write together and keeps  *)
(* the last writer of a path for a moment, in which the file integrity     *)
(* engine may ask for it.  One watched path; records of writes to it may   *)
(* mix in the log.  Writes to other paths only push this one out.          *)
(***************************************************************************)
EXTENDS Integers, Sequences

CONSTANTS
    Writer,       \* processes that write the file once
    FreshFor,     \* _AUDIT_WINDOW_SEC
    SweepAfter,   \* age of a partial event that is committed as it is
    MaxSecond,    \* bound: time
    MaxRotations  \* bound: rotations of the log, and writers pushed out of the map

VARIABLES
    second,     \* the time
    wroteAt,    \* when each writer wrote, -1 before
    pending,    \* records of each write that are not in the log yet
    auditLog,   \* records that are not read yet
    partial,    \* _partials: nothing, or what was read of an event, and when
    recent,     \* the entry of the path in _recent: {} or its writer and time
    finished,   \* writers in the order in which their last record was logged (ghost)
    missed,     \* writers that gave a relative path, had records skipped, whose entry
                \* the cap displaced, or who were passed over by a swept event (ghost)
    late,       \* writers committed in a later second than they wrote (ghost)
    rotations

actorVars == <<second, wroteAt, pending, auditLog, partial, recent, finished,
               missed, late, rotations>>

ASSUME ActorsAssumption ==
    {SweepAfter, MaxSecond, MaxRotations} \subseteq Nat /\ FreshFor \in 0..SweepAfter

RecordKinds  == {"syscall", "path", "relative path", "proctitle"}
NoPart == [stage |-> "none", since |-> 0]

ActorsTypeOK ==
    /\ second \in 0..MaxSecond /\ rotations \in 0..MaxRotations
    /\ wroteAt \in [Writer -> -1..MaxSecond]
    /\ pending \in [Writer -> Seq(RecordKinds)] /\ auditLog \in Seq(Writer \X RecordKinds)
    /\ partial \in [Writer -> [stage : {"none", "actor", "path"}, since : 0..MaxSecond]]
    /\ recent \subseteq Writer \X (0..MaxSecond) /\ (\A x, y \in recent : x = y)
    /\ finished \in Seq(Writer) /\ missed \subseteq Writer /\ late \subseteq Writer

ActorsInit ==
    /\ second = 0 /\ wroteAt = [w \in Writer |-> -1] /\ pending = [w \in Writer |-> <<>>]
    /\ auditLog = <<>> /\ partial = [w \in Writer |-> NoPart] /\ recent = {}
    /\ finished = <<>> /\ missed = {} /\ late = {} /\ rotations = 0

-----------------------------------------------------------------------------
(* The kernel logs a write; a process may have named the path relatively,  *)
(* and the last record of an event may be missing.                         *)
WritesFile(w) ==
    /\ wroteAt[w] = -1 /\ wroteAt' = [wroteAt EXCEPT ![w] = second]
    /\ \E name \in {"path", "relative path"} :
          /\ \E records \in {<<"syscall", name>>, <<"syscall", name, "proctitle">>} :
                pending' = [pending EXCEPT ![w] = records]
          /\ missed' = IF name = "path" THEN missed ELSE missed \cup {w}
    /\ UNCHANGED <<second, auditLog, partial, recent, finished, late, rotations>>

LogsRecord(w) ==
    /\ pending[w] # <<>>
    /\ auditLog' = Append(auditLog, <<w, Head(pending[w])>>)
    /\ pending' = [pending EXCEPT ![w] = Tail(@)]
    /\ finished' = IF Len(pending[w]) = 1 THEN Append(finished, w) ELSE finished
    /\ UNCHANGED <<second, wroteAt, partial, recent, missed, late, rotations>>

ASecondPasses ==
    /\ second < MaxSecond /\ second' = second + 1
    /\ \A w \in Writer : pending[w] = <<>>
    /\ UNCHANGED <<wroteAt, pending, auditLog, partial, recent, finished, missed, late, rotations>>

(* _add, of the paths that were read: the time is that of the reading.     *)
(* Mutant: the entry keeps the first writer it has.                        *)
AddsOnce(w) == IF recent = {} /\ partial[w].stage = "path" THEN {<<w, second>>} ELSE recent

Adds(w) == IF partial[w].stage = "path" THEN {<<w, second>>} ELSE recent

Commits(w) ==
    /\ recent' = Adds(w)
    /\ partial' = [partial EXCEPT ![w] = NoPart]
    /\ late' = IF second > wroteAt[w] THEN late \cup {w} ELSE late

(* _process_line.                                                          *)
ReadsRecord ==
    /\ auditLog # <<>> /\ auditLog' = Tail(auditLog)
    /\ LET w == Head(auditLog)[1]
           kind == Head(auditLog)[2]
       IN  CASE kind = "syscall" ->
                  /\ partial' = [partial EXCEPT ![w] = [stage |-> "actor", since |-> second]]
                  /\ UNCHANGED <<recent, late>>
             [] kind = "proctitle" /\ partial[w].stage # "none" -> Commits(w)
             [] kind = "path" /\ partial[w].stage # "none" ->
                  /\ partial' = [partial EXCEPT ![w].stage = "path"]
                  /\ UNCHANGED <<recent, late>>
             [] OTHER -> UNCHANGED <<partial, recent, late>>
    /\ UNCHANGED <<second, wroteAt, pending, finished, missed, rotations>>

Unread(w)   == partial[w] # NoPart \/ \E i \in DOMAIN auditLog : auditLog[i][1] = w
Later(v, w) == \E i, j \in DOMAIN finished : i > j /\ finished[i] = v /\ finished[j] = w

(* _sweep_stale_partials, at the end of the log: in the order in which     *)
(* their events began.  An entry of a swept event is the last, whoever     *)
(* wrote after.                                                            *)
Sweeps(w) ==
    /\ auditLog = <<>> /\ partial[w].stage # "none"
    /\ second - partial[w].since > SweepAfter
    /\ \A v \in Writer : partial[v].stage # "none" => partial[v].since >= partial[w].since
    /\ Commits(w)
    /\ missed' = IF partial[w].stage = "path"
                 THEN missed \cup {v \in Writer : Later(v, w) /\ ~Unread(v)} ELSE missed
    /\ UNCHANGED <<second, wroteAt, pending, auditLog, finished, rotations>>

(* _loop: the reader opens a rotated log at its end.                       *)
LogRotates ==
    /\ rotations < MaxRotations /\ rotations' = rotations + 1
    /\ auditLog' = <<>>
    /\ missed' = missed \cup {w \in Writer : \E i \in DOMAIN auditLog : auditLog[i][1] = w}
    /\ UNCHANGED <<second, wroteAt, pending, partial, recent, finished, late>>

(* _add of another path at the cap: out goes the entry that came first.    *)
PushedOut ==
    /\ rotations < MaxRotations /\ rotations' = rotations + 1
    /\ missed' = missed \cup {x[1] : x \in recent} /\ recent' = {}
    /\ UNCHANGED <<second, wroteAt, pending, auditLog, partial, finished, late>>

(* lookup, for a change that the engine has found.                         *)
FreshWriter(x) == second - x[2] <= FreshFor

LooksUp ==
    /\ recent' = {y \in recent : FreshWriter(y)}
    /\ UNCHANGED <<second, wroteAt, pending, auditLog, partial, finished, missed, late, rotations>>

ActorsNext ==
    \/ \E w \in Writer : WritesFile(w) \/ LogsRecord(w) \/ Sweeps(w)
    \/ ASecondPasses \/ ReadsRecord \/ LogRotates \/ PushedOut \/ LooksUp

ActorsSpec == ActorsInit /\ [][ActorsNext]_actorVars

-----------------------------------------------------------------------------
Old(w)    == second - wroteAt[w] > FreshFor
LookupNames == {x[1] : x \in {y \in recent : FreshWriter(y)}}

(* What lookup answers ("the most recent writer of `path`, but only if it  *)
(* happened within _AUDIT_WINDOW_SEC"): who it names wrote lately or was   *)
(* read late, nobody who was logged after them lately is passed over, and  *)
(* it names nobody only if the last writer was missed, is not read or old. *)
ActorsNamed ==
    /\ \A w \in LookupNames \ late : ~Old(w)
    /\ \A w \in LookupNames, v \in Writer \ missed : Later(v, w) => Unread(v) \/ Old(v)
    /\ LookupNames = {} /\ finished # <<>> =>
          LET v == finished[Len(finished)]
          IN  v \in missed \/ Unread(v) \/ Old(v)
=============================================================================
