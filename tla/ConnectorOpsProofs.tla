------------------------- MODULE ConnectorOpsProofs -------------------------
(* Theorems about ConnectorOps, for every value of its constants.          *)
EXTENDS ConnectorOps, TLAPS, FiniteSetTheorems

(* The registered operations, the callers and parts of them can be counted. *)
LEMMA FiniteActive ==
    ASSUME TypeOK
    PROVE  IsFiniteSet(active) /\ Cardinality(active) \in Nat
<1>1. IsFiniteSet(Op)
  BY FS_Interval, ConstantsAssumption DEF Op
<1>2. IsFiniteSet(active)
  BY <1>1, FS_Subset DEF TypeOK
<1>. QED BY <1>2, FS_CardinalityType

LEMMA FiniteHolders == IsFiniteSet(SlotHolder) /\ Cardinality(SlotHolder) \in Nat
<1>1. IsFiniteSet(SlotHolder)
  BY FS_Subset, ConstantsAssumption DEF SlotHolder
<1>. QED BY <1>1, FS_CardinalityType

(* What Release leaves well typed. *)
LEMMA ReleaseType ==
    ASSUME TypeOK, NEW S \in SUBSET Op, Release(S)
    PROVE  /\ active' \subseteq Op
           /\ timers' \subseteq Op
           /\ slots' \in Nat
           /\ locked' \subseteq Connector
<1>1. IsFiniteSet(active \cap S)
  BY FiniteActive, FS_Intersection
<1>2. Cardinality(active \cap S) \in Nat
  BY <1>1, FS_CardinalityType
<1>. QED BY <1>2 DEF TypeOK, Release

LEMMA DesiredType ==
    ASSUME TypeOK, NEW o \in Op
    PROVE  Desired(o) \in Meta
BY ConstantsAssumption DEF TypeOK, Desired, RetryAfter, Meta, NoMeta, Reason, Status, None

LEMMA BumpType ==
    ASSUME NEW n \in 0..MaxRetry
    PROVE  Bump(n) \in 0..MaxRetry
BY ConstantsAssumption DEF Bump

USE DEF Job, Busy, Done, Status, Open, Terminal, Reason, StillOpen

LEMMA TypeStart ==
    ASSUME TypeOK, NEW p \in Caller,
           \/ \E c \in Connector, k \in Kind : Request(p, c, k, BaseFor(c, k))
           \/ StartStep(p)
           \/ CreateFails(p)
    PROVE  TypeOK'
<1>1. ASSUME NEW c \in Connector, NEW k \in Kind, Request(p, c, k, BaseFor(c, k))
      PROVE  TypeOK'
  <2>1. Finished \in SUBSET Op
    BY DEF TypeOK, Finished
  <2>2. Release(Finished)
    BY <1>1 DEF Request
  <2>3. BaseFor(c, k) \in 0..MaxRetry
    BY ConstantsAssumption DEF BaseFor, TypeOK, Meta
  <2>4. call' \in [Caller -> Call]
    BY <1>1, <2>3 DEF Request, TypeOK, Call, Idle, None
  <2>. QED BY <1>1, <2>1, <2>2, <2>4, ReleaseType DEF Request, TypeOK, rowVars, connVars
<1>2. CASE AcquireSlot(p)
  BY <1>2, ConstantsAssumption
     DEF AcquireSlot, TypeOK, Call, Idle, None, Abandon, rowVars, connVars, lockVars
<1>3. CASE AcquireLock(p)
  BY <1>3, ConstantsAssumption
     DEF AcquireLock, TypeOK, Call, Idle, None, Abandon, rowVars, connVars, lockVars
<1>4. CASE CreateAndSubmit(p)
  <2>1. call[p].conn \in Connector /\ call[p].base \in 0..MaxRetry
    BY <1>4 DEF CreateAndSubmit, TypeOK, Call, Idle
  <2>2. call' \in [Caller -> Call]
    BY <1>4, <2>1 DEF CreateAndSubmit, TypeOK, Call, Idle
  <2>3. PICK o \in Op : /\ status' = [status EXCEPT ![o] = "queued"]
                        /\ owner'  = [owner EXCEPT ![o] = call[p].conn]
                        /\ count'  = [count EXCEPT ![o] = call[p].base]
                        /\ job'    = [job EXCEPT ![o] = "pending"]
    BY <1>4 DEF CreateAndSubmit
  <2>4. /\ status' \in [Op -> Status]
        /\ owner' \in [Op -> Connector \cup {None}]
        /\ \A q \in Op : status'[q] # "none" => owner'[q] \in Connector
        /\ count' \in [Op -> 0..MaxRetry]
        /\ job' \in [Op -> Job]
    BY <2>1, <2>3 DEF TypeOK
  <2>. QED BY <1>4, <2>2, <2>4 DEF CreateAndSubmit, TypeOK, connVars, lockVars
<1>5. CASE CreateFails(p)
  BY <1>5, ConstantsAssumption
     DEF CreateFails, GiveBack, TypeOK, Call, Idle, None, Abandon,
         rowVars, connVars, lockVars
<1>6. CASE Register(p)
  BY <1>6, ConstantsAssumption
     DEF Register, TypeOK, Call, Idle, None, rowVars, connVars, lockVars
<1>7. CASE DoneCheck(p)
  <2>1. {call[p].op} \cap Finished \in SUBSET Op
    BY DEF TypeOK, Finished
  <2>2. Release({call[p].op} \cap Finished)
    BY <1>7 DEF DoneCheck
  <2>3. call' \in [Caller -> Call]
    BY <1>7, ConstantsAssumption DEF DoneCheck, Abandon, TypeOK, Call, Idle, None
  <2>. QED BY <1>7, <2>1, <2>2, <2>3, ReleaseType DEF DoneCheck, TypeOK, rowVars, connVars
<1>. QED BY <1>1, <1>2, <1>3, <1>4, <1>5, <1>6, <1>7 DEF StartStep

LEMMA TypeWorker ==
    ASSUME TypeOK, NEW o \in Op,
           TakeThread(o) \/ Collect(o) \/ WorkerStep(o) \/ WorkerFault(o)
    PROVE  TypeOK'
<1>1. CASE TakeThread(o) \/ Collect(o)
  BY <1>1 DEF TakeThread, Collect, TypeOK, rowVars, connVars, lockVars
<1>2. CASE Claim(o)
  BY <1>2 DEF Claim, TypeOK, connVars, lockVars
<1>3. CASE Report(o)
  BY <1>3 DEF Report, TypeOK, rowVars, lockVars
<1>4. CASE Record(o)
  <2>1. CASE status[o] \notin Open
    BY <1>4, <2>1 DEF Record, TypeOK, rowVars, connVars, lockVars
  <2>2. CASE status[o] \in Open /\ result[o] = "ok"
    BY <1>4, <2>2 DEF Record, CloseRow, TypeOK, connVars, lockVars
  <2>3. CASE status[o] \in Open /\ result[o] # "ok"
    <3>1. Bump(meta[owner[o]].count) \in 0..MaxRetry
      BY <2>3, BumpType DEF TypeOK, Meta
    <3>. QED BY <1>4, <2>3, <3>1 DEF Record, CloseRow, TypeOK, connVars, lockVars
  <2>. QED BY <2>1, <2>2, <2>3
<1>5. CASE SetRetry(o)
  BY <1>5, DesiredType DEF SetRetry, TypeOK, rowVars, lockVars
<1>6. CASE Finish(o)
  <2>1. Release({o})
    BY <1>6 DEF Finish
  <2>. QED BY <1>6, <2>1, ReleaseType DEF Finish, TypeOK, rowVars, connVars
<1>7. CASE Exit(o)
  BY <1>7 DEF Exit, TypeOK, rowVars, connVars, lockVars
<1>8. CASE WorkerFault(o)
  BY <1>8 DEF WorkerFault, ClaimFails, ReportFails, RecordFails, SetRetryFails,
              TypeOK, rowVars, connVars, lockVars
<1>. QED BY <1>1, <1>2, <1>3, <1>4, <1>5, <1>6, <1>7, <1>8 DEF WorkerStep

LEMMA TypeTimeout ==
    ASSUME TypeOK, NEW o \in Op,
           TimerFires(o) \/ TimerFails(o) \/ Age(o) \/ ReaperStep(o)
             \/ CloserStep(o) \/ CloserFails(o)
    PROVE  TypeOK'
<1>0. ASSUME NEW r \in Reason, NEW next \in {"retry", "recover"},
             TimeOutRow(o, r, next), status[o] \in Open
      PROVE  /\ status' \in [Op -> Status] /\ count' \in [Op -> 0..MaxRetry]
             /\ \A q \in Op : status'[q] # "none" => owner'[q] \in Connector
             /\ reason' \in [Op -> Reason] /\ UNCHANGED <<owner, old>>
             /\ closer' \in [Op -> {"none", "retry", "detach", "recover"}]
  BY <1>0, BumpType DEF TimeOutRow, CloseRow, TypeOK
<1>1. CASE TimerFires(o)
  BY <1>0, <1>1 DEF TimerFires, TypeOK, rowVars, connVars
<1>2. CASE TimerFails(o)
  BY <1>2 DEF TimerFails, TypeOK, rowVars, connVars
<1>3. CASE Age(o)
  BY <1>3 DEF Age, TypeOK, connVars, lockVars
<1>4. CASE ReapDone(o)
  <2>1. Release({o})
    BY <1>4 DEF ReapDone
  <2>. QED BY <1>4, <2>1, ReleaseType DEF ReapDone, TypeOK, rowVars, connVars
<1>5. CASE ReapStale(o) \/ Recover(o)
  <2>1. PICK r \in Reason, next \in {"retry", "recover"} :
            TimeOutRow(o, r, next) /\ status[o] \in Open
    BY <1>5 DEF ReapStale, Recover
  <2>2. UNCHANGED <<connVars, edited, lockVars, job, result, call>>
    BY <1>5 DEF ReapStale, Recover
  <2>. QED BY <1>0, <2>1, <2>2 DEF TypeOK, connVars, lockVars
<1>6. CASE CloserSetsRetry(o)
  <2>1. meta' \in [Connector -> Meta]
    BY <1>6, DesiredType DEF CloserSetsRetry, TypeOK
  <2>. QED BY <1>6, <2>1 DEF CloserSetsRetry, AfterRetry, TypeOK, rowVars, lockVars
<1>8. CASE CloserFails(o)
  BY <1>8 DEF CloserFails, AfterRetry, TypeOK, rowVars, connVars, lockVars
<1>7. CASE Detach(o)
  <2>1. Release({o})
    BY <1>7 DEF Detach
  <2>. QED BY <1>7, <2>1, ReleaseType DEF Detach, TypeOK, rowVars, connVars
<1>. QED BY <1>1, <1>2, <1>3, <1>4, <1>5, <1>6, <1>7, <1>8 DEF ReaperStep, CloserStep

LEMMA TypeAdmin ==
    ASSUME TypeOK,
           Restart \/ \E c \in Connector : EditConfig(c) \/ SetEnabled(c) \/ SkipItem(c)
    PROVE  TypeOK'
<1>1. CASE Restart
  BY <1>1, ConstantsAssumption DEF Restart, TypeOK, Call, rowVars, connVars
<1>2. ASSUME NEW c \in Connector, EditConfig(c) \/ SetEnabled(c)
      PROVE  TypeOK'
  <2>1. CASE EditConfig(c)
    <3>1. RunsOf(c) \subseteq Op
      BY DEF RunsOf
    <3>. QED BY <2>1, <3>1 DEF EditConfig, TypeOK, rowVars, lockVars
  <2>2. CASE SetEnabled(c)
    <3>1. enabled' \in [Connector -> BOOLEAN]
      BY <2>2 DEF SetEnabled, TypeOK
    <3>. QED BY <2>2, <3>1 DEF SetEnabled, TypeOK, rowVars, lockVars
  <2>. QED BY <1>2, <2>1, <2>2
<1>3. ASSUME NEW c \in Connector, SkipItem(c)
      PROVE  TypeOK'
  BY <1>3 DEF SkipItem, TypeOK, connVars, lockVars
<1>. QED BY <1>1, <1>2, <1>3

LEMMA TypeInit == Init => TypeOK
BY ConstantsAssumption DEF Init, TypeOK, Call, Idle, NoMeta, Meta, None

LEMMA TypeStutter == TypeOK /\ UNCHANGED vars => TypeOK'
BY DEF TypeOK, vars, rowVars, connVars, lockVars

LEMMA TypeNext == TypeOK /\ [Next]_vars => TypeOK'
BY TypeStart, TypeWorker, TypeTimeout, TypeAdmin, TypeStutter DEF Next

(* Every variable keeps its type, a start call its connector and, once it  *)
(* has one, its operation.                                                 *)
THEOREM TypeCorrect == Spec => []TypeOK
BY TypeInit, TypeNext, PTL DEF Spec

-----------------------------------------------------------------------------
(* The inductive invariant.  Steps are of three kinds for the slots, the   *)
(* locks and the registrations: those that touch none of them, those that  *)
(* release registered operations, and the steps of a start call.           *)

Quiet == /\ UNCHANGED <<call, active, locked, slots>>
         /\ \A o \in Op : status[o] # "none" =>
               owner'[o] = owner[o] /\ status'[o] # "none"

(* No step but a start call makes a run live that was not.                 *)
NoNewRun == \A o \in Op : LiveRun(o)' => LiveRun(o)

QuietStep ==
    \/ \E o \in Op :
          \/ TakeThread(o) \/ Claim(o) \/ Collect(o) \/ Report(o) \/ Record(o)
          \/ SetRetry(o) \/ Exit(o) \/ WorkerFault(o)
          \/ TimerFires(o) \/ TimerFails(o) \/ Age(o) \/ ReapStale(o) \/ Recover(o)
          \/ CloserSetsRetry(o) \/ CloserFails(o)
    \/ \E c \in Connector : EditConfig(c) \/ SetEnabled(c) \/ SkipItem(c)

LEMMA QuietSteps ==
    ASSUME TypeOK, QuietStep
    PROVE  Quiet /\ NoNewRun
<1>1. ASSUME NEW o \in Op,
            TakeThread(o) \/ Collect(o) \/ SetRetry(o) \/ Exit(o) \/ WorkerFault(o)
     PROVE  Quiet /\ NoNewRun
  BY <1>1 DEF TakeThread, Collect, SetRetry, Exit, WorkerFault, ClaimFails, ReportFails,
              RecordFails, SetRetryFails, Quiet, NoNewRun, LiveRun, TypeOK, rowVars, lockVars
<1>2. ASSUME NEW o \in Op,
            Claim(o) \/ Report(o)
     PROVE  Quiet /\ NoNewRun
  BY <1>2 DEF Claim, Report, Quiet, NoNewRun, LiveRun, TypeOK, rowVars, lockVars
<1>3. ASSUME NEW o \in Op, Record(o)
     PROVE  Quiet /\ NoNewRun
  BY <1>3 DEF Record, CloseRow, Quiet, NoNewRun, LiveRun, TypeOK, rowVars, lockVars
<1>4. ASSUME NEW o \in Op,
            TimerFires(o) \/ TimerFails(o) \/ Age(o)
     PROVE  Quiet /\ NoNewRun
  BY <1>4 DEF TimerFires, TimerFails, Age, TimeOutRow, CloseRow, Quiet, NoNewRun, LiveRun,
              TypeOK, rowVars, lockVars
<1>5. ASSUME NEW o \in Op,
            ReapStale(o) \/ Recover(o)
     PROVE  Quiet /\ NoNewRun
  BY <1>5 DEF ReapStale, Recover, TimeOutRow, CloseRow, Quiet, NoNewRun, LiveRun,
              TypeOK, rowVars, lockVars
<1>6. ASSUME NEW o \in Op,
            CloserSetsRetry(o) \/ CloserFails(o)
     PROVE  Quiet /\ NoNewRun
  BY <1>6 DEF CloserSetsRetry, CloserFails, Quiet, NoNewRun, LiveRun,
              TypeOK, rowVars, lockVars
<1>7. ASSUME NEW c \in Connector,
            EditConfig(c) \/ SetEnabled(c)
     PROVE  Quiet /\ NoNewRun
  BY <1>7 DEF EditConfig, SetEnabled, Quiet, NoNewRun, LiveRun, rowVars, lockVars
<1>8. ASSUME NEW c \in Connector, SkipItem(c)
     PROVE  Quiet /\ NoNewRun
  BY <1>8 DEF SkipItem, Fresh, Quiet, NoNewRun, LiveRun, TypeOK, lockVars
<1>. QED BY <1>1, <1>2, <1>3, <1>4, <1>5, <1>6, <1>7, <1>8 DEF QuietStep

LEMMA QuietKeeps ==
    ASSUME OpsInv, TypeOK', Quiet
    PROVE  Registered' /\ LockDiscipline' /\ SlotAccounting'
<1>1. \A c \in Connector : ActiveFor(c)' = ActiveFor(c) /\ LockHolder(c)' = LockHolder(c)
  BY DEF OpsInv, TypeOK, Registered, Quiet, ActiveFor, LockHolder
<1>2. SlotHolder' = SlotHolder
  BY DEF Quiet, SlotHolder
<1>3. Registered'
  <2>1. ASSUME NEW p \in Caller, call[p].at = "submitted"
        PROVE  call[p].op \in Op
    BY <2>1 DEF OpsInv, TypeOK, Call, Idle
  <2>. QED BY <2>1 DEF OpsInv, TypeOK, Registered, Quiet
<1>4. LockDiscipline'
  BY <1>1 DEF OpsInv, LockDiscipline, Quiet
<1>5. SlotAccounting'
  BY <1>2 DEF OpsInv, SlotAccounting, Quiet
<1>. QED BY <1>3, <1>4, <1>5

(* Releasing registered operations returns exactly what they held.         *)
LEMMA ReleaseKeeps ==
    ASSUME OpsInv, NEW S \in SUBSET Op, Release(S), UNCHANGED rowVars,
           SlotHolder' = SlotHolder,
           \A c \in Connector : LockHolder(c)' = LockHolder(c),
           \A p \in Caller : call'[p].at = "submitted" => call'[p] = call[p]
    PROVE  Registered' /\ LockDiscipline' /\ SlotAccounting'
<1>1. Registered'
  BY DEF OpsInv, Registered, Release, rowVars
<1>2. LockDiscipline'
  <2> SUFFICES ASSUME NEW c \in Connector
               PROVE  /\ (c \in locked)' <=> LockHolder(c)' # {} \/ ActiveFor(c)' # {}
                      /\ LockHolder(c)' = {} \/ ActiveFor(c)' = {}
                      /\ \A p, q \in LockHolder(c)' : p = q
                      /\ \A o, q \in ActiveFor(c)' : o = q
    BY DEF LockDiscipline
  <2>1. ActiveFor(c)' = ActiveFor(c) \ S
    BY DEF ActiveFor, Release, rowVars
  <2>2. (c \in locked)' <=> c \in locked /\ ActiveFor(c) \cap S = {}
    BY DEF ActiveFor, Release, OpsInv, TypeOK
  <2>3. /\ c \in locked <=> LockHolder(c) # {} \/ ActiveFor(c) # {}
        /\ LockHolder(c) = {} \/ ActiveFor(c) = {}
        /\ \A p, q \in LockHolder(c) : p = q
        /\ \A o, q \in ActiveFor(c) : o = q
    BY DEF OpsInv, LockDiscipline
  <2>. QED BY <2>1, <2>2, <2>3
<1>3. SlotAccounting'
  <2>1. TypeOK
    BY DEF OpsInv
  <2>2. Cardinality(active \ S) = Cardinality(active) - Cardinality(active \cap S)
    BY <2>1, FiniteActive, FS_Difference
  <2>3. Cardinality(active \cap S) \in Nat
    BY <2>1, FiniteActive, FS_Intersection, FS_CardinalityType
  <2>. QED BY <2>1, <2>2, <2>3, FiniteActive, FiniteHolders
           DEF OpsInv, TypeOK, SlotAccounting, Release
<1>. QED BY <1>1, <1>2, <1>3

(* A start call that moves on keeps its connector and its operation; one   *)
(* that returns forgets both.                                              *)
LEMMA CallMoves ==
    ASSUME TypeOK, NEW p \in Caller, NEW s, call' = [call EXCEPT ![p].at = s]
    PROVE  /\ call'[p].at = s /\ call'[p].conn = call[p].conn /\ call'[p].op = call[p].op
           /\ \A q \in Caller \ {p} : call'[q] = call[q]
BY DEF TypeOK, Call, Idle

LEMMA CallReturns ==
    ASSUME TypeOK, NEW p \in Caller, Abandon(p)
    PROVE  /\ call'[p].at = "idle"
           /\ \A q \in Caller \ {p} : call'[q] = call[q]
BY DEF TypeOK, Abandon, Idle

(* The steps of a start call: it takes a slot, then the lock, hands both   *)
(* to the entry of _active, or gives back what it has.                     *)
LEMMA RequestKeeps ==
    ASSUME OpsInv, NEW p \in Caller, NEW c \in Connector, NEW k \in Kind,
           Request(p, c, k, BaseFor(c, k))
    PROVE  Registered' /\ LockDiscipline' /\ SlotAccounting'
<1>1. Finished \in SUBSET Op
  BY DEF Finished, OpsInv, TypeOK
<1>2. Release(Finished) /\ UNCHANGED rowVars
  BY DEF Request
<1>3. SlotHolder' = SlotHolder /\ \A d \in Connector : LockHolder(d)' = LockHolder(d)
  BY DEF Request, SlotHolder, LockHolder, OpsInv, TypeOK
<1>4. \A q \in Caller : call'[q].at = "submitted" => call'[q] = call[q]
  BY DEF Request, OpsInv, TypeOK
<1>. QED BY <1>1, <1>2, <1>3, <1>4, ReleaseKeeps

LEMMA DoneCheckKeeps ==
    ASSUME OpsInv, NEW p \in Caller, DoneCheck(p)
    PROVE  Registered' /\ LockDiscipline' /\ SlotAccounting'
<1>. DEFINE S == {call[p].op} \cap Finished
<1>1. S \in SUBSET Op
  BY DEF Finished, OpsInv, TypeOK
<1>2. Release(S) /\ UNCHANGED rowVars
  BY DEF DoneCheck
<1>3. SlotHolder' = SlotHolder /\ \A d \in Connector : LockHolder(d)' = LockHolder(d)
  BY DEF DoneCheck, Abandon, Idle, SlotHolder, LockHolder, OpsInv, TypeOK
<1>4. \A q \in Caller : call'[q].at = "submitted" => call'[q] = call[q]
  BY DEF DoneCheck, Abandon, Idle, OpsInv, TypeOK
<1>. HIDE DEF S
<1>. QED BY <1>1, <1>2, <1>3, <1>4, ReleaseKeeps

LEMMA AcquireSlotKeeps ==
    ASSUME OpsInv, NEW p \in Caller, AcquireSlot(p)
    PROVE  Registered' /\ LockDiscipline' /\ SlotAccounting'
<1>1. /\ UNCHANGED <<active, locked, rowVars>>
      /\ \A q \in Caller : call'[q].at = "submitted" => call'[q] = call[q]
      /\ \A c \in Connector : LockHolder(c)' = LockHolder(c) /\ ActiveFor(c)' = ActiveFor(c)
  BY CallMoves, CallReturns DEF AcquireSlot, OpsInv, LockHolder, ActiveFor, rowVars
<1>2. Registered' /\ LockDiscipline'
  BY <1>1 DEF OpsInv, Registered, LockDiscipline, rowVars
<1>3. SlotAccounting'
  <2>1. CASE slots > 0 /\ Cardinality(Live) < MaxConcurrent
    <3>1. SlotHolder' = SlotHolder \cup {p} /\ p \notin SlotHolder
      BY <2>1, CallMoves DEF AcquireSlot, SlotHolder, OpsInv
    <3>2. Cardinality(SlotHolder') = Cardinality(SlotHolder) + 1
      BY <3>1, FiniteHolders, FS_AddElement
    <3>3. slots' = slots - 1
      BY <2>1 DEF AcquireSlot
    <3>. QED BY <1>1, <3>2, <3>3, FiniteHolders, FiniteActive
             DEF OpsInv, TypeOK, SlotAccounting
  <2>2. CASE ~(slots > 0 /\ Cardinality(Live) < MaxConcurrent)
    <3>1. SlotHolder' = SlotHolder /\ slots' = slots
      BY <2>2, CallReturns DEF AcquireSlot, SlotHolder, OpsInv
    <3>. QED BY <1>1, <3>1 DEF OpsInv, SlotAccounting
  <2>. QED BY <2>1, <2>2
<1>. QED BY <1>2, <1>3

(* Giving a slot back: the caller leaves SlotHolder, the permit returns.   *)
LEMMA SlotGivenBack ==
    ASSUME OpsInv, NEW p \in SlotHolder, SlotHolder' = SlotHolder \ {p},
           slots' = slots + 1, active' = active
    PROVE  SlotAccounting'
<1>1. Cardinality(SlotHolder') = Cardinality(SlotHolder) - 1
  BY FiniteHolders, FS_RemoveElement
<1>. QED BY <1>1, FiniteHolders, FiniteActive DEF OpsInv, TypeOK, SlotAccounting

LEMMA AcquireLockKeeps ==
    ASSUME OpsInv, NEW p \in Caller, AcquireLock(p)
    PROVE  Registered' /\ LockDiscipline' /\ SlotAccounting'
<1>. DEFINE c == call[p].conn
<1>1. /\ UNCHANGED <<active, rowVars>>
      /\ \A q \in Caller : call'[q].at = "submitted" => call'[q] = call[q]
      /\ \A d \in Connector : ActiveFor(d)' = ActiveFor(d)
      /\ c \in Connector
  BY CallMoves, CallReturns DEF AcquireLock, OpsInv, TypeOK, Call, Idle, ActiveFor, rowVars
<1>2. Registered'
  BY <1>1 DEF OpsInv, Registered, rowVars
<1>3. CASE c \in locked
  <2>1. /\ SlotHolder' = SlotHolder \ {p} /\ p \in SlotHolder
        /\ slots' = slots + 1 /\ locked' = locked
        /\ \A d \in Connector : LockHolder(d)' = LockHolder(d)
    BY <1>3, CallReturns DEF AcquireLock, SlotHolder, LockHolder, OpsInv
  <2>2. LockDiscipline'
    BY <1>1, <2>1 DEF OpsInv, LockDiscipline
  <2>. QED BY <1>1, <1>2, <2>1, <2>2, SlotGivenBack
<1>4. CASE c \notin locked
  <2>1. /\ SlotHolder' = SlotHolder /\ slots' = slots
        /\ locked' = locked \cup {c}
        /\ \A d \in Connector :
              LockHolder(d)' = IF d = c THEN LockHolder(d) \cup {p} ELSE LockHolder(d)
    BY <1>4, CallMoves DEF AcquireLock, SlotHolder, LockHolder, OpsInv
  <2>2. LockHolder(c) = {} /\ ActiveFor(c) = {}
    BY <1>1, <1>4 DEF OpsInv, LockDiscipline
  <2>3. LockDiscipline'
    BY <1>1, <2>1, <2>2 DEF OpsInv, LockDiscipline
  <2>. QED BY <1>1, <1>2, <2>1, <2>3 DEF OpsInv, SlotAccounting
<1>. QED BY <1>3, <1>4

LEMMA CreateKeeps ==
    ASSUME OpsInv, NEW p \in Caller, CreateAndSubmit(p)
    PROVE  Registered' /\ LockDiscipline' /\ SlotAccounting' /\ LiveHeld'
<1>. DEFINE c == call[p].conn
<1>1. TypeOK /\ c \in Connector
  BY DEF CreateAndSubmit, OpsInv, TypeOK, Call, Idle
<1>2. PICK o \in Op : /\ Fresh(o)
                      /\ status' = [status EXCEPT ![o] = "queued"]
                      /\ owner'  = [owner EXCEPT ![o] = c]
                      /\ job'    = [job EXCEPT ![o] = "pending"]
                      /\ call'   = [call EXCEPT ![p] = [at |-> "submitted", conn |-> c,
                                            base |-> call[p].base, op |-> o]]
  BY DEF CreateAndSubmit
<1>3. /\ call'[p].at = "submitted" /\ call'[p].conn = c /\ call'[p].op = o
      /\ \A q \in Caller \ {p} : call'[q] = call[q]
  BY <1>1, <1>2 DEF TypeOK
<1>4. UNCHANGED <<active, locked, slots>> /\ o \notin active
  BY <1>2 DEF CreateAndSubmit, lockVars, OpsInv, Registered, Fresh
<1>5. /\ SlotHolder' = SlotHolder
      /\ \A d \in Connector : LockHolder(d)' = LockHolder(d) /\ ActiveFor(d)' = ActiveFor(d)
  BY <1>1, <1>2, <1>3, <1>4 DEF CreateAndSubmit, SlotHolder, LockHolder, ActiveFor, TypeOK
<1>6. Registered'
  <2>1. ASSUME NEW q \in Caller \ {p}, call[q].at = "submitted"
        PROVE  call[q].op \in Op /\ call[q].op # o
    BY <1>2, <2>1 DEF Fresh, OpsInv, Registered, TypeOK, Call, Idle
  <2>. QED BY <1>1, <1>2, <1>3, <1>4, <2>1 DEF OpsInv, Registered, TypeOK
<1>7. LiveHeld'
  <2>. SUFFICES ASSUME NEW q \in Op, LiveRun(q)', q \notin active
                PROVE  \E r \in Caller : call'[r].at = "submitted" /\ call'[r].op = q
    BY <1>4 DEF LiveHeld, Held
  <2>1. CASE q = o
    BY <1>3, <2>1
  <2>2. CASE q # o
    <3>1. LiveRun(q)
      BY <1>1, <1>2, <2>2 DEF LiveRun, TypeOK
    <3>2. PICK r \in Caller : call[r].at = "submitted" /\ call[r].op = q
      BY <3>1 DEF OpsInv, LiveHeld, Held
    <3>. QED BY <1>3, <3>2 DEF CreateAndSubmit
  <2>. QED BY <2>1, <2>2
<1>. QED BY <1>4, <1>5, <1>6, <1>7 DEF OpsInv, LockDiscipline, SlotAccounting

LEMMA GiveBackKeeps ==
    ASSUME OpsInv, NEW p \in Caller, GiveBack(p)
    PROVE  Registered' /\ LockDiscipline' /\ SlotAccounting'
<1>. DEFINE c == call[p].conn
<1>1. /\ TypeOK /\ c \in Connector /\ call[p].at = "lock"
      /\ UNCHANGED <<active, rowVars>>
      /\ locked' = locked \ {c} /\ slots' = slots + 1
      /\ call'[p].at = "idle" /\ \A q \in Caller \ {p} : call'[q] = call[q]
  BY CallReturns DEF GiveBack, OpsInv, TypeOK, Call, Idle
<1>2. /\ SlotHolder' = SlotHolder \ {p} /\ p \in SlotHolder
      /\ \A d \in Connector : LockHolder(d)' = LockHolder(d) \ {p}
      /\ \A d \in Connector : ActiveFor(d)' = ActiveFor(d)
  BY <1>1 DEF SlotHolder, LockHolder, ActiveFor, rowVars
<1>3. \A d \in Connector : p \in LockHolder(d) <=> d = c
  BY <1>1 DEF LockHolder
<1>4. LockDiscipline'
  <2>. SUFFICES ASSUME NEW d \in Connector
                PROVE  /\ d \in locked' <=> LockHolder(d)' # {} \/ ActiveFor(d)' # {}
                       /\ LockHolder(d)' = {} \/ ActiveFor(d)' = {}
                       /\ \A q, r \in LockHolder(d)' : q = r
                       /\ \A o, q \in ActiveFor(d)' : o = q
    BY DEF LockDiscipline
  <2>1. /\ d \in locked <=> LockHolder(d) # {} \/ ActiveFor(d) # {}
        /\ LockHolder(d) = {} \/ ActiveFor(d) = {}
        /\ \A q, r \in LockHolder(d) : q = r
        /\ \A o, q \in ActiveFor(d) : o = q
    BY DEF OpsInv, LockDiscipline
  <2>. QED BY <1>1, <1>2, <1>3, <2>1
<1>5. Registered'
  BY <1>1 DEF OpsInv, Registered, rowVars
<1>. QED BY <1>1, <1>2, <1>4, <1>5, SlotGivenBack

LEMMA RegisterKeeps ==
    ASSUME OpsInv, NEW p \in Caller, Register(p)
    PROVE  Registered' /\ LockDiscipline' /\ SlotAccounting' /\ LiveHeld'
<1>. DEFINE c == call[p].conn
            o == call[p].op
<1>1. /\ TypeOK /\ c \in Connector /\ o \in Op /\ call[p].at = "submitted"
      /\ UNCHANGED <<rowVars, locked, slots, job>> /\ active' = active \cup {o}
      /\ call'[p].at = "registered" /\ \A q \in Caller \ {p} : call'[q] = call[q]
  BY CallMoves DEF Register, OpsInv, TypeOK, Call, Idle
<1>2. o \notin active /\ status[o] # "none" /\ owner[o] = c
  BY <1>1 DEF OpsInv, Registered
<1>3. /\ SlotHolder' = SlotHolder \ {p} /\ p \in SlotHolder
      /\ \A d \in Connector : LockHolder(d)' = LockHolder(d) \ {p}
      /\ \A d \in Connector : p \in LockHolder(d) <=> d = c
  BY <1>1 DEF SlotHolder, LockHolder
<1>4. \A d \in Connector :
         ActiveFor(d)' = IF d = c THEN ActiveFor(d) \cup {o} ELSE ActiveFor(d)
  BY <1>1, <1>2 DEF ActiveFor, rowVars
<1>5. ASSUME NEW d \in Connector
      PROVE  /\ d \in locked <=> LockHolder(d) # {} \/ ActiveFor(d) # {}
             /\ LockHolder(d) = {} \/ ActiveFor(d) = {}
             /\ \A q, r \in LockHolder(d) : q = r
             /\ \A q, r \in ActiveFor(d) : q = r
  BY DEF OpsInv, LockDiscipline
<1>6. LockDiscipline'
  <2>. SUFFICES ASSUME NEW d \in Connector
                PROVE  /\ d \in locked' <=> LockHolder(d)' # {} \/ ActiveFor(d)' # {}
                       /\ LockHolder(d)' = {} \/ ActiveFor(d)' = {}
                       /\ \A q, r \in LockHolder(d)' : q = r
                       /\ \A q, r \in ActiveFor(d)' : q = r
    BY DEF LockDiscipline
  <2>1. CASE d = c
    <3>1. LockHolder(d) = {p} /\ ActiveFor(d) = {}
      BY <1>1, <1>3, <1>5, <2>1
    <3>. QED BY <1>1, <1>3, <1>4, <1>5, <2>1, <3>1
  <2>2. CASE d # c
    BY <1>1, <1>3, <1>4, <1>5, <2>2
  <2>. QED BY <2>1, <2>2
<1>7. Registered'
  <2>1. ASSUME NEW q \in Caller \ {p}, call[q].at = "submitted"
        PROVE  call[q].op # o
    <3>. SUFFICES ASSUME call[q].op = o PROVE FALSE
      OBVIOUS
    <3>1. call[q].conn = c
      BY <1>2, <2>1 DEF OpsInv, Registered
    <3>2. p \in LockHolder(c) /\ q \in LockHolder(c)
      BY <1>1, <2>1, <3>1 DEF LockHolder
    <3>. QED BY <1>1, <1>5, <3>2
  <2>. QED BY <1>1, <1>2, <2>1 DEF OpsInv, Registered, rowVars
<1>8. SlotAccounting'
  <2>1. Cardinality(SlotHolder') = Cardinality(SlotHolder) - 1
    BY <1>3, FiniteHolders, FS_RemoveElement
  <2>2. Cardinality(active') = Cardinality(active) + 1
    BY <1>1, <1>2, FiniteActive, FS_AddElement
  <2>. QED BY <1>1, <2>1, <2>2, FiniteHolders, FiniteActive DEF OpsInv, TypeOK, SlotAccounting
<1>9. LiveHeld'
  BY <1>1 DEF OpsInv, LiveHeld, Held, LiveRun, rowVars
<1>. QED BY <1>6, <1>7, <1>8, <1>9

(* A live run stays registered unless it is released, and only runs that   *)
(* are over are.                                                           *)
LEMMA LiveStaysHeld ==
    ASSUME OpsInv, NoNewRun,
           \A o \in active : o \notin active' => ~LiveRun(o)',
           \A p \in Caller : call[p].at = "submitted" => call'[p] = call[p]
    PROVE  LiveHeld'
<1>. SUFFICES ASSUME NEW o \in Op, LiveRun(o)', o \notin active'
              PROVE  \E p \in Caller : call'[p].at = "submitted" /\ call'[p].op = o
  BY DEF LiveHeld, Held
<1>1. LiveRun(o) /\ o \notin active
  BY DEF NoNewRun
<1>2. PICK p \in Caller : call[p].at = "submitted" /\ call[p].op = o
  BY <1>1 DEF OpsInv, LiveHeld, Held
<1>. QED BY <1>2

LEMMA StartKeeps ==
    ASSUME OpsInv, NEW p \in Caller,
           \/ \E c \in Connector, k \in Kind : Request(p, c, k, BaseFor(c, k))
           \/ StartStep(p)
           \/ CreateFails(p)
    PROVE  Registered' /\ LockDiscipline' /\ SlotAccounting' /\ LiveHeld' /\ CloserClosed'
<1>0. TypeOK
  BY DEF OpsInv
<1>1. ASSUME NEW c \in Connector, NEW k \in Kind, Request(p, c, k, BaseFor(c, k))
      PROVE  Registered' /\ LockDiscipline' /\ SlotAccounting' /\ LiveHeld' /\ CloserClosed'
  <2>1. CloserClosed'
    BY <1>1 DEF Request, OpsInv, CloserClosed, rowVars
  <2>2. /\ NoNewRun
        /\ \A o \in active : o \notin active' => ~LiveRun(o)'
        /\ \A q \in Caller : call[q].at = "submitted" => call'[q] = call[q]
    BY <1>0, <1>1 DEF Request, Release, Finished, NoNewRun, LiveRun, TypeOK, rowVars
  <2>. QED BY <1>1, <2>1, <2>2, RequestKeeps, LiveStaysHeld
<1>2. CASE DoneCheck(p)
  <2>1. CloserClosed'
    BY <1>2 DEF DoneCheck, OpsInv, CloserClosed, rowVars
  <2>2. /\ NoNewRun
        /\ \A o \in active : o \notin active' => ~LiveRun(o)'
        /\ \A q \in Caller : call[q].at = "submitted" => call'[q] = call[q]
    BY <1>0, <1>2 DEF DoneCheck, Abandon, Release, Finished, NoNewRun, LiveRun, TypeOK, rowVars
  <2>. QED BY <1>2, <2>1, <2>2, DoneCheckKeeps, LiveStaysHeld
<1>3. CASE AcquireSlot(p) \/ AcquireLock(p) \/ GiveBack(p)
  <2>1. CloserClosed'
    BY <1>3 DEF AcquireSlot, AcquireLock, GiveBack, OpsInv, CloserClosed, rowVars
  <2>2. NoNewRun /\ active' = active
    BY <1>3 DEF AcquireSlot, AcquireLock, GiveBack, NoNewRun, LiveRun, rowVars
  <2>3. \A q \in Caller : call[q].at = "submitted" => call'[q] = call[q]
    BY <1>0, <1>3, CallMoves, CallReturns DEF AcquireSlot, AcquireLock, GiveBack
  <2>4. LiveHeld'
    BY <2>2, <2>3, LiveStaysHeld
  <2>. QED BY <1>3, <2>1, <2>4, AcquireSlotKeeps, AcquireLockKeeps, GiveBackKeeps
<1>4. CASE CreateAndSubmit(p)
  <2>1. CloserClosed'
    BY <1>0, <1>4 DEF CreateAndSubmit, Fresh, OpsInv, CloserClosed, TypeOK
  <2>. QED BY <1>4, <2>1, CreateKeeps
<1>5. CASE Register(p)
  <2>1. CloserClosed'
    BY <1>5 DEF Register, OpsInv, CloserClosed, rowVars
  <2>. QED BY <1>5, <2>1, RegisterKeeps
<1>. QED BY <1>1, <1>2, <1>3, <1>4, <1>5 DEF StartStep, CreateFails

(* The steps that touch no slot, lock or registration.                     *)
LEMMA QuietStepsKeep ==
    ASSUME OpsInv, TypeOK', QuietStep
    PROVE  Registered' /\ LockDiscipline' /\ SlotAccounting' /\ LiveHeld' /\ CloserClosed'
<1>0. TypeOK
  BY DEF OpsInv
<1>1. Quiet /\ NoNewRun
  BY <1>0, QuietSteps
<1>2. Registered' /\ LockDiscipline' /\ SlotAccounting'
  BY <1>1, QuietKeeps
<1>3. LiveHeld'
  BY <1>1, LiveStaysHeld DEF Quiet
<1>4. CloserClosed'
  <2>1. ASSUME NEW o \in Op,
              \/ TakeThread(o) \/ Collect(o) \/ Report(o) \/ SetRetry(o) \/ Exit(o)
              \/ WorkerFault(o) \/ TimerFails(o) \/ Age(o)
       PROVE  CloserClosed'
    BY <2>1 DEF TakeThread, Collect, Report, SetRetry, Exit, WorkerFault, ClaimFails,
                ReportFails, RecordFails, SetRetryFails, TimerFails, Age, OpsInv,
                CloserClosed, rowVars
  <2>2. ASSUME NEW o \in Op, Claim(o)
       PROVE  CloserClosed'
    BY <1>0, <2>2 DEF Claim, OpsInv, CloserClosed, TypeOK
  <2>3. ASSUME NEW o \in Op, Record(o)
       PROVE  CloserClosed'
    BY <1>0, <2>3 DEF Record, CloseRow, OpsInv, CloserClosed, TypeOK, rowVars
  <2>4. ASSUME NEW o \in Op,
              TimerFires(o) \/ ReapStale(o) \/ Recover(o)
       PROVE  CloserClosed'
    BY <1>0, <2>4 DEF TimerFires, ReapStale, Recover, TimeOutRow, CloseRow, OpsInv,
                      CloserClosed, TypeOK, rowVars
  <2>5. ASSUME NEW o \in Op,
              CloserSetsRetry(o) \/ CloserFails(o)
       PROVE  CloserClosed'
    BY <1>0, <2>5 DEF CloserSetsRetry, CloserFails, OpsInv,
                      CloserClosed, TypeOK, rowVars
  <2>6. ASSUME NEW c \in Connector,
              EditConfig(c) \/ SetEnabled(c) \/ SkipItem(c)
       PROVE  CloserClosed'
    BY <1>0, <2>6 DEF EditConfig, SetEnabled, SkipItem, Fresh, OpsInv, CloserClosed, TypeOK,
                      rowVars
  <2>. QED BY <2>1, <2>2, <2>3, <2>4, <2>5, <2>6 DEF QuietStep
<1>. QED BY <1>2, <1>3, <1>4

(* The worker, the reaper and the thread of a timeout let go of operations *)
(* whose run is over.                                                      *)
LEMMA LettingGoKeeps ==
    ASSUME OpsInv, NEW o \in Op, Finish(o) \/ ReapDone(o) \/ Detach(o)
    PROVE  Registered' /\ LockDiscipline' /\ SlotAccounting' /\ LiveHeld' /\ CloserClosed'
<1>1. Release({o}) /\ UNCHANGED <<rowVars, call>>
  BY DEF Finish, ReapDone, Detach
<1>2. /\ SlotHolder' = SlotHolder
      /\ \A c \in Connector : LockHolder(c)' = LockHolder(c)
      /\ \A p \in Caller : call[p].at = "submitted" => call'[p] = call[p]
  BY <1>1 DEF SlotHolder, LockHolder
<1>3. Registered' /\ LockDiscipline' /\ SlotAccounting'
  BY <1>1, <1>2, ReleaseKeeps
<1>4. NoNewRun /\ ~LiveRun(o)' /\ CloserClosed'
  BY DEF Finish, ReapDone, Finished, Detach, NoNewRun, LiveRun, CloserClosed, OpsInv, TypeOK, rowVars
<1>5. LiveHeld'
  BY <1>1, <1>2, <1>4, LiveStaysHeld DEF Release
<1>. QED BY <1>3, <1>4, <1>5

LEMMA EmptyProcess ==
    ASSUME slots = MaxConcurrent, locked = {}, active = {}, call = [p \in Caller |-> Idle],
           job = [o \in Op |-> "none"], closer = [o \in Op |-> "none"]
    PROVE  Registered /\ LockDiscipline /\ SlotAccounting /\ LiveHeld /\ CloserClosed
<1>1. SlotHolder = {} /\ \A c \in Connector : LockHolder(c) = {} /\ ActiveFor(c) = {}
  BY DEF SlotHolder, LockHolder, ActiveFor, Idle
<1>2. Cardinality({}) = 0
  BY FS_EmptySet
<1>3. SlotAccounting
  BY <1>1, <1>2, ConstantsAssumption DEF SlotAccounting
<1>4. Registered /\ LockDiscipline /\ LiveHeld /\ CloserClosed
  BY <1>1 DEF Registered, LockDiscipline, LiveHeld, LiveRun, CloserClosed, Idle
<1>. QED BY <1>3, <1>4

LEMMA RestartKeeps ==
    ASSUME OpsInv, Restart
    PROVE  Registered' /\ LockDiscipline' /\ SlotAccounting' /\ LiveHeld' /\ CloserClosed'
<1>1. SlotHolder' = {} /\ \A c \in Connector : LockHolder(c)' = {} /\ ActiveFor(c)' = {}
  BY DEF Restart, SlotHolder, LockHolder, ActiveFor, Idle
<1>2. Cardinality({}) = 0
  BY FS_EmptySet
<1>3. SlotAccounting'
  BY <1>1, <1>2, ConstantsAssumption DEF Restart, SlotAccounting
<1>4. Registered' /\ LockDiscipline' /\ LiveHeld' /\ CloserClosed'
  BY <1>1 DEF Restart, Registered, LockDiscipline, LiveHeld, LiveRun, CloserClosed, Idle
<1>. QED BY <1>3, <1>4

LEMMA OpsInit == Init => OpsInv
BY TypeInit, EmptyProcess DEF Init, OpsInv

LEMMA OpsStutter == OpsInv /\ UNCHANGED vars => OpsInv'
<1>. SUFFICES ASSUME OpsInv, UNCHANGED vars PROVE OpsInv'
  OBVIOUS
<1>1. TypeOK'
  BY TypeStutter DEF OpsInv
<1>2. Quiet /\ NoNewRun
  BY DEF Quiet, NoNewRun, LiveRun, vars, rowVars, lockVars
<1>3. Registered' /\ LockDiscipline' /\ SlotAccounting'
  BY <1>1, <1>2, QuietKeeps
<1>4. LiveHeld' /\ CloserClosed'
  BY <1>2, LiveStaysHeld DEF Quiet, OpsInv, CloserClosed, vars, rowVars
<1>. QED BY <1>1, <1>3, <1>4 DEF OpsInv

LEMMA OpsNext == OpsInv /\ [Next]_vars => OpsInv'
<1>. SUFFICES ASSUME OpsInv, Next PROVE OpsInv'
  BY OpsStutter
<1>1. TypeOK'
  BY TypeNext DEF OpsInv
<1>. SUFFICES Registered' /\ LockDiscipline' /\ SlotAccounting' /\ LiveHeld' /\ CloserClosed'
  BY <1>1 DEF OpsInv
<1>2. CASE \E p \in Caller : \/ \E c \in Connector, k \in Kind : Request(p, c, k, BaseFor(c, k))
                            \/ StartStep(p)
                            \/ CreateFails(p)
  BY <1>2, StartKeeps
<1>3. CASE \E c \in Connector : EditConfig(c) \/ SetEnabled(c) \/ SkipItem(c)
  BY <1>1, <1>3, QuietStepsKeep DEF QuietStep
<1>4. ASSUME NEW o \in Op,
             \/ TakeThread(o) \/ WorkerStep(o) \/ WorkerFault(o) \/ Collect(o)
             \/ TimerFires(o) \/ TimerFails(o) \/ Age(o) \/ ReaperStep(o)
             \/ CloserStep(o) \/ CloserFails(o)
      PROVE  Registered' /\ LockDiscipline' /\ SlotAccounting' /\ LiveHeld' /\ CloserClosed'
  <2>1. CASE Finish(o) \/ ReapDone(o) \/ Detach(o)
    BY <2>1, LettingGoKeeps
  <2>. QED BY <1>1, <1>4, <2>1, QuietStepsKeep DEF QuietStep, WorkerStep, ReaperStep, CloserStep
<1>5. CASE Restart
  BY <1>5, RestartKeeps
<1>. QED BY <1>2, <1>3, <1>4, <1>5 DEF Next

THEOREM OpsInvariant == Spec => []OpsInv
BY OpsInit, OpsNext, PTL DEF Spec

(* No slot is lost or returned twice, for any number of callers,           *)
(* connectors and operations, with storage faults and restarts.            *)
THEOREM SlotsAccounted == Spec => []SlotAccounting
<1>1. OpsInv => SlotAccounting
  BY DEF OpsInv
<1>. QED BY <1>1, OpsInvariant, PTL

(* Nobody releases a connector lock that stands for another operation.     *)
THEOREM LocksDisciplined == Spec => []LockDiscipline
<1>1. OpsInv => LockDiscipline
  BY DEF OpsInv
<1>. QED BY <1>1, OpsInvariant, PTL

(* At most one worker of a connector can still report or record a verdict. *)
THEOREM RunsExclusive == Spec => []ExclusiveRun
<1>1. OpsInv => ExclusiveRun
  <2>. SUFFICES ASSUME OpsInv, NEW o \in Op, NEW q \in Op,
                       LiveRun(o), LiveRun(q), owner[o] = owner[q]
                PROVE  o = q
    BY DEF ExclusiveRun
  <2>. DEFINE c == owner[o]
  <2>1. c \in Connector
    BY DEF LiveRun, OpsInv, TypeOK
  <2>2. ASSUME NEW r \in Op, LiveRun(r), owner[r] = c
        PROVE  \/ r \in ActiveFor(c)
               \/ \E p \in LockHolder(c) : call[p].at = "submitted" /\ call[p].op = r
    <3>1. CASE r \in active
      BY <2>2, <3>1 DEF ActiveFor
    <3>2. CASE r \notin active
      <4>1. PICK p \in Caller : call[p].at = "submitted" /\ call[p].op = r
        BY <2>2, <3>2 DEF OpsInv, LiveHeld, Held
      <4>2. call[p].conn = c
        BY <2>2, <4>1 DEF OpsInv, Registered
      <4>. QED BY <4>1, <4>2 DEF LockHolder
    <3>. QED BY <3>1, <3>2
  <2>3. /\ LockHolder(c) = {} \/ ActiveFor(c) = {}
        /\ \A p, r \in LockHolder(c) : p = r
        /\ \A p, r \in ActiveFor(c) : p = r
    BY <2>1 DEF OpsInv, LockDiscipline
  <2>4. \/ o \in ActiveFor(c)
        \/ \E p \in LockHolder(c) : call[p].at = "submitted" /\ call[p].op = o
    BY <2>2
  <2>5. \/ q \in ActiveFor(c)
        \/ \E p \in LockHolder(c) : call[p].at = "submitted" /\ call[p].op = q
    BY <2>2
  <2>. QED BY <2>3, <2>4, <2>5
<1>. QED BY <1>1, OpsInvariant, PTL

-----------------------------------------------------------------------------
(* Verdicts are final. *)

Kept(o) == status'[o] = status[o] /\ count'[o] = count[o] /\ reason'[o] = reason[o]

LEMMA RowsKept ==
    ASSUME TypeOK, [Next]_vars, NEW o \in Op, status[o] \in Terminal
    PROVE  Kept(o)
<1>1. CASE UNCHANGED vars
  BY <1>1 DEF vars, rowVars, Kept
<1>2. ASSUME NEW p \in Caller,
             \/ \E c \in Connector, k \in Kind : Request(p, c, k, BaseFor(c, k))
             \/ StartStep(p)
             \/ CreateFails(p)
      PROVE  Kept(o)
  <2>1. CASE CreateAndSubmit(p)
    BY <2>1 DEF CreateAndSubmit, Fresh, TypeOK, Kept
  <2>. QED BY <1>2, <2>1 DEF Request, StartStep, AcquireSlot, AcquireLock, GiveBack,
                             Register, DoneCheck, CreateFails, rowVars, Kept
<1>3. ASSUME NEW q \in Op,
             TakeThread(q) \/ Collect(q) \/ WorkerStep(q) \/ WorkerFault(q)
      PROVE  Kept(o)
  <2>1. CASE Claim(q) \/ Record(q)
    BY <2>1 DEF Claim, Record, CloseRow, TypeOK, rowVars, Kept
  <2>. QED BY <1>3, <2>1 DEF TakeThread, Collect, WorkerStep, WorkerFault, Report, SetRetry,
                             Finish, Exit, ClaimFails, ReportFails, RecordFails, SetRetryFails,
                             rowVars, Kept
<1>4. ASSUME NEW q \in Op,
             TimerFires(q) \/ TimerFails(q) \/ Age(q) \/ ReaperStep(q)
               \/ CloserStep(q) \/ CloserFails(q)
      PROVE  Kept(o)
  <2>1. CASE TimerFires(q) \/ ReapStale(q) \/ Recover(q)
    BY <2>1 DEF TimerFires, ReapStale, Recover, TimeOutRow, CloseRow, TypeOK, rowVars, Kept
  <2>. QED BY <1>4, <2>1 DEF TimerFails, Age, ReaperStep, ReapDone, CloserStep, CloserSetsRetry,
                             Detach, CloserFails, rowVars, Kept
<1>5. ASSUME NEW c \in Connector, EditConfig(c) \/ SetEnabled(c) \/ SkipItem(c)
      PROVE  Kept(o)
  BY <1>5 DEF EditConfig, SetEnabled, SkipItem, Fresh, TypeOK, rowVars, Kept
<1>6. CASE Restart
  BY <1>6 DEF Restart, rowVars, Kept
<1>. QED BY <1>1, <1>2, <1>3, <1>4, <1>5, <1>6 DEF Next

(* A closed operation never changes again, whoever comes late.             *)
THEOREM VerdictsFinal == Spec => TerminalFinal
<1>1. TypeOK /\ [Next]_vars =>
        [\A o \in Op : status[o] \in Terminal =>
            status'[o] = status[o] /\ count'[o] = count[o] /\ reason'[o] = reason[o]]_vars
  BY RowsKept DEF Kept
<1>. QED BY <1>1, TypeCorrect, PTL DEF Spec, TerminalFinal

-----------------------------------------------------------------------------
(* The orders.  All steps but the two that create a row are calm: no run   *)
(* becomes held, no row appears or is skipped.                             *)

Calm == /\ owner' = owner
        /\ \A o \in Op : Held(o)' => Held(o)
        /\ \A o \in Op, s \in {"none", "skipped"} : status'[o] = s <=> status[o] = s

CalmStep ==
    \/ \E p \in Caller :
          \/ \E c \in Connector, k \in Kind : Request(p, c, k, BaseFor(c, k))
          \/ AcquireSlot(p) \/ AcquireLock(p) \/ GiveBack(p) \/ Register(p) \/ DoneCheck(p)
    \/ \E o \in Op :
          \/ TakeThread(o) \/ Collect(o) \/ WorkerStep(o) \/ WorkerFault(o)
          \/ TimerFires(o) \/ TimerFails(o) \/ Age(o) \/ ReaperStep(o)
          \/ CloserStep(o) \/ CloserFails(o)
    \/ \E c \in Connector : EditConfig(c) \/ SetEnabled(c)
    \/ Restart

LEMMA NextIsCalmOrCreates ==
    Next => \/ CalmStep
            \/ \E p \in Caller : CreateAndSubmit(p)
            \/ \E c \in Connector : SkipItem(c)
BY DEF Next, CalmStep, StartStep, CreateFails

LEMMA CalmSteps ==
    ASSUME TypeOK, CalmStep
    PROVE  Calm
<1>1. ASSUME NEW p \in Caller, NEW c \in Connector, NEW k \in Kind,
             Request(p, c, k, BaseFor(c, k))
      PROVE  Calm
  BY <1>1 DEF Request, Release, Calm, Held, TypeOK, rowVars
<1>2. ASSUME NEW p \in Caller, AcquireSlot(p) \/ AcquireLock(p) \/ GiveBack(p)
      PROVE  Calm
  <2>1. \A q \in Caller : call'[q].at = "submitted" => call'[q] = call[q]
    BY <1>2, CallMoves, CallReturns DEF AcquireSlot, AcquireLock, GiveBack
  <2>. QED BY <1>2, <2>1 DEF AcquireSlot, AcquireLock, GiveBack, Calm, Held, rowVars
<1>3. ASSUME NEW p \in Caller, Register(p)
      PROVE  Calm
  BY <1>3, CallMoves DEF Register, Calm, Held, rowVars
<1>4. ASSUME NEW p \in Caller, DoneCheck(p)
      PROVE  Calm
  BY <1>4, CallReturns DEF DoneCheck, Release, Calm, Held, rowVars
<1>5. ASSUME NEW o \in Op, TakeThread(o) \/ Collect(o) \/ WorkerFault(o)
      PROVE  Calm
  BY <1>5 DEF TakeThread, Collect, WorkerFault, ClaimFails, ReportFails, RecordFails,
              SetRetryFails, Calm, Held, rowVars, lockVars
<1>6. ASSUME NEW o \in Op, WorkerStep(o)
      PROVE  Calm
  <2>1. CASE Claim(o) \/ Record(o)
    BY <2>1 DEF Claim, Record, CloseRow, Calm, Held, TypeOK, rowVars, lockVars
  <2>2. CASE Report(o) \/ SetRetry(o) \/ Finish(o) \/ Exit(o)
    BY <2>2 DEF Report, SetRetry, Finish, Exit, Release, Calm, Held, rowVars, lockVars
  <2>. QED BY <1>6, <2>1, <2>2 DEF WorkerStep
<1>7. ASSUME NEW o \in Op, TimerFires(o) \/ TimerFails(o) \/ Age(o) \/ ReaperStep(o)
      PROVE  Calm
  <2>1. CASE TimerFires(o) \/ ReapStale(o) \/ Recover(o)
    BY <2>1 DEF TimerFires, ReapStale, Recover, TimeOutRow, CloseRow, Calm, Held, TypeOK,
                rowVars, lockVars
  <2>2. CASE TimerFails(o) \/ Age(o) \/ ReapDone(o)
    BY <2>2 DEF TimerFails, Age, ReapDone, Release, Calm, Held, rowVars, lockVars
  <2>. QED BY <1>7, <2>1, <2>2 DEF ReaperStep
<1>8. ASSUME NEW o \in Op, CloserStep(o) \/ CloserFails(o)
      PROVE  Calm
  BY <1>8 DEF CloserStep, CloserSetsRetry, Detach, CloserFails, Release, Calm, Held, rowVars,
              lockVars
<1>9. ASSUME NEW c \in Connector, EditConfig(c) \/ SetEnabled(c)
      PROVE  Calm
  BY <1>9 DEF EditConfig, SetEnabled, Calm, Held, rowVars, lockVars
<1>10. CASE Restart
  BY <1>10 DEF Restart, Calm, Held, Idle, rowVars
<1>. QED BY <1>1, <1>2, <1>3, <1>4, <1>5, <1>6, <1>7, <1>8, <1>9, <1>10 DEF CalmStep

LEMMA CalmKeepsOrder ==
    ASSUME OrderInv, Calm
    PROVE  RowsInOrder' /\ HeldIsNewest'
BY DEF OrderInv, Calm, RowsInOrder, HeldIsNewest

(* A verdict's retry metadata is still to be written: the operation keeps  *)
(* its row, its slot and its lock.                                         *)
LEMMA RetryStaysHeld ==
    ASSUME OpsInv, TypeOK', OrderInv, CalmStep
    PROVE  RetryHeld'
<1>0. TypeOK /\ RetryHeld
  BY DEF OpsInv, OrderInv
<1>1. ASSUME NEW p \in Caller,
             \/ \E c \in Connector, k \in Kind : Request(p, c, k, BaseFor(c, k))
             \/ DoneCheck(p)
      PROVE  RetryHeld'
  <2>1. \A q \in Caller : call[q].at = "submitted" => call'[q] = call[q]
    BY <1>0, <1>1, CallReturns DEF Request, DoneCheck, TypeOK
  <2>2. /\ UNCHANGED <<job, status>>
        /\ \A o \in active : o \notin active' => job[o] \in Done
    BY <1>1 DEF Request, DoneCheck, Release, Finished, rowVars
  <2>. QED BY <1>0, <2>1, <2>2 DEF RetryHeld, Held
<1>2. ASSUME NEW p \in Caller, AcquireSlot(p) \/ AcquireLock(p) \/ GiveBack(p)
      PROVE  RetryHeld'
  <2>1. /\ UNCHANGED <<job, status, active>>
        /\ \A q \in Caller : call[q].at = "submitted" => call'[q] = call[q]
    BY <1>0, <1>2, CallMoves, CallReturns DEF AcquireSlot, AcquireLock, GiveBack, rowVars
  <2>. QED BY <1>0, <2>1 DEF RetryHeld, Held
<1>3. ASSUME NEW p \in Caller, Register(p)
      PROVE  RetryHeld'
  BY <1>0, <1>3, CallMoves DEF Register, RetryHeld, Held, rowVars
<1>4. ASSUME NEW o \in Op, Record(o)
      PROVE  RetryHeld'
  <2>1. CASE status[o] \notin Open
    BY <1>0, <1>4, <2>1 DEF Record, RetryHeld, Held, TypeOK, rowVars, lockVars
  <2>2. CASE status[o] \in Open
    <3>1. Held(o)
      BY <1>4, <2>2 DEF Record, OpsInv, LiveHeld, LiveRun
    <3>. QED BY <1>0, <1>4, <2>2, <3>1 DEF Record, CloseRow, RetryHeld, Held, TypeOK, lockVars
  <2>. QED BY <2>1, <2>2
<1>5. ASSUME NEW o \in Op,
             \/ TakeThread(o) \/ Claim(o) \/ Collect(o) \/ Report(o) \/ SetRetry(o)
             \/ Exit(o) \/ WorkerFault(o)
      PROVE  RetryHeld'
  BY <1>0, <1>5 DEF TakeThread, Claim, Collect, Report, SetRetry, Exit, WorkerFault, ClaimFails,
                    ReportFails, RecordFails, SetRetryFails, RetryHeld, Held, TypeOK, rowVars,
                    lockVars
<1>6. ASSUME NEW o \in Op, Finish(o) \/ ReapDone(o) \/ Detach(o)
      PROVE  RetryHeld'
  <2>1. job[o] # "retry"
    BY <1>0, <1>6 DEF Finish, ReapDone, Finished, Detach, RetryHeld, OpsInv, CloserClosed
  <2>2. job'[o] # "retry" /\ \A q \in Op \ {o} : job'[q] = job[q]
    BY <1>0, <1>6, <2>1 DEF Finish, ReapDone, Detach, TypeOK
  <2>3. /\ UNCHANGED <<status, call>>
        /\ active' = active \ {o}
    BY <1>6 DEF Finish, ReapDone, Detach, Release, rowVars
  <2>. QED BY <1>0, <2>2, <2>3 DEF RetryHeld, Held
<1>7. ASSUME NEW o \in Op, TimerFires(o) \/ ReapStale(o) \/ Recover(o)
      PROVE  RetryHeld'
  BY <1>0, <1>7 DEF TimerFires, ReapStale, Recover, TimeOutRow, CloseRow, RetryHeld, Held,
                    TypeOK, rowVars, lockVars
<1>8. ASSUME NEW o \in Op, TimerFails(o) \/ Age(o) \/ CloserSetsRetry(o) \/ CloserFails(o)
      PROVE  RetryHeld'
  BY <1>0, <1>8 DEF TimerFails, Age, CloserSetsRetry, CloserFails, RetryHeld, Held, rowVars,
                    lockVars
<1>9. ASSUME NEW c \in Connector, EditConfig(c) \/ SetEnabled(c)
      PROVE  RetryHeld'
  BY <1>0, <1>9 DEF EditConfig, SetEnabled, RetryHeld, Held, rowVars, lockVars
<1>10. CASE Restart
  BY <1>10 DEF Restart, RetryHeld
<1>. QED BY <1>1, <1>2, <1>3, <1>4, <1>5, <1>6, <1>7, <1>8, <1>9, <1>10
         DEF CalmStep, WorkerStep, ReaperStep, CloserStep

LEMMA LastStaysRun ==
    ASSUME OpsInv, OrderInv, CalmStep
    PROVE  LastRan'
<1>0. TypeOK /\ LastRan /\ Calm
  BY CalmSteps DEF OpsInv, OrderInv
<1>1. CASE lastBy' = lastBy
  BY <1>0, <1>1 DEF LastRan, Calm, TypeOK
<1>2. ASSUME NEW o \in Op, Report(o)
      PROVE  LastRan'
  <2>1. CASE status[o] \notin Open
    BY <1>0, <1>2, <2>1 DEF Report, LastRan, rowVars
  <2>2. CASE status[o] \in Open
    BY <1>0, <1>2, <2>2 DEF Report, LastRan, TypeOK, rowVars
  <2>. QED BY <2>1, <2>2
<1>. QED BY <1>1, <1>2
         DEF CalmStep, Request, AcquireSlot, AcquireLock, GiveBack, Register, DoneCheck, TakeThread,
             Collect, WorkerStep, Claim, Record, SetRetry, Finish, Exit, WorkerFault, ClaimFails,
             ReportFails, RecordFails, SetRetryFails, TimerFires, TimerFails, Age, ReaperStep,
             ReapDone, ReapStale, Recover, CloserStep, CloserSetsRetry, Detach, CloserFails,
             EditConfig, SetEnabled, Restart, connVars

(* A new row is the newest, and its connector holds no other operation: it *)
(* holds the lock.                                                         *)
LEMMA CreateKeepsOrder ==
    ASSUME OpsInv, OrderInv, NEW p \in Caller, CreateAndSubmit(p)
    PROVE  OrderInv'
<1>. DEFINE c == call[p].conn
<1>1. TypeOK /\ c \in Connector
  BY DEF CreateAndSubmit, OpsInv, TypeOK, Call, Idle
<1>2. PICK o \in Op : /\ Fresh(o)
                      /\ status' = [status EXCEPT ![o] = "queued"]
                      /\ owner'  = [owner EXCEPT ![o] = c]
                      /\ job'    = [job EXCEPT ![o] = "pending"]
                      /\ call'   = [call EXCEPT ![p] = [at |-> "submitted", conn |-> c,
                                            base |-> call[p].base, op |-> o]]
  BY DEF CreateAndSubmit
<1>3. /\ call'[p].at = "submitted" /\ call'[p].conn = c /\ call'[p].op = o
      /\ \A q \in Caller \ {p} : call'[q] = call[q]
      /\ UNCHANGED <<active, lastBy>>
  BY <1>1, <1>2 DEF CreateAndSubmit, TypeOK, lockVars, connVars
<1>4. /\ \A q \in Op : Held(q)' => Held(q) \/ q = o
      /\ \A q \in Op : Held(q) => Held(q)'
  BY <1>3 DEF Held, CreateAndSubmit
<1>5. ASSUME NEW q \in Op, Held(q)
      PROVE  owner[q] # c /\ status[q] # "none"
  <2>1. /\ LockHolder(c) = {} \/ ActiveFor(c) = {}
        /\ \A r, t \in LockHolder(c) : r = t
        /\ p \in LockHolder(c)
    BY <1>1 DEF CreateAndSubmit, LockHolder, OpsInv, LockDiscipline
  <2>2. CASE q \in active
    BY <2>1, <2>2 DEF ActiveFor, OpsInv, Registered
  <2>3. CASE q \notin active
    <3>1. PICK r \in Caller : call[r].at = "submitted" /\ call[r].op = q
      BY <1>5, <2>3 DEF Held
    <3>2. owner[q] = call[r].conn /\ status[q] # "none"
      BY <3>1 DEF OpsInv, Registered
    <3>. QED BY <2>1, <3>1, <3>2 DEF LockHolder, CreateAndSubmit
  <2>. QED BY <2>2, <2>3
<1>6. RowsInOrder'
  <2>1. \A q \in Op : q < o => status[q] # "none"
    BY <1>2 DEF Fresh
  <2>. QED BY <1>1, <1>2, <2>1 DEF OrderInv, RowsInOrder, TypeOK
<1>7. HeldIsNewest'
  <2>. SUFFICES ASSUME NEW q \in Op, NEW r \in Op, Held(q)', q < r, owner'[r] = owner'[q]
                PROVE  status'[r] \in {"none", "skipped"}
    BY DEF HeldIsNewest
  <2>1. CASE q = o
    BY <1>1, <1>2, <2>1 DEF Fresh, OrderInv, RowsInOrder, TypeOK
  <2>2. CASE q # o /\ r = o
    BY <1>1, <1>2, <1>4, <1>5, <2>2 DEF TypeOK
  <2>3. CASE q # o /\ r # o
    BY <1>1, <1>2, <1>4, <2>3 DEF OrderInv, HeldIsNewest, TypeOK
  <2>. QED BY <2>1, <2>2, <2>3
<1>8. RetryHeld'
  <2>1. status[o] = "none"
    BY <1>2 DEF Fresh
  <2>. QED BY <1>1, <1>2, <1>4, <2>1 DEF OrderInv, RetryHeld, TypeOK
<1>9. LastRan'
  <2>1. status[o] = "none"
    BY <1>2 DEF Fresh
  <2>2. \A d \in Connector : lastBy[d] # None => lastBy[d] \in Op
    BY <1>1 DEF TypeOK
  <2>. QED BY <1>1, <1>2, <1>3, <2>1, <2>2 DEF OrderInv, LastRan, TypeOK
<1>. QED BY <1>6, <1>7, <1>8, <1>9 DEF OrderInv

LEMMA SkipKeepsOrder ==
    ASSUME OpsInv, OrderInv, NEW c \in Connector, SkipItem(c)
    PROVE  OrderInv'
<1>1. TypeOK
  BY DEF OpsInv
<1>2. PICK o \in Op : /\ Fresh(o)
                      /\ status' = [status EXCEPT ![o] = "skipped"]
                      /\ owner'  = [owner EXCEPT ![o] = c]
  BY DEF SkipItem
<1>3. UNCHANGED <<active, call, lastBy, job>> /\ status[o] = "none"
  BY <1>2 DEF SkipItem, lockVars, connVars, Fresh
<1>4. \A q \in Op : (Held(q)' <=> Held(q)) /\ (Held(q) => status[q] # "none")
  BY <1>3 DEF Held, OpsInv, Registered
<1>5. RowsInOrder'
  <2>1. \A q \in Op : q < o => status[q] # "none"
    BY <1>2 DEF Fresh
  <2>. QED BY <1>1, <1>2, <2>1 DEF OrderInv, RowsInOrder, TypeOK
<1>6. HeldIsNewest' /\ RetryHeld'
  BY <1>1, <1>2, <1>3, <1>4 DEF OrderInv, HeldIsNewest, RetryHeld, TypeOK
<1>7. LastRan'
  <2>1. \A d \in Connector : lastBy[d] # None => lastBy[d] \in Op
    BY <1>1 DEF TypeOK
  <2>. QED BY <1>1, <1>2, <1>3, <2>1 DEF OrderInv, LastRan, TypeOK
<1>. QED BY <1>5, <1>6, <1>7 DEF OrderInv

LEMMA OrderInit == Init => OrderInv
BY DEF Init, OrderInv, RowsInOrder, HeldIsNewest, RetryHeld, LastRan, Held, Idle

LEMMA OrderNext == OpsInv /\ OpsInv' /\ OrderInv /\ [Next]_vars => OrderInv'
<1>1. ASSUME OrderInv, UNCHANGED vars PROVE OrderInv'
  BY <1>1 DEF OrderInv, RowsInOrder, HeldIsNewest, RetryHeld, LastRan, Held, vars, rowVars,
              connVars, lockVars
<1>2. ASSUME OpsInv, OpsInv', OrderInv, CalmStep PROVE OrderInv'
  <2>1. TypeOK /\ TypeOK'
    BY <1>2 DEF OpsInv
  <2>. QED BY <1>2, <2>1, CalmSteps, CalmKeepsOrder, RetryStaysHeld, LastStaysRun DEF OrderInv
<1>. QED BY <1>1, <1>2, NextIsCalmOrCreates, CreateKeepsOrder, SkipKeepsOrder

THEOREM OrderInvariant == Spec => [](OpsInv /\ OrderInv)
<1>1. Init => OrderInv
  BY OrderInit
<1>2. OpsInv /\ OpsInv' /\ OrderInv /\ [Next]_vars => OrderInv'
  BY OrderNext
<1>. QED BY <1>1, <1>2, OpsInvariant, PTL DEF Spec

(* Only Report writes last_status, for a live run: a newer operation than  *)
(* the one that wrote before.                                              *)
THEOREM StatusOrdered == Spec => StatusWritesInOrder
<1>. DEFINE Newer == \A c \in Connector : lastBy'[c] # lastBy[c] => lastBy'[c] > lastBy[c]
<1>1. ASSUME OpsInv, OrderInv, NEW o \in Op, Report(o)
      PROVE  Newer
  <2>1. CASE status[o] \notin Open
    BY <1>1, <2>1 DEF Report
  <2>2. CASE status[o] \in Open
    <3>. DEFINE d == owner[o]
    <3>1. TypeOK /\ d \in Connector /\ Held(o)
      BY <1>1, <2>2 DEF Report, OpsInv, TypeOK, LiveHeld, LiveRun
    <3>2. lastBy' = [lastBy EXCEPT ![d] = o]
      BY <1>1, <2>2 DEF Report
    <3>3. o \in Nat /\ o > 0
      BY ConstantsAssumption DEF Op
    <3>4. CASE lastBy[d] = None
      BY <3>1, <3>2, <3>3, <3>4 DEF TypeOK, None
    <3>5. CASE lastBy[d] # None
      <4>1. lastBy[d] \in Op /\ lastBy[d] \in Nat
        BY <3>1, <3>5, ConstantsAssumption DEF TypeOK, Op
      <4>2. owner[lastBy[d]] = d /\ status[lastBy[d]] \notin {"none", "skipped"}
        BY <1>1, <3>1, <3>5 DEF OrderInv, LastRan
      <4>3. ~(o < lastBy[d])
        BY <1>1, <3>1, <4>1, <4>2 DEF OrderInv, HeldIsNewest
      <4>. QED BY <3>1, <3>2, <3>3, <4>1, <4>3 DEF TypeOK
    <3>. QED BY <3>4, <3>5
  <2>. QED BY <2>1, <2>2
<1>2. ASSUME Next, \A o \in Op : ~Report(o)
      PROVE  lastBy' = lastBy
  BY <1>2
     DEF Next, Request, StartStep, CreateFails, AcquireSlot, AcquireLock,
         CreateAndSubmit, GiveBack, Register, DoneCheck, TakeThread,
         Collect, WorkerStep, Claim, Record, SetRetry, Finish, Exit, WorkerFault, ClaimFails,
         ReportFails, RecordFails, SetRetryFails, TimerFires, TimerFails, Age, ReaperStep,
         ReapDone, ReapStale, Recover, CloserStep, CloserSetsRetry, Detach, CloserFails,
         EditConfig, SetEnabled, SkipItem, Restart, connVars
<1>3. OpsInv /\ OrderInv /\ [Next]_vars => [Newer]_vars
  BY <1>1, <1>2 DEF vars, connVars
<1>. QED BY <1>3, OrderInvariant, PTL DEF Spec, StatusWritesInOrder

(* While the verdict's retry metadata is written the operation still holds *)
(* the lock, so there is no newer verdict to overwrite.                    *)
THEOREM RetryWritesNewest == Spec => RetryWriteIsNewest
<1>. DEFINE WritesNow(o) == /\ job[o] = "retry" \/ (closer[o] \in {"retry", "recover"} /\ o \in active)
                            /\ meta' # meta /\ meta'[owner[o]] # meta[owner[o]]
              IsNewest(o) == \A q \in Op : q > o /\ owner[q] = owner[o] => status[q] = "skipped"
<1>1. ASSUME OpsInv, OrderInv, NEW o \in Op, WritesNow(o)
      PROVE  IsNewest(o)
  <2>1. Held(o) /\ status[o] # "none"
    BY <1>1 DEF Held, OpsInv, CloserClosed, OrderInv, RetryHeld
  <2>2. ASSUME NEW q \in Op, q > o, owner[q] = owner[o]
        PROVE  status[q] = "skipped"
    <3>1. status[q] \in {"none", "skipped"}
      BY <1>1, <2>1, <2>2, ConstantsAssumption DEF OrderInv, HeldIsNewest, Op
    <3>2. owner[q] # None
      BY <1>1, <2>1, <2>2, ConstantsAssumption DEF OpsInv, TypeOK, None
    <3>3. status[q] # "none"
      BY <1>1, <3>2 DEF OrderInv, RowsInOrder
    <3>. QED BY <3>1, <3>3
  <2>. QED BY <2>2
<1>2. OpsInv /\ OrderInv =>
        [\A o \in Op :
            (job[o] = "retry" \/ (closer[o] \in {"retry", "recover"} /\ o \in active))
              /\ meta' # meta /\ meta'[owner[o]] # meta[owner[o]]
            => \A q \in Op : q > o /\ owner[q] = owner[o] => status[q] = "skipped"]_vars
  BY <1>1
<1>. QED BY <1>2, OrderInvariant, PTL DEF RetryWriteIsNewest

-----------------------------------------------------------------------------
(* Open rows.  Only CreateAndSubmit opens a row, only Restart orphans one. *)

RowsOnlyClose == \A o \in Op : status'[o] \in Open =>
                     status[o] \in Open /\ owner'[o] = owner[o]
NoNewOrphan == \A o \in Op : Orphan(o)' => Orphan(o)

(* What a step of an operation's threads does to the rows.                 *)
OpStep(o) ==
    \/ TakeThread(o) \/ WorkerStep(o) \/ WorkerFault(o) \/ Collect(o)
    \/ TimerFires(o) \/ TimerFails(o) \/ Age(o) \/ ReaperStep(o)
    \/ CloserStep(o) \/ CloserFails(o)

LEMMA OpStepRows ==
    ASSUME OpsInv, ClaimedRuns, NEW o \in Op, OpStep(o)
    PROVE  /\ ClaimedRuns'
           /\ RowsOnlyClose /\ NoNewOrphan
           /\ ~DbFaults /\ OpenIsLive => OpenIsLive'
<1>0. TypeOK /\ CloserClosed
  BY DEF OpsInv
<1>. USE DEF RowsOnlyClose, NoNewOrphan, Orphan, ClaimedRuns, OpenIsLive, LiveRun
<1>1. CASE TakeThread(o) \/ Collect(o)
  BY <1>0, <1>1 DEF TakeThread, Collect, TypeOK, rowVars
<1>2. CASE Claim(o)
  BY <1>0, <1>2 DEF Claim, TypeOK
<1>3. CASE Report(o)
  BY <1>0, <1>3 DEF Report, TypeOK, rowVars
<1>4. CASE Record(o)
  <2>1. CASE status[o] \in Open
    BY <1>0, <1>4, <2>1 DEF Record, CloseRow, TypeOK
  <2>2. CASE status[o] \notin Open
    BY <1>0, <1>4, <2>2 DEF Record, TypeOK, rowVars
  <2>. QED BY <2>1, <2>2
<1>5. CASE SetRetry(o) \/ Finish(o) \/ Exit(o)
  BY <1>0, <1>5 DEF SetRetry, Finish, Exit, TypeOK, rowVars
<1>6. CASE WorkerFault(o)
  BY <1>0, <1>6 DEF WorkerFault, ClaimFails, ReportFails, RecordFails, SetRetryFails,
                    TypeOK, rowVars
<1>7. CASE TimerFires(o) \/ ReapStale(o) \/ Recover(o)
  BY <1>0, <1>7 DEF TimerFires, ReapStale, Recover, TimeOutRow, CloseRow, TypeOK, rowVars
<1>8. CASE TimerFails(o) \/ Age(o) \/ ReapDone(o) \/ CloserSetsRetry(o) \/ CloserFails(o)
  BY <1>0, <1>8 DEF TimerFails, Age, ReapDone, CloserSetsRetry, CloserFails, TypeOK, rowVars
<1>9. CASE Detach(o)
  BY <1>0, <1>9 DEF Detach, CloserClosed, TypeOK, rowVars
<1>. QED BY <1>1, <1>2, <1>3, <1>4, <1>5, <1>6, <1>7, <1>8, <1>9
         DEF OpStep, WorkerStep, ReaperStep, CloserStep

(* A start call past the duplicate check either was so before, or saw no   *)
(* open row just now.                                                      *)
Waits(p) == call[p].at \in {"clear", "slot", "lock"}

LEMMA WaitsOn ==
    ASSUME TypeOK, ~DbFaults, NEW p \in Caller, NEW q \in Caller, Waits(q)',
           \/ \E c \in Connector, k \in Kind : Request(p, c, k, BaseFor(c, k))
           \/ StartStep(p) \/ CreateFails(p)
    PROVE  \/ Waits(q) /\ call'[q].conn = call[q].conn
           \/ OpenFor(call'[q].conn) = {}
<1>1. ASSUME NEW c \in Connector, NEW k \in Kind, Request(p, c, k, BaseFor(c, k))
      PROVE  \/ Waits(q) /\ call'[q].conn = call[q].conn
             \/ OpenFor(call'[q].conn) = {}
  <2>1. PICK blind \in {FALSE, DbFaults} :
           call' = IF OpenFor(c) = {} \/ blind
                   THEN [call EXCEPT ![p] = [at |-> "clear", conn |-> c, base |-> BaseFor(c, k),
                                             op |-> None]]
                   ELSE call
    BY <1>1 DEF Request
  <2>2. blind = FALSE
    BY ConstantsAssumption
  <2>3. CASE OpenFor(c) = {} /\ q = p
    BY <2>1, <2>3 DEF TypeOK
  <2>4. CASE OpenFor(c) # {} \/ q # p
    <3>1. call'[q] = call[q]
      BY <2>1, <2>2, <2>4 DEF TypeOK
    <3>. QED BY <3>1 DEF Waits
  <2>. QED BY <2>3, <2>4
<1>2. CASE AcquireSlot(p) \/ AcquireLock(p) \/ CreateFails(p) \/ Register(p) \/ DoneCheck(p)
  <2>1. Waits(p)' => Waits(p) /\ call'[p].conn = call[p].conn
    BY <1>2, CallMoves, CallReturns
       DEF AcquireSlot, AcquireLock, CreateFails, GiveBack, Register, DoneCheck, Waits
  <2>2. q # p => call'[q] = call[q]
    BY <1>2, CallMoves, CallReturns
       DEF AcquireSlot, AcquireLock, CreateFails, GiveBack, Register, DoneCheck
  <2>. QED BY <2>1, <2>2 DEF Waits
<1>3. CASE CreateAndSubmit(p)
  BY <1>3 DEF CreateAndSubmit, Waits, TypeOK
<1>. QED BY <1>1, <1>2, <1>3 DEF StartStep

(* The steps of a start call before and after it creates the row.          *)
LEMMA StartRows ==
    ASSUME OpsInv, RowInv, NEW p \in Caller, ~CreateAndSubmit(p),
           \/ \E c \in Connector, k \in Kind : Request(p, c, k, BaseFor(c, k))
           \/ StartStep(p) \/ CreateFails(p)
    PROVE  RowInv'
<1>1. UNCHANGED <<status, owner, job>>
  BY DEF Request, StartStep, AcquireSlot, AcquireLock, CreateFails, GiveBack, Register,
         DoneCheck, rowVars
<1>2. ClaimedRuns'
  BY <1>1 DEF RowInv, ClaimedRuns
<1>3. ASSUME ~DbFaults
      PROVE  OpenIsLive' /\ OrphanBlocks' /\ OneOpenRow'
  <2>1. OpenIsLive' /\ OneOpenRow'
    BY <1>1, <1>3 DEF RowInv, OpenIsLive, OneOpenRow, LiveRun, Orphan
  <2>2. ASSUME NEW q \in Caller, NEW o \in Op, Waits(q)', Orphan(o)'
        PROVE  owner'[o] # call'[q].conn
    <3>1. Orphan(o) /\ owner'[o] = owner[o]
      BY <1>1, <2>2 DEF Orphan
    <3>2. \/ Waits(q) /\ call'[q].conn = call[q].conn
          \/ OpenFor(call'[q].conn) = {}
      BY <1>3, <2>2, WaitsOn DEF OpsInv
    <3>. QED BY <1>3, <3>1, <3>2 DEF RowInv, OrphanBlocks, Waits, OpenFor, Orphan
  <2>. QED BY <2>1, <2>2 DEF OrphanBlocks, Waits
<1>. QED BY <1>2, <1>3 DEF RowInv

(* Before the row is created its connector has no open one: an orphan      *)
(* would have been seen, and a live run would hold the lock.               *)
LEMMA NoneOpenAtCreate ==
    ASSUME OpsInv, RowInv, ~DbFaults, NEW p \in Caller, call[p].at = "lock"
    PROVE  OpenFor(call[p].conn) = {}
<1>. DEFINE c == call[p].conn
<1>1. c \in Connector /\ p \in LockHolder(c)
  BY DEF OpsInv, TypeOK, Call, Idle, LockHolder
<1>2. ASSUME NEW o \in Op, owner[o] = c, status[o] \in Open
      PROVE  FALSE
  <2>1. ~Orphan(o)
    BY <1>2 DEF RowInv, OrphanBlocks
  <2>2. Held(o)
    BY <1>2, <2>1 DEF RowInv, OpenIsLive, OpsInv, LiveHeld
  <2>3. ActiveFor(c) = {} /\ \A q \in LockHolder(c) : q = p
    BY <1>1 DEF OpsInv, LockDiscipline
  <2>4. PICK q \in Caller : call[q].at = "submitted" /\ call[q].op = o
    BY <1>2, <2>2, <2>3 DEF Held, ActiveFor
  <2>5. q \in LockHolder(c)
    BY <1>2, <2>4 DEF OpsInv, Registered, LockHolder
  <2>. QED BY <2>3, <2>4, <2>5
<1>. QED BY <1>2 DEF OpenFor

LEMMA CreateRows ==
    ASSUME OpsInv, RowInv, NEW p \in Caller, CreateAndSubmit(p)
    PROVE  RowInv'
<1>. DEFINE c == call[p].conn
<1>1. TypeOK /\ call[p].at = "lock"
  BY DEF OpsInv, CreateAndSubmit
<1>2. PICK o \in Op : /\ Fresh(o)
                      /\ status' = [status EXCEPT ![o] = "queued"]
                      /\ owner'  = [owner EXCEPT ![o] = c]
                      /\ job'    = [job EXCEPT ![o] = "pending"]
                      /\ call'   = [call EXCEPT ![p] = [at |-> "submitted", conn |-> c,
                                            base |-> call[p].base, op |-> o]]
  BY DEF CreateAndSubmit
<1>3. ClaimedRuns'
  BY <1>1, <1>2 DEF RowInv, ClaimedRuns, TypeOK
<1>4. ASSUME ~DbFaults
      PROVE  OpenIsLive' /\ OrphanBlocks' /\ OneOpenRow'
  <2>1. OpenFor(c) = {}
    BY <1>1, <1>4, NoneOpenAtCreate
  <2>2. OpenIsLive'
    BY <1>1, <1>2, <1>4 DEF RowInv, OpenIsLive, LiveRun, Orphan, TypeOK
  <2>3. OneOpenRow'
    BY <1>1, <1>2, <1>4, <2>1 DEF RowInv, OneOpenRow, OpenFor, TypeOK
  <2>4. ASSUME NEW q \in Caller, NEW r \in Op, Waits(q)', Orphan(r)'
        PROVE  owner'[r] # call'[q].conn
    <3>1. Orphan(r) /\ owner'[r] = owner[r]
      BY <1>1, <1>2, <2>4 DEF Orphan, TypeOK
    <3>2. Waits(q) /\ call'[q] = call[q]
      BY <1>1, <1>2, <2>4 DEF Waits, TypeOK
    <3>. QED BY <1>4, <3>1, <3>2 DEF RowInv, OrphanBlocks, Waits
  <2>. QED BY <2>2, <2>3, <2>4 DEF OrphanBlocks, Waits
<1>. QED BY <1>3, <1>4 DEF RowInv

(* A step that opens no row, makes no orphan and leaves the calls alone.   *)
LEMMA RowsOnlyCloseKeeps ==
    ASSUME RowInv, ~DbFaults, RowsOnlyClose, NoNewOrphan, call' = call
    PROVE  OrphanBlocks' /\ OneOpenRow'
<1>1. OneOpenRow'
  BY DEF RowInv, OneOpenRow, RowsOnlyClose
<1>2. OrphanBlocks'
  BY DEF RowInv, OrphanBlocks, RowsOnlyClose, NoNewOrphan, Orphan
<1>. QED BY <1>1, <1>2

LEMMA OpStepKeepsCalls ==
    ASSUME NEW o \in Op, OpStep(o)
    PROVE  call' = call
BY DEF OpStep, TakeThread, WorkerStep, Claim, Report, Record, SetRetry, Finish, Exit,
       WorkerFault, ClaimFails, ReportFails, RecordFails, SetRetryFails, Collect,
       TimerFires, TimerFails, Age, ReaperStep, ReapDone, ReapStale, Recover,
       CloserStep, CloserSetsRetry, Detach, CloserFails

LEMMA AdminRows ==
    ASSUME OpsInv, RowInv, NEW c \in Connector, EditConfig(c) \/ SetEnabled(c) \/ SkipItem(c)
    PROVE  RowInv'
<1>1. TypeOK
  BY DEF OpsInv
<1>2. UNCHANGED <<job, call>>
  BY DEF EditConfig, SetEnabled, SkipItem
<1>3. ClaimedRuns' /\ RowsOnlyClose /\ NoNewOrphan /\ (OpenIsLive => OpenIsLive')
  BY <1>1, <1>2 DEF EditConfig, SetEnabled, SkipItem, Fresh, RowInv, ClaimedRuns, RowsOnlyClose,
                    NoNewOrphan, Orphan, OpenIsLive, LiveRun, TypeOK, rowVars
<1>. QED BY <1>2, <1>3, RowsOnlyCloseKeeps DEF RowInv

LEMMA RestartRows ==
    ASSUME RowInv, Restart
    PROVE  RowInv'
BY DEF Restart, RowInv, ClaimedRuns, OpenIsLive, OrphanBlocks, OneOpenRow, Orphan, LiveRun,
       Idle, rowVars

LEMMA RowInit == Init => RowInv
BY DEF Init, RowInv, ClaimedRuns, OpenIsLive, OrphanBlocks, OneOpenRow, Orphan, LiveRun, Idle

LEMMA RowNext == OpsInv /\ RowInv /\ [Next]_vars => RowInv'
<1>. SUFFICES ASSUME OpsInv, RowInv, [Next]_vars PROVE RowInv'
  OBVIOUS
<1>1. CASE UNCHANGED vars
  BY <1>1 DEF vars, rowVars, RowInv, ClaimedRuns, OpenIsLive, OrphanBlocks, OneOpenRow, Orphan,
              LiveRun
<1>2. ASSUME NEW p \in Caller,
             \/ \E c \in Connector, k \in Kind : Request(p, c, k, BaseFor(c, k))
             \/ StartStep(p) \/ CreateFails(p)
      PROVE  RowInv'
  BY <1>2, StartRows, CreateRows
<1>3. ASSUME NEW o \in Op, OpStep(o)
      PROVE  RowInv'
  BY <1>3, OpStepRows, OpStepKeepsCalls, RowsOnlyCloseKeeps DEF RowInv
<1>4. CASE \E c \in Connector : EditConfig(c) \/ SetEnabled(c) \/ SkipItem(c)
  BY <1>4, AdminRows
<1>5. CASE Restart
  BY <1>5, RestartRows
<1>. QED BY <1>1, <1>2, <1>3, <1>4, <1>5 DEF Next, OpStep

THEOREM RowInvariant == Spec => [](OpsInv /\ OrderInv /\ RowInv)
<1>1. Init => RowInv
  BY RowInit
<1>2. OpsInv /\ RowInv /\ [Next]_vars => RowInv'
  BY RowNext
<1>. QED BY <1>1, <1>2, OrderInvariant, PTL DEF Spec

(* A connector never has two open rows, across restarts and with any       *)
(* number of start calls past the duplicate check, as long as the storage  *)
(* calls of that check, of the claim and of the verdict do not raise.      *)
THEOREM RowsOneOpen == ASSUME ~DbFaults PROVE Spec => []OneOpenRow
<1>1. RowInv => OneOpenRow
  BY DEF RowInv
<1>. QED BY <1>1, RowInvariant, PTL

-----------------------------------------------------------------------------
(* The refinement.  A verdict's metadata is written by the worker or by    *)
(* the thread of its timeout, never by both.                               *)

LEMMA OneWriter ==
    ASSUME OpsInv, OrderInv, NEW o \in Op
    PROVE  ~(job[o] = "retry" /\ closer[o] # "none")
BY DEF OpsInv, CloserClosed, OrderInv, RetryHeld

LEMMA SameDesired ==
    ASSUME NEW o \in Op
    PROVE  Desired(o) = Ledger!Desired(o)
BY DEF Desired, RetryAfter, Ledger!Desired, NoMeta, Ledger!NoMeta, None, Ledger!None

LEMMA LedgerQuiet ==
    ASSUME UNCHANGED <<status, owner, count, reason, meta>>, Writing' = Writing
    PROVE  UNCHANGED Ledger!ledgerVars
BY DEF Ledger!ledgerVars

(* A write of the metadata that is made, and one that is lost.             *)
LEMMA LedgerWrites ==
    ASSUME NEW o \in Writing, Writing' = Writing \ {o},
           meta' = [meta EXCEPT ![owner[o]] = Desired(o)],
           UNCHANGED <<status, owner, count, reason>>
    PROVE  Ledger!Next
<1>1. o \in Op
  BY DEF Writing
<1>2. Ledger!WriteMeta(o)
  BY <1>1, SameDesired DEF Ledger!WriteMeta
<1>. QED BY <1>1, <1>2 DEF Ledger!Next, Op, Ledger!Op

LEMMA LedgerLoses ==
    ASSUME NEW S \in SUBSET Writing, S # {}, Writing' = Writing \ S,
           UNCHANGED <<status, owner, count, reason, meta>>
    PROVE  Ledger!Next
BY DEF Ledger!Next, Ledger!LoseWrites

(* A run's own verdict.                                                    *)
LEMMA LedgerRecords ==
    ASSUME OpsInv, RowInv, NEW o \in Op, Record(o)
    PROVE  Ledger!Next \/ UNCHANGED Ledger!ledgerVars
<1>1. TypeOK
  BY DEF OpsInv
<1>2. CASE status[o] \notin Open
  <2>1. Writing' = Writing
    BY <1>1, <1>2 DEF Record, Writing, TypeOK
  <2>. QED BY <1>2, <2>1, LedgerQuiet DEF Record, rowVars, connVars
<1>3. CASE status[o] \in Open
  <2>1. status[o] = "running"
    BY <1>3 DEF Record, RowInv, ClaimedRuns
  <2>2. Writing' = Writing \cup {o}
    BY <1>1, <1>3 DEF Record, Writing, TypeOK
  <2>3. CASE result[o] = "ok"
    <3>1. count' = count
      BY <1>1, <1>3, <2>3 DEF Record, CloseRow, TypeOK
    <3>. QED BY <1>3, <2>1, <2>2, <2>3, <3>1
             DEF Record, CloseRow, connVars, Ledger!Succeed, Ledger!Close, Ledger!Next, Op, Ledger!Op
  <2>4. CASE result[o] # "ok"
    <3>1. Ledger!Fail(o)
      BY <1>3, <2>1, <2>2, <2>4 DEF Record, CloseRow, connVars, Ledger!Fail, Bump, Ledger!Bump
    <3>. QED BY <3>1 DEF Ledger!Next, Ledger!Close, Op, Ledger!Op
  <2>. QED BY <2>3, <2>4
<1>. QED BY <1>2, <1>3

(* The verdict of a timeout.                                               *)
LEMMA LedgerTimesOut ==
    ASSUME OpsInv, NEW o \in Op, NEW r \in {"timeout", "process_restart"},
           NEW next \in {"retry", "recover"},
           status[o] \in Open, TimeOutRow(o, r, next), UNCHANGED <<meta, job>>
    PROVE  Ledger!Next
<1>1. Writing' = Writing \cup {o}
  BY DEF OpsInv, TypeOK, TimeOutRow, Writing
<1>2. Ledger!TimeOut(o)
  BY <1>1 DEF TimeOutRow, CloseRow, Ledger!TimeOut, Ledger!Open, Bump, Ledger!Bump
<1>. QED BY <1>2 DEF Ledger!Next, Ledger!Close, Op, Ledger!Op

LEMMA LedgerOpStep ==
    ASSUME OpsInv, OrderInv, RowInv, NEW o \in Op, OpStep(o)
    PROVE  Ledger!Next \/ UNCHANGED Ledger!ledgerVars
<1>1. TypeOK /\ ~(job[o] = "retry" /\ closer[o] # "none")
  BY OneWriter DEF OpsInv
<1>2. CASE TakeThread(o) \/ Collect(o) \/ Report(o) \/ Finish(o) \/ Exit(o)
  <2>1. Writing' = Writing
    BY <1>1, <1>2 DEF TakeThread, Collect, Report, Finish, Exit, Writing, TypeOK
  <2>. QED BY <1>2, <2>1, LedgerQuiet
           DEF TakeThread, Collect, Report, Finish, Exit, rowVars, connVars
<1>3. CASE Claim(o)
  <2>1. Writing' = Writing
    BY <1>1, <1>3 DEF Claim, Writing, TypeOK
  <2>2. CASE status[o] = "queued"
    <3>1. Ledger!Begin(o)
      BY <1>3, <2>1, <2>2 DEF Claim, connVars, Ledger!Begin
    <3>. QED BY <3>1 DEF Ledger!Next, Op, Ledger!Op
  <2>3. CASE status[o] # "queued"
    BY <1>3, <2>1, <2>3, LedgerQuiet DEF Claim, connVars
  <2>. QED BY <2>2, <2>3
<1>4. CASE SetRetry(o)
  <2>1. o \in Writing /\ Writing' = Writing \ {o}
    BY <1>1, <1>4 DEF SetRetry, Writing, TypeOK
  <2>. QED BY <1>4, <2>1, LedgerWrites DEF SetRetry, rowVars
<1>5. CASE ClaimFails(o) \/ ReportFails(o) \/ RecordFails(o)
  <2>1. Writing' = Writing
    BY <1>1, <1>5 DEF ClaimFails, ReportFails, RecordFails, Writing, TypeOK
  <2>. QED BY <1>5, <2>1, LedgerQuiet DEF ClaimFails, ReportFails, RecordFails, rowVars, connVars
<1>6. CASE SetRetryFails(o) \/ CloserFails(o)
  <2>1. o \in Writing /\ Writing' = Writing \ {o}
    BY <1>1, <1>6 DEF SetRetryFails, CloserFails, AfterRetry, Writing, TypeOK
  <2>. QED BY <1>6, <2>1, LedgerLoses DEF SetRetryFails, CloserFails, rowVars, connVars
<1>7. CASE TimerFails(o) \/ Age(o) \/ ReapDone(o)
  <2>1. Writing' = Writing
    BY <1>7 DEF TimerFails, Age, ReapDone, Writing
  <2>. QED BY <1>7, <2>1, LedgerQuiet DEF TimerFails, Age, ReapDone, rowVars, connVars
<1>8. CASE TimerFires(o)
  <2>1. CASE o \in active /\ job[o] \notin Done /\ status[o] \in Open
    BY <1>8, <2>1, LedgerTimesOut DEF TimerFires, connVars
  <2>2. CASE ~(o \in active /\ job[o] \notin Done /\ status[o] \in Open)
    <3>1. Writing' = Writing
      BY <1>8, <2>2 DEF TimerFires, Writing
    <3>. QED BY <1>8, <2>2, <3>1, LedgerQuiet DEF TimerFires, rowVars, connVars
  <2>. QED BY <2>1, <2>2
<1>9. CASE ReapStale(o) \/ Recover(o)
  BY <1>9, LedgerTimesOut DEF ReapStale, Recover, connVars
<1>10. CASE CloserSetsRetry(o)
  <2>1. o \in Writing /\ Writing' = Writing \ {o}
    BY <1>1, <1>10 DEF CloserSetsRetry, AfterRetry, Writing, TypeOK
  <2>. QED BY <1>10, <2>1, LedgerWrites DEF CloserSetsRetry, rowVars
<1>11. CASE Detach(o)
  <2>1. Writing' = Writing
    BY <1>1, <1>11 DEF Detach, Writing, TypeOK
  <2>. QED BY <1>11, <2>1, LedgerQuiet DEF Detach, rowVars, connVars
<1>12. CASE Record(o)
  BY <1>12, LedgerRecords
<1>. QED BY <1>2, <1>3, <1>4, <1>5, <1>6, <1>7, <1>8, <1>9, <1>10, <1>11, <1>12
         DEF OpStep, WorkerStep, WorkerFault, ReaperStep, CloserStep

(* The row a start call creates is accepted by the ledger: none is open.   *)
LEMMA LedgerRequests ==
    ASSUME OpsInv, OrderInv, RowInv, NEW p \in Caller, CreateAndSubmit(p)
    PROVE  Ledger!Next
<1>1. /\ TypeOK /\ call[p].at = "lock"
      /\ call[p].conn \in Connector /\ call[p].base \in 0..MaxRetry
  BY DEF CreateAndSubmit, OpsInv, TypeOK, Call, Idle
<1>2. PICK o \in Op : /\ Fresh(o)
                      /\ status' = [status EXCEPT ![o] = "queued"]
                      /\ owner'  = [owner EXCEPT ![o] = call[p].conn]
                      /\ count'  = [count EXCEPT ![o] = call[p].base]
                      /\ job'    = [job EXCEPT ![o] = "pending"]
  BY DEF CreateAndSubmit
<1>3. Writing' = Writing
  <2>1. job[o] # "retry"
    BY <1>2 DEF OrderInv, RetryHeld, Fresh
  <2>. QED BY <1>1, <1>2, <2>1 DEF CreateAndSubmit, Writing, TypeOK
<1>4. Ledger!OpenFor(call[p].conn) = {} \/ DbFaults
  BY <1>1, NoneOpenAtCreate DEF Ledger!OpenFor, OpenFor, Ledger!Op, Op, Ledger!Open
<1>5. Ledger!Request(o, call[p].conn, call[p].base)
  BY <1>2, <1>3, <1>4 DEF Ledger!Request, CreateAndSubmit, connVars, Fresh, Ledger!Fresh,
                          Op, Ledger!Op
<1>. QED BY <1>1, <1>5 DEF Ledger!Next, Op, Ledger!Op

LEMMA LedgerSkips ==
    ASSUME NEW c \in Connector, SkipItem(c)
    PROVE  Ledger!Next
<1>1. PICK o \in Op : Fresh(o) /\ status' = [status EXCEPT ![o] = "skipped"]
                      /\ owner'  = [owner EXCEPT ![o] = c]
  BY DEF SkipItem
<1>2. Ledger!Skip(o, c)
  BY <1>1 DEF SkipItem, Writing, connVars, Ledger!Skip, Fresh, Ledger!Fresh, Op, Ledger!Op
<1>. QED BY <1>1, <1>2 DEF Ledger!Next, Op, Ledger!Op

LEMMA LedgerRestarts ==
    ASSUME Restart
    PROVE  Ledger!Next \/ UNCHANGED Ledger!ledgerVars
<1>1. Writing' = {}
  BY DEF Restart, Writing
<1>2. UNCHANGED <<status, owner, count, reason, meta>>
  BY DEF Restart, rowVars, connVars
<1>. QED BY <1>1, <1>2, LedgerQuiet, LedgerLoses

LEMMA LedgerStep ==
    OpsInv /\ OrderInv /\ RowInv /\ [Next]_vars => [Ledger!Next]_(Ledger!ledgerVars)
<1>. SUFFICES ASSUME OpsInv, OrderInv, RowInv, [Next]_vars
              PROVE  Ledger!Next \/ UNCHANGED Ledger!ledgerVars
  OBVIOUS
<1>1. CASE UNCHANGED vars
  <2>1. Writing' = Writing
    BY <1>1 DEF vars, Writing
  <2>. QED BY <1>1, <2>1, LedgerQuiet DEF vars, rowVars, connVars
<1>2. ASSUME NEW p \in Caller,
             \/ \E c \in Connector, k \in Kind : Request(p, c, k, BaseFor(c, k))
             \/ AcquireSlot(p) \/ AcquireLock(p) \/ Register(p) \/ DoneCheck(p)
             \/ CreateFails(p)
      PROVE  UNCHANGED Ledger!ledgerVars
  <2>1. UNCHANGED <<rowVars, meta, job, closer>>
    BY <1>2 DEF Request, AcquireSlot, AcquireLock, Register, DoneCheck, CreateFails, GiveBack,
                connVars
  <2>2. Writing' = Writing
    BY <2>1 DEF Writing
  <2>. QED BY <2>1, <2>2, LedgerQuiet DEF rowVars
<1>3. ASSUME NEW c \in Connector, EditConfig(c) \/ SetEnabled(c)
      PROVE  UNCHANGED Ledger!ledgerVars
  <2>1. Writing' = Writing
    BY <1>3 DEF EditConfig, SetEnabled, Writing
  <2>. QED BY <1>3, <2>1, LedgerQuiet DEF EditConfig, SetEnabled, rowVars
<1>. QED BY <1>1, <1>2, <1>3, LedgerRequests, LedgerOpStep, LedgerSkips, LedgerRestarts
         DEF Next, StartStep, OpStep

LEMMA LedgerInit == Init => Ledger!Init
BY DEF Init, Ledger!Init, Op, Ledger!Op, None, Ledger!None, NoMeta, Ledger!NoMeta, Writing

(* The manager implements the ledger, with and without storage faults:     *)
(* what threads, timers, the reaper and restarts do to each other never    *)
(* shows as anything but one life per operation and a late or lost write.  *)
THEOREM ImplementsTheLedger == Spec => ImplementsLedger
<1>1. Init => Ledger!Init
  BY LedgerInit
<1>2. OpsInv /\ OrderInv /\ RowInv /\ [Next]_vars => [Ledger!Next]_(Ledger!ledgerVars)
  BY LedgerStep
<1>. QED BY <1>1, <1>2, RowInvariant, PTL DEF Spec, ImplementsLedger, Ledger!Spec

=============================================================================
