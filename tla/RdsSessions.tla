----------------------------- MODULE RdsSessions -----------------------------
(***************************************************************************)
(* The RDS projection for one database user on one instance and one day    *)
(* (rds/projection.py): the rows of rds_active_sessions, the alert on      *)
(* sessions open from several addresses at once, and the alert on a burst  *)
(* of failed logins.  Several threads drain the queue; a message comes in  *)
(* any order and any number of times, and the projection runs on every     *)
(* delivery, stored event or not.                                          *)
(***************************************************************************)
EXTENDS Integers, FiniteSets

CONSTANTS
    Drain,      \* threads inside ingest_payload
    Session,    \* sessions of the user
    Address,    \* their source_ip
    Failure,    \* failed logins of the user within BURST_WINDOW_MINUTES
    BurstAt     \* BURST_THRESHOLD

ASSUME RdsAssumption ==
    /\ DOMAIN Address = Session /\ IsFiniteSet(Failure)
    /\ BurstAt \in Nat \ {0} /\ Session \cap Failure = {}

NoEvent == "none"

VARIABLES
    actual,      \* what happened: starts and ends of sessions
    sessions,    \* rds_active_sessions: no row, open, closed
    refusals,    \* rds.auth.failure in the events table
    step,        \* where each drain is
    on,          \* the session or failure it is at
    concurrent,  \* rds.session.concurrent is stored
    burst,       \* rds.auth.burst is stored
    cutOff,      \* sessions whose last start was cut short (ghost)
    crossed      \* a failure was stored and not counted at once (ghost)

rdsVars == <<actual, sessions, refusals, step, on, concurrent, burst, cutOff, crossed>>

RdsTypeOK ==
    /\ actual \in [Session -> {"not yet", "open", "closed"}]
    /\ sessions \in [Session -> {"absent", "open", "closed"}]
    /\ refusals \subseteq Failure
    /\ step \in [Drain -> {"idle", "stored", "alerting", "counting", "bursting"}]
    /\ on \in [Drain -> Session \cup Failure \cup {NoEvent}]
    /\ {concurrent, burst, crossed} \subseteq BOOLEAN
    /\ cutOff \subseteq Session

RdsInit ==
    /\ actual = [s \in Session |-> "not yet"] /\ sessions = [s \in Session |-> "absent"]
    /\ refusals = {} /\ cutOff = {} /\ concurrent = FALSE /\ burst = FALSE /\ crossed = FALSE
    /\ step = [d \in Drain |-> "idle"] /\ on = [d \in Drain |-> NoEvent]

-----------------------------------------------------------------------------
Goto(d, at, what) == step' = [step EXCEPT ![d] = at] /\ on' = [on EXCEPT ![d] = what]
Done(d)           == Goto(d, "idle", NoEvent)

(* The database logs a session.                                            *)
Logs(s) ==
    /\ actual[s] # "closed"
    /\ actual' = [actual EXCEPT ![s] = IF @ = "open" THEN "closed" ELSE "open"]
    /\ UNCHANGED <<sessions, refusals, step, on, concurrent, burst, cutOff, crossed>>

(* A session that has a row keeps it as it is, closed too.                 *)
SessionUpserted(s) == sessions' = [sessions EXCEPT ![s] = IF @ = "absent" THEN "open" ELSE @]
SessionClosed(s)   == sessions' = [sessions EXCEPT ![s] = IF @ = "open" THEN "closed" ELSE @]

(* rds.session.start: one that has a row is compared with the others again.*)
(* Mutant: only a start that inserted its row is compared.                 *)
StartStoredOnce(d, s) ==
    /\ step[d] = "idle" /\ actual[s] # "not yet"
    /\ SessionUpserted(s)
    /\ IF sessions[s] = "absent" THEN Goto(d, "stored", s) /\ UNCHANGED cutOff
                                  ELSE cutOff' = cutOff \ {s} /\ UNCHANGED <<step, on>>
    /\ UNCHANGED <<actual, refusals, concurrent, burst, crossed>>
StartStored(d, s) ==
    /\ step[d] = "idle" /\ actual[s] # "not yet"
    /\ SessionUpserted(s)
    /\ Goto(d, "stored", s)
    /\ UNCHANGED <<actual, refusals, concurrent, burst, cutOff, crossed>>

(* _detect_concurrent: other open rows with another address.  A drain that *)
(* finds none is done.                                                     *)
Others(s) == {t \in Session : sessions[t] = "open" /\ Address[t] # Address[s]}

LookAtOthers(d) ==
    /\ step[d] = "stored"
    /\ IF Others(on[d]) # {}
       THEN Goto(d, "alerting", on[d]) /\ UNCHANGED cutOff
       ELSE Done(d) /\ cutOff' = cutOff \ {on[d]}
    /\ UNCHANGED <<actual, sessions, refusals, concurrent, burst, crossed>>

(* The alert has an event_id of its own for a user and day.                *)
ConcurrentStored(d) ==
    /\ step[d] = "alerting"
    /\ concurrent' = TRUE
    /\ cutOff' = cutOff \ {on[d]}
    /\ Done(d)
    /\ UNCHANGED <<actual, sessions, refusals, burst, crossed>>

(* rds.session.end: without a row it does nothing.                         *)
EndStored(d, s) ==
    /\ step[d] = "idle" /\ actual[s] = "closed"
    /\ SessionClosed(s)
    /\ UNCHANGED <<actual, refusals, step, on, concurrent, burst, cutOff, crossed>>

(* rds.auth.failure: the event is stored before the projection runs; a     *)
(* redelivered one is not stored again, and counted again.                 *)
FailureStored(d, f) ==
    /\ step[d] = "idle"
    /\ refusals' = refusals \cup {f}
    /\ crossed' = (crossed \/ \E e \in Drain : step[e] = "counting")
    /\ Goto(d, "counting", f)
    /\ UNCHANGED <<actual, sessions, concurrent, burst, cutOff>>

(* _detect_burst: fires at the threshold exactly.                          *)
IsBurst(n) == n = BurstAt

CountFailures(d) ==
    /\ step[d] = "counting"
    /\ IF IsBurst(Cardinality(refusals))
       THEN Goto(d, "bursting", on[d])
       ELSE Done(d)
    /\ UNCHANGED <<actual, sessions, refusals, concurrent, burst, cutOff, crossed>>

BurstStored(d) ==
    /\ step[d] = "bursting"
    /\ burst' = TRUE
    /\ Done(d)
    /\ UNCHANGED <<actual, sessions, refusals, concurrent, cutOff, crossed>>

(* The process ends, or a call fails: the message comes again.             *)
CutOff(d) ==
    /\ step[d] # "idle"
    /\ cutOff' = cutOff \cup ({on[d]} \cap Session)
    /\ crossed' = (crossed \/ on[d] \in Failure)
    /\ Done(d)
    /\ UNCHANGED <<actual, sessions, refusals, concurrent, burst>>

SessionsNext ==
    \/ \E s \in Session : Logs(s)
    \/ \E d \in Drain :
         \/ \E s \in Session : StartStored(d, s) \/ EndStored(d, s)
         \/ LookAtOthers(d) \/ ConcurrentStored(d)
         \/ CutOff(d)
LoginsNext ==
    \E d \in Drain :
      \/ \E f \in Failure : FailureStored(d, f)
      \/ CountFailures(d) \/ BurstStored(d)
      \/ CutOff(d)
RdsNext == SessionsNext \/ LoginsNext
RdsSpec == RdsInit /\ [][RdsNext]_rdsVars

-----------------------------------------------------------------------------
(* Properties *)

Idle == \A d \in Drain : step[d] = "idle"

(***************************************************************************)
(* No interleaving of the drains hides sessions that are open side by side *)
(* from two addresses: both rows are in place before either drain looks,   *)
(* so one of them sees the other (_detect_concurrent).  A handling that    *)
(* was cut short is made good by the next delivery.  A burst is only sure  *)
(* to be seen when failures are stored and counted one at a time: the      *)
(* count is compared with the threshold exactly, and two drains can take   *)
(* it past that value between them (_detect_burst: "Fire on the exact      *)
(* tipping point"), and a drain cut short at that value is not made good.  *)
(***************************************************************************)
RdsAlerted ==
    Idle =>
      /\ (\E s, t \in Session : /\ sessions[s] = "open" /\ sessions[t] = "open"
                                /\ Address[s] # Address[t] /\ {s, t} \cap cutOff = {})
           => concurrent
      /\ Cardinality(refusals) >= BurstAt /\ ~crossed => burst
=============================================================================
