------------------------------- MODULE BruteForce -------------------------------
(***************************************************************************)
(* The sliding-window detector of failed logins (correlation.py), for one  *)
(* key of one dimension: an action with an address, or with a principal.   *)
(* The two dimensions share nothing but the lock.  A failure is counted    *)
(* whenever it is delivered, a redelivered or re-shipped one again, since  *)
(* ingest_payload runs the projections for duplicates too.  Times are ages,*)
(* up to Horizon, "longer ago than any comparison looks".                  *)
(***************************************************************************)
EXTENDS Integers, Sequences, FiniteSets

CONSTANTS
    Observer,    \* threads that may ingest failures of the key at once
    Threshold,   \* THRESHOLD
    WindowSec,   \* WINDOW_SECONDS
    MaxStall,    \* bound: how long a thread may wait between clock and lock
    MaxAttempts  \* bound: attempts held in memory

ASSUME BruteForceAssumption ==
    /\ MaxStall \in Nat
    /\ {Threshold, WindowSec, MaxAttempts} \subseteq Nat \ {0}

Horizon == WindowSec + 2 * MaxStall + 1
Age     == 0..Horizon
Never   == Horizon + 1

VARIABLES
    attempts,  \* the deque of the key
    raisedAt,   \* alerted[key]
    watcher,   \* where each thread is, and the age of its now
    burstTold, \* the last alert is stored (ghost)
    burstLost, \* the last alert was lost (ghost)
    spread     \* how far apart the attempts of the last alert lie (ghost)

bruteVars == <<attempts, raisedAt, watcher, burstTold, burstLost, spread>>

BruteTypeOK ==
    /\ attempts \in Seq(Age) /\ Len(attempts) <= MaxAttempts
    /\ raisedAt \in Age \cup {Never}
    /\ watcher \in [Observer -> [at : {"idle", "waiting", "storing"}, now : 0..MaxStall]]
    /\ {burstTold, burstLost} \subseteq BOOLEAN
    /\ spread \in Age

NoneAtWork == [o \in Observer |-> [at |-> "idle", now |-> 0]]

BruteInit ==
    /\ attempts = <<>> /\ raisedAt = Never /\ watcher = NoneAtWork
    /\ burstTold = FALSE /\ burstLost = FALSE /\ spread = 0

-----------------------------------------------------------------------------
(* observe, _check_dimension *)

(* The clock is read before the lock is taken.                             *)
Arrive(o) ==
    /\ watcher[o].at = "idle" /\ Len(attempts) < MaxAttempts
    /\ watcher' = [watcher EXCEPT ![o].at = "waiting"]
    /\ UNCHANGED <<attempts, raisedAt, burstTold, burstLost, spread>>

(* The deque once those before the first recent one are popped: others may *)
(* be older than it, when a thread with an earlier clock came later.       *)
(* Mutant: nothing is popped.                                              *)
PrunedNever(now) == attempts
Pruned(now) ==
    LET recent == {i \in DOMAIN attempts : attempts[i] - now <= WindowSec}
    IN  IF recent = {} THEN <<>>
        ELSE SubSeq(attempts, CHOOSE i \in recent : \A j \in recent : i <= j, Len(attempts))

Within(bucket, age) == Cardinality({i \in DOMAIN bucket : bucket[i] <= age})

Suppressed(now) == raisedAt # Never /\ raisedAt - now < WindowSec

(* What happens under the lock.                                            *)
CountAttempt(o) ==
    LET now    == watcher[o].now
        bucket == Append(Pruned(now), now)
        alerts == Len(bucket) >= Threshold /\ ~Suppressed(now)
    IN  /\ watcher[o].at = "waiting" /\ Len(bucket) <= MaxAttempts
        /\ attempts' = bucket
        /\ raisedAt' = IF alerts THEN now ELSE raisedAt
        /\ watcher' = [watcher EXCEPT ![o] =
                           [at |-> IF alerts THEN "storing" ELSE "idle", now |-> 0]]
        /\ burstTold' = (burstTold /\ ~alerts)
        /\ burstLost' = (burstLost /\ ~alerts)
        /\ spread' = IF ~alerts THEN spread
                     ELSE CHOOSE d \in Age :
                              /\ Within(bucket, now + d) >= Threshold
                              /\ \A e \in 0..(d - 1) : Within(bucket, now + e) < Threshold

(* ingest_payload stores the derived event, or its insert raises.          *)
AlertStored(o) ==
    /\ watcher[o].at = "storing"
    /\ watcher' = [watcher EXCEPT ![o].at = "idle"]
    /\ burstTold' = TRUE
    /\ UNCHANGED <<attempts, raisedAt, burstLost, spread>>

AlertFails(o) ==
    /\ watcher[o].at = "storing"
    /\ watcher' = [watcher EXCEPT ![o].at = "idle"]
    /\ burstLost' = TRUE
    /\ UNCHANGED <<attempts, raisedAt, burstTold, spread>>

(* Time passes; it does not while a thread would wait too long.            *)
Aged(age) == IF age < Horizon THEN age + 1 ELSE age
SecondPasses ==
    /\ \A o \in Observer : watcher[o].at = "waiting" => watcher[o].now < MaxStall
    /\ attempts' = [i \in DOMAIN attempts |-> Aged(attempts[i])]
    /\ raisedAt' = IF raisedAt = Never THEN Never ELSE Aged(raisedAt)
    /\ watcher' = [o \in Observer |-> IF watcher[o].at = "waiting"
                                      THEN [watcher[o] EXCEPT !.now = @ + 1] ELSE watcher[o]]
    /\ UNCHANGED <<burstTold, burstLost, spread>>

(* The counters live in memory only.                                       *)
CountersLost ==
    /\ attempts' = <<>> /\ raisedAt' = Never /\ watcher' = NoneAtWork
    /\ burstTold' = FALSE /\ burstLost' = FALSE /\ spread' = 0

BruteNext ==
    \/ \E o \in Observer : Arrive(o) \/ CountAttempt(o) \/ AlertStored(o) \/ AlertFails(o)
    \/ SecondPasses \/ CountersLost

BruteSpec == BruteInit /\ [][BruteNext]_bruteVars

-----------------------------------------------------------------------------
(* Properties *)

(***************************************************************************)
(* Since the process started, Threshold attempts within a window come with *)
(* an alert no further back than a window before the last of them, give or *)
(* take the wait for the lock; the alert is stored, on its way or lost; and*)
(* it was for Threshold attempts that lie within a window, give or take    *)
(* the wait, however threads with unlike clocks append to the deque.       *)
(***************************************************************************)
BurstsTold ==
    /\ \A i \in DOMAIN attempts :
           LET burst == {j \in DOMAIN attempts :
                             attempts[j] \in attempts[i]..(attempts[i] + WindowSec)}
           IN  Cardinality(burst) >= Threshold /\ attempts[i] + WindowSec + MaxStall < Horizon
                   => raisedAt < attempts[i] + WindowSec + MaxStall
    /\ raisedAt # Never => \/ burstTold \/ burstLost
                          \/ \E o \in Observer : watcher[o].at = "storing"
    /\ spread <= WindowSec + MaxStall
=============================================================================
