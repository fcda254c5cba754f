---------------------------- MODULE NotifyDelivery ----------------------------
(***************************************************************************)
(* The delivery of notifications: Notifier.dispatch and dispatch_direct    *)
(* (notify/router.py), called by ingest and scheduler threads, and the one *)
(* worker thread of notify/worker.py with its queue, rate limiter, retries *)
(* and digests.  All of it is memory of the process; only the log is kept. *)
(*                                                                         *)
(* A Route is a rule and a channel it names.  A notification is the event  *)
(* and the route it takes, and an event is dispatched once.  Clocks are    *)
(* modelled by ages: Tick makes everything a unit older, up to Horizon.    *)
(***************************************************************************)
EXTENDS Integers, Sequences, FiniteSets

CONSTANTS
    Dispatcher,  \* threads that dispatch events
    Event,
    Route,       \* (rule, channel) pairs
    Channel,
    Fingerprint,
    Routes,      \* the routes an event matches, in the order of the rules
    Finger,      \* dedup_fingerprint of an event
    ChannelOf,   \* the channel of a route
    Throttle,    \* throttle_seconds or dedup_window_seconds of a route; 0: off
    Digest,      \* digest_window_seconds of a route; 0: off
    Limit,       \* rate_limit_per_min of a channel; 0: unlimited
    Retries,     \* retries of a channel
    Raising,     \* channels whose sender may raise instead of returning
    Minute,      \* the rate limiter's window
    MaxStall,    \* bound: the longest a dispatch takes
    Horizon,     \* ages are not told apart from here on
    MaxRestarts  \* bound: restarts of the process in a behaviour

Targets(e) == {Routes[e][k] : k \in DOMAIN Routes[e]}
Item == {i \in Event \X Route : i[2] \in Targets(i[1])}

ASSUME DeliveryAssumption ==
    /\ Routes \in [Event -> Seq(Route)]
    /\ \A e \in Event : \A j, k \in DOMAIN Routes[e] :
           Routes[e][j] = Routes[e][k] => j = k
    /\ Finger \in [Event -> Fingerprint]
    /\ ChannelOf \in [Route -> Channel]
    /\ Throttle \in [Route -> Nat] /\ Digest \in [Route -> Nat]
    /\ Limit \in [Channel -> Nat] /\ Retries \in [Channel -> Nat]
    /\ Raising \subseteq Channel
    /\ Minute \in Nat /\ MaxStall \in Nat /\ Horizon \in Nat /\ MaxRestarts \in Nat
    /\ Minute < Horizon
    /\ \A r \in Route : Throttle[r] + MaxStall <= Horizon /\ Digest[r] <= Horizon
    /\ 0 \notin Event

NoEvent == 0
Never   == Horizon       \* no entry in _last_sent: as good as a very old one
None    == -1            \* no entry in _first_at
Age     == 0..Horizon

Pending == {"queued", "digested"}
Fate    == {"none", "logged", "lost"} \cup Pending
Keys    == Route \X Fingerprint

VARIABLES
    fresh,      \* events not dispatched yet
    stage,      \* where each dispatcher is
    event,      \* the event it dispatches
    pos,        \* the route it is at
    now,        \* age of its now_ts
    apart,      \* queuedFor when it began (ghost)
    last,       \* age of _last_sent, per route and fingerprint
    queue,      \* the worker's queue
    wpc,        \* where the worker is
    todo,       \* channels whose digest it has yet to look at
    hand,       \* the notification, or the digest, it is working on
    attempt,    \* retries used so far
    hits,       \* ages of the rate limiter's hits, per channel
    buffer,     \* digest buffers
    firstAt,    \* age of _first_at, per channel
    stop,       \* the stop event
    restarts,   \* restarts so far
    fate,       \* what became of each notification; logged: sent, failed or limited
    queuedFor,  \* age since a throttled key was queued (ghost)
    heldFor     \* age since it was put into a digest (ghost)

dispatchVars == <<fresh, stage, event, pos, now, apart, last>>
workerVars   == <<wpc, todo, hand, attempt, hits, buffer, firstAt>>
processVars  == <<stop, restarts>>
ages         == <<queuedFor, heldFor>>
vars == <<dispatchVars, queue, workerVars, processVars, fate, ages>>

Stage     == {"idle", "ack", "route", "record", "enqueue"}
WorkerPc  == {"top", "flush", "limit", "send", "backoff", "digest", "dead"}

TypeOK ==
    /\ fresh \subseteq Event
    /\ stage \in [Dispatcher -> Stage]
    /\ event \in [Dispatcher -> Event \cup {NoEvent}]
    /\ pos \in [Dispatcher -> Nat \ {0}]
    /\ now \in [Dispatcher -> 0..MaxStall]
    /\ apart \in [Dispatcher -> [Keys -> Age]]
    /\ last \in [Keys -> Age]
    /\ queue \in Seq(Item)
    /\ wpc \in WorkerPc
    /\ todo \subseteq Channel
    /\ hand \in Seq(Item)
    /\ attempt \in Nat
    /\ wpc \in {"limit", "send", "backoff"} => Len(hand) = 1
    /\ wpc = "send" => attempt <= Retries[ChannelOf[hand[1][2]]]
    /\ wpc = "backoff" => attempt < Retries[ChannelOf[hand[1][2]]]
    /\ hits \in [Channel -> Seq(Age)]
    /\ buffer \in [Channel -> Seq(Item)]
    /\ firstAt \in [Channel -> Age \cup {None}]
    /\ stop \in BOOLEAN
    /\ restarts \in 0..MaxRestarts
    /\ fate \in [Item -> Fate]
    /\ queuedFor \in [Keys -> Age]
    /\ heldFor \in [Item -> Age]

Init ==
    /\ fresh = Event
    /\ stage = [d \in Dispatcher |-> "idle"]
    /\ event = [d \in Dispatcher |-> NoEvent]
    /\ pos = [d \in Dispatcher |-> 1]
    /\ now = [d \in Dispatcher |-> 0]
    /\ apart = [d \in Dispatcher |-> [k \in Keys |-> Never]]
    /\ last = [k \in Keys |-> Never]
    /\ queue = <<>>
    /\ wpc = "top"
    /\ todo = {}
    /\ hand = <<>>
    /\ attempt = 0
    /\ hits = [c \in Channel |-> <<>>]
    /\ buffer = [c \in Channel |-> <<>>]
    /\ firstAt = [c \in Channel |-> None]
    /\ stop = FALSE
    /\ restarts = 0
    /\ fate = [i \in Item |-> "none"]
    /\ queuedFor = [k \in Keys |-> Never]
    /\ heldFor = [i \in Item |-> 0]

-----------------------------------------------------------------------------
(* Dispatch *)

CurrentRoute(d) == Routes[event[d]][pos[d]]
Current(d)      == <<event[d], CurrentRoute(d)>>
KeyOf(i)        == <<i[2], Finger[i[1]]>>
Key(d)          == KeyOf(Current(d))

(* The thread is done with the route: the next one, or back to its caller. *)
NextRoute(d) ==
    /\ UNCHANGED fresh
    /\ \/ /\ pos[d] < Len(Routes[event[d]])
          /\ stage' = [stage EXCEPT ![d] = "route"]
          /\ pos' = [pos EXCEPT ![d] = @ + 1]
          /\ UNCHANGED <<event, now, apart>>
       \/ /\ pos[d] >= Len(Routes[event[d]])
          /\ stage' = [stage EXCEPT ![d] = "idle"]
          /\ event' = [event EXCEPT ![d] = NoEvent]
          /\ pos' = [pos EXCEPT ![d] = 1]
          /\ now' = [now EXCEPT ![d] = 0]
          /\ apart' = [apart EXCEPT ![d] = [k \in Keys |-> Never]]

(* The call: the time is taken before the query for acknowledgements. *)
Dispatch(d) ==
    /\ stage[d] = "idle"
    /\ \E e \in fresh :
        /\ Routes[e] # <<>>
        /\ fresh' = fresh \ {e}
        /\ event' = [event EXCEPT ![d] = e]
    /\ stage' = [stage EXCEPT ![d] = "ack"]
    /\ now' = [now EXCEPT ![d] = 0]
    /\ apart' = [apart EXCEPT ![d] = queuedFor]
    /\ UNCHANGED <<pos, last, queue, workerVars, processVars, fate, ages>>

(* The fingerprint is acknowledged: nothing is sent for it. *)
Acked(d) ==
    /\ stage[d] = "ack"
    /\ stage' = [stage EXCEPT ![d] = "idle"]
    /\ event' = [event EXCEPT ![d] = NoEvent]
    /\ now' = [now EXCEPT ![d] = 0]
    /\ apart' = [apart EXCEPT ![d] = [k \in Keys |-> Never]]
    /\ UNCHANGED <<fresh, pos, last, queue, workerVars, processVars, fate, ages>>

(* It is not, or the query failed. *)
NotAcked(d) ==
    /\ stage[d] = "ack"
    /\ stage' = [stage EXCEPT ![d] = "route"]
    /\ UNCHANGED <<fresh, event, pos, now, apart, last, queue, workerVars,
                   processVars, fate, ages>>

SkipRecords(d) ==
    /\ stage[d] = "route"
    /\ last' = [last EXCEPT ![Key(d)] = now[d]]
    /\ NextRoute(d)
    /\ UNCHANGED <<queue, workerVars, processVars, fate, ages>>

(* The rule is silenced or disabled, or the channel is gone or disabled. *)
Skip(d) ==
    /\ stage[d] = "route"
    /\ NextRoute(d)
    /\ UNCHANGED <<last, queue, workerVars, processVars, fate, ages>>

(* now_ts - last < window: what was queued then stands for this one. *)
Recent(d) == /\ Throttle[CurrentRoute(d)] > 0
             /\ last[Key(d)] - now[d] < Throttle[CurrentRoute(d)]

Suppress(d) ==
    /\ stage[d] = "route" /\ Recent(d)
    /\ NextRoute(d)
    /\ UNCHANGED <<last, queue, workerVars, processVars, fate, ages>>

Pass(d) ==
    /\ stage[d] = "route" /\ ~Recent(d)
    /\ stage' = [stage EXCEPT ![d] = "record"]
    /\ UNCHANGED <<fresh, event, pos, now, apart, last, queue, workerVars,
                   processVars, fate, ages>>

RecordNothing(d) ==
    /\ stage[d] = "record"
    /\ stage' = [stage EXCEPT ![d] = "enqueue"]
    /\ UNCHANGED <<fresh, event, pos, now, apart, last, queue, workerVars,
                   processVars, fate, ages>>

(* _last_sent is written without a lock, some steps after it was read. *)
Record(d) ==
    /\ stage[d] = "record"
    /\ last' = [last EXCEPT ![Key(d)] = now[d]]
    /\ stage' = [stage EXCEPT ![d] = "enqueue"]
    /\ UNCHANGED <<fresh, event, pos, now, apart, queue, workerVars,
                   processVars, fate, ages>>

Enqueue(d) ==
    /\ stage[d] = "enqueue"
    /\ queue' = Append(queue, Current(d))
    /\ fate' = [fate EXCEPT ![Current(d)] = "queued"]
    /\ queuedFor' = [queuedFor EXCEPT ![Key(d)] =
           IF Throttle[CurrentRoute(d)] > 0 THEN 0 ELSE Never]
    /\ NextRoute(d)
    /\ UNCHANGED <<last, workerVars, processVars, heldFor>>

-----------------------------------------------------------------------------
(* The worker *)

ItsChannel(i) == ChannelOf[i[2]]
Settled(s, f) == [i \in Item |-> IF \E k \in DOMAIN s : s[k] = i THEN f ELSE fate[i]]

(* Top of the loop: digests first, of the channels that have one. *)
Loop ==
    /\ wpc = "top" /\ ~stop
    /\ wpc' = "flush"
    /\ todo' = {c \in Channel : buffer[c] # <<>>}
    /\ UNCHANGED <<dispatchVars, queue, hand, attempt, hits, buffer, firstAt,
                   processVars, fate, ages>>

Stopped ==
    /\ wpc = "top" /\ stop
    /\ wpc' = "dead"
    /\ UNCHANGED <<dispatchVars, queue, todo, hand, attempt, hits, buffer, firstAt,
                   processVars, fate, ages>>

(* The window of the first notification counts, for all that joined it. *)
Due(c) == firstAt[c] # None /\ firstAt[c] >= Digest[Head(buffer[c])[2]]

NotDue(c) ==
    /\ wpc = "flush" /\ c \in todo /\ ~Due(c)
    /\ todo' = todo \ {c}
    /\ UNCHANGED <<dispatchVars, queue, wpc, hand, attempt, hits, buffer, firstAt,
                   processVars, fate, ages>>

DrainCopy(c) ==
    /\ wpc = "flush" /\ c \in todo /\ Due(c)
    /\ todo' = todo \ {c}
    /\ hand' = buffer[c]
    /\ firstAt' = [firstAt EXCEPT ![c] = None]
    /\ wpc' = "digest"
    /\ UNCHANGED <<dispatchVars, queue, attempt, hits, buffer, processVars, fate, ages>>

(* The buffer is drained before the digest is sent. *)
Drain(c) ==
    /\ wpc = "flush" /\ c \in todo /\ Due(c)
    /\ todo' = todo \ {c}
    /\ hand' = buffer[c]
    /\ buffer' = [buffer EXCEPT ![c] = <<>>]
    /\ firstAt' = [firstAt EXCEPT ![c] = None]
    /\ wpc' = "digest"
    /\ UNCHANGED <<dispatchVars, queue, attempt, hits, processVars, fate, ages>>

(* One call, no retry. *)
SendDigest ==
    /\ wpc = "digest"
    /\ fate' = Settled(hand, "logged")
    /\ hand' = <<>>
    /\ wpc' = "flush"
    /\ UNCHANGED <<dispatchVars, queue, todo, attempt, hits, buffer, firstAt,
                   processVars, ages>>

(* The sender raises, and nothing in the loop catches it. *)
DigestRaises ==
    /\ wpc = "digest" /\ ItsChannel(hand[1]) \in Raising
    /\ fate' = Settled(hand, "lost")
    /\ hand' = <<>>
    /\ wpc' = "dead"
    /\ UNCHANGED <<dispatchVars, queue, todo, attempt, hits, buffer, firstAt,
                   processVars, ages>>

(* Every digest was looked at: the next notification, or a time-out. *)
Get ==
    /\ wpc = "flush" /\ todo = {} /\ queue # <<>>
    /\ hand' = <<Head(queue)>>
    /\ queue' = Tail(queue)
    /\ wpc' = "limit"
    /\ UNCHANGED <<dispatchVars, todo, attempt, hits, buffer, firstAt, processVars,
                   fate, ages>>

Empty ==
    /\ wpc = "flush" /\ todo = {} /\ queue = <<>>
    /\ wpc' = "top"
    /\ UNCHANGED <<dispatchVars, queue, todo, hand, attempt, hits, buffer, firstAt,
                   processVars, fate, ages>>

Mine       == hand[1]
C          == ItsChannel(Mine)
\* The oldest come first.
Stale      == Cardinality({k \in DOMAIN hits[C] : hits[C][k] > Minute})
Recently   == SubSeq(hits[C], Stale + 1, Len(hits[C]))
OverLimit  == Limit[C] > 0 /\ Len(Recently) >= Limit[C]
CountHit   == \/ Limit[C] = 0 /\ UNCHANGED hits
              \/ Limit[C] > 0 /\ hits' = [hits EXCEPT ![C] = Append(Recently, 0)]

(* The worker is done with its notification. *)
Finish(f) ==
    /\ fate' = [fate EXCEPT ![Mine] = f]
    /\ hand' = <<>>
    /\ attempt' = 0
    /\ wpc' = "top"

RateLimited ==
    /\ wpc = "limit" /\ OverLimit
    /\ hits' = [hits EXCEPT ![C] = Recently]
    /\ Finish("logged")
    /\ UNCHANGED <<dispatchVars, queue, todo, buffer, firstAt, processVars, ages>>

HoldRestartsWindow ==
    /\ wpc = "limit" /\ ~OverLimit /\ Digest[Mine[2]] > 0
    /\ CountHit
    /\ buffer' = [buffer EXCEPT ![C] = Append(@, Mine)]
    /\ firstAt' = [firstAt EXCEPT ![C] = 0]
    /\ heldFor' = [heldFor EXCEPT ![Mine] = 0]
    /\ Finish("digested")
    /\ UNCHANGED <<dispatchVars, queue, todo, processVars, queuedFor>>

HoldUntimed ==
    /\ wpc = "limit" /\ ~OverLimit /\ Digest[Mine[2]] > 0
    /\ CountHit
    /\ buffer' = [buffer EXCEPT ![C] = Append(@, Mine)]
    /\ heldFor' = [heldFor EXCEPT ![Mine] = 0]
    /\ Finish("digested")
    /\ UNCHANGED <<dispatchVars, queue, todo, firstAt, processVars, queuedFor>>

(* Held for the digest of its channel. *)
Hold ==
    /\ wpc = "limit" /\ ~OverLimit /\ Digest[Mine[2]] > 0
    /\ CountHit
    /\ buffer' = [buffer EXCEPT ![C] = Append(@, Mine)]
    /\ firstAt' = [firstAt EXCEPT ![C] = IF @ = None THEN 0 ELSE @]
    /\ heldFor' = [heldFor EXCEPT ![Mine] = 0]
    /\ Finish("digested")
    /\ UNCHANGED <<dispatchVars, queue, todo, processVars, queuedFor>>

Allow ==
    /\ wpc = "limit" /\ ~OverLimit /\ Digest[Mine[2]] = 0
    /\ CountHit
    /\ wpc' = "send"
    /\ UNCHANGED <<dispatchVars, queue, todo, hand, attempt, buffer, firstAt,
                   processVars, fate, ages>>

Send ==
    /\ wpc = "send"
    /\ Finish("logged")
    /\ UNCHANGED <<dispatchVars, queue, todo, hits, buffer, firstAt, processVars, ages>>

SendFailsOnceMore ==
    /\ wpc = "send"
    /\ \/ /\ attempt <= Retries[C]
          /\ wpc' = "backoff"
          /\ UNCHANGED <<hand, attempt, fate>>
       \/ /\ attempt > Retries[C]
          /\ Finish("logged")
    /\ UNCHANGED <<dispatchVars, queue, todo, hits, buffer, firstAt, processVars, ages>>

SendFails ==
    /\ wpc = "send"
    /\ \/ /\ attempt < Retries[C]
          /\ wpc' = "backoff"
          /\ UNCHANGED <<hand, attempt, fate>>
       \/ /\ attempt >= Retries[C]
          /\ Finish("logged")
    /\ UNCHANGED <<dispatchVars, queue, todo, hits, buffer, firstAt, processVars, ages>>

(* The loop catches it, after the notification was lost without a word. *)
SendRaises ==
    /\ wpc = "send" /\ C \in Raising
    /\ Finish("lost")
    /\ UNCHANGED <<dispatchVars, queue, todo, hits, buffer, firstAt, processVars, ages>>

(* The backoff is over, or cut short by the stop event. *)
Retry ==
    /\ wpc = "backoff" /\ ~stop
    /\ wpc' = "send"
    /\ attempt' = attempt + 1
    /\ UNCHANGED <<dispatchVars, queue, todo, hand, hits, buffer, firstAt,
                   processVars, fate, ages>>

GiveUp ==
    /\ wpc = "backoff" /\ stop
    /\ Finish("logged")
    /\ UNCHANGED <<dispatchVars, queue, todo, hits, buffer, firstAt, processVars, ages>>

-----------------------------------------------------------------------------
(* Time and the process *)

Older(a, cap) == IF a < cap THEN a + 1 ELSE cap
Window(i)     == Digest[i[2]]

Tick ==
    /\ \A d \in Dispatcher : stage[d] # "idle" => now[d] < MaxStall
    /\ now' = [d \in Dispatcher |-> IF stage[d] = "idle" THEN now[d] ELSE now[d] + 1]
    /\ last' = [k \in Keys |-> Older(last[k], Horizon)]
    /\ hits' = [c \in Channel |-> [k \in DOMAIN hits[c] |-> Older(hits[c][k], Minute + 1)]]
    /\ firstAt' = [c \in Channel |->
           IF firstAt[c] = None THEN None ELSE Older(firstAt[c], Window(Head(buffer[c])))]
    /\ queuedFor' = [k \in Keys |-> Older(queuedFor[k], Horizon)]
    /\ heldFor' = [i \in Item |->
           IF fate[i] = "digested" /\ buffer[ItsChannel(i)] # <<>>
           THEN Older(heldFor[i], Window(Head(buffer[ItsChannel(i)]))) ELSE 0]
    /\ UNCHANGED <<fresh, stage, event, pos, apart, queue, wpc, todo, hand, attempt,
                   buffer, processVars, fate>>

(* Shutdown: worker.stop().  The process ends before or after the worker sees it. *)
Stop ==
    /\ ~stop /\ restarts < MaxRestarts
    /\ stop' = TRUE
    /\ UNCHANGED <<dispatchVars, queue, workerVars, restarts, fate, ages>>

(* The process ends, in good order or not, and starts again: memory is empty. *)
Restart ==
    /\ restarts < MaxRestarts
    /\ restarts' = restarts + 1
    /\ stop' = FALSE
    /\ fate' = [i \in Item |-> IF fate[i] \in Pending THEN "lost" ELSE fate[i]]
    /\ stage' = [d \in Dispatcher |-> "idle"]
    /\ event' = [d \in Dispatcher |-> NoEvent]
    /\ pos' = [d \in Dispatcher |-> 1]
    /\ now' = [d \in Dispatcher |-> 0]
    /\ apart' = [d \in Dispatcher |-> [k \in Keys |-> Never]]
    /\ last' = [k \in Keys |-> Never]
    /\ queue' = <<>>
    /\ wpc' = "top" /\ todo' = {} /\ hand' = <<>> /\ attempt' = 0
    /\ hits' = [c \in Channel |-> <<>>]
    /\ buffer' = [c \in Channel |-> <<>>]
    /\ firstAt' = [c \in Channel |-> None]
    /\ queuedFor' = [k \in Keys |-> Never]
    /\ heldFor' = [i \in Item |-> 0]
    /\ UNCHANGED fresh

-----------------------------------------------------------------------------
DispatchStep(d) == \/ Dispatch(d) \/ Acked(d) \/ NotAcked(d) \/ Skip(d)
                   \/ Suppress(d) \/ Pass(d) \/ Record(d) \/ Enqueue(d)

WorkerStep == \/ Loop \/ Stopped \/ SendDigest \/ DigestRaises \/ Get \/ Empty
              \/ RateLimited \/ Hold \/ Allow \/ Send \/ SendFails \/ SendRaises
              \/ Retry \/ GiveUp
              \/ \E c \in Channel : NotDue(c) \/ Drain(c)

Next == \/ \E d \in Dispatcher : DispatchStep(d)
        \/ WorkerStep
        \/ Tick \/ Stop \/ Restart

Spec == Init /\ [][Next]_vars

(***************************************************************************)
(* Threads go on: a send has a time-out of ten seconds, a query returns or *)
(* fails, a backoff ends.  Time passes, and a process told to stop ends.   *)
(***************************************************************************)
Fairness == /\ \A d \in Dispatcher : WF_vars(stage[d] # "idle" /\ DispatchStep(d))
            /\ WF_vars(WorkerStep)
            /\ WF_vars(Tick)
            /\ WF_vars(stop /\ Restart)

LiveSpec == Spec /\ Fairness

-----------------------------------------------------------------------------
(* Properties *)

Occurs(s, i) == Cardinality({k \in DOMAIN s : s[k] = i})

(***************************************************************************)
(* Each accepted notification is in one place: in the queue, in a digest   *)
(* or in the worker's hand, once, until its fate is settled; and what is   *)
(* settled is nowhere any more, so nothing is handled twice or forgotten   *)
(* (Worker._loop, handle_one and _flush_digests_if_due).                   *)
(***************************************************************************)
Accounted ==
    \A i \in Item :
        Occurs(queue, i) + Occurs(buffer[ItsChannel(i)], i) + Occurs(hand, i)
            = IF fate[i] \in Pending THEN 1 ELSE 0

(***************************************************************************)
(* A notification is only throttled for one with the same key that was     *)
(* queued, or is about to be, and that less than the window before this    *)
(* dispatch began: a burst is never silent from its start (the throttle of *)
(* dispatch and dispatch_direct).                                          *)
(***************************************************************************)
SuppressedForQueued ==
    [][\A d \in Dispatcher :
         Suppress(d) =>
             \/ \E o \in Dispatcher \ {d} : stage[o] = "enqueue" /\ Key(o) = Key(d)
             \/ queuedFor[Key(d)] - now[d] < Throttle[CurrentRoute(d)]]_vars

(***************************************************************************)
(* Two notifications with one key are queued a window apart, less what two *)
(* stalled dispatches can blur, unless the dispatches overlap: the         *)
(* throttle of dispatch holds for dispatches one after the other, whoever  *)
(* races them with a third.                                                *)
(***************************************************************************)
Spaced ==
    [][\A d \in Dispatcher :
         Enqueue(d) => apart[d][Key(d)] + 2 * MaxStall >= Throttle[CurrentRoute(d)]]_vars

(***************************************************************************)
(* When the worker leaves a digest in its buffer, nothing in it has waited *)
(* for as long as the window of the first one: those that join neither put *)
(* off a digest nor are counted from an earlier one (_DigestBuffer.due,    *)
(* which looks at the age and the window of the first one only; a window   *)
(* of its own, if shorter, does nothing for one that joins).               *)
(***************************************************************************)
DigestOnTime ==
    [][\A c \in Channel :
         (c \in todo /\ c \notin todo' /\ wpc' = "flush") =>
             \A k \in DOMAIN buffer[c] :
                 heldFor[buffer[c][k]] < Window(Head(buffer[c]))]_vars

(***************************************************************************)
(* What was queued is sent, logged as failed or rate limited, or lost with *)
(* the process or by a sender that raises, in the end; unless the worker   *)
(* died of such a sender (Worker._loop, _send_with_retry).                 *)
(***************************************************************************)
Settles ==
    []<>((\A i \in Item : fate[i] \notin Pending) \/ wpc = "dead")

(***************************************************************************)
(* The worker thread ends only when it is told to ("never crash the        *)
(* worker", notify/worker.py).                                             *)
(***************************************************************************)
WorkerLives == wpc = "dead" => stop
=============================================================================
