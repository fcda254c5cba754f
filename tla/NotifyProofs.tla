----------------------------- MODULE NotifyProofs -----------------------------
(***************************************************************************)
(* NotifyDelivery's types, the conservation of notifications, the throttle *)
(* and the digest window hold for any dispatchers, events, routes,         *)
(* channels, windows, limits and stalls.                                   *)
(***************************************************************************)
EXTENDS NotifyDelivery, FiniteSetTheorems, TLAPS

Busy(d) == stage[d] # "idle"

(* Where a thread is tells what it holds: a dispatcher is at a route of its *)
(* event, the worker has something in hand from Get or Drain to the end of  *)
(* the notification, and a digest that is timed has a first notification.   *)
Placed ==
    /\ \A d \in Dispatcher : stage[d] \in {"idle", "ack"} => pos[d] = 1
    /\ \A d \in Dispatcher :
          Busy(d) => event[d] \in Event /\ pos[d] \in DOMAIN Routes[event[d]]
    /\ wpc \in {"top", "flush", "dead"} => hand = <<>>
    /\ wpc = "digest" => hand # <<>>
    /\ wpc \notin {"send", "backoff"} => attempt = 0
    /\ \A c \in Channel : firstAt[c] # None => buffer[c] # <<>>

-----------------------------------------------------------------------------
(* What the actions are built from has its type                            *)

LEMMA CurrentTyped ==
    ASSUME TypeOK, Placed, NEW d \in Dispatcher, Busy(d)
    PROVE  /\ CurrentRoute(d) \in Route /\ Current(d) \in Item
           /\ Key(d) \in Keys
           /\ Routes[event[d]] \in Seq(Route) /\ event[d] \in Event
<1>1. event[d] \in Event /\ Routes[event[d]] \in Seq(Route)
      /\ pos[d] \in DOMAIN Routes[event[d]]
  BY DeliveryAssumption DEF Placed
<1>2. CurrentRoute(d) \in Route
  BY <1>1 DEF CurrentRoute
<1>3. Current(d) \in Item
  BY <1>1, <1>2 DEF Current, CurrentRoute, Item, Targets
<1>4. Key(d) \in Keys
  BY <1>1, <1>2, DeliveryAssumption DEF Key, KeyOf, Current, Keys
<1>. QED  BY <1>1, <1>2, <1>3, <1>4

LEMMA ItemTyped ==
    ASSUME NEW i \in Item
    PROVE  /\ i[2] \in Route /\ i[1] \in Event /\ ItsChannel(i) \in Channel
           /\ Window(i) \in Age
BY DeliveryAssumption DEF Item, Targets, ItsChannel, Window, Age

LEMMA AppendNotEmpty ==
    ASSUME NEW S, NEW s \in Seq(S), NEW x \in S
    PROVE  Append(s, x) # <<>>
<1>1. Len(Append(s, x)) = Len(s) + 1 /\ Len(s) \in Nat
  OBVIOUS
<1>2. Len(<<>>) = 0
  OBVIOUS
<1>. QED  BY <1>1, <1>2

LEMMA MineTyped ==
    ASSUME TypeOK, wpc \in {"limit", "send", "backoff"}
    PROVE  Mine \in Item /\ C \in Channel /\ hand = <<Mine>>
<1>1. hand \in Seq(Item) /\ Len(hand) = 1
  BY DEF TypeOK
<1>2. Mine \in Item /\ hand = <<Mine>>
  BY <1>1 DEF Mine
<1>. QED  BY <1>2, ItemTyped DEF C

LEMMA RecentlyTyped ==
    ASSUME TypeOK, wpc \in {"limit", "send", "backoff"}
    PROVE  Recently \in Seq(Age)
<1>1. hits[C] \in Seq(Age)
  BY MineTyped DEF TypeOK
<1>2. IsFiniteSet({k \in DOMAIN hits[C] : hits[C][k] > Minute})
  <2>1. IsFiniteSet(1..Len(hits[C]))
    BY <1>1, FS_Interval
  <2>2. {k \in DOMAIN hits[C] : hits[C][k] > Minute} \subseteq 1..Len(hits[C])
    BY <1>1
  <2>. QED  BY <2>1, <2>2, FS_Subset
<1>3. Stale \in Nat
  BY <1>2, FS_CardinalityType DEF Stale
<1>. QED  BY <1>1, <1>3 DEF Recently

LEMMA OlderTyped ==
    ASSUME NEW a \in Nat, NEW cap \in Nat
    PROVE  Older(a, cap) \in Nat /\ (cap <= Horizon => Older(a, cap) \in Age)
BY DeliveryAssumption DEF Older, Age

-----------------------------------------------------------------------------
(* TypeOK and Placed, of the dispatchers and of the worker                 *)

DispatchersOK ==
    /\ fresh \subseteq Event
    /\ stage \in [Dispatcher -> Stage]
    /\ event \in [Dispatcher -> Event \cup {NoEvent}]
    /\ pos \in [Dispatcher -> Nat \ {0}]
    /\ now \in [Dispatcher -> 0..MaxStall]
    /\ apart \in [Dispatcher -> [Keys -> Age]]
    /\ \A d \in Dispatcher : stage[d] \in {"idle", "ack"} => pos[d] = 1
    /\ \A d \in Dispatcher :
          Busy(d) => event[d] \in Event /\ pos[d] \in DOMAIN Routes[event[d]]

WorkerOK ==
    /\ wpc \in WorkerPc
    /\ todo \subseteq Channel
    /\ hand \in Seq(Item)
    /\ attempt \in Nat
    /\ wpc \in {"limit", "send", "backoff"} => Len(hand) = 1
    /\ wpc = "send" => attempt <= Retries[ChannelOf[hand[1][2]]]
    /\ wpc = "backoff" => attempt < Retries[ChannelOf[hand[1][2]]]
    /\ hits \in [Channel -> Seq(Age)]
    /\ buffer \in [Channel -> Seq(Item)]
    /\ firstAt \in [Channel -> Age \cup {None}]
    /\ wpc \in {"top", "flush", "dead"} => hand = <<>>
    /\ wpc = "digest" => hand # <<>>
    /\ wpc \notin {"send", "backoff"} => attempt = 0
    /\ \A c \in Channel : firstAt[c] # None => buffer[c] # <<>>

SharedOK ==
    /\ last \in [Keys -> Age]
    /\ queue \in Seq(Item)
    /\ stop \in BOOLEAN
    /\ restarts \in 0..MaxRestarts
    /\ fate \in [Item -> Fate]
    /\ queuedFor \in [Keys -> Age]
    /\ heldFor \in [Item -> Age]

LEMMA Parted == TypeOK /\ Placed <=> DispatchersOK /\ WorkerOK /\ SharedOK
BY DEF TypeOK, Placed, DispatchersOK, WorkerOK, SharedOK

LEMMA NextRouteTyped ==
    ASSUME TypeOK, Placed, NEW d \in Dispatcher, Busy(d), NextRoute(d)
    PROVE  DispatchersOK'
<1>. USE DeliveryAssumption
<1>. DispatchersOK /\ fresh' = fresh
  BY Parted DEF NextRoute
<1>1. /\ stage \in [Dispatcher -> Stage]
      /\ event \in [Dispatcher -> Event \cup {NoEvent}]
      /\ pos \in [Dispatcher -> Nat \ {0}]
      /\ now \in [Dispatcher -> 0..MaxStall]
      /\ apart \in [Dispatcher -> [Keys -> Age]]
  BY DEF DispatchersOK
<1>2. Routes[event[d]] \in Seq(Route) /\ event[d] \in Event
  BY CurrentTyped
<1>3. CASE /\ pos[d] < Len(Routes[event[d]])
           /\ stage' = [stage EXCEPT ![d] = "route"]
           /\ pos' = [pos EXCEPT ![d] = @ + 1]
           /\ UNCHANGED <<event, now, apart>>
  <2>1. pos'[d] = pos[d] + 1 /\ pos[d] \in Nat \ {0}
    BY <1>1, <1>3
  <2>2. stage' \in [Dispatcher -> Stage]
    BY <1>1, <1>3 DEF Stage
  <2>6. pos' \in [Dispatcher -> Nat \ {0}]
    <3>1. pos \in [Dispatcher -> Nat \ {0}] /\ pos' = [pos EXCEPT ![d] = @ + 1]
      BY <1>1, <1>3
    <3>. HIDE DeliveryAssumption
    <3>2. pos[d] + 1 \in Nat \ {0}
      BY <3>1
    <3>. QED  BY <3>1, <3>2
  <2>3. \A e \in Dispatcher : e # d => pos'[e] = pos[e] /\ stage'[e] = stage[e]
    BY <1>1, <1>3
  <2>4. stage'[d] = "route" /\ event' = event
    BY <1>1, <1>3
  <2>5. pos'[d] \in DOMAIN Routes[event[d]]
    BY <1>2, <1>3, <2>1
  <2>. QED  BY <1>1, <1>2, <1>3, <2>1, <2>2, <2>3, <2>4, <2>5, <2>6 DEF DispatchersOK, Busy
<1>4. CASE /\ stage' = [stage EXCEPT ![d] = "idle"]
           /\ event' = [event EXCEPT ![d] = NoEvent]
           /\ pos' = [pos EXCEPT ![d] = 1]
           /\ now' = [now EXCEPT ![d] = 0]
           /\ apart' = [apart EXCEPT ![d] = [k \in Keys |-> Never]]
  <2>1. [k \in Keys |-> Never] \in [Keys -> Age]
    BY DEF Never, Age
  <2>2. \A e \in Dispatcher : e # d => pos'[e] = pos[e] /\ stage'[e] = stage[e]
                                        /\ event'[e] = event[e]
    BY <1>1, <1>4
  <2>3. stage'[d] = "idle" /\ pos'[d] = 1
    BY <1>1, <1>4
  <2>4. stage' \in [Dispatcher -> Stage]
    BY <1>1, <1>4 DEF Stage
  <2>5. apart' \in [Dispatcher -> [Keys -> Age]]
    BY <1>1, <1>4, <2>1
  <2>6. /\ pos' \in [Dispatcher -> Nat \ {0}] /\ now' \in [Dispatcher -> 0..MaxStall]
        /\ event' \in [Dispatcher -> Event \cup {NoEvent}]
    BY <1>1, <1>4
  <2>. QED  BY <1>1, <2>2, <2>3, <2>4, <2>5, <2>6 DEF DispatchersOK, Busy
<1>. QED  BY <1>3, <1>4 DEF NextRoute

LEMMA DispatchTyped ==
    ASSUME TypeOK, Placed, NEW d \in Dispatcher, DispatchStep(d)
    PROVE  DispatchersOK' /\ SharedOK' /\ UNCHANGED workerVars
<1>. USE DeliveryAssumption
<1>1. DispatchersOK /\ SharedOK
  BY Parted
<1>2. CASE Dispatch(d)
  <2>1. PICK e \in fresh : /\ Routes[e] # <<>> /\ fresh' = fresh \ {e}
                           /\ event' = [event EXCEPT ![d] = e]
    BY <1>2 DEF Dispatch
  <2>2. e \in Event /\ 1 \in DOMAIN Routes[e]
    BY <1>1, <2>1 DEF DispatchersOK
  <2>3. event' \in [Dispatcher -> Event \cup {NoEvent}] /\ fresh' \subseteq Event
        /\ event'[d] = e /\ \A o \in Dispatcher : o # d => event'[o] = event[o]
    BY <1>1, <2>1, <2>2 DEF DispatchersOK
  <2>4. /\ stage' \in [Dispatcher -> Stage] /\ now' \in [Dispatcher -> 0..MaxStall]
        /\ stage[d] = "idle" /\ stage'[d] = "ack"
        /\ \A o \in Dispatcher : o # d => stage'[o] = stage[o]
    <3>1. /\ stage \in [Dispatcher -> Stage] /\ now \in [Dispatcher -> 0..MaxStall]
          /\ stage' = [stage EXCEPT ![d] = "ack"] /\ now' = [now EXCEPT ![d] = 0]
          /\ stage[d] = "idle"
      BY <1>1, <1>2 DEF Dispatch, DispatchersOK
    <3>2. "ack" \in Stage /\ 0 \in 0..MaxStall
      BY DEF Stage
    <3>. HIDE DeliveryAssumption
    <3>. QED  BY <3>1, <3>2
  <2>5. apart' \in [Dispatcher -> [Keys -> Age]] /\ pos' = pos
    BY <1>1, <1>2 DEF Dispatch, DispatchersOK, SharedOK
  <2>6. DispatchersOK'
    <3>. HIDE DeliveryAssumption
    <3>1. /\ pos \in [Dispatcher -> Nat \ {0}] /\ pos[d] = 1
          /\ \A o \in Dispatcher : stage[o] \in {"idle", "ack"} => pos[o] = 1
          /\ \A o \in Dispatcher :
                Busy(o) => event[o] \in Event /\ pos[o] \in DOMAIN Routes[event[o]]
      BY <1>1, <2>4 DEF DispatchersOK
    <3>2. \A o \in Dispatcher : stage'[o] \in {"idle", "ack"} => pos'[o] = 1
      BY <2>4, <2>5, <3>1
    <3>3. ASSUME NEW o \in Dispatcher, Busy(o)'
          PROVE  event'[o] \in Event /\ pos'[o] \in DOMAIN Routes[event'[o]]
      <4>1. CASE o = d
        BY <2>2, <2>3, <2>5, <3>1, <4>1
      <4>2. CASE o # d
        BY <2>3, <2>4, <2>5, <3>1, <3>3, <4>2 DEF Busy
      <4>. QED  BY <4>1, <4>2
    <3>. QED  BY <2>3, <2>4, <2>5, <3>1, <3>2, <3>3 DEF DispatchersOK
  <2>. QED  BY <1>1, <1>2, <2>6 DEF Dispatch, SharedOK, processVars, ages
<1>3. CASE Acked(d)
  <2>1. [k \in Keys |-> Never] \in [Keys -> Age]
    BY DEF Never, Age
  <2>. QED  BY <1>1, <1>3, <2>1 DEF Acked, DispatchersOK, SharedOK, Stage, Busy,
               processVars, ages
<1>4. CASE NotAcked(d)
  BY <1>1, <1>4 DEF NotAcked, DispatchersOK, SharedOK, Stage, Busy, processVars, ages
<1>5. CASE Skip(d) \/ Suppress(d)
  <2>1. DispatchersOK'
    BY <1>5, NextRouteTyped DEF Skip, Suppress, Busy
  <2>. QED  BY <1>1, <1>5, <2>1 DEF Skip, Suppress, SharedOK, processVars, ages
<1>6. CASE Pass(d)
  BY <1>1, <1>6 DEF Pass, DispatchersOK, SharedOK, Stage, Busy, processVars, ages
<1>7. CASE Record(d)
  <2>1. CurrentRoute(d) \in Route
    BY <1>7, CurrentTyped DEF Record, Busy
  <2>2. MaxStall <= Horizon
    BY <2>1
  <2>3. now[d] \in Age
    BY <1>1, <2>2 DEF DispatchersOK, Age
  <2>4. last' \in [Keys -> Age]
    BY <1>1, <1>7, <2>3 DEF Record, SharedOK
  <2>. QED  BY <1>1, <1>7, <2>4 DEF Record, DispatchersOK, SharedOK, Stage, Busy,
               processVars, ages
<1>8. CASE Enqueue(d)
  <2>1. Busy(d)
    BY <1>8 DEF Enqueue, Busy
  <2>2. Current(d) \in Item /\ Key(d) \in Keys
    BY <2>1, CurrentTyped
  <2>3. DispatchersOK'
    BY <1>8, <2>1, NextRouteTyped DEF Enqueue
  <2>4. queue' \in Seq(Item) /\ fate' \in [Item -> Fate]
    BY <1>1, <1>8, <2>2 DEF Enqueue, SharedOK, Fate, Pending
  <2>5. queuedFor' \in [Keys -> Age]
    BY <1>1, <1>8, <2>2 DEF Enqueue, SharedOK, Never, Age
  <2>. QED  BY <1>1, <1>8, <2>3, <2>4, <2>5 DEF Enqueue, SharedOK, processVars
<1>. QED  BY <1>2, <1>3, <1>4, <1>5, <1>6, <1>7, <1>8 DEF DispatchStep

LEMMA FinishTyped ==
    ASSUME TypeOK, wpc \in {"limit", "send", "backoff"}, NEW f \in Fate, Finish(f)
    PROVE  /\ fate' \in [Item -> Fate]
           /\ wpc' = "top" /\ hand' = <<>> /\ attempt' = 0 /\ hand' \in Seq(Item)
BY MineTyped DEF Finish, TypeOK

LEMMA CountTyped ==
    ASSUME TypeOK, wpc = "limit", CountHit
    PROVE  hits' \in [Channel -> Seq(Age)]
<1>1. Append(Recently, 0) \in Seq(Age)
  BY RecentlyTyped, DeliveryAssumption DEF Age
<1>2. hits \in [Channel -> Seq(Age)]
  BY DEF TypeOK
<1>. QED  BY <1>1, <1>2 DEF CountHit

LEMMA WorkerTyped ==
    ASSUME TypeOK, Placed, WorkerStep
    PROVE  WorkerOK' /\ SharedOK' /\ UNCHANGED dispatchVars
<1>. USE DeliveryAssumption
<1>. WorkerOK /\ SharedOK
  BY Parted
<1>1. CASE Loop
  BY <1>1 DEF Loop, WorkerOK, SharedOK, WorkerPc, dispatchVars, processVars, ages
<1>2. CASE Stopped
  BY <1>2 DEF Stopped, WorkerOK, SharedOK, WorkerPc, dispatchVars, processVars, ages
<1>3. CASE SendDigest \/ DigestRaises
  <2>1. /\ hand' = <<>> /\ wpc' \in {"flush", "dead"} /\ wpc = "digest"
        /\ UNCHANGED <<dispatchVars, queue, todo, attempt, hits, buffer, firstAt,
                       processVars, ages>>
    BY <1>3 DEF SendDigest, DigestRaises
  <2>2. fate' \in [Item -> Fate]
    BY <1>3 DEF SendDigest, DigestRaises, Settled, SharedOK, Fate
  <2>. QED  BY <2>1, <2>2 DEF WorkerOK, SharedOK, WorkerPc, dispatchVars, processVars, ages
<1>4. CASE Get
  <2>1. Head(queue) \in Item /\ Tail(queue) \in Seq(Item)
    BY <1>4 DEF Get, SharedOK
  <2>. QED  BY <1>4, <2>1 DEF Get, WorkerOK, SharedOK, WorkerPc, dispatchVars, processVars, ages
<1>5. CASE Empty
  BY <1>5 DEF Empty, WorkerOK, SharedOK, WorkerPc, dispatchVars, processVars, ages
<1>6. CASE RateLimited
  <2>1. hits' \in [Channel -> Seq(Age)]
    BY <1>6, RecentlyTyped DEF RateLimited, WorkerOK
  <2>2. /\ fate' \in [Item -> Fate]
        /\ wpc' = "top" /\ hand' = <<>> /\ attempt' = 0 /\ hand' \in Seq(Item)
    BY <1>6, FinishTyped DEF RateLimited, Fate
  <2>. QED  BY <1>6, <2>1, <2>2 DEF RateLimited, WorkerOK, SharedOK, WorkerPc, dispatchVars,
               processVars, ages
<1>7. CASE Hold
  <2>1. hits' \in [Channel -> Seq(Age)]
    BY <1>7, CountTyped DEF Hold
  <2>2. /\ fate' \in [Item -> Fate]
        /\ wpc' = "top" /\ hand' = <<>> /\ attempt' = 0 /\ hand' \in Seq(Item)
    BY <1>7, FinishTyped DEF Hold, Fate, Pending
  <2>3. Mine \in Item /\ C \in Channel
    BY <1>7, MineTyped DEF Hold
  <2>4. buffer' \in [Channel -> Seq(Item)]
    BY <1>7, <2>3 DEF Hold, WorkerOK
  <2>5. firstAt' \in [Channel -> Age \cup {None}]
    BY <1>7, <2>3 DEF Hold, WorkerOK, Age
  <2>6. heldFor' \in [Item -> Age]
    BY <1>7, <2>3 DEF Hold, SharedOK, Age
  <2>7. \A c \in Channel : firstAt'[c] # None => buffer'[c] # <<>>
    <3>1. buffer \in [Channel -> Seq(Item)] /\ firstAt \in [Channel -> Age \cup {None}]
      BY DEF WorkerOK
    <3>2. buffer'[C] = Append(buffer[C], Mine)
      BY <1>7, <2>3, <3>1 DEF Hold
    <3>3. buffer'[C] # <<>>
      <4>1. buffer[C] \in Seq(Item) /\ Mine \in Item
        BY <2>3, <3>1
      <4>2. Append(buffer[C], Mine) # <<>>
        BY <4>1, AppendNotEmpty
      <4>. QED  BY <3>2, <4>2
    <3>4. \A c \in Channel : c # C => buffer'[c] = buffer[c] /\ firstAt'[c] = firstAt[c]
      BY <1>7, <2>3, <3>1 DEF Hold
    <3>. QED  BY <3>3, <3>4 DEF WorkerOK
  <2>8. UNCHANGED <<dispatchVars, queue, todo, processVars, queuedFor>>
    BY <1>7 DEF Hold
  <2>. QED  BY <2>1, <2>2, <2>4, <2>5, <2>6, <2>7, <2>8 DEF WorkerOK, SharedOK, WorkerPc,
               dispatchVars, processVars
<1>8. CASE Allow
  <2>1. hits' \in [Channel -> Seq(Age)]
    BY <1>8, CountTyped DEF Allow
  <2>2. Len(hand) = 1 /\ attempt = 0 /\ Retries[ChannelOf[hand[1][2]]] \in Nat
    BY <1>8, MineTyped DEF Allow, WorkerOK, Mine, C, ItsChannel
  <2>3. /\ wpc' = "send"
        /\ UNCHANGED <<dispatchVars, queue, todo, hand, attempt, buffer, firstAt,
                       processVars, fate, ages>>
    BY <1>8 DEF Allow
  <2>4. wpc' = "send" => attempt' <= Retries[ChannelOf[hand'[1][2]]]
    BY <2>2, <2>3
  <2>5. WorkerOK'
    <3>. HIDE DeliveryAssumption
    <3>. QED  BY <2>1, <2>2, <2>3, <2>4 DEF WorkerOK, WorkerPc
  <2>. QED  BY <2>3, <2>5 DEF SharedOK, dispatchVars, processVars, ages
<1>9. CASE Send \/ SendRaises \/ GiveUp \/ (SendFails /\ Finish("logged"))
  <2>1. /\ fate' \in [Item -> Fate]
        /\ wpc' = "top" /\ hand' = <<>> /\ attempt' = 0 /\ hand' \in Seq(Item)
    BY <1>9, FinishTyped DEF Send, SendRaises, GiveUp, SendFails, Fate
  <2>2. UNCHANGED <<dispatchVars, queue, todo, hits, buffer, firstAt, processVars, ages>>
    BY <1>9 DEF Send, SendRaises, GiveUp, SendFails
  <2>. QED  BY <2>1, <2>2 DEF WorkerOK, SharedOK, WorkerPc, dispatchVars, processVars, ages
<1>10. CASE /\ SendFails /\ attempt < Retries[C] /\ wpc' = "backoff"
            /\ UNCHANGED <<hand, attempt, fate>>
  <2>1. /\ hand' = hand /\ attempt' = attempt /\ wpc = "send" /\ wpc' = "backoff"
        /\ UNCHANGED <<dispatchVars, queue, todo, hits, buffer, firstAt, processVars,
                       ages, fate>>
    BY <1>10 DEF SendFails
  <2>2. attempt' < Retries[ChannelOf[hand'[1][2]]]
    BY <1>10, <2>1 DEF C, Mine, ItsChannel
  <2>3. WorkerOK'
    <3>. HIDE DeliveryAssumption
    <3>. QED  BY <2>1, <2>2 DEF WorkerOK, WorkerPc
  <2>. QED  BY <2>1, <2>3 DEF SharedOK, dispatchVars, processVars, ages
<1>11. CASE Retry
  <2>1. Retries[C] \in Nat /\ attempt \in Nat /\ attempt < Retries[C]
    BY <1>11, MineTyped DEF Retry, WorkerOK, C, Mine, ItsChannel
  <2>2. /\ hand' = hand /\ attempt' = attempt + 1 /\ wpc = "backoff" /\ wpc' = "send"
        /\ UNCHANGED <<dispatchVars, queue, todo, hits, buffer, firstAt, processVars,
                       ages, fate>>
    BY <1>11 DEF Retry
  <2>3. attempt' \in Nat /\ attempt' <= Retries[ChannelOf[hand'[1][2]]]
    BY <2>1, <2>2 DEF C, Mine, ItsChannel
  <2>4. WorkerOK'
    <3>. HIDE DeliveryAssumption
    <3>. QED  BY <2>2, <2>3 DEF WorkerOK, WorkerPc
  <2>. QED  BY <2>2, <2>4 DEF SharedOK, dispatchVars, processVars, ages
<1>12. ASSUME NEW c \in Channel, NotDue(c)
       PROVE  WorkerOK' /\ SharedOK' /\ UNCHANGED dispatchVars
  BY <1>12 DEF NotDue, WorkerOK, SharedOK, WorkerPc, dispatchVars, processVars, ages
<1>13. ASSUME NEW c \in Channel, Drain(c)
       PROVE  WorkerOK' /\ SharedOK' /\ UNCHANGED dispatchVars
  <2>1. firstAt[c] # None /\ buffer[c] # <<>> /\ buffer[c] \in Seq(Item)
    BY <1>13 DEF Drain, Due, WorkerOK
  <2>2. hand' = buffer[c] /\ wpc' = "digest" /\ attempt' = 0
    BY <1>13 DEF Drain, WorkerOK
  <2>3. /\ buffer' \in [Channel -> Seq(Item)] /\ firstAt' \in [Channel -> Age \cup {None}]
        /\ \A x \in Channel : firstAt'[x] # None => buffer'[x] # <<>>
    BY <1>13 DEF Drain, WorkerOK
  <2>. QED  BY <1>13, <2>1, <2>2, <2>3 DEF Drain, WorkerOK, SharedOK, WorkerPc, dispatchVars,
               processVars, ages
<1>. QED  BY <1>1, <1>2, <1>3, <1>4, <1>5, <1>6, <1>7, <1>8, <1>9, <1>10, <1>11, <1>12, <1>13
     DEF WorkerStep, SendFails

LEMMA TickTyped ==
    ASSUME TypeOK, Placed, Tick
    PROVE  DispatchersOK' /\ WorkerOK' /\ SharedOK'
<1>. USE DeliveryAssumption
<1>1. DispatchersOK /\ WorkerOK /\ SharedOK
  BY Parted
<1>2. UNCHANGED <<fresh, stage, event, pos, apart, queue, wpc, todo, hand, attempt,
                  buffer, processVars, fate>>
  BY DEF Tick
<1>3. now' \in [Dispatcher -> 0..MaxStall]
  <2>1. /\ \A d \in Dispatcher : stage[d] # "idle" => now[d] < MaxStall
        /\ now \in [Dispatcher -> 0..MaxStall]
        /\ now' = [d \in Dispatcher |-> IF stage[d] = "idle" THEN now[d] ELSE now[d] + 1]
    BY <1>1 DEF Tick, DispatchersOK
  <2>. QED  BY <2>1
<1>4. last' \in [Keys -> Age] /\ queuedFor' \in [Keys -> Age]
  <2>1. ASSUME NEW k \in Keys
        PROVE  Older(last[k], Horizon) \in Age /\ Older(queuedFor[k], Horizon) \in Age
    <3>1. last[k] \in Nat /\ queuedFor[k] \in Nat /\ Horizon \in Nat /\ Horizon <= Horizon
      BY <1>1 DEF SharedOK, Age
    <3>. QED  BY <3>1, OlderTyped
  <2>. QED  BY <2>1 DEF Tick
<1>5. hits' \in [Channel -> Seq(Age)]
  <2>1. ASSUME NEW c \in Channel
        PROVE  [k \in DOMAIN hits[c] |-> Older(hits[c][k], Minute + 1)] \in Seq(Age)
    <3>1. hits[c] \in Seq(Age)
      BY <1>1 DEF WorkerOK
    <3>2. Minute + 1 \in Nat /\ Minute + 1 <= Horizon
      OBVIOUS
    <3>3. ASSUME NEW k \in 1..Len(hits[c])
          PROVE  Older(hits[c][k], Minute + 1) \in Age
      <4>1. hits[c][k] \in Nat
        BY <3>1 DEF Age
      <4>. QED  BY <3>2, <4>1, OlderTyped
    <3>4. Len(hits[c]) \in Nat /\ DOMAIN hits[c] = 1..Len(hits[c])
      BY <3>1
    <3>. DEFINE aged == [k \in 1..Len(hits[c]) |-> Older(hits[c][k], Minute + 1)]
    <3>5. aged \in [1..Len(hits[c]) -> Age]
      BY <3>3
    <3>6. aged \in Seq(Age)
      BY <3>4, <3>5
    <3>. QED  BY <3>4, <3>6
  <2>. QED  BY <2>1 DEF Tick
<1>6. /\ firstAt' \in [Channel -> Age \cup {None}]
      /\ \A c \in Channel : firstAt'[c] # None => firstAt[c] # None
  <2>1. ASSUME NEW c \in Channel, firstAt[c] # None
        PROVE  Older(firstAt[c], Window(Head(buffer[c]))) \in Age
    <3>1. firstAt[c] \in Age /\ buffer[c] \in Seq(Item) /\ buffer[c] # <<>>
      BY <1>1, <2>1 DEF WorkerOK
    <3>2. Window(Head(buffer[c])) \in Age
      BY <3>1, ItemTyped
    <3>3. firstAt[c] \in Nat /\ Window(Head(buffer[c])) \in Nat
          /\ Window(Head(buffer[c])) <= Horizon
      BY <3>1, <3>2 DEF Age
    <3>. QED  BY <3>3, OlderTyped
  <2>2. firstAt' = [c \in Channel |->
           IF firstAt[c] = None THEN None ELSE Older(firstAt[c], Window(Head(buffer[c])))]
    BY DEF Tick
  <2>. QED  BY <2>1, <2>2
<1>7. heldFor' \in [Item -> Age]
  <2>1. ASSUME NEW i \in Item, buffer[ItsChannel(i)] # <<>>
        PROVE  Older(heldFor[i], Window(Head(buffer[ItsChannel(i)]))) \in Age
    <3>1. ItsChannel(i) \in Channel /\ heldFor[i] \in Nat
      BY <1>1, ItemTyped DEF SharedOK, Age
    <3>. DEFINE w == Window(Head(buffer[ItsChannel(i)]))
    <3>2. buffer[ItsChannel(i)] \in Seq(Item)
      BY <1>1, <3>1 DEF WorkerOK
    <3>3. Head(buffer[ItsChannel(i)]) \in Item
      BY <2>1, <3>2
    <3>4. w \in Nat /\ w <= Horizon
      BY <3>3, ItemTyped DEF Age
    <3>. HIDE DEF w
    <3>5. Older(heldFor[i], w) \in Age
      BY <3>1, <3>4, OlderTyped
    <3>. QED  BY <3>5 DEF w
  <2>2. 0 \in Age
    BY DEF Age
  <2>3. heldFor' = [i \in Item |->
           IF fate[i] = "digested" /\ buffer[ItsChannel(i)] # <<>>
           THEN Older(heldFor[i], Window(Head(buffer[ItsChannel(i)]))) ELSE 0]
    BY DEF Tick
  <2>. QED  BY <2>1, <2>2, <2>3
<1>8. DispatchersOK'
  BY <1>1, <1>2, <1>3 DEF DispatchersOK, Busy
<1>9. SharedOK'
  BY <1>1, <1>2, <1>4, <1>7 DEF SharedOK, processVars
<1>10. WorkerOK'
  BY <1>1, <1>2, <1>5, <1>6 DEF WorkerOK
<1>. QED  BY <1>8, <1>9, <1>10

(* An empty memory, at the start of a process.                             *)
EmptyMemory ==
    /\ fresh \subseteq Event
    /\ stage = [d \in Dispatcher |-> "idle"]
    /\ event = [d \in Dispatcher |-> NoEvent]
    /\ pos = [d \in Dispatcher |-> 1]
    /\ now = [d \in Dispatcher |-> 0]
    /\ apart = [d \in Dispatcher |-> [k \in Keys |-> Never]]
    /\ last = [k \in Keys |-> Never]
    /\ queue = <<>> /\ wpc = "top" /\ todo = {} /\ hand = <<>> /\ attempt = 0
    /\ hits = [c \in Channel |-> <<>>]
    /\ buffer = [c \in Channel |-> <<>>]
    /\ firstAt = [c \in Channel |-> None]
    /\ stop = FALSE
    /\ restarts \in 0..MaxRestarts
    /\ fate \in [Item -> Fate]
    /\ queuedFor = [k \in Keys |-> Never]
    /\ heldFor = [i \in Item |-> 0]

LEMMA EmptyTyped == EmptyMemory => TypeOK /\ Placed
<1>. SUFFICES ASSUME EmptyMemory PROVE DispatchersOK /\ WorkerOK /\ SharedOK
  BY Parted
<1>. USE DeliveryAssumption
<1>1. [k \in Keys |-> Never] \in [Keys -> Age] /\ 0 \in Age
  BY DEF Never, Age
<1>2. DispatchersOK
  BY <1>1 DEF EmptyMemory, DispatchersOK, Stage, Busy
<1>3. WorkerOK
  BY DEF EmptyMemory, WorkerOK, WorkerPc
<1>4. SharedOK
  <2>1. queue \in Seq(Item)
    BY DEF EmptyMemory
  <2>. QED  BY <1>1, <2>1 DEF EmptyMemory, SharedOK
<1>. QED  BY <1>2, <1>3, <1>4

LEMMA RestartEmpties ==
    ASSUME TypeOK, Restart
    PROVE  EmptyMemory'
<1>. USE DeliveryAssumption
<1>1. fate' \in [Item -> Fate]
  BY DEF Restart, TypeOK, Fate
<1>2. restarts' \in 0..MaxRestarts /\ fresh' \subseteq Event
  BY DEF Restart, TypeOK
<1>. QED  BY <1>1, <1>2 DEF Restart, EmptyMemory

(***************************************************************************)
(* Whatever the threads do and whenever the process restarts, each         *)
(* variable keeps its type, a dispatcher that is under way is at a route   *)
(* of its event, and the worker holds exactly what the place it is in      *)
(* says (Notifier.dispatch, Worker._loop, handle_one, _RateLimiter.allow   *)
(* and _DigestBuffer).                                                     *)
(***************************************************************************)
THEOREM TypeCorrect == Spec => [](TypeOK /\ Placed)
<1>1. Init => TypeOK /\ Placed
  <2>1. Init => EmptyMemory
    BY DeliveryAssumption DEF Init, EmptyMemory, Fate
  <2>. QED  BY <2>1, EmptyTyped
<1>2. TypeOK /\ Placed /\ [Next]_vars => (TypeOK /\ Placed)'
  <2>. SUFFICES ASSUME TypeOK, Placed, [Next]_vars
                PROVE  DispatchersOK' /\ WorkerOK' /\ SharedOK'
    BY Parted DEF TypeOK, Placed, DispatchersOK, WorkerOK, SharedOK, Busy
  <2>0. DispatchersOK /\ WorkerOK /\ SharedOK
    BY Parted
  <2>1. ASSUME NEW d \in Dispatcher, DispatchStep(d)
        PROVE  DispatchersOK' /\ WorkerOK' /\ SharedOK'
    <3>1. DispatchersOK' /\ SharedOK' /\ UNCHANGED workerVars
      BY <2>1, DispatchTyped
    <3>. QED  BY <2>0, <3>1 DEF WorkerOK, workerVars
  <2>2. CASE WorkerStep
    <3>1. WorkerOK' /\ SharedOK' /\ UNCHANGED dispatchVars
      BY <2>2, WorkerTyped
    <3>. QED  BY <2>0, <3>1 DEF DispatchersOK, dispatchVars, Busy
  <2>3. CASE Tick
    BY <2>3, TickTyped
  <2>4. CASE Stop
    BY <2>0, <2>4 DEF Stop, DispatchersOK, WorkerOK, SharedOK, Busy, dispatchVars,
       workerVars, ages
  <2>5. CASE Restart
    <3>1. EmptyMemory'
      BY <2>5, RestartEmpties
    <3>2. (TypeOK /\ Placed)'
      BY <3>1, EmptyTyped, PTL
    <3>. QED  BY <3>2, Parted, PTL
  <2>6. CASE UNCHANGED vars
    BY <2>0, <2>6 DEF vars, DispatchersOK, WorkerOK, SharedOK, Busy, dispatchVars,
       workerVars, processVars, ages
  <2>. QED  BY <2>1, <2>2, <2>3, <2>4, <2>5, <2>6 DEF Next
<1>. QED  BY <1>1, <1>2, PTL DEF Spec

-----------------------------------------------------------------------------
(* How often an item occurs in a sequence                                  *)

At(s, i) == {k \in DOMAIN s : s[k] = i}
One(x, i) == IF x = i THEN 1 ELSE 0

LEMMA AtFinite ==
    ASSUME NEW S, NEW s \in Seq(S), NEW i
    PROVE  IsFiniteSet(At(s, i)) /\ Occurs(s, i) = Cardinality(At(s, i)) /\ Occurs(s, i) \in Nat
<1>1. IsFiniteSet(1..Len(s))
  BY FS_Interval
<1>2. At(s, i) \subseteq 1..Len(s)
  BY DEF At
<1>3. IsFiniteSet(At(s, i))
  BY <1>1, <1>2, FS_Subset
<1>4. Occurs(s, i) = Cardinality(At(s, i))
  BY DEF Occurs, At
<1>. QED  BY <1>3, <1>4, FS_CardinalityType

LEMMA OccursEmpty == \A i : Occurs(<<>>, i) = 0
<1>1. \A i : At(<<>>, i) = {}
  BY DEF At
<1>. QED  BY <1>1, FS_EmptySet DEF Occurs, At

LEMMA OccursSome ==
    ASSUME NEW S, NEW s \in Seq(S), NEW i
    PROVE  Occurs(s, i) > 0 <=> \E k \in DOMAIN s : s[k] = i
<1>1. Occurs(s, i) = 0 <=> At(s, i) = {}
  BY AtFinite, FS_EmptySet
<1>2. Occurs(s, i) \in Nat
  BY AtFinite
<1>. QED  BY <1>1, <1>2 DEF At

LEMMA OccursAppend ==
    ASSUME NEW S, NEW s \in Seq(S), NEW x \in S, NEW i
    PROVE  Occurs(Append(s, x), i) = Occurs(s, i) + One(x, i)
<1>. DEFINE t == Append(s, x)
<1>1. /\ t \in Seq(S) /\ Len(t) = Len(s) + 1 /\ Len(s) \in Nat
      /\ t[Len(s) + 1] = x
      /\ \A k \in 1..Len(s) : t[k] = s[k]
      /\ DOMAIN t = 1..Len(s) + 1 /\ DOMAIN s = 1..Len(s)
  OBVIOUS
<1>2. Len(s) + 1 \notin At(s, i)
  BY <1>1 DEF At
<1>3. IsFiniteSet(At(s, i)) /\ Cardinality(At(s, i)) \in Nat
  BY AtFinite
<1>4. Occurs(s, i) = Cardinality(At(s, i)) /\ Occurs(t, i) = Cardinality(At(t, i))
  BY DEF Occurs, At
<1>5. CASE x = i
  <2>1. At(t, i) = At(s, i) \cup {Len(s) + 1}
    <3>. HIDE DEF t
    <3>. QED  BY <1>1, <1>5 DEF At
  <2>2. Cardinality(At(t, i)) = Cardinality(At(s, i)) + 1
    <3>. HIDE DEF t
    <3>. QED  BY <1>2, <1>3, <2>1, FS_AddElement
  <2>3. One(x, i) = 1
    BY <1>5 DEF One
  <2>. QED  BY <1>4, <2>2, <2>3
<1>6. CASE x # i
  <2>1. At(t, i) = At(s, i)
    <3>. HIDE DEF t
    <3>. QED  BY <1>1, <1>6 DEF At
  <2>. QED  BY <1>3, <1>4, <1>6, <2>1 DEF One
<1>. QED  BY <1>5, <1>6

LEMMA OccursOnce ==
    ASSUME NEW S, NEW x \in S, NEW i
    PROVE  Occurs(<<x>>, i) = One(x, i)
<1>1. <<>> \in Seq(S) /\ Append(<<>>, x) = <<x>>
  OBVIOUS
<1>2. Occurs(Append(<<>>, x), i) = Occurs(<<>>, i) + One(x, i)
  BY <1>1, OccursAppend
<1>. QED  BY <1>1, <1>2, OccursEmpty DEF One

LEMMA OccursTail ==
    ASSUME NEW S, NEW s \in Seq(S), s # <<>>, NEW i
    PROVE  Occurs(s, i) = Occurs(Tail(s), i) + One(Head(s), i)
<1>. DEFINE t == Tail(s)
            up == [k \in At(t, i) |-> k + 1]
            rest == At(s, i) \ {1}
<1>1. /\ t \in Seq(S) /\ Len(t) = Len(s) - 1 /\ Len(s) \in Nat \ {0}
      /\ \A k \in 1..Len(t) : t[k] = s[k + 1]
      /\ DOMAIN t = 1..Len(t) /\ DOMAIN s = 1..Len(s)
      /\ Head(s) = s[1]
  OBVIOUS
<1>2. up \in Bijection(At(t, i), rest)
  <2>. HIDE DEF t
  <2>1. \A k \in At(t, i) : k \in Nat /\ k + 1 \in rest
    BY <1>1 DEF At
  <2>2. up \in [At(t, i) -> rest]
    BY <2>1
  <2>3. \A j, k \in At(t, i) : up[j] = up[k] => j = k
    BY <2>1
  <2>4. \A m \in rest : \E k \in At(t, i) : up[k] = m
    <3>. SUFFICES ASSUME NEW m \in rest PROVE \E k \in At(t, i) : up[k] = m
      OBVIOUS
    <3>1. m \in 2..Len(s) /\ s[m] = i
      BY <1>1 DEF At
    <3>2. m - 1 \in 1..Len(t) /\ t[m - 1] = s[m]
      BY <1>1, <3>1
    <3>3. m - 1 \in At(t, i)
      BY <1>1, <3>1, <3>2 DEF At
    <3>4. up[m - 1] = m
      BY <3>1, <3>3
    <3>. QED  BY <3>3, <3>4
  <2>. HIDE DEF up, rest
  <2>. QED  BY <2>2, <2>3, <2>4 DEF Bijection, Injection, Surjection, IsInjective
<1>3. IsFiniteSet(At(t, i)) /\ Cardinality(At(t, i)) \in Nat
  BY <1>1, AtFinite
<1>4. IsFiniteSet(rest) /\ Cardinality(rest) = Cardinality(At(t, i))
  BY <1>2, <1>3, FS_Bijection DEF ExistsBijection
<1>5. Occurs(s, i) = Cardinality(At(s, i)) /\ Occurs(t, i) = Cardinality(At(t, i))
  BY DEF Occurs, At
<1>6. CASE Head(s) = i
  <2>1. At(s, i) = rest \cup {1} /\ 1 \notin rest
    BY <1>1, <1>6 DEF At
  <2>2. Cardinality(At(s, i)) = Cardinality(rest) + 1
    <3>. HIDE DEF rest
    <3>. QED  BY <1>4, <2>1, FS_AddElement
  <2>. QED  BY <1>3, <1>4, <1>5, <1>6, <2>2 DEF One
<1>7. CASE Head(s) # i
  <2>1. At(s, i) = rest
    BY <1>1, <1>7 DEF At
  <2>2. Occurs(s, i) = Occurs(t, i) /\ Occurs(t, i) \in Nat
    <3>. HIDE DEF t, rest
    <3>. QED  BY <1>3, <1>4, <1>5, <2>1
  <2>3. One(Head(s), i) = 0
    BY <1>7 DEF One
  <2>. QED  BY <2>2, <2>3
<1>. QED  BY <1>6, <1>7

-----------------------------------------------------------------------------
(* Where the notifications are                                             *)

Total(i) == Occurs(queue, i) + Occurs(buffer[ItsChannel(i)], i) + Occurs(hand, i)

(* A digest only holds notifications of its channel.                       *)
InItsDigest == \A c \in Channel : \A k \in DOMAIN buffer[c] : ItsChannel(buffer[c][k]) = c

(* Nobody queued anything yet for an event that is not dispatched, nor for *)
(* the routes a dispatcher has before it, and no two have the same event.  *)
Untouched ==
    /\ \A i \in Item : i[1] \in fresh => fate[i] = "none"
    /\ \A d \in Dispatcher : Busy(d) => event[d] \notin fresh
    /\ \A d, o \in Dispatcher : Busy(d) /\ Busy(o) /\ event[d] = event[o] => d = o
    /\ \A d \in Dispatcher : Busy(d) =>
          \A k \in pos[d]..Len(Routes[event[d]]) :
             fate[<<event[d], Routes[event[d]][k]>>] = "none"

Kept == Accounted /\ InItsDigest /\ Untouched

LEMMA Counts ==
    ASSUME TypeOK, NEW i \in Item
    PROVE  /\ Occurs(queue, i) \in Nat /\ Occurs(hand, i) \in Nat
           /\ \A c \in Channel : Occurs(buffer[c], i) \in Nat
           /\ ItsChannel(i) \in Channel
<1>1. queue \in Seq(Item) /\ hand \in Seq(Item) /\ buffer \in [Channel -> Seq(Item)]
  BY DEF TypeOK
<1>. QED  BY <1>1, AtFinite, ItemTyped

LEMMA AheadTyped ==
    ASSUME TypeOK, Placed, NEW d \in Dispatcher, Busy(d),
           NEW k \in pos[d]..Len(Routes[event[d]])
    PROVE  /\ <<event[d], Routes[event[d]][k]>> \in Item
           /\ k \in DOMAIN Routes[event[d]]
<1>1. event[d] \in Event /\ Routes[event[d]] \in Seq(Route)
  BY CurrentTyped
<1>2. pos[d] \in Nat \ {0}
  BY DEF TypeOK
<1>3. k \in 1..Len(Routes[event[d]])
  BY <1>1, <1>2
<1>4. Routes[event[d]][k] \in Route /\ k \in DOMAIN Routes[event[d]]
  BY <1>1, <1>3
<1>. QED  BY <1>1, <1>4 DEF Item, Targets

(* What is left of the dispatchers' part, when no fresh fate changes.      *)
LEMMA StaysUntouched ==
    ASSUME TypeOK, Placed, Untouched, UNCHANGED <<fresh, stage, event, pos>>,
           \A i \in Item : fate[i] = "none" => fate'[i] = "none"
    PROVE  Untouched'
<1>1. \A i \in Item : i[1] \in fresh' => fate'[i] = "none"
  BY DEF Untouched
<1>2. \A d \in Dispatcher : Busy(d)' => event'[d] \notin fresh'
  BY DEF Untouched, Busy
<1>3. \A d, o \in Dispatcher : Busy(d)' /\ Busy(o)' /\ event'[d] = event'[o] => d = o
  BY DEF Untouched, Busy
<1>4. ASSUME NEW d \in Dispatcher, Busy(d)', NEW k \in pos'[d]..Len(Routes[event'[d]])
      PROVE  fate'[<<event'[d], Routes[event'[d]][k]>>] = "none"
  <2>1. Busy(d) /\ k \in pos[d]..Len(Routes[event[d]])
    BY <1>4 DEF Busy
  <2>2. <<event[d], Routes[event[d]][k]>> \in Item
    BY <2>1, AheadTyped
  <2>. QED  BY <2>1, <2>2 DEF Untouched
<1>. QED  BY <1>1, <1>2, <1>3, <1>4 DEF Untouched

LEMMA NextRouteUntouched ==
    ASSUME TypeOK, Placed, Untouched, NEW d \in Dispatcher, Busy(d), NextRoute(d),
           \A i \in Item : i # Current(d) => fate'[i] = fate[i]
    PROVE  Untouched'
<1>1. /\ stage \in [Dispatcher -> Stage] /\ event \in [Dispatcher -> Event \cup {NoEvent}]
      /\ pos \in [Dispatcher -> Nat \ {0}]
  BY DEF TypeOK
<1>2. fresh' = fresh
  BY DEF NextRoute
<1>3. ASSUME NEW o \in Dispatcher, Busy(o)'
      PROVE  /\ Busy(o) /\ event'[o] = event[o] /\ pos'[o] \in Nat
             /\ pos'[o] >= pos[o] /\ (o = d => pos'[o] > pos[o])
  <2>1. CASE o # d
    BY <1>1, <1>3, <2>1 DEF NextRoute, Busy
  <2>2. CASE o = d
    BY <1>1, <1>3, <2>2 DEF NextRoute, Busy
  <2>. QED  BY <2>1, <2>2
<1>4. Current(d) \in Item /\ Current(d)[1] = event[d] /\ Current(d)[2] = Routes[event[d]][pos[d]]
  BY CurrentTyped DEF Current, CurrentRoute
<1>5. \A i \in Item : i[1] \in fresh' => fate'[i] = "none"
  BY <1>2, <1>4 DEF Untouched
<1>6. ASSUME NEW o \in Dispatcher, Busy(o)', NEW k \in pos'[o]..Len(Routes[event'[o]])
      PROVE  fate'[<<event'[o], Routes[event'[o]][k]>>] = "none"
  <2>. DEFINE x == <<event[o], Routes[event[o]][k]>>
  <2>1. Busy(o) /\ event'[o] = event[o] /\ k \in Nat /\ k >= pos'[o]
    BY <1>3, <1>6
  <2>2. k \in pos[o]..Len(Routes[event[o]])
    BY <1>1, <1>3, <1>6, <2>1
  <2>3. x \in Item /\ k \in DOMAIN Routes[event[o]] /\ fate[x] = "none"
    BY <2>1, <2>2, AheadTyped DEF Untouched
  <2>4. x # Current(d)
    <3>1. CASE o # d
      BY <1>4, <2>1, <3>1 DEF Untouched
    <3>2. CASE o = d
      <4>1. k # pos[d] /\ pos[d] \in DOMAIN Routes[event[d]] /\ event[d] \in Event
        BY <1>1, <1>3, <1>6, <2>1, <3>2 DEF Placed
      <4>2. Routes[event[d]][k] # Routes[event[d]][pos[d]]
        BY <2>3, <3>2, <4>1, DeliveryAssumption
      <4>. QED  BY <1>4, <4>2, <3>2
    <3>. QED  BY <3>1, <3>2
  <2>. QED  BY <2>1, <2>3, <2>4
<1>7. \A o \in Dispatcher : Busy(o)' => event'[o] \notin fresh'
  BY <1>2, <1>3 DEF Untouched
<1>8. \A o, a \in Dispatcher : Busy(o)' /\ Busy(a)' /\ event'[o] = event'[a] => o = a
  BY <1>3 DEF Untouched
<1>. QED  BY <1>5, <1>6, <1>7, <1>8 DEF Untouched

LEMMA DispatchKept ==
    ASSUME TypeOK, Placed, Kept, NEW d \in Dispatcher, DispatchStep(d)
    PROVE  Kept'
<1>1. Accounted /\ InItsDigest /\ Untouched
  BY DEF Kept
<1>2. /\ stage \in [Dispatcher -> Stage] /\ event \in [Dispatcher -> Event \cup {NoEvent}]
      /\ fate \in [Item -> Fate] /\ queue \in Seq(Item)
  BY DEF TypeOK
<1>3. CASE ~Enqueue(d)
  <2>1. UNCHANGED <<queue, fate, buffer, hand>>
    BY <1>3 DEF DispatchStep, Dispatch, Acked, NotAcked, Skip, Suppress, Pass, Record, workerVars
  <2>2. Accounted' /\ InItsDigest'
    BY <1>1, <2>1 DEF Accounted, InItsDigest
  <2>3. CASE Skip(d) \/ Suppress(d)
    <3>1. Busy(d) /\ NextRoute(d)
      BY <2>3 DEF Skip, Suppress, Busy
    <3>2. Untouched'
      BY <1>1, <2>1, <3>1, NextRouteUntouched
    <3>. QED  BY <2>2, <3>2 DEF Kept
  <2>4. CASE NotAcked(d) \/ Pass(d) \/ Record(d)
    <3>1. UNCHANGED <<fresh, event, pos, fate>> /\ Busy(d)
      BY <2>4 DEF NotAcked, Pass, Record, Busy
    <3>2. \A o \in Dispatcher : Busy(o)' <=> Busy(o)
      BY <1>2, <2>4 DEF NotAcked, Pass, Record, Busy
    <3>. QED  BY <1>1, <2>2, <3>1, <3>2 DEF Untouched, Kept
  <2>5. CASE Acked(d)
    <3>1. UNCHANGED <<fresh, pos, fate>>
      BY <2>5 DEF Acked
    <3>2. \A o \in Dispatcher : Busy(o)' => Busy(o) /\ event'[o] = event[o]
      BY <1>2, <2>5 DEF Acked, Busy
    <3>. QED  BY <1>1, <2>2, <3>1, <3>2 DEF Untouched, Kept
  <2>6. CASE Dispatch(d)
    <3>1. PICK e \in fresh : fresh' = fresh \ {e} /\ event' = [event EXCEPT ![d] = e]
      BY <2>6 DEF Dispatch
    <3>2. UNCHANGED <<pos, fate>> /\ pos[d] = 1 /\ e \in Event /\ ~Busy(d)
      BY <2>6 DEF Dispatch, Placed, TypeOK, Busy
    <3>3. event'[d] = e /\ \A o \in Dispatcher :
                              o # d => stage'[o] = stage[o] /\ event'[o] = event[o]
      BY <1>2, <2>6, <3>1 DEF Dispatch
    <3>4. ASSUME NEW k \in pos'[d]..Len(Routes[event'[d]])
          PROVE  fate'[<<event'[d], Routes[event'[d]][k]>>] = "none"
      <4>1. Routes[e] \in Seq(Route)
        BY <3>2, DeliveryAssumption
      <4>3. k \in 1..Len(Routes[e])
        BY <3>2, <3>3, <3>4, <4>1
      <4>4. k \in DOMAIN Routes[e] /\ Routes[e][k] \in Route
        BY <4>1, <4>3
      <4>2. <<e, Routes[e][k]>> \in Item
        BY <3>2, <4>4 DEF Item, Targets
      <4>. QED  BY <1>1, <3>1, <3>2, <3>3, <4>2 DEF Untouched
    <3>5. \A i \in Item : i[1] \in fresh' => fate'[i] = "none"
      BY <1>1, <3>1, <3>2 DEF Untouched
    <3>6. \A o \in Dispatcher : Busy(o)' => event'[o] \notin fresh'
      BY <1>1, <3>1, <3>3 DEF Untouched, Busy
    <3>7. \A o, a \in Dispatcher : Busy(o)' /\ Busy(a)' /\ event'[o] = event'[a] => o = a
      BY <1>1, <3>1, <3>3 DEF Untouched, Busy
    <3>8. ASSUME NEW o \in Dispatcher, Busy(o)', NEW k \in pos'[o]..Len(Routes[event'[o]])
          PROVE  fate'[<<event'[o], Routes[event'[o]][k]>>] = "none"
      <4>1. CASE o = d
        BY <3>4, <3>8, <4>1
      <4>2. CASE o # d
        BY <1>1, <3>2, <3>3, <3>8, <4>2 DEF Untouched, Busy
      <4>. QED  BY <4>1, <4>2
    <3>. QED  BY <2>2, <3>5, <3>6, <3>7, <3>8 DEF Untouched, Kept
  <2>. QED  BY <1>3, <2>3, <2>4, <2>5, <2>6 DEF DispatchStep
<1>4. CASE Enqueue(d)
  <2>. DEFINE it == Current(d)
  <2>1. Busy(d) /\ NextRoute(d)
    BY <1>4 DEF Enqueue, Busy
  <2>2. it \in Item
    BY <2>1, CurrentTyped
  <2>3. /\ queue' = Append(queue, it) /\ fate' = [fate EXCEPT ![it] = "queued"]
        /\ UNCHANGED <<buffer, hand>>
    BY <1>4 DEF Enqueue, workerVars
  <2>4. fate[it] = "none"
    <3>1. pos[d] \in pos[d]..Len(Routes[event[d]])
      BY <2>1, CurrentTyped DEF Placed, TypeOK
    <3>. QED  BY <1>1, <2>1, <3>1 DEF Untouched, Current, CurrentRoute
  <2>5. Untouched'
    <3>1. \A i \in Item : i # it => fate'[i] = fate[i]
      BY <1>2, <2>3
    <3>. HIDE DEF it
    <3>. QED  BY <1>1, <2>1, <3>1, NextRouteUntouched DEF it
  <2>6. ASSUME NEW i \in Item
        PROVE  Total(i)' = IF fate'[i] \in Pending THEN 1 ELSE 0
    <3>. HIDE DEF it
    <3>1. Occurs(queue', i) = Occurs(queue, i) + One(it, i)
      BY <1>2, <2>2, <2>3, OccursAppend
    <3>2. Total(i)' = Total(i) + One(it, i)
      <4>1. Total(i)' = Occurs(queue', i) + Occurs(buffer[ItsChannel(i)], i) + Occurs(hand, i)
        BY <2>3 DEF Total
      <4>2. One(it, i) \in Nat
        BY DEF One
      <4>. QED  BY <3>1, <4>1, <4>2, Counts DEF Total
    <3>3. Total(i) = IF fate[i] \in Pending THEN 1 ELSE 0
      BY <1>1 DEF Accounted, Total
    <3>4. CASE i = it
      BY <1>2, <2>2, <2>3, <2>4, <3>2, <3>3, <3>4 DEF Pending, One
    <3>5. CASE i # it
      BY <1>2, <2>3, <3>2, <3>3, <3>5 DEF Pending, One
    <3>. QED  BY <3>4, <3>5
  <2>7. Accounted' /\ InItsDigest'
    BY <1>1, <2>3, <2>6 DEF Accounted, InItsDigest, Total
  <2>. QED  BY <2>5, <2>7 DEF Kept
<1>. QED  BY <1>3, <1>4

LEMMA InHand ==
    ASSUME TypeOK, Accounted, NEW i \in Item, Occurs(hand, i) > 0
    PROVE  /\ fate[i] \in Pending /\ Occurs(hand, i) = 1
           /\ Occurs(queue, i) = 0 /\ Occurs(buffer[ItsChannel(i)], i) = 0
<1>1. Occurs(queue, i) + Occurs(buffer[ItsChannel(i)], i) + Occurs(hand, i)
          = IF fate[i] \in Pending THEN 1 ELSE 0
  BY DEF Accounted
<1>2. /\ Occurs(queue, i) \in Nat /\ Occurs(hand, i) \in Nat
      /\ Occurs(buffer[ItsChannel(i)], i) \in Nat
  BY Counts
<1>. QED  BY <1>1, <1>2

(* The worker is done with what it holds: a notification, or a digest.     *)
LEMMA HandSettled ==
    ASSUME TypeOK, Accounted, InItsDigest, UNCHANGED <<queue, buffer>>, hand' = <<>>,
           NEW f, f \notin Pending,
           \A i \in Item : fate'[i] = IF Occurs(hand, i) > 0 THEN f ELSE fate[i]
    PROVE  /\ Accounted' /\ InItsDigest'
           /\ \A i \in Item : fate[i] = "none" => fate'[i] = "none"
<1>1. ASSUME NEW i \in Item
      PROVE  Total(i)' = IF fate'[i] \in Pending THEN 1 ELSE 0
  <2>1. Total(i)' = Occurs(queue, i) + Occurs(buffer[ItsChannel(i)], i) + 0
    BY OccursEmpty DEF Total
  <2>2. /\ Occurs(queue, i) \in Nat /\ Occurs(hand, i) \in Nat
        /\ Occurs(buffer[ItsChannel(i)], i) \in Nat
    BY Counts
  <2>3. CASE Occurs(hand, i) > 0
    BY <2>1, <2>3, InHand
  <2>4. CASE Occurs(hand, i) = 0
    BY <2>1, <2>2, <2>4 DEF Accounted
  <2>. QED  BY <2>2, <2>3, <2>4
<1>2. \A i \in Item : fate[i] = "none" => fate'[i] = "none"
  BY InHand DEF Pending
<1>. QED  BY <1>1, <1>2 DEF Accounted, InItsDigest, Total

LEMMA FinishSettles ==
    ASSUME TypeOK, wpc \in {"limit", "send", "backoff"}, NEW f, Finish(f)
    PROVE  /\ hand' = <<>>
           /\ \A i \in Item : fate'[i] = IF Occurs(hand, i) > 0 THEN f ELSE fate[i]
<1>1. Mine \in Item /\ hand = <<Mine>>
  BY MineTyped
<1>2. \A i \in Item : Occurs(hand, i) = One(Mine, i)
  BY <1>1, OccursOnce
<1>3. fate' = [fate EXCEPT ![Mine] = f] /\ fate \in [Item -> Fate] /\ hand' = <<>>
  BY DEF Finish, TypeOK
<1>4. \A i \in Item : fate'[i] = IF Mine = i THEN f ELSE fate[i]
  BY <1>1, <1>3
<1>. QED  BY <1>2, <1>3, <1>4 DEF One

LEMMA DrainKept ==
    ASSUME TypeOK, Placed, Accounted, InItsDigest, NEW c \in Channel, Drain(c)
    PROVE  Accounted' /\ InItsDigest' /\ fate' = fate
<1>1. /\ hand = <<>> /\ hand' = buffer[c] /\ UNCHANGED <<queue, fate>>
      /\ buffer' = [buffer EXCEPT ![c] = <<>>] /\ buffer \in [Channel -> Seq(Item)]
  BY DEF Drain, Placed, TypeOK
<1>2. buffer'[c] = <<>> /\ \A x \in Channel : x # c => buffer'[x] = buffer[x]
  BY <1>1
<1>3. ASSUME NEW i \in Item
      PROVE  Total(i)' = Total(i)
  <2>1. /\ Occurs(queue, i) \in Nat /\ ItsChannel(i) \in Channel
        /\ Occurs(buffer[ItsChannel(i)], i) \in Nat /\ Occurs(buffer[c], i) \in Nat
    BY Counts
  <2>2. Occurs(hand, i) = 0 /\ Occurs(hand', i) = Occurs(buffer[c], i) /\ queue' = queue
    BY <1>1, OccursEmpty
  <2>3. CASE ItsChannel(i) = c
    <3>1. Occurs(buffer'[ItsChannel(i)], i) = 0
      BY <1>2, <2>3, OccursEmpty
    <3>. QED  BY <2>1, <2>2, <2>3, <3>1 DEF Total
  <2>4. CASE ItsChannel(i) # c
    <3>1. ~(\E k \in DOMAIN buffer[c] : buffer[c][k] = i)
      BY <2>4 DEF InItsDigest
    <3>2. Occurs(buffer[c], i) = 0
      BY <1>1, <2>1, <3>1, OccursSome
    <3>3. Occurs(buffer'[ItsChannel(i)], i) = Occurs(buffer[ItsChannel(i)], i)
      BY <1>2, <2>1, <2>4
    <3>. QED  BY <2>1, <2>2, <3>2, <3>3 DEF Total
  <2>. QED  BY <2>3, <2>4
<1>4. InItsDigest'
  BY <1>2 DEF InItsDigest
<1>. QED  BY <1>1, <1>3, <1>4 DEF Accounted, Total

LEMMA GetKept ==
    ASSUME TypeOK, Placed, Accounted, InItsDigest, Get
    PROVE  Accounted' /\ InItsDigest' /\ fate' = fate
<1>1. /\ hand = <<>> /\ hand' = <<Head(queue)>> /\ UNCHANGED <<buffer, fate>>
      /\ queue' = Tail(queue) /\ queue # <<>> /\ queue \in Seq(Item)
      /\ Head(queue) \in Item
  BY DEF Get, Placed, TypeOK
<1>2. ASSUME NEW i \in Item
      PROVE  Total(i)' = Total(i)
  <2>1. Occurs(queue, i) = Occurs(queue', i) + One(Head(queue), i)
    BY <1>1, OccursTail
  <2>2. Occurs(hand, i) = 0 /\ Occurs(hand', i) = One(Head(queue), i)
    BY <1>1, OccursEmpty, OccursOnce
  <2>3. Occurs(queue', i) \in Nat /\ Occurs(buffer[ItsChannel(i)], i) \in Nat
    <3>1. queue' \in Seq(Item)
      BY <1>1
    <3>. QED  BY <3>1, AtFinite, Counts
  <2>4. One(Head(queue), i) \in Nat
    BY DEF One
  <2>. QED  BY <1>1, <2>1, <2>2, <2>3, <2>4 DEF Total
<1>. QED  BY <1>1, <1>2 DEF Accounted, InItsDigest, Total

LEMMA HoldKept ==
    ASSUME TypeOK, Placed, Accounted, InItsDigest, Hold
    PROVE  /\ Accounted' /\ InItsDigest'
           /\ \A i \in Item : fate[i] = "none" => fate'[i] = "none"
<1>1. Mine \in Item /\ C \in Channel /\ C = ItsChannel(Mine)
  BY MineTyped DEF Hold, C
<1>2. /\ buffer' = [buffer EXCEPT ![C] = Append(@, Mine)] /\ queue' = queue
      /\ buffer \in [Channel -> Seq(Item)] /\ fate \in [Item -> Fate]
  BY DEF Hold, TypeOK
<1>3. buffer'[C] = Append(buffer[C], Mine) /\ \A x \in Channel : x # C => buffer'[x] = buffer[x]
  BY <1>1, <1>2
<1>4. /\ hand' = <<>> /\ hand = <<Mine>>
      /\ \A i \in Item : fate'[i] = IF Occurs(hand, i) > 0 THEN "digested" ELSE fate[i]
  BY FinishSettles, MineTyped DEF Hold
<1>5. ASSUME NEW i \in Item
      PROVE  Total(i)' = IF fate'[i] \in Pending THEN 1 ELSE 0
  <2>1. /\ Occurs(queue, i) \in Nat /\ ItsChannel(i) \in Channel
        /\ Occurs(buffer[ItsChannel(i)], i) \in Nat
    BY Counts
  <2>2. Occurs(hand', i) = 0 /\ Occurs(hand, i) = One(Mine, i)
    BY <1>1, <1>4, OccursEmpty, OccursOnce
  <2>3. Occurs(buffer'[ItsChannel(i)], i) = Occurs(buffer[ItsChannel(i)], i) + One(Mine, i)
    <3>1. CASE ItsChannel(i) = C
      <4>1. buffer[C] \in Seq(Item)
        BY <1>1, <1>2
      <4>2. Occurs(Append(buffer[C], Mine), i) = Occurs(buffer[C], i) + One(Mine, i)
        BY <1>1, <4>1, OccursAppend
      <4>. QED  BY <1>3, <3>1, <4>2
    <3>2. CASE ItsChannel(i) # C
      BY <1>1, <1>3, <2>1, <3>2 DEF One
    <3>. QED  BY <3>1, <3>2
  <2>4. Total(i)' = Total(i)
    <3>1. One(Mine, i) \in Nat
      BY DEF One
    <3>. QED  BY <1>2, <2>1, <2>2, <2>3, <3>1 DEF Total
  <2>5. fate'[i] \in Pending <=> fate[i] \in Pending
    <3>1. CASE Occurs(hand, i) > 0
      BY <1>4, <3>1, InHand DEF Pending
    <3>2. CASE ~(Occurs(hand, i) > 0)
      BY <1>4, <3>2
    <3>. QED  BY <3>1, <3>2
  <2>. QED  BY <2>4, <2>5 DEF Accounted, Total
<1>6. InItsDigest'
  <2>. SUFFICES ASSUME NEW c \in Channel, NEW k \in DOMAIN buffer'[c]
                PROVE  ItsChannel(buffer'[c][k]) = c
    BY DEF InItsDigest
  <2>1. CASE c # C
    BY <1>3, <2>1 DEF InItsDigest
  <2>2. CASE c = C
    <3>1. buffer[C] \in Seq(Item) /\ k \in DOMAIN Append(buffer[C], Mine)
      BY <1>1, <1>2, <1>3, <2>2
    <3>2. \/ k \in DOMAIN buffer[C] /\ Append(buffer[C], Mine)[k] = buffer[C][k]
          \/ Append(buffer[C], Mine)[k] = Mine
      BY <3>1
    <3>. QED  BY <1>1, <1>3, <2>2, <3>2 DEF InItsDigest
  <2>. QED  BY <2>1, <2>2
<1>7. \A i \in Item : fate[i] = "none" => fate'[i] = "none"
  BY <1>4, InHand DEF Pending
<1>. QED  BY <1>5, <1>6, <1>7 DEF Accounted, Total

LEMMA WorkerKept ==
    ASSUME TypeOK, Placed, Kept, WorkerStep
    PROVE  /\ Accounted' /\ InItsDigest'
           /\ \A i \in Item : fate[i] = "none" => fate'[i] = "none"
<1>. Accounted /\ InItsDigest
  BY DEF Kept
<1>1. CASE UNCHANGED <<queue, buffer, hand, fate>>
  BY <1>1 DEF Accounted, InItsDigest
<1>2. CASE SendDigest \/ DigestRaises
  <2>1. PICK f \in {"logged", "lost"} : fate' = Settled(hand, f)
    BY <1>2 DEF SendDigest, DigestRaises
  <2>2. hand' = <<>> /\ UNCHANGED <<queue, buffer>> /\ f \notin Pending
    BY <1>2 DEF SendDigest, DigestRaises, Pending
  <2>3. \A i \in Item : fate'[i] = IF Occurs(hand, i) > 0 THEN f ELSE fate[i]
    <3>1. hand \in Seq(Item)
      BY DEF TypeOK
    <3>2. \A i \in Item : Occurs(hand, i) > 0 <=> \E k \in DOMAIN hand : hand[k] = i
      BY <3>1, OccursSome
    <3>. QED  BY <2>1, <3>2 DEF Settled
  <2>. QED  BY <2>2, <2>3, HandSettled
<1>3. ASSUME NEW f \in {"logged", "lost"}, Finish(f), UNCHANGED <<queue, buffer>>,
             wpc \in {"limit", "send", "backoff"}
      PROVE  /\ Accounted' /\ InItsDigest'
             /\ \A i \in Item : fate[i] = "none" => fate'[i] = "none"
  <2>1. /\ hand' = <<>> /\ f \notin Pending
        /\ \A i \in Item : fate'[i] = IF Occurs(hand, i) > 0 THEN f ELSE fate[i]
    BY <1>3, FinishSettles DEF Pending
  <2>. QED  BY <1>3, <2>1, HandSettled
<1>4. CASE RateLimited \/ Send \/ GiveUp \/ (SendFails /\ Finish("logged"))
  <2>1. /\ Finish("logged") /\ UNCHANGED <<queue, buffer>>
        /\ wpc \in {"limit", "send", "backoff"}
    BY <1>4 DEF RateLimited, Send, GiveUp, SendFails
  <2>. QED  BY <1>3, <2>1
<1>5. CASE SendRaises
  <2>1. Finish("lost") /\ UNCHANGED <<queue, buffer>> /\ wpc \in {"limit", "send", "backoff"}
    BY <1>5 DEF SendRaises
  <2>. QED  BY <1>3, <2>1
<1>6. CASE Hold
  BY <1>6, HoldKept
<1>7. CASE Get
  BY <1>7, GetKept
<1>8. ASSUME NEW c \in Channel, Drain(c)
      PROVE  /\ Accounted' /\ InItsDigest'
             /\ \A i \in Item : fate[i] = "none" => fate'[i] = "none"
  BY <1>8, DrainKept
<1>9. CASE Loop \/ Stopped \/ Empty \/ Allow \/ Retry \/ (\E c \in Channel : NotDue(c))
  <2>1. UNCHANGED <<queue, buffer, hand, fate>>
    BY <1>9 DEF Loop, Stopped, Empty, Allow, Retry, NotDue
  <2>. QED  BY <1>1, <2>1
<1>10. SendFails => (SendFails /\ Finish("logged")) \/ UNCHANGED <<queue, buffer, hand, fate>>
  BY DEF SendFails
<1>. QED  BY <1>1, <1>2, <1>4, <1>5, <1>6, <1>7, <1>8, <1>9, <1>10 DEF WorkerStep

(* What an empty memory may find: nothing it would have to hold.           *)
NothingPending ==
    /\ \A i \in Item : fate[i] \notin Pending
    /\ \A i \in Item : i[1] \in fresh => fate[i] = "none"

LEMMA EmptyKept == EmptyMemory /\ NothingPending => Kept
<1>. SUFFICES ASSUME EmptyMemory, NothingPending PROVE Kept
  OBVIOUS
<1>1. Accounted
  <2>. SUFFICES ASSUME NEW i \in Item
                PROVE  Total(i) = 0
    BY DEF Accounted, Total, NothingPending
  <2>1. queue = <<>> /\ hand = <<>> /\ buffer[ItsChannel(i)] = <<>>
    BY ItemTyped DEF EmptyMemory
  <2>. QED  BY <2>1, OccursEmpty DEF Total
<1>2. InItsDigest
  BY DEF EmptyMemory, InItsDigest
<1>3. Untouched
  BY DEF EmptyMemory, NothingPending, Untouched, Busy
<1>. QED  BY <1>1, <1>2, <1>3 DEF Kept

LEMMA KeptHolds == Spec => [](TypeOK /\ Placed /\ Kept)
<1>1. Init => Kept
  <2>. SUFFICES ASSUME Init PROVE Kept
    OBVIOUS
  <2>1. EmptyMemory
    BY DeliveryAssumption DEF Init, EmptyMemory, Fate
  <2>2. NothingPending
    BY DEF Init, NothingPending, Pending
  <2>. QED  BY <2>1, <2>2, EmptyKept
<1>2. TypeOK /\ Placed /\ Kept /\ [Next]_vars => Kept'
  <2>. SUFFICES ASSUME TypeOK, Placed, Kept, [Next]_vars
                PROVE  Kept'
    OBVIOUS
  <2>0. Accounted /\ InItsDigest /\ Untouched
    BY DEF Kept
  <2>1. ASSUME NEW d \in Dispatcher, DispatchStep(d)
        PROVE  Kept'
    BY <2>1, DispatchKept
  <2>2. CASE WorkerStep
    <3>1. /\ Accounted' /\ InItsDigest'
          /\ \A i \in Item : fate[i] = "none" => fate'[i] = "none"
      BY <2>2, WorkerKept
    <3>2. UNCHANGED <<fresh, stage, event, pos>>
      BY <2>2, WorkerTyped DEF dispatchVars
    <3>3. Untouched'
      BY <2>0, <3>1, <3>2, StaysUntouched
    <3>. QED  BY <3>1, <3>3 DEF Kept
  <2>3. CASE Tick \/ Stop \/ UNCHANGED vars
    <3>1. UNCHANGED <<fresh, stage, event, pos, queue, buffer, hand, fate>>
      BY <2>3 DEF Tick, Stop, vars, dispatchVars, workerVars
    <3>2. Untouched'
      BY <2>0, <3>1, StaysUntouched
    <3>. QED  BY <2>0, <3>1, <3>2 DEF Kept, Accounted, InItsDigest
  <2>4. CASE Restart
    <3>1. EmptyMemory'
      BY <2>4, RestartEmpties
    <3>2. NothingPending'
      BY <2>0, <2>4 DEF Restart, Pending, Untouched, NothingPending
    <3>. QED  BY <3>1, <3>2, EmptyKept, PTL
  <2>. QED  BY <2>1, <2>2, <2>3, <2>4 DEF Next
<1>. QED  BY <1>1, <1>2, TypeCorrect, PTL DEF Spec

(***************************************************************************)
(* Each accepted notification is in the queue, in the digest of its        *)
(* channel or in the worker's hand, exactly once, until its fate is        *)
(* settled, and nowhere after: no order of dispatches, sends, retries,     *)
(* digests, raising senders and restarts handles a notification twice or   *)
(* forgets one (Notifier.dispatch, Worker._loop, handle_one, _flush_one).  *)
(***************************************************************************)
THEOREM AccountedHolds == Spec => []Accounted
<1>1. Kept => Accounted
  BY DEF Kept
<1>. QED  BY <1>1, KeptHolds, PTL

-----------------------------------------------------------------------------
(* What the throttle stands for: _last_sent and the queue                  *)

(* A throttled key was queued as lately as it was recorded, or is about to *)
(* be queued by the dispatcher that recorded it.                           *)
Vouched ==
    \A k \in Keys : Throttle[k[1]] > 0 =>
        \/ queuedFor[k] <= last[k]
        \/ \E o \in Dispatcher : stage[o] = "enqueue" /\ Key(o) = k

(* A record is never much older than what was queued, and a dispatcher     *)
(* that passed the throttle saw a record from before it began.             *)
Timed ==
    /\ \A k \in Keys : last[k] <= queuedFor[k] + 2 * MaxStall
    /\ \A d \in Dispatcher : stage[d] = "enqueue" => last[Key(d)] <= now[d] + MaxStall
    /\ \A d \in Dispatcher : Busy(d) =>
          \A k \in Keys : last[k] <= now[d] + apart[d][k] + 2 * MaxStall
    /\ \A d \in Dispatcher : stage[d] \in {"record", "enqueue"} =>
          Throttle[CurrentRoute(d)] <= apart[d][Key(d)] + 2 * MaxStall

LEMMA AgesTyped ==
    ASSUME TypeOK
    PROVE  /\ MaxStall \in Nat /\ Horizon \in Nat
           /\ \A k \in Keys : /\ last[k] \in Nat /\ last[k] <= Horizon
                              /\ queuedFor[k] \in Nat /\ queuedFor[k] <= Horizon
                              /\ Throttle[k[1]] \in Nat
           /\ \A d \in Dispatcher : now[d] \in Nat /\ now[d] <= MaxStall
           /\ \A d \in Dispatcher : \A k \in Keys : apart[d][k] \in Nat
<1>1. MaxStall \in Nat /\ Horizon \in Nat
  BY DeliveryAssumption
<1>2. \A k \in Keys : Throttle[k[1]] \in Nat
  BY DeliveryAssumption DEF Keys
<1>. QED  BY <1>1, <1>2 DEF TypeOK, Age

(* A dispatcher that keeps its event and its route keeps its key.          *)
LEMMA SameKey ==
    ASSUME NEW d \in Dispatcher, event'[d] = event[d], pos'[d] = pos[d]
    PROVE  Key(d)' = Key(d) /\ CurrentRoute(d)' = CurrentRoute(d)
BY DEF Key, KeyOf, Current, CurrentRoute

LEMMA KeyRoute == \A d \in Dispatcher : Key(d)[1] = CurrentRoute(d)
BY DEF Key, KeyOf, Current

(* What a step of a dispatcher does to the others: nothing.                *)
LEMMA OthersStay ==
    ASSUME TypeOK, NEW d \in Dispatcher, DispatchStep(d), NEW o \in Dispatcher, o # d
    PROVE  /\ stage'[o] = stage[o] /\ now'[o] = now[o] /\ apart'[o] = apart[o]
           /\ Key(o)' = Key(o) /\ CurrentRoute(o)' = CurrentRoute(o)
<1>. USE DEF TypeOK
<1>1. CASE NextRoute(d)
  <2>1. /\ stage'[o] = stage[o] /\ now'[o] = now[o] /\ apart'[o] = apart[o]
        /\ event'[o] = event[o] /\ pos'[o] = pos[o]
    BY <1>1 DEF NextRoute
  <2>. QED  BY <2>1, SameKey
<1>2. CASE Dispatch(d) \/ Acked(d) \/ NotAcked(d) \/ Pass(d) \/ Record(d)
  <2>1. /\ stage'[o] = stage[o] /\ now'[o] = now[o] /\ apart'[o] = apart[o]
        /\ event'[o] = event[o] /\ pos'[o] = pos[o]
    BY <1>2 DEF Dispatch, Acked, NotAcked, Pass, Record
  <2>. QED  BY <2>1, SameKey
<1>. QED  BY <1>1, <1>2 DEF DispatchStep, Skip, Suppress, Enqueue

(* ... and to itself, when it is not at its last step for a route.         *)
LEMMA MovesOn ==
    ASSUME TypeOK, NEW d \in Dispatcher, Busy(d), NextRoute(d)
    PROVE  /\ stage'[d] \in {"route", "idle"}
           /\ stage'[d] = "route" => now'[d] = now[d] /\ apart'[d] = apart[d]
BY DEF TypeOK, NextRoute

LEMMA DispatchVouched ==
    ASSUME TypeOK, Placed, Vouched, NEW d \in Dispatcher, DispatchStep(d)
    PROVE  Vouched'
<1>. SUFFICES ASSUME NEW k \in Keys, Throttle[k[1]] > 0
              PROVE  \/ queuedFor'[k] <= last'[k]
                     \/ \E o \in Dispatcher : stage'[o] = "enqueue" /\ Key(o)' = k
  BY DEF Vouched
<1>0. stage \in [Dispatcher -> Stage] /\ last \in [Keys -> Age] /\ queuedFor \in [Keys -> Age]
  BY DEF TypeOK
<1>1. CASE Record(d) /\ Key(d) = k
  <2>1. stage'[d] = "enqueue" /\ Key(d)' = k
    BY <1>0, <1>1, SameKey DEF Record
  <2>. QED  BY <2>1
<1>2. CASE Enqueue(d) /\ Key(d) = k
  <2>1. queuedFor'[k] = 0 /\ last'[k] = last[k]
    BY <1>0, <1>2, KeyRoute DEF Enqueue
  <2>. QED  BY <2>1, AgesTyped
<1>3. CASE ~(Record(d) /\ Key(d) = k) /\ ~(Enqueue(d) /\ Key(d) = k)
  <2>1. queuedFor'[k] = queuedFor[k] /\ last'[k] = last[k]
    BY <1>0, <1>3 DEF DispatchStep, Dispatch, Acked, NotAcked, Skip, Suppress, Pass, Record,
       Enqueue, ages
  <2>2. ASSUME NEW o \in Dispatcher, stage[o] = "enqueue", Key(o) = k
        PROVE  stage'[o] = "enqueue" /\ Key(o)' = k
    <3>1. o # d
      BY <1>3, <2>2 DEF DispatchStep, Dispatch, Acked, NotAcked, Skip, Suppress, Pass, Record
    <3>. QED  BY <2>2, <3>1, OthersStay
  <2>. QED  BY <2>1, <2>2 DEF Vouched
<1>. QED  BY <1>1, <1>2, <1>3

LEMMA DispatchTimed ==
    ASSUME TypeOK, Placed, Timed, NEW d \in Dispatcher, DispatchStep(d)
    PROVE  Timed'
<1>0. /\ stage \in [Dispatcher -> Stage] /\ last \in [Keys -> Age] /\ queuedFor \in [Keys -> Age]
      /\ apart \in [Dispatcher -> [Keys -> Age]] /\ now \in [Dispatcher -> 0..MaxStall]
  BY DEF TypeOK
<1>1. CASE Record(d)
  <2>1. Busy(d) /\ Key(d) \in Keys /\ stage[d] = "record"
    BY <1>1, CurrentTyped DEF Record, Busy
  <2>2. /\ last' = [last EXCEPT ![Key(d)] = now[d]] /\ UNCHANGED <<queuedFor, now, apart>>
        /\ stage' = [stage EXCEPT ![d] = "enqueue"]
    BY <1>1 DEF Record, ages
  <2>3. \A o \in Dispatcher : Key(o)' = Key(o) /\ CurrentRoute(o)' = CurrentRoute(o)
    BY <1>1, SameKey DEF Record
  <2>4. \A o \in Dispatcher : Busy(o)' <=> Busy(o)
    BY <1>0, <2>1, <2>2 DEF Busy
  <2>5. \A k \in Keys : last'[k] = last[k] \/ last'[k] = now[d]
    BY <1>0, <2>2
  <2>6. \A k \in Keys : last'[k] <= queuedFor'[k] + 2 * MaxStall
    <3>. SUFFICES ASSUME NEW k \in Keys PROVE last'[k] <= queuedFor[k] + 2 * MaxStall
      BY <2>2
    <3>1. last[k] <= queuedFor[k] + 2 * MaxStall
      BY DEF Timed
    <3>. QED  BY <2>5, <3>1, AgesTyped
  <2>7. ASSUME NEW o \in Dispatcher, stage'[o] = "enqueue"
        PROVE  last'[Key(o)'] <= now'[o] + MaxStall
    <3>1. stage[o] = "enqueue" \/ o = d
      BY <1>0, <2>2, <2>7
    <3>2. Busy(o) /\ Key(o) \in Keys
      BY <2>1, <3>1, CurrentTyped DEF Busy
    <3>3. CASE last'[Key(o)] = now[d]
      BY <2>2, <2>3, <3>3, AgesTyped
    <3>4. CASE o # d /\ last'[Key(o)] = last[Key(o)]
      <4>1. last[Key(o)] <= now[o] + MaxStall
        BY <3>1, <3>4 DEF Timed
      <4>. QED  BY <2>2, <2>3, <3>4, <4>1
    <3>5. o = d => last'[Key(o)] = now[d]
      BY <1>0, <2>1, <2>2
    <3>. QED  BY <2>5, <3>2, <3>3, <3>4, <3>5
  <2>8. ASSUME NEW o \in Dispatcher, Busy(o)', NEW k \in Keys
        PROVE  last'[k] <= now'[o] + apart'[o][k] + 2 * MaxStall
    <3>1. last[k] <= now[o] + apart[o][k] + 2 * MaxStall
      BY <2>4, <2>8 DEF Timed
    <3>. QED  BY <2>2, <2>5, <3>1, AgesTyped
  <2>9. ASSUME NEW o \in Dispatcher, stage'[o] \in {"record", "enqueue"}
        PROVE  Throttle[CurrentRoute(o)'] <= apart'[o][Key(o)'] + 2 * MaxStall
    <3>1. stage[o] \in {"record", "enqueue"}
      BY <1>0, <2>1, <2>2, <2>9
    <3>. QED  BY <2>2, <2>3, <3>1 DEF Timed
  <2>. QED  BY <2>6, <2>7, <2>8, <2>9 DEF Timed
<1>2. CASE ~Record(d)
  <2>1. last' = last
    BY <1>2 DEF DispatchStep, Dispatch, Acked, NotAcked, Skip, Suppress, Pass, Enqueue
  <2>2. \A k \in Keys : last'[k] <= queuedFor'[k] + 2 * MaxStall
    <3>1. CASE queuedFor' = queuedFor
      BY <2>1, <3>1 DEF Timed
    <3>2. CASE Enqueue(d)
      <4>1. Busy(d) /\ Key(d) \in Keys
        BY <3>2, CurrentTyped DEF Enqueue, Busy
      <4>2. last[Key(d)] <= now[d] + MaxStall
        BY <3>2 DEF Enqueue, Timed
      <4>3. queuedFor'[Key(d)] \in {0, Horizon}
        BY <1>0, <3>2, <4>1 DEF Enqueue, Never
      <4>4. \A k \in Keys : k # Key(d) => queuedFor'[k] = queuedFor[k]
        BY <1>0, <3>2 DEF Enqueue
      <4>5. last'[Key(d)] <= queuedFor'[Key(d)] + 2 * MaxStall
        <5>1. last[Key(d)] \in Nat /\ last[Key(d)] <= Horizon /\ now[d] \in Nat
              /\ now[d] <= MaxStall /\ MaxStall \in Nat /\ Horizon \in Nat
          BY <4>1, AgesTyped
        <5>. QED  BY <2>1, <4>2, <4>3, <5>1
      <4>6. \A k \in Keys : k # Key(d) => last'[k] <= queuedFor'[k] + 2 * MaxStall
        BY <2>1, <4>4 DEF Timed
      <4>. QED  BY <4>5, <4>6
    <3>. QED  BY <3>1, <3>2 DEF DispatchStep, Dispatch, Acked, NotAcked, Skip, Suppress, Pass,
                  Record, ages
  <2>3. ASSUME NEW o \in Dispatcher, o # d
        PROVE  /\ stage'[o] = "enqueue" => last'[Key(o)'] <= now'[o] + MaxStall
               /\ Busy(o)' =>
                     \A k \in Keys : last'[k] <= now'[o] + apart'[o][k] + 2 * MaxStall
               /\ stage'[o] \in {"record", "enqueue"} =>
                     Throttle[CurrentRoute(o)'] <= apart'[o][Key(o)'] + 2 * MaxStall
    <3>1. /\ stage'[o] = stage[o] /\ now'[o] = now[o] /\ apart'[o] = apart[o]
          /\ Key(o)' = Key(o) /\ CurrentRoute(o)' = CurrentRoute(o)
      BY <2>3, OthersStay
    <3>. QED  BY <2>1, <3>1 DEF Timed, Busy
  <2>4. stage'[d] # "enqueue"
    BY <1>0, <1>2 DEF DispatchStep, Dispatch, Acked, NotAcked, Skip, Suppress, Pass, Enqueue,
       NextRoute
  <2>5. ASSUME Busy(d)', NEW k \in Keys
        PROVE  last'[k] <= now'[d] + apart'[d][k] + 2 * MaxStall
    <3>1. CASE Dispatch(d)
      <4>1. now'[d] = 0 /\ apart'[d] = queuedFor
        BY <1>0, <3>1 DEF Dispatch
      <4>2. last[k] <= queuedFor[k] + 2 * MaxStall
        BY DEF Timed
      <4>. QED  BY <2>1, <4>1, <4>2, AgesTyped
    <3>2. CASE ~Dispatch(d)
      <4>1. Busy(d) /\ now'[d] = now[d] /\ apart'[d] = apart[d]
        BY <1>0, <1>2, <2>5, <3>2 DEF DispatchStep, Acked, NotAcked, Skip, Suppress, Pass,
           Enqueue, NextRoute, Busy
      <4>. QED  BY <2>1, <4>1 DEF Timed
    <3>. QED  BY <3>1, <3>2
  <2>6. ASSUME stage'[d] = "record"
        PROVE  Throttle[CurrentRoute(d)'] <= apart'[d][Key(d)'] + 2 * MaxStall
    <3>1. Pass(d)
      BY <1>0, <1>2, <2>6 DEF DispatchStep, Dispatch, Acked, NotAcked, Skip, Suppress, Pass,
         Enqueue, NextRoute
    <3>2. /\ Busy(d) /\ ~Recent(d) /\ apart' = apart
          /\ Key(d)' = Key(d) /\ CurrentRoute(d)' = CurrentRoute(d)
      BY <3>1, SameKey DEF Pass, Busy
    <3>3. Key(d) \in Keys /\ CurrentRoute(d) \in Route
      BY <3>2, CurrentTyped
    <3>. DEFINE w == Throttle[CurrentRoute(d)]
                x == apart[d][Key(d)]
    <3>4. /\ w \in Nat /\ x \in Nat /\ now[d] \in Nat
          /\ last[Key(d)] \in Nat /\ MaxStall \in Nat
      BY <3>3, AgesTyped, DeliveryAssumption
    <3>5. last[Key(d)] <= now[d] + x + 2 * MaxStall
      BY <3>2, <3>3 DEF Timed
    <3>6. w = 0 \/ last[Key(d)] - now[d] >= w
      BY <3>2, <3>4 DEF Recent
    <3>7. w <= x + 2 * MaxStall
      <4>. HIDE DEF w, x
      <4>. QED  BY <3>4, <3>5, <3>6
    <3>. QED  BY <3>2, <3>7
  <2>. QED  BY <2>2, <2>3, <2>4, <2>5, <2>6 DEF Timed
<1>. QED  BY <1>1, <1>2

(* A tick keeps the order of ages.                                         *)
LEMMA OlderMonotone ==
    ASSUME NEW a \in Nat, NEW b \in Nat, NEW cap \in Nat, a <= b
    PROVE  Older(a, cap) <= Older(b, cap)
BY DEF Older

LEMMA TickThrottle ==
    ASSUME TypeOK, Placed, Vouched, Timed, Tick
    PROVE  Vouched' /\ Timed'
<1>1. /\ UNCHANGED <<stage, event, pos, apart>>
      /\ \A d \in Dispatcher : Busy(d) => now'[d] = now[d] + 1
      /\ \A k \in Keys : last'[k] = Older(last[k], Horizon)
      /\ \A k \in Keys : queuedFor'[k] = Older(queuedFor[k], Horizon)
  BY DEF Tick, Busy
<1>2. \A d \in Dispatcher : Key(d)' = Key(d) /\ CurrentRoute(d)' = CurrentRoute(d)
  BY <1>1, SameKey
<1>3. Vouched'
  <2>1. \A k \in Keys : queuedFor[k] <= last[k] => queuedFor'[k] <= last'[k]
    BY <1>1, AgesTyped, OlderMonotone
  <2>. QED  BY <1>1, <1>2, <2>1 DEF Vouched
<1>4. \A k \in Keys : last'[k] \in Nat /\ last'[k] <= last[k] + 1
  <2>. SUFFICES ASSUME NEW k \in Keys PROVE last'[k] \in Nat /\ last'[k] <= last[k] + 1
    OBVIOUS
  <2>1. last[k] \in Nat /\ Horizon \in Nat /\ last[k] <= Horizon
    BY AgesTyped
  <2>. QED  BY <1>1, <2>1 DEF Older
<1>5. ASSUME NEW k \in Keys
      PROVE  last'[k] <= queuedFor'[k] + 2 * MaxStall
  <2>1. /\ last[k] \in Nat /\ Horizon \in Nat /\ last[k] <= Horizon
        /\ queuedFor[k] \in Nat /\ queuedFor[k] <= Horizon /\ MaxStall \in Nat
    BY AgesTyped
  <2>2. last[k] <= queuedFor[k] + 2 * MaxStall
    BY DEF Timed
  <2>. QED  BY <1>1, <2>1, <2>2 DEF Older
<1>6. ASSUME NEW d \in Dispatcher, stage[d] = "enqueue"
      PROVE  last'[Key(d)] <= now'[d] + MaxStall
  <2>1. Busy(d) /\ Key(d) \in Keys
    BY <1>6, CurrentTyped DEF Busy
  <2>2. last[Key(d)] <= now[d] + MaxStall /\ last[Key(d)] \in Nat /\ now[d] \in Nat
        /\ MaxStall \in Nat
    BY <1>6, <2>1, AgesTyped DEF Timed
  <2>3. last'[Key(d)] <= last[Key(d)] + 1 /\ last'[Key(d)] \in Nat /\ now'[d] = now[d] + 1
    BY <1>1, <1>4, <2>1
  <2>. QED  BY <2>2, <2>3
<1>7. ASSUME NEW d \in Dispatcher, Busy(d), NEW k \in Keys
      PROVE  last'[k] <= now'[d] + apart[d][k] + 2 * MaxStall
  <2>1. last[k] <= now[d] + apart[d][k] + 2 * MaxStall
    BY <1>7 DEF Timed
  <2>2. last'[k] <= last[k] + 1 /\ last'[k] \in Nat /\ now'[d] = now[d] + 1
    BY <1>1, <1>4, <1>7
  <2>3. last[k] \in Nat /\ now[d] \in Nat /\ apart[d][k] \in Nat /\ MaxStall \in Nat
    BY AgesTyped
  <2>. QED  BY <2>1, <2>2, <2>3
<1>8. Timed'
  BY <1>1, <1>2, <1>5, <1>6, <1>7 DEF Timed, Busy
<1>. QED  BY <1>3, <1>8

LEMMA EmptyThrottle == EmptyMemory => Vouched /\ Timed
<1>. SUFFICES ASSUME EmptyMemory PROVE Vouched /\ Timed
  OBVIOUS
<1>1. \A k \in Keys : last[k] = Horizon /\ queuedFor[k] = Horizon
  BY DEF EmptyMemory, Never
<1>2. \A d \in Dispatcher : stage[d] = "idle"
  BY DEF EmptyMemory
<1>3. Horizon \in Nat /\ MaxStall \in Nat
  BY DeliveryAssumption
<1>. QED  BY <1>1, <1>2, <1>3 DEF Vouched, Timed, Busy

LEMMA ThrottleHolds == Spec => [](TypeOK /\ Placed /\ Vouched /\ Timed)
<1>1. Init => Vouched /\ Timed
  <2>1. Init => EmptyMemory
    BY DeliveryAssumption DEF Init, EmptyMemory, Fate
  <2>. QED  BY <2>1, EmptyThrottle
<1>2. TypeOK /\ Placed /\ Vouched /\ Timed /\ [Next]_vars => (Vouched /\ Timed)'
  <2>. SUFFICES ASSUME TypeOK, Placed, Vouched, Timed, [Next]_vars
                PROVE  (Vouched /\ Timed)'
    OBVIOUS
  <2>1. ASSUME NEW d \in Dispatcher, DispatchStep(d)
        PROVE  (Vouched /\ Timed)'
    BY <2>1, DispatchVouched, DispatchTimed
  <2>2. CASE WorkerStep \/ Stop \/ UNCHANGED vars
    <3>1. UNCHANGED <<stage, event, pos, now, apart, last>>
      BY <2>2, WorkerTyped DEF Stop, vars, dispatchVars
    <3>2. queuedFor' = queuedFor
      BY <2>2 DEF WorkerStep, Loop, Stopped, SendDigest, DigestRaises, Get, Empty, RateLimited,
         Hold, Allow, Send, SendFails, SendRaises, Retry, GiveUp, NotDue, Drain, Stop, vars, ages
    <3>3. \A d \in Dispatcher : Key(d)' = Key(d) /\ CurrentRoute(d)' = CurrentRoute(d)
      BY <3>1, SameKey
    <3>. QED  BY <3>1, <3>2, <3>3 DEF Vouched, Timed, Busy
  <2>3. CASE Tick
    BY <2>3, TickThrottle
  <2>4. CASE Restart
    <3>1. EmptyMemory'
      BY <2>4, RestartEmpties
    <3>. QED  BY <3>1, EmptyThrottle, PTL
  <2>. QED  BY <2>1, <2>2, <2>3, <2>4 DEF Next
<1>. QED  BY <1>1, <1>2, TypeCorrect, PTL DEF Spec

(***************************************************************************)
(* A notification is only suppressed for one with the same key that was    *)
(* queued less than the window before this dispatch began, or that another *)
(* thread is about to queue: whatever threads race on _last_sent, no burst *)
(* is silent from its start (the throttle of Notifier.dispatch).           *)
(***************************************************************************)
THEOREM SuppressedHolds == Spec => SuppressedForQueued
<1>1. ASSUME TypeOK, Placed, Vouched, NEW d \in Dispatcher, Suppress(d)
      PROVE  \/ \E o \in Dispatcher \ {d} : stage[o] = "enqueue" /\ Key(o) = Key(d)
             \/ queuedFor[Key(d)] - now[d] < Throttle[CurrentRoute(d)]
  <2>1. Key(d) \in Keys /\ CurrentRoute(d) \in Route /\ stage[d] = "route"
    BY <1>1, CurrentTyped DEF Suppress, Busy
  <2>. DEFINE k == Key(d)
              w == Throttle[CurrentRoute(d)]
  <2>2. w > 0 /\ last[k] - now[d] < w /\ Throttle[k[1]] = w
    BY <1>1, KeyRoute DEF Suppress, Recent
  <2>3. CASE queuedFor[k] <= last[k]
    <3>1. last[k] \in Nat /\ queuedFor[k] \in Nat /\ now[d] \in Nat /\ w \in Nat
      BY <1>1, <2>1, AgesTyped, DeliveryAssumption
    <3>. HIDE DEF k, w
    <3>2. queuedFor[k] - now[d] < w
      BY <2>2, <2>3, <3>1
    <3>. QED  BY <3>2 DEF k, w
  <2>4. CASE \E o \in Dispatcher : stage[o] = "enqueue" /\ Key(o) = k
    BY <2>1, <2>4
  <2>. QED  BY <1>1, <2>1, <2>2, <2>3, <2>4 DEF Vouched
<1>2. TypeOK /\ Placed /\ Vouched =>
         \A d \in Dispatcher : Suppress(d) =>
             \/ \E o \in Dispatcher \ {d} : stage[o] = "enqueue" /\ Key(o) = Key(d)
             \/ queuedFor[Key(d)] - now[d] < Throttle[CurrentRoute(d)]
  BY <1>1
<1>. QED  BY <1>2, ThrottleHolds, PTL DEF SuppressedForQueued

(***************************************************************************)
(* Two notifications with one key are queued at least the window apart,    *)
(* less what two stalled dispatches can blur, however many threads race in *)
(* between (the throttle of Notifier.dispatch and dispatch_direct).        *)
(***************************************************************************)
THEOREM SpacedHolds == Spec => Spaced
<1>1. ASSUME TypeOK, Placed, Timed, NEW d \in Dispatcher, Enqueue(d)
      PROVE  apart[d][Key(d)] + 2 * MaxStall >= Throttle[CurrentRoute(d)]
  <2>1. Key(d) \in Keys /\ CurrentRoute(d) \in Route /\ stage[d] = "enqueue"
    BY <1>1, CurrentTyped DEF Enqueue, Busy
  <2>2. Throttle[CurrentRoute(d)] <= apart[d][Key(d)] + 2 * MaxStall
    BY <1>1, <2>1 DEF Timed
  <2>3. Throttle[CurrentRoute(d)] \in Nat /\ apart[d][Key(d)] \in Nat /\ MaxStall \in Nat
    BY <1>1, <2>1, AgesTyped, DeliveryAssumption
  <2>. QED  BY <2>2, <2>3
<1>2. TypeOK /\ Placed /\ Timed =>
         \A d \in Dispatcher : Enqueue(d) =>
             apart[d][Key(d)] + 2 * MaxStall >= Throttle[CurrentRoute(d)]
  BY <1>1
<1>. QED  BY <1>2, ThrottleHolds, PTL DEF Spaced

-----------------------------------------------------------------------------
(* What waits in a digest                                                  *)

(* A digest that holds something is timed, nothing in it is older than its *)
(* timer, and the channels the worker has yet to look at have a digest.    *)
Held ==
    /\ wpc \notin {"flush", "digest", "dead"} => todo = {}
    /\ \A c \in todo : buffer[c] # <<>>
    /\ \A c \in Channel : buffer[c] # <<>> =>
          /\ firstAt[c] # None
          /\ \A k \in DOMAIN buffer[c] : heldFor[buffer[c][k]] <= firstAt[c]

LEMMA BufferTyped ==
    ASSUME TypeOK, NEW c \in Channel, buffer[c] # <<>>
    PROVE  /\ \A k \in DOMAIN buffer[c] : /\ buffer[c][k] \in Item
                                          /\ heldFor[buffer[c][k]] \in Nat
           /\ Head(buffer[c]) \in Item
           /\ Window(Head(buffer[c])) \in Nat
           /\ firstAt[c] # None => firstAt[c] \in Nat
<1>1. buffer[c] \in Seq(Item) /\ firstAt[c] \in Age \cup {None} /\ heldFor \in [Item -> Age]
  BY DEF TypeOK
<1>2. Head(buffer[c]) \in Item /\ \A k \in DOMAIN buffer[c] : buffer[c][k] \in Item
  BY <1>1
<1>3. Window(Head(buffer[c])) \in Nat
  BY <1>2, ItemTyped DEF Age
<1>. QED  BY <1>1, <1>2, <1>3 DEF Age

LEMMA HoldHeld ==
    ASSUME TypeOK, Placed, Held, Hold
    PROVE  Held'
<1>1. Mine \in Item /\ C \in Channel /\ wpc = "limit"
  BY MineTyped DEF Hold
<1>2. /\ buffer \in [Channel -> Seq(Item)] /\ firstAt \in [Channel -> Age \cup {None}]
      /\ heldFor \in [Item -> Age]
  BY DEF TypeOK
<1>3. /\ buffer'[C] = Append(buffer[C], Mine)
      /\ firstAt'[C] = (IF firstAt[C] = None THEN 0 ELSE firstAt[C])
      /\ \A c \in Channel : c # C => buffer'[c] = buffer[c] /\ firstAt'[c] = firstAt[c]
  BY <1>1, <1>2 DEF Hold
<1>4. \A i \in Item : heldFor'[i] = IF i = Mine THEN 0 ELSE heldFor[i]
  BY <1>1, <1>2 DEF Hold
<1>5. todo' = {}
  BY <1>1 DEF Hold, Held
<1>6. ASSUME NEW c \in Channel, buffer[c] # <<>>, NEW k \in DOMAIN buffer[c]
      PROVE  heldFor'[buffer[c][k]] <= firstAt[c]
  <2>1. /\ buffer[c][k] \in Item /\ heldFor[buffer[c][k]] \in Nat /\ firstAt[c] \in Nat
        /\ heldFor[buffer[c][k]] <= firstAt[c]
    BY <1>6, BufferTyped DEF Held
  <2>. QED  BY <1>4, <2>1
<1>7. ASSUME NEW c \in Channel, c # C, buffer'[c] # <<>>
      PROVE  /\ firstAt'[c] # None
             /\ \A k \in DOMAIN buffer'[c] : heldFor'[buffer'[c][k]] <= firstAt'[c]
  BY <1>3, <1>6, <1>7 DEF Held
<1>8. /\ firstAt'[C] # None
      /\ \A k \in DOMAIN buffer'[C] : heldFor'[buffer'[C][k]] <= firstAt'[C]
  <2>1. firstAt'[C] # None /\ firstAt'[C] >= 0
    BY <1>1, <1>2, <1>3 DEF None, Age
  <2>2. ASSUME NEW k \in DOMAIN buffer'[C]
        PROVE  heldFor'[buffer'[C][k]] <= firstAt'[C]
    <3>1. buffer[C] \in Seq(Item) /\ k \in DOMAIN Append(buffer[C], Mine)
      BY <1>1, <1>2, <1>3, <2>2
    <3>2. \/ k \in DOMAIN buffer[C] /\ Append(buffer[C], Mine)[k] = buffer[C][k]
          \/ Append(buffer[C], Mine)[k] = Mine
      BY <1>1, <3>1
    <3>3. CASE k \in DOMAIN buffer[C] /\ Append(buffer[C], Mine)[k] = buffer[C][k]
      <4>1. buffer[C] # <<>>
        BY <3>1, <3>3
      <4>2. firstAt'[C] = firstAt[C]
        BY <1>1, <1>3, <4>1 DEF Held
      <4>. QED  BY <1>1, <1>3, <1>6, <3>3, <4>1, <4>2
    <3>4. CASE Append(buffer[C], Mine)[k] = Mine
      BY <1>1, <1>3, <1>4, <2>1, <3>4
    <3>. QED  BY <3>2, <3>3, <3>4
  <2>. QED  BY <2>1, <2>2
<1>. QED  BY <1>5, <1>7, <1>8 DEF Held

LEMMA WorkerHeld ==
    ASSUME TypeOK, Placed, Held, WorkerStep
    PROVE  Held'
<1>0. /\ buffer \in [Channel -> Seq(Item)] /\ firstAt \in [Channel -> Age \cup {None}]
      /\ todo \subseteq Channel
  BY DEF TypeOK
<1>1. CASE Loop
  BY <1>1 DEF Loop, Held, ages
<1>2. CASE Hold
  BY <1>2, HoldHeld
<1>3. ASSUME NEW c \in Channel, NotDue(c) PROVE Held'
  BY <1>3 DEF NotDue, Held, ages
<1>4. ASSUME NEW c \in Channel, Drain(c) PROVE Held'
  <2>1. /\ buffer'[c] = <<>> /\ todo' = todo \ {c} /\ heldFor' = heldFor /\ wpc' = "digest"
        /\ \A x \in Channel : x # c => buffer'[x] = buffer[x] /\ firstAt'[x] = firstAt[x]
    BY <1>0, <1>4 DEF Drain, ages
  <2>. QED  BY <1>0, <2>1 DEF Held
<1>5. CASE UNCHANGED <<todo, buffer, firstAt, heldFor>>
           /\ (wpc' \in {"flush", "digest", "dead"} \/ todo = {})
  BY <1>5 DEF Held
<1>6. CASE SendDigest \/ DigestRaises \/ Stopped
  BY <1>5, <1>6 DEF SendDigest, DigestRaises, Stopped, ages
<1>7. CASE Get \/ Empty
  BY <1>5, <1>7 DEF Get, Empty, ages
<1>8. CASE RateLimited \/ Allow \/ Send \/ SendFails \/ SendRaises \/ Retry \/ GiveUp
  <2>1. UNCHANGED <<todo, buffer, firstAt, heldFor>> /\ wpc \in {"limit", "send", "backoff"}
    BY <1>8 DEF RateLimited, Allow, Send, SendFails, SendRaises, Retry, GiveUp, ages
  <2>2. todo = {}
    BY <2>1 DEF Held
  <2>. QED  BY <1>5, <2>1, <2>2
<1>. QED  BY <1>1, <1>2, <1>3, <1>4, <1>6, <1>7, <1>8 DEF WorkerStep

LEMMA TickHeld ==
    ASSUME TypeOK, Placed, InItsDigest, Held, Tick
    PROVE  Held'
<1>1. UNCHANGED <<wpc, todo, buffer>>
  BY DEF Tick
<1>2. ASSUME NEW c \in Channel, buffer[c] # <<>>
      PROVE  /\ firstAt'[c] # None
             /\ \A k \in DOMAIN buffer[c] : heldFor'[buffer[c][k]] <= firstAt'[c]
  <2>. DEFINE w == Window(Head(buffer[c]))
  <2>1. firstAt[c] # None /\ firstAt[c] \in Nat /\ w \in Nat
    BY <1>2, BufferTyped DEF Held
  <2>2. firstAt'[c] = Older(firstAt[c], w)
    BY <2>1 DEF Tick
  <2>3. Older(firstAt[c], w) \in Nat
    <3>. HIDE DEF w
    <3>. QED  BY <2>1 DEF Older
  <2>4. ASSUME NEW k \in DOMAIN buffer[c]
        PROVE  heldFor'[buffer[c][k]] <= Older(firstAt[c], w)
    <3>. DEFINE i == buffer[c][k]
    <3>1. i \in Item /\ ItsChannel(i) = c /\ heldFor[i] \in Nat /\ heldFor[i] <= firstAt[c]
      BY <1>2, BufferTyped DEF InItsDigest, Held
    <3>2. heldFor'[i] \in {0, Older(heldFor[i], w)}
      BY <3>1 DEF Tick
    <3>. HIDE DEF i, w
    <3>3. Older(heldFor[i], w) <= Older(firstAt[c], w)
      BY <2>1, <3>1, OlderMonotone
    <3>4. heldFor'[i] <= Older(firstAt[c], w)
      BY <2>3, <3>2, <3>3
    <3>. QED  BY <3>4 DEF i
  <2>. QED  BY <2>2, <2>3, <2>4 DEF None
<1>. QED  BY <1>1, <1>2 DEF Held

LEMMA HeldHolds == Spec => [](TypeOK /\ Placed /\ Held)
<1>1. Init => Held
  BY DEF Init, Held
<1>2. TypeOK /\ Placed /\ Kept /\ Held /\ [Next]_vars => Held'
  <2>. SUFFICES ASSUME TypeOK, Placed, InItsDigest, Held, [Next]_vars
                PROVE  Held'
    BY DEF Kept
  <2>1. ASSUME NEW d \in Dispatcher, DispatchStep(d)
        PROVE  Held'
    <3>1. UNCHANGED <<wpc, todo, buffer, firstAt, heldFor>>
      BY <2>1 DEF DispatchStep, Dispatch, Acked, NotAcked, Skip, Suppress, Pass, Record,
         Enqueue, workerVars, ages
    <3>. QED  BY <3>1 DEF Held
  <2>2. CASE WorkerStep
    BY <2>2, WorkerHeld
  <2>3. CASE Tick
    BY <2>3, TickHeld
  <2>4. CASE Restart
    BY <2>4 DEF Restart, Held
  <2>5. CASE Stop \/ UNCHANGED vars
    <3>1. UNCHANGED <<wpc, todo, buffer, firstAt, heldFor>>
      BY <2>5 DEF Stop, vars, workerVars, ages
    <3>. QED  BY <3>1 DEF Held
  <2>. QED  BY <2>1, <2>2, <2>3, <2>4, <2>5 DEF Next
<1>. QED  BY <1>1, <1>2, KeptHolds, PTL DEF Spec

(***************************************************************************)
(* A digest the worker leaves in its buffer holds nothing that has waited  *)
(* for the window of the first one: notifications that join do not put it  *)
(* off, and a digest that was drained or lost with the process leaves no   *)
(* timer behind (_DigestBuffer.add, due and drain, _flush_digests_if_due). *)
(***************************************************************************)
THEOREM DigestHolds == Spec => DigestOnTime
<1>1. ASSUME TypeOK, Placed, Held, [Next]_vars,
             NEW c \in Channel, c \in todo, c \notin todo', wpc' = "flush",
             NEW k \in DOMAIN buffer[c]
      PROVE  heldFor[buffer[c][k]] < Window(Head(buffer[c]))
  <2>1. wpc \in {"flush", "digest", "dead"} /\ buffer[c] # <<>>
    BY <1>1 DEF Held
  <2>2. todo' # todo /\ wpc' # "top" /\ wpc' # "digest"
    BY <1>1
  <2>3. PICK x \in Channel : NotDue(x)
    <3>1. UNCHANGED vars => todo' = todo
      BY DEF vars, workerVars
    <3>2. \A d \in Dispatcher : DispatchStep(d) => todo' = todo
      BY DEF DispatchStep, Dispatch, Acked, NotAcked, Skip, Suppress, Pass, Record, Enqueue,
         workerVars
    <3>3. Tick \/ Stop => todo' = todo
      BY DEF Tick, Stop, workerVars
    <3>4. Restart => wpc' = "top"
      BY DEF Restart
    <3>5. WorkerStep => \/ todo' = todo \/ wpc = "top" \/ wpc' = "digest"
                        \/ \E x \in Channel : NotDue(x)
      BY DEF WorkerStep, Loop, Stopped, SendDigest, DigestRaises, Get, Empty, RateLimited, Hold,
         Allow, Send, SendFails, SendRaises, Retry, GiveUp, Drain
    <3>. QED  BY <1>1, <2>1, <2>2, <3>1, <3>2, <3>3, <3>4, <3>5 DEF Next
  <2>4. x = c
    BY <1>1, <2>3 DEF NotDue
  <2>5. firstAt[c] # None /\ heldFor[buffer[c][k]] <= firstAt[c]
    BY <1>1, <2>1 DEF Held
  <2>6. /\ firstAt[c] \in Nat /\ heldFor[buffer[c][k]] \in Nat
        /\ Window(Head(buffer[c])) \in Nat
    BY <1>1, <2>1, <2>5, BufferTyped
  <2>7. ~(firstAt[c] >= Window(Head(buffer[c])))
    BY <2>3, <2>4, <2>5 DEF NotDue, Due, Window
  <2>. QED  BY <2>5, <2>6, <2>7
<1>2. TypeOK /\ Placed /\ Held /\ [Next]_vars =>
         \A c \in Channel :
            (c \in todo /\ c \notin todo' /\ wpc' = "flush") =>
                \A k \in DOMAIN buffer[c] : heldFor[buffer[c][k]] < Window(Head(buffer[c]))
  BY <1>1
<1>. QED  BY <1>2, HeldHolds, PTL DEF Spec, DigestOnTime
=============================================================================
