----------------------------- MODULE NoteSenders -----------------------------
(***************************************************************************)
(* What the other end of a channel gets and what is logged of it: the      *)
(* senders of notify/channels.py, under the worker, its digests and the    *)
(* test buttons.  NotifyDelivery has the queue, the limits and the threads *)
(* and takes the answer of a sender as it comes; here is where it comes    *)
(* from.  One channel, whose configuration nobody touches meanwhile.       *)
(***************************************************************************)
EXTENDS FiniteSets, Naturals

CONSTANTS
    Note,      \* notifications for the channel
    Recipient, \* who reads it: the addresses of a mail, or the one room
    Retries,   \* retries of the channel
    MaxClosed  \* bound: incidents that are resolved in PagerDuty

ASSUME SendersAssumption == Note # {} /\ Recipient # {} /\ Retries \in Nat /\ MaxClosed \in Nat

VARIABLES
    channel,   \* its kind and how it is configured
    noteOf,    \* who sends it, and the dedup_fingerprint of its event
    noteFate,  \* "waiting", "trying", or what is logged or answered
    tries,     \* attempts that were made
    reached,   \* times each recipient got it
    unheard,   \* attempts that arrived and whose answer did not
    incidents, \* PagerDuty: open incidents, by dedup_key
    openedFor, \* PagerDuty: incidents that a notification opened
    closed     \* PagerDuty: incidents resolved so far

senderVars == <<channel, noteOf, noteFate, tries, reached, unheard,
                incidents, openedFor, closed>>

-----------------------------------------------------------------------------
(* Slack, Teams, Discord and web hooks post the body to a URL.  "other" is *)
(* a type without a sender, "relay" an e-mail provider that is unknown.    *)
ChannelKinds  == {"post", "pager", "ses", "smtp", "relay", "other"}
Setups == {"complete", "no target", "no credentials", "malformed"}

(* An event that repeats has its fingerprint; so have all digests, whose   *)
(* event is made of the same words, and all tests.                         *)
Sendings == [from : {"worker"}, print : {"x", "y"}] \cup [from : {"digest", "test"}, print : {""}]
KeyPerAttempt(n) == <<n, tries[n]>>
DedupKey(n) == IF noteOf[n].from = "worker" THEN noteOf[n].print ELSE noteOf[n].from

(* What a sender finds wrong before it calls out.  Not in a try: the SMTP   *)
(* port is made a number before the host and the credentials are looked    *)
(* at, and _post_json makes the request, of a URL that may have no scheme. *)
(* PagerDuty's URL is written in the code.                                 *)
Raises  == channel.kind \in {"smtp", "post"} /\ channel.setup = "malformed"
Refuses == \/ channel.kind \in {"relay", "other"}
           \/ channel.setup = "no target"
           \/ channel.kind = "smtp" /\ channel.setup = "no credentials"

(* The call: posted, or the connection fails, or the answer is lost.       *)
(* sendmail raises only if every recipient was refused.                    *)
CallAnswers == {"accepted", "refused", "unheard"} \cup (IF channel.kind = "smtp" THEN {"some refused"} ELSE {})
AnsweredIfRaised(a) == TRUE
Answered(a) == a \in {"accepted", "some refused"}

(* Who a call reaches.                                                     *)
Reach(a) ==
    CASE a \in {"accepted", "unheard"} -> {Recipient}
      [] a = "refused"                 -> {{}}
      [] a = "some refused"            -> (SUBSET Recipient) \ {{}, Recipient}

-----------------------------------------------------------------------------
SendersInit ==
    /\ channel \in [kind : ChannelKinds, setup : Setups]
    /\ noteOf \in [Note -> Sendings]
    /\ noteFate = [n \in Note |-> "waiting"]
    /\ tries = [n \in Note |-> 0]
    /\ reached = [n \in Note |-> [r \in Recipient |-> 0]]
    /\ unheard = [n \in Note |-> 0]
    /\ incidents = {} /\ closed = 0
    /\ openedFor = [n \in Note |-> 0]

(* The worker has one notification in hand, tests are requests of their    *)
(* own.  Digests and tests are tried once.                                 *)
BeginsNote(n) ==
    /\ noteFate[n] = "waiting"
    /\ noteOf[n].from = "test"
       \/ \A m \in Note : noteFate[m] = "trying" => noteOf[m].from = "test"
    /\ noteFate' = [noteFate EXCEPT ![n] = "trying"]
    /\ UNCHANGED <<channel, noteOf, tries, reached, unheard, incidents, openedFor, closed>>

LastTry(n) == noteOf[n].from # "worker" \/ tries[n] = Retries

(* A digest for a type without a sender is dropped and nothing is logged;  *)
(* a raise ends the worker's thread in a digest, the item in the queue,    *)
(* and the request of a test.                                              *)
NotCalled(n) ==
    /\ noteFate[n] = "trying" /\ (Raises \/ Refuses)
    /\ noteFate' = [noteFate EXCEPT ![n] =
           IF Raises THEN "raised"
           ELSE IF channel.kind = "other" /\ noteOf[n].from = "digest" THEN "dropped"
           ELSE IF LastTry(n) THEN "failed" ELSE "trying"]
    /\ tries' = [tries EXCEPT ![n] = IF Raises \/ LastTry(n) THEN @ ELSE @ + 1]
    /\ UNCHANGED <<channel, noteOf, reached, unheard, incidents, openedFor, closed>>

(* PagerDuty opens an incident unless one with the key is open, and adds   *)
(* to that one; no event_action but "trigger" is ever sent.                *)
Calls(n) ==
    /\ noteFate[n] = "trying" /\ ~Raises /\ ~Refuses
    /\ \E a \in CallAnswers : \E rs \in Reach(a) :
           /\ reached' = [reached EXCEPT ![n] = [r \in Recipient |-> @[r] + IF r \in rs THEN 1 ELSE 0]]
           /\ unheard' = [unheard EXCEPT ![n] = @ + IF a = "unheard" THEN 1 ELSE 0]
           /\ noteFate' = [noteFate EXCEPT ![n] =
                  IF Answered(a) THEN "sent" ELSE IF LastTry(n) THEN "failed" ELSE "trying"]
           /\ tries' = [tries EXCEPT ![n] = IF Answered(a) \/ LastTry(n) THEN @ ELSE @ + 1]
           /\ IF channel.kind = "pager" /\ rs # {}
              THEN /\ incidents' = incidents \cup {DedupKey(n)}
                   /\ openedFor' = [openedFor EXCEPT ![n] = @ + IF DedupKey(n) \in incidents THEN 0 ELSE 1]
              ELSE UNCHANGED <<incidents, openedFor>>
    /\ UNCHANGED <<channel, noteOf, closed>>

(* The service stops while the worker waits to try again.                  *)
StopsWaiting(n) ==
    /\ noteFate[n] = "trying" /\ noteOf[n].from = "worker" /\ tries[n] > 0
    /\ noteFate' = [noteFate EXCEPT ![n] = "failed"]
    /\ UNCHANGED <<channel, noteOf, tries, reached, unheard, incidents, openedFor, closed>>

(* Someone resolves the incident in PagerDuty.                             *)
ClosesIncident ==
    /\ closed < MaxClosed
    /\ \E k \in incidents : incidents' = incidents \ {k}
    /\ closed' = closed + 1
    /\ UNCHANGED <<channel, noteOf, noteFate, tries, reached, unheard, openedFor>>

SendersNext ==
    \/ \E n \in Note : BeginsNote(n) \/ NotCalled(n) \/ Calls(n) \/ StopsWaiting(n)
    \/ ClosesIncident

SendersSpec == SendersInit /\ [][SendersNext]_senderVars

-----------------------------------------------------------------------------
SendersTypeOK ==
    /\ channel \in [kind : ChannelKinds, setup : Setups]
    /\ noteOf \in [Note -> Sendings]
    /\ noteFate \in [Note -> {"waiting", "trying", "sent", "failed", "raised", "dropped"}]
    /\ tries \in [Note -> 0..Retries]
    /\ reached \in [Note -> [Recipient -> 0..Retries + 1]]
    /\ unheard \in [Note -> 0..Retries + 1]
    /\ incidents \subseteq {"x", "y", "digest", "test"}
    /\ openedFor \in [Note -> Nat] /\ closed \in 0..MaxClosed

(* What is logged as sent reached everyone, except recipients that an SMTP *)
(* server refused (channels._send_email counts them as delivered).         *)
SentArrived ==
    \A n \in Note : noteFate[n] = "sent" =>
        \/ \A r \in Recipient : reached[n][r] > 0
        \/ channel.kind = "smtp" /\ \E r \in Recipient : reached[n][r] > 0

(* What came although it is not logged as sent, and what came twice, came  *)
(* in an attempt whose answer was lost (_send_with_retry tries again).     *)
SurplusUnheard ==
    \A n \in Note : \A r \in Recipient :
        reached[n][r] - (IF noteFate[n] = "sent" THEN 1 ELSE 0) <= unheard[n]

(* Retries open no second incident in PagerDuty; only one that was         *)
(* resolved opens again.  Something that was sent and opened none is part  *)
(* of the incident of another with its fingerprint: of an earlier event,   *)
(* and for a digest of an earlier digest, whatever is in either.           *)
IncidentsOnce ==
    channel.kind = "pager" => \A n \in Note :
        /\ openedFor[n] <= 1 + closed
        /\ noteFate[n] = "sent" /\ openedFor[n] = 0 =>
               \E m \in Note \ {n} : DedupKey(m) = DedupKey(n) /\ openedFor[m] > 0

(* A channel that cannot send says so: nothing is logged as sent, and      *)
(* nothing is lost without a log but what a sender's raise takes with it   *)
(* and digests for an unknown type.                                        *)
FaultsSaid ==
    \A n \in Note :
        /\ Raises \/ Refuses => noteFate[n] # "sent" /\ \A r \in Recipient : reached[n][r] = 0
        /\ noteFate[n] \in {"raised", "dropped"} => Raises \/ channel.kind = "other"

SendersTold == SentArrived /\ SurplusUnheard /\ IncidentsOnce /\ FaultsSaid
=============================================================================
