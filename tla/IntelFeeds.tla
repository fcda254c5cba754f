------------------------------ MODULE IntelFeeds ------------------------------
(***************************************************************************)
(* Threat intelligence (src/blackwatch/intel): a pass fetches every feed   *)
(* and replaces its rows in a database of its own, while lookups of the    *)
(* pipeline and of the tools read the rows through a cache.  One address;  *)
(* a feed's text either lists it or does not.  The cache is shared by all  *)
(* addresses and is emptied when full.                                     *)
(***************************************************************************)
EXTENDS FiniteSets, Integers

CONSTANTS
    Feed,
    Asker,    \* threads that look the address up
    CacheTtl,  \* _CACHE_TTL
    Slow,      \* the longest a lookup takes between its query and its answer
    MaxMoment, \* bound: time
    MaxFetches \* bound: fetches

ASSUME IntelAssumption ==
    CacheTtl \in Nat \ {0} /\ {Slow, MaxMoment, MaxFetches} \subseteq Nat

VARIABLES
    rows,    \* the rows of each feed in ti_ip4: none, or do they match?
    meta,    \* ti_feed_meta: entries and last_status
    passing, \* _running
    feedsLeft,    \* feeds of the pass that are still to come
    fetched, \* what the pass has just fetched
    cache,   \* the entry of the address
    asked,  \* what each thread has read and not stored yet
    moment,
    fetches,
    lastOn, lastOff, \* when the rows of a feed last matched, or did not (ghosts)
    blindAt, \* when a query last failed (ghost)
    answer   \* the last answer given (ghost)

intelVars == <<rows, meta, passing, feedsLeft, fetched, cache, asked, moment, fetches,
               lastOn, lastOff, blindAt, answer>>

Moment == 0..MaxMoment
Read   == [feeds : SUBSET Feed, readAt : Moment, blind : BOOLEAN]
Cached  == [feeds : SUBSET Feed, blind : BOOLEAN, at : Moment]

IntelTypeOK ==
    /\ rows \in [Feed -> {"none", "off", "on"}]
    /\ meta \in [Feed -> [entries : BOOLEAN, status : {"none", "ok", "failed"}]]
    /\ passing \in BOOLEAN /\ feedsLeft \subseteq Feed
    /\ fetched \subseteq [feed : Feed, text : {"on", "off", "empty"}] /\ Cardinality(fetched) <= 1
    /\ cache \subseteq Cached /\ Cardinality(cache) <= 1
    /\ asked \in [Asker -> SUBSET Read] /\ \A k \in Asker : Cardinality(asked[k]) <= 1
    /\ moment \in Moment /\ fetches \in 0..MaxFetches /\ blindAt \in Moment
    /\ lastOn \in [Feed -> Moment] /\ lastOff \in [Feed -> Moment]
    /\ answer \subseteq Cached /\ Cardinality(answer) <= 1

IntelInit ==
    /\ rows = [f \in Feed |-> "none"] /\ meta = [f \in Feed |-> [entries |-> FALSE, status |-> "none"]]
    /\ passing = FALSE /\ feedsLeft = {} /\ fetched = {} /\ fetches = 0
    /\ cache = {} /\ asked = [k \in Asker |-> {}] /\ moment = 0
    /\ lastOn = [f \in Feed |-> 0] /\ lastOff = [f \in Feed |-> 0] /\ blindAt = 0
    /\ answer = {}

Matching(r) == {f \in Feed : r[f] = "on"}

(* The ghosts of the rows at a moment.                                     *)
Noted(r, m) ==
    /\ lastOn' = [f \in Feed |-> IF f \in Matching(r) THEN m ELSE lastOn[f]]
    /\ lastOff' = [f \in Feed |-> IF f \in Matching(r) THEN lastOff[f] ELSE m]

MomentPasses ==
    /\ moment < MaxMoment /\ moment' = moment + 1
    /\ \A k \in Asker : \A l \in asked[k] : moment < l.readAt + Slow
    /\ Noted(rows, moment')
    /\ UNCHANGED <<rows, meta, passing, feedsLeft, fetched, cache, asked, fetches, blindAt, answer>>

-----------------------------------------------------------------------------
(* A pass: run, refresh_all, refresh_feed                                  *)

(* A second pass that finds one running returns.  GeoIP files come first.  *)
PassStarts ==
    /\ ~passing /\ fetches < MaxFetches
    /\ passing' = TRUE /\ feedsLeft' = Feed
    /\ UNCHANGED <<rows, meta, fetched, cache, asked, moment, fetches, lastOn, lastOff, blindAt, answer>>

Failed(f) == meta' = [meta EXCEPT ![f].status = "failed"]

Fetches(f) ==
    /\ passing /\ f \in feedsLeft /\ fetched = {} /\ fetches < MaxFetches
    /\ fetches' = fetches + 1
    /\ \/ \E t \in {"on", "off", "empty"} : fetched' = {[feed |-> f, text |-> t]} /\ UNCHANGED <<meta, feedsLeft>>
       \/ Failed(f) /\ feedsLeft' = feedsLeft \ {f} /\ UNCHANGED fetched
    /\ UNCHANGED <<rows, passing, cache, asked, moment, lastOn, lastOff, blindAt, answer>>

(* Mutant: a text without any address replaces the feed.                   *)
LoadsAlways(t) == t \in {"on", "off", "empty"}
Loads(t)       == t # "empty"

(* Rows and meta change in one transaction, or not at all when it raises,  *)
(* which ends the turn of this feed.                                       *)
Replaces ==
    \E x \in fetched :
       /\ fetched' = {} /\ feedsLeft' = feedsLeft \ {x.feed}
       /\ \/ /\ Loads(x.text)
             /\ rows' = [rows EXCEPT ![x.feed] = IF x.text = "empty" THEN "none" ELSE x.text]
             /\ meta' = [meta EXCEPT ![x.feed] = [entries |-> x.text # "empty", status |-> "ok"]]
             /\ Noted(rows', moment)
          \/ ~Loads(x.text) /\ Failed(x.feed) /\ UNCHANGED <<rows, lastOn, lastOff>>
          \/ UNCHANGED <<rows, meta, lastOn, lastOff>>
       /\ UNCHANGED <<passing, cache, asked, moment, fetches, blindAt, answer>>

PassEnds ==
    /\ passing /\ feedsLeft = {} /\ passing' = FALSE
    /\ UNCHANGED <<rows, meta, feedsLeft, fetched, cache, asked, moment, fetches, lastOn, lastOff, blindAt, answer>>

(* The process restarts: the database stays.                               *)
IntelRestarts ==
    /\ fetches < MaxFetches /\ fetches' = fetches + 1
    /\ passing' = FALSE /\ feedsLeft' = {} /\ fetched' = {} /\ cache' = {}
    /\ asked' = [k \in Asker |-> {}]
    /\ UNCHANGED <<rows, meta, moment, lastOn, lastOff, blindAt, answer>>

-----------------------------------------------------------------------------
(* A lookup: _cached, _classify, _store                                    *)

AnswersFromCache ==
    \E e \in cache :
       /\ moment - e.at < CacheTtl
       /\ answer' = {[feeds |-> e.feeds, blind |-> e.blind, at |-> moment]}
       /\ UNCHANGED <<rows, meta, passing, feedsLeft, fetched, cache, asked, moment, fetches,
                      lastOn, lastOff, blindAt>>

(* A query that raises finds nothing.                                      *)
Queries(k) ==
    /\ asked[k] = {} /\ \A e \in cache : moment - e.at >= CacheTtl
    /\ \E blind \in BOOLEAN :
          /\ asked' = [asked EXCEPT ![k] = {[feeds |-> IF blind THEN {} ELSE Matching(rows),
                                               readAt |-> moment, blind |-> blind]}]
          /\ blindAt' = IF blind THEN moment ELSE blindAt
    /\ UNCHANGED <<rows, meta, passing, feedsLeft, fetched, cache, moment, fetches, lastOn, lastOff, answer>>

StoresAndAnswers(k) ==
    \E l \in asked[k] :
       LET e == [feeds |-> l.feeds, blind |-> l.blind, at |-> moment]
       IN  /\ cache' = {e} /\ answer' = {e} /\ asked' = [asked EXCEPT ![k] = {}]
           /\ UNCHANGED <<rows, meta, passing, feedsLeft, fetched, moment, fetches, lastOn, lastOff, blindAt>>

(* Stored for another address when the cache is full.                      *)
CacheClears ==
    /\ cache # {} /\ cache' = {}
    /\ UNCHANGED <<rows, meta, passing, feedsLeft, fetched, asked, moment, fetches, lastOn, lastOff, blindAt, answer>>

IntelNext ==
    \/ MomentPasses \/ PassStarts \/ Replaces \/ PassEnds \/ IntelRestarts
    \/ AnswersFromCache \/ CacheClears
    \/ \E f \in Feed : Fetches(f)
    \/ \E k \in Asker : Queries(k) \/ StoresAndAnswers(k)

IntelSpec == IntelInit /\ [][IntelNext]_intelVars

-----------------------------------------------------------------------------

(* An address that every loaded text of a feed lists is answered as listed *)
(* throughout failed, empty and half-done refreshes: an answer is what the *)
(* rows said less than CacheTtl before it, plus the time the lookup took,  *)
(* or follows a query that failed within that time, also when lookups      *)
(* overlap with a refresh and store over each other.  And the page of      *)
(* feeds counts entries exactly where there are rows to match.             *)
AnswersRecent ==
    /\ \A a \in answer :
          LET Recent(m) == a.at - m < CacheTtl + Slow
          IN  IF a.blind THEN Recent(blindAt)
              ELSE \A f \in Feed : Recent(IF f \in a.feeds THEN lastOn[f] ELSE lastOff[f])
    /\ \A f \in Feed : /\ meta[f].entries = (rows[f] # "none")
                       /\ meta[f].status = "ok" => rows[f] # "none"
=============================================================================
