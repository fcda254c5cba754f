------------------------------ MODULE RdsTrace ------------------------------
(***************************************************************************)
(* Who is behind a database session that came through an RDS proxy         *)
(* (modules/aws_rds.py): the database only sees the proxy, and three lines *)
(* of the proxy's log chain a port of the proxy to a client.  They come    *)
(* over queues, in any order and more than once, and are kept in bounded   *)
(* tables of the process.  What the proxy did does not depend on what is   *)
(* read of it: it is given, and a line not yet logged is one not yet read. *)
(***************************************************************************)
EXTENDS Integers, Sequences, FiniteSets

CONSTANTS
    Client,    \* connections of clients to the proxy
    Backend,   \* connections of the proxy to the database
    Port,      \* ports of the proxy, used again by later connections
    CacheMax,  \* _PROXY_CACHE_MAX
    MaxAgain   \* bound: lines read once more, and restarts

VARIABLES
    portOf,    \* the port each connection to the database was established from
    pinOf,     \* the connection each client was pinned to, if any
    lines,     \* lines yet to be read
    conns,     \* _PROXY_CONN_CACHE, oldest first: connections whose address is known
    pinnedTo,  \* _PROXY_DB_TO_CLIENT, oldest first
    toPort,    \* _PROXY_DB_TO_PORT, oldest first
    toDb,      \* _PROXY_PORT_TO_DB
    lastRead,  \* the connection whose line about a port was read last (ghost)
    traced,    \* sessions, the client each was traced to and whether lastRead said so (ghost)
    again

traceVars == <<portOf, pinOf, lines, conns, pinnedTo, toPort, toDb, lastRead, traced, again>>

ASSUME TraceAssumption == CacheMax \in Nat \ {0, 1} /\ MaxAgain \in Nat /\ "none" \notin Backend

Nobody == "none"

Line == [kind : {"opened", "closed"}, who : Client]
     \cup [kind : {"pinned"}, who : Client, db : Backend]
     \cup [kind : {"established", "session"}, db : Backend, port : Port]

TraceTypeOK ==
    /\ portOf \in [Backend -> Port] /\ pinOf \in [Client -> Backend \cup {Nobody}]
    /\ lines \subseteq Line
    /\ \A i \in DOMAIN conns : conns[i].key \in Client
    /\ \A i \in DOMAIN pinnedTo : pinnedTo[i] \in [key : Backend, val : Client]
    /\ \A i \in DOMAIN toPort : toPort[i] \in [key : Backend, val : Port]
    /\ toDb \in [Port -> Backend \cup {Nobody}] /\ lastRead \in [Port -> Backend \cup {Nobody}]
    /\ traced \subseteq Backend \X Client \X BOOLEAN
    /\ again \in 0..MaxAgain

(* Clients open and are pinned to a connection, and some close again; each *)
(* connection logs its port in the proxy's log and in the database's.      *)
Logged(closed) ==
    [kind : {"opened"}, who : Client] \cup [kind : {"closed"}, who : closed]
    \cup {[kind |-> "pinned", who |-> c, db |-> pinOf[c]] : c \in {x \in Client : pinOf[x] # Nobody}}
    \cup {[kind |-> k, db |-> d, port |-> portOf[d]] : k \in {"established", "session"}, d \in Backend}

TraceInit ==
    /\ portOf \in [Backend -> Port] /\ pinOf \in [Client -> Backend \cup {Nobody}]
    /\ \E closed \in SUBSET Client : lines = Logged(closed)
    /\ conns = <<>> /\ pinnedTo = <<>> /\ toPort = <<>>
    /\ toDb = [p \in Port |-> Nobody] /\ lastRead = [p \in Port |-> Nobody]
    /\ traced = {} /\ again = 0

-----------------------------------------------------------------------------
(* Dictionaries that keep the order of insertion.                          *)

Keys(cache)   == {cache[i].key : i \in DOMAIN cache}
Get(cache, k) == (CHOOSE x \in {cache[i] : i \in DOMAIN cache} : x.key = k).val
Pop(cache, k) ==
    IF k \in Keys(cache)
    THEN LET at == CHOOSE i \in DOMAIN cache : cache[i].key = k
         IN  [i \in 1..(Len(cache) - 1) |-> IF i < at THEN cache[i] ELSE cache[i + 1]]
    ELSE cache

(* A full table loses its older half, also when the key is there already.  *)
Dropped(cache) == IF Len(cache) >= CacheMax THEN CacheMax \div 2 ELSE 0
Evicted(cache) == {cache[i].key : i \in 1..Dropped(cache)}
Kept(cache)    == [i \in 1..(Len(cache) - Dropped(cache)) |-> cache[i + Dropped(cache)]]

Put(cache, k, v) ==
    IF k \in Keys(Kept(cache))
    THEN [i \in DOMAIN Kept(cache) |-> IF Kept(cache)[i].key = k THEN [key |-> k, val |-> v] ELSE Kept(cache)[i]]
    ELSE Append(Kept(cache), [key |-> k, val |-> v])

(* _proxy_port_cache_put: what is dropped leaves the reverse index too,    *)
(* with whatever that port is bound to now.  Mutant: it stays there.       *)
StaysBound(p) == toDb[p]
Unbound(p)    == IF \E d \in Evicted(toPort) : Get(toPort, d) = p THEN Nobody ELSE toDb[p]

(* _lookup_real_client_ip.                                                 *)
Lookup(p) ==
    IF /\ toDb[p] # Nobody /\ toDb[p] \in Keys(pinnedTo)
       /\ Get(pinnedTo, toDb[p]) \in Keys(conns)
    THEN {Get(pinnedTo, toDb[p])} ELSE {}

-----------------------------------------------------------------------------
(* A line is read, once or once more.                                      *)

Taken(l) ==
    /\ l \in lines
    /\ \/ lines' = lines \ {l} /\ UNCHANGED again
       \/ UNCHANGED lines /\ again < MaxAgain /\ again' = again + 1
    /\ UNCHANGED <<portOf, pinOf>>

ReadsOpened(l) ==
    /\ l.kind = "opened" /\ Taken(l)
    /\ conns' = Put(conns, l.who, l.who)
    /\ UNCHANGED <<pinnedTo, toPort, toDb, lastRead, traced>>

ReadsClosed(l) ==
    /\ l.kind = "closed" /\ Taken(l)
    /\ conns' = Pop(conns, l.who)
    /\ UNCHANGED <<pinnedTo, toPort, toDb, lastRead, traced>>

ReadsPinned(l) ==
    /\ l.kind = "pinned" /\ Taken(l)
    /\ pinnedTo' = Put(pinnedTo, l.db, l.who)
    /\ UNCHANGED <<conns, toPort, toDb, lastRead, traced>>

ReadsEstablished(l) ==
    /\ l.kind = "established" /\ Taken(l)
    /\ toPort' = Put(toPort, l.db, l.port)
    /\ toDb' = [p \in Port |-> IF p = l.port THEN l.db ELSE Unbound(p)]
    /\ lastRead' = [lastRead EXCEPT ![l.port] = l.db]
    /\ UNCHANGED <<conns, pinnedTo, traced>>

(* rds.session.start, with the client's address if the chain is complete.  *)
ReadsSession(l) ==
    /\ l.kind = "session" /\ Taken(l)
    /\ traced' = traced \cup {<<l.db, c, lastRead[l.port] = l.db>> : c \in Lookup(l.port)}
    /\ UNCHANGED <<conns, pinnedTo, toPort, toDb, lastRead>>

(* The tables are not persisted.                                           *)
TablesLost ==
    /\ again < MaxAgain /\ again' = again + 1
    /\ conns' = <<>> /\ pinnedTo' = <<>> /\ toPort' = <<>>
    /\ toDb' = [p \in Port |-> Nobody]
    /\ UNCHANGED <<portOf, pinOf, lines, lastRead, traced>>

TraceNext ==
    \/ \E l \in lines : \/ ReadsOpened(l) \/ ReadsClosed(l) \/ ReadsPinned(l)
                        \/ ReadsEstablished(l) \/ ReadsSession(l)
    \/ TablesLost

TraceSpec == TraceInit /\ [][TraceNext]_traceVars

-----------------------------------------------------------------------------

(* A session is never traced to a client that was not pinned to a          *)
(* connection from the very same port, and, if the line that established   *)
(* it was the last one read about its port, to one pinned to that          *)
(* connection, whatever the tables dropped in between; a line that is late *)
(* or read again may name the client of another connection on that port.   *)
(* The reverse index holds no port that the table itself has dropped: it   *)
(* stays as bounded as the table ("Kept in sync with _PROXY_DB_TO_PORT").  *)
SessionsTraced ==
    /\ \A t \in traced :
          LET d == pinOf[t[2]] IN d # Nobody /\ portOf[d] = portOf[t[1]] /\ (t[3] => d = t[1])
    /\ \A p \in Port : toDb[p] # Nobody => toDb[p] \in Keys(toPort) /\ Get(toPort, toDb[p]) = p
    /\ \A t \in {conns, pinnedTo, toPort} : Len(t) <= CacheMax /\ Cardinality(Keys(t)) = Len(t)
=============================================================================
