------------------------------ MODULE VpnReports ------------------------------
(***************************************************************************)
(* Heartbeat reports of the VPN agent (scripts/vpn_agent.py) and what      *)
(* their projection (vpn/projection.py) makes of the clients and the       *)
(* certificate in them, for one server, one certificate and one identity.  *)
(* Events of a report have new ids at every delivery, but for that of the  *)
(* certificate.  The service's own state is in IngestPipeline, the auth    *)
(* lines in VpnAgent.                                                      *)
(***************************************************************************)
EXTENDS FiniteSets, Integers

CONSTANTS
    Peer,       \* client sessions: common name and address
    Reader,     \* drains at work at the same time
    MaxComings, \* bound: sessions that come or go, certificates that age or are renewed
    MaxSent,    \* bound: different reports
    MaxUpsets   \* bound: calls that fail or die on the way, operators' deletions

ASSUME VpnReportsAssumption ==
    IsFiniteSet(Reader) /\ MaxComings \in Nat /\ MaxUpsets \in Nat

VARIABLES
    ipOf,       \* real_ip of each session, named by a session that comes from it
    online,     \* sessions of the server
    certBand,   \* expiry band of its certificate
    sentReports,   \* reports that were sent; any may come late, and again
    clientsRow, \* clients of the row in vpn_status; {} while there are none, or no row
    certRow,    \* band of the certificate in the row
    reader,     \* what each drain is doing
    net,        \* by session: starts less ends that were told, until upset (ghost)
    pairTold,   \* the identity was told to be at two addresses since the row had
                \* it at one (ghost)
    bandsTold,  \* bands whose event is stored
    upset,      \* drains overlapped between read and write, or an event was lost (ghost)
    comings, upsets

vpnReportVars == <<ipOf, online, certBand, sentReports, clientsRow, certRow, reader, net, pairTold,
                   bandsTold, upset, comings, upsets>>

Band     == {"fine", "expiring"}
Reports  == [peers : {{}} \cup {{p} : p \in SUBSET Peer}, band : Band]
NoReport == [peers |-> {}, band |-> "fine"]
AtEase   == [stage |-> "idle", of |-> NoReport, prev |-> {}, todo |-> {}]
Tidings  == (Peer \X {1, -1}) \cup {<<"pair", 0>>}

VpnReportsTypeOK ==
    /\ ipOf \in [Peer -> Peer] /\ online \subseteq Peer /\ certBand \in Band /\ sentReports \subseteq Reports
    /\ clientsRow \in {{}} \cup {{p} : p \in SUBSET Peer} /\ certRow \in Band \cup {"none"}
    /\ reader \in [Reader -> [stage : {"idle", "read", "telling", "cert", "band"}, of : Reports,
                             prev : {{}} \cup {{p} : p \in SUBSET Peer}, todo : SUBSET Tidings]]
    /\ net \in [Peer -> Int] /\ pairTold \in BOOLEAN /\ bandsTold \subseteq {"expiring"}
    /\ upset \in BOOLEAN /\ comings \in 0..MaxComings /\ upsets \in 0..MaxUpsets

VpnReportsInit ==
    /\ ipOf \in [Peer -> Peer] /\ online = Peer /\ certBand = "fine" /\ sentReports = {}
    /\ clientsRow = {} /\ certRow = "none" /\ reader = [r \in Reader |-> AtEase]
    /\ net = [p \in Peer |-> 0] /\ pairTold = FALSE /\ bandsTold = {} /\ upset = FALSE
    /\ comings = 0 /\ upsets = 0

box     == <<ipOf, online, certBand, sentReports, comings>>
lingering  == <<net, pairTold, bandsTold>>
Upset   == upsets < MaxUpsets /\ upsets' = upsets + 1

(* detect_concurrent counts addresses.  Mutant: it counts sessions.        *)
PairOfSessions(s) == Cardinality(s) > 1
Pair(s)           == Cardinality({ipOf[p] : p \in s}) > 1

Nothing      == [p \in Peer |-> 0]
Upsetting(u) == upset' = (upset \/ u) /\ net' = IF upset \/ u THEN Nothing ELSE net

-----------------------------------------------------------------------------
(* The box                                                                 *)

PeerTurns(p) ==
    /\ comings < MaxComings /\ comings' = comings + 1
    /\ online' = IF p \in online THEN online \ {p} ELSE online \cup {p}
    /\ UNCHANGED <<ipOf, certBand, sentReports, clientsRow, certRow, reader, lingering, upset, upsets>>

CertTurns(b) ==
    /\ comings < MaxComings /\ comings' = comings + 1
    /\ b # certBand /\ certBand' = b
    /\ UNCHANGED <<ipOf, online, sentReports, clientsRow, certRow, reader, lingering, upset, upsets>>

(* The status file is missing, or was dropped to fit the message, or is    *)
(* read while OpenVPN rewrites it.                                         *)
StatusRead == {{}} \cup {{s} : s \in SUBSET online}

Beats ==
    /\ Cardinality(sentReports) < MaxSent
    /\ \E s \in StatusRead : sentReports' = sentReports \cup {[peers |-> s, band |-> certBand]}
    /\ UNCHANGED <<ipOf, online, certBand, comings, clientsRow, certRow, reader, lingering, upset, upsets>>

-----------------------------------------------------------------------------
(* The projection, event by event of the report                            *)

Begins(r, m) ==
    /\ reader[r].stage = "idle" /\ m \in sentReports
    /\ reader' = [reader EXCEPT ![r] =
           IF m.peers = {} THEN [AtEase EXCEPT !.stage = "cert", !.of = m]
           ELSE [AtEase EXCEPT !.stage = "read", !.of = m, !.prev = clientsRow]]
    /\ Upsetting(m.peers # {} /\ \E x \in Reader : reader[x].stage = "read")
    /\ UNCHANGED <<box, clientsRow, certRow, pairTold, bandsTold, upsets>>

(* Sessions that came and went since the previous snapshot; none on the    *)
(* first one.  Mutant: none after an empty one either.                     *)
DiffOfSome(prev, cur) == UNION {IF s = {} THEN {} ELSE ((cur \ s) \X {1}) \cup ((s \ cur) \X {-1}) : s \in prev}
DiffOf(prev, cur)     == UNION {((cur \ s) \X {1}) \cup ((s \ cur) \X {-1}) : s \in prev}

ClientsUpserted(s) == clientsRow' = {s}

(* A first snapshot is the baseline: what is in it counts as known.        *)
WritesClients(r) ==
    /\ reader[r].stage = "read"
    /\ \E s \in reader[r].of.peers :
          /\ ClientsUpserted(s)
          /\ reader' = [reader EXCEPT ![r].stage = "telling", ![r].prev = {}, ![r].of.peers = {},
                 ![r].todo = DiffOf(reader[r].prev, s) \cup (IF Pair(s) THEN {<<"pair", 0>>} ELSE {})]
          /\ net' = IF reader[r].prev = {} /\ ~upset THEN [p \in Peer |-> IF p \in s THEN 1 ELSE 0] ELSE net
          /\ pairTold' = (pairTold /\ Pair(s))
    /\ UNCHANGED <<box, certRow, bandsTold, upset, upsets>>

Tidies(r, t) ==
    /\ reader[r].stage = "telling" /\ t \in reader[r].todo
    /\ reader' = [reader EXCEPT ![r].todo = @ \ {t}]
    /\ IF t = <<"pair", 0>>
       THEN pairTold' = (pairTold \/ \E s \in clientsRow : Pair(s)) /\ UNCHANGED net
       ELSE net' = (IF upset THEN net ELSE [net EXCEPT ![t[1]] = @ + t[2]]) /\ UNCHANGED pairTold
    /\ UNCHANGED <<box, clientsRow, certRow, bandsTold, upset, upsets>>

ClientsTold(r) ==
    /\ reader[r].stage = "telling" /\ reader[r].todo = {}
    /\ reader' = [reader EXCEPT ![r].stage = "cert"]
    /\ UNCHANGED <<box, clientsRow, certRow, lingering, upset, upsets>>

WritesCert(r) ==
    /\ reader[r].stage = "cert"
    /\ certRow' = reader[r].of.band
    /\ reader' = [reader EXCEPT ![r] = IF reader[r].of.band = "fine" THEN AtEase
                                       ELSE [@ EXCEPT !.stage = "band"]]
    /\ UNCHANGED <<box, clientsRow, lingering, upset, upsets>>

(* The id names certificate and band: stored once, ever.                   *)
BandStored(r) ==
    /\ reader[r].stage = "band"
    /\ bandsTold' = bandsTold \cup {reader[r].of.band}
    /\ reader' = [reader EXCEPT ![r] = AtEase]
    /\ UNCHANGED <<box, clientsRow, certRow, net, pairTold, upset, upsets>>

(* A statement of the projection raises: the pipeline goes on to the next  *)
(* event of the report.                                                    *)
ProjectionFails(r) ==
    /\ reader[r].stage \in {"read", "cert"} /\ Upset
    /\ reader' = [reader EXCEPT ![r] =
          IF reader[r].stage = "read" THEN [@ EXCEPT !.stage = "cert", !.prev = {}, !.of.peers = {}]
          ELSE IF reader[r].of.band = "fine" THEN AtEase ELSE [@ EXCEPT !.stage = "band"]]
    /\ UNCHANGED <<box, clientsRow, certRow, lingering, upset>>

(* An insert raises, or the process dies: the report comes again.          *)
ReaderCut(r) ==
    /\ reader[r].stage # "idle" /\ Upset
    /\ Upsetting(reader[r].todo # {} \/ reader[r].stage = "band")
    /\ reader' = [reader EXCEPT ![r] = AtEase]
    /\ UNCHANGED <<box, clientsRow, certRow, pairTold, bandsTold>>

(* An operator drops the row (api.py).                                     *)
RowDropped ==
    /\ Upset /\ clientsRow' = {} /\ certRow' = "none" /\ pairTold' = FALSE
    /\ Upsetting(\E r \in Reader : reader[r].stage \in {"read", "telling"})
    /\ UNCHANGED <<box, reader, bandsTold>>

VpnReportsNext ==
    \/ \E p \in Peer : PeerTurns(p)
    \/ \E b \in Band : CertTurns(b)
    \/ Beats \/ RowDropped
    \/ \E r \in Reader :
          \/ \E m \in sentReports : Begins(r, m)
          \/ \E t \in reader[r].todo : Tidies(r, t)
          \/ WritesClients(r) \/ ClientsTold(r) \/ WritesCert(r) \/ BandStored(r)
          \/ ProjectionFails(r) \/ ReaderCut(r)

VpnReportsSpec == VpnReportsInit /\ [][VpnReportsNext]_vpnReportVars

-----------------------------------------------------------------------------

(* What was told of the sessions is what the row says, whatever order the  *)
(* reports come in and however often: the starts and ends of a session     *)
(* add up to its presence in the row, an identity at two addresses was     *)
(* told since the row has both, and the band of the certificate has its    *)
(* event; what a drain is still to tell counted in.  Unless two drains     *)
(* overlapped between read and write, or an event was lost.                *)
ClientsAreTold ==
    ~upset =>
        /\ \A s \in clientsRow, p \in Peer :
               net[p] + Cardinality({r \in Reader : <<p, 1>> \in reader[r].todo})
                      - Cardinality({r \in Reader : <<p, -1>> \in reader[r].todo}) = (IF p \in s THEN 1 ELSE 0)
        /\ (\E s \in clientsRow : Pair(s)) => pairTold \/ \E r \in Reader : <<"pair", 0>> \in reader[r].todo
        /\ certRow = "expiring" =>
               \/ certRow \in bandsTold
               \/ \E r \in Reader : reader[r].stage = "band" /\ reader[r].of.band = certRow
=============================================================================
