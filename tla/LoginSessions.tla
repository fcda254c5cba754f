----------------------------- MODULE LoginSessions -----------------------------
(***************************************************************************)
(* Signing in to the user interface (auth.py, the middleware of main.py,   *)
(* the auth endpoints of api.py and the auth tables of storage.py).  The   *)
(* middleware is a coroutine that never awaits while it looks a session    *)
(* up: requests pass it one at a time.  The endpoints run in threads,      *)
(* between any two of its statements.  One user, the seeded one.           *)
(***************************************************************************)
EXTENDS FiniteSets, Integers

CONSTANTS
    Ticket,     \* session ids, each of one login
    Signer,     \* threads that log in or change the password
    SessionTtl,  \* SESSION_TTL
    MaxClock,   \* bound: time
    MaxGlitches \* bound: failing statements and restarts

ASSUME LoginAssumption ==
    SessionTtl \in Nat /\ MaxClock \in Nat \ {0} /\ MaxGlitches \in Nat

VARIABLES
    secret,    \* the password of the user's row, "none": no row
    boot,      \* the server process: down, seeding, up
    signer,    \* what a thread has verified and is about to write
    ticket,    \* expires_at of each session row, 0: no row
    visit,     \* the request in the middleware: what it read of its session
    clock,
    glitches,
    seenAt,    \* when a ticket was issued or last admitted (ghost)
    revoked,   \* tickets that were signed out or found expired (ghost)
    lingers,   \* those of them whose row was not deleted (ghost)
    away,      \* how long the session admitted last had been unused (ghost)
    replaced   \* the default password was changed (ghost)

loginVars == <<secret, boot, signer, ticket, visit, clock, glitches,
               seenAt, revoked, lingers, away, replaced>>

Nobodys == 0
Visit   == [who : Ticket, until : 1..(MaxClock + SessionTtl), slides : 0..(MaxClock + SessionTtl)]

LoginTypeOK ==
    /\ secret \in {"none", "default", "own"} /\ boot \in {"down", "seeding", "up"}
    /\ signer \in [Signer -> {"none", "enters", "changes"}]
    /\ ticket \in [Ticket -> 0..(MaxClock + SessionTtl)] /\ seenAt \in [Ticket -> 0..MaxClock]
    /\ visit \subseteq Visit /\ Cardinality(visit) <= 1
    /\ clock \in 1..MaxClock /\ glitches \in 0..MaxGlitches
    /\ revoked \subseteq Ticket /\ lingers \subseteq Ticket /\ replaced \in BOOLEAN
    /\ away \in 0..MaxClock

LoginInit ==
    /\ secret = "none" /\ boot = "down" /\ signer = [d \in Signer |-> "none"]
    /\ ticket = [t \in Ticket |-> Nobodys] /\ visit = {} /\ clock = 1 /\ glitches = 0
    /\ seenAt = [t \in Ticket |-> 0] /\ revoked = {} /\ lingers = {} /\ away = 0 /\ replaced = FALSE

Glitch == glitches < MaxGlitches /\ glitches' = glitches + 1

ClockTicks ==
    /\ clock < MaxClock /\ clock' = clock + 1
    /\ UNCHANGED <<secret, boot, signer, ticket, visit, glitches, seenAt, revoked, lingers, away, replaced>>

-----------------------------------------------------------------------------
(* Start and restart                                                       *)

(* Mutant: a failed query counts as no users.                              *)
SeedsUnasked(raised) == raised \/ secret = "none"
Seeds(raised)        == ~raised /\ secret = "none"

StartupLooks ==
    /\ boot = "down"
    /\ \E raised \in BOOLEAN :
          /\ IF raised THEN Glitch ELSE UNCHANGED glitches
          /\ boot' = IF Seeds(raised) THEN "seeding" ELSE "up"
    /\ UNCHANGED <<secret, signer, ticket, visit, clock, seenAt, revoked, lingers, away, replaced>>

(* A raise here ends the start.                                            *)
StartupSeeds ==
    /\ boot = "seeding"
    /\ \/ secret' = "default" /\ boot' = "up" /\ UNCHANGED glitches
       \/ Glitch /\ boot' = "down" /\ UNCHANGED secret
    /\ UNCHANGED <<signer, ticket, visit, clock, seenAt, revoked, lingers, away, replaced>>

ServerRestarts ==
    /\ boot = "up" /\ Glitch /\ boot' = "down"
    /\ visit' = {} /\ signer' = [d \in Signer |-> "none"]
    /\ UNCHANGED <<secret, ticket, clock, seenAt, revoked, lingers, away, replaced>>

-----------------------------------------------------------------------------
(* The endpoints                                                           *)

(* auth_login and auth_change_password verify first and write later.       *)
Verifies(d, what) ==
    /\ boot = "up" /\ signer[d] = "none" /\ secret # "none"
    /\ signer' = [signer EXCEPT ![d] = what]
    /\ UNCHANGED <<secret, boot, ticket, visit, clock, glitches, seenAt, revoked, lingers, away, replaced>>

SignsIn(d) ==
    /\ boot = "up" /\ signer[d] = "enters" /\ signer' = [signer EXCEPT ![d] = "none"]
    /\ \/ Glitch /\ UNCHANGED <<ticket, seenAt>>
       \/ \E t \in Ticket :
             /\ seenAt[t] = 0 /\ seenAt' = [seenAt EXCEPT ![t] = clock]
             /\ ticket' = [ticket EXCEPT ![t] = clock + SessionTtl] /\ UNCHANGED glitches
    /\ UNCHANGED <<secret, boot, visit, clock, revoked, lingers, away, replaced>>

(* What a session's end does, and what it comes to when the row stays.     *)
Deletes(t) ==
    /\ ticket' = [ticket EXCEPT ![t] = Nobodys]
    /\ revoked' = revoked \cup {t} /\ lingers' = lingers \ {t}

StaysBehind(ts) == revoked' = revoked \cup ts /\ lingers' = lingers \cup ts

(* By its docstring change_password ends every session but the caller's    *)
(* own; it ends none.                                                      *)
ChangesPassword(d) ==
    /\ boot = "up" /\ signer[d] = "changes" /\ signer' = [signer EXCEPT ![d] = "none"]
    /\ \/ Glitch /\ UNCHANGED <<secret, replaced, revoked, lingers>>
       \/ \E own \in Ticket :
             /\ StaysBehind({t \in Ticket \ {own} : ticket[t] # Nobodys})
             /\ secret' = "own" /\ replaced' = TRUE /\ UNCHANGED glitches
    /\ UNCHANGED <<boot, ticket, visit, clock, seenAt, away>>

(* delete_session of auth.py: a delete that fails is logged, and the       *)
(* sign-out is answered all the same.                                      *)
LogsOut(t) ==
    /\ boot = "up" /\ seenAt[t] # 0
    /\ \/ Deletes(t) /\ UNCHANGED glitches
       \/ Glitch /\ StaysBehind({t} \ {u \in Ticket : ticket[u] = Nobodys}) /\ UNCHANGED ticket
    /\ UNCHANGED <<secret, boot, signer, visit, clock, seenAt, away, replaced>>

-----------------------------------------------------------------------------
(* The middleware: touch_session                                           *)

(* No row, or a failed query: 401.                                         *)
VisitReads(t) ==
    /\ boot = "up" /\ visit = {} /\ ticket[t] # Nobodys
    /\ visit' = {[who |-> t, until |-> ticket[t], slides |-> 0]}
    /\ UNCHANGED <<secret, boot, signer, ticket, clock, glitches, seenAt, revoked, lingers, away, replaced>>

(* Expired: the row is deleted, or that fails and it stays.                *)
VisitExpires ==
    \E v \in visit :
       /\ v.slides = 0 /\ v.until < clock /\ visit' = {}
       /\ \/ Deletes(v.who) /\ UNCHANGED glitches
          \/ Glitch /\ UNCHANGED <<ticket, revoked, lingers>>
       /\ UNCHANGED <<secret, boot, signer, clock, seenAt, away, replaced>>

VisitAdmitted ==
    \E v \in visit :
       /\ v.slides = 0 /\ v.until >= clock
       /\ visit' = {[v EXCEPT !.slides = clock + SessionTtl]}
       /\ away' = clock - seenAt[v.who]
       /\ seenAt' = [seenAt EXCEPT ![v.who] = clock]
       /\ UNCHANGED <<secret, boot, signer, ticket, clock, glitches, revoked, lingers, replaced>>

(* update_session_expiry; a failure is logged and the request goes on.     *)
VisitSlides ==
    \E v \in visit :
       /\ v.slides # 0 /\ visit' = {}
       /\ \/ ticket' = [ticket EXCEPT ![v.who] = IF @ = Nobodys THEN @ ELSE v.slides] /\ UNCHANGED glitches
          \/ Glitch /\ UNCHANGED ticket
       /\ UNCHANGED <<secret, boot, signer, clock, seenAt, revoked, lingers, away, replaced>>

LoginNext ==
    \/ ClockTicks \/ StartupLooks \/ StartupSeeds \/ ServerRestarts
    \/ VisitExpires \/ VisitAdmitted \/ VisitSlides
    \/ \E d \in Signer : SignsIn(d) \/ ChangesPassword(d) \/ \E w \in {"enters", "changes"} : Verifies(d, w)
    \/ \E t \in Ticket : LogsOut(t) \/ VisitReads(t)

LoginSpec == LoginInit /\ [][LoginNext]_loginVars

-----------------------------------------------------------------------------

(* Who was signed out stays out, and who was away too long: the row of a   *)
(* session that was logged out or found expired never comes back, whatever *)
(* request was under way when it went; no request that began after is      *)
(* admitted, and none of a session unused for longer than SESSION_TTL,     *)
(* also across restarts.  Unless the row was left behind: by a sign-out    *)
(* whose delete failed, or by change_password, which ends none of the      *)
(* sessions it says it ends.  A password that replaced the default one is  *)
(* not taken back by a start that cannot ask for the users.                *)
SignedOutStaysOut ==
    /\ \A t \in revoked \ lingers : ticket[t] = Nobodys
    /\ away <= SessionTtl
    /\ replaced => secret # "default"
=============================================================================
