------------------------------- MODULE VpnAgent -------------------------------
(***************************************************************************)
(* The VPN agent (scripts/vpn_agent.py): the follower thread tails the     *)
(* journal from a saved cursor and sends authentication lines in batches;  *)
(* what it cannot send it writes to a spool that it shares with the        *)
(* heartbeat thread.  Lines are numbered in the order of the journal.      *)
(***************************************************************************)
EXTENDS Integers, Sequences, FiniteSets

CONSTANTS
    MaxLines,   \* bound: authentication lines
    BatchMax,   \* FOLLOWER_BATCH_MAX
    VpnSpool    \* SPOOL_MAX_FILES, or as many as SPOOL_MAX_BYTES allows

ASSUME VpnAssumption == MaxLines \in Nat /\ {BatchMax, VpnSpool} \subseteq Nat \ {0}

NoCursor == -1
Lines    == 1..MaxLines

VARIABLES
    logged,     \* lines in the journal
    cursor,     \* the cursor file
    follower,   \* where the follower thread is
    readTo,     \* last line it has read (last_cursor)
    sentTo,     \* the batch is what it has read after this line
    ending,     \* journalctl has ended; the batch is the last of this run
    shrunk,     \* the batch was too large for the queue and lost its lines
    spoolDir,   \* spool files, oldest first: first and last line, and if written
    received,   \* lines that reached the queue
    skipped,    \* lines that a start without a cursor passed over (ghost)
    spoiled     \* lines whose spool file was evicted or sent half-written,
                \* or could not be written at all, or that were sent without
                \* their lines (ghost)

tail    == <<cursor, readTo, sentTo>>
ghosts  == <<skipped, spoiled>>
vpnVars == <<logged, tail, follower, ending, shrunk, spoolDir, received,
             ghosts>>

Files   == [from : 1..(MaxLines + 1), to : Lines, whole : BOOLEAN]
In(f)   == f.from..f.to
Batch   == (sentTo + 1)..readTo
Carried == IF shrunk THEN {} ELSE Batch   \* what is left of it in the payload

VpnTypeOK ==
    /\ logged \in 0..MaxLines
    /\ cursor \in 0..MaxLines \cup {NoCursor}
    /\ follower \in {"start", "tail", "send", "spool", "write", "save", "pause"}
    /\ {readTo, sentTo} \subseteq 0..logged /\ sentTo <= readTo
    /\ ending \in BOOLEAN /\ shrunk \in BOOLEAN
    /\ spoolDir \in Seq(Files) /\ Len(spoolDir) <= VpnSpool + 1
    /\ {received, skipped, spoiled} \subseteq SUBSET Lines

VpnInit ==
    /\ logged = 0
    /\ cursor = NoCursor
    /\ follower = "start"
    /\ readTo = 0 /\ sentTo = 0 /\ ending = FALSE /\ shrunk = FALSE
    /\ spoolDir = <<>>
    /\ received = {} /\ skipped = {} /\ spoiled = {}

-----------------------------------------------------------------------------
(* The follower thread: follower_loop *)

(* _spawn_journalctl: after the cursor, or from the end of the journal. *)
FollowerStarts ==
    /\ follower = "start"
    /\ LET from == IF cursor = NoCursor THEN logged ELSE cursor
       IN  readTo' = from /\ sentTo' = from
    /\ skipped' = IF cursor = NoCursor THEN skipped \cup 1..logged ELSE skipped
    /\ ending' = FALSE /\ shrunk' = FALSE
    /\ follower' = "tail"
    /\ UNCHANGED <<logged, cursor, spoolDir, received, spoiled>>

ReadsLine ==
    /\ follower = "tail"
    /\ readTo < logged /\ readTo - sentTo < BatchMax
    /\ readTo' = readTo + 1
    /\ UNCHANGED <<logged, cursor, sentTo, follower, ending, shrunk, spoolDir, received, ghosts>>

(* Mutant: the cursor is saved before the batch is sent. *)
SavesAtOnce == cursor' = readTo
SavesLater  == cursor' = cursor

(* _flush_follower_batch, after a line that filled the batch or came late. *)
(* _shrink_for_sqs takes the lines out of a payload of too many bytes; it  *)
(* is sent or spooled, and the cursor moved, all the same.                 *)
BatchReady ==
    /\ follower = "tail" /\ Batch # {}
    /\ SavesLater
    /\ shrunk' \in BOOLEAN
    /\ follower' = "send"
    /\ UNCHANGED <<logged, readTo, sentTo, ending, spoolDir, received, ghosts>>

(* journalctl ends, or reading from it fails: the batch is flushed as well. *)
TailEnds ==
    /\ follower = "tail"
    /\ ending' = TRUE
    /\ shrunk' \in IF Batch = {} THEN {FALSE} ELSE BOOLEAN
    /\ follower' = IF Batch = {} THEN "pause" ELSE "send"
    /\ UNCHANGED <<logged, tail, spoolDir, received, ghosts>>

BatchSent ==
    /\ follower = "send"
    /\ received' = received \cup Carried
    /\ follower' = "save"
    /\ UNCHANGED <<logged, tail, ending, shrunk, spoolDir, ghosts>>

BatchRefused ==
    /\ follower = "send"
    /\ follower' = "spool"
    /\ UNCHANGED <<logged, tail, ending, shrunk, spoolDir, received, ghosts>>

(* _spool creates the file, under no lock, *)
SpoolCreated ==
    /\ follower = "spool"
    /\ Len(spoolDir) <= VpnSpool   \* bound: one half-written file too many
    /\ spoolDir' = Append(spoolDir, [from |-> IF shrunk THEN readTo + 1 ELSE sentTo + 1,
                                     to |-> readTo, whole |-> FALSE])
    /\ follower' = "write"
    /\ UNCHANGED <<logged, tail, ending, shrunk, received, ghosts>>

BeingWritten(k) == follower = "write" /\ k = Len(spoolDir) /\ ~spoolDir[k].whole
                   /\ In(spoolDir[k]) = Carried

(* writes it (in vain when it was unlinked meanwhile), and makes room.     *)
SpoolWritten ==
    /\ follower = "write"
    /\ LET dir    == [k \in DOMAIN spoolDir |->
                        [spoolDir[k] EXCEPT !.whole = @ \/ BeingWritten(k)]]
           excess == 1..(Len(dir) - VpnSpool)
       IN  /\ spoolDir' = SubSeq(dir, 1 + Cardinality(excess), Len(dir))
           /\ spoiled' = spoiled \cup UNION {In(dir[k]) : k \in excess}
    /\ follower' = "save"
    /\ UNCHANGED <<logged, tail, ending, shrunk, received, skipped>>

(* Both failed: send says so, returns, and the cursor moves on. *)
SpoolFails ==
    /\ follower \in {"spool", "write"}
    /\ spoiled' = spoiled \cup Carried
    /\ follower' = "save"
    /\ UNCHANGED <<logged, tail, ending, shrunk, spoolDir, received, skipped>>

(* _save_cursor replaces the file, or complains and goes on. *)
CursorSaved ==
    /\ follower = "save"
    /\ cursor' \in {readTo, cursor}
    /\ sentTo' = readTo /\ shrunk' = FALSE
    /\ spoiled' = IF shrunk THEN spoiled \cup Batch ELSE spoiled
    /\ follower' = IF ending THEN "pause" ELSE "tail"
    /\ UNCHANGED <<logged, readTo, ending, spoolDir, received, skipped>>

(* A run of journalctl that took no time clears the cursor. *)
FollowerRestarts ==
    /\ follower = "pause"
    /\ cursor' \in {cursor, NoCursor}
    /\ follower' = "start"
    /\ UNCHANGED <<logged, readTo, sentTo, ending, shrunk, spoolDir, received, ghosts>>

-----------------------------------------------------------------------------
(* Either thread flushes the spool before it sends; surroundings *)

(* _flush_spool, under its lock: the follower before it sends a batch, the *)
(* heartbeat thread at any time.  A file that is still being written is    *)
(* refused by the queue if it is empty, and spoiled if it is not; one that *)
(* a crash left so is of no use to anyone.                                 *)
FlushesFile ==
    /\ spoolDir # <<>>
    /\ received' = IF spoolDir[1].whole THEN received \cup In(spoolDir[1]) ELSE received
    /\ spoiled'  = IF BeingWritten(1)   THEN spoiled \cup Carried ELSE spoiled
    /\ spoolDir' = Tail(spoolDir)
    /\ UNCHANGED <<logged, tail, follower, ending, shrunk, skipped>>

AuthLine ==
    /\ logged < MaxLines
    /\ logged' = logged + 1
    /\ UNCHANGED <<tail, follower, ending, shrunk, spoolDir, received, ghosts>>

(* The process ends and is started again; what it wrote stays. *)
VpnCrash ==
    /\ follower # "start"
    /\ follower' = "start"
    /\ UNCHANGED <<logged, tail, ending, shrunk, spoolDir, received, ghosts>>

VpnNext ==
    \/ FollowerStarts \/ ReadsLine \/ BatchReady \/ TailEnds \/ BatchSent \/ BatchRefused
    \/ SpoolCreated \/ SpoolWritten \/ SpoolFails \/ CursorSaved \/ FollowerRestarts
    \/ FlushesFile \/ AuthLine \/ VpnCrash

VpnSpec == VpnInit /\ [][VpnNext]_vpnVars

-----------------------------------------------------------------------------
(* Properties *)

InSpool(l) == \E k \in DOMAIN spoolDir : spoolDir[k].whole /\ l \in In(spoolDir[k])

(***************************************************************************)
(* No crash makes a gap: every line that the cursor file is past was       *)
(* received or lies in a spool file that is written to the end.  The other *)
(* ways out are all the code has: a start without a cursor, a spool at its *)
(* cap, a send that could neither send nor spool, a file that the other    *)
(* thread flushed while it was being written, and a batch of more bytes    *)
(* than the queue takes, which goes out without its lines.                 *)
(***************************************************************************)
CursorCovered ==
    \A l \in 1..cursor : l \in received \cup skipped \cup spoiled \/ InSpool(l)
=============================================================================
