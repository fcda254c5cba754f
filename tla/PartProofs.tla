------------------------------ MODULE PartProofs ------------------------------
(***************************************************************************)
(* What is proved of components that share no state: the VPN agent, the    *)
(* sessions of the user interface, the answers about addresses, the        *)
(* investigation of an event, the retry of all connectors, the senders of  *)
(* notifications, the reader of the audit log, the tables behind a         *)
(* database session, the settings a process works with, the pages that     *)
(* show a notification rule and what an event matches.  For each of them:  *)
(* its inductive invariant, that it holds at the start, is kept by a step  *)
(* and by a stutter and covers the property (XStarts, XStep, XRests,       *)
(* XCovers), and the theorems.                                             *)
(***************************************************************************)
EXTENDS VpnAgent, LoginSessions, IntelFeeds, Investigations, RetryBatch,
        NoteSenders, FileActors, RdsTrace, LiveSettings, RouteViews, EventMatching,
        FiniteSetTheorems, TLAPS

LEMMA AtMostOne ==
    ASSUME NEW S, NEW x
    PROVE  /\ Cardinality({}) <= 1 /\ Cardinality({x}) <= 1
<1>1. Cardinality({}) = 0
  BY FS_EmptySet
<1>2. Cardinality({x}) = 1
  BY FS_Singleton
<1>. QED  BY <1>1, <1>2

-----------------------------------------------------------------------------
(* VpnAgent.                                                               *)

(* The cursor is of the journal, and a batch that is on its way has lines. *)
CursorOrdered ==
    /\ cursor <= logged
    /\ follower \in {"send", "spool", "write", "save"} => sentTo < readTo

LineCovered(l) == l \in received \cup skipped \cup spoiled \/ InSpool(l)

(* What the follower is past is covered, wherever it is: the cursor file   *)
(* says less than that.  A batch that is being written is the last file,   *)
(* unless the other thread took the file away and counted it as spoiled.   *)
LinesCovered ==
    /\ \A l \in 1..cursor : LineCovered(l)
    /\ follower # "start" => \A l \in 1..sentTo : LineCovered(l)
    /\ follower = "write" => \/ spoolDir # <<>> /\ BeingWritten(Len(spoolDir))
                             \/ \A l \in Carried : LineCovered(l)
    /\ follower = "save" => \A l \in Carried : LineCovered(l)

-----------------------------------------------------------------------------
(* Types                                                                   *)

(* Writing the spool completes the file that is being written and drops    *)
(* the oldest ones, as many as are too many.                               *)
LEMMA SpoolShrinks ==
    ASSUME VpnTypeOK, SpoolWritten
    PROVE  \E n \in 0..Len(spoolDir) :
              /\ spoolDir' \in Seq(Files) /\ Len(spoolDir') = Len(spoolDir) - n
              /\ Len(spoolDir') <= VpnSpool
              /\ \A k \in 1..Len(spoolDir') :
                    /\ In(spoolDir'[k]) = In(spoolDir[k + n])
                    /\ spoolDir[k + n].whole \/ BeingWritten(k + n) => spoolDir'[k].whole
              /\ spoiled' = spoiled \cup UNION {In(spoolDir[k]) : k \in 1..n}
<1>. DEFINE dir == [k \in DOMAIN spoolDir |->
                      [spoolDir[k] EXCEPT !.whole = @ \/ BeingWritten(k)]]
            n   == Cardinality(1..(Len(dir) - VpnSpool))
<1>0. VpnSpool \in Nat \ {0} /\ spoolDir \in Seq(Files) /\ Len(spoolDir) \in Nat
      /\ DOMAIN spoolDir = 1..Len(spoolDir)
  BY VpnAssumption DEF VpnTypeOK
<1>1. /\ spoolDir' = SubSeq(dir, 1 + n, Len(dir))
      /\ spoiled' = spoiled \cup UNION {In(dir[k]) : k \in 1..(Len(dir) - VpnSpool)}
  BY DEF SpoolWritten
<1>2. ASSUME NEW k \in DOMAIN spoolDir
      PROVE  /\ dir[k] \in Files /\ In(dir[k]) = In(spoolDir[k])
             /\ spoolDir[k].whole \/ BeingWritten(k) => dir[k].whole
  <2>1. spoolDir[k] \in Files /\ dir[k] = [spoolDir[k] EXCEPT !.whole = @ \/ BeingWritten(k)]
    BY <1>0, <1>2
  <2>2. spoolDir[k].whole \/ BeingWritten(k) \in BOOLEAN
    BY <2>1 DEF Files, BeingWritten
  <2>3. /\ dir[k].from = spoolDir[k].from /\ dir[k].to = spoolDir[k].to
        /\ dir[k].whole = (spoolDir[k].whole \/ BeingWritten(k)) /\ dir[k] \in Files
    <3>. HIDE DEF dir
    <3>. QED  BY <2>1, <2>2 DEF Files
  <2>. HIDE DEF dir
  <2>. QED  BY <2>3 DEF In
<1>3. dir \in Seq(Files) /\ Len(dir) = Len(spoolDir)
  <2>1. dir = [k \in 1..Len(spoolDir) |-> dir[k]]
    BY <1>0
  <2>. HIDE DEF dir
  <2>2. dir \in [1..Len(spoolDir) -> Files]
    BY <1>0, <1>2, <2>1
  <2>. QED  BY <1>0, <2>2
<1>. HIDE DEF dir
<1>4. n = IF Len(spoolDir) > VpnSpool THEN Len(spoolDir) - VpnSpool ELSE 0
  <2>1. Len(dir) - VpnSpool \in Int
    BY <1>0, <1>3
  <2>2. n = IF 1 > Len(dir) - VpnSpool THEN 0 ELSE Len(dir) - VpnSpool - 1 + 1
    BY <2>1, FS_Interval
  <2>. QED  BY <1>0, <1>3, <2>2
<1>. HIDE DEF n
<1>5. n \in 0..Len(spoolDir) /\ Len(spoolDir) - n <= VpnSpool
      /\ 1..n = 1..(Len(dir) - VpnSpool)
  <2>1. CASE Len(spoolDir) > VpnSpool
    <3>1. n = Len(spoolDir) - VpnSpool /\ n = Len(dir) - VpnSpool
      BY <1>3, <1>4, <2>1
    <3>2. n \in 0..Len(spoolDir) /\ Len(spoolDir) - n <= VpnSpool
      BY <1>0, <2>1, <3>1
    <3>. QED  BY <3>1, <3>2
  <2>2. CASE ~(Len(spoolDir) > VpnSpool)
    <3>1. n = 0
      BY <1>4, <2>2
    <3>2. 1..n = {} /\ 1..(Len(dir) - VpnSpool) = {}
      BY <1>0, <1>3, <2>2, <3>1
    <3>. QED  BY <1>0, <2>2, <3>1, <3>2
  <2>. QED  BY <2>1, <2>2
<1>6. spoolDir' \in Seq(Files) /\ Len(spoolDir') = Len(spoolDir) - n
      /\ \A k \in 1..Len(spoolDir') : spoolDir'[k] = dir[k + n]
  <2>1. /\ n \in Nat /\ n <= Len(dir) /\ Len(dir) \in Nat
        /\ 1 + n \in 1..(Len(dir) + 1)
    <3>1. n \in Nat /\ n <= Len(spoolDir)
      BY <1>0, <1>5
    <3>. QED  BY <1>0, <1>3, <3>1
  <2>2. SubSeq(dir, 1 + n, Len(dir)) \in Seq(Files)
    BY <1>3, <2>1
  <2>3. Len(SubSeq(dir, 1 + n, Len(dir))) = Len(dir) - n
    BY <1>3, <1>5, <2>1
  <2>4. ASSUME NEW k \in 1..(Len(dir) - n)
        PROVE  SubSeq(dir, 1 + n, Len(dir))[k] = dir[k + n]
    BY <1>3, <2>1, <2>4
  <2>. QED  BY <1>1, <1>3, <2>2, <2>3, <2>4
<1>7. ASSUME NEW k \in 1..Len(spoolDir')
      PROVE  /\ In(spoolDir'[k]) = In(spoolDir[k + n])
             /\ spoolDir[k + n].whole \/ BeingWritten(k + n) => spoolDir'[k].whole
  <2>1. k + n \in DOMAIN spoolDir
    BY <1>0, <1>5, <1>6
  <2>. QED  BY <1>2, <1>6, <2>1
<1>8. \A k \in 1..n : In(dir[k]) = In(spoolDir[k])
  BY <1>0, <1>2, <1>5
<1>9. {In(dir[k]) : k \in 1..n} = {In(spoolDir[k]) : k \in 1..n}
  BY <1>8
<1>10. spoiled' = spoiled \cup UNION {In(spoolDir[k]) : k \in 1..n}
  BY <1>1, <1>5, <1>9
<1>. QED  BY <1>5, <1>6, <1>7, <1>10

LEMMA VpnTyped ==
    ASSUME VpnTypeOK, CursorOrdered, VpnNext
    PROVE  VpnTypeOK' /\ CursorOrdered'
<1>0. /\ MaxLines \in Nat /\ BatchMax \in Nat \ {0} /\ VpnSpool \in Nat \ {0}
  BY VpnAssumption
<1>1. /\ logged \in Nat /\ logged <= MaxLines /\ readTo \in Nat /\ sentTo \in Nat
      /\ readTo <= logged /\ sentTo <= readTo
      /\ cursor \in Int /\ cursor >= NoCursor /\ cursor <= logged
      /\ spoolDir \in Seq(Files) /\ Len(spoolDir) \in Nat /\ Len(spoolDir) <= VpnSpool + 1
      /\ \A l \in 1..logged : l \in Lines
      /\ {received, skipped, spoiled} \subseteq SUBSET Lines
  BY <1>0 DEF VpnTypeOK, CursorOrdered, Lines, NoCursor
<1>2. Batch \subseteq Lines /\ Carried \subseteq Lines
  BY <1>0, <1>1 DEF Batch, Carried, Lines
<1>3. \A k \in DOMAIN spoolDir : spoolDir[k] \in Files /\ In(spoolDir[k]) \subseteq Lines
  <2>1. \A k \in DOMAIN spoolDir : spoolDir[k] \in Files
    BY <1>1
  <2>. QED  BY <1>0, <2>1 DEF Files, In, Lines
<1>4. CASE FollowerStarts
  <2>1. /\ readTo' = sentTo' /\ readTo' \in 0..logged
        /\ ending' = FALSE /\ shrunk' = FALSE /\ follower' = "tail"
        /\ UNCHANGED <<logged, cursor, spoolDir, received, spoiled>>
    BY <1>1, <1>4 DEF FollowerStarts, NoCursor
  <2>2. skipped' \subseteq Lines
    BY <1>1, <1>4 DEF FollowerStarts
  <2>3. readTo' <= readTo'
    BY <1>1, <2>1
  <2>. QED  BY <2>1, <2>2, <2>3 DEF VpnTypeOK, CursorOrdered
<1>5. CASE ReadsLine
  <2>1. /\ readTo' = readTo + 1 /\ readTo < logged /\ follower = "tail"
        /\ UNCHANGED <<logged, cursor, sentTo, follower, ending, shrunk, spoolDir, received,
                       skipped, spoiled>>
    BY <1>5 DEF ReadsLine, ghosts
  <2>2. readTo' \in 0..logged /\ sentTo <= readTo'
    BY <1>1, <2>1
  <2>. QED  BY <2>1, <2>2 DEF VpnTypeOK, CursorOrdered
<1>16. CASE BatchReady \/ TailEnds
  <2>1. /\ ending' \in BOOLEAN /\ shrunk' \in BOOLEAN
        /\ follower' = "pause" \/ (follower' = "send" /\ Batch # {})
        /\ UNCHANGED <<logged, cursor, readTo, sentTo, spoolDir, received, skipped, spoiled>>
    BY <1>16 DEF BatchReady, SavesLater, TailEnds, tail, ghosts, VpnTypeOK
  <2>2. Batch # {} => sentTo < readTo
    BY <1>1 DEF Batch
  <2>. QED  BY <2>1, <2>2 DEF VpnTypeOK, CursorOrdered
<1>6. CASE BatchSent
  <2>1. /\ received' = received \cup Carried /\ follower' = "save" /\ follower = "send"
        /\ UNCHANGED <<logged, cursor, readTo, sentTo, ending, shrunk, spoolDir, skipped, spoiled>>
    BY <1>6 DEF BatchSent, tail, ghosts
  <2>2. received' \subseteq Lines
    BY <1>1, <1>2, <2>1
  <2>. QED  BY <2>1, <2>2 DEF VpnTypeOK, CursorOrdered
<1>7. CASE BatchRefused
  <2>1. /\ follower' = "spool" /\ follower = "send"
        /\ UNCHANGED <<logged, cursor, readTo, sentTo, ending, shrunk, spoolDir, received, skipped,
                       spoiled>>
    BY <1>7 DEF BatchRefused, tail, ghosts
  <2>. QED  BY <2>1 DEF VpnTypeOK, CursorOrdered
<1>8. CASE SpoolCreated
  <2>. DEFINE f == [from |-> IF shrunk THEN readTo + 1 ELSE sentTo + 1,
                to |-> readTo, whole |-> FALSE]
  <2>1. f \in Files
    BY <1>0, <1>1, <1>8 DEF SpoolCreated, CursorOrdered, Files, Lines
  <2>2. spoolDir' = Append(spoolDir, f) /\ Len(spoolDir) <= VpnSpool
    BY <1>8 DEF SpoolCreated
  <2>3. spoolDir' \in Seq(Files) /\ Len(spoolDir') <= VpnSpool + 1
    <3>. HIDE DEF f
    <3>. QED  BY <1>0, <1>1, <2>1, <2>2
  <2>. QED  BY <1>8, <2>3 DEF SpoolCreated, VpnTypeOK, CursorOrdered, tail, ghosts
<1>9. CASE SpoolWritten
  <2>1. PICK n \in 0..Len(spoolDir) :
           /\ spoolDir' \in Seq(Files) /\ Len(spoolDir') <= VpnSpool
           /\ spoiled' = spoiled \cup UNION {In(spoolDir[k]) : k \in 1..n}
    BY <1>9, SpoolShrinks
  <2>2. UNION {In(spoolDir[k]) : k \in 1..n} \subseteq Lines
    <3>1. \A k \in 1..n : In(spoolDir[k]) \subseteq Lines
      BY <1>1, <1>3
    <3>. QED  BY <3>1, Zenon
  <2>3. spoiled' \subseteq Lines
    BY <1>1, <2>1, <2>2
  <2>4. /\ UNCHANGED <<logged, cursor, readTo, sentTo, ending, shrunk, received, skipped>>
        /\ follower' = "save" /\ follower = "write"
    BY <1>9 DEF SpoolWritten, tail
  <2>5. Len(spoolDir') <= VpnSpool + 1
    BY <1>0, <2>1
  <2>. QED  BY <2>1, <2>3, <2>4, <2>5 DEF VpnTypeOK, CursorOrdered
<1>10. CASE SpoolFails
  BY <1>0, <1>1, <1>2, <1>10 DEF SpoolFails, VpnTypeOK, CursorOrdered, tail
<1>11. CASE CursorSaved
  <2>1. /\ follower' \in {"pause", "tail"} /\ sentTo' = readTo /\ shrunk' = FALSE
        /\ cursor' \in {readTo, cursor}
        /\ spoiled' = IF shrunk THEN spoiled \cup Batch ELSE spoiled
        /\ UNCHANGED <<logged, readTo, ending, spoolDir, received, skipped>>
    BY <1>11 DEF CursorSaved
  <2>2. spoiled' \subseteq Lines
    BY <1>1, <1>2, <2>1
  <2>3. cursor' \in 0..MaxLines \cup {NoCursor} /\ cursor' <= logged'
    BY <1>0, <1>1, <2>1 DEF VpnTypeOK
  <2>4. {readTo', sentTo'} \subseteq 0..logged' /\ sentTo' <= readTo'
    BY <1>1, <2>1
  <2>. QED  BY <2>1, <2>2, <2>3, <2>4 DEF VpnTypeOK, CursorOrdered
<1>12. CASE FollowerRestarts
  BY <1>0, <1>1, <1>12 DEF FollowerRestarts, VpnTypeOK, CursorOrdered, ghosts, NoCursor
<1>13. CASE FlushesFile
  <2>1. Tail(spoolDir) \in Seq(Files) /\ Len(Tail(spoolDir)) <= VpnSpool + 1
        /\ 1 \in DOMAIN spoolDir
    BY <1>0, <1>1, <1>13 DEF FlushesFile
  <2>. QED  BY <1>1, <1>2, <1>3, <1>13, <2>1 DEF FlushesFile, VpnTypeOK, CursorOrdered, tail
<1>14. CASE AuthLine
  BY <1>0, <1>1, <1>14 DEF AuthLine, VpnTypeOK, CursorOrdered, tail, ghosts
<1>15. CASE VpnCrash
  BY <1>1, <1>15 DEF VpnCrash, VpnTypeOK, CursorOrdered, tail, ghosts
<1>. QED  BY <1>4, <1>5, <1>6, <1>7, <1>8, <1>9, <1>10, <1>11, <1>12, <1>13, <1>14, <1>15,
        <1>16
     DEF VpnNext

-----------------------------------------------------------------------------
(* Coverage                                                                *)

(* What the spool loses is received, spoiled, or was never whole.          *)
LEMMA FlushCovers ==
    ASSUME VpnTypeOK, FlushesFile
    PROVE  /\ \A l \in Lines : LineCovered(l) => LineCovered(l)'
           /\ spoolDir' = Tail(spoolDir)
           /\ BeingWritten(1) => Carried \subseteq spoiled'
<1>1. /\ spoolDir \in Seq(Files) /\ spoolDir # <<>> /\ spoolDir' = Tail(spoolDir)
      /\ UNCHANGED skipped
      /\ received' = IF spoolDir[1].whole THEN received \cup In(spoolDir[1]) ELSE received
      /\ spoiled'  = IF BeingWritten(1)   THEN spoiled \cup Carried ELSE spoiled
  BY DEF FlushesFile, VpnTypeOK
<1>2. /\ Len(spoolDir) \in Nat \ {0} /\ Len(spoolDir') = Len(spoolDir) - 1
      /\ \A k \in 1..Len(spoolDir') : spoolDir'[k] = spoolDir[k + 1]
      /\ DOMAIN spoolDir = 1..Len(spoolDir) /\ DOMAIN spoolDir' = 1..Len(spoolDir')
  BY <1>1
<1>3. ASSUME NEW l \in Lines, InSpool(l)
      PROVE  l \in received' \/ InSpool(l)'
  <2>1. PICK k \in DOMAIN spoolDir : spoolDir[k].whole /\ l \in In(spoolDir[k])
    BY <1>3 DEF InSpool
  <2>2. CASE k = 1
    BY <1>1, <2>1, <2>2
  <2>3. CASE k # 1
    <3>1. k - 1 \in 1..Len(spoolDir') /\ k - 1 + 1 = k
      BY <1>2, <2>3
    <3>2. spoolDir'[k - 1] = spoolDir[k]
      BY <1>2, <3>1
    <3>3. In(spoolDir'[k - 1]) = In(spoolDir[k])
      BY <3>2 DEF In
    <3>. QED  BY <1>2, <2>1, <3>1, <3>2, <3>3 DEF InSpool, In
  <2>. QED  BY <2>2, <2>3
<1>4. received \subseteq received' /\ spoiled \subseteq spoiled' /\ skipped' = skipped
  BY <1>1
<1>5. \A l \in Lines : LineCovered(l) => LineCovered(l)'
  BY <1>3, <1>4 DEF LineCovered
<1>. QED  BY <1>1, <1>5

(* Writing the spool covers the batch, and uncovers nothing.               *)
LEMMA WriteCovers ==
    ASSUME VpnTypeOK, CursorOrdered, SpoolWritten,
           \/ spoolDir # <<>> /\ BeingWritten(Len(spoolDir))
           \/ \A l \in Carried : LineCovered(l)
    PROVE  /\ \A l \in Lines : LineCovered(l) => LineCovered(l)'
           /\ \A l \in Carried : LineCovered(l)'
<1>0. /\ UNCHANGED <<received, skipped, readTo, sentTo, shrunk>>
      /\ spoolDir \in Seq(Files) /\ Len(spoolDir) \in Nat
      /\ DOMAIN spoolDir = 1..Len(spoolDir)
  BY DEF SpoolWritten, tail, VpnTypeOK
<1>1. PICK n \in 0..Len(spoolDir) :
         /\ spoolDir' \in Seq(Files) /\ Len(spoolDir') = Len(spoolDir) - n
         /\ \A k \in 1..Len(spoolDir') :
               /\ In(spoolDir'[k]) = In(spoolDir[k + n])
               /\ spoolDir[k + n].whole \/ BeingWritten(k + n) => spoolDir'[k].whole
         /\ spoiled' = spoiled \cup UNION {In(spoolDir[k]) : k \in 1..n}
  BY SpoolShrinks
<1>2. ASSUME NEW k \in DOMAIN spoolDir, spoolDir[k].whole \/ BeingWritten(k),
             NEW l \in In(spoolDir[k])
      PROVE  l \in spoiled' \/ InSpool(l)'
  <2>1. CASE k <= n
    <3>1. k \in 1..n
      BY <1>0, <1>1, <2>1
    <3>. QED  BY <1>1, <1>2, <3>1
  <2>2. CASE k > n
    <3>. DEFINE m == k - n
    <3>1. m \in 1..Len(spoolDir') /\ m + n = k
      BY <1>0, <1>1, <2>2
    <3>. HIDE DEF m
    <3>2. In(spoolDir'[m]) = In(spoolDir[k]) /\ spoolDir'[m].whole
      BY <1>1, <1>2, <3>1
    <3>3. m \in DOMAIN spoolDir'
      BY <1>1, <3>1
    <3>. QED  BY <1>2, <3>2, <3>3 DEF InSpool, In
  <2>. QED  BY <1>0, <1>1, <2>1, <2>2
<1>3. \A l : l \in spoiled => l \in spoiled'
  BY <1>1
<1>4. ASSUME NEW l \in Lines, LineCovered(l)
      PROVE  LineCovered(l)'
  <2>1. CASE l \in received \cup skipped \cup spoiled
    BY <1>0, <1>3, <2>1 DEF LineCovered
  <2>2. CASE InSpool(l)
    <3>1. PICK k \in DOMAIN spoolDir : spoolDir[k].whole /\ l \in In(spoolDir[k])
      BY <2>2 DEF InSpool
    <3>. QED  BY <1>2, <3>1 DEF LineCovered
  <2>. QED  BY <1>4, <2>1, <2>2 DEF LineCovered
<1>5. ASSUME NEW l \in Carried
      PROVE  LineCovered(l)'
  <2>1. l \in Lines
    BY VpnAssumption DEF VpnTypeOK, Batch, Carried, Lines
  <2>2. CASE spoolDir # <<>> /\ BeingWritten(Len(spoolDir))
    <3>1. Len(spoolDir) \in DOMAIN spoolDir
      BY <1>0, <2>2
    <3>2. l \in In(spoolDir[Len(spoolDir)])
      BY <2>2 DEF BeingWritten
    <3>. QED  BY <1>2, <2>2, <3>1, <3>2 DEF LineCovered
  <2>. QED  BY <1>4, <2>1, <2>2
<1>. QED  BY <1>4, <1>5

LEMMA VpnBehind ==
    ASSUME VpnTypeOK, CursorOrdered, LinesCovered, VpnNext
    PROVE  LinesCovered'
<1>0. /\ MaxLines \in Nat /\ logged \in Nat /\ logged <= MaxLines
      /\ readTo \in Nat /\ sentTo \in Nat /\ readTo <= logged /\ sentTo <= readTo
      /\ cursor \in Int /\ cursor >= NoCursor /\ cursor <= logged
      /\ spoolDir \in Seq(Files) /\ Len(spoolDir) \in Nat /\ DOMAIN spoolDir = 1..Len(spoolDir)
  BY VpnAssumption DEF VpnTypeOK, CursorOrdered, NoCursor
<1>1. /\ \A l \in 1..cursor : l \in Lines
      /\ \A l \in 1..sentTo : l \in Lines
      /\ \A l \in Batch : l \in Lines
      /\ \A l \in Carried : l \in Lines
      /\ \A l \in 1..readTo : l \in 1..sentTo \/ l \in Batch
  BY <1>0 DEF Lines, Batch, Carried, NoCursor
<1>2. UNCHANGED <<spoolDir, received, skipped, spoiled>> => \A l : LineCovered(l)' <=> LineCovered(l)
  BY DEF LineCovered, InSpool
<1>3. CASE FollowerStarts
  <2>1. /\ follower' = "tail" /\ UNCHANGED <<cursor, spoolDir, received, spoiled>>
        /\ skipped \subseteq skipped' /\ sentTo' = (IF cursor = NoCursor THEN logged ELSE cursor)
        /\ cursor = NoCursor => 1..logged \subseteq skipped'
    BY <1>3 DEF FollowerStarts
  <2>2. \A l : LineCovered(l) => LineCovered(l)'
    BY <2>1 DEF LineCovered, InSpool
  <2>3. \A l \in 1..sentTo' : LineCovered(l)'
    <3>1. CASE cursor = NoCursor
      BY <2>1, <3>1 DEF LineCovered
    <3>2. CASE cursor # NoCursor
      BY <2>1, <2>2, <3>2 DEF LinesCovered
    <3>. QED  BY <3>1, <3>2
  <2>. QED  BY <2>1, <2>2, <2>3 DEF LinesCovered
<1>4. CASE ReadsLine \/ BatchReady \/ TailEnds \/ BatchRefused
  <2>1. /\ UNCHANGED <<cursor, sentTo, spoolDir, received, skipped, spoiled>>
        /\ follower # "start" /\ follower' \notin {"write", "save"}
    BY <1>4 DEF ReadsLine, BatchReady, SavesLater, TailEnds, BatchRefused, tail, ghosts
  <2>. QED  BY <1>2, <2>1 DEF LinesCovered
<1>5. CASE AuthLine \/ VpnCrash
  <2>1. /\ UNCHANGED <<cursor, sentTo, readTo, shrunk, spoolDir, received, skipped, spoiled>>
        /\ follower' = follower \/ follower' = "start"
    BY <1>5 DEF AuthLine, VpnCrash, tail, ghosts
  <2>2. Carried' = Carried /\ \A k : BeingWritten(k)' => BeingWritten(k)
    BY <2>1 DEF Batch, Carried, BeingWritten
  <2>3. \A k : follower' = follower /\ BeingWritten(k) => BeingWritten(k)'
    BY <2>1 DEF Batch, Carried, BeingWritten, In
  <2>. QED  BY <1>2, <2>1, <2>2, <2>3 DEF LinesCovered
<1>6. CASE BatchSent
  <2>1. /\ UNCHANGED <<cursor, sentTo, readTo, shrunk, spoolDir, skipped, spoiled>>
        /\ received' = received \cup Carried /\ follower = "send" /\ follower' = "save"
    BY <1>6 DEF BatchSent, tail, ghosts
  <2>2. \A l : LineCovered(l) => LineCovered(l)'
    BY <2>1 DEF LineCovered, InSpool
  <2>3. \A l \in Carried' : LineCovered(l)'
    BY <2>1 DEF LineCovered, Batch, Carried
  <2>. QED  BY <2>1, <2>2, <2>3 DEF LinesCovered
<1>7. CASE SpoolCreated
  <2>. DEFINE f == [from |-> IF shrunk THEN readTo + 1 ELSE sentTo + 1,
                to |-> readTo, whole |-> FALSE]
  <2>1. /\ UNCHANGED <<cursor, sentTo, readTo, shrunk, received, skipped, spoiled>>
        /\ spoolDir' = Append(spoolDir, f) /\ follower = "spool" /\ follower' = "write"
    BY <1>7 DEF SpoolCreated, tail, ghosts
  <2>2. f \in Files
    BY <1>0, <2>1 DEF CursorOrdered, Files, Lines
  <2>3. /\ Len(spoolDir') = Len(spoolDir) + 1 /\ spoolDir'[Len(spoolDir')] = f
        /\ \A k \in DOMAIN spoolDir : k \in DOMAIN spoolDir' /\ spoolDir'[k] = spoolDir[k]
    <3>. HIDE DEF f
    <3>. QED  BY <1>0, <2>1, <2>2
  <2>4. \A l : LineCovered(l) => LineCovered(l)'
    BY <2>1, <2>3 DEF LineCovered, InSpool, In
  <2>5. spoolDir' # <<>> /\ BeingWritten(Len(spoolDir))'
    <3>1. In(spoolDir'[Len(spoolDir')]) = Carried'
      <4>1. (readTo + 1)..readTo = {}
        BY <1>0
      <4>2. In(f) = Carried
        BY <4>1 DEF In, Batch, Carried
      <4>. QED  BY <2>1, <2>3, <4>2 DEF In, Batch, Carried
    <3>2. spoolDir' # <<>>
      BY <1>0, <2>3
    <3>. QED  BY <2>1, <2>3, <3>1, <3>2 DEF BeingWritten, In
  <2>. QED  BY <2>1, <2>4, <2>5 DEF LinesCovered
<1>8. CASE SpoolWritten
  <2>1. /\ UNCHANGED <<cursor, sentTo, readTo, shrunk>> /\ follower = "write" /\ follower' = "save"
    BY <1>8 DEF SpoolWritten, tail
  <2>2. /\ \A l \in Lines : LineCovered(l) => LineCovered(l)'
        /\ \A l \in Carried : LineCovered(l)'
    BY <1>8, <2>1, WriteCovers DEF LinesCovered
  <2>3. Carried' = Carried
    BY <2>1 DEF Batch, Carried
  <2>. QED  BY <1>1, <2>1, <2>2, <2>3 DEF LinesCovered
<1>9. CASE SpoolFails
  <2>1. /\ UNCHANGED <<cursor, sentTo, readTo, shrunk, spoolDir, received, skipped>>
        /\ spoiled' = spoiled \cup Carried /\ follower # "start" /\ follower' = "save"
    BY <1>9 DEF SpoolFails, tail
  <2>2. \A l : LineCovered(l) => LineCovered(l)'
    BY <2>1 DEF LineCovered, InSpool
  <2>3. \A l \in Carried' : LineCovered(l)'
    BY <2>1 DEF LineCovered, Batch, Carried
  <2>. QED  BY <2>1, <2>2, <2>3 DEF LinesCovered
<1>10. CASE CursorSaved
  <2>1. /\ UNCHANGED <<readTo, spoolDir, received, skipped>> /\ follower = "save"
        /\ spoiled' = IF shrunk THEN spoiled \cup Batch ELSE spoiled
        /\ sentTo' = readTo /\ cursor' \in {readTo, cursor} /\ follower' \in {"pause", "tail"}
    BY <1>10 DEF CursorSaved
  <2>2. \A l : LineCovered(l) => LineCovered(l)'
    BY <2>1 DEF LineCovered, InSpool
  <2>3. \A l \in Batch : LineCovered(l)'
    <3>1. CASE shrunk
      BY <2>1, <3>1 DEF LineCovered
    <3>2. CASE ~shrunk
      BY <2>1, <2>2, <3>2 DEF LinesCovered, Carried
    <3>. QED  BY <3>1, <3>2
  <2>4. \A l \in 1..readTo : LineCovered(l)'
    BY <1>1, <2>1, <2>2, <2>3 DEF LinesCovered
  <2>5. \A l \in 1..cursor' : LineCovered(l)'
    BY <2>1, <2>2, <2>4 DEF LinesCovered
  <2>. QED  BY <2>1, <2>4, <2>5 DEF LinesCovered
<1>11. CASE FollowerRestarts
  <2>1. /\ UNCHANGED <<spoolDir, received, skipped, spoiled>> /\ follower' = "start"
        /\ cursor' \in {cursor, NoCursor}
    BY <1>11 DEF FollowerRestarts, ghosts
  <2>2. \A l \in 1..cursor' : LineCovered(l)
    BY <2>1 DEF LinesCovered, NoCursor
  <2>. QED  BY <1>2, <2>1, <2>2 DEF LinesCovered
<1>12. CASE FlushesFile
  <2>1. UNCHANGED <<cursor, sentTo, readTo, shrunk, follower>>
    BY <1>12 DEF FlushesFile, tail
  <2>2. /\ \A l \in Lines : LineCovered(l) => LineCovered(l)'
        /\ spoolDir' = Tail(spoolDir)
        /\ BeingWritten(1) => Carried \subseteq spoiled'
    BY <1>12, FlushCovers
  <2>3. Carried' = Carried
    BY <2>1 DEF Batch, Carried
  <2>4. ASSUME follower = "write"
        PROVE  \/ spoolDir' # <<>> /\ BeingWritten(Len(spoolDir))'
               \/ \A l \in Carried : LineCovered(l)'
    <3>1. CASE \A l \in Carried : LineCovered(l)
      BY <1>1, <2>2, <3>1
    <3>2. CASE spoolDir # <<>> /\ BeingWritten(Len(spoolDir)) /\ Len(spoolDir) = 1
      BY <2>2, <3>2 DEF LineCovered
    <3>3. CASE spoolDir # <<>> /\ BeingWritten(Len(spoolDir)) /\ Len(spoolDir) # 1
      <4>1. /\ spoolDir' # <<>> /\ Len(spoolDir') = Len(spoolDir) - 1
            /\ spoolDir'[Len(spoolDir')] = spoolDir[Len(spoolDir)]
        <5>. DEFINE n == Len(spoolDir)
        <5>1. n \in Nat /\ n >= 2 /\ spoolDir # <<>>
          BY <1>0, <3>3
        <5>2. Len(Tail(spoolDir)) = n - 1 /\ \A k \in 1..(n - 1) : Tail(spoolDir)[k] = spoolDir[k + 1]
          BY <1>0, <5>1
        <5>3. n - 1 \in 1..(n - 1) /\ n - 1 + 1 = n
          BY <5>1
        <5>4. Tail(spoolDir)[n - 1] = spoolDir[n]
          BY <5>2, <5>3
        <5>5. Tail(spoolDir) # <<>>
          BY <5>1, <5>2
        <5>. QED  BY <2>2, <5>2, <5>4, <5>5
      <4>2. /\ follower = "write" /\ ~spoolDir[Len(spoolDir)].whole
            /\ In(spoolDir[Len(spoolDir)]) = Carried
        BY <3>3 DEF BeingWritten
      <4>3. /\ follower' = "write" /\ ~spoolDir'[Len(spoolDir')].whole
            /\ In(spoolDir'[Len(spoolDir')]) = Carried'
        BY <2>1, <2>3, <4>1, <4>2 DEF In
      <4>4. BeingWritten(Len(spoolDir))'
        BY <4>3 DEF BeingWritten, In
      <4>. QED  BY <4>1, <4>4
    <3>. QED  BY <2>4, <3>1, <3>2, <3>3 DEF LinesCovered
  <2>. QED  BY <1>1, <2>1, <2>2, <2>3, <2>4 DEF LinesCovered
<1>. QED  BY <1>3, <1>4, <1>5, <1>6, <1>7, <1>8, <1>9, <1>10, <1>11, <1>12 DEF VpnNext

VpnInv == VpnTypeOK /\ CursorOrdered /\ LinesCovered

LEMMA VpnStarts == VpnInit => VpnInv
<1>. SUFFICES ASSUME VpnInit PROVE VpnInv
  OBVIOUS
<1>1. CursorOrdered
  BY DEF VpnInit, CursorOrdered, NoCursor
<1>2. LinesCovered
  BY DEF VpnInit, LinesCovered, NoCursor
<1>3. spoolDir \in Seq(Files) /\ Len(spoolDir) <= VpnSpool + 1
  BY VpnAssumption DEF VpnInit
<1>4. /\ logged \in 0..MaxLines /\ readTo \in 0..logged /\ sentTo \in 0..logged
      /\ sentTo <= readTo /\ cursor \in 0..MaxLines \cup {NoCursor}
  BY VpnAssumption DEF VpnInit
<1>. QED  BY <1>1, <1>2, <1>3, <1>4 DEF VpnInit, VpnTypeOK, VpnInv

LEMMA VpnStep == VpnInv /\ VpnNext => VpnInv'
BY VpnTyped, VpnBehind DEF VpnInv

LEMMA VpnRests == VpnInv /\ UNCHANGED vpnVars => VpnInv'
<1>. SUFFICES ASSUME VpnInv, UNCHANGED vpnVars PROVE VpnInv'
  OBVIOUS
<1>0. VpnTypeOK /\ CursorOrdered /\ LinesCovered
  BY DEF VpnInv
<1>1. UNCHANGED <<logged, cursor, readTo, sentTo, follower, ending, shrunk, spoolDir, received,
                  skipped, spoiled>>
  BY DEF vpnVars, tail, ghosts
<1>2. VpnTypeOK' /\ CursorOrdered'
  BY <1>0, <1>1 DEF VpnTypeOK, CursorOrdered
<1>3. Carried' = Carried /\ \A l : LineCovered(l)' <=> LineCovered(l)
  BY <1>1 DEF Batch, Carried, LineCovered, InSpool
<1>4. BeingWritten(Len(spoolDir))' <=> BeingWritten(Len(spoolDir))
  BY <1>1 DEF BeingWritten, Batch, Carried
<1>5. LinesCovered'
  BY <1>0, <1>1, <1>3, <1>4 DEF LinesCovered
<1>. QED  BY <1>2, <1>5 DEF VpnInv

LEMMA VpnCovers == VpnInv => CursorCovered
BY DEF VpnInv, LinesCovered, CursorCovered, LineCovered

LEMMA VpnInvariant == VpnSpec => []VpnInv
<1>1. VpnInv /\ [VpnNext]_vpnVars => VpnInv'
  BY VpnStep, VpnRests
<1>. QED  BY <1>1, VpnStarts, PTL DEF VpnSpec

(***************************************************************************)
(* Whatever crashes, sends, spool files and flushes of the other thread    *)
(* come between, the cursor is of the journal, a batch is what was read    *)
(* after it, and the spool keeps its cap (follower_loop, _spool).          *)
(***************************************************************************)
THEOREM VpnTypeCorrect == VpnSpec => []VpnTypeOK
<1>1. VpnInv => VpnTypeOK
  BY DEF VpnInv
<1>. QED  BY <1>1, VpnInvariant, PTL

(***************************************************************************)
(* No crash makes a gap: every line the cursor file is past was received,  *)
(* lies in a spool file that is written to the end, or is one of those     *)
(* that a start without a cursor, a spool at its cap, a failing spool or a *)
(* flush of a half-written file gave up, or of a batch too large for the   *)
(* queue (follower_loop, _spool, _flush_spool and _shrink_for_sqs of       *)
(* scripts/vpn_agent.py).                                                  *)
(***************************************************************************)
THEOREM CursorHolds == VpnSpec => []CursorCovered
BY VpnInvariant, VpnCovers, PTL

-----------------------------------------------------------------------------
(* LoginSessions.                                                          *)

(* A session expires SessionTtl after it was last seen, by its row and by  *)
(* what a request has read or is about to write; who was seen has seenAt.  *)
SeenBefore ==
    /\ \A t \in Ticket : ticket[t] # Nobodys => seenAt[t] # 0 /\ ticket[t] <= seenAt[t] + SessionTtl
    /\ \A v \in visit : /\ seenAt[v.who] # 0
                        /\ v.until <= seenAt[v.who] + SessionTtl
                        /\ v.slides <= seenAt[v.who] + SessionTtl
    /\ \A t \in Ticket : seenAt[t] <= clock
    /\ \A t \in revoked : seenAt[t] # 0 /\ (ticket[t] = Nobodys \/ t \in lingers)
    /\ away <= SessionTtl

(* The user is seeded once, and only while there is none.                  *)
SeededOnce ==
    /\ boot = "seeding" => secret = "none"
    /\ replaced => secret = "own"

LoginInv == LoginTypeOK /\ SeenBefore /\ SeededOnce

(* What the steps of LoginSessions that are not of the middleware keep.    *)
LEMMA LoginStarts == LoginInit => LoginInv
<1>. SUFFICES ASSUME LoginInit PROVE LoginInv
  OBVIOUS
<1>1. LoginTypeOK
  <2>1. /\ 0 \in 0..(MaxClock + SessionTtl) /\ 0 \in 0..MaxClock /\ 1 \in 1..MaxClock
        /\ 0 \in 0..MaxGlitches
    BY LoginAssumption
  <2>. QED  BY <2>1, AtMostOne DEF LoginInit, LoginTypeOK, Nobodys
<1>2. SeenBefore /\ SeededOnce
  BY LoginAssumption DEF LoginInit, SeenBefore, SeededOnce, Nobodys
<1>. QED  BY <1>1, <1>2 DEF LoginInv

LEMMA GlitchTyped ==
    ASSUME LoginTypeOK, Glitch \/ UNCHANGED glitches
    PROVE  glitches' \in 0..MaxGlitches
BY LoginAssumption DEF Glitch, LoginTypeOK

LEMMA ServerKeeps ==
    ASSUME LoginInv, StartupLooks \/ StartupSeeds \/ ServerRestarts \/ ClockTicks
    PROVE  LoginInv'
<1>0. LoginTypeOK /\ SeenBefore /\ SeededOnce
  BY DEF LoginInv
<1>1. CASE ClockTicks
  <2>1. /\ clock \in 1..MaxClock /\ clock < MaxClock /\ clock' = clock + 1
        /\ UNCHANGED <<secret, boot, signer, ticket, visit, glitches, seenAt, revoked, lingers, away,
                       replaced>>
    BY <1>0, <1>1 DEF ClockTicks, LoginTypeOK
  <2>2. clock' \in 1..MaxClock
    BY <2>1, LoginAssumption
  <2>3. LoginTypeOK'
    BY <1>0, <2>1, <2>2 DEF LoginTypeOK
  <2>4. \A t \in Ticket : seenAt[t] <= clock'
    BY <1>0, <2>1 DEF LoginTypeOK, SeenBefore
  <2>. QED  BY <1>0, <2>1, <2>3, <2>4 DEF LoginInv, SeenBefore, SeededOnce
<1>2. CASE StartupLooks \/ StartupSeeds
  <2>1. glitches' \in 0..MaxGlitches
    BY <1>0, <1>2, GlitchTyped DEF StartupLooks, StartupSeeds
  <2>2. UNCHANGED <<signer, ticket, visit, clock, seenAt, revoked, lingers, away, replaced>>
    BY <1>2 DEF StartupLooks, StartupSeeds
  <2>3. /\ secret' \in {"none", "default", "own"} /\ boot' \in {"down", "seeding", "up"}
        /\ SeededOnce'
    BY <1>0, <1>2 DEF StartupLooks, StartupSeeds, Seeds, SeededOnce, LoginTypeOK
  <2>. QED  BY <1>0, <2>1, <2>2, <2>3 DEF LoginInv, LoginTypeOK, SeenBefore
<1>3. CASE ServerRestarts
  <2>1. glitches' \in 0..MaxGlitches
    BY <1>0, <1>3, GlitchTyped DEF ServerRestarts
  <2>2. /\ boot' = "down" /\ visit' = {} /\ signer' = [d \in Signer |-> "none"]
        /\ UNCHANGED <<secret, ticket, clock, seenAt, revoked, lingers, away, replaced>>
    BY <1>3 DEF ServerRestarts
  <2>. QED  BY <1>0, <2>1, <2>2, AtMostOne DEF LoginInv, LoginTypeOK, SeenBefore, SeededOnce
<1>. QED  BY <1>1, <1>2, <1>3

LEMMA EndpointsKeep ==
    ASSUME LoginInv,
           NEW d \in Signer,
           SignsIn(d) \/ ChangesPassword(d) \/ \E w \in {"enters", "changes"} : Verifies(d, w)
    PROVE  LoginInv'
<1>0. LoginTypeOK /\ SeenBefore /\ SeededOnce
  BY DEF LoginInv
<1>1. CASE SignsIn(d)
  <2>1. glitches' \in 0..MaxGlitches
    BY <1>0, <1>1, GlitchTyped DEF SignsIn
  <2>2. /\ signer' = [signer EXCEPT ![d] = "none"]
        /\ UNCHANGED <<secret, boot, visit, clock, revoked, lingers, away, replaced>>
        /\ \/ UNCHANGED <<ticket, seenAt>>
           \/ \E t \in Ticket : /\ seenAt[t] = 0 /\ seenAt' = [seenAt EXCEPT ![t] = clock]
                                /\ ticket' = [ticket EXCEPT ![t] = clock + SessionTtl]
    BY <1>1 DEF SignsIn
  <2>3. signer' \in [Signer -> {"none", "enters", "changes"}]
    BY <1>0, <2>2 DEF LoginTypeOK
  <2>4. CASE UNCHANGED <<ticket, seenAt>>
    BY <1>0, <2>1, <2>2, <2>3, <2>4 DEF LoginInv, LoginTypeOK, SeenBefore, SeededOnce
  <2>5. ASSUME NEW t \in Ticket, seenAt[t] = 0, seenAt' = [seenAt EXCEPT ![t] = clock],
               ticket' = [ticket EXCEPT ![t] = clock + SessionTtl]
        PROVE  LoginInv'
    <3>1. clock \in 1..MaxClock /\ clock + SessionTtl \in 0..(MaxClock + SessionTtl)
          /\ clock \in 0..MaxClock /\ clock # 0
      BY <1>0, LoginAssumption DEF LoginTypeOK
    <3>2. /\ ticket' \in [Ticket -> 0..(MaxClock + SessionTtl)]
          /\ seenAt' \in [Ticket -> 0..MaxClock]
      BY <1>0, <2>5, <3>1 DEF LoginTypeOK
    <3>3. LoginTypeOK'
      BY <1>0, <2>1, <2>2, <2>3, <3>2 DEF LoginTypeOK
    <3>4. t \notin revoked /\ \A v \in visit : v.who # t
      BY <1>0, <2>5 DEF SeenBefore
    <3>5. /\ \A s \in Ticket \ {t} : seenAt'[s] = seenAt[s] /\ ticket'[s] = ticket[s]
          /\ seenAt'[t] = clock /\ ticket'[t] = clock + SessionTtl
      BY <1>0, <2>5 DEF LoginTypeOK
    <3>6. revoked \subseteq Ticket /\ \A v \in visit : v.who \in Ticket
      BY <1>0 DEF LoginTypeOK, Visit
    <3>7. SeenBefore'
      BY <1>0, <2>2, <3>1, <3>4, <3>5, <3>6, LoginAssumption DEF SeenBefore
    <3>. QED  BY <1>0, <2>2, <3>3, <3>7 DEF LoginInv, SeededOnce
  <2>. QED  BY <2>2, <2>4, <2>5
<1>2. CASE ChangesPassword(d)
  <2>1. glitches' \in 0..MaxGlitches
    BY <1>0, <1>2, GlitchTyped DEF ChangesPassword
  <2>2. /\ signer' = [signer EXCEPT ![d] = "none"] /\ boot = "up"
        /\ UNCHANGED <<boot, ticket, visit, clock, seenAt, away>>
        /\ UNCHANGED <<secret, replaced>> \/ (secret' = "own" /\ replaced' = TRUE)
    BY <1>2 DEF ChangesPassword
  <2>6. PICK ts \in SUBSET {t \in Ticket : ticket[t] # Nobodys} :
           revoked' = revoked \cup ts /\ lingers' = lingers \cup ts
    <3>1. CASE UNCHANGED <<revoked, lingers>>
      <4>1. revoked' = revoked \cup {} /\ lingers' = lingers \cup {}
        BY <3>1
      <4>. QED  BY <4>1
    <3>2. ASSUME NEW own \in Ticket, StaysBehind({t \in Ticket \ {own} : ticket[t] # Nobodys})
          PROVE  \E ts \in SUBSET {t \in Ticket : ticket[t] # Nobodys} :
                    revoked' = revoked \cup ts /\ lingers' = lingers \cup ts
      <4>. DEFINE us == {t \in Ticket \ {own} : ticket[t] # Nobodys}
      <4>1. us \in SUBSET {t \in Ticket : ticket[t] # Nobodys}
        OBVIOUS
      <4>2. revoked' = revoked \cup us /\ lingers' = lingers \cup us
        BY <3>2 DEF StaysBehind
      <4>. HIDE DEF us
      <4>. QED  BY <4>1, <4>2
    <3>. QED  BY <1>2, <3>1, <3>2 DEF ChangesPassword
  <2>7. revoked' \subseteq Ticket /\ lingers' \subseteq Ticket
    BY <1>0, <2>6 DEF LoginTypeOK
  <2>8. \A t \in revoked' : seenAt[t] # 0 /\ (ticket[t] = Nobodys \/ t \in lingers')
    BY <1>0, <2>6 DEF SeenBefore
  <2>3. signer' \in [Signer -> {"none", "enters", "changes"}]
    BY <1>0, <2>2 DEF LoginTypeOK
  <2>4. LoginTypeOK'
    BY <1>0, <2>1, <2>2, <2>3, <2>7 DEF LoginTypeOK
  <2>5. SeenBefore' /\ SeededOnce'
    BY <1>0, <2>2, <2>8 DEF SeenBefore, SeededOnce
  <2>. QED  BY <2>4, <2>5 DEF LoginInv
<1>3. ASSUME NEW w \in {"enters", "changes"}, Verifies(d, w) PROVE LoginInv'
  <2>1. /\ signer' = [signer EXCEPT ![d] = w]
        /\ UNCHANGED <<secret, boot, ticket, visit, clock, glitches, seenAt, revoked, lingers, away,
                       replaced>>
    BY <1>3 DEF Verifies
  <2>2. signer' \in [Signer -> {"none", "enters", "changes"}]
    BY <1>0, <2>1 DEF LoginTypeOK
  <2>. QED  BY <1>0, <2>1, <2>2 DEF LoginInv, LoginTypeOK, SeenBefore, SeededOnce
<1>. QED  BY <1>1, <1>2, <1>3

LEMMA VisitsKeep ==
    ASSUME LoginInv,
           \/ VisitExpires \/ VisitAdmitted \/ VisitSlides
           \/ \E t \in Ticket : LogsOut(t) \/ VisitReads(t)
    PROVE  LoginInv'
<1>0. LoginTypeOK /\ SeenBefore /\ SeededOnce
  BY DEF LoginInv
<1>1. ASSUME NEW t \in Ticket, seenAt[t] # 0,
             \/ Deletes(t)
             \/ UNCHANGED ticket /\ \E ts \in SUBSET {t} : StaysBehind(ts),
             visit' \subseteq visit, Cardinality(visit') <= 1, Glitch \/ UNCHANGED glitches,
             UNCHANGED <<secret, boot, signer, clock, seenAt, away, replaced>>
      PROVE  LoginInv'
  <2>1. glitches' \in 0..MaxGlitches
    BY <1>0, <1>1, GlitchTyped
  <2>2. 0 \in 0..(MaxClock + SessionTtl)
    BY LoginAssumption
  <2>3. /\ ticket' \in [Ticket -> 0..(MaxClock + SessionTtl)]
        /\ revoked' \subseteq Ticket /\ lingers' \subseteq Ticket
        /\ revoked' \subseteq revoked \cup {t}
        /\ \A s \in Ticket : ticket'[s] \in {ticket[s], Nobodys}
        /\ \A s \in revoked' : ticket'[s] = Nobodys \/ s \in lingers'
    <3>1. CASE Deletes(t)
      BY <1>0, <1>1, <2>2, <3>1 DEF Deletes, LoginTypeOK, SeenBefore, Nobodys
    <3>2. ASSUME NEW ts \in SUBSET {t}, StaysBehind(ts), UNCHANGED ticket
          PROVE  /\ ticket' \in [Ticket -> 0..(MaxClock + SessionTtl)]
                 /\ revoked' \subseteq Ticket /\ lingers' \subseteq Ticket
                 /\ revoked' \subseteq revoked \cup {t}
                 /\ \A s \in Ticket : ticket'[s] \in {ticket[s], Nobodys}
                 /\ \A s \in revoked' : ticket'[s] = Nobodys \/ s \in lingers'
      BY <1>0, <1>1, <3>2 DEF StaysBehind, LoginTypeOK, SeenBefore
    <3>. QED  BY <1>1, <3>1, <3>2
  <2>4. LoginTypeOK'
    BY <1>0, <1>1, <2>1, <2>3 DEF LoginTypeOK
  <2>5. SeenBefore'
    BY <1>0, <1>1, <2>3 DEF SeenBefore
  <2>. QED  BY <1>0, <1>1, <2>4, <2>5 DEF LoginInv, SeededOnce
<1>2. ASSUME NEW t \in Ticket, LogsOut(t) PROVE LoginInv'
  <2>1. Cardinality(visit) <= 1
    BY <1>0 DEF LoginTypeOK
  <2>2. \/ Deletes(t)
        \/ UNCHANGED ticket /\ \E ts \in SUBSET {t} : StaysBehind(ts)
    <3>. DEFINE us == {t} \ {u \in Ticket : ticket[u] = Nobodys}
    <3>1. us \in SUBSET {t}
      OBVIOUS
    <3>2. Deletes(t) \/ (UNCHANGED ticket /\ StaysBehind(us))
      BY <1>2 DEF LogsOut
    <3>. HIDE DEF us
    <3>. QED  BY <3>1, <3>2
  <2>. QED  BY <1>1, <1>2, <2>1, <2>2 DEF LogsOut
<1>3. CASE VisitExpires
  <2>1. PICK v \in visit : /\ visit' = {}
                           /\ Deletes(v.who) \/ UNCHANGED <<ticket, revoked, lingers>>
                           /\ Glitch \/ UNCHANGED glitches
                           /\ UNCHANGED <<secret, boot, signer, clock, seenAt, away, replaced>>
    BY <1>3 DEF VisitExpires
  <2>2. v.who \in Ticket /\ seenAt[v.who] # 0
    BY <1>0 DEF LoginTypeOK, Visit, SeenBefore
  <2>3. UNCHANGED <<ticket, revoked, lingers>> => UNCHANGED ticket /\ StaysBehind({})
    BY DEF StaysBehind
  <2>4. {} \in SUBSET {v.who}
    OBVIOUS
  <2>. QED  BY <1>1, <2>1, <2>2, <2>3, <2>4, AtMostOne
<1>4. ASSUME NEW t \in Ticket, VisitReads(t) PROVE LoginInv'
  <2>. DEFINE v == [who |-> t, until |-> ticket[t], slides |-> 0]
  <2>1. /\ visit' = {v} /\ ticket[t] # 0
        /\ UNCHANGED <<secret, boot, signer, ticket, clock, glitches, seenAt, revoked, lingers, away,
                       replaced>>
    BY <1>4 DEF VisitReads, Nobodys
  <2>2. v \in Visit
    <3>1. ticket[t] \in 1..(MaxClock + SessionTtl) /\ 0 \in 0..(MaxClock + SessionTtl)
      BY <1>0, <2>1, LoginAssumption DEF LoginTypeOK
    <3>. QED  BY <3>1 DEF Visit
  <2>3. seenAt[t] # 0 /\ ticket[t] <= seenAt[t] + SessionTtl /\ 0 <= seenAt[t] + SessionTtl
    BY <1>0, <2>1, LoginAssumption DEF SeenBefore, LoginTypeOK, Nobodys
  <2>4. LoginTypeOK'
    BY <1>0, <2>1, <2>2, AtMostOne DEF LoginTypeOK
  <2>. QED  BY <1>0, <2>1, <2>3, <2>4 DEF LoginInv, SeenBefore, SeededOnce
<1>5. CASE VisitAdmitted
  <2>1. PICK v \in visit :
          /\ v.until >= clock
          /\ visit' = {[v EXCEPT !.slides = clock + SessionTtl]}
          /\ away' = clock - seenAt[v.who]
          /\ seenAt' = [seenAt EXCEPT ![v.who] = clock]
          /\ UNCHANGED <<secret, boot, signer, ticket, clock, glitches, revoked, lingers, replaced>>
    BY <1>5 DEF VisitAdmitted
  <2>2. v \in Visit /\ v.who \in Ticket /\ clock \in 1..MaxClock /\ v.until \in Nat
        /\ seenAt[v.who] \in 0..MaxClock
    BY <1>0, LoginAssumption DEF LoginTypeOK, Visit
  <2>. DEFINE u == [v EXCEPT !.slides = clock + SessionTtl]
  <2>3. u \in Visit /\ u.who = v.who /\ u.until = v.until /\ u.slides = clock + SessionTtl
    <3>1. clock + SessionTtl \in 0..(MaxClock + SessionTtl)
      BY <2>2, LoginAssumption
    <3>. QED  BY <2>2, <3>1 DEF Visit
  <2>4. seenAt[v.who] <= clock /\ v.until <= seenAt[v.who] + SessionTtl
    BY <1>0, <2>2 DEF SeenBefore
  <2>5. away' \in 0..MaxClock /\ away' <= SessionTtl
    BY <2>1, <2>2, <2>4, LoginAssumption
  <2>6. seenAt' \in [Ticket -> 0..MaxClock]
    BY <1>0, <2>1, <2>2 DEF LoginTypeOK
  <2>. HIDE DEF u
  <2>7. visit' = {u}
    BY <2>1 DEF u
  <2>8. LoginTypeOK'
    BY <1>0, <2>1, <2>3, <2>5, <2>6, <2>7, AtMostOne DEF LoginTypeOK
  <2>9. \A t \in Ticket : seenAt'[t] = IF t = v.who THEN clock ELSE seenAt[t]
    BY <1>0, <2>1, <2>2 DEF LoginTypeOK
  <2>10. \A t \in Ticket : seenAt[t] \in Nat /\ ticket[t] \in Nat /\ seenAt[t] <= clock
    BY <1>0, LoginAssumption DEF LoginTypeOK, SeenBefore
  <2>11. \A t \in Ticket : seenAt'[t] >= seenAt[t] /\ seenAt'[t] <= clock /\ seenAt'[t] \in Nat
    BY <2>2, <2>9, <2>10
  <2>12. \A t \in Ticket : ticket[t] # Nobodys => seenAt'[t] # 0 /\ ticket[t] <= seenAt'[t] + SessionTtl
    BY <1>0, <2>10, <2>11, LoginAssumption DEF SeenBefore
  <2>13. seenAt'[u.who] # 0 /\ u.until <= seenAt'[u.who] + SessionTtl
         /\ u.slides <= seenAt'[u.who] + SessionTtl
    BY <2>2, <2>3, <2>4, <2>9, LoginAssumption
  <2>14. \A t \in revoked : seenAt'[t] # 0 /\ (ticket[t] = Nobodys \/ t \in lingers)
    <3>1. revoked \subseteq Ticket
      BY <1>0 DEF LoginTypeOK
    <3>. QED  BY <1>0, <2>2, <2>9, <3>1 DEF SeenBefore
  <2>15. SeenBefore'
    BY <2>1, <2>5, <2>7, <2>11, <2>12, <2>13, <2>14 DEF SeenBefore
  <2>. QED  BY <1>0, <2>1, <2>8, <2>15 DEF LoginInv, SeededOnce
<1>6. CASE VisitSlides
  <2>1. PICK v \in visit :
          /\ visit' = {}
          /\ \/ ticket' = [ticket EXCEPT ![v.who] = IF @ = Nobodys THEN @ ELSE v.slides]
             \/ UNCHANGED ticket
          /\ Glitch \/ UNCHANGED glitches
          /\ UNCHANGED <<secret, boot, signer, clock, seenAt, revoked, lingers, away, replaced>>
    BY <1>6 DEF VisitSlides
  <2>2. v.who \in Ticket /\ v.slides \in 0..(MaxClock + SessionTtl)
        /\ v.slides <= seenAt[v.who] + SessionTtl
    BY <1>0 DEF LoginTypeOK, Visit, SeenBefore
  <2>3. ticket' \in [Ticket -> 0..(MaxClock + SessionTtl)]
    BY <1>0, <2>1, <2>2 DEF LoginTypeOK
  <2>4. glitches' \in 0..MaxGlitches
    BY <1>0, <2>1, GlitchTyped
  <2>5. LoginTypeOK'
    BY <1>0, <2>1, <2>3, <2>4, AtMostOne DEF LoginTypeOK
  <2>6. \A t \in Ticket : \/ ticket'[t] = ticket[t]
                          \/ ticket[t] # Nobodys /\ t = v.who /\ ticket'[t] = v.slides
    BY <1>0, <2>1, <2>2 DEF LoginTypeOK
  <2>7. revoked \subseteq Ticket
    BY <1>0 DEF LoginTypeOK
  <2>8. SeenBefore'
    BY <1>0, <2>1, <2>2, <2>6, <2>7 DEF SeenBefore
  <2>. QED  BY <1>0, <2>1, <2>5, <2>8 DEF LoginInv, SeededOnce
<1>. QED  BY <1>2, <1>3, <1>4, <1>5, <1>6

LEMMA LoginStep == LoginInv /\ LoginNext => LoginInv'
BY ServerKeeps, EndpointsKeep, VisitsKeep DEF LoginNext

LEMMA LoginRests == LoginInv /\ UNCHANGED loginVars => LoginInv'
BY DEF loginVars, LoginInv, LoginTypeOK, SeenBefore, SeededOnce

LEMMA LoginCovers == LoginInv => SignedOutStaysOut
BY DEF LoginInv, SeenBefore, SeededOnce, SignedOutStaysOut

LEMMA LoginInvariant == LoginSpec => []LoginInv
<1>1. LoginInv /\ [LoginNext]_loginVars => LoginInv'
  BY LoginStep, LoginRests
<1>. QED  BY LoginStarts, <1>1, PTL DEF LoginSpec

(* The variables of the sessions keep their types, for any lifetime.       *)
THEOREM LoginTypeCorrect == LoginSpec => []LoginTypeOK
<1>1. LoginInv => LoginTypeOK
  BY DEF LoginInv
<1>. QED  BY LoginInvariant, <1>1, PTL

(* Who was signed out, or away for longer than SESSION_TTL, stays out, and *)
(* a changed password is not seeded over; the row stays only behind a      *)
(* failed delete or a password change (SignedOutStaysOut).                 *)
THEOREM SignedOutHolds == LoginSpec => []SignedOutStaysOut
BY LoginInvariant, LoginCovers, PTL

-----------------------------------------------------------------------------
(* IntelFeeds.                                                             *)

(* When the rows last said what an answer says, or a query last failed.    *)
SaidAt(x, f)  == IF f \in x.feeds THEN lastOn[f] ELSE lastOff[f]
SaidSince(x, m) == IF x.blind THEN blindAt >= m ELSE \A f \in Feed : SaidAt(x, f) >= m

(* What the rows say now they said last now.                               *)
Ghosted ==
    /\ \A f \in Feed : IF rows[f] = "on" THEN lastOn[f] = moment ELSE lastOff[f] = moment
    /\ \A f \in Feed : lastOn[f] <= moment /\ lastOff[f] <= moment
    /\ blindAt <= moment

(* What a thread has read, the cache and the last answer were said no      *)
(* longer ago than a lookup may take, or than an entry lives on top of it. *)
NotOlder ==
    /\ \A k \in Asker : \A l \in asked[k] :
          l.readAt <= moment /\ moment <= l.readAt + Slow /\ SaidSince(l, l.readAt)
    /\ \A e \in cache : e.at <= moment /\ SaidSince(e, e.at - Slow)
    /\ \A a \in answer : SaidSince(a, a.at - Slow - CacheTtl + 1)

Counted ==
    \A f \in Feed : /\ meta[f].entries = (rows[f] # "none")
                    /\ meta[f].status = "ok" => rows[f] # "none"

IntelInv == IntelTypeOK /\ Ghosted /\ NotOlder /\ Counted

LEMMA IntelConstants ==
    /\ CacheTtl \in Nat \ {0} /\ Slow \in Nat /\ MaxMoment \in Nat /\ MaxFetches \in Nat
    /\ 0 \in Moment /\ 0 \in 0..MaxFetches
BY IntelAssumption DEF Moment

LEMMA IntelStarts == IntelInit => IntelInv
<1>. SUFFICES ASSUME IntelInit PROVE IntelInv
  OBVIOUS
<1>1. IntelTypeOK
  BY IntelConstants, AtMostOne DEF IntelInit, IntelTypeOK
<1>2. Ghosted
  BY DEF IntelInit, Ghosted
<1>3. NotOlder
  BY DEF IntelInit, NotOlder
<1>4. Counted
  BY DEF IntelInit, Counted
<1>. QED  BY <1>1, <1>2, <1>3, <1>4 DEF IntelInv

(* Facts about the types of what has been read and answered.               *)
LEMMA IntelRead ==
    ASSUME IntelTypeOK
    PROVE  /\ moment \in Nat /\ blindAt \in Nat
           /\ \A f \in Feed : lastOn[f] \in Nat /\ lastOff[f] \in Nat
           /\ \A k \in Asker : asked[k] \subseteq Read
           /\ \A l \in Read : l.readAt \in Nat /\ l.blind \in BOOLEAN /\ l.feeds \subseteq Feed
           /\ \A e \in Cached : e.at \in Nat /\ e.blind \in BOOLEAN /\ e.feeds \subseteq Feed
           /\ cache \subseteq Cached /\ answer \subseteq Cached
<1>1. Moment \subseteq Nat
  BY IntelConstants DEF Moment
<1>. QED  BY <1>1 DEF IntelTypeOK, Read, Cached

(* Time and later words about a feed take nothing back.                    *)
LEMMA SinceStays ==
    ASSUME NEW x, NEW m,
           blindAt' >= blindAt, \A f \in Feed : lastOn'[f] >= lastOn[f] /\ lastOff'[f] >= lastOff[f],
           blindAt' \in Nat, \A f \in Feed : lastOn'[f] \in Nat /\ lastOff'[f] \in Nat,
           blindAt \in Nat, \A f \in Feed : lastOn[f] \in Nat /\ lastOff[f] \in Nat,
           m \in Int, SaidSince(x, m)
    PROVE  SaidSince(x, m)'
<1>1. x' = x
  OBVIOUS
<1>. QED  BY DEF SaidSince, SaidAt

(* A step that answers and reads nothing new, and notes what the rows say. *)
LEMMA AnswersStay ==
    ASSUME IntelInv,
           moment' \in Nat, moment' >= moment,
           \A k \in Asker : \A l \in asked[k] : moment' <= l.readAt + Slow,
           blindAt' = blindAt, Noted(rows', moment') \/ UNCHANGED <<rows, moment, lastOn, lastOff>>,
           cache' \subseteq cache, answer' = answer,
           \A k \in Asker : asked'[k] \subseteq asked[k]
    PROVE  Ghosted' /\ NotOlder'
<1>0. IntelTypeOK /\ Ghosted /\ NotOlder
  BY DEF IntelInv
<1>1. /\ moment \in Nat /\ blindAt \in Nat
      /\ \A f \in Feed : lastOn[f] \in Nat /\ lastOff[f] \in Nat
  BY <1>0, IntelRead
<1>2. \A f \in Feed : /\ lastOn'[f] \in {lastOn[f], moment'}
                      /\ lastOff'[f] \in {lastOff[f], moment'}
  BY <1>0 DEF Noted, IntelTypeOK
<1>3. \A f \in Feed : IF rows'[f] = "on" THEN lastOn'[f] = moment' ELSE lastOff'[f] = moment'
  BY <1>0 DEF Noted, Matching, Ghosted
<1>4. \A f \in Feed : /\ lastOn'[f] \in Nat /\ lastOff'[f] \in Nat
                      /\ lastOn'[f] >= lastOn[f] /\ lastOff'[f] >= lastOff[f]
                      /\ lastOn'[f] <= moment' /\ lastOff'[f] <= moment'
  BY <1>0, <1>1, <1>2 DEF Ghosted
<1>5. Ghosted'
  BY <1>0, <1>1, <1>3, <1>4 DEF Ghosted
<1>6. ASSUME NEW x, NEW m \in Int, SaidSince(x, m) PROVE SaidSince(x, m)'
  BY <1>1, <1>4, <1>6, SinceStays
<1>7. Slow \in Nat /\ CacheTtl \in Nat
  BY IntelConstants
<1>8. ASSUME NEW k \in Asker, NEW l \in asked'[k]
      PROVE  l.readAt <= moment' /\ moment' <= l.readAt + Slow /\ SaidSince(l, l.readAt)'
  <2>1. l \in asked[k] /\ l.readAt \in Nat
    BY <1>0, <1>8, IntelRead
  <2>. QED  BY <1>0, <1>1, <1>6, <1>7, <2>1 DEF NotOlder
<1>9. ASSUME NEW e \in cache'
      PROVE  e.at <= moment' /\ SaidSince(e, e.at - Slow)'
  <2>1. e \in cache /\ e.at \in Nat
    BY <1>0, <1>9, IntelRead
  <2>. QED  BY <1>0, <1>1, <1>6, <1>7, <2>1 DEF NotOlder
<1>10. ASSUME NEW a \in answer'
       PROVE  SaidSince(a, a.at - Slow - CacheTtl + 1)'
  <2>1. a \in answer /\ a.at \in Nat
    BY <1>0, <1>10, IntelRead
  <2>. QED  BY <1>0, <1>6, <1>7, <2>1 DEF NotOlder
<1>11. NotOlder'
  BY <1>8, <1>9, <1>10 DEF NotOlder
<1>. QED  BY <1>5, <1>11

LEMMA NotedTyped ==
    ASSUME IntelTypeOK, NEW m \in Moment, NEW r, Noted(r, m)
    PROVE  lastOn' \in [Feed -> Moment] /\ lastOff' \in [Feed -> Moment]
BY DEF Noted, IntelTypeOK

LEMMA MomentKeeps == ASSUME IntelInv, MomentPasses PROVE IntelInv'
<1>0. IntelTypeOK
  BY DEF IntelInv
<1>1. /\ moment < MaxMoment /\ moment' = moment + 1 /\ Noted(rows, moment')
      /\ \A k \in Asker : \A l \in asked[k] : moment < l.readAt + Slow
      /\ UNCHANGED <<rows, meta, passing, feedsLeft, fetched, cache, asked, fetches, blindAt, answer>>
  BY DEF MomentPasses
<1>2. moment' \in Moment
  BY <1>0, <1>1, IntelConstants DEF IntelTypeOK, Moment
<1>3. lastOn' \in [Feed -> Moment] /\ lastOff' \in [Feed -> Moment]
  BY <1>0, <1>1, <1>2, NotedTyped
<1>4. IntelTypeOK'
  BY <1>0, <1>1, <1>2, <1>3 DEF IntelTypeOK
<1>5. moment \in Nat /\ Slow \in Nat /\ \A k \in Asker : \A l \in asked[k] : l.readAt \in Nat
  BY <1>0, IntelRead, IntelConstants
<1>6. \A k \in Asker : \A l \in asked[k] : moment' <= l.readAt + Slow
  BY <1>1, <1>5
<1>7. moment' \in Nat /\ moment' >= moment
  BY <1>1, <1>5
<1>8. Ghosted' /\ NotOlder'
  BY <1>1, <1>6, <1>7, AnswersStay
<1>9. Counted'
  BY <1>1 DEF IntelInv, Counted
<1>. QED  BY <1>4, <1>8, <1>9 DEF IntelInv

LEMMA PassKeeps ==
    ASSUME IntelInv, PassStarts \/ Replaces \/ PassEnds \/ IntelRestarts \/ CacheClears
                     \/ \E f \in Feed : Fetches(f)
    PROVE  IntelInv'
<1>0. IntelTypeOK /\ Counted /\ NotOlder
  BY DEF IntelInv
<1>1. moment \in Nat /\ \A k \in Asker : \A l \in asked[k] : moment <= l.readAt + Slow
  BY <1>0, IntelRead DEF NotOlder
<1>2. CASE PassStarts \/ PassEnds
  <2>1. /\ passing' \in BOOLEAN /\ feedsLeft' \subseteq Feed
        /\ UNCHANGED <<rows, meta, fetched, cache, asked, moment, fetches, lastOn, lastOff, blindAt,
                       answer>>
    BY <1>0, <1>2 DEF PassStarts, PassEnds, IntelTypeOK
  <2>2. IntelTypeOK' /\ Counted'
    BY <1>0, <2>1 DEF IntelTypeOK, Counted
  <2>3. Ghosted' /\ NotOlder'
    BY <1>1, <2>1, AnswersStay
  <2>. QED  BY <2>2, <2>3 DEF IntelInv
<1>3. CASE CacheClears
  <2>1. /\ cache' = {}
        /\ UNCHANGED <<rows, meta, passing, feedsLeft, fetched, asked, moment, fetches, lastOn,
                       lastOff, blindAt, answer>>
    BY <1>3 DEF CacheClears
  <2>2. IntelTypeOK' /\ Counted'
    BY <1>0, <2>1, AtMostOne DEF IntelTypeOK, Counted
  <2>3. Ghosted' /\ NotOlder'
    BY <1>1, <2>1, AnswersStay
  <2>. QED  BY <2>2, <2>3 DEF IntelInv
<1>4. CASE IntelRestarts
  <2>1. /\ passing' = FALSE /\ feedsLeft' = {} /\ fetched' = {} /\ cache' = {}
        /\ asked' = [k \in Asker |-> {}] /\ fetches' = fetches + 1 /\ fetches < MaxFetches
        /\ UNCHANGED <<rows, meta, moment, lastOn, lastOff, blindAt, answer>>
    BY <1>4 DEF IntelRestarts
  <2>2. fetches' \in 0..MaxFetches
    BY <1>0, <2>1, IntelConstants DEF IntelTypeOK
  <2>3. IntelTypeOK' /\ Counted'
    BY <1>0, <2>1, <2>2, AtMostOne DEF IntelTypeOK, Counted
  <2>4. Ghosted' /\ NotOlder'
    BY <1>1, <2>1, AnswersStay
  <2>. QED  BY <2>3, <2>4 DEF IntelInv
<1>5. ASSUME NEW f \in Feed, Failed(f)
      PROVE  /\ meta' \in [Feed -> [entries : BOOLEAN, status : {"none", "ok", "failed"}]]
             /\ \A g \in Feed : meta'[g].entries = meta[g].entries
                                /\ (meta'[g].status = "ok" => meta[g].status = "ok")
  BY <1>0, <1>5 DEF Failed, IntelTypeOK
<1>6. ASSUME NEW f \in Feed, Fetches(f) PROVE IntelInv'
  <2>1. /\ fetches < MaxFetches /\ fetches' = fetches + 1
        /\ UNCHANGED <<rows, passing, cache, asked, moment, lastOn, lastOff, blindAt, answer>>
        /\ \/ /\ \E t \in {"on", "off", "empty"} : fetched' = {[feed |-> f, text |-> t]}
              /\ UNCHANGED <<meta, feedsLeft>>
           \/ Failed(f) /\ feedsLeft' = feedsLeft \ {f} /\ UNCHANGED fetched
    BY <1>6 DEF Fetches
  <2>2. fetches' \in 0..MaxFetches
    BY <1>0, <2>1, IntelConstants DEF IntelTypeOK
  <2>3. /\ fetched' \subseteq [feed : Feed, text : {"on", "off", "empty"}]
        /\ Cardinality(fetched') <= 1
    <3>1. CASE \E t \in {"on", "off", "empty"} : fetched' = {[feed |-> f, text |-> t]}
      <4>1. PICK t \in {"on", "off", "empty"} : fetched' = {[feed |-> f, text |-> t]}
        BY <3>1
      <4>2. [feed |-> f, text |-> t] \in [feed : Feed, text : {"on", "off", "empty"}]
        BY <1>6
      <4>. QED  BY <4>1, <4>2, AtMostOne
    <3>2. CASE UNCHANGED fetched
      BY <1>0, <3>2 DEF IntelTypeOK
    <3>. QED  BY <2>1, <3>1, <3>2
  <2>4. /\ meta' \in [Feed -> [entries : BOOLEAN, status : {"none", "ok", "failed"}]]
        /\ feedsLeft' \subseteq Feed
    BY <1>0, <1>5, <2>1 DEF IntelTypeOK
  <2>5. Counted'
    BY <1>0, <1>5, <2>1 DEF Counted
  <2>6. IntelTypeOK'
    BY <1>0, <2>1, <2>2, <2>3, <2>4 DEF IntelTypeOK
  <2>7. Ghosted' /\ NotOlder'
    BY <1>1, <2>1, AnswersStay
  <2>. QED  BY <2>5, <2>6, <2>7 DEF IntelInv
<1>7. CASE Replaces
  <2>1. PICK x \in fetched :
          /\ fetched' = {} /\ feedsLeft' = feedsLeft \ {x.feed}
          /\ \/ /\ Loads(x.text)
                /\ rows' = [rows EXCEPT ![x.feed] = IF x.text = "empty" THEN "none" ELSE x.text]
                /\ meta' = [meta EXCEPT ![x.feed] = [entries |-> x.text # "empty", status |-> "ok"]]
                /\ Noted(rows', moment)
             \/ ~Loads(x.text) /\ Failed(x.feed) /\ UNCHANGED <<rows, lastOn, lastOff>>
             \/ UNCHANGED <<rows, meta, lastOn, lastOff>>
          /\ UNCHANGED <<passing, cache, asked, moment, fetches, blindAt, answer>>
    BY <1>7 DEF Replaces
  <2>2. x.feed \in Feed /\ x.text \in {"on", "off", "empty"} /\ moment \in Moment
    BY <1>0 DEF IntelTypeOK
  <2>3. CASE /\ Loads(x.text)
             /\ rows' = [rows EXCEPT ![x.feed] = IF x.text = "empty" THEN "none" ELSE x.text]
             /\ meta' = [meta EXCEPT ![x.feed] = [entries |-> x.text # "empty", status |-> "ok"]]
             /\ Noted(rows', moment)
    <3>1. x.text \in {"on", "off"}
      BY <2>2, <2>3 DEF Loads
    <3>2. /\ rows' = [rows EXCEPT ![x.feed] = x.text]
          /\ meta' = [meta EXCEPT ![x.feed] = [entries |-> TRUE, status |-> "ok"]]
      BY <2>3, <3>1
    <3>3. lastOn' \in [Feed -> Moment] /\ lastOff' \in [Feed -> Moment]
      BY <1>0, <2>2, <2>3, NotedTyped
    <3>4. /\ rows' \in [Feed -> {"none", "off", "on"}]
          /\ meta' \in [Feed -> [entries : BOOLEAN, status : {"none", "ok", "failed"}]]
      BY <1>0, <2>2, <3>1, <3>2 DEF IntelTypeOK
    <3>5. Counted'
      BY <1>0, <2>2, <3>1, <3>2 DEF Counted, IntelTypeOK
    <3>6. IntelTypeOK'
      BY <1>0, <2>1, <3>3, <3>4, AtMostOne DEF IntelTypeOK
    <3>7. Ghosted' /\ NotOlder'
      BY <1>1, <2>1, <2>3, AnswersStay
    <3>. QED  BY <3>5, <3>6, <3>7 DEF IntelInv
  <2>4. CASE UNCHANGED <<rows, lastOn, lastOff>> /\ (Failed(x.feed) \/ UNCHANGED meta)
    <3>1. meta' \in [Feed -> [entries : BOOLEAN, status : {"none", "ok", "failed"}]]
      BY <1>0, <1>5, <2>2, <2>4 DEF IntelTypeOK
    <3>2. Counted'
      BY <1>0, <1>5, <2>2, <2>4 DEF Counted
    <3>3. IntelTypeOK'
      BY <1>0, <2>1, <2>4, <3>1, AtMostOne DEF IntelTypeOK
    <3>4. Ghosted' /\ NotOlder'
      BY <1>1, <2>1, <2>4, AnswersStay
    <3>. QED  BY <3>2, <3>3, <3>4 DEF IntelInv
  <2>. QED  BY <2>1, <2>3, <2>4
<1>. QED  BY <1>2, <1>3, <1>4, <1>6, <1>7

LEMMA LookupsKeep ==
    ASSUME IntelInv, AnswersFromCache \/ \E k \in Asker : Queries(k) \/ StoresAndAnswers(k)
    PROVE  IntelInv'
<1>0. IntelTypeOK /\ Ghosted /\ NotOlder /\ Counted
  BY DEF IntelInv
<1>1. /\ moment \in Nat /\ moment \in Moment /\ blindAt \in Nat /\ Slow \in Nat
      /\ CacheTtl \in Nat \ {0}
      /\ \A f \in Feed : lastOn[f] \in Nat /\ lastOff[f] \in Nat
  BY <1>0, IntelRead, IntelConstants DEF IntelTypeOK
<1>2. ASSUME NEW x \in Read \cup Cached, NEW m \in Nat, m <= moment, SaidSince(x, m - Slow),
             x.blind \in BOOLEAN, NEW n \in Int, n <= m - Slow
      PROVE  SaidSince(x, n)
  BY <1>1, <1>2 DEF SaidSince, SaidAt
<1>3. CASE AnswersFromCache
  <2>1. PICK e \in cache :
          /\ moment - e.at < CacheTtl
          /\ answer' = {[feeds |-> e.feeds, blind |-> e.blind, at |-> moment]}
          /\ UNCHANGED <<rows, meta, passing, feedsLeft, fetched, cache, asked, moment, fetches,
                         lastOn, lastOff, blindAt>>
    BY <1>3 DEF AnswersFromCache
  <2>. DEFINE a == [feeds |-> e.feeds, blind |-> e.blind, at |-> moment]
  <2>2. e \in Cached /\ e.at \in Nat /\ e.feeds \subseteq Feed /\ e.blind \in BOOLEAN
    BY <1>0, IntelRead
  <2>3. a \in Cached /\ a.feeds = e.feeds /\ a.blind = e.blind /\ a.at = moment
    BY <1>1, <2>2 DEF Cached
  <2>4. SaidSince(e, e.at - Slow) /\ e.at <= moment
    BY <1>0 DEF NotOlder
  <2>5. SaidSince(e, moment - Slow - CacheTtl + 1)
    BY <1>1, <1>2, <2>1, <2>2, <2>4
  <2>6. SaidSince(a, a.at - Slow - CacheTtl + 1)
    BY <2>3, <2>5 DEF SaidSince, SaidAt
  <2>7. answer' = {a}
    BY <2>1
  <2>. HIDE DEF a
  <2>8. IntelTypeOK' /\ Counted' /\ Ghosted'
    BY <1>0, <2>1, <2>3, <2>7, AtMostOne DEF IntelTypeOK, Counted, Ghosted
  <2>9. ASSUME NEW x, NEW m \in Int, SaidSince(x, m) PROVE SaidSince(x, m)'
    BY <1>1, <2>1, <2>9, SinceStays
  <2>10. ASSUME NEW j \in Asker, NEW y \in asked'[j]
         PROVE  y.readAt <= moment' /\ moment' <= y.readAt + Slow /\ SaidSince(y, y.readAt)'
    <3>1. y \in asked[j] /\ y.readAt \in Nat
      BY <1>0, <2>1, <2>10, IntelRead
    <3>. QED  BY <1>0, <2>1, <2>9, <3>1 DEF NotOlder
  <2>11. ASSUME NEW y \in cache' PROVE y.at <= moment' /\ SaidSince(y, y.at - Slow)'
    <3>1. y \in cache /\ y.at \in Nat
      BY <1>0, <2>1, <2>11, IntelRead
    <3>. QED  BY <1>0, <1>1, <2>1, <2>9, <3>1 DEF NotOlder
  <2>12. ASSUME NEW y \in answer' PROVE SaidSince(y, y.at - Slow - CacheTtl + 1)'
    BY <1>1, <2>3, <2>6, <2>7, <2>9, <2>12
  <2>13. NotOlder'
    BY <2>10, <2>11, <2>12 DEF NotOlder
  <2>. QED  BY <2>8, <2>13 DEF IntelInv
<1>4. ASSUME NEW k \in Asker, Queries(k) PROVE IntelInv'
  <2>1. PICK blind \in BOOLEAN :
          /\ asked' = [asked EXCEPT ![k] = {[feeds |-> IF blind THEN {} ELSE Matching(rows),
                                             readAt |-> moment, blind |-> blind]}]
          /\ blindAt' = IF blind THEN moment ELSE blindAt
          /\ UNCHANGED <<rows, meta, passing, feedsLeft, fetched, cache, moment, fetches, lastOn,
                         lastOff, answer>>
    BY <1>4 DEF Queries
  <2>. PICK l : l = [feeds |-> IF blind THEN {} ELSE Matching(rows), readAt |-> moment, blind |-> blind]
    OBVIOUS
  <2>2. l \in Read /\ l.blind = blind /\ l.readAt = moment
        /\ l.feeds = IF blind THEN {} ELSE Matching(rows)
    BY <1>1 DEF Read, Matching
  <2>3. SaidSince(l, moment)'
    BY <1>0, <1>1, <2>1, <2>2 DEF SaidSince, SaidAt, Ghosted, Matching
  <2>4. asked' = [asked EXCEPT ![k] = {l}]
    BY <2>1
  <2>5. blindAt' \in Moment /\ blindAt' \in Nat /\ blindAt' >= blindAt /\ blindAt' <= moment
    BY <1>0, <1>1, <2>1 DEF IntelTypeOK, Ghosted
  <2>6. /\ asked'[k] = {l} /\ \A j \in Asker \ {k} : asked'[j] = asked[j]
    BY <1>0, <2>4 DEF IntelTypeOK
  <2>7. IntelTypeOK' /\ Counted' /\ Ghosted'
    <3>1. asked' \in [Asker -> SUBSET Read] /\ \A j \in Asker : Cardinality(asked'[j]) <= 1
      BY <1>0, <2>2, <2>4, <2>6, AtMostOne DEF IntelTypeOK
    <3>. QED  BY <1>0, <2>1, <2>5, <3>1 DEF IntelTypeOK, Counted, Ghosted
  <2>8. ASSUME NEW x, NEW m \in Int, SaidSince(x, m) PROVE SaidSince(x, m)'
    BY <1>1, <2>1, <2>5, <2>8, SinceStays
  <2>9. ASSUME NEW j \in Asker, NEW y \in asked'[j]
        PROVE  y.readAt <= moment' /\ moment' <= y.readAt + Slow /\ SaidSince(y, y.readAt)'
    <3>1. CASE j = k
      <4>1. y = l /\ y.readAt = moment
        BY <2>2, <2>6, <2>9, <3>1
      <4>2. SaidSince(y, y.readAt)'
        BY <2>1, <2>3, <4>1
      <4>. QED  BY <1>1, <2>1, <4>1, <4>2
    <3>2. CASE j # k
      <4>1. y \in asked[j] /\ y.readAt \in Nat
        BY <1>0, <2>6, <2>9, <3>2, IntelRead
      <4>. QED  BY <1>0, <2>1, <2>8, <4>1 DEF NotOlder
    <3>. QED  BY <3>1, <3>2
  <2>10. ASSUME NEW e \in cache' PROVE e.at <= moment' /\ SaidSince(e, e.at - Slow)'
    <3>1. e \in cache /\ e.at \in Nat
      BY <1>0, <2>1, <2>10, IntelRead
    <3>. QED  BY <1>0, <1>1, <2>1, <2>8, <3>1 DEF NotOlder
  <2>11. ASSUME NEW a \in answer' PROVE SaidSince(a, a.at - Slow - CacheTtl + 1)'
    <3>1. a \in answer /\ a.at \in Nat
      BY <1>0, <2>1, <2>11, IntelRead
    <3>. QED  BY <1>0, <1>1, <2>8, <3>1 DEF NotOlder
  <2>12. NotOlder'
    BY <2>9, <2>10, <2>11 DEF NotOlder
  <2>. QED  BY <2>7, <2>12 DEF IntelInv
<1>5. ASSUME NEW k \in Asker, StoresAndAnswers(k) PROVE IntelInv'
  <2>1. PICK l \in asked[k] :
          /\ cache' = {[feeds |-> l.feeds, blind |-> l.blind, at |-> moment]}
          /\ answer' = cache' /\ asked' = [asked EXCEPT ![k] = {}]
          /\ UNCHANGED <<rows, meta, passing, feedsLeft, fetched, moment, fetches, lastOn, lastOff,
                         blindAt>>
    BY <1>5 DEF StoresAndAnswers
  <2>. DEFINE e == [feeds |-> l.feeds, blind |-> l.blind, at |-> moment]
  <2>2. l \in Read /\ l.readAt \in Nat /\ l.feeds \subseteq Feed /\ l.blind \in BOOLEAN
    BY <1>0, IntelRead
  <2>3. e \in Cached /\ e.feeds = l.feeds /\ e.blind = l.blind /\ e.at = moment
    BY <1>1, <2>2 DEF Cached
  <2>4. SaidSince(l, l.readAt) /\ moment <= l.readAt + Slow
    BY <1>0 DEF NotOlder
  <2>5. SaidSince(e, moment - Slow) /\ SaidSince(e, moment - Slow - CacheTtl + 1)
    BY <1>1, <2>2, <2>3, <2>4 DEF SaidSince, SaidAt
  <2>6. cache' = {e} /\ answer' = {e}
    BY <2>1
  <2>. HIDE DEF e
  <2>7. /\ asked' \in [Asker -> SUBSET Read] /\ \A j \in Asker : asked'[j] \subseteq asked[j]
        /\ \A j \in Asker : Cardinality(asked'[j]) <= 1
    BY <1>0, <2>1, AtMostOne DEF IntelTypeOK
  <2>8. IntelTypeOK' /\ Counted' /\ Ghosted'
    BY <1>0, <2>1, <2>3, <2>6, <2>7, AtMostOne DEF IntelTypeOK, Counted, Ghosted
  <2>9. ASSUME NEW x, NEW m \in Int, SaidSince(x, m) PROVE SaidSince(x, m)'
    BY <1>1, <2>1, <2>9, SinceStays
  <2>10. ASSUME NEW j \in Asker, NEW y \in asked'[j]
         PROVE  y.readAt <= moment' /\ moment' <= y.readAt + Slow /\ SaidSince(y, y.readAt)'
    <3>1. y \in asked[j] /\ y.readAt \in Nat
      BY <1>0, <2>7, <2>10, IntelRead
    <3>2. y.readAt <= moment /\ moment <= y.readAt + Slow /\ SaidSince(y, y.readAt)
      BY <1>0, <3>1 DEF NotOlder
    <3>3. SaidSince(y, y.readAt)'
      BY <2>9, <3>1, <3>2
    <3>. QED  BY <2>1, <3>2, <3>3
  <2>11. ASSUME NEW y \in cache' PROVE y.at <= moment' /\ SaidSince(y, y.at - Slow)'
    BY <1>1, <2>1, <2>3, <2>5, <2>6, <2>9, <2>11
  <2>12. ASSUME NEW y \in answer' PROVE SaidSince(y, y.at - Slow - CacheTtl + 1)'
    BY <1>1, <2>3, <2>5, <2>6, <2>9, <2>12
  <2>13. NotOlder'
    BY <2>10, <2>11, <2>12 DEF NotOlder
  <2>. QED  BY <2>8, <2>13 DEF IntelInv
<1>. QED  BY <1>3, <1>4, <1>5

LEMMA IntelStep == IntelInv /\ IntelNext => IntelInv'
BY PassKeeps, LookupsKeep, MomentKeeps DEF IntelNext

LEMMA IntelRests == IntelInv /\ UNCHANGED intelVars => IntelInv'
BY DEF intelVars, IntelInv, IntelTypeOK, Ghosted, NotOlder, Counted, SaidSince, SaidAt

LEMMA IntelInvariant == IntelSpec => []IntelInv
<1>1. IntelInv /\ [IntelNext]_intelVars => IntelInv'
  BY IntelStep, IntelRests
<1>. QED  BY IntelStarts, <1>1, PTL DEF IntelSpec

LEMMA IntelCovers == IntelInv => AnswersRecent
<1>. SUFFICES ASSUME IntelInv PROVE AnswersRecent
  OBVIOUS
<1>0. IntelTypeOK /\ NotOlder /\ Counted
  BY DEF IntelInv
<1>1. ASSUME NEW a \in answer, NEW m \in Nat, m >= a.at - Slow - CacheTtl + 1
      PROVE  a.at - m < CacheTtl + Slow
  <2>1. a.at \in Nat /\ Slow \in Nat /\ CacheTtl \in Nat
    BY <1>0, <1>1, IntelRead, IntelConstants
  <2>. QED  BY <1>1, <2>1
<1>2. ASSUME NEW a \in answer
      PROVE  IF a.blind THEN a.at - blindAt < CacheTtl + Slow
             ELSE \A f \in Feed :
                     a.at - (IF f \in a.feeds THEN lastOn[f] ELSE lastOff[f]) < CacheTtl + Slow
  <2>1. SaidSince(a, a.at - Slow - CacheTtl + 1)
    BY <1>0, <1>2 DEF NotOlder
  <2>2. blindAt \in Nat /\ \A f \in Feed : lastOn[f] \in Nat /\ lastOff[f] \in Nat
    BY <1>0, IntelRead
  <2>. QED  BY <1>1, <1>2, <2>1, <2>2 DEF SaidSince, SaidAt
<1>. QED  BY <1>0, <1>2 DEF AnswersRecent, Counted

(* An address is answered as it was listed, however lookups and refreshes  *)
(* overlap (AnswersRecent).                                                *)
THEOREM AnswersHold == IntelSpec => []AnswersRecent
BY IntelInvariant, IntelCovers, PTL

-----------------------------------------------------------------------------
(* Investigations.                                                         *)

(* The thread that claimed a scan is on it until it closes it, or is lost; *)
(* a case that is marked behind no scan's back has one to come or to end.  *)
OnScan  == worker \in {"scanning", "answered", "handling", "gaveUp"}
Awaited == job \in Active \/ \E c \in Caller : request[c] = "marked"
Minded  ==
    /\ OnScan => job = "running"
    /\ job = "running" /\ ~OnScan => orphan = TRUE
    /\ worker \in {"answered", "gaveUp"} /\ case = "investigating" => excuse = TRUE
    /\ case = "investigating" /\ excuse = FALSE => Awaited

CaseInv == CaseTypeOK /\ Minded

LEMMA CaseStarts == CaseInit => CaseInv
<1>. SUFFICES ASSUME CaseInit PROVE CaseInv
  OBVIOUS
<1>1. CaseTypeOK
  <2>1. 0 \in 0..MaxTroubles /\ {FALSE} \subseteq BOOLEAN
    BY InvestigationAssumption
  <2>2. troubles \in 0..MaxTroubles /\ {orphan, excuse} \subseteq BOOLEAN
    BY <2>1 DEF CaseInit
  <2>3. case = "new" /\ job = "none" /\ worker = "idle"
        /\ request \in [Caller -> {"idle", "admitted", "marked"}]
    BY DEF CaseInit
  <2>. QED  BY <2>2, <2>3 DEF CaseTypeOK, Active, Verdicts
<1>2. Minded
  BY DEF CaseInit, Minded, OnScan, Awaited
<1>. QED  BY <1>1, <1>2 DEF CaseInv

LEMMA TroubleTyped == CaseTypeOK /\ Trouble => troubles' \in 0..MaxTroubles
BY InvestigationAssumption DEF CaseTypeOK, Trouble

LEMMA CaseStep == CaseInv /\ CaseNext => CaseInv'
<1>. SUFFICES ASSUME CaseInv, CaseNext PROVE CaseInv'
  OBVIOUS
<1>0. CaseTypeOK /\ Minded
  BY DEF CaseInv
<1>. USE DEF CaseInv, CaseTypeOK, Minded, OnScan, Awaited, Active, Verdicts
<1>1. ASSUME NEW c \in Caller, Admit(c) PROVE CaseInv'
  BY <1>0, <1>1 DEF Admit
<1>2. ASSUME NEW c \in Caller, Mark(c) PROVE CaseInv'
  <2>1. /\ case' = "investigating" /\ request' = [request EXCEPT ![c] = "marked"]
        /\ excuse' = (worker \in {"answered", "gaveUp"})
        /\ UNCHANGED <<job, worker, orphan, troubles>>
    BY <1>2 DEF Mark
  <2>2. excuse' \in BOOLEAN /\ (worker \in {"answered", "gaveUp"} => excuse' = TRUE)
    <3>1. excuse' = (worker \in {"answered", "gaveUp"})
      BY <2>1
    <3>2. excuse' \in BOOLEAN
      BY ONLY <3>1
    <3>3. excuse' <=> worker \in {"answered", "gaveUp"}
      BY ONLY <3>1
    <3>. QED  BY ONLY <3>2, <3>3
  <2>3. Awaited' /\ request' \in [Caller -> {"idle", "admitted", "marked"}]
    BY <1>0, <2>1
  <2>. QED  BY <1>0, <2>1, <2>2, <2>3
<1>3. ASSUME NEW c \in Caller, Enqueue(c) PROVE CaseInv'
  BY <1>0, <1>3 DEF Enqueue
<1>4. ASSUME NEW c \in Caller, RequestFails(c) PROVE CaseInv'
  <2>1. /\ request[c] # "idle" /\ request' = [request EXCEPT ![c] = "idle"]
        /\ troubles' \in 0..MaxTroubles /\ UNCHANGED <<case, job, worker, orphan>>
        /\ excuse' = (excuse \/ request[c] = "marked")
    BY <1>0, <1>4, TroubleTyped DEF RequestFails
  <2>2. CASE request[c] = "marked"
    <3>1. excuse' = TRUE
      BY <1>0, <2>1, <2>2
    <3>. QED  BY <1>0, <2>1, <3>1
  <2>3. CASE request[c] # "marked"
    <3>1. excuse' = excuse
      BY <1>0, <2>1, <2>3
    <3>2. Awaited => Awaited'
      BY <1>0, <2>1, <2>3
    <3>. QED  BY <1>0, <2>1, <3>1, <3>2
  <2>. QED  BY <2>2, <2>3
<1>5. ASSUME NEW s \in {"investigating", "closed"} \cup Verdicts, EditStatus(s) PROVE CaseInv'
  BY <1>0, <1>5, TroubleTyped DEF EditStatus
<1>6. ASSUME Claim PROVE CaseInv'
  BY <1>0, <1>6 DEF Claim
<1>7. ASSUME Answer PROVE CaseInv'
  BY <1>0, <1>7 DEF Answer, Verdict
<1>8. ASSUME Complete PROVE CaseInv'
  BY <1>0, <1>8 DEF Complete
<1>9. ASSUME ScanRaises PROVE CaseInv'
  BY <1>0, <1>9, TroubleTyped DEF ScanRaises
<1>10. ASSUME GiveUp PROVE CaseInv'
  BY <1>0, <1>10 DEF GiveUp, Verdict
<1>11. ASSUME CloseFailed PROVE CaseInv'
  BY <1>0, <1>11 DEF CloseFailed
<1>12. ASSUME HandlerRaises PROVE CaseInv'
  BY <1>0, <1>12, TroubleTyped DEF HandlerRaises
<1>13. ASSUME Restart PROVE CaseInv'
  BY <1>0, <1>13, TroubleTyped DEF Restart
<1>. QED  BY <1>1, <1>2, <1>3, <1>4, <1>5, <1>6, <1>7, <1>8, <1>9, <1>10, <1>11, <1>12, <1>13
          DEF CaseNext

LEMMA CaseRests == CaseInv /\ UNCHANGED caseVars => CaseInv'
BY DEF caseVars, CaseInv, CaseTypeOK, Minded, OnScan, Awaited

LEMMA CaseCovers == CaseInv => CaseSettles
BY DEF CaseInv, CaseTypeOK, Minded, OnScan, Awaited, CaseSettles, Active

LEMMA CaseInvariant == CaseSpec => []CaseInv
<1>1. CaseInv /\ [CaseNext]_caseVars => CaseInv'
  BY CaseStep, CaseRests
<1>. QED  BY CaseStarts, <1>1, PTL DEF CaseSpec

(* No case waits for a scan that nobody has and that none will end         *)
(* (CaseSettles).                                                          *)
THEOREM CaseHolds == CaseSpec => []CaseSettles
BY CaseInvariant, CaseCovers, PTL

-----------------------------------------------------------------------------
(* RetryBatch.                                                             *)

RowsListed  == [Retried -> RowStatus \cup {"none", "elsewhere"}]
AllEnded(l) == \A c \in Retried : l[c] \in Closed \cup {"elsewhere"}
Troubled(l)   == {c \in Retried : l[c] \in {"failed", "timed_out"}}

(* Rows that were read are those of every connector, and rows close for    *)
(* good: what was counted as closed is as it was counted.                  *)
RowsRead ==
    \A l \in counted :
        /\ batch \in {"starting", "watching"}
        /\ \A c \in Retried : /\ l[c] # "none" /\ child[c] # "none"
                              /\ l[c] \in Closed \cup {"elsewhere"} => child[c] = l[c]

(* What the row of the batch says, and when it is the last word.           *)
ParentSays ==
    /\ batch = "none" => parentRow.status = "none"
    /\ batch \in {"none", "starting"} => watched = FALSE
    /\ batch = "watching" => watched = TRUE /\ \A c \in Retried : child[c] # "none"
    /\ parentRow.status = "succeeded" => batch = "over"
    /\ parentRow.status = "failed" => Troubled(child) # {}
    /\ batch = "over" =>
          /\ parentRow.status \in {"succeeded", "failed"}
          /\ parentRow.finished = TRUE /\ AllEnded(child) /\ parentRow.told = Aggregate(child)
          /\ watched = TRUE => parentRow.status = IF Troubled(child) # {} THEN "failed" ELSE "succeeded"

BatchInv == BatchTypeOK /\ RowsRead /\ ParentSays

(* What is counted of a listing.                                           *)
LEMMA CountsTold ==
    ASSUME NEW l \in RowsListed
    PROVE  /\ Aggregate(l) \in Progress
           /\ Aggregate(l).total <= Cardinality(Retried)
           /\ AllDone(l) <=> \A c \in Retried : l[c] \notin {"queued", "running"}
           /\ Aggregate(l).bad > 0 <=> Troubled(l) # {}
<1>. DEFINE done == {c \in Rows(l) : l[c] \in Closed}
            bad  == {c \in Rows(l) : l[c] \in {"failed", "timed_out"}}
<1>1. IsFiniteSet(Rows(l)) /\ Cardinality(Rows(l)) \in Nat
      /\ Cardinality(Rows(l)) <= Cardinality(Retried)
  BY FS_Subset, FS_CardinalityType, BatchAssumption DEF Rows
<1>2. IsFiniteSet(done) /\ Cardinality(done) \in Nat
      /\ (Cardinality(done) = Cardinality(Rows(l)) => done = Rows(l))
  BY <1>1, FS_Subset, FS_CardinalityType
<1>3. IsFiniteSet(bad) /\ Cardinality(bad) \in Nat /\ (Cardinality(bad) = 0 <=> bad = {})
  BY <1>1, FS_Subset, FS_CardinalityType, FS_EmptySet
<1>4. /\ Aggregate(l) = [total |-> Cardinality(Rows(l)), completed |-> Cardinality(done),
                         bad |-> Cardinality(bad)]
  BY DEF Aggregate
<1>5. bad = Troubled(l)
  BY DEF Troubled, Rows, RowStatus, Closed
<1>6. done = Rows(l) <=> \A c \in Retried : l[c] \notin {"queued", "running"}
  BY DEF Rows, RowStatus, Closed, RowsListed
<1>7. AllDone(l) <=> Cardinality(done) = Cardinality(Rows(l))
  BY <1>4 DEF AllDone
<1>. HIDE DEF done, bad
<1>8. Aggregate(l) \in Progress /\ Aggregate(l).total <= Cardinality(Retried)
  BY <1>1, <1>2, <1>3, <1>4 DEF Progress
<1>9. Aggregate(l).bad > 0 <=> Troubled(l) # {}
  BY <1>3, <1>4, <1>5
<1>10. AllDone(l) <=> \A c \in Retried : l[c] \notin {"queued", "running"}
  BY <1>2, <1>6, <1>7
<1>. QED  BY <1>8, <1>9, <1>10

LEMMA BatchStarts == BatchInit => BatchInv
<1>. SUFFICES ASSUME BatchInit PROVE BatchInv
  OBVIOUS
<1>1. NoProgress \in Progress /\ NoProgress.total = 0
  BY DEF NoProgress, Progress
<1>2. Cardinality(Retried) \in Nat /\ MaxBreaks \in Nat
  BY BatchAssumption, FS_CardinalityType
<1>3. BatchTypeOK
  <2>1. 0 \in 0..MaxBreaks /\ {} \subseteq RowsListed /\ counted = {}
    BY <1>2 DEF BatchInit
  <2>2. child \in RowsListed
    BY DEF BatchInit, RowsListed
  <2>3. parentRow \in [status : RowStatus \cup {"none"}, finished : BOOLEAN, told : Progress]
        /\ parentRow.told.total <= Cardinality(Retried)
    BY <1>1, <1>2 DEF BatchInit
  <2>. QED  BY <2>1, <2>2, <2>3, AtMostOne DEF BatchInit, BatchTypeOK, RowsListed
<1>4. RowsRead /\ ParentSays
  BY DEF BatchInit, RowsRead, ParentSays
<1>. QED  BY <1>3, <1>4 DEF BatchInv

(* A child row that closes stays closed as it is.                          *)
LEMMA ChildKeeps ==
    ASSUME BatchInv, NEW c \in Retried, Visits(c) \/ ChildRuns(c) \/ ChildEnds(c)
    PROVE  BatchInv'
<1>0. BatchTypeOK /\ RowsRead /\ ParentSays
  BY DEF BatchInv
<1>1. /\ child[c] \in {"none", "queued", "running"}
      /\ child[c] = "none" => batch = "starting"
      /\ \E as \in RowStatus \cup {"elsewhere"} : child' = [child EXCEPT ![c] = as]
      /\ UNCHANGED <<batch, watched, parentRow, counted, breaks>>
  BY DEF Visits, ChildRuns, ChildEnds, RowStatus, Closed
<1>2. child' \in [Retried -> RowStatus \cup {"none", "elsewhere"}]
  BY <1>0, <1>1 DEF BatchTypeOK
<1>3. BatchTypeOK'
  <2>1. UNCHANGED <<batch, watched, parentRow, counted, breaks>>
    BY <1>1
  <2>. QED  BY <1>0, <1>2, <2>1 DEF BatchTypeOK
<1>4. /\ child'[c] # "none" /\ \A d \in Retried \ {c} : child'[d] = child[d]
  BY <1>0, <1>1 DEF BatchTypeOK, RowStatus, Closed
<1>5. RowsRead'
  <2>1. child[c] \notin Closed \cup {"elsewhere"} /\ counted' = counted /\ batch' = batch
    BY <1>1 DEF Closed
  <2>. QED  BY <1>0, <1>4, <2>1 DEF RowsRead
<1>6. batch # "over"
  BY <1>0, <1>1 DEF ParentSays, AllEnded, Closed
<1>7. Troubled(child) # {} => Troubled(child') # {}
  BY <1>1, <1>4 DEF Troubled
<1>8. ParentSays'
  BY <1>0, <1>1, <1>4, <1>6, <1>7 DEF ParentSays, Troubled
<1>. QED  BY <1>3, <1>5, <1>8 DEF BatchInv

LEMMA BatchStep == BatchInv /\ BatchNext => BatchInv'
<1>. SUFFICES ASSUME BatchInv, BatchNext PROVE BatchInv'
  OBVIOUS
<1>0. BatchTypeOK /\ RowsRead /\ ParentSays
  BY DEF BatchInv
<1>1. NoProgress \in Progress /\ NoProgress.total = 0 /\ Cardinality(Retried) \in Nat
  BY BatchAssumption, FS_CardinalityType DEF NoProgress, Progress
<1>2. child \in RowsListed /\ counted \subseteq RowsListed
  BY <1>0 DEF BatchTypeOK, RowsListed
<1>3. CASE RetryAll
  <2>1. /\ batch = "none" /\ batch' = "starting" /\ parentRow' = [parentRow EXCEPT !.status = "queued"]
        /\ UNCHANGED <<watched, child, counted, breaks>>
    BY <1>3 DEF RetryAll
  <2>2. BatchTypeOK'
    BY <1>0, <2>1 DEF BatchTypeOK, RowStatus, Closed
  <2>3. parentRow'.status = "queued"
    BY <1>0, <2>1 DEF BatchTypeOK
  <2>4. RowsRead'
    BY <1>0, <2>1 DEF RowsRead
  <2>5. ParentSays'
    BY <1>0, <2>1, <2>3 DEF ParentSays
  <2>. QED  BY <2>2, <2>4, <2>5 DEF BatchInv
<1>4. CASE CountsRows
  <2>1. /\ batch \in {"starting", "watching"} /\ counted' = {child}
        /\ batch = "starting" => \A c \in Retried : child[c] # "none"
        /\ UNCHANGED <<batch, watched, parentRow, child, breaks>>
    BY <1>4 DEF CountsRows
  <2>2. BatchTypeOK'
    BY <1>0, <2>1, AtMostOne DEF BatchTypeOK
  <2>3. RowsRead'
    BY <1>0, <2>1 DEF RowsRead, ParentSays
  <2>4. ParentSays'
    BY <1>0, <2>1 DEF ParentSays
  <2>. QED  BY <2>2, <2>3, <2>4 DEF BatchInv
<1>5. ASSUME NEW l \in counted, NEW status \in {"succeeded", "failed", "running"},
             WritesParent(l, status), batch' = IF AllDone(l) THEN "over" ELSE "watching",
             watched' \in BOOLEAN, AllDone(l) \/ watched' = TRUE,
             status = "succeeded" => AllDone(l),
             status = "failed" => Troubled(l) # {},
             status = "running" => ~AllDone(l),
             AllDone(l) /\ watched' = TRUE => status = IF Troubled(l) # {} THEN "failed" ELSE "succeeded"
      PROVE  BatchInv'
  <2>1. /\ parentRow' = [status |-> status, finished |-> parentRow.finished \/ AllDone(l),
                         told |-> Aggregate(l)]
        /\ counted' = {} /\ UNCHANGED <<child, breaks>>
    BY <1>5 DEF WritesParent
  <2>2. /\ parentRow'.status = status /\ parentRow'.told = Aggregate(l)
        /\ parentRow'.finished \in BOOLEAN /\ (AllDone(l) => parentRow'.finished = TRUE)
    BY <1>0, <2>1 DEF BatchTypeOK
  <2>3. /\ parentRow' \in [status : RowStatus \cup {"none"}, finished : BOOLEAN, told : Progress]
        /\ parentRow'.told.total <= Cardinality(Retried)
    BY <1>2, <1>5, <2>1, <2>2, CountsTold DEF RowStatus, Closed
  <2>4. BatchTypeOK'
    BY <1>0, <1>5, <2>1, <2>3, AtMostOne DEF BatchTypeOK
  <2>5. RowsRead'
    BY <2>1 DEF RowsRead
  <2>6. l \in RowsListed /\ child \in RowsListed
        /\ \A c \in Retried : /\ l[c] # "none" /\ child[c] # "none"
                              /\ l[c] \in Closed \cup {"elsewhere"} => child[c] = l[c]
    BY <1>0, <1>2, <1>5 DEF RowsRead
  <2>7. Troubled(l) # {} => Troubled(child) # {}
    BY <2>6 DEF Troubled, Closed
  <2>8. AllDone(l) => child = l /\ AllEnded(child)
    <3>1. AllDone(l) => AllEnded(l)
      BY <2>6, CountsTold DEF AllEnded, RowsListed, RowStatus
    <3>2. AllEnded(l) => child = l
      BY <2>6 DEF AllEnded, RowsListed
    <3>. QED  BY <3>1, <3>2
  <2>9. ASSUME AllDone(l) PROVE ParentSays'
    <3>1. batch' = "over" /\ child' = child /\ child = l /\ AllEnded(child)
      BY <1>5, <2>1, <2>8, <2>9
    <3>2. Aggregate(child)' = Aggregate(l)
      BY <3>1
    <3>3. Troubled(child)' = Troubled(l)
      BY <3>1
    <3>4. AllEnded(child)'
      BY <3>1 DEF AllEnded
    <3>5. status \in {"succeeded", "failed"} /\ parentRow'.status = status
          /\ parentRow'.finished = TRUE /\ parentRow'.told = Aggregate(l)
          /\ (status = "failed" => Troubled(l) # {})
          /\ (watched' = TRUE => status = IF Troubled(l) # {} THEN "failed" ELSE "succeeded")
      BY <1>5, <2>2, <2>9
    <3>. QED  BY <3>1, <3>2, <3>3, <3>4, <3>5 DEF ParentSays
  <2>10. ASSUME ~AllDone(l) PROVE ParentSays'
    <3>1. batch' = "watching" /\ watched' = TRUE /\ \A c \in Retried : child'[c] # "none"
      BY <1>5, <2>1, <2>6, <2>10
    <3>2. parentRow'.status = status /\ status \in {"failed", "running"}
      BY <1>5, <2>2, <2>10
    <3>3. status = "failed" => Troubled(child)' # {}
      BY <1>5, <2>1, <2>7 DEF Troubled
    <3>. QED  BY <3>1, <3>2, <3>3 DEF ParentSays
  <2>11. ParentSays'
    BY <2>9, <2>10
  <2>. QED  BY <2>4, <2>5, <2>11 DEF BatchInv
<1>6. CASE StartEnds
  <2>1. PICK l \in counted :
          /\ WritesParent(l, IF AllDone(l) THEN "succeeded" ELSE "running")
          /\ batch = "starting" /\ batch' = IF AllDone(l) THEN "over" ELSE "watching"
          /\ watched' = ~AllDone(l)
    BY <1>6 DEF StartEnds
  <2>2. CASE AllDone(l)
    <3>1. watched' = FALSE
      BY <2>1, <2>2
    <3>2. WritesParent(l, "succeeded")
      BY <2>1, <2>2
    <3>3. watched' \in BOOLEAN /\ (AllDone(l) \/ watched' = TRUE) /\ ~(AllDone(l) /\ watched' = TRUE)
      BY <2>2, <3>1
    <3>. QED  BY <1>5, <2>1, <2>2, <3>2, <3>3
  <2>3. CASE ~AllDone(l)
    <3>1. watched' = TRUE
      BY <2>1, <2>3
    <3>2. WritesParent(l, "running")
      BY <2>1, <2>3
    <3>3. watched' \in BOOLEAN /\ (AllDone(l) \/ watched' = TRUE) /\ ~(AllDone(l) /\ watched' = TRUE)
      BY <2>3, <3>1
    <3>. QED  BY <1>5, <2>1, <2>3, <3>2, <3>3
  <2>. QED  BY <2>2, <2>3
<1>7. CASE MonitorWrites
  <2>1. PICK l \in counted :
          /\ WritesParent(l, IF Aggregate(l).bad > 0 THEN "failed"
                             ELSE IF AllDone(l) THEN "succeeded" ELSE "running")
          /\ batch = "watching" /\ batch' = IF AllDone(l) THEN "over" ELSE "watching"
          /\ watched' = watched
    BY <1>7 DEF MonitorWrites
  <2>2. watched' = TRUE
    BY <1>0, <2>1 DEF ParentSays
  <2>3. Aggregate(l).bad > 0 <=> Troubled(l) # {}
    BY <1>2, CountsTold
  <2>4. CASE Troubled(l) # {}
    <3>1. WritesParent(l, "failed")
      BY <2>1, <2>3, <2>4
    <3>. QED  BY <1>5, <2>1, <2>2, <2>4, <3>1
  <2>5. CASE Troubled(l) = {} /\ AllDone(l)
    <3>1. WritesParent(l, "succeeded")
      BY <2>1, <2>3, <2>5
    <3>. QED  BY <1>5, <2>1, <2>2, <2>5, <3>1
  <2>6. CASE Troubled(l) = {} /\ ~AllDone(l)
    <3>1. WritesParent(l, "running")
      BY <2>1, <2>3, <2>6
    <3>. QED  BY <1>5, <2>1, <2>2, <2>6, <3>1
  <2>. QED  BY <2>4, <2>5, <2>6
<1>8. CASE BatchDies
  <2>1. /\ batch \in {"starting", "watching"} /\ batch' = "dead" /\ counted' = {}
        /\ breaks' \in 0..MaxBreaks /\ UNCHANGED <<watched, parentRow, child>>
    BY <1>0, <1>8, BatchAssumption DEF BatchDies, Break, BatchTypeOK
  <2>2. BatchTypeOK'
    BY <1>0, <2>1, AtMostOne DEF BatchTypeOK
  <2>3. RowsRead' /\ ParentSays'
    BY <1>0, <2>1 DEF RowsRead, ParentSays
  <2>. QED  BY <2>2, <2>3 DEF BatchInv
<1>9. CASE ParentReaped
  <2>1. /\ parentRow.status \in {"queued", "running"}
        /\ parentRow' = [status |-> "timed_out", finished |-> TRUE, told |-> NoProgress]
        /\ UNCHANGED <<batch, watched, child, counted, breaks>>
    BY <1>9 DEF ParentReaped
  <2>2. parentRow' \in [status : RowStatus \cup {"none"}, finished : BOOLEAN, told : Progress]
        /\ parentRow'.told.total <= Cardinality(Retried)
    BY <1>1, <2>1 DEF RowStatus, Closed
  <2>3. BatchTypeOK'
    BY <1>0, <2>1, <2>2 DEF BatchTypeOK
  <2>4. RowsRead'
    BY <1>0, <2>1 DEF RowsRead
  <2>5. ParentSays'
    BY <1>0, <2>1 DEF ParentSays
  <2>. QED  BY <2>3, <2>4, <2>5 DEF BatchInv
<1>10. ASSUME NEW c \in Retried, Visits(c) \/ ChildRuns(c) \/ ChildEnds(c) PROVE BatchInv'
  BY <1>10, ChildKeeps
<1>. QED  BY <1>3, <1>4, <1>6, <1>7, <1>8, <1>9, <1>10 DEF BatchNext

LEMMA BatchRests == BatchInv /\ UNCHANGED batchVars => BatchInv'
<1>. SUFFICES ASSUME BatchInv, UNCHANGED batchVars PROVE BatchInv'
  OBVIOUS
<1>1. UNCHANGED <<batch, watched, parentRow, child, counted, breaks>>
  BY DEF batchVars
<1>2. BatchTypeOK'
  BY <1>1 DEF BatchInv, BatchTypeOK
<1>3. RowsRead' /\ ParentSays'
  BY <1>1 DEF BatchInv, RowsRead, ParentSays, AllEnded, Troubled, Aggregate, Rows
<1>. QED  BY <1>2, <1>3 DEF BatchInv

LEMMA BatchCovers == BatchInv => BatchTold
<1>. SUFFICES ASSUME BatchInv PROVE BatchTold
  OBVIOUS
<1>1. ParentSays /\ BatchTypeOK
  BY DEF BatchInv
<1>2. AllEnded(child) => \A c \in Retried : child[c] \notin {"queued", "running"}
  BY DEF AllEnded, Closed
<1>. QED  BY <1>1, <1>2 DEF ParentSays, BatchTold, Troubled, BatchTypeOK

LEMMA BatchInvariant == BatchSpec => []BatchInv
<1>1. BatchInv /\ [BatchNext]_batchVars => BatchInv'
  BY BatchStep, BatchRests
<1>. QED  BY BatchStarts, <1>1, PTL DEF BatchSpec

(* The row of a Retry all tells its children, for any finite set of        *)
(* connectors (BatchTold).                                                 *)
THEOREM BatchHolds == BatchSpec => []BatchTold
BY BatchInvariant, BatchCovers, PTL

-----------------------------------------------------------------------------
(* NoteSenders.                                                            *)

(* What each notification has been through.                                *)
Weighed(n) ==
    /\ noteFate[n] = "waiting" => tries[n] = 0
    /\ noteFate[n] \in {"waiting", "trying"} =>
          unheard[n] <= tries[n] /\ \A r \in Recipient : reached[n][r] <= tries[n]
    /\ \A r \in Recipient : reached[n][r] <= unheard[n] + (IF noteFate[n] = "sent" THEN 1 ELSE 0)
    /\ noteFate[n] = "sent" => \/ \A r \in Recipient : reached[n][r] > 0
                               \/ channel.kind = "smtp" /\ \E r \in Recipient : reached[n][r] > 0
    /\ Raises \/ Refuses => noteFate[n] # "sent" /\ \A r \in Recipient : reached[n][r] = 0
    /\ noteFate[n] \in {"raised", "dropped"} => Raises \/ channel.kind = "other"

(* An open incident was opened for something with its key.                 *)
Opener(k) == \E m \in Note : DedupKey(m) = k /\ openedFor[m] > 0
Merged ==
    channel.kind = "pager" =>
        /\ \A n \in Note : /\ openedFor[n] <= closed + (IF DedupKey(n) \in incidents THEN 1 ELSE 0)
                           /\ noteFate[n] = "sent" => Opener(DedupKey(n))
        /\ \A k \in incidents : Opener(k)

SendersInv == SendersTypeOK /\ (\A n \in Note : Weighed(n)) /\ Merged

LEMMA SendersStarts == SendersInit => SendersInv
<1>. SUFFICES ASSUME SendersInit PROVE SendersInv
  OBVIOUS
<1>1. /\ 0 \in 0..Retries /\ 0 \in 0..Retries + 1 /\ 0 \in 0..MaxClosed
  BY SendersAssumption
<1>2. SendersTypeOK
  BY <1>1 DEF SendersInit, SendersTypeOK
<1>3. ASSUME NEW n \in Note PROVE Weighed(n)
  BY <1>3 DEF SendersInit, Weighed
<1>4. Merged
  BY DEF SendersInit, Merged
<1>. QED  BY <1>2, <1>3, <1>4 DEF SendersInv

(* Nothing moves but the fate of one notification.                         *)
LEMMA FateKeeps ==
    ASSUME SendersInv, NEW n \in Note, BeginsNote(n) \/ NotCalled(n) \/ StopsWaiting(n)
    PROVE  SendersInv'
<1>0. SendersTypeOK /\ (\A m \in Note : Weighed(m)) /\ Merged
  BY DEF SendersInv
<1>1. UNCHANGED <<channel, noteOf, reached, unheard, incidents, openedFor, closed>>
  BY DEF BeginsNote, NotCalled, StopsWaiting
<1>2. /\ noteFate[n] \in {"waiting", "trying"}
      /\ \E f \in {"trying", "failed", "raised", "dropped"} :
            /\ noteFate' = [noteFate EXCEPT ![n] = f]
            /\ f \in {"raised", "dropped"} => Raises \/ channel.kind = "other"
  BY DEF BeginsNote, NotCalled, StopsWaiting
<1>3. tries' \in [Note -> 0..Retries] /\ \A m \in Note : tries'[m] >= tries[m]
  <2>1. Retries \in Nat /\ tries \in [Note -> 0..Retries]
    BY <1>0, SendersAssumption DEF SendersTypeOK
  <2>2. CASE BeginsNote(n) \/ StopsWaiting(n)
    BY <2>1, <2>2 DEF BeginsNote, StopsWaiting
  <2>3. CASE NotCalled(n)
    <3>1. tries' = [tries EXCEPT ![n] = IF Raises \/ LastTry(n) THEN tries[n] ELSE tries[n] + 1]
      BY <2>3 DEF NotCalled
    <3>2. CASE Raises \/ LastTry(n)
      BY <2>1, <3>1, <3>2
    <3>3. CASE ~Raises /\ ~LastTry(n)
      <4>1. tries[n] + 1 \in 0..Retries
        BY <2>1, <3>3 DEF LastTry
      <4>2. tries' = [tries EXCEPT ![n] = tries[n] + 1]
        BY <3>1, <3>3
      <4>. QED  BY <2>1, <4>1, <4>2
    <3>. QED  BY <3>2, <3>3
  <2>. QED  BY <2>2, <2>3
<1>4. SendersTypeOK'
  <2>1. noteFate' \in [Note -> {"waiting", "trying", "sent", "failed", "raised", "dropped"}]
    BY <1>0, <1>2 DEF SendersTypeOK
  <2>. QED  BY <1>0, <1>1, <1>3, <2>1 DEF SendersTypeOK
<1>5. /\ \A m \in Note \ {n} : noteFate'[m] = noteFate[m] /\ (noteFate[m] = "waiting" => tries'[m] = tries[m])
      /\ noteFate'[n] \in {"trying", "failed", "raised", "dropped"}
      /\ noteFate'[n] \in {"raised", "dropped"} => Raises \/ channel.kind = "other"
  BY <1>0, <1>2 DEF BeginsNote, NotCalled, StopsWaiting, SendersTypeOK
<1>6. (Raises <=> Raises') /\ (Refuses <=> Refuses')
  BY <1>1 DEF Raises, Refuses
<1>7. ASSUME NEW m \in Note PROVE Weighed(m)'
  <2>1. /\ tries[m] \in Nat /\ tries'[m] \in Nat /\ unheard[m] \in Nat
        /\ \A r \in Recipient : reached[m][r] \in Nat
        /\ tries'[m] >= tries[m]
    BY <1>0, <1>3 DEF SendersTypeOK
  <2>2. CASE m # n
    <3>1. /\ noteFate'[m] = noteFate[m] /\ (noteFate[m] = "waiting" => tries'[m] = tries[m])
      BY <1>5, <2>2
    <3>. QED  BY <1>0, <1>1, <1>6, <2>1, <3>1 DEF Weighed
  <2>3. CASE m = n
    BY <1>0, <1>1, <1>2, <1>5, <1>6, <2>1, <2>3 DEF Weighed
  <2>. QED  BY <2>2, <2>3
<1>8. Merged'
  <2>1. \A m \in Note : noteFate'[m] = "sent" => noteFate[m] = "sent"
    BY <1>5
  <2>. QED  BY <1>0, <1>1, <2>1 DEF Merged, Opener, DedupKey
<1>. QED  BY <1>4, <1>7, <1>8 DEF SendersInv

LEMMA CallsKeeps ==
    ASSUME SendersInv, NEW n \in Note, Calls(n)
    PROVE  SendersInv'
<1>0. SendersTypeOK /\ (\A m \in Note : Weighed(m)) /\ Merged
  BY DEF SendersInv
<1>1. PICK a \in CallAnswers : \E rs \in Reach(a) :
           /\ noteFate[n] = "trying" /\ ~Raises /\ ~Refuses
           /\ reached' = [reached EXCEPT ![n] = [r \in Recipient |-> @[r] + IF r \in rs THEN 1 ELSE 0]]
           /\ unheard' = [unheard EXCEPT ![n] = @ + IF a = "unheard" THEN 1 ELSE 0]
           /\ noteFate' = [noteFate EXCEPT ![n] =
                  IF Answered(a) THEN "sent" ELSE IF LastTry(n) THEN "failed" ELSE "trying"]
           /\ tries' = [tries EXCEPT ![n] = IF Answered(a) \/ LastTry(n) THEN @ ELSE @ + 1]
           /\ IF channel.kind = "pager" /\ rs # {}
              THEN /\ incidents' = incidents \cup {DedupKey(n)}
                   /\ openedFor' = [openedFor EXCEPT ![n] = @ + IF DedupKey(n) \in incidents THEN 0 ELSE 1]
              ELSE UNCHANGED <<incidents, openedFor>>
           /\ UNCHANGED <<channel, noteOf, closed>>
  BY DEF Calls
<1>2. PICK rs \in Reach(a) :
           /\ noteFate[n] = "trying" /\ ~Raises /\ ~Refuses
           /\ reached' = [reached EXCEPT ![n] = [r \in Recipient |-> @[r] + IF r \in rs THEN 1 ELSE 0]]
           /\ unheard' = [unheard EXCEPT ![n] = @ + IF a = "unheard" THEN 1 ELSE 0]
           /\ noteFate' = [noteFate EXCEPT ![n] =
                  IF Answered(a) THEN "sent" ELSE IF LastTry(n) THEN "failed" ELSE "trying"]
           /\ tries' = [tries EXCEPT ![n] = IF Answered(a) \/ LastTry(n) THEN @ ELSE @ + 1]
           /\ IF channel.kind = "pager" /\ rs # {}
              THEN /\ incidents' = incidents \cup {DedupKey(n)}
                   /\ openedFor' = [openedFor EXCEPT ![n] = @ + IF DedupKey(n) \in incidents THEN 0 ELSE 1]
              ELSE UNCHANGED <<incidents, openedFor>>
           /\ UNCHANGED <<channel, noteOf, closed>>
  BY <1>1
(* What the other end did.                                                 *)
<1>3. /\ a \in {"accepted", "refused", "unheard", "some refused"}
      /\ a = "some refused" => channel.kind = "smtp"
  BY DEF CallAnswers
<1>4. /\ a \in {"accepted", "unheard"} => rs = Recipient
      /\ a = "refused" => rs = {}
      /\ a = "some refused" => rs # {} /\ rs \subseteq Recipient
  <2>1. ASSUME a \in {"accepted", "unheard"} PROVE rs = Recipient
    BY <1>2, <2>1 DEF Reach
  <2>2. ASSUME a = "refused" PROVE rs = {}
    BY <1>2, <2>2 DEF Reach
  <2>3. ASSUME a = "some refused" PROVE rs # {} /\ rs \subseteq Recipient
    <3>1. Reach(a) = (SUBSET Recipient) \ {{}, Recipient}
      BY <2>3 DEF Reach
    <3>. QED  BY <1>2, <3>1
  <2>. QED  BY <2>1, <2>2, <2>3
<1>5. Answered(a) <=> a \in {"accepted", "some refused"}
  BY DEF Answered
(* What became of the notification.                                        *)
<1>6. /\ \A m \in Note : tries[m] \in Nat /\ unheard[m] \in Nat /\ openedFor[m] \in Nat
      /\ \A m \in Note : \A r \in Recipient : reached[m][r] \in Nat
      /\ \A m \in Note : tries[m] <= Retries
      /\ Retries \in Nat /\ closed \in Nat
  BY <1>0, SendersAssumption DEF SendersTypeOK
<1>7. /\ noteFate'[n] = IF Answered(a) THEN "sent" ELSE IF LastTry(n) THEN "failed" ELSE "trying"
      /\ tries'[n] = IF Answered(a) \/ LastTry(n) THEN tries[n] ELSE tries[n] + 1
      /\ unheard'[n] = unheard[n] + IF a = "unheard" THEN 1 ELSE 0
      /\ \A m \in Note \ {n} : /\ noteFate'[m] = noteFate[m] /\ tries'[m] = tries[m]
                               /\ unheard'[m] = unheard[m] /\ reached'[m] = reached[m]
  BY <1>0, <1>2 DEF SendersTypeOK
<1>8. \A r \in Recipient : reached'[n][r] = reached[n][r] + IF r \in rs THEN 1 ELSE 0
  BY <1>0, <1>2 DEF SendersTypeOK
<1>9. ~LastTry(n) => tries[n] < Retries
  BY <1>6 DEF LastTry
<1>10. unheard[n] <= tries[n] /\ \A r \in Recipient : reached[n][r] <= tries[n] /\ reached[n][r] <= unheard[n]
  BY <1>0, <1>2, <1>6 DEF Weighed
<1>11. DedupKey(n) \in {"x", "y", "digest", "test"}
  BY <1>0 DEF DedupKey, SendersTypeOK, Sendings
<1>12. SendersTypeOK'
  <2>1. tries' \in [Note -> 0..Retries]
    BY <1>0, <1>2, <1>6, <1>9 DEF SendersTypeOK
  <2>2. unheard' \in [Note -> 0..Retries + 1]
    BY <1>0, <1>2, <1>6, <1>10 DEF SendersTypeOK
  <2>3. reached' \in [Note -> [Recipient -> 0..Retries + 1]]
    <3>1. \A r \in Recipient : reached[n][r] + (IF r \in rs THEN 1 ELSE 0) \in 0..Retries + 1
      BY <1>6, <1>10
    <3>2. [r \in Recipient |-> reached[n][r] + IF r \in rs THEN 1 ELSE 0] \in [Recipient -> 0..Retries + 1]
      BY <3>1
    <3>3. reached' = [reached EXCEPT ![n] = [r \in Recipient |-> reached[n][r] + IF r \in rs THEN 1 ELSE 0]]
      BY <1>2
    <3>. QED  BY <1>0, <3>2, <3>3 DEF SendersTypeOK
  <2>4. incidents' \subseteq {"x", "y", "digest", "test"} /\ openedFor' \in [Note -> Nat]
    <3>1. CASE channel.kind = "pager" /\ rs # {}
      <4>1. /\ incidents' = incidents \cup {DedupKey(n)}
            /\ openedFor' = [openedFor EXCEPT ![n] = @ + IF DedupKey(n) \in incidents THEN 0 ELSE 1]
        BY <1>2, <3>1
      <4>2. openedFor' \in [Note -> Nat]
        BY <1>0, <4>1 DEF SendersTypeOK
      <4>. QED  BY <1>0, <1>11, <4>1, <4>2 DEF SendersTypeOK
    <3>2. CASE ~(channel.kind = "pager" /\ rs # {})
      BY <1>0, <1>2, <3>2 DEF SendersTypeOK
    <3>. QED  BY <3>1, <3>2
  <2>5. noteFate' \in [Note -> {"waiting", "trying", "sent", "failed", "raised", "dropped"}]
    BY <1>0, <1>2 DEF SendersTypeOK
  <2>. QED  BY <1>0, <1>2, <2>1, <2>2, <2>3, <2>4, <2>5 DEF SendersTypeOK
<1>13. channel' = channel /\ (Raises <=> Raises') /\ (Refuses <=> Refuses')
  BY <1>2 DEF Raises, Refuses
<1>14. ASSUME NEW m \in Note PROVE Weighed(m)'
  <2>1. CASE m # n
    BY <1>0, <1>7, <1>13, <2>1 DEF Weighed
  <2>2. Weighed(n)'
    <3>1. Recipient # {}
      BY SendersAssumption
    <3>2. CASE a \in {"accepted", "some refused"}
      <4>1. noteFate'[n] = "sent"
        BY <1>5, <1>7, <3>2
      <4>2. unheard'[n] = unheard[n]
        <5>1. a # "unheard"
          BY <3>2
        <5>. QED  BY <1>6, <1>7, <5>1
      <4>3. \A r \in Recipient : reached'[n][r] \in Nat /\ reached'[n][r] <= reached[n][r] + 1
                                 /\ (r \in rs => reached'[n][r] > 0)
        BY <1>6, <1>8
      <4>4. \/ \A r \in Recipient : reached'[n][r] > 0
            \/ channel.kind = "smtp" /\ \E r \in Recipient : reached'[n][r] > 0
        BY <1>3, <1>4, <3>2, <4>3
      <4>5. \A r \in Recipient : reached'[n][r] <= unheard'[n] + 1
        BY <1>6, <1>10, <4>2, <4>3
      <4>6. ~Raises' /\ ~Refuses'
        BY <1>2, <1>13
      <4>. QED  BY <1>13, <4>1, <4>4, <4>5, <4>6 DEF Weighed
    <3>3. CASE a \in {"refused", "unheard"}
      <4>1. /\ noteFate'[n] \in {"failed", "trying"}
            /\ noteFate'[n] = "trying" => tries'[n] = tries[n] + 1
            /\ unheard'[n] = unheard[n] + IF a = "unheard" THEN 1 ELSE 0
        BY <1>5, <1>7, <3>3
      <4>2. \A r \in Recipient : /\ reached'[n][r] \in Nat /\ reached'[n][r] <= unheard'[n]
                                 /\ noteFate'[n] = "trying" => reached'[n][r] <= tries'[n]
        <5>1. CASE a = "refused"
          <6>1. rs = {} /\ unheard'[n] = unheard[n]
            BY <1>4, <1>6, <4>1, <5>1
          <6>2. \A r \in Recipient : reached'[n][r] = reached[n][r]
            BY <1>6, <1>8, <6>1
          <6>. QED  BY <1>6, <1>10, <4>1, <6>1, <6>2
        <5>2. CASE a = "unheard"
          <6>1. rs = Recipient /\ unheard'[n] = unheard[n] + 1
            BY <1>4, <4>1, <5>2
          <6>2. \A r \in Recipient : reached'[n][r] = reached[n][r] + 1
            BY <1>6, <1>8, <6>1
          <6>. QED  BY <1>6, <1>10, <4>1, <6>1, <6>2
        <5>. QED  BY <3>3, <5>1, <5>2
      <4>3. noteFate'[n] = "trying" => unheard'[n] <= tries'[n]
        BY <1>6, <1>10, <4>1
      <4>4. ~Raises' /\ ~Refuses' /\ unheard'[n] \in Nat
        BY <1>2, <1>6, <1>13, <4>1
      <4>. QED  BY <1>13, <4>1, <4>2, <4>3, <4>4 DEF Weighed
    <3>. QED  BY <1>3, <3>2, <3>3
  <2>. QED  BY <2>1, <2>2
<1>15. Merged'
  <2>. SUFFICES ASSUME channel.kind = "pager" PROVE Merged'
    BY <1>2 DEF Merged
  <2>0. /\ \A m \in Note : /\ openedFor[m] <= closed + (IF DedupKey(m) \in incidents THEN 1 ELSE 0)
                           /\ noteFate[m] = "sent" => Opener(DedupKey(m))
        /\ \A k \in incidents : Opener(k)
    BY <1>0 DEF Merged
  <2>1. \A m \in Note : DedupKey(m)' = DedupKey(m)
    BY <1>2 DEF DedupKey
  <2>2. CASE rs = {}
    <3>1. UNCHANGED <<incidents, openedFor, closed>>
      BY <1>2, <2>2
    <3>2. \A k : Opener(k) => Opener(k)'
      BY <2>1, <3>1 DEF Opener
    <3>3. ~Answered(a)
      BY <1>3, <1>4, <1>5, <2>2, SendersAssumption
    <3>4. \A m \in Note : noteFate'[m] = "sent" => noteFate[m] = "sent"
      BY <1>7, <3>3
    <3>. QED  BY <2>0, <2>1, <3>1, <3>2, <3>4 DEF Merged
  <2>3. CASE rs # {}
    <3>1. /\ incidents' = incidents \cup {DedupKey(n)} /\ closed' = closed
          /\ openedFor' = [openedFor EXCEPT ![n] = @ + IF DedupKey(n) \in incidents THEN 0 ELSE 1]
      BY <1>2, <2>3
    <3>2. /\ openedFor'[n] = openedFor[n] + IF DedupKey(n) \in incidents THEN 0 ELSE 1
          /\ \A m \in Note \ {n} : openedFor'[m] = openedFor[m]
      BY <1>0, <3>1 DEF SendersTypeOK
    <3>3. \A k : Opener(k) => Opener(k)'
      <4>1. \A m \in Note : openedFor[m] > 0 => openedFor'[m] > 0
        BY <1>6, <3>2
      <4>. QED  BY <2>1, <4>1 DEF Opener
    <3>4. Opener(DedupKey(n))'
      <4>1. CASE DedupKey(n) \in incidents
        BY <2>0, <2>1, <3>3, <4>1
      <4>2. CASE DedupKey(n) \notin incidents
        <5>1. openedFor'[n] > 0
          BY <1>6, <3>2, <4>2
        <5>. QED  BY <2>1, <5>1 DEF Opener
      <4>. QED  BY <4>1, <4>2
    <3>5. ASSUME NEW m \in Note
          PROVE  openedFor'[m] <= closed' + (IF DedupKey(m)' \in incidents' THEN 1 ELSE 0)
      BY <1>6, <2>0, <2>1, <3>1, <3>2
    <3>6. \A m \in Note : noteFate'[m] = "sent" => Opener(DedupKey(m))'
      BY <1>7, <2>0, <2>1, <3>3, <3>4
    <3>7. \A k \in incidents' : Opener(k)'
      BY <2>0, <2>1, <3>1, <3>3, <3>4
    <3>. QED  BY <3>5, <3>6, <3>7 DEF Merged
  <2>. QED  BY <2>2, <2>3
<1>. QED  BY <1>12, <1>14, <1>15 DEF SendersInv

LEMMA ClosesKeeps == SendersInv /\ ClosesIncident => SendersInv'
<1>. SUFFICES ASSUME SendersInv, ClosesIncident PROVE SendersInv'
  OBVIOUS
<1>0. SendersTypeOK /\ (\A m \in Note : Weighed(m)) /\ Merged
  BY DEF SendersInv
<1>1. /\ closed < MaxClosed /\ closed' = closed + 1
      /\ \E k \in incidents : incidents' = incidents \ {k}
      /\ UNCHANGED <<channel, noteOf, noteFate, tries, reached, unheard, openedFor>>
  BY DEF ClosesIncident
<1>2. SendersTypeOK'
  BY <1>0, <1>1, SendersAssumption DEF SendersTypeOK
<1>3. \A m \in Note : Weighed(m)'
  BY <1>0, <1>1 DEF Weighed, Raises, Refuses
<1>4. closed \in Nat /\ \A m \in Note : openedFor[m] \in Nat
  BY <1>0 DEF SendersTypeOK
<1>5. Merged'
  <2>1. \A m \in Note : DedupKey(m)' = DedupKey(m)
    BY <1>1 DEF DedupKey
  <2>2. \A k : Opener(k) => Opener(k)'
    BY <1>1, <2>1 DEF Opener
  <2>. QED  BY <1>0, <1>1, <1>4, <2>1, <2>2 DEF Merged
<1>. QED  BY <1>2, <1>3, <1>5 DEF SendersInv

LEMMA SendersStep == SendersInv /\ SendersNext => SendersInv'
BY FateKeeps, CallsKeeps, ClosesKeeps DEF SendersNext

LEMMA SendersRests == SendersInv /\ UNCHANGED senderVars => SendersInv'
<1>. SUFFICES ASSUME SendersInv, UNCHANGED senderVars PROVE SendersInv'
  OBVIOUS
<1>1. UNCHANGED <<channel, noteOf, noteFate, tries, reached, unheard, incidents, openedFor, closed>>
  BY DEF senderVars
<1>2. SendersTypeOK'
  BY <1>1 DEF SendersInv, SendersTypeOK
<1>3. \A m \in Note : Weighed(m)'
  BY <1>1 DEF SendersInv, Weighed, Raises, Refuses
<1>4. Merged'
  BY <1>1 DEF SendersInv, Merged, Opener, DedupKey
<1>. QED  BY <1>2, <1>3, <1>4 DEF SendersInv

LEMMA SendersCovers == SendersInv => SendersTold
<1>. SUFFICES ASSUME SendersInv PROVE SendersTold
  OBVIOUS
<1>0. SendersTypeOK /\ (\A m \in Note : Weighed(m)) /\ Merged
  BY DEF SendersInv
<1>1. SentArrived /\ FaultsSaid
  BY <1>0 DEF Weighed, SentArrived, FaultsSaid
<1>2. SurplusUnheard
  BY <1>0 DEF Weighed, SurplusUnheard, SendersTypeOK
<1>3. IncidentsOnce
  BY <1>0 DEF Merged, Opener, IncidentsOnce, SendersTypeOK
<1>. QED  BY <1>1, <1>2, <1>3 DEF SendersTold

LEMMA SendersInvariant == SendersSpec => []SendersInv
<1>1. SendersInv /\ [SendersNext]_senderVars => SendersInv'
  BY SendersStep, SendersRests
<1>. QED  BY SendersStarts, <1>1, PTL DEF SendersSpec

(* What is logged of a notification is what came of it, for any number of  *)
(* notifications, recipients and retries (SendersTold).                    *)
THEOREM SendersHold == SendersSpec => []SendersTold
BY SendersInvariant, SendersCovers, PTL

-----------------------------------------------------------------------------
(* FileActors.                                                             *)

PathNames == {"path", "relative path"}
StillToLog == {<<>>, <<"proctitle">>} \cup {<<n>> : n \in PathNames} \cup {<<n, "proctitle">> : n \in PathNames}
         \cup {<<"syscall", n>> : n \in PathNames} \cup {<<"syscall", n, "proctitle">> : n \in PathNames}
BeginsWith(w, kinds) == pending[w] # <<>> /\ Head(pending[w]) \in kinds

IsLogged(w)    == \E i \in DOMAIN auditLog : auditLog[i][1] = w
HasRecord(w, k)   == \E i \in DOMAIN auditLog : auditLog[i] = <<w, k>>
HasFinished(w) == \E i \in DOMAIN finished : finished[i] = w
StageOf(w)    == partial[w].stage

(* The records of a writer that are still to come: they come in order and  *)
(* in the second of the write, and what is before them is in the log or    *)
(* has been read, unless the writer was missed.                            *)
RecordsToCome(w) ==
    /\ pending[w] \in StillToLog
    /\ wroteAt[w] = -1 => pending[w] = <<>> /\ ~IsLogged(w) /\ StageOf(w) = "none" /\ ~HasFinished(w)
    /\ wroteAt[w] # -1 => (pending[w] = <<>> <=> HasFinished(w))
    /\ wroteAt[w] <= second
    /\ pending[w] # <<>> => wroteAt[w] = second /\ ~HasRecord(w, "proctitle")
    /\ StageOf(w) # "none" => wroteAt[w] # -1 /\ wroteAt[w] <= partial[w].since /\ partial[w].since <= second
    /\ BeginsWith(w, {"syscall"}) => ~IsLogged(w) /\ StageOf(w) = "none"
    /\ BeginsWith(w, PathNames) => \A i \in DOMAIN auditLog : auditLog[i][1] = w => auditLog[i][2] = "syscall"
    /\ w \notin missed =>
          /\ BeginsWith(w, PathNames) => BeginsWith(w, {"path"}) /\ (StageOf(w) = "actor" \/ HasRecord(w, "syscall"))
          /\ BeginsWith(w, {"syscall"}) => Head(Tail(pending[w])) = "path"
          /\ BeginsWith(w, {"proctitle"}) => StageOf(w) = "path" \/ HasRecord(w, "path")

(* The same of the records in the log.                                     *)
RecordLogged(i) ==
    LET w == auditLog[i][1]
        k == auditLog[i][2]
    IN  /\ k = "syscall" => StageOf(w) = "none" /\ \A j \in DOMAIN auditLog : auditLog[j][1] = w => j >= i
        /\ k = "relative path" => w \in missed
        /\ k = "path" /\ w \notin missed =>
              StageOf(w) = "actor" \/ \E j \in DOMAIN auditLog : j < i /\ auditLog[j] = <<w, "syscall">>
        /\ k = "proctitle" => \A j \in DOMAIN auditLog : auditLog[j][1] = w => j <= i
        /\ k = "proctitle" /\ w \notin missed => StageOf(w) = "path" \/ HasRecord(w, "path")
        /\ \A j \in DOMAIN auditLog : auditLog[j] = auditLog[i] => j = i

(* Who was finished later has records behind those of who was earlier.     *)
LoggedBehind(v, w) ==
    \E j \in DOMAIN auditLog :
        auditLog[j][1] = v /\ \A i \in DOMAIN auditLog : auditLog[i][1] = w => i < j
FinishedInOrder ==
    /\ \A i, j \in DOMAIN finished : finished[i] = finished[j] => i = j
    /\ \A v, w \in Writer : Later(v, w) /\ IsLogged(w) => LoggedBehind(v, w)

(* Nobody who should be named goes without: a writer that was read lately  *)
(* is named, or one that finished later.                                   *)
DueToBeNamed(v) == HasFinished(v) /\ v \notin missed /\ ~Unread(v) /\ ~Old(v)
WriterNamed ==
    /\ \A x \in recent : /\ wroteAt[x[1]] # -1 /\ wroteAt[x[1]] <= x[2] /\ x[2] <= second
                         /\ x[1] \in late \/ x[2] = wroteAt[x[1]]
    /\ \A x \in recent, v \in Writer : DueToBeNamed(v) => ~Later(v, x[1])
    /\ finished # <<>> /\ DueToBeNamed(finished[Len(finished)]) => \E x \in recent : x[1] = finished[Len(finished)]

ActorsInv ==
    /\ ActorsTypeOK
    /\ \A w \in Writer : RecordsToCome(w)
    /\ \A i \in DOMAIN auditLog : RecordLogged(i)
    /\ FinishedInOrder
    /\ WriterNamed

LEMMA StillToLogTail ==
    ASSUME NEW x \in StillToLog, x # <<>>
    PROVE  /\ Tail(x) \in StillToLog /\ Head(x) \in {"syscall", "proctitle"} \cup PathNames
           /\ Len(x) = 1 <=> Tail(x) = <<>>
           /\ Head(x) = "syscall" => Tail(x) # <<>> /\ Head(Tail(x)) \in PathNames
           /\ Head(x) \in PathNames /\ Tail(x) # <<>> => Head(Tail(x)) = "proctitle"
           /\ Head(x) = "proctitle" => Tail(x) = <<>>
<1>1. CASE x = <<"proctitle">>
  <2>1. Head(x) = "proctitle" /\ Tail(x) = <<>> /\ Len(x) = 1
    BY <1>1
  <2>. QED  BY <2>1 DEF StillToLog, PathNames
<1>2. ASSUME NEW n \in PathNames, x = <<n>> PROVE Head(x) = n /\ Tail(x) = <<>> /\ Len(x) = 1
  BY <1>2
<1>3. ASSUME NEW n \in PathNames, x = <<n, "proctitle">>
      PROVE  Head(x) = n /\ Tail(x) = <<"proctitle">> /\ Tail(x) # <<>> /\ Head(Tail(x)) = "proctitle"
             /\ Len(x) = 2
  BY <1>3
<1>4. ASSUME NEW n \in PathNames, x = <<"syscall", n>>
      PROVE  Head(x) = "syscall" /\ Tail(x) = <<n>> /\ Tail(x) # <<>> /\ Head(Tail(x)) = n /\ Len(x) = 2
  BY <1>4
<1>5. ASSUME NEW n \in PathNames, x = <<"syscall", n, "proctitle">>
      PROVE  /\ Head(x) = "syscall" /\ Tail(x) = <<n, "proctitle">> /\ Tail(x) # <<>>
             /\ Head(Tail(x)) = n /\ Len(x) = 3
  BY <1>5
<1>6. x = <<"proctitle">> \/ \E n \in PathNames : x = <<n>> \/ x = <<n, "proctitle">>
                                             \/ x = <<"syscall", n>> \/ x = <<"syscall", n, "proctitle">>
  BY DEF StillToLog
<1>7. /\ <<>> \in StillToLog /\ <<"proctitle">> \in StillToLog
      /\ \A n \in PathNames : <<n>> \in StillToLog /\ <<n, "proctitle">> \in StillToLog
  BY DEF StillToLog
<1>8. \A n \in PathNames : n # "syscall" /\ n # "proctitle"
  BY DEF PathNames
<1>9. CASE \E n \in PathNames : x = <<n>>
  <2>1. PICK n \in PathNames : x = <<n>>
    BY <1>9
  <2>2. Tail(x) \in StillToLog
    BY <1>2, <1>7, <2>1
  <2>. QED  BY <1>2, <1>8, <2>1, <2>2
<1>10. CASE \E n \in PathNames : x = <<n, "proctitle">>
  <2>1. PICK n \in PathNames : x = <<n, "proctitle">>
    BY <1>10
  <2>2. Tail(x) \in StillToLog
    BY <1>3, <1>7, <2>1
  <2>. QED  BY <1>3, <1>8, <2>1, <2>2
<1>11. CASE \E n \in PathNames : x = <<"syscall", n>>
  <2>1. PICK n \in PathNames : x = <<"syscall", n>>
    BY <1>11
  <2>2. Tail(x) \in StillToLog
    BY <1>4, <1>7, <2>1
  <2>. QED  BY <1>4, <1>8, <2>1, <2>2
<1>12. CASE \E n \in PathNames : x = <<"syscall", n, "proctitle">>
  <2>1. PICK n \in PathNames : x = <<"syscall", n, "proctitle">>
    BY <1>12
  <2>2. Tail(x) \in StillToLog
    BY <1>5, <1>7, <2>1
  <2>. QED  BY <1>5, <1>8, <2>1, <2>2
<1>. QED  BY <1>1, <1>6, <1>9, <1>10, <1>11, <1>12

LEMMA ActorsFacts ==
    ASSUME ActorsTypeOK
    PROVE  /\ second \in Nat /\ MaxSecond \in Nat /\ SweepAfter \in Nat /\ FreshFor \in Int
           /\ FreshFor <= SweepAfter
           /\ \A w \in Writer : /\ wroteAt[w] \in Int /\ partial[w].since \in Nat
                                /\ StageOf(w) \in {"none", "actor", "path"}
           /\ \A x \in recent : x[1] \in Writer /\ x[2] \in Nat
           /\ auditLog \in Seq(Writer \X RecordKinds) /\ DOMAIN auditLog = 1..Len(auditLog)
           /\ Len(auditLog) \in Nat
           /\ \A i \in DOMAIN auditLog : /\ i \in Nat \ {0} /\ auditLog[i][1] \in Writer
                                         /\ auditLog[i][2] \in RecordKinds
                                         /\ auditLog[i] = <<auditLog[i][1], auditLog[i][2]>>
           /\ finished \in Seq(Writer) /\ DOMAIN finished = 1..Len(finished) /\ Len(finished) \in Nat
           /\ \A i \in DOMAIN finished : finished[i] \in Writer
<1>1. /\ MaxSecond \in Nat /\ SweepAfter \in Nat /\ FreshFor \in Int /\ FreshFor <= SweepAfter
  BY ActorsAssumption
<1>2. second \in Nat /\ \A w \in Writer : wroteAt[w] \in Int
  BY <1>1 DEF ActorsTypeOK
<1>3. \A w \in Writer : partial[w].since \in Nat /\ StageOf(w) \in {"none", "actor", "path"}
  BY <1>1 DEF ActorsTypeOK, StageOf
<1>4. \A x \in recent : x[1] \in Writer /\ x[2] \in Nat
  BY <1>1 DEF ActorsTypeOK
<1>5. auditLog \in Seq(Writer \X RecordKinds) /\ finished \in Seq(Writer)
  BY DEF ActorsTypeOK
<1>6. DOMAIN auditLog = 1..Len(auditLog) /\ Len(auditLog) \in Nat
      /\ \A i \in DOMAIN auditLog : auditLog[i] \in Writer \X RecordKinds
  BY <1>5
<1>7. DOMAIN finished = 1..Len(finished) /\ Len(finished) \in Nat
      /\ \A i \in DOMAIN finished : finished[i] \in Writer
  BY <1>5
<1>8. \A i \in DOMAIN auditLog : i \in Nat \ {0} /\ auditLog[i][1] \in Writer
                                 /\ auditLog[i][2] \in RecordKinds
                                 /\ auditLog[i] = <<auditLog[i][1], auditLog[i][2]>>
  BY <1>6
<1>. QED  BY <1>1, <1>2, <1>3, <1>4, <1>5, <1>6, <1>7, <1>8

LEMMA ActorsStarts == ActorsInit => ActorsInv
<1>. SUFFICES ASSUME ActorsInit PROVE ActorsInv
  OBVIOUS
<1>1. ActorsTypeOK
  <2>1. /\ 0 \in 0..MaxSecond /\ 0 \in 0..MaxRotations /\ -1 \in -1..MaxSecond
    BY ActorsAssumption
  <2>2. pending \in [Writer -> Seq(RecordKinds)] /\ auditLog \in Seq(Writer \X RecordKinds)
        /\ finished \in Seq(Writer)
    BY DEF ActorsInit
  <2>3. partial \in [Writer -> [stage : {"none", "actor", "path"}, since : 0..MaxSecond]]
    BY <2>1 DEF ActorsInit, NoPart
  <2>4. recent = {} /\ missed = {} /\ late = {} /\ second = 0 /\ rotations = 0
        /\ wroteAt \in [Writer -> -1..MaxSecond]
    BY <2>1 DEF ActorsInit
  <2>. QED  BY <2>1, <2>2, <2>3, <2>4 DEF ActorsTypeOK
<1>2. DOMAIN auditLog = {} /\ DOMAIN finished = {} /\ recent = {} /\ finished = <<>>
  BY DEF ActorsInit
<1>3. ASSUME NEW w \in Writer PROVE RecordsToCome(w)
  <2>1. pending[w] = <<>> /\ wroteAt[w] = -1 /\ StageOf(w) = "none" /\ second = 0
    BY DEF ActorsInit, StageOf, NoPart
  <2>2. ~IsLogged(w) /\ ~HasFinished(w) /\ pending[w] \in StillToLog
    BY <1>2, <2>1 DEF IsLogged, HasFinished, StillToLog
  <2>. QED  BY <2>1, <2>2 DEF RecordsToCome, BeginsWith
<1>4. FinishedInOrder
  BY <1>2 DEF FinishedInOrder, Later
<1>5. WriterNamed
  BY <1>2 DEF WriterNamed
<1>. QED  BY <1>1, <1>2, <1>3, <1>4, <1>5 DEF ActorsInv

(* Who is due was so before a step that lets time pass and forgets nothing. *)
LEMMA OldStaysOld ==
    ASSUME ActorsTypeOK, NEW v \in Writer, wroteAt'[v] = wroteAt[v], second' \in Nat, second' >= second, Old(v)
    PROVE  Old(v)'
BY ActorsFacts DEF Old

LEMMA LoggedStays ==
    ASSUME auditLog' = auditLog, partial' = partial, missed \subseteq missed', NEW i \in DOMAIN auditLog, RecordLogged(i)
    PROVE  RecordLogged(i)'
<1>1. \A u, k : StageOf(u)' = StageOf(u) /\ (HasRecord(u, k)' <=> HasRecord(u, k))
  BY DEF StageOf, HasRecord
<1>2. auditLog'[i] = auditLog[i] /\ DOMAIN auditLog' = DOMAIN auditLog
  OBVIOUS
<1>. QED  BY <1>1, <1>2 DEF RecordLogged

LEMMA SecondKeeps == ASSUME ActorsInv, ASecondPasses PROVE ActorsInv'
<1>0. /\ ActorsTypeOK /\ (\A w \in Writer : RecordsToCome(w)) /\ FinishedInOrder /\ WriterNamed
      /\ \A i \in DOMAIN auditLog : RecordLogged(i)
  BY DEF ActorsInv
<1>1. /\ second < MaxSecond /\ second' = second + 1 /\ \A w \in Writer : pending[w] = <<>>
      /\ UNCHANGED <<wroteAt, pending, auditLog, partial, recent, finished, missed, late, rotations>>
  BY DEF ASecondPasses
<1>2. /\ second \in Nat /\ \A w \in Writer : wroteAt[w] \in Int /\ partial[w].since \in Nat
      /\ \A x \in recent : x[1] \in Writer /\ x[2] \in Nat
      /\ finished # <<>> => finished[Len(finished)] \in Writer
  <2>1. finished # <<>> => Len(finished) \in DOMAIN finished
    BY <1>0, ActorsFacts
  <2>. QED  BY <1>0, <2>1, ActorsFacts
<1>3. ActorsTypeOK'
  <2>1. second' \in 0..MaxSecond
    <3>1. second < MaxSecond /\ second' = second + 1 /\ second \in Nat
      BY <1>1, <1>2
    <3>2. MaxSecond \in Nat
      BY ActorsFacts, ActorsAssumption
    <3>. QED  BY ONLY <3>1, <3>2
  <2>2. UNCHANGED <<wroteAt, pending, auditLog, partial, recent, finished, missed, late, rotations>>
    BY <1>1
  <2>3. ActorsTypeOK
    BY <1>0
  <2>. QED  BY ONLY <2>1, <2>2, <2>3 DEF ActorsTypeOK
<1>4. ASSUME NEW w \in Writer PROVE RecordsToCome(w)'
  <2>1. /\ ~BeginsWith(w, {"syscall"})' /\ ~BeginsWith(w, PathNames)' /\ ~BeginsWith(w, {"proctitle"})'
        /\ ~BeginsWith(w, {"path"})'
    BY <1>1 DEF BeginsWith
  <2>2. (IsLogged(w)' <=> IsLogged(w)) /\ (HasFinished(w)' <=> HasFinished(w)) /\ StageOf(w)' = StageOf(w)
    BY <1>1 DEF IsLogged, HasFinished, StageOf
  <2>. QED  BY <1>0, <1>1, <1>2, <2>1, <2>2 DEF RecordsToCome
<1>5. \A i \in DOMAIN auditLog' : RecordLogged(i)'
  BY <1>0, <1>1, LoggedStays
<1>6. FinishedInOrder'
  BY <1>0, <1>1 DEF FinishedInOrder, Later, IsLogged, LoggedBehind
<1>7. \A v \in Writer : DueToBeNamed(v)' => DueToBeNamed(v)
  BY <1>0, <1>1, <1>2, OldStaysOld DEF DueToBeNamed, HasFinished, Unread
<1>8. WriterNamed'
  BY <1>0, <1>1, <1>2, <1>7 DEF WriterNamed, Later
<1>. QED  BY <1>3, <1>4, <1>5, <1>6, <1>8 DEF ActorsInv

(* A step that moves neither the records nor the stages: nobody is due who *)
(* was not.                                                                *)
LEMMA EntryKeeps == ASSUME ActorsInv, PushedOut \/ LooksUp \/ LogRotates PROVE ActorsInv'
<1>0. /\ ActorsTypeOK /\ (\A w \in Writer : RecordsToCome(w)) /\ FinishedInOrder /\ WriterNamed
      /\ \A i \in DOMAIN auditLog : RecordLogged(i)
  BY DEF ActorsInv
<1>1. /\ rotations' \in 0..MaxRotations /\ recent' \subseteq recent
      /\ missed \subseteq missed' /\ missed' \subseteq Writer
      /\ UNCHANGED <<second, wroteAt, pending, partial, finished, late>>
      /\ \/ auditLog' = auditLog
         \/ auditLog' = <<>> /\ \A w \in Writer : IsLogged(w) => w \in missed'
      /\ \A x \in recent : x \in recent' \/ x[1] \in missed' \/ ~FreshWriter(x)
  <2>1. /\ \A x \in recent : x[1] \in Writer
        /\ rotations \in 0..MaxRotations /\ missed \subseteq Writer
    BY <1>0 DEF ActorsTypeOK
  <2>2. CASE PushedOut
    <3>1. rotations' \in 0..MaxRotations
      BY <2>1, <2>2, ActorsAssumption DEF PushedOut
    <3>. QED  BY <2>1, <2>2, <3>1 DEF PushedOut
  <2>3. CASE LooksUp
    <3>1. /\ recent' = {y \in recent : FreshWriter(y)}
          /\ UNCHANGED <<second, wroteAt, pending, auditLog, partial, finished, missed, late, rotations>>
      BY <2>3 DEF LooksUp
    <3>2. recent' \subseteq recent /\ \A x \in recent : x \in recent' \/ ~FreshWriter(x)
      BY <3>1
    <3>. QED  BY <2>1, <3>1, <3>2
  <2>4. CASE LogRotates
    <3>1. rotations' \in 0..MaxRotations
      BY <2>1, <2>4, ActorsAssumption DEF LogRotates
    <3>2. /\ missed' = missed \cup {w \in Writer : IsLogged(w)} /\ auditLog' = <<>>
          /\ UNCHANGED <<second, wroteAt, pending, partial, recent, finished, late>>
      BY <2>4 DEF LogRotates, IsLogged
    <3>3. missed \subseteq missed' /\ missed' \subseteq Writer /\ \A w \in Writer : IsLogged(w) => w \in missed'
      BY <2>1, <3>2
    <3>4. recent' \subseteq recent /\ \A x \in recent : x \in recent'
      BY <3>2
    <3>. QED  BY <3>1, <3>2, <3>3, <3>4
  <2>. QED  BY <2>2, <2>3, <2>4
<1>2. /\ second \in Nat /\ \A w \in Writer : wroteAt[w] \in Int
      /\ \A x \in recent : x[1] \in Writer /\ x[2] \in Nat
      /\ finished # <<>> => finished[Len(finished)] \in Writer
  <2>1. finished # <<>> => Len(finished) \in DOMAIN finished
    BY <1>0, ActorsFacts
  <2>. QED  BY <1>0, <2>1, ActorsFacts
<1>3. ActorsTypeOK'
  <2>1. auditLog' \in Seq(Writer \X RecordKinds)
    <3>1. <<>> \in Seq(Writer \X RecordKinds) /\ auditLog \in Seq(Writer \X RecordKinds)
      BY <1>0 DEF ActorsTypeOK
    <3>. QED  BY <1>1, <3>1
  <2>2. recent' \subseteq Writer \X (0..MaxSecond) /\ (\A x, y \in recent' : x = y)
    BY <1>0, <1>1 DEF ActorsTypeOK
  <2>. QED  BY <1>0, <1>1, <2>1, <2>2 DEF ActorsTypeOK
<1>4. ASSUME NEW w \in Writer PROVE RecordsToCome(w)'
  <2>1. StageOf(w)' = StageOf(w) /\ (HasFinished(w)' <=> HasFinished(w))
        /\ \A K : BeginsWith(w, K)' <=> BeginsWith(w, K)
    BY <1>1 DEF StageOf, HasFinished, BeginsWith
  <2>2. CASE auditLog' = auditLog
    <3>1. (IsLogged(w)' <=> IsLogged(w)) /\ \A k : HasRecord(w, k)' <=> HasRecord(w, k)
      BY <2>2 DEF IsLogged, HasRecord
    <3>. QED  BY <1>0, <1>1, <2>1, <2>2, <3>1 DEF RecordsToCome
  <2>3. CASE auditLog' = <<>> /\ (IsLogged(w) => w \in missed')
    <3>1. ~IsLogged(w)' /\ (\A k : ~HasRecord(w, k)') /\ DOMAIN auditLog' = {}
      BY <2>3 DEF IsLogged, HasRecord
    <3>2. w \notin missed' => w \notin missed /\ \A k : ~HasRecord(w, k)
      BY <1>1, <2>3 DEF IsLogged, HasRecord
    <3>. QED  BY <1>0, <1>1, <2>1, <3>1, <3>2 DEF RecordsToCome
  <2>. QED  BY <1>1, <2>2, <2>3
<1>5. \A i \in DOMAIN auditLog' : RecordLogged(i)'
  <2>1. CASE auditLog' = auditLog
    BY <1>0, <1>1, <2>1, LoggedStays
  <2>2. CASE auditLog' = <<>>
    BY <2>2
  <2>. QED  BY <1>1, <2>1, <2>2
<1>6. FinishedInOrder'
  <2>1. CASE auditLog' = auditLog
    BY <1>0, <1>1, <2>1 DEF FinishedInOrder, Later, IsLogged, LoggedBehind
  <2>2. CASE auditLog' = <<>>
    BY <1>0, <1>1, <2>2 DEF FinishedInOrder, Later, IsLogged
  <2>. QED  BY <1>1, <2>1, <2>2
<1>7. ASSUME NEW v \in Writer, DueToBeNamed(v)' PROVE DueToBeNamed(v) /\ v \notin missed'
  <2>1. HasFinished(v) /\ v \notin missed' /\ ~Unread(v)' /\ ~Old(v)
    BY <1>1, <1>7 DEF DueToBeNamed, HasFinished, Old
  <2>2. ~Unread(v)
    BY <1>1, <2>1 DEF Unread, IsLogged
  <2>. QED  BY <1>1, <2>1, <2>2 DEF DueToBeNamed
<1>8. ASSUME finished' # <<>>, DueToBeNamed(finished[Len(finished)])'
      PROVE  \E x \in recent' : x[1] = finished[Len(finished)]
  <2>. PICK z : z = finished[Len(finished)]
    OBVIOUS
  <2>1. z \in Writer /\ finished # <<>> /\ DueToBeNamed(z)'
    BY <1>1, <1>2, <1>8
  <2>2. DueToBeNamed(z) /\ z \notin missed' /\ ~Old(z)
    BY <1>7, <2>1 DEF DueToBeNamed
  <2>3. PICK x \in recent : x[1] = z
    BY <1>0, <2>1, <2>2 DEF WriterNamed
  <2>4. wroteAt[z] <= x[2]
    BY <1>0, <2>3 DEF WriterNamed
  <2>5. FreshWriter(x)
    BY <1>2, <2>1, <2>2, <2>3, <2>4, ActorsAssumption DEF FreshWriter, Old
  <2>. QED  BY <1>1, <2>2, <2>3, <2>5
<1>9. WriterNamed'
  <2>1. \A v, w \in Writer : Later(v, w)' <=> Later(v, w)
    BY <1>1 DEF Later
  <2>2. \A x \in recent' : x \in recent /\ x[1] \in Writer
    BY <1>1, <1>2
  <2>3. \A x \in recent' : /\ wroteAt'[x[1]] # -1 /\ wroteAt'[x[1]] <= x[2] /\ x[2] <= second'
                           /\ x[1] \in late' \/ x[2] = wroteAt'[x[1]]
    BY <1>0, <1>1, <2>2 DEF WriterNamed
  <2>4. \A x \in recent', v \in Writer : DueToBeNamed(v)' => ~Later(v, x[1])'
    BY <1>0, <1>7, <2>1, <2>2 DEF WriterNamed
  <2>5. finished' # <<>> /\ DueToBeNamed(finished[Len(finished)])' => \E x \in recent' : x[1] = finished'[Len(finished')]
    BY <1>1, <1>8
  <2>. QED  BY <2>3, <2>4, <2>5 DEF WriterNamed
<1>. QED  BY <1>3, <1>4, <1>5, <1>6, <1>9 DEF ActorsInv
LEMMA WritesKeeps == ASSUME ActorsInv, NEW w \in Writer, WritesFile(w) PROVE ActorsInv'
<1>0. /\ ActorsTypeOK /\ (\A u \in Writer : RecordsToCome(u)) /\ FinishedInOrder /\ WriterNamed
      /\ \A i \in DOMAIN auditLog : RecordLogged(i)
  BY DEF ActorsInv
<1>1. /\ wroteAt[w] = -1 /\ wroteAt' = [wroteAt EXCEPT ![w] = second]
      /\ UNCHANGED <<second, auditLog, partial, recent, finished, late, rotations>>
  BY DEF WritesFile
<1>20. PICK name \in PathNames :
          /\ \E records \in {<<"syscall", name>>, <<"syscall", name, "proctitle">>} :
                pending' = [pending EXCEPT ![w] = records]
          /\ missed' = IF name = "path" THEN missed ELSE missed \cup {w}
  BY DEF WritesFile, PathNames
<1>21. PICK records \in {<<"syscall", name>>, <<"syscall", name, "proctitle">>} :
          pending' = [pending EXCEPT ![w] = records]
  BY <1>20
<1>2. /\ pending' = [pending EXCEPT ![w] = records]
      /\ missed' = IF name = "path" THEN missed ELSE missed \cup {w}
  BY <1>20, <1>21
<1>3. /\ second \in Nat /\ second \in 0..MaxSecond
      /\ \A u \in Writer : wroteAt[u] \in Int
      /\ \A x \in recent : x[1] \in Writer /\ x[2] \in Nat
      /\ \A i \in DOMAIN auditLog : auditLog[i][1] \in Writer
      /\ finished # <<>> => finished[Len(finished)] \in Writer
  <2>1. finished # <<>> => Len(finished) \in DOMAIN finished
    BY <1>0, ActorsFacts
  <2>. QED  BY <1>0, <2>1, ActorsFacts DEF ActorsTypeOK
<1>4. /\ records \in StillToLog /\ records # <<>> /\ Head(records) = "syscall" /\ Head(Tail(records)) = name
      /\ records \in Seq(RecordKinds)
  <2>1. name \in RecordKinds /\ "syscall" \in RecordKinds /\ "proctitle" \in RecordKinds
    BY DEF PathNames, RecordKinds
  <2>2. CASE records = <<"syscall", name>>
    <3>1. records \in Seq(RecordKinds)
      BY <2>1, <2>2
    <3>2. records \in StillToLog
      BY <2>2 DEF StillToLog
    <3>3. records # <<>> /\ Head(records) = "syscall" /\ Head(Tail(records)) = name
      BY <2>2
    <3>. QED  BY <3>1, <3>2, <3>3
  <2>3. CASE records = <<"syscall", name, "proctitle">>
    <3>1. records \in Seq(RecordKinds)
      BY <2>1, <2>3
    <3>2. records \in StillToLog
      BY <2>3 DEF StillToLog
    <3>3. records # <<>> /\ Head(records) = "syscall" /\ Head(Tail(records)) = name
      BY <2>3
    <3>. QED  BY <3>1, <3>2, <3>3
  <2>. QED  BY <2>2, <2>3
<1>5. ActorsTypeOK'
  <2>1. wroteAt' \in [Writer -> -1..MaxSecond]
    BY <1>0, <1>1, <1>3 DEF ActorsTypeOK
  <2>2. pending' \in [Writer -> Seq(RecordKinds)]
    BY <1>0, <1>2, <1>4 DEF ActorsTypeOK
  <2>3. missed' \subseteq Writer
    BY <1>0, <1>2 DEF ActorsTypeOK
  <2>. QED  BY <1>0, <1>1, <2>1, <2>2, <2>3 DEF ActorsTypeOK
<1>6. ~IsLogged(w) /\ StageOf(w) = "none" /\ ~HasFinished(w)
  BY <1>0, <1>1 DEF RecordsToCome
<1>7. /\ wroteAt'[w] = second /\ pending'[w] = records
      /\ \A u \in Writer \ {w} : wroteAt'[u] = wroteAt[u] /\ pending'[u] = pending[u]
      /\ \A u \in Writer : u \notin missed' => u \notin missed
      /\ w \notin missed' => name = "path"
  BY <1>0, <1>1, <1>2 DEF ActorsTypeOK
<1>8. ASSUME NEW u \in Writer
      PROVE  (IsLogged(u)' <=> IsLogged(u)) /\ (HasFinished(u)' <=> HasFinished(u)) /\ StageOf(u)' = StageOf(u)
             /\ \A k : HasRecord(u, k)' <=> HasRecord(u, k)
  BY <1>1 DEF IsLogged, HasFinished, StageOf, HasRecord
<1>9. ASSUME NEW u \in Writer PROVE RecordsToCome(u)'
  <2>1. CASE u = w
    <3>1. ~BeginsWith(w, PathNames)' /\ ~BeginsWith(w, {"proctitle"})'
      BY <1>4, <1>7 DEF BeginsWith, PathNames
    <3>2. ~HasRecord(w, "proctitle") /\ ~HasRecord(w, "proctitle")' /\ ~IsLogged(w)' /\ StageOf(w)' = "none" /\ ~HasFinished(w)'
      BY <1>6, <1>8 DEF IsLogged, HasRecord
    <3>31. wroteAt'[w] # -1 /\ wroteAt'[w] = second' /\ wroteAt'[w] <= second'
      <4>1. wroteAt'[w] = second /\ second' = second
        BY <1>1, <1>7
      <4>. QED  BY <1>3, <4>1
    <3>32. pending'[w] # <<>> /\ pending'[w] \in StillToLog
           /\ (w \notin missed' => Head(Tail(pending'[w])) = "path")
      BY <1>4, <1>7
    <3>3. /\ wroteAt'[w] # -1 /\ wroteAt'[w] = second' /\ pending'[w] # <<>> /\ pending'[w] \in StillToLog
          /\ wroteAt'[w] <= second' /\ (w \notin missed' => Head(Tail(pending'[w])) = "path")
      BY <3>31, <3>32
    <3>. QED  BY <2>1, <3>1, <3>2, <3>3 DEF RecordsToCome
  <2>2. CASE u # w
    <3>1. \A K : BeginsWith(u, K)' <=> BeginsWith(u, K)
      BY <1>7, <2>2 DEF BeginsWith
    <3>. QED  BY <1>0, <1>1, <1>7, <1>8, <2>2, <3>1 DEF RecordsToCome
  <2>. QED  BY <2>1, <2>2
<1>10. ASSUME NEW i \in DOMAIN auditLog' PROVE RecordLogged(i)'
  <2>1. auditLog[i][1] \in Writer /\ auditLog[i][1] # w /\ i \in DOMAIN auditLog
    BY <1>1, <1>3, <1>6 DEF IsLogged
  <2>2. RecordLogged(i)
    BY <1>0, <2>1
  <2>. QED  BY <1>1, <1>7, <2>1, <2>2 DEF RecordLogged, StageOf, HasRecord
<1>11. FinishedInOrder'
  BY <1>0, <1>1 DEF FinishedInOrder, Later, IsLogged, LoggedBehind
<1>12. ASSUME NEW v \in Writer, DueToBeNamed(v)' PROVE DueToBeNamed(v)
  <2>1. v # w
    BY <1>6, <1>8, <1>12 DEF DueToBeNamed
  <2>. QED  BY <1>1, <1>7, <1>8, <1>12, <2>1 DEF DueToBeNamed, Unread, Old
<1>13. WriterNamed'
  <2>1. \A x \in recent : x[1] \in Writer /\ x[1] # w
    BY <1>0, <1>1, <1>3 DEF WriterNamed
  <2>2. \A x \in recent' : /\ wroteAt'[x[1]] # -1 /\ wroteAt'[x[1]] <= x[2] /\ x[2] <= second'
                           /\ x[1] \in late' \/ x[2] = wroteAt'[x[1]]
    BY <1>0, <1>1, <1>7, <2>1 DEF WriterNamed
  <2>3. \A x \in recent', v \in Writer : DueToBeNamed(v)' => ~Later(v, x[1])'
    BY <1>0, <1>1, <1>12 DEF WriterNamed, Later
  <2>4. finished' # <<>> /\ DueToBeNamed(finished[Len(finished)])' => \E x \in recent' : x[1] = finished'[Len(finished')]
    BY <1>0, <1>1, <1>3, <1>12 DEF WriterNamed
  <2>. QED  BY <2>2, <2>3, <2>4 DEF WriterNamed
<1>. QED  BY <1>5, <1>9, <1>10, <1>11, <1>13 DEF ActorsInv

(* An entry that is added is the last word, if nobody is due who was       *)
(* finished after it.                                                      *)
LEMMA EntryNames ==
    ASSUME ActorsTypeOK, FinishedInOrder, NEW w \in Writer, finished' = finished, wroteAt' = wroteAt, second' = second,
           recent' = {<<w, second>>}, wroteAt[w] # -1, wroteAt[w] <= second, HasFinished(w),
           late' = IF second > wroteAt[w] THEN late \cup {w} ELSE late,
           \A v \in Writer : DueToBeNamed(v)' => ~Later(v, w)
    PROVE  WriterNamed'
<1>0. second \in Nat /\ wroteAt[w] \in Int /\ DOMAIN finished = 1..Len(finished) /\ Len(finished) \in Nat
      /\ \A i \in DOMAIN finished : finished[i] \in Writer
  BY ActorsFacts
<1>1. \A x \in recent' : x = <<w, second>> /\ x[1] = w /\ x[2] = second
  OBVIOUS
<1>2. w \in late' \/ second = wroteAt[w]
  BY <1>0
<1>3. \A x \in recent' : /\ wroteAt'[x[1]] # -1 /\ wroteAt'[x[1]] <= x[2] /\ x[2] <= second'
                         /\ x[1] \in late' \/ x[2] = wroteAt'[x[1]]
  BY <1>0, <1>1, <1>2
<1>4. \A x \in recent', v \in Writer : DueToBeNamed(v)' => ~Later(v, x[1])'
  BY <1>1 DEF Later
<1>5. ASSUME finished' # <<>>, DueToBeNamed(finished[Len(finished)])'
      PROVE  \E x \in recent' : x[1] = finished'[Len(finished')]
  <2>. PICK z : z = finished[Len(finished)]
    OBVIOUS
  <2>1. Len(finished) \in DOMAIN finished /\ z \in Writer /\ DueToBeNamed(z)'
    BY <1>0, <1>5
  <2>2. ~Later(z, w)
    BY <2>1
  <2>3. PICK j \in DOMAIN finished : finished[j] = w
    BY DEF HasFinished
  <2>4. j = Len(finished)
    BY <1>0, <2>1, <2>2, <2>3 DEF Later
  <2>. QED  BY <1>1, <2>3, <2>4
<1>. QED  BY <1>3, <1>4, <1>5 DEF WriterNamed

LEMMA SweepsKeeps == ASSUME ActorsInv, NEW w \in Writer, Sweeps(w) PROVE ActorsInv'
<1>0. /\ ActorsTypeOK /\ (\A u \in Writer : RecordsToCome(u)) /\ FinishedInOrder /\ WriterNamed
      /\ \A i \in DOMAIN auditLog : RecordLogged(i)
  BY DEF ActorsInv
<1>1. /\ auditLog = <<>> /\ StageOf(w) # "none" /\ second - partial[w].since > SweepAfter
      /\ recent' = (IF StageOf(w) = "path" THEN {<<w, second>>} ELSE recent)
      /\ partial' = [partial EXCEPT ![w] = NoPart]
      /\ late' = (IF second > wroteAt[w] THEN late \cup {w} ELSE late)
      /\ missed' = IF StageOf(w) = "path" THEN missed \cup {v \in Writer : Later(v, w) /\ ~Unread(v)} ELSE missed
      /\ UNCHANGED <<second, wroteAt, pending, auditLog, finished, rotations>>
  BY DEF Sweeps, Commits, Adds, StageOf
<1>2. /\ second \in Nat /\ second \in 0..MaxSecond /\ SweepAfter \in Nat /\ FreshFor \in Int
      /\ FreshFor <= SweepAfter
      /\ \A u \in Writer : wroteAt[u] \in Int /\ partial[u].since \in Nat
      /\ \A x \in recent : x[1] \in Writer /\ x[2] \in Nat
      /\ finished # <<>> => finished[Len(finished)] \in Writer
  <2>1. finished # <<>> => Len(finished) \in DOMAIN finished
    BY <1>0, ActorsFacts
  <2>. QED  BY <1>0, <2>1, ActorsFacts DEF ActorsTypeOK
<1>3. /\ wroteAt[w] # -1 /\ wroteAt[w] <= partial[w].since /\ partial[w].since <= second
      /\ pending[w] = <<>> /\ HasFinished(w)
  BY <1>0, <1>1, <1>2 DEF RecordsToCome
<1>4. Old(w)
  BY <1>1, <1>2, <1>3 DEF Old
<1>5. ActorsTypeOK'
  <2>1. recent' \subseteq Writer \X (0..MaxSecond) /\ (\A x, y \in recent' : x = y)
    <3>1. recent \subseteq Writer \X (0..MaxSecond) /\ (\A x, y \in recent : x = y)
      BY <1>0 DEF ActorsTypeOK
    <3>2. <<w, second>> \in Writer \X (0..MaxSecond)
      BY <1>2
    <3>3. recent' = {<<w, second>>} \/ recent' = recent
      BY <1>1
    <3>. QED  BY <3>1, <3>2, <3>3
  <2>2. NoPart \in [stage : {"none", "actor", "path"}, since : 0..MaxSecond]
    BY ActorsAssumption DEF NoPart
  <2>3. partial' \in [Writer -> [stage : {"none", "actor", "path"}, since : 0..MaxSecond]]
    BY <1>0, <1>1, <2>2 DEF ActorsTypeOK
  <2>4. missed' \subseteq Writer /\ late' \subseteq Writer
    BY <1>0, <1>1 DEF ActorsTypeOK
  <2>. QED  BY <1>0, <1>1, <2>1, <2>3, <2>4 DEF ActorsTypeOK
<1>6. /\ StageOf(w)' = "none" /\ partial'[w] = NoPart
      /\ \A u \in Writer \ {w} : partial'[u] = partial[u]
      /\ \A u \in Writer : u \notin missed' => u \notin missed
  BY <1>0, <1>1 DEF ActorsTypeOK, StageOf, NoPart
<1>7. DOMAIN auditLog = {} /\ DOMAIN auditLog' = {}
  BY <1>1
<1>8. ASSUME NEW u \in Writer PROVE RecordsToCome(u)'
  <2>1. (IsLogged(u)' <=> IsLogged(u)) /\ (HasFinished(u)' <=> HasFinished(u))
        /\ (\A k : HasRecord(u, k)' <=> HasRecord(u, k)) /\ \A K : BeginsWith(u, K)' <=> BeginsWith(u, K)
    BY <1>1 DEF IsLogged, HasFinished, HasRecord, BeginsWith
  <2>2. CASE u = w
    <3>1. ~BeginsWith(w, PathNames) /\ ~BeginsWith(w, {"proctitle"}) /\ ~BeginsWith(w, {"syscall"})
      BY <1>3 DEF BeginsWith
    <3>. QED  BY <1>0, <1>1, <1>3, <1>6, <1>7, <2>1, <2>2, <3>1 DEF RecordsToCome
  <2>3. CASE u # w
    <3>1. StageOf(u)' = StageOf(u) /\ partial'[u] = partial[u]
      BY <1>6, <2>3 DEF StageOf
    <3>. QED  BY <1>0, <1>1, <1>6, <2>1, <3>1 DEF RecordsToCome
  <2>. QED  BY <2>2, <2>3
<1>9. FinishedInOrder'
  BY <1>0, <1>1 DEF FinishedInOrder, Later, IsLogged, LoggedBehind
<1>10. ASSUME NEW v \in Writer, DueToBeNamed(v)' PROVE DueToBeNamed(v) \/ ~Later(v, w)
  <2>1. HasFinished(v) /\ v \notin missed' /\ ~Unread(v)' /\ ~Old(v)
    BY <1>1, <1>10 DEF DueToBeNamed, HasFinished, Old
  <2>2. v # w
    BY <1>4, <2>1
  <2>3. ~Unread(v)
    BY <1>1, <1>6, <2>1, <2>2 DEF Unread
  <2>. QED  BY <1>6, <2>1, <2>3 DEF DueToBeNamed
<1>11. WriterNamed'
  <2>1. CASE StageOf(w) = "path"
    <3>1. ASSUME NEW v \in Writer, DueToBeNamed(v)' PROVE ~Later(v, w)
      <4>1. HasFinished(v) /\ v \notin missed' /\ ~Unread(v)' /\ ~Old(v)
        BY <1>1, <3>1 DEF DueToBeNamed, HasFinished, Old
      <4>2. v # w
        BY <1>4, <4>1
      <4>3. ~Unread(v)
        BY <1>1, <1>6, <4>1, <4>2 DEF Unread
      <4>. QED  BY <1>1, <2>1, <4>1, <4>3
    <3>2. wroteAt[w] <= second
      BY <1>2, <1>3
    <3>. QED  BY <1>0, <1>1, <1>3, <2>1, <3>1, <3>2, EntryNames
  <2>2. CASE StageOf(w) # "path"
    <3>1. recent' = recent /\ missed' = missed
      BY <1>1, <2>2
    <3>2. ASSUME NEW v \in Writer, DueToBeNamed(v)' PROVE DueToBeNamed(v)
      <4>1. HasFinished(v) /\ v \notin missed' /\ ~Unread(v)' /\ ~Old(v)
        BY <1>1, <3>2 DEF DueToBeNamed, HasFinished, Old
      <4>2. v # w
        BY <1>4, <4>1
      <4>3. ~Unread(v)
        BY <1>1, <1>6, <4>1, <4>2 DEF Unread
      <4>. QED  BY <1>6, <4>1, <4>3 DEF DueToBeNamed
    <3>3. late \subseteq late'
      BY <1>1
    <3>4. \A x \in recent' : /\ wroteAt'[x[1]] # -1 /\ wroteAt'[x[1]] <= x[2] /\ x[2] <= second'
                             /\ x[1] \in late' \/ x[2] = wroteAt'[x[1]]
      BY <1>0, <1>1, <3>1, <3>3 DEF WriterNamed
    <3>5. \A x \in recent', v \in Writer : DueToBeNamed(v)' => ~Later(v, x[1])'
      BY <1>0, <1>1, <3>1, <3>2 DEF WriterNamed, Later
    <3>6. finished' # <<>> /\ DueToBeNamed(finished[Len(finished)])' => \E x \in recent' : x[1] = finished'[Len(finished')]
      BY <1>0, <1>1, <1>2, <3>1, <3>2 DEF WriterNamed
    <3>. QED  BY <3>4, <3>5, <3>6 DEF WriterNamed
  <2>. QED  BY <2>1, <2>2
<1>. QED  BY <1>5, <1>7, <1>8, <1>9, <1>11 DEF ActorsInv


LEMMA LogsKeeps == ASSUME ActorsInv, NEW w \in Writer, LogsRecord(w) PROVE ActorsInv'
<1>0. /\ ActorsTypeOK /\ (\A u \in Writer : RecordsToCome(u)) /\ FinishedInOrder /\ WriterNamed
      /\ \A i \in DOMAIN auditLog : RecordLogged(i)
  BY DEF ActorsInv
<1>. PICK h, t, n : h = Head(pending[w]) /\ t = Tail(pending[w]) /\ n = Len(auditLog)
  OBVIOUS
<1>1. /\ pending[w] # <<>> /\ auditLog' = Append(auditLog, <<w, h>>)
      /\ pending' = [pending EXCEPT ![w] = t]
      /\ finished' = (IF Len(pending[w]) = 1 THEN Append(finished, w) ELSE finished)
      /\ UNCHANGED <<second, wroteAt, partial, recent, missed, late, rotations>>
  BY DEF LogsRecord
<1>2. /\ t \in StillToLog /\ h \in {"syscall", "proctitle"} \cup PathNames
      /\ Len(pending[w]) = 1 <=> t = <<>>
      /\ h = "syscall" => t # <<>> /\ Head(t) \in PathNames
      /\ h \in PathNames /\ t # <<>> => Head(t) = "proctitle"
      /\ h = "proctitle" => t = <<>>
  <2>1. pending[w] \in StillToLog
    BY <1>0 DEF RecordsToCome
  <2>. QED  BY <1>1, <2>1, StillToLogTail
<1>3. /\ wroteAt[w] # -1 /\ wroteAt[w] = second /\ ~HasFinished(w) /\ ~HasRecord(w, "proctitle")
      /\ h = "syscall" => ~IsLogged(w) /\ StageOf(w) = "none"
      /\ h \in PathNames => \A i \in DOMAIN auditLog : auditLog[i][1] = w => auditLog[i][2] = "syscall"
      /\ w \notin missed /\ h \in PathNames => h = "path" /\ (StageOf(w) = "actor" \/ HasRecord(w, "syscall"))
      /\ w \notin missed /\ h = "syscall" => Head(t) = "path"
      /\ w \notin missed /\ h = "proctitle" => StageOf(w) = "path" \/ HasRecord(w, "path")
  BY <1>0, <1>1 DEF RecordsToCome, BeginsWith
<1>4. /\ DOMAIN auditLog = 1..n /\ n \in Nat /\ DOMAIN auditLog' = 1..(n + 1)
      /\ auditLog'[n + 1] = <<w, h>> /\ \A i \in DOMAIN auditLog : auditLog'[i] = auditLog[i]
      /\ auditLog' \in Seq(Writer \X RecordKinds)
  <2>1. auditLog \in Seq(Writer \X RecordKinds)
    BY <1>0 DEF ActorsTypeOK
  <2>2. <<w, h>> \in Writer \X RecordKinds
    BY <1>2 DEF PathNames, RecordKinds
  <2>. QED  BY <1>1, <2>1, <2>2
<1>5. /\ IsLogged(w)' /\ HasRecord(w, h)'
      /\ \A u \in Writer \ {w} : IsLogged(u)' <=> IsLogged(u)
      /\ \A u \in Writer \ {w}, k \in RecordKinds : HasRecord(u, k)' <=> HasRecord(u, k)
      /\ \A k \in RecordKinds : HasRecord(w, k)' <=> HasRecord(w, k) \/ k = h
  <2>1. n + 1 \in DOMAIN auditLog' /\ \A i \in DOMAIN auditLog' : i \in DOMAIN auditLog \/ i = n + 1
    BY <1>4
  <2>2. \A i \in DOMAIN auditLog : i \in DOMAIN auditLog'
    BY <1>4
  <2>3. auditLog'[n + 1][1] = w
    BY <1>4
  <2>4. IsLogged(w)' /\ HasRecord(w, h)'
    BY <1>4, <2>1, <2>3 DEF IsLogged, HasRecord
  <2>5. \A u \in Writer \ {w} : IsLogged(u)' <=> IsLogged(u)
    BY <1>4, <2>1, <2>2, <2>3 DEF IsLogged
  <2>6. ASSUME NEW u, NEW k, HasRecord(u, k) PROVE HasRecord(u, k)'
    BY <1>4, <2>2, <2>6 DEF HasRecord
  <2>7. ASSUME NEW u, NEW k, HasRecord(u, k)' PROVE HasRecord(u, k) \/ (u = w /\ k = h)
    <3>1. PICK i \in DOMAIN auditLog' : auditLog'[i] = <<u, k>>
      BY <2>7 DEF HasRecord
    <3>2. CASE i \in DOMAIN auditLog
      BY <1>4, <3>1, <3>2 DEF HasRecord
    <3>3. CASE i = n + 1
      <4>1. <<w, h>> = <<u, k>>
        BY <1>4, <3>1, <3>3
      <4>. QED  BY <4>1
    <3>. QED  BY <2>1, <3>2, <3>3
  <2>8. \A u \in Writer \ {w}, k \in RecordKinds : HasRecord(u, k)' <=> HasRecord(u, k)
    BY <2>6, <2>7
  <2>9. \A k \in RecordKinds : HasRecord(w, k)' <=> HasRecord(w, k) \/ k = h
    BY <2>4, <2>6, <2>7
  <2>. QED  BY <2>4, <2>5, <2>8, <2>9
<1>6. /\ finished \in Seq(Writer) /\ finished' \in Seq(Writer)
      /\ DOMAIN finished = 1..Len(finished) /\ Len(finished) \in Nat
      /\ \A i \in DOMAIN finished : finished[i] \in Writer /\ finished[i] # w /\ finished'[i] = finished[i]
      /\ t # <<>> => finished' = finished
      /\ t = <<>> => Len(finished') = Len(finished) + 1 /\ finished'[Len(finished) + 1] = w
  <2>1. finished \in Seq(Writer) /\ \A i \in DOMAIN finished : finished[i] # w
    BY <1>0, <1>3 DEF ActorsTypeOK, HasFinished
  <2>2. CASE t # <<>>
    BY <1>1, <1>2, <2>1, <2>2
  <2>3. CASE t = <<>>
    <3>1. finished' = Append(finished, w)
      BY <1>1, <1>2, <2>3
    <3>. QED  BY <2>1, <2>3, <3>1
  <2>. QED  BY <2>2, <2>3
<1>7. /\ DOMAIN finished' = 1..Len(finished')
      /\ \A i \in DOMAIN finished' : i \in DOMAIN finished \/ (i = Len(finished) + 1 /\ t = <<>>)
      /\ \A i \in DOMAIN finished : i \in DOMAIN finished'
  BY <1>6
<1>8. (HasFinished(w)' <=> t = <<>>) /\ \A u \in Writer \ {w} : HasFinished(u)' <=> HasFinished(u)
  <2>1. ASSUME t = <<>> PROVE Len(finished) + 1 \in DOMAIN finished'
    <3>1. Len(finished) \in Nat /\ DOMAIN finished' = 1..(Len(finished) + 1)
      BY <1>6, <1>7, <2>1
    <3>. QED  BY ONLY <3>1
  <2>2. HasFinished(w)' <=> t = <<>>
    BY <1>6, <1>7, <2>1 DEF HasFinished
  <2>3. \A u \in Writer \ {w} : HasFinished(u)' <=> HasFinished(u)
    BY <1>6, <1>7 DEF HasFinished
  <2>. QED  BY <2>2, <2>3
<1>9. ASSUME NEW v \in Writer, NEW u \in Writer, Later(v, u)'
      PROVE  u # w /\ (v = w \/ Later(v, u))
  <2>1. PICK i, j \in DOMAIN finished' : i > j /\ finished'[i] = v /\ finished'[j] = u
    BY <1>9 DEF Later
  <2>2. j \in DOMAIN finished
    <3>1. i \in 1..Len(finished) \/ i = Len(finished) + 1
      BY <1>6, <1>7
    <3>2. j \in 1..Len(finished) \/ j = Len(finished) + 1
      BY <1>6, <1>7
    <3>3. Len(finished) \in Nat /\ i > j
      BY <1>6, <2>1
    <3>4. j \in 1..Len(finished)
      BY <3>1, <3>2, <3>3
    <3>. QED  BY <1>6, <3>4
  <2>. QED  BY <1>6, <1>7, <2>1, <2>2 DEF Later
<1>10. ActorsTypeOK'
  <2>1. pending' \in [Writer -> Seq(RecordKinds)]
    <3>1. pending \in [Writer -> Seq(RecordKinds)]
      BY <1>0 DEF ActorsTypeOK
    <3>2. t \in Seq(RecordKinds)
      BY <1>1, <3>1
    <3>. QED  BY <1>1, <3>1, <3>2
  <2>. QED  BY <1>0, <1>1, <1>4, <1>6, <2>1 DEF ActorsTypeOK
<1>11. /\ pending'[w] = t /\ \A u \in Writer \ {w} : pending'[u] = pending[u]
       /\ \A u \in Writer : StageOf(u)' = StageOf(u)
  BY <1>0, <1>1 DEF ActorsTypeOK, StageOf
<1>12. ASSUME NEW u \in Writer PROVE RecordsToCome(u)'
  <2>1. CASE u # w
    <3>1. \A K : BeginsWith(u, K)' <=> BeginsWith(u, K)
      BY <1>11, <2>1 DEF BeginsWith
    <3>2. BeginsWith(u, PathNames) => \A i \in DOMAIN auditLog' : auditLog'[i][1] = u => auditLog'[i][2] = "syscall"
      <4>1. \A i \in DOMAIN auditLog' : auditLog'[i][1] = u => i \in DOMAIN auditLog /\ auditLog'[i] = auditLog[i]
        BY <1>4, <2>1
      <4>. QED  BY <1>0, <4>1 DEF RecordsToCome
    <3>3. (IsLogged(u)' <=> IsLogged(u)) /\ (HasFinished(u)' <=> HasFinished(u)) /\ StageOf(u)' = StageOf(u)
          /\ (HasRecord(u, "proctitle")' <=> HasRecord(u, "proctitle")) /\ (HasRecord(u, "syscall")' <=> HasRecord(u, "syscall"))
          /\ (HasRecord(u, "path")' <=> HasRecord(u, "path")) /\ pending'[u] = pending[u]
      BY <1>5, <1>8, <1>11, <2>1 DEF RecordKinds
    <3>. QED  BY <1>0, <1>1, <3>1, <3>2, <3>3 DEF RecordsToCome
  <2>2. CASE u = w
    <3>1. t # <<>> => h # "proctitle" /\ Head(t) # "syscall"
      BY <1>2 DEF PathNames
    <3>2. t # <<>> => ~HasRecord(w, "proctitle")'
      BY <1>3, <1>5, <3>1 DEF RecordKinds
    <3>3. ~BeginsWith(w, {"syscall"})'
      BY <1>11, <3>1 DEF BeginsWith
    <3>4. ASSUME BeginsWith(w, PathNames)'
          PROVE  /\ \A i \in DOMAIN auditLog' : auditLog'[i][1] = w => auditLog'[i][2] = "syscall"
                 /\ w \notin missed => BeginsWith(w, {"path"})' /\ HasRecord(w, "syscall")'
      <4>1. h = "syscall" /\ t # <<>>
        BY <1>2, <1>11, <3>4 DEF BeginsWith, PathNames
      <4>2. \A i \in DOMAIN auditLog' : auditLog'[i][1] = w => i = n + 1
        BY <1>3, <1>4, <4>1 DEF IsLogged
      <4>3. w \notin missed => BeginsWith(w, {"path"})'
        BY <1>3, <1>11, <4>1 DEF BeginsWith
      <4>. QED  BY <1>4, <1>5, <4>1, <4>2, <4>3
    <3>5. ASSUME BeginsWith(w, {"proctitle"})', w \notin missed
          PROVE  HasRecord(w, "path")'
      <4>1. h \in PathNames
        BY <1>2, <1>11, <3>5 DEF BeginsWith, PathNames
      <4>. QED  BY <1>3, <1>5, <3>5, <4>1
    <3>6. StageOf(w) # "none" => wroteAt[w] <= partial[w].since /\ partial[w].since <= second
      BY <1>0 DEF RecordsToCome
    <3>7. wroteAt[w] <= second /\ (t = <<>> <=> HasFinished(w)') /\ t \in StillToLog
      BY <1>0, <1>2, <1>8 DEF RecordsToCome
    <3>. QED  BY <1>1, <1>3, <1>11, <2>2, <3>2, <3>3, <3>4, <3>5, <3>6, <3>7 DEF RecordsToCome
  <2>. QED  BY <2>1, <2>2
<1>13. ~HasRecord(w, h)
  <2>. SUFFICES ASSUME HasRecord(w, h) PROVE FALSE
    OBVIOUS
  <2>1. PICK i \in DOMAIN auditLog : auditLog[i] = <<w, h>>
    BY DEF HasRecord
  <2>2. auditLog[i][1] = w /\ auditLog[i][2] = h /\ IsLogged(w)
    BY <2>1 DEF IsLogged
  <2>. QED  BY <1>2, <1>3, <2>2 DEF PathNames
<1>14. ASSUME NEW i \in DOMAIN auditLog' PROVE RecordLogged(i)'
  <2>1. CASE i \in DOMAIN auditLog
    <3>. PICK u, k : u = auditLog[i][1] /\ k = auditLog[i][2]
      OBVIOUS
    <3>0. auditLog'[i][1] = u /\ auditLog'[i][2] = k /\ RecordLogged(i) /\ u \in Writer /\ auditLog[i] = <<u, k>>
      BY <1>0, <1>4, <2>1, ActorsFacts
    <3>1. \A j \in DOMAIN auditLog' : j \in DOMAIN auditLog \/ j = n + 1
      BY <1>4
    <3>2. k = "syscall" => StageOf(u) = "none" /\ \A j \in DOMAIN auditLog' : auditLog'[j][1] = u => j >= i
      <4>1. n + 1 >= i
        BY <1>4
      <4>. QED  BY <1>4, <3>0, <3>1, <4>1 DEF RecordLogged
    <3>3. k = "path" /\ u \notin missed =>
              StageOf(u) = "actor" \/ \E j \in DOMAIN auditLog' : j < i /\ auditLog'[j] = <<u, "syscall">>
      <4>1. \A j \in DOMAIN auditLog : j \in DOMAIN auditLog'
        BY <1>4
      <4>. QED  BY <1>4, <3>0, <4>1 DEF RecordLogged
    <3>4. k = "proctitle" => \A j \in DOMAIN auditLog' : auditLog'[j][1] = u => j <= i
      <4>1. k = "proctitle" => u # w
        BY <1>3, <2>1, <3>0 DEF HasRecord
      <4>. QED  BY <1>4, <3>0, <3>1, <4>1 DEF RecordLogged
    <3>5. k = "proctitle" /\ u \notin missed => StageOf(u) = "path" \/ HasRecord(u, "path")'
      BY <1>5, <3>0 DEF RecordLogged, RecordKinds
    <3>6. \A j \in DOMAIN auditLog' : auditLog'[j] = auditLog'[i] => j = i
      <4>1. auditLog[i] # <<w, h>>
        BY <1>13, <2>1 DEF HasRecord
      <4>. QED  BY <1>4, <2>1, <3>0, <3>1, <4>1 DEF RecordLogged
    <3>7. k = "relative path" => u \in missed
      BY <3>0 DEF RecordLogged
    <3>8. auditLog'[i][1] = u /\ auditLog'[i][2] = k /\ StageOf(u)' = StageOf(u) /\ missed' = missed
      BY <1>1, <1>11, <3>0
    <3>. QED  BY ONLY <3>2, <3>3, <3>4, <3>5, <3>6, <3>7, <3>8 DEF RecordLogged
  <2>2. CASE i = n + 1
    <3>0. auditLog'[i][1] = w /\ auditLog'[i][2] = h
      BY <1>4, <2>2
    <3>1. \A j \in DOMAIN auditLog' : j \in DOMAIN auditLog \/ j = n + 1
      BY <1>4
    <3>2. h = "syscall" => StageOf(w) = "none" /\ \A j \in DOMAIN auditLog' : auditLog'[j][1] = w => j >= i
      <4>1. h = "syscall" => \A j \in DOMAIN auditLog' : auditLog'[j][1] = w => j = n + 1
        BY <1>3, <1>4, <3>1 DEF IsLogged
      <4>. QED  BY <1>3, <1>4, <2>2, <4>1
    <3>3. h = "path" /\ w \notin missed =>
              StageOf(w) = "actor" \/ \E j \in DOMAIN auditLog' : j < i /\ auditLog'[j] = <<w, "syscall">>
      <4>1. h = "path" /\ w \notin missed => StageOf(w) = "actor" \/ HasRecord(w, "syscall")
        BY <1>3 DEF PathNames
      <4>2. \A j \in DOMAIN auditLog : j \in DOMAIN auditLog' /\ j < i /\ auditLog'[j] = auditLog[j]
        BY <1>4, <2>2
      <4>. QED  BY <4>1, <4>2 DEF HasRecord
    <3>4. h = "proctitle" => \A j \in DOMAIN auditLog' : auditLog'[j][1] = w => j <= i
      BY <1>4, <2>2
    <3>5. h = "proctitle" /\ w \notin missed => StageOf(w) = "path" \/ HasRecord(w, "path")'
      BY <1>3, <1>5 DEF RecordKinds
    <3>6. \A j \in DOMAIN auditLog' : auditLog'[j] = auditLog'[i] => j = i
      <4>1. \A j \in DOMAIN auditLog : auditLog[j] # <<w, h>>
        BY <1>13 DEF HasRecord
      <4>. QED  BY <1>4, <2>2, <3>1, <4>1
    <3>7. h = "relative path" => w \in missed
      BY <1>3 DEF PathNames
    <3>8. auditLog'[i][1] = w /\ auditLog'[i][2] = h /\ StageOf(w)' = StageOf(w) /\ missed' = missed
      BY <1>1, <1>11, <3>0
    <3>. QED  BY ONLY <3>2, <3>3, <3>4, <3>5, <3>6, <3>7, <3>8 DEF RecordLogged
  <2>. QED  BY <1>4, <2>1, <2>2
<1>15. FinishedInOrder'
  <2>1. \A i, j \in DOMAIN finished' : finished'[i] = finished'[j] => i = j
    BY <1>0, <1>6, <1>7 DEF FinishedInOrder
  <2>2. ASSUME NEW v \in Writer, NEW u \in Writer, Later(v, u)', IsLogged(u)'
        PROVE  LoggedBehind(v, u)'
    <3>1. u # w /\ (v = w \/ Later(v, u)) /\ IsLogged(u)
      BY <1>5, <1>9, <2>2
    <3>2. \A i \in DOMAIN auditLog' : auditLog'[i][1] = u => i \in DOMAIN auditLog /\ auditLog'[i] = auditLog[i]
      BY <1>4, <3>1
    <3>3. CASE v = w
      <4>1. n + 1 \in DOMAIN auditLog' /\ auditLog'[n + 1][1] = w /\ \A i \in DOMAIN auditLog : i < n + 1
        BY <1>4
      <4>. QED  BY <3>2, <3>3, <4>1 DEF LoggedBehind
    <3>4. CASE Later(v, u)
      <4>1. PICK j \in DOMAIN auditLog :
                auditLog[j][1] = v /\ \A i \in DOMAIN auditLog : auditLog[i][1] = u => i < j
        BY <1>0, <3>1, <3>4 DEF FinishedInOrder, LoggedBehind
      <4>2. j \in DOMAIN auditLog' /\ auditLog'[j][1] = v
        BY <1>4, <4>1
      <4>. QED  BY <3>2, <4>1, <4>2 DEF LoggedBehind
    <3>. QED  BY <3>1, <3>3, <3>4
  <2>. QED  BY <2>1, <2>2 DEF FinishedInOrder
<1>16. ASSUME NEW v \in Writer, DueToBeNamed(v)' PROVE v # w /\ DueToBeNamed(v)
  <2>1. v # w
    BY <1>5, <1>16 DEF DueToBeNamed, Unread, IsLogged
  <2>2. Unread(v) => Unread(v)'
    <3>1. \A i \in DOMAIN auditLog : i \in DOMAIN auditLog' /\ auditLog'[i] = auditLog[i]
      BY <1>4
    <3>. QED  BY <1>1, <3>1 DEF Unread
  <2>. QED  BY <1>1, <1>8, <1>16, <2>1, <2>2 DEF DueToBeNamed, Old
<1>17. WriterNamed'
  <2>1. \A x \in recent : x[1] \in Writer
    BY <1>0, ActorsFacts
  <2>2. \A x \in recent' : /\ wroteAt'[x[1]] # -1 /\ wroteAt'[x[1]] <= x[2] /\ x[2] <= second'
                           /\ x[1] \in late' \/ x[2] = wroteAt'[x[1]]
    BY <1>0, <1>1 DEF WriterNamed
  <2>3. \A x \in recent', v \in Writer : DueToBeNamed(v)' => ~Later(v, x[1])'
    BY <1>0, <1>1, <1>9, <1>16, <2>1 DEF WriterNamed
  <2>4. ASSUME finished' # <<>>, DueToBeNamed(finished[Len(finished)])'
        PROVE  \E x \in recent' : x[1] = finished'[Len(finished')]
    <3>. PICK z : z = finished'[Len(finished')]
      OBVIOUS
    <3>1. z \in Writer /\ DueToBeNamed(z)'
      <4>1. Len(finished') \in DOMAIN finished'
        BY <1>6, <2>4
      <4>. QED  BY <1>6, <2>4, <4>1
    <3>2. z # w /\ DueToBeNamed(z)
      BY <1>16, <3>1
    <3>3. t # <<>> /\ finished' = finished
      BY <1>6, <3>2
    <3>. QED  BY <1>0, <1>1, <2>4, <3>2, <3>3 DEF WriterNamed
  <2>. QED  BY <2>2, <2>3, <2>4 DEF WriterNamed
<1>. QED  BY <1>10, <1>12, <1>14, <1>15, <1>17 DEF ActorsInv

LEMMA ReadsKeeps == ASSUME ActorsInv, ReadsRecord PROVE ActorsInv'
<1>0. /\ ActorsTypeOK /\ (\A u \in Writer : RecordsToCome(u)) /\ FinishedInOrder /\ WriterNamed
      /\ \A i \in DOMAIN auditLog : RecordLogged(i)
  BY DEF ActorsInv
<1>. PICK w, k, n : w = auditLog[1][1] /\ k = auditLog[1][2] /\ n = Len(auditLog)
  OBVIOUS
<1>1. /\ auditLog # <<>> /\ auditLog' = Tail(auditLog)
      /\ UNCHANGED <<second, wroteAt, pending, finished, missed, rotations>>
  BY DEF ReadsRecord
<1>2. /\ n \in Nat \ {0} /\ DOMAIN auditLog = 1..n /\ DOMAIN auditLog' = 1..(n - 1)
      /\ \A i \in DOMAIN auditLog' : auditLog'[i] = auditLog[i + 1]
      /\ auditLog' \in Seq(Writer \X RecordKinds) /\ Head(auditLog) = auditLog[1]
      /\ 1 \in DOMAIN auditLog
  <2>1. auditLog \in Seq(Writer \X RecordKinds)
    BY <1>0 DEF ActorsTypeOK
  <2>. QED  BY <1>1, <2>1
<1>3. /\ \A i \in DOMAIN auditLog' : i + 1 \in DOMAIN auditLog /\ i + 1 # 1 /\ i \in Nat
      /\ \A i \in DOMAIN auditLog : i = 1 \/ (i - 1 \in DOMAIN auditLog' /\ auditLog'[i - 1] = auditLog[i])
      /\ \A i \in DOMAIN auditLog : i \in Nat \ {0}
  <2>1. \A i \in DOMAIN auditLog' : i + 1 \in DOMAIN auditLog /\ i + 1 # 1 /\ i \in Nat
    BY <1>2
  <2>2. ASSUME NEW i \in DOMAIN auditLog, i # 1 PROVE i - 1 \in DOMAIN auditLog' /\ auditLog'[i - 1] = auditLog[i]
    <3>1. i - 1 \in DOMAIN auditLog' /\ (i - 1) + 1 = i
      BY <1>2, <2>2
    <3>. QED  BY <1>2, <3>1
  <2>3. \A i \in DOMAIN auditLog : i \in Nat \ {0}
    BY <1>2
  <2>. QED  BY <2>1, <2>2, <2>3
<1>4. /\ w \in Writer /\ k \in RecordKinds /\ auditLog[1] = <<w, k>> /\ IsLogged(w) /\ HasRecord(w, k) /\ RecordLogged(1)
  <2>1. w \in Writer /\ k \in RecordKinds /\ auditLog[1] = <<w, k>>
    BY <1>0, <1>2, ActorsFacts
  <2>. QED  BY <1>0, <1>2, <2>1 DEF IsLogged, HasRecord
<1>5. /\ k = "syscall" => StageOf(w) = "none"
      /\ k = "relative path" => w \in missed
      /\ k = "path" /\ w \notin missed => StageOf(w) = "actor"
      /\ k = "proctitle" => \A j \in DOMAIN auditLog : auditLog[j][1] = w => j = 1
      /\ k = "proctitle" /\ w \notin missed => StageOf(w) = "path"
      /\ \A j \in DOMAIN auditLog : auditLog[j] = <<w, k>> => j = 1
  <2>1. k = "path" /\ w \notin missed => StageOf(w) = "actor"
    BY <1>3, <1>4 DEF RecordLogged
  <2>2. k = "proctitle" => \A j \in DOMAIN auditLog : auditLog[j][1] = w => j = 1
    BY <1>3, <1>4 DEF RecordLogged
  <2>3. k = "proctitle" /\ w \notin missed => StageOf(w) = "path"
    <3>1. k = "proctitle" => ~HasRecord(w, "path")
      BY <1>4, <2>2 DEF HasRecord
    <3>. QED  BY <1>4, <3>1 DEF RecordLogged
  <2>. QED  BY <1>4, <2>1, <2>2, <2>3 DEF RecordLogged
<1>6. /\ wroteAt[w] # -1 /\ wroteAt[w] <= second /\ ~BeginsWith(w, {"syscall"})
      /\ BeginsWith(w, PathNames) => k = "syscall"
      /\ k = "proctitle" => pending[w] = <<>> /\ HasFinished(w)
      /\ StageOf(w) # "none" => wroteAt[w] <= partial[w].since /\ partial[w].since <= second
      /\ second \in Nat /\ second \in 0..MaxSecond /\ wroteAt[w] \in Int
  <2>1. second \in Nat /\ second \in 0..MaxSecond /\ wroteAt[w] \in Int
    BY <1>0, <1>4, ActorsFacts DEF ActorsTypeOK
  <2>. QED  BY <1>0, <1>2, <1>4, <2>1 DEF RecordsToCome
<1>7. /\ \A u \in Writer : \A x : HasRecord(u, x)' => HasRecord(u, x)
      /\ \A u \in Writer : \A x : HasRecord(u, x) => HasRecord(u, x)' \/ (u = w /\ x = k)
      /\ \A u \in Writer : IsLogged(u)' => IsLogged(u)
      /\ \A u \in Writer \ {w} : IsLogged(u) => IsLogged(u)'
  <2>1. \A u \in Writer : \A x : HasRecord(u, x)' => HasRecord(u, x)
    BY <1>2, <1>3 DEF HasRecord
  <2>2. ASSUME NEW u \in Writer, NEW x, HasRecord(u, x) PROVE HasRecord(u, x)' \/ (u = w /\ x = k)
    <3>1. PICK i \in DOMAIN auditLog : auditLog[i] = <<u, x>>
      BY <2>2 DEF HasRecord
    <3>2. i = 1 => u = w /\ x = k
      BY <3>1
    <3>3. i # 1 => HasRecord(u, x)'
      BY <1>3, <3>1 DEF HasRecord
    <3>. QED  BY <3>2, <3>3
  <2>3. \A u \in Writer : IsLogged(u)' => IsLogged(u)
    BY <1>2, <1>3 DEF IsLogged
  <2>4. \A u \in Writer \ {w} : IsLogged(u) => IsLogged(u)'
    BY <1>3, <1>4 DEF IsLogged
  <2>. QED  BY <2>1, <2>2, <2>3, <2>4
<1>8. \/ /\ k = "syscall" /\ partial' = [partial EXCEPT ![w] = [stage |-> "actor", since |-> second]]
         /\ recent' = recent /\ late' = late
      \/ /\ k = "proctitle" /\ StageOf(w) # "none"
         /\ recent' = (IF StageOf(w) = "path" THEN {<<w, second>>} ELSE recent)
         /\ partial' = [partial EXCEPT ![w] = NoPart]
         /\ late' = IF second > wroteAt[w] THEN late \cup {w} ELSE late
      \/ /\ k = "path" /\ StageOf(w) # "none" /\ partial' = [partial EXCEPT ![w].stage = "path"]
         /\ recent' = recent /\ late' = late
      \/ /\ k # "syscall" /\ (k = "relative path" \/ StageOf(w) = "none")
         /\ partial' = partial /\ recent' = recent /\ late' = late
  <2>1. k \in {"syscall", "path", "relative path", "proctitle"}
    BY <1>4 DEF RecordKinds
  <2>2. CASE k = "syscall"
    BY <1>2, <2>2 DEF ReadsRecord
  <2>3. CASE k = "proctitle" /\ StageOf(w) # "none"
    BY <1>2, <2>3 DEF ReadsRecord, Commits, Adds, StageOf
  <2>4. CASE k = "path" /\ StageOf(w) # "none"
    BY <1>2, <2>4 DEF ReadsRecord, StageOf
  <2>5. CASE k = "relative path"
    BY <1>2, <2>5 DEF ReadsRecord, StageOf
  <2>6. CASE k = "proctitle" /\ StageOf(w) = "none"
    BY <1>2, <2>6 DEF ReadsRecord, StageOf
  <2>7. CASE k = "path" /\ StageOf(w) = "none"
    BY <1>2, <2>7 DEF ReadsRecord, StageOf
  <2>. QED  BY <2>1, <2>2, <2>3, <2>4, <2>5, <2>6, <2>7
<1>9. /\ partial \in [Writer -> [stage : {"none", "actor", "path"}, since : 0..MaxSecond]]
      /\ NoPart \in [stage : {"none", "actor", "path"}, since : 0..MaxSecond] /\ NoPart.stage = "none"
      /\ recent \subseteq Writer \X (0..MaxSecond) /\ (\A x, y \in recent : x = y)
      /\ late \subseteq Writer
  <2>1. 0 \in 0..MaxSecond
    BY ActorsAssumption
  <2>2. NoPart \in [stage : {"none", "actor", "path"}, since : 0..MaxSecond] /\ NoPart.stage = "none"
    BY <2>1 DEF NoPart
  <2>. QED  BY <1>0, <2>2 DEF ActorsTypeOK
<1>10. /\ partial' \in [Writer -> [stage : {"none", "actor", "path"}, since : 0..MaxSecond]]
       /\ \A u \in Writer \ {w} : partial'[u] = partial[u]
       /\ k = "syscall" => partial'[w] = [stage |-> "actor", since |-> second]
       /\ k = "proctitle" => StageOf(w)' = "none"
       /\ k = "path" /\ StageOf(w) # "none" => StageOf(w)' = "path" /\ partial'[w].since = partial[w].since
       /\ k = "relative path" \/ (k = "path" /\ StageOf(w) = "none") => partial'[w] = partial[w]
  <2>1. CASE k = "syscall"
    <3>1. [stage |-> "actor", since |-> second] \in [stage : {"none", "actor", "path"}, since : 0..MaxSecond]
      BY <1>6
    <3>2. partial' = [partial EXCEPT ![w] = [stage |-> "actor", since |-> second]]
      BY <1>8, <2>1
    <3>. QED  BY <1>4, <1>9, <2>1, <3>1, <3>2
  <2>2. CASE k = "proctitle" /\ StageOf(w) # "none"
    <3>1. partial' = [partial EXCEPT ![w] = NoPart]
      BY <1>8, <2>2
    <3>. QED  BY <1>4, <1>9, <2>2, <3>1 DEF StageOf
  <2>3. CASE k = "path" /\ StageOf(w) # "none"
    <3>1. partial' = [partial EXCEPT ![w].stage = "path"]
      BY <1>8, <2>3
    <3>. QED  BY <1>4, <1>9, <2>3, <3>1 DEF StageOf
  <2>4. CASE k # "syscall" /\ (k = "relative path" \/ StageOf(w) = "none")
    <3>1. partial' = partial
      BY <1>8, <2>4
    <3>. QED  BY <1>9, <2>4, <3>1 DEF StageOf
  <2>. QED  BY <1>8, <2>1, <2>2, <2>3, <2>4
<1>11. ActorsTypeOK'
  <2>1. recent' \subseteq Writer \X (0..MaxSecond) /\ (\A x, y \in recent' : x = y)
    <3>1. <<w, second>> \in Writer \X (0..MaxSecond)
      BY <1>4, <1>6
    <3>2. recent' = {<<w, second>>} \/ recent' = recent
      BY <1>8
    <3>. QED  BY <1>9, <3>1, <3>2
  <2>2. late' \subseteq Writer
    <3>1. late' = late \/ late' = late \cup {w}
      BY <1>8
    <3>. QED  BY <1>4, <1>9, <3>1
  <2>. QED  BY <1>0, <1>1, <1>2, <1>10, <2>1, <2>2 DEF ActorsTypeOK
<1>12. StageOf(w)' # "none" => wroteAt[w] <= partial'[w].since /\ partial'[w].since <= second
  <2>1. k \in {"syscall", "path", "relative path", "proctitle"}
    BY <1>4 DEF RecordKinds
  <2>2. CASE k = "syscall"
    <3>1. partial'[w].since = second
      BY <1>10, <2>2
    <3>. QED  BY <1>6, <3>1
  <2>3. CASE k # "syscall"
    <3>1. StageOf(w)' # "none" => StageOf(w) # "none" /\ partial'[w].since = partial[w].since
      BY <1>10, <2>1, <2>3 DEF StageOf
    <3>. QED  BY <1>6, <3>1
  <2>. QED  BY <2>2, <2>3
(* What was read of an event, or is still to be.                           *)
<1>13. ASSUME w \notin missed, k # "proctitle", StageOf(w) = "path" \/ HasRecord(w, "path")
       PROVE  StageOf(w)' = "path" \/ HasRecord(w, "path")'
  <2>1. k = "syscall" \/ k = "path"
    BY <1>4, <1>5, <1>13 DEF RecordKinds
  <2>2. CASE k = "syscall"
    BY <1>4, <1>5, <1>7, <1>13, <2>2
  <2>3. CASE k = "path"
    BY <1>5, <1>10, <1>13, <2>3
  <2>. QED  BY <2>1, <2>2, <2>3
<1>14. k = "syscall" => StageOf(w)' = "actor"
  BY <1>10 DEF StageOf
<1>15. /\ \A u \in Writer \ {w} : StageOf(u)' = StageOf(u)
       /\ \A u \in Writer : HasFinished(u)' <=> HasFinished(u)
       /\ \A u \in Writer : \A K : BeginsWith(u, K)' <=> BeginsWith(u, K)
  BY <1>1, <1>10 DEF StageOf, HasFinished, BeginsWith
<1>16. ASSUME NEW u \in Writer PROVE RecordsToCome(u)'
  <2>1. BeginsWith(u, PathNames) => \A i \in DOMAIN auditLog' : auditLog'[i][1] = u => auditLog'[i][2] = "syscall"
    BY <1>0, <1>2, <1>3 DEF RecordsToCome
  <2>2. CASE u # w
    <3>1. (IsLogged(u)' <=> IsLogged(u)) /\ \A x : HasRecord(u, x)' <=> HasRecord(u, x)
      BY <1>7, <2>2
    <3>2. StageOf(u)' = StageOf(u) /\ partial'[u] = partial[u]
      BY <1>10, <1>15, <2>2
    <3>. QED  BY <1>0, <1>1, <1>15, <2>1, <3>1, <3>2 DEF RecordsToCome
  <2>3. CASE u = w
    <3>1. w \notin missed /\ BeginsWith(w, PathNames) => BeginsWith(w, {"path"}) /\ StageOf(w)' = "actor"
      BY <1>0, <1>4, <1>6, <1>14 DEF RecordsToCome
    <3>2. w \notin missed /\ BeginsWith(w, {"proctitle"}) => StageOf(w)' = "path" \/ HasRecord(w, "path")'
      <4>1. BeginsWith(w, {"proctitle"}) => k # "proctitle"
        BY <1>6 DEF BeginsWith
      <4>2. w \notin missed /\ BeginsWith(w, {"proctitle"}) => StageOf(w) = "path" \/ HasRecord(w, "path")
        BY <1>0, <1>4 DEF RecordsToCome
      <4>. QED  BY <1>13, <4>1, <4>2
    <3>3. /\ pending[w] \in StillToLog /\ (pending[w] = <<>> <=> HasFinished(w))
          /\ pending[w] # <<>> => wroteAt[w] = second /\ ~HasRecord(w, "proctitle")'
      BY <1>0, <1>4, <1>6, <1>7 DEF RecordsToCome
    <3>. QED  BY <1>1, <1>6, <1>12, <1>15, <2>1, <2>3, <3>1, <3>2, <3>3 DEF RecordsToCome
  <2>. QED  BY <2>2, <2>3
<1>17. ASSUME NEW i \in DOMAIN auditLog' PROVE RecordLogged(i)'
  <2>. PICK u, x : u = auditLog[i + 1][1] /\ x = auditLog[i + 1][2]
    OBVIOUS
  <2>1. /\ auditLog'[i][1] = u /\ auditLog'[i][2] = x /\ i + 1 \in DOMAIN auditLog /\ i \in Nat \ {0}
        /\ RecordLogged(i + 1) /\ u \in Writer /\ x \in RecordKinds /\ auditLog[i + 1] = <<u, x>>
    BY <1>0, <1>2, <1>3, ActorsFacts
  <2>2. \A j \in DOMAIN auditLog' : j + 1 \in DOMAIN auditLog /\ auditLog'[j] = auditLog[j + 1] /\ j \in Nat
    BY <1>2, <1>3
  <2>3. x = "syscall" => u # w /\ StageOf(u)' = "none" /\ \A j \in DOMAIN auditLog' : auditLog'[j][1] = u => j >= i
    <3>1. x = "syscall" => StageOf(u) = "none" /\ \A j \in DOMAIN auditLog : auditLog[j][1] = u => j >= i + 1
      BY <2>1 DEF RecordLogged
    <3>2. x = "syscall" => u # w
      BY <1>2, <2>1, <3>1
    <3>3. x = "syscall" => \A j \in DOMAIN auditLog' : auditLog'[j][1] = u => j >= i
      BY <2>1, <2>2, <3>1
    <3>. QED  BY <1>15, <2>1, <3>1, <3>2, <3>3
  <2>4. x = "relative path" => u \in missed
    BY <2>1 DEF RecordLogged
  <2>5. x = "proctitle" => \A j \in DOMAIN auditLog' : auditLog'[j][1] = u => j <= i
    <3>1. x = "proctitle" => \A j \in DOMAIN auditLog : auditLog[j][1] = u => j <= i + 1
      BY <2>1 DEF RecordLogged
    <3>. QED  BY <2>1, <2>2, <3>1
  <2>6. \A j \in DOMAIN auditLog' : auditLog'[j] = auditLog'[i] => j = i
    <3>1. \A j \in DOMAIN auditLog : auditLog[j] = auditLog[i + 1] => j = i + 1
      BY <2>1 DEF RecordLogged
    <3>2. auditLog'[i] = auditLog[i + 1]
      BY <2>2
    <3>. QED  BY <2>1, <2>2, <3>1, <3>2
  <2>7. u = w => k # "proctitle" /\ x # k
    <3>1. u = w => k # "proctitle"
      BY <1>3, <1>5, <2>1
    <3>2. u = w => x # k
      BY <1>3, <1>5, <2>1
    <3>. QED  BY <3>1, <3>2
  <2>8. ASSUME x = "proctitle", u \notin missed PROVE StageOf(u)' = "path" \/ HasRecord(u, "path")'
    <3>1. StageOf(u) = "path" \/ HasRecord(u, "path")
      BY <2>1, <2>8 DEF RecordLogged
    <3>2. CASE u = w
      BY <1>13, <2>7, <2>8, <3>1, <3>2
    <3>3. CASE u # w
      BY <1>7, <1>15, <2>1, <3>1, <3>3
    <3>. QED  BY <3>2, <3>3
  <2>9. ASSUME x = "path", u \notin missed
        PROVE  StageOf(u)' = "actor" \/ \E j \in DOMAIN auditLog' : j < i /\ auditLog'[j] = <<u, "syscall">>
    <3>1. CASE \E j \in DOMAIN auditLog : j < i + 1 /\ auditLog[j] = <<u, "syscall">>
      <4>1. PICK j \in DOMAIN auditLog : j < i + 1 /\ auditLog[j] = <<u, "syscall">>
        BY <3>1
      <4>2. CASE j = 1
        BY <1>4, <1>14, <4>1, <4>2
      <4>3. CASE j # 1
        <5>1. j - 1 \in DOMAIN auditLog' /\ auditLog'[j - 1] = <<u, "syscall">> /\ j - 1 < i
          BY <1>3, <2>1, <4>1, <4>3
        <5>. QED  BY <5>1
      <4>. QED  BY <4>2, <4>3
    <3>2. CASE StageOf(u) = "actor"
      <4>1. CASE u # w
        BY <1>15, <2>1, <3>2, <4>1
      <4>2. CASE u = w
        BY <1>4, <1>5, <1>14, <2>7, <2>9, <4>2 DEF RecordKinds
      <4>. QED  BY <4>1, <4>2
    <3>. QED  BY <2>1, <2>9, <3>1, <3>2 DEF RecordLogged
  <2>. QED  BY <1>1, <2>1, <2>3, <2>4, <2>5, <2>6, <2>8, <2>9 DEF RecordLogged
<1>18. FinishedInOrder'
  <2>1. ASSUME NEW v \in Writer, NEW u \in Writer, Later(v, u), IsLogged(u)' PROVE LoggedBehind(v, u)'
    <3>1. PICK j \in DOMAIN auditLog :
              auditLog[j][1] = v /\ \A i \in DOMAIN auditLog : auditLog[i][1] = u => i < j
      BY <1>0, <1>7, <2>1 DEF FinishedInOrder, LoggedBehind
    <3>2. \A i \in DOMAIN auditLog' : auditLog'[i][1] = u => i + 1 < j /\ i \in Nat
      BY <1>2, <1>3, <3>1
    <3>3. j # 1
      BY <2>1, <3>2 DEF IsLogged
    <3>4. j - 1 \in DOMAIN auditLog' /\ auditLog'[j - 1][1] = v /\ j \in Nat
      BY <1>3, <3>1, <3>3
    <3>5. \A i \in DOMAIN auditLog' : auditLog'[i][1] = u => i < j - 1
      BY <3>2, <3>4
    <3>. QED  BY <3>4, <3>5 DEF LoggedBehind
  <2>2. \A v, u : Later(v, u)' <=> Later(v, u)
    BY <1>1 DEF Later
  <2>3. \A i, j \in DOMAIN finished' : finished'[i] = finished'[j] => i = j
    BY <1>0, <1>1 DEF FinishedInOrder
  <2>. QED  BY <2>1, <2>2, <2>3 DEF FinishedInOrder
<1>19. WriterNamed'
  <2>1. CASE k = "proctitle" /\ StageOf(w) = "path"
    <3>1. ASSUME NEW v \in Writer, DueToBeNamed(v)' PROVE ~Later(v, w)
      <4>. SUFFICES ASSUME Later(v, w) PROVE FALSE
        OBVIOUS
      <4>1. PICK j \in DOMAIN auditLog :
                auditLog[j][1] = v /\ \A i \in DOMAIN auditLog : auditLog[i][1] = w => i < j
        BY <1>0, <1>4 DEF FinishedInOrder, LoggedBehind
      <4>2. j # 1
        BY <1>2, <4>1
      <4>3. j - 1 \in DOMAIN auditLog' /\ auditLog'[j - 1][1] = v
        BY <1>3, <4>1, <4>2
      <4>. QED  BY <3>1, <4>3 DEF DueToBeNamed, Unread
    <3>2. recent' = {<<w, second>>} /\ late' = IF second > wroteAt[w] THEN late \cup {w} ELSE late
      BY <1>8, <2>1
    <3>. QED  BY <1>0, <1>1, <1>4, <1>6, <2>1, <3>1, <3>2, EntryNames
  <2>2. CASE ~(k = "proctitle" /\ StageOf(w) = "path")
    <3>1. recent' = recent /\ late \subseteq late'
      BY <1>8, <2>2
    <3>2. ASSUME NEW v \in Writer, DueToBeNamed(v)' PROVE DueToBeNamed(v)
      <4>1. HasFinished(v) /\ v \notin missed /\ ~Unread(v)' /\ ~Old(v)
        BY <1>1, <3>2 DEF DueToBeNamed, HasFinished, Old
      <4>2. v # w
        <5>. SUFFICES ASSUME v = w PROVE FALSE
          OBVIOUS
        <5>1. StageOf(w)' = "none"
          BY <4>1 DEF Unread, StageOf, NoPart
        <5>2. k = "path" \/ k = "proctitle"
          BY <1>4, <1>5, <1>14, <4>1, <5>1 DEF RecordKinds
        <5>. QED  BY <1>5, <1>10, <2>2, <4>1, <5>1, <5>2
      <4>3. ~Unread(v)
        <5>1. ~IsLogged(v)' /\ partial'[v] = NoPart
          BY <4>1 DEF Unread, IsLogged
        <5>. QED  BY <1>7, <1>10, <4>2, <5>1 DEF Unread, IsLogged
      <4>. QED  BY <4>1, <4>3 DEF DueToBeNamed
    <3>3. finished # <<>> => finished[Len(finished)] \in Writer
      <4>1. finished # <<>> => Len(finished) \in DOMAIN finished
        BY <1>0, ActorsFacts
      <4>. QED  BY <1>0, <4>1, ActorsFacts
    <3>4. \A x \in recent' : /\ wroteAt'[x[1]] # -1 /\ wroteAt'[x[1]] <= x[2] /\ x[2] <= second'
                             /\ x[1] \in late' \/ x[2] = wroteAt'[x[1]]
      BY <1>0, <1>1, <3>1 DEF WriterNamed
    <3>5. \A x \in recent', v \in Writer : DueToBeNamed(v)' => ~Later(v, x[1])'
      BY <1>0, <1>1, <3>1, <3>2 DEF WriterNamed, Later
    <3>6. finished' # <<>> /\ DueToBeNamed(finished[Len(finished)])' => \E x \in recent' : x[1] = finished'[Len(finished')]
      BY <1>0, <1>1, <3>1, <3>2, <3>3 DEF WriterNamed
    <3>. QED  BY <3>4, <3>5, <3>6 DEF WriterNamed
  <2>. QED  BY <2>1, <2>2
<1>. QED  BY <1>11, <1>16, <1>17, <1>18, <1>19 DEF ActorsInv

LEMMA ActorsStep == ActorsInv /\ ActorsNext => ActorsInv'
BY SecondKeeps, EntryKeeps, WritesKeeps, SweepsKeeps, LogsKeeps, ReadsKeeps DEF ActorsNext

LEMMA ActorsRests == ActorsInv /\ UNCHANGED actorVars => ActorsInv'
<1>. SUFFICES ASSUME ActorsInv, UNCHANGED actorVars PROVE ActorsInv'
  OBVIOUS
<1>1. ActorsTypeOK /\ ActorsTypeOK'
  BY DEF ActorsInv, ActorsTypeOK, actorVars
<1>20. /\ \A u, K : /\ (IsLogged(u)' <=> IsLogged(u)) /\ (HasFinished(u)' <=> HasFinished(u)) /\ StageOf(u)' = StageOf(u)
                     /\ (BeginsWith(u, K)' <=> BeginsWith(u, K)) /\ (HasRecord(u, K)' <=> HasRecord(u, K))
  BY DEF actorVars, BeginsWith, IsLogged, HasRecord, HasFinished, StageOf
<1>21. UNCHANGED <<second, wroteAt, pending, auditLog, partial, missed>>
  BY DEF actorVars
<1>22. ASSUME NEW u \in Writer PROVE RecordsToCome(u)'
  <2>1. RecordsToCome(u)
    BY DEF ActorsInv
  <2>. QED  BY <1>20, <1>21, <2>1 DEF RecordsToCome
<1>23. ASSUME NEW i \in DOMAIN auditLog' PROVE RecordLogged(i)'
  <2>1. RecordLogged(i)
    BY <1>21 DEF ActorsInv
  <2>. QED  BY <1>20, <1>21, <2>1 DEF RecordLogged
<1>2. (\A u \in Writer : RecordsToCome(u)') /\ (\A i \in DOMAIN auditLog' : RecordLogged(i)')
  BY <1>22, <1>23
<1>3. FinishedInOrder'
  BY DEF ActorsInv, actorVars, FinishedInOrder, Later, IsLogged, LoggedBehind
<1>4. WriterNamed'
  <2>1. \A v, u : (Later(v, u)' <=> Later(v, u)) /\ (DueToBeNamed(v)' <=> DueToBeNamed(v))
    BY DEF actorVars, Later, DueToBeNamed, HasFinished, Unread, Old
  <2>2. WriterNamed /\ UNCHANGED <<recent, wroteAt, second, late, finished>>
    BY DEF ActorsInv, actorVars
  <2>3. \A x \in recent' : /\ wroteAt'[x[1]] # -1 /\ wroteAt'[x[1]] <= x[2] /\ x[2] <= second'
                           /\ x[1] \in late' \/ x[2] = wroteAt'[x[1]]
    BY <2>2 DEF WriterNamed
  <2>4. \A x \in recent', v \in Writer : DueToBeNamed(v)' => ~Later(v, x[1])'
    BY <2>1, <2>2 DEF WriterNamed
  <2>5. finished' # <<>> /\ DueToBeNamed(finished[Len(finished)])' => \E x \in recent' : x[1] = finished'[Len(finished')]
    BY <2>1, <2>2 DEF WriterNamed
  <2>. QED  BY <2>3, <2>4, <2>5 DEF WriterNamed
<1>. QED  BY <1>1, <1>2, <1>3, <1>4 DEF ActorsInv

LEMMA ActorsInvariant == ActorsSpec => []ActorsInv
<1>1. ActorsInv /\ [ActorsNext]_actorVars => ActorsInv'
  BY ActorsStep, ActorsRests
<1>. QED  BY <1>1, ActorsStarts, PTL DEF ActorsSpec

LEMMA ActorsCovers == ActorsInv => ActorsNamed
<1>. SUFFICES ASSUME ActorsInv PROVE ActorsNamed
  OBVIOUS
<1>0. ActorsTypeOK /\ WriterNamed /\ \A u \in Writer : RecordsToCome(u)
  BY DEF ActorsInv
<1>1. /\ second \in Nat /\ FreshFor \in Int /\ (\A u \in Writer : wroteAt[u] \in Int)
      /\ \A x \in recent : x[1] \in Writer /\ x[2] \in Nat
  BY <1>0, ActorsFacts
<1>2. ASSUME NEW w \in LookupNames \ late PROVE ~Old(w)
  <2>1. PICK x \in recent : FreshWriter(x) /\ x[1] = w
    BY <1>2 DEF LookupNames
  <2>2. x[2] = wroteAt[w]
    BY <1>0, <1>2, <2>1 DEF WriterNamed
  <2>. QED  BY <1>1, <2>1, <2>2 DEF FreshWriter, Old
<1>3. ASSUME NEW w \in LookupNames, NEW v \in Writer \ missed, Later(v, w) PROVE Unread(v) \/ Old(v)
  <2>1. PICK x \in recent : x[1] = w
    BY <1>3 DEF LookupNames
  <2>2. HasFinished(v)
    BY <1>3 DEF HasFinished, Later
  <2>. QED  BY <1>0, <1>3, <2>1, <2>2 DEF WriterNamed, DueToBeNamed
<1>4. ASSUME LookupNames = {}, finished # <<>>, NEW z, z = finished[Len(finished)]
      PROVE  z \in missed \/ Unread(z) \/ Old(z)
  <2>. SUFFICES ASSUME z \notin missed, ~Unread(z), ~Old(z) PROVE FALSE
    OBVIOUS
  <2>1. Len(finished) \in DOMAIN finished /\ z \in Writer
    <3>1. Len(finished) \in DOMAIN finished
      BY <1>0, <1>4, ActorsFacts
    <3>. QED  BY <1>0, <1>4, <3>1, ActorsFacts
  <2>2. DueToBeNamed(z)
    BY <1>4, <2>1 DEF DueToBeNamed, HasFinished
  <2>3. PICK x \in recent : x[1] = z
    BY <1>0, <1>4, <2>2 DEF WriterNamed
  <2>4. wroteAt[z] <= x[2]
    BY <1>0, <2>3 DEF WriterNamed
  <2>5. FreshWriter(x)
    BY <1>1, <2>1, <2>3, <2>4 DEF FreshWriter, Old
  <2>. QED  BY <1>4, <2>3, <2>5 DEF LookupNames
<1>. QED  BY <1>2, <1>3, <1>4 DEF ActorsNamed

(* Lookup names who wrote lately, never an earlier writer than one that    *)
(* was read, and nobody only if the last writer was missed, is unread or   *)
(* old (AuditReaderThread.lookup).                                         *)
THEOREM ActorsHold == ActorsSpec => []ActorsNamed
BY ActorsInvariant, ActorsCovers, PTL

-----------------------------------------------------------------------------
(* RdsTrace.                                                               *)

(* A table: entries with distinct keys, in any order that has a first half. *)
Entries(tab) == {tab[i] : i \in DOMAIN tab}
Distinct(tab) == \A i, j \in DOMAIN tab : tab[i].key = tab[j].key => i = j
Table(tab, K, V) == tab \in Seq([key : K, val : V]) /\ Distinct(tab) /\ Len(tab) <= CacheMax

LEMMA SeqElements ==
    ASSUME NEW S, NEW s \in Seq(S)
    PROVE  \A i \in DOMAIN s : s[i] \in S
OBVIOUS

LEMMA HalfOfMax == CacheMax \in Nat /\ CacheMax \div 2 \in 1..(CacheMax - 1)
BY TraceAssumption

LEMMA DroppedFacts ==
    ASSUME NEW tab, Len(tab) \in Nat, Len(tab) <= CacheMax
    PROVE  /\ Dropped(tab) \in Nat /\ Dropped(tab) <= Len(tab)
           /\ Len(tab) - Dropped(tab) < CacheMax
BY HalfOfMax DEF Dropped

LEMMA GetsEntry ==
    ASSUME NEW tab, Distinct(tab), NEW x \in Entries(tab)
    PROVE  Get(tab, x.key) = x.val
<1>1. \A y \in Entries(tab) : y.key = x.key => y = x
  BY DEF Distinct, Entries
<1>2. (CHOOSE y \in Entries(tab) : y.key = x.key) = x
  BY <1>1
<1>. QED  BY <1>2 DEF Get, Entries

LEMMA KeyHasEntry ==
    ASSUME NEW tab, NEW k
    PROVE  k \in Keys(tab) <=> \E x \in Entries(tab) : x.key = k
BY DEF Keys, Entries

LEMMA KeptTable ==
    ASSUME NEW K, NEW V, NEW tab, Table(tab, K, V)
    PROVE  /\ Table(Kept(tab), K, V) /\ Len(Kept(tab)) < CacheMax
           /\ Entries(Kept(tab)) = {x \in Entries(tab) : x.key \notin Evicted(tab)}
<1>. DEFINE d == Dropped(tab)
            kept == Kept(tab)
<1>1. /\ tab \in Seq([key : K, val : V]) /\ Len(tab) \in Nat /\ DOMAIN tab = 1..Len(tab)
      /\ Distinct(tab) /\ Len(tab) <= CacheMax
  BY DEF Table
<1>2. d \in Nat /\ d <= Len(tab) /\ Len(tab) - d < CacheMax
  BY <1>1, DroppedFacts
<1>3. kept = [i \in 1..(Len(tab) - d) |-> tab[i + d]]
  BY DEF Kept
<1>. HIDE DEF d, kept
<1>4. \A i \in 1..(Len(tab) - d) : i + d \in DOMAIN tab
  BY <1>1, <1>2
<1>5. \A i \in 1..(Len(tab) - d) : tab[i + d] \in [key : K, val : V]
  <2>1. \A j \in DOMAIN tab : tab[j] \in [key : K, val : V]
    BY <1>1, SeqElements
  <2>. QED  BY <1>4, <2>1
<1>6. kept \in Seq([key : K, val : V]) /\ Len(kept) = Len(tab) - d /\ DOMAIN kept = 1..(Len(tab) - d)
  BY <1>2, <1>3, <1>5
<1>7. Distinct(kept)
  BY <1>1, <1>2, <1>3, <1>4, <1>6 DEF Distinct
<1>8. Evicted(tab) = {tab[i].key : i \in 1..d}
  BY DEF Evicted, d
<1>9. ASSUME NEW x \in Entries(kept) PROVE x \in Entries(tab) /\ x.key \notin Evicted(tab)
  <2>1. PICK i \in 1..(Len(tab) - d) : x = tab[i + d]
    BY <1>3, <1>6 DEF Entries
  <2>2. i + d \in DOMAIN tab /\ \A j \in 1..d : j \in DOMAIN tab /\ j # i + d
    BY <1>1, <1>2, <1>4
  <2>. QED  BY <1>1, <1>8, <2>1, <2>2 DEF Entries, Distinct
<1>10. ASSUME NEW x \in Entries(tab), x.key \notin Evicted(tab) PROVE x \in Entries(kept)
  <2>1. PICK i \in DOMAIN tab : x = tab[i]
    BY DEF Entries
  <2>2. i \notin 1..d
    BY <1>8, <1>10, <2>1
  <2>3. i - d \in 1..(Len(tab) - d) /\ (i - d) + d = i
    BY <1>1, <1>2, <2>2
  <2>4. kept[i - d] = x
    BY <1>3, <2>1, <2>3
  <2>. QED  BY <1>6, <2>3, <2>4 DEF Entries
<1>11. Entries(kept) = {x \in Entries(tab) : x.key \notin Evicted(tab)}
  BY <1>9, <1>10
<1>. QED  BY <1>2, <1>6, <1>7, <1>11, TraceAssumption DEF Table, kept

LEMMA PutTable ==
    ASSUME NEW K, NEW V, NEW tab, Table(tab, K, V), NEW k \in K, NEW v \in V
    PROVE  /\ Table(Put(tab, k, v), K, V)
           /\ Entries(Put(tab, k, v)) =
                 {x \in Entries(tab) : x.key \notin Evicted(tab) /\ x.key # k} \cup {[key |-> k, val |-> v]}
<1>. DEFINE kept == Kept(tab)
            new == [key |-> k, val |-> v]
            put == Put(tab, k, v)
<1>1. /\ Table(kept, K, V) /\ Len(kept) < CacheMax
      /\ Entries(kept) = {x \in Entries(tab) : x.key \notin Evicted(tab)}
  BY KeptTable
<1>2. put = IF k \in Keys(kept) THEN [i \in DOMAIN kept |-> IF kept[i].key = k THEN new ELSE kept[i]]
            ELSE Append(kept, new)
  BY DEF Put
<1>3. new \in [key : K, val : V] /\ new.key = k
  OBVIOUS
<1>. HIDE DEF kept, new, put
<1>4. kept \in Seq([key : K, val : V]) /\ Distinct(kept) /\ Len(kept) \in Nat /\ DOMAIN kept = 1..Len(kept)
      /\ \A i \in DOMAIN kept : kept[i] \in [key : K, val : V]
  <2>1. kept \in Seq([key : K, val : V]) /\ Distinct(kept)
    BY <1>1 DEF Table
  <2>2. Len(kept) \in Nat /\ DOMAIN kept = 1..Len(kept)
    BY <2>1
  <2>3. \A i \in DOMAIN kept : kept[i] \in [key : K, val : V]
    BY <2>1, SeqElements
  <2>. QED  BY <2>1, <2>2, <2>3
<1>5. CASE k \in Keys(kept)
  <2>1. put = [i \in DOMAIN kept |-> IF kept[i].key = k THEN new ELSE kept[i]]
    BY <1>2, <1>5
  <2>2. DOMAIN put = DOMAIN kept /\ \A i \in DOMAIN kept : put[i].key = kept[i].key /\ put[i] \in [key : K, val : V]
    BY <1>3, <1>4, <2>1
  <2>3. put \in Seq([key : K, val : V]) /\ Len(put) = Len(kept)
    BY <1>4, <2>1, <2>2
  <2>4. Table(put, K, V)
    BY <1>1, <1>4, <2>2, <2>3, TraceAssumption DEF Table, Distinct
  <2>5. PICK at \in DOMAIN kept : kept[at].key = k
    BY <1>5 DEF Keys
  <2>6. put[at] = new
    BY <2>1, <2>5
  <2>7. ASSUME NEW x \in Entries(put) PROVE x = new \/ (x \in Entries(kept) /\ x.key # k)
    BY <2>1, <2>2 DEF Entries
  <2>8. ASSUME NEW x \in Entries(kept), x.key # k PROVE x \in Entries(put)
    BY <2>1, <2>2, <2>8 DEF Entries
  <2>9. new \in Entries(put)
    BY <2>2, <2>5, <2>6 DEF Entries
  <2>10. Entries(put) = {x \in Entries(kept) : x.key # k} \cup {new}
    BY <2>7, <2>8, <2>9
  <2>. QED  BY <1>1, <2>4, <2>10 DEF put, new
<1>6. CASE k \notin Keys(kept)
  <2>1. put = Append(kept, new)
    BY <1>2, <1>6
  <2>2. /\ put \in Seq([key : K, val : V]) /\ Len(put) = Len(kept) + 1 /\ DOMAIN put = 1..(Len(kept) + 1)
        /\ put[Len(kept) + 1] = new /\ \A i \in DOMAIN kept : put[i] = kept[i]
    BY <1>3, <1>4, <2>1
  <2>3. \A i \in DOMAIN kept : kept[i].key # k
    BY <1>6 DEF Keys
  <2>4. \A i \in DOMAIN put : i \in DOMAIN kept \/ i = Len(kept) + 1
    BY <1>4, <2>2
  <2>5. Distinct(put)
    BY <1>3, <1>4, <2>2, <2>3, <2>4 DEF Distinct
  <2>6. Table(put, K, V)
    BY <1>1, <1>4, <2>2, <2>5, TraceAssumption DEF Table
  <2>7. Len(kept) + 1 \in DOMAIN put /\ \A i \in DOMAIN kept : i \in DOMAIN put
    BY <1>4, <2>2
  <2>8. Entries(put) = Entries(kept) \cup {new}
    BY <2>2, <2>4, <2>7 DEF Entries
  <2>9. \A x \in Entries(kept) : x.key # k
    BY <2>3 DEF Entries
  <2>. QED  BY <1>1, <2>6, <2>8, <2>9 DEF put, new
<1>. QED  BY <1>5, <1>6

LEMMA PopTable ==
    ASSUME NEW K, NEW V, NEW tab, Table(tab, K, V), NEW k
    PROVE  Table(Pop(tab, k), K, V) /\ Entries(Pop(tab, k)) \subseteq Entries(tab)
<1>1. /\ tab \in Seq([key : K, val : V]) /\ Len(tab) \in Nat /\ DOMAIN tab = 1..Len(tab)
      /\ Distinct(tab) /\ Len(tab) <= CacheMax
  BY DEF Table
<1>2. CASE k \notin Keys(tab)
  BY <1>2 DEF Pop
<1>3. CASE k \in Keys(tab)
  <2>1. PICK at \in DOMAIN tab :
           Pop(tab, k) = [i \in 1..(Len(tab) - 1) |-> IF i < at THEN tab[i] ELSE tab[i + 1]]
    BY <1>3 DEF Pop, Keys
  <2>. DEFINE less == Pop(tab, k)
  <2>. HIDE DEF less
  <2>2. less = [i \in 1..(Len(tab) - 1) |-> IF i < at THEN tab[i] ELSE tab[i + 1]] /\ at \in 1..Len(tab)
    BY <1>1, <2>1 DEF less
  <2>3. Len(tab) - 1 \in Nat /\ \A i \in 1..(Len(tab) - 1) : i \in DOMAIN tab /\ i + 1 \in DOMAIN tab
    BY <1>1, <2>2
  <2>4. \A i \in 1..(Len(tab) - 1) : less[i] \in [key : K, val : V]
    <3>1. \A j \in DOMAIN tab : tab[j] \in [key : K, val : V]
      BY <1>1, SeqElements
    <3>2. \A i \in 1..(Len(tab) - 1) : less[i] = tab[i] \/ less[i] = tab[i + 1]
      BY <2>2
    <3>. QED  BY <2>3, <3>1, <3>2
  <2>5. less \in Seq([key : K, val : V]) /\ DOMAIN less = 1..(Len(tab) - 1) /\ Len(less) = Len(tab) - 1
    BY <2>2, <2>3, <2>4
  <2>6. ASSUME NEW i \in DOMAIN less, NEW j \in DOMAIN less, less[i].key = less[j].key PROVE i = j
    <3>1. PICK a \in DOMAIN tab : less[i] = tab[a] /\ a = IF i < at THEN i ELSE i + 1
      BY <2>2, <2>3, <2>5
    <3>2. PICK b \in DOMAIN tab : less[j] = tab[b] /\ b = IF j < at THEN j ELSE j + 1
      BY <2>2, <2>3, <2>5
    <3>3. a = b
      BY <1>1, <2>6, <3>1, <3>2 DEF Distinct
    <3>4. i \in Nat /\ j \in Nat /\ at \in Nat
      BY <2>2, <2>5
    <3>. QED  BY <3>1, <3>2, <3>3, <3>4
  <2>7. Table(less, K, V)
    BY <1>1, <2>5, <2>6, TraceAssumption DEF Table, Distinct
  <2>8. Entries(less) \subseteq Entries(tab)
    BY <2>2, <2>3, <2>5 DEF Entries
  <2>. QED  BY <2>7, <2>8 DEF less
<1>. QED  BY <1>2, <1>3

LEMMA TableKeys ==
    ASSUME NEW K, NEW V, NEW tab, Table(tab, K, V)
    PROVE  Cardinality(Keys(tab)) = Len(tab)
<1>. DEFINE keyAt == [i \in 1..Len(tab) |-> tab[i].key]
<1>1. Len(tab) \in Nat /\ DOMAIN tab = 1..Len(tab) /\ Distinct(tab)
  BY DEF Table
<1>2. Keys(tab) = {keyAt[i] : i \in 1..Len(tab)}
  BY <1>1 DEF Keys
<1>3. \A i, j \in 1..Len(tab) : keyAt[i] = keyAt[j] => i = j
  BY <1>1 DEF Distinct
<1>. HIDE DEF keyAt
<1>4. keyAt \in [1..Len(tab) -> Keys(tab)]
  BY <1>2 DEF keyAt
<1>5. keyAt \in Bijection(1..Len(tab), Keys(tab))
  BY <1>2, <1>3, <1>4 DEF Bijection, Injection, Surjection, IsInjective
<1>. QED  BY <1>1, <1>5, FS_CountingElements DEF ExistsBijection

LEMMA EmptyTable ==
    ASSUME NEW K, NEW V
    PROVE  Table(<<>>, K, V) /\ Entries(<<>>) = {}
BY HalfOfMax DEF Table, Distinct, Entries

-----------------------------------------------------------------------------
(* What a table says of a connection is what the proxy did, and a port is  *)
(* bound to the connection read last or to none.                           *)
TablesTrue ==
    /\ Table(conns, Client, Client) /\ Table(pinnedTo, Backend, Client) /\ Table(toPort, Backend, Port)
    /\ \A x \in Entries(pinnedTo) : pinOf[x.val] = x.key
    /\ \A x \in Entries(toPort) : portOf[x.key] = x.val

BoundAsRead ==
    \A p \in Port : toDb[p] # Nobody =>
        toDb[p] = lastRead[p] /\ [key |-> toDb[p], val |-> p] \in Entries(toPort)

TracedRight ==
    \A t \in traced :
        LET d == pinOf[t[2]] IN d # Nobody /\ portOf[d] = portOf[t[1]] /\ (t[3] => d = t[1])

TraceInv == TraceTypeOK /\ lines \subseteq Logged(Client) /\ TablesTrue /\ BoundAsRead /\ TracedRight

LEMMA TraceTypes ==
    ASSUME NEW K, NEW V, NEW tab, Table(tab, K, V)
    PROVE  \A i \in DOMAIN tab : tab[i] \in [key : K, val : V] /\ tab[i].key \in K
<1>1. \A i \in DOMAIN tab : tab[i] \in [key : K, val : V]
  BY SeqElements DEF Table
<1>. QED  BY <1>1

LEMMA LoggedLines ==
    ASSUME portOf \in [Backend -> Port], pinOf \in [Client -> Backend \cup {Nobody}],
           NEW gone \in SUBSET Client, NEW l \in Logged(gone)
    PROVE  /\ l \in Logged(Client) /\ l \in Line
           /\ l.kind \in {"opened", "closed"} => l.who \in Client
           /\ l.kind = "pinned" => l.who \in Client /\ l.db \in Backend /\ pinOf[l.who] = l.db
           /\ l.kind \in {"established", "session"} => l.db \in Backend /\ l.port \in Port /\ portOf[l.db] = l.port
<1>1. CASE l \in [kind : {"opened"}, who : Client] \cup [kind : {"closed"}, who : gone]
  <2>1. l \in [kind : {"opened"}, who : Client] \cup [kind : {"closed"}, who : Client]
    BY <1>1
  <2>. QED  BY <2>1 DEF Logged, Line
<1>2. ASSUME NEW c \in Client, pinOf[c] # Nobody, l = [kind |-> "pinned", who |-> c, db |-> pinOf[c]]
      PROVE  /\ l \in Logged(Client) /\ l \in Line /\ l.kind = "pinned"
             /\ l.who \in Client /\ l.db \in Backend /\ pinOf[l.who] = l.db
  BY <1>2 DEF Logged, Line
<1>3. ASSUME NEW k \in {"established", "session"}, NEW d \in Backend, l = [kind |-> k, db |-> d, port |-> portOf[d]]
      PROVE  /\ l \in Logged(Client) /\ l \in Line /\ l.kind \in {"established", "session"}
             /\ l.db \in Backend /\ l.port \in Port /\ portOf[l.db] = l.port
  BY <1>3 DEF Logged, Line
<1>. QED  BY <1>1, <1>2, <1>3 DEF Logged

LEMMA TraceStarts == TraceInit => TraceInv
<1>. SUFFICES ASSUME TraceInit PROVE TraceInv
  OBVIOUS
<1>1. PICK gone \in SUBSET Client : lines = Logged(gone)
  BY DEF TraceInit
<1>2. lines \subseteq Logged(Client) /\ lines \subseteq Line
  BY <1>1, LoggedLines DEF TraceInit
<1>3. TablesTrue
  BY EmptyTable DEF TraceInit, TablesTrue
<1>4. BoundAsRead /\ TracedRight
  BY DEF TraceInit, BoundAsRead, TracedRight
<1>5. TraceTypeOK
  BY <1>2, TraceAssumption DEF TraceInit, TraceTypeOK
<1>. QED  BY <1>2, <1>3, <1>4, <1>5 DEF TraceInv

LEMMA TakenFacts ==
    ASSUME TraceInv, NEW l \in lines, Taken(l)
    PROVE  /\ UNCHANGED <<portOf, pinOf>> /\ again' \in 0..MaxAgain
           /\ lines' \subseteq Logged(Client)' /\ lines' \subseteq Line
           /\ l.kind \in {"opened", "closed"} => l.who \in Client
           /\ l.kind = "pinned" => l.who \in Client /\ l.db \in Backend /\ pinOf[l.who] = l.db
           /\ l.kind \in {"established", "session"} => l.db \in Backend /\ l.port \in Port /\ portOf[l.db] = l.port
<1>1. UNCHANGED <<portOf, pinOf>> /\ lines' \subseteq lines
  BY DEF Taken
<1>2. again' \in 0..MaxAgain
  BY TraceAssumption DEF Taken, TraceInv, TraceTypeOK
<1>3. Logged(Client)' = Logged(Client)
  BY <1>1 DEF Logged
<1>. QED  BY <1>1, <1>2, <1>3, LoggedLines DEF TraceInv, TraceTypeOK

LEMMA TraceStep == TraceInv /\ TraceNext => TraceInv'
<1>. SUFFICES ASSUME TraceInv, TraceNext PROVE TraceInv'
  OBVIOUS
<1>0. /\ TraceTypeOK /\ lines \subseteq Logged(Client) /\ TablesTrue /\ BoundAsRead /\ TracedRight
      /\ portOf \in [Backend -> Port] /\ pinOf \in [Client -> Backend \cup {Nobody}]
      /\ toDb \in [Port -> Backend \cup {Nobody}] /\ lastRead \in [Port -> Backend \cup {Nobody}]
      /\ Table(conns, Client, Client) /\ Table(pinnedTo, Backend, Client) /\ Table(toPort, Backend, Port)
      /\ traced \subseteq Backend \X Client \X BOOLEAN
  BY DEF TraceInv, TraceTypeOK, TablesTrue
<1>1. ASSUME NEW l \in lines, ReadsOpened(l) \/ ReadsClosed(l) PROVE TraceInv'
  <2>1. /\ UNCHANGED <<portOf, pinOf>> /\ again' \in 0..MaxAgain /\ l.who \in Client
        /\ lines' \subseteq Logged(Client)' /\ lines' \subseteq Line
    BY <1>1, TakenFacts DEF ReadsOpened, ReadsClosed
  <2>2. UNCHANGED <<pinnedTo, toPort, toDb, lastRead, traced>>
    BY <1>1 DEF ReadsOpened, ReadsClosed
  <2>3. Table(conns', Client, Client)
    BY <1>0, <1>1, <2>1, PutTable, PopTable DEF ReadsOpened, ReadsClosed
  <2>4. TablesTrue'
    BY <1>0, <2>1, <2>2, <2>3 DEF TablesTrue
  <2>5. BoundAsRead' /\ TracedRight'
    BY <1>0, <2>1, <2>2 DEF BoundAsRead, TracedRight
  <2>6. TraceTypeOK'
    BY <1>0, <2>1, <2>2, <2>3, TraceTypes DEF TraceTypeOK
  <2>. QED  BY <2>1, <2>4, <2>5, <2>6 DEF TraceInv
<1>2. ASSUME NEW l \in lines, ReadsPinned(l) PROVE TraceInv'
  <2>1. /\ UNCHANGED <<portOf, pinOf>> /\ again' \in 0..MaxAgain
        /\ l.who \in Client /\ l.db \in Backend /\ pinOf[l.who] = l.db
        /\ lines' \subseteq Logged(Client)' /\ lines' \subseteq Line
    BY <1>2, TakenFacts DEF ReadsPinned
  <2>2. UNCHANGED <<conns, toPort, toDb, lastRead, traced>> /\ pinnedTo' = Put(pinnedTo, l.db, l.who)
    BY <1>2 DEF ReadsPinned
  <2>3. /\ Table(pinnedTo', Backend, Client)
        /\ Entries(pinnedTo') \subseteq Entries(pinnedTo) \cup {[key |-> l.db, val |-> l.who]}
    BY <1>0, <2>1, <2>2, PutTable
  <2>4. TablesTrue'
    BY <1>0, <2>1, <2>2, <2>3 DEF TablesTrue
  <2>5. BoundAsRead' /\ TracedRight'
    BY <1>0, <2>1, <2>2 DEF BoundAsRead, TracedRight
  <2>6. TraceTypeOK'
    BY <1>0, <2>1, <2>2, <2>3, TraceTypes DEF TraceTypeOK
  <2>. QED  BY <2>1, <2>4, <2>5, <2>6 DEF TraceInv
<1>3. ASSUME NEW l \in lines, ReadsEstablished(l) PROVE TraceInv'
  <2>1. /\ UNCHANGED <<portOf, pinOf>> /\ again' \in 0..MaxAgain
        /\ l.db \in Backend /\ l.port \in Port /\ portOf[l.db] = l.port
        /\ lines' \subseteq Logged(Client)' /\ lines' \subseteq Line
    BY <1>3, TakenFacts DEF ReadsEstablished
  <2>2. /\ UNCHANGED <<conns, pinnedTo, traced>> /\ toPort' = Put(toPort, l.db, l.port)
        /\ toDb' = [p \in Port |-> IF p = l.port THEN l.db ELSE Unbound(p)]
        /\ lastRead' = [lastRead EXCEPT ![l.port] = l.db]
    BY <1>3 DEF ReadsEstablished
  <2>. DEFINE new == [key |-> l.db, val |-> l.port]
  <2>3. /\ Table(toPort', Backend, Port)
        /\ Entries(toPort') = {x \in Entries(toPort) : x.key \notin Evicted(toPort) /\ x.key # l.db} \cup {new}
    BY <1>0, <2>1, <2>2, PutTable
  <2>4. TablesTrue'
    BY <1>0, <2>1, <2>2, <2>3 DEF TablesTrue
  <2>5. ASSUME NEW p \in Port, toDb'[p] # Nobody
        PROVE  toDb'[p] = lastRead'[p] /\ [key |-> toDb'[p], val |-> p] \in Entries(toPort')
    <3>1. CASE p = l.port
      BY <1>0, <2>1, <2>2, <2>3, <3>1
    <3>2. CASE p # l.port
      <4>1. toDb'[p] = Unbound(p) /\ lastRead'[p] = lastRead[p]
        BY <1>0, <2>2, <3>2
      <4>2. toDb'[p] = toDb[p] /\ \A d \in Evicted(toPort) : Get(toPort, d) # p
        BY <2>5, <4>1 DEF Unbound
      <4>. DEFINE e == [key |-> toDb[p], val |-> p]
      <4>3. toDb[p] = lastRead[p] /\ e \in Entries(toPort)
        BY <1>0, <2>5, <4>2 DEF BoundAsRead
      <4>4. e.key = toDb[p] /\ e.val = p
        OBVIOUS
      <4>. HIDE DEF e
      <4>5. Get(toPort, toDb[p]) = p
        BY <1>0, <4>3, <4>4, GetsEntry DEF Table
      <4>6. e.key \notin Evicted(toPort)
        BY <4>2, <4>4, <4>5
      <4>7. portOf[toDb[p]] = p
        BY <1>0, <4>3, <4>4 DEF TablesTrue
      <4>8. e.key # l.db
        BY <2>1, <3>2, <4>4, <4>7
      <4>9. e \in Entries(toPort')
        BY <2>3, <4>3, <4>6, <4>8
      <4>. QED  BY <4>1, <4>2, <4>3, <4>9 DEF e
    <3>. QED  BY <3>1, <3>2
  <2>6. BoundAsRead'
    BY <2>5 DEF BoundAsRead
  <2>7. TracedRight'
    BY <1>0, <2>1, <2>2 DEF TracedRight
  <2>8. toDb' \in [Port -> Backend \cup {Nobody}] /\ lastRead' \in [Port -> Backend \cup {Nobody}]
    BY <1>0, <2>1, <2>2 DEF Unbound
  <2>9. TraceTypeOK'
    BY <1>0, <2>1, <2>2, <2>3, <2>8, TraceTypes DEF TraceTypeOK
  <2>. QED  BY <2>1, <2>4, <2>6, <2>7, <2>9 DEF TraceInv
<1>4. ASSUME NEW l \in lines, ReadsSession(l) PROVE TraceInv'
  <2>1. /\ UNCHANGED <<portOf, pinOf>> /\ again' \in 0..MaxAgain
        /\ l.db \in Backend /\ l.port \in Port /\ portOf[l.db] = l.port
        /\ lines' \subseteq Logged(Client)' /\ lines' \subseteq Line
    BY <1>4, TakenFacts DEF ReadsSession
  <2>2. /\ UNCHANGED <<conns, pinnedTo, toPort, toDb, lastRead>>
        /\ traced' = traced \cup {<<l.db, c, lastRead[l.port] = l.db>> : c \in Lookup(l.port)}
    BY <1>4 DEF ReadsSession
  <2>3. ASSUME NEW c \in Lookup(l.port)
        PROVE  c \in Client /\ pinOf[c] \in Backend /\ pinOf[c] = lastRead[l.port] /\ portOf[pinOf[c]] = l.port
    <3>1. /\ toDb[l.port] # Nobody /\ toDb[l.port] \in Keys(pinnedTo) /\ c = Get(pinnedTo, toDb[l.port])
      BY <2>3 DEF Lookup
    <3>2. PICK x \in Entries(pinnedTo) : x.key = toDb[l.port]
      BY <3>1, KeyHasEntry
    <3>3. c = x.val
      BY <1>0, <3>1, <3>2, GetsEntry DEF Table
    <3>4. x.key \in Backend /\ x.val \in Client
      <4>1. \A i \in DOMAIN pinnedTo : pinnedTo[i] \in [key : Backend, val : Client]
        BY <1>0, TraceTypes
      <4>2. x \in [key : Backend, val : Client]
        BY <4>1 DEF Entries
      <4>. QED  BY <4>2
    <3>5. pinOf[c] = toDb[l.port]
      BY <1>0, <3>2, <3>3 DEF TablesTrue
    <3>. DEFINE e == [key |-> toDb[l.port], val |-> l.port]
    <3>6. toDb[l.port] = lastRead[l.port] /\ e \in Entries(toPort)
      BY <1>0, <2>1, <3>1 DEF BoundAsRead
    <3>7. portOf[e.key] = e.val
      BY <1>0, <3>6 DEF TablesTrue
    <3>. QED  BY <3>2, <3>3, <3>4, <3>5, <3>6, <3>7
  <2>4. TablesTrue'
    BY <1>0, <2>1, <2>2 DEF TablesTrue
  <2>5. BoundAsRead'
    BY <1>0, <2>2 DEF BoundAsRead
  <2>6. TracedRight'
    <3>1. \A c \in Lookup(l.port) : pinOf[c] # Nobody /\ portOf[pinOf[c]] = portOf[l.db]
      BY <2>1, <2>3, TraceAssumption DEF Nobody
    <3>2. ASSUME NEW t \in traced' \ traced
          PROVE  pinOf[t[2]] # Nobody /\ portOf[pinOf[t[2]]] = portOf[t[1]] /\ (t[3] => pinOf[t[2]] = t[1])
      <4>1. PICK c \in Lookup(l.port) : t = <<l.db, c, lastRead[l.port] = l.db>>
        BY <2>2, <3>2
      <4>2. t[1] = l.db /\ t[2] = c
        BY <4>1
      <4>3. t[3] = (lastRead[l.port] = l.db)
        BY <4>1
      <4>. QED  BY <2>3, <3>1, <4>2, <4>3
    <3>3. \A t \in traced : pinOf[t[2]] # Nobody /\ portOf[pinOf[t[2]]] = portOf[t[1]] /\ (t[3] => pinOf[t[2]] = t[1])
      BY <1>0 DEF TracedRight
    <3>. QED  BY <2>1, <3>2, <3>3 DEF TracedRight
  <2>7. traced' \subseteq Backend \X Client \X BOOLEAN
    <3>1. \A c \in Client : <<l.db, c, lastRead[l.port] = l.db>> \in Backend \X Client \X BOOLEAN
      BY <2>1
    <3>2. \A c \in Lookup(l.port) : <<l.db, c, lastRead[l.port] = l.db>> \in Backend \X Client \X BOOLEAN
      BY <2>3, <3>1
    <3>. QED  BY <1>0, <2>2, <3>2
  <2>8. TraceTypeOK'
    BY <1>0, <2>1, <2>2, <2>7, TraceTypes DEF TraceTypeOK
  <2>. QED  BY <2>1, <2>4, <2>5, <2>6, <2>8 DEF TraceInv
<1>5. ASSUME TablesLost PROVE TraceInv'
  <2>1. /\ UNCHANGED <<portOf, pinOf, lines, lastRead, traced>>
        /\ conns' = <<>> /\ pinnedTo' = <<>> /\ toPort' = <<>> /\ toDb' = [p \in Port |-> Nobody]
    BY <1>5 DEF TablesLost
  <2>2. again' \in 0..MaxAgain
    BY <1>0, <1>5, TraceAssumption DEF TablesLost, TraceTypeOK
  <2>3. TablesTrue'
    BY <2>1, EmptyTable DEF TablesTrue
  <2>4. BoundAsRead' /\ TracedRight'
    BY <1>0, <2>1 DEF BoundAsRead, TracedRight
  <2>5. TraceTypeOK'
    BY <1>0, <2>1, <2>2 DEF TraceTypeOK
  <2>6. Logged(Client)' = Logged(Client)
    BY <2>1 DEF Logged
  <2>. QED  BY <1>0, <2>1, <2>3, <2>4, <2>5, <2>6 DEF TraceInv
<1>. QED  BY <1>1, <1>2, <1>3, <1>4, <1>5 DEF TraceNext

LEMMA TraceRests == TraceInv /\ UNCHANGED traceVars => TraceInv'
<1>. SUFFICES ASSUME TraceInv, UNCHANGED traceVars PROVE TraceInv'
  OBVIOUS
<1>1. UNCHANGED <<portOf, pinOf, lines, again>> /\ UNCHANGED <<conns, pinnedTo, toPort, toDb, lastRead, traced>>
  BY DEF traceVars
<1>2. TraceTypeOK'
  BY <1>1 DEF TraceInv, TraceTypeOK
<1>3. (lines \subseteq Logged(Client))'
  BY <1>1 DEF TraceInv, Logged
<1>4. TablesTrue' /\ BoundAsRead' /\ TracedRight'
  BY <1>1 DEF TraceInv, TablesTrue, BoundAsRead, TracedRight
<1>. QED  BY <1>2, <1>3, <1>4 DEF TraceInv

LEMMA TraceInvariant == TraceSpec => []TraceInv
<1>1. TraceInv /\ [TraceNext]_traceVars => TraceInv'
  BY TraceStep, TraceRests
<1>. QED  BY <1>1, TraceStarts, PTL DEF TraceSpec

LEMMA TraceCovers == TraceInv => SessionsTraced
<1>. SUFFICES ASSUME TraceInv PROVE SessionsTraced
  OBVIOUS
<1>1. /\ Table(conns, Client, Client) /\ Table(pinnedTo, Backend, Client) /\ Table(toPort, Backend, Port)
  BY DEF TraceInv, TablesTrue
<1>2. \A t \in {conns, pinnedTo, toPort} : Len(t) <= CacheMax /\ Cardinality(Keys(t)) = Len(t)
  <2>1. Len(conns) <= CacheMax /\ Len(pinnedTo) <= CacheMax /\ Len(toPort) <= CacheMax
    BY <1>1 DEF Table
  <2>2. /\ Cardinality(Keys(conns)) = Len(conns) /\ Cardinality(Keys(pinnedTo)) = Len(pinnedTo)
        /\ Cardinality(Keys(toPort)) = Len(toPort)
    BY <1>1, TableKeys
  <2>. QED  BY <2>1, <2>2
<1>3. ASSUME NEW p \in Port, toDb[p] # Nobody PROVE toDb[p] \in Keys(toPort) /\ Get(toPort, toDb[p]) = p
  <2>. DEFINE e == [key |-> toDb[p], val |-> p]
  <2>1. e \in Entries(toPort)
    BY <1>3 DEF TraceInv, BoundAsRead
  <2>2. e.key = toDb[p] /\ e.val = p
    OBVIOUS
  <2>. HIDE DEF e
  <2>. QED  BY <1>1, <2>1, <2>2, KeyHasEntry, GetsEntry DEF Table
<1>4. TracedRight
  BY DEF TraceInv
<1>. QED  BY <1>2, <1>3, <1>4 DEF SessionsTraced, TracedRight

(* A session is traced to no client but one pinned to a connection from    *)
(* the same port, and to the right one if its line was the last read about *)
(* the port; the reverse index holds what the table holds, and no table    *)
(* outgrows its cap (_lookup_real_client_ip, _proxy_port_cache_put).       *)
THEOREM TraceHolds == TraceSpec => []SessionsTraced
BY TraceInvariant, TraceCovers, PTL

-----------------------------------------------------------------------------
(* LiveSettings.                                                           *)

(* What a request goes on with is the row as it is, unless it knows that   *)
(* the row was written since; an override that is set stays set.           *)
HeldAsSaved(r) ==
    /\ serving[r].stage = "halfway" =>
          serving[r].table = "profile" /\ (serving[r].raced \/ serving[r].got = saved["profile"])
    /\ serving[r].stage \in {"viewing", "wrote"} => serving[r].table \in Lists
    /\ serving[r].stage = "holding" =>
          /\ serving[r].table \in Copies
          /\ serving[r].raced \/ serving[r].got = saved[serving[r].table]
          /\ serving[r].table = "enabled" => saved["enabled"].there

(* A copy that is not in force has a request that will renew it.           *)
Renewing(t) == \E r \in Request : serving[r].table = t /\ serving[r].stage \in {"wrote", "holding"}
Renewed(t)  == t \in behind \/ InForce(t) \/ Renewing(t)

RuleAsProfile == saved["rules"].there = saved["profile"].there /\ saved["rules"].on = saved["profile"].on
ProfileCompiled ==
    /\ saved["profile"].on => saved["profile"].there
    /\ subject = "profile" /\ "profile" \notin behind =>
          RuleAsProfile \/ \E r \in Request : serving[r].stage = "halfway"

SettingsInv ==
    /\ SettingsTypeOK /\ ProfileCompiled
    /\ \A r \in Request : HeldAsSaved(r)
    /\ \A t \in Copies : Renewed(t)

LEMMA SettingsTypes ==
    ASSUME SettingsInv
    PROVE  /\ \A t \in Tables : saved[t] \in Setting
           /\ \A t \in Copies : t \in Tables
           /\ \A r \in Request : /\ serving[r].table \in Tables /\ serving[r].got \in Setting
                                 /\ serving[r].raced \in BOOLEAN
           /\ ListOf \in Lists
BY DEF SettingsInv, SettingsTypeOK, Tables, ListOf, Lists

LEMMA RowTypes ==
    ASSUME NEW row \in Setting, NEW on \in BOOLEAN, NEW m \in {"none", "set", "void"}
    PROVE  /\ Absent \in Setting
           /\ Upserted(row, on) \in Setting /\ Upserted(row, on).there /\ Upserted(row, on).on = on
           /\ Toggled(row, on) \in Setting
           /\ Silenced(row, m) \in Setting
BY DEF Setting, Absent, Upserted, Toggled, Silenced

(* What becomes of the requests beside the one that writes.                *)
LEMMA GoesFacts ==
    ASSUME SettingsInv, NEW r \in Request, NEW t \in Tables, NEW stage, NEW row \in Setting,
           stage \in {"idle", "viewing", "halfway", "wrote", "holding"},
           Goes(r, t, stage, row)
    PROVE  /\ serving' \in [Request -> [table : Tables, got : Setting, raced : BOOLEAN,
                               stage : {"idle", "viewing", "halfway", "wrote", "holding"}]]
           /\ serving'[r].table = t /\ serving'[r].stage = stage /\ serving'[r].got = row
           /\ \A q \in Request \ {r} :
                 /\ serving'[q].table = serving[q].table /\ serving'[q].stage = serving[q].stage
                 /\ serving'[q].got = serving[q].got
                 /\ serving[q].raced => serving'[q].raced
                 /\ serving[q].stage \in {"halfway", "holding"} /\ serving[q].table = t => serving'[q].raced
<1>. DEFINE Serving == [table : Tables, got : Setting, raced : BOOLEAN,
                        stage : {"idle", "viewing", "halfway", "wrote", "holding"}]
<1>1. \A q \in Request : serving[q] \in Serving
  BY DEF SettingsInv, SettingsTypeOK
<1>2. \A q \in Request : serving'[q] = IF q = r THEN [table |-> t, stage |-> stage, got |-> row, raced |-> FALSE]
                                       ELSE Overtaken(serving[q], t)
  BY DEF Goes
<1>3. serving'[r] \in Serving /\ serving'[r].table = t /\ serving'[r].stage = stage /\ serving'[r].got = row
  <2>1. serving'[r] = [table |-> t, stage |-> stage, got |-> row, raced |-> FALSE]
    BY <1>2
  <2>. QED  BY <2>1
<1>4. ASSUME NEW q \in Request \ {r}
      PROVE  /\ serving'[q] \in Serving
             /\ serving'[q].table = serving[q].table /\ serving'[q].stage = serving[q].stage
             /\ serving'[q].got = serving[q].got
             /\ serving[q].raced => serving'[q].raced
             /\ serving[q].stage \in {"halfway", "holding"} /\ serving[q].table = t => serving'[q].raced
  <2>1. serving'[q] = [serving[q] EXCEPT !.raced = @ \/ (serving[q].stage \in {"holding", "halfway"} /\ serving[q].table = t)]
    BY <1>2 DEF Overtaken
  <2>2. serving[q] \in Serving
    BY <1>1
  <2>3. /\ serving'[q].table = serving[q].table /\ serving'[q].stage = serving[q].stage
        /\ serving'[q].got = serving[q].got
    BY <2>1, <2>2
  <2>4. serving'[q].raced = (serving[q].raced \/ (serving[q].stage \in {"holding", "halfway"} /\ serving[q].table = t))
    BY <2>1, <2>2
  <2>5. serving'[q] \in Serving
    BY <2>1, <2>2
  <2>. HIDE DEF Serving
  <2>. QED  BY <2>3, <2>4, <2>5
<1>. HIDE DEF Serving
<1>5. serving' = [q \in Request |-> serving'[q]]
  BY DEF Goes
<1>6. \A q \in Request : serving'[q] \in Serving
  BY <1>3, <1>4
<1>7. serving' \in [Request -> Serving]
  BY <1>5, <1>6
<1>. QED  BY <1>3, <1>4, <1>7 DEF Serving

-----------------------------------------------------------------------------
(* A row is written: whoever holds what it was knows of it, and the one    *)
(* that wrote it has still to renew the copy.                              *)
LEMMA RowWritesKeep ==
    ASSUME SettingsInv, NEW r \in Request, NEW t \in Copies, NEW row \in Setting, Writes(r, t, row),
           t = "enabled" => row.there,
           behind \subseteq behind', behind' \subseteq behind \cup {"profile"},
           t = "rules" /\ subject = "profile" => "profile" \in behind'
    PROVE  SettingsInv'
<1>. DEFINE stage == IF t \in Fields THEN "holding" ELSE "wrote"
<1>1. /\ serving[r].stage = "idle" /\ saved' = [saved EXCEPT ![t] = row] /\ Goes(r, t, stage, row)
      /\ UNCHANGED <<subject, yamlOn, live, mishaps>>
  BY DEF Writes
<1>2. stage \in {"holding", "wrote"} /\ (stage = "wrote" => t \in Lists)
  BY DEF Copies
<1>. HIDE DEF stage
<1>3. /\ SettingsTypeOK /\ ProfileCompiled /\ (\A q \in Request : HeldAsSaved(q)) /\ (\A u \in Copies : Renewed(u))
      /\ t \in Tables /\ t # "profile"
  BY DEF SettingsInv, Copies, Tables, Lists, Fields
<1>4. saved' \in [Tables -> Setting] /\ saved'[t] = row /\ \A u \in Tables \ {t} : saved'[u] = saved[u]
  BY <1>1, <1>3 DEF SettingsTypeOK
<1>5. /\ serving' \in [Request -> [table : Tables, got : Setting, raced : BOOLEAN,
                               stage : {"idle", "viewing", "halfway", "wrote", "holding"}]]
      /\ serving'[r].table = t /\ serving'[r].stage = stage /\ serving'[r].got = row
      /\ \A q \in Request \ {r} :
            /\ serving'[q].table = serving[q].table /\ serving'[q].stage = serving[q].stage
            /\ serving'[q].got = serving[q].got
            /\ serving[q].raced => serving'[q].raced
            /\ serving[q].stage \in {"halfway", "holding"} /\ serving[q].table = t => serving'[q].raced
  BY <1>1, <1>2, <1>3, GoesFacts
<1>6. SettingsTypeOK'
  BY <1>1, <1>3, <1>4, <1>5 DEF SettingsTypeOK, Tables
<1>7. ASSUME NEW q \in Request PROVE HeldAsSaved(q)'
  <2>1. CASE q = r
    BY <1>2, <1>4, <1>5, <2>1 DEF HeldAsSaved
  <2>2. CASE q # r
    <3>1. serving[q].table \in Tables
      BY SettingsTypes
    <3>. QED  BY <1>3, <1>4, <1>5, <2>2, <3>1 DEF HeldAsSaved, Tables
  <2>. QED  BY <2>1, <2>2
<1>8. ASSUME NEW u \in Copies PROVE Renewed(u)'
  <2>1. CASE u = t
    BY <1>2, <1>5, <2>1 DEF Renewed, Renewing
  <2>2. CASE u # t
    <3>1. u \in Tables /\ u # t
      BY <2>2 DEF Tables
    <3>2. InForce(u) => InForce(u)'
      BY <1>1, <1>4, <3>1 DEF InForce, ClearedSeverityLags
    <3>3. Renewing(u) => Renewing(u)'
      BY <1>1, <1>5 DEF Renewing
    <3>. QED  BY <1>3, <3>2, <3>3 DEF Renewed
  <2>. QED  BY <2>1, <2>2
<1>9. ProfileCompiled'
  <2>1. saved'["profile"] = saved["profile"]
    BY <1>3, <1>4 DEF Tables
  <2>2. ASSUME subject' = "profile", "profile" \notin behind' PROVE RuleAsProfile' \/ \E q \in Request : serving'[q].stage = "halfway"
    <3>1. subject = "profile" /\ "profile" \notin behind /\ t # "rules"
      BY <1>1, <2>2
    <3>2. saved'["rules"] = saved["rules"]
      BY <1>4, <3>1 DEF Tables, Copies, Lists
    <3>3. RuleAsProfile => RuleAsProfile'
      BY <2>1, <3>2 DEF RuleAsProfile
    <3>4. \A q \in Request : serving[q].stage = "halfway" => serving'[q].stage = "halfway"
      BY <1>1, <1>5
    <3>. QED  BY <1>3, <3>1, <3>3, <3>4 DEF ProfileCompiled
  <2>. QED  BY <1>3, <2>1, <2>2 DEF ProfileCompiled
<1>. QED  BY <1>6, <1>7, <1>8, <1>9 DEF SettingsInv

LEMMA WrittenKeeps ==
    ASSUME SettingsInv, NEW r \in Request,
           \/ SavesRule(r) \/ TogglesRule(r) \/ SilencesRule(r) \/ DeletesRule(r)
           \/ SavesRoute(r) \/ SavesCard(r) \/ SilencesCard(r)
           \/ SavesChannel(r) \/ TogglesChannel(r) \/ DeletesChannel(r)
           \/ Mutes(r) \/ Unmutes(r) \/ TogglesDetection(r)
    PROVE  SettingsInv'
<1>1. /\ "rules" \in Copies /\ "channels" \in Copies /\ "mutes" \in Copies /\ "enabled" \in Copies
      /\ saved["rules"] \in Setting /\ saved["channels"] \in Setting /\ saved["enabled"] \in Setting
      /\ Absent \in Setting
  BY SettingsTypes DEF Copies, Tables, Lists, Fields, Absent, Setting
<1>2. ASSUME NEW row \in Setting, WritesRule(r, row) PROVE SettingsInv'
  <2>1. Writes(r, "rules", row)
    BY <1>2 DEF WritesRule
  <2>2. behind' = IF subject = "profile" THEN behind \cup {"profile"} ELSE behind
    BY <1>2 DEF WritesRule
  <2>3. /\ behind \subseteq behind' /\ behind' \subseteq behind \cup {"profile"}
        /\ subject = "profile" => "profile" \in behind'
    BY <2>2
  <2>. QED  BY <1>1, <2>1, <2>3, RowWritesKeep
<1>3. ASSUME NEW row \in Setting, WritesChannel(r, row) PROVE SettingsInv'
  <2>1. Writes(r, "channels", row) /\ UNCHANGED behind
    BY <1>3 DEF WritesChannel
  <2>. QED  BY <1>1, <2>1, RowWritesKeep
<1>4. ASSUME NEW t \in {"mutes", "enabled"}, NEW row \in Setting, Writes(r, t, row), UNCHANGED behind,
             t = "enabled" => row.there
      PROVE SettingsInv'
  BY <1>1, <1>4, RowWritesKeep
<1>5. CASE SavesRule(r)
  BY <1>1, <1>2, <1>5, RowTypes DEF SavesRule
<1>6. CASE TogglesRule(r)
  BY <1>1, <1>2, <1>6, RowTypes DEF TogglesRule
<1>7. CASE SilencesRule(r)
  BY <1>1, <1>2, <1>7, RowTypes DEF SilencesRule
<1>8. CASE DeletesRule(r)
  BY <1>1, <1>2, <1>8 DEF DeletesRule
<1>9. CASE SavesChannel(r) \/ TogglesChannel(r) \/ DeletesChannel(r)
  BY <1>1, <1>3, <1>9, RowTypes DEF SavesChannel, TogglesChannel, DeletesChannel
<1>10. CASE Mutes(r) \/ Unmutes(r)
  <2>1. Upserted(Absent, TRUE) \in Setting
    BY <1>1, RowTypes
  <2>. QED  BY <1>1, <1>4, <1>10, <2>1 DEF Mutes, Unmutes
<1>11. CASE TogglesDetection(r)
  BY <1>1, <1>4, <1>11, RowTypes DEF TogglesDetection
<1>12. CASE SavesRoute(r)
  BY <1>5, <1>12 DEF SavesRoute
<1>13. CASE SavesCard(r)
  BY <1>5, <1>8, <1>13 DEF SavesCard
<1>14. CASE SilencesCard(r)
  BY <1>7, <1>14 DEF SilencesCard
<1>. QED  BY <1>5, <1>6, <1>7, <1>8, <1>9, <1>10, <1>11, <1>12, <1>13, <1>14

(* The severity is written with the row it shares: who holds "enabled"     *)
(* holds a row that is there, and such a row stays as it is.               *)
LEMMA SeverityKeeps == ASSUME SettingsInv, NEW r \in Request, SetsSeverity(r) PROVE SettingsInv'
<1>1. PICK m \in {"none", "set"} : saved' = SeverityUpserted(m) /\ Goes(r, "severity", "holding", saved'["severity"])
  BY DEF SetsSeverity
<1>2. /\ behind' = IF saved["enabled"].there \/ yamlOn THEN behind ELSE behind \cup {"enabled"}
      /\ UNCHANGED <<subject, yamlOn, live, mishaps>> /\ serving[r].stage = "idle" /\ subject = "detection"
  BY DEF SetsSeverity
<1>3. /\ SettingsTypeOK /\ ProfileCompiled /\ (\A q \in Request : HeldAsSaved(q)) /\ (\A u \in Copies : Renewed(u))
      /\ saved \in [Tables -> Setting] /\ saved["enabled"] \in Setting /\ saved["severity"] \in Setting
      /\ "severity" \in Tables /\ "enabled" \in Tables /\ "severity" \in Copies
  BY DEF SettingsInv, SettingsTypeOK, Tables, Copies, Fields
<1>. DEFINE severity == [there |-> TRUE, on |-> TRUE, mark |-> m]
            enabled  == IF saved["enabled"].there THEN saved["enabled"] ELSE Upserted(Absent, TRUE)
<1>4. saved' = [saved EXCEPT !["severity"] = severity, !["enabled"] = enabled]
  BY <1>1, <1>3 DEF SeverityUpserted
<1>5. severity \in Setting /\ enabled \in Setting /\ enabled.there /\ (~saved["enabled"].there => enabled.on)
  <2>1. Absent \in Setting
    BY DEF Absent, Setting
  <2>2. Upserted(Absent, TRUE) \in Setting /\ Upserted(Absent, TRUE).there /\ Upserted(Absent, TRUE).on
    BY <2>1, RowTypes
  <2>. QED  BY <1>3, <2>2 DEF Setting
<1>. HIDE DEF severity, enabled
<1>6. /\ saved' \in [Tables -> Setting] /\ saved'["severity"] = severity /\ saved'["enabled"] = enabled
      /\ \A u \in Tables \ {"severity", "enabled"} : saved'[u] = saved[u]
  BY <1>3, <1>4, <1>5
<1>7. /\ serving' \in [Request -> [table : Tables, got : Setting, raced : BOOLEAN,
                               stage : {"idle", "viewing", "halfway", "wrote", "holding"}]]
      /\ serving'[r].table = "severity" /\ serving'[r].stage = "holding" /\ serving'[r].got = severity
      /\ \A q \in Request \ {r} :
            /\ serving'[q].table = serving[q].table /\ serving'[q].stage = serving[q].stage
            /\ serving'[q].got = serving[q].got
            /\ serving[q].raced => serving'[q].raced
            /\ serving[q].stage \in {"halfway", "holding"} /\ serving[q].table = "severity" => serving'[q].raced
  BY <1>1, <1>3, <1>5, <1>6, GoesFacts
<1>8. SettingsTypeOK'
  <2>1. behind' \subseteq Tables
    BY <1>2, <1>3 DEF SettingsTypeOK
  <2>. QED  BY <1>2, <1>3, <1>6, <1>7, <2>1 DEF SettingsTypeOK
<1>9. ASSUME NEW q \in Request PROVE HeldAsSaved(q)'
  <2>1. CASE q = r
    BY <1>3, <1>5, <1>6, <1>7, <2>1 DEF HeldAsSaved
  <2>2. CASE q # r
    <3>1. serving[q].table \in Tables /\ (saved["enabled"].there => enabled = saved["enabled"])
      BY SettingsTypes DEF enabled
    <3>2. HeldAsSaved(q) /\ serving'[q].table = serving[q].table /\ serving'[q].stage = serving[q].stage
          /\ serving'[q].got = serving[q].got /\ (serving[q].raced => serving'[q].raced)
      BY <1>3, <1>7, <2>2
    <3>3. serving[q].stage = "halfway" => serving[q].table = "profile" /\ (serving'[q].raced \/ serving[q].got = saved'["profile"])
      BY <1>6, <3>2 DEF HeldAsSaved, Tables
    <3>4. serving[q].stage = "holding" => /\ serving[q].table \in Copies
                                          /\ serving'[q].raced \/ serving[q].got = saved'[serving[q].table]
      BY <1>6, <1>7, <2>2, <3>1, <3>2 DEF HeldAsSaved
    <3>5. saved'["enabled"].there
      BY <1>5, <1>6
    <3>. QED  BY <3>2, <3>3, <3>4, <3>5 DEF HeldAsSaved
  <2>. QED  BY <2>1, <2>2
<1>10. ASSUME NEW u \in Copies PROVE Renewed(u)'
  <2>1. CASE u = "severity"
    BY <1>7, <2>1 DEF Renewed, Renewing
  <2>2. CASE u # "severity"
    <3>1. u \in Tables
      BY DEF Tables
    <3>2. behind \subseteq behind'
      BY <1>2
    <3>3. Renewing(u) => Renewing(u)'
      BY <1>2, <1>7 DEF Renewing
    <3>4. InForce(u) => u \in behind' \/ InForce(u)'
      <4>1. CASE u = "enabled"
        <5>1. CASE saved["enabled"].there
          BY <1>2, <1>6, <4>1, <5>1 DEF InForce, ClearedSeverityLags, enabled
        <5>2. CASE ~saved["enabled"].there /\ yamlOn
          BY <1>2, <1>3, <1>5, <1>6, <4>1, <5>2 DEF InForce, ClearedSeverityLags, Setting, SettingsTypeOK
        <5>3. CASE ~saved["enabled"].there /\ ~yamlOn
          BY <1>2, <4>1, <5>3
        <5>. QED  BY <5>1, <5>2, <5>3
      <4>2. CASE u # "enabled"
        BY <1>2, <1>6, <2>2, <3>1, <4>2 DEF InForce, ClearedSeverityLags
      <4>. QED  BY <4>1, <4>2
    <3>. QED  BY <1>3, <3>2, <3>3, <3>4 DEF Renewed
  <2>. QED  BY <2>1, <2>2
<1>11. ProfileCompiled'
  <2>1. saved'["profile"] = saved["profile"]
    BY <1>6 DEF Tables
  <2>. QED  BY <1>2, <1>3, <2>1 DEF ProfileCompiled
<1>. QED  BY <1>8, <1>9, <1>10, <1>11 DEF SettingsInv

(* One request goes on, the others do not notice.                          *)
LEMMA OneGoesOn ==
    ASSUME SettingsInv, NEW r \in Request, NEW q, serving' = [serving EXCEPT ![r] = q],
           q \in [table : Tables, got : Setting, raced : BOOLEAN,
                  stage : {"idle", "viewing", "halfway", "wrote", "holding"}]
    PROVE  /\ serving' \in [Request -> [table : Tables, got : Setting, raced : BOOLEAN,
                               stage : {"idle", "viewing", "halfway", "wrote", "holding"}]]
           /\ serving'[r] = q /\ \A p \in Request \ {r} : serving'[p] = serving[p]
<1>. DEFINE Serving == [table : Tables, got : Setting, raced : BOOLEAN,
                        stage : {"idle", "viewing", "halfway", "wrote", "holding"}]
<1>1. serving \in [Request -> Serving] /\ q \in Serving
  BY DEF SettingsInv, SettingsTypeOK
<1>. HIDE DEF Serving
<1>2. /\ serving' \in [Request -> Serving] /\ serving'[r] = q
      /\ \A p \in Request \ {r} : serving'[p] = serving[p]
  BY <1>1
<1>. QED  BY <1>2 DEF Serving

LEMMA IdleTyped ==
    /\ NoRequest \in [table : Tables, got : Setting, raced : BOOLEAN,
                      stage : {"idle", "viewing", "halfway", "wrote", "holding"}]
    /\ NoRequest.stage = "idle" /\ NoRequest.table = "profile"
BY DEF NoRequest, Absent, Setting, Tables

LEMMA ReadsKeep == ASSUME SettingsInv, NEW r \in Request, Views(r) \/ Relists(r) PROVE SettingsInv'
<1>1. UNCHANGED <<subject, yamlOn, saved, live, behind, mishaps>>
  BY DEF Views, Relists
<1>2. /\ SettingsTypeOK /\ ProfileCompiled /\ (\A q \in Request : HeldAsSaved(q)) /\ (\A u \in Copies : Renewed(u))
      /\ ListOf \in Lists /\ \A t \in Lists : t \in Tables /\ t \in Copies /\ saved[t] \in Setting
  BY SettingsTypes DEF SettingsInv, Tables, Copies
<1>3. PICK q : /\ serving' = [serving EXCEPT ![r] = q]
               /\ q \in [table : Tables, got : Setting, raced : BOOLEAN,
                         stage : {"idle", "viewing", "halfway", "wrote", "holding"}]
               /\ q.stage \in {"viewing", "holding"} /\ q.table \in Lists
               /\ q.stage = "holding" => q.got = saved[q.table] /\ q.table = serving[r].table
               /\ serving[r].stage # "idle" => q.stage = "holding"
               /\ serving[r].stage \in {"idle", "viewing", "wrote"}
  <2>1. CASE Views(r)
    <3>. DEFINE q == [NoRequest EXCEPT !.table = ListOf, !.stage = "viewing"]
    <3>1. q.stage = "viewing" /\ q.table = ListOf /\ serving[r].stage = "idle" /\ serving' = [serving EXCEPT ![r] = q]
      BY <2>1 DEF Views, NoRequest
    <3>2. q \in [table : Tables, got : Setting, raced : BOOLEAN,
                 stage : {"idle", "viewing", "halfway", "wrote", "holding"}]
      BY <1>2 DEF NoRequest, Absent, Setting
    <3>. HIDE DEF q
    <3>. QED  BY <1>2, <3>1, <3>2
  <2>2. CASE Relists(r)
    <3>. DEFINE q == [serving[r] EXCEPT !.stage = "holding", !.got = saved[serving[r].table]]
    <3>1. serving[r].table \in Lists /\ serving[r].stage \in {"viewing", "wrote"}
      BY <1>2, <2>2 DEF HeldAsSaved, Relists
    <3>2. serving[r] \in [table : Tables, got : Setting, raced : BOOLEAN,
                          stage : {"idle", "viewing", "halfway", "wrote", "holding"}]
      BY <1>2 DEF SettingsTypeOK
    <3>3. saved[serving[r].table] \in Setting
      BY <1>2, <3>1
    <3>4. /\ q.stage = "holding" /\ q.table = serving[r].table /\ q.got = saved[q.table]
      BY <3>2
    <3>5. q \in [table : Tables, got : Setting, raced : BOOLEAN,
                 stage : {"idle", "viewing", "halfway", "wrote", "holding"}]
      BY <3>2, <3>3
    <3>6. serving' = [serving EXCEPT ![r] = q]
      BY <1>2, <2>2, <3>2 DEF Relists, SettingsTypeOK
    <3>. HIDE DEF q
    <3>. QED  BY <3>1, <3>4, <3>5, <3>6
  <2>. QED  BY <2>1, <2>2
<1>4. /\ serving' \in [Request -> [table : Tables, got : Setting, raced : BOOLEAN,
                               stage : {"idle", "viewing", "halfway", "wrote", "holding"}]]
      /\ serving'[r] = q /\ \A p \in Request \ {r} : serving'[p] = serving[p]
  BY <1>3, OneGoesOn
<1>5. SettingsTypeOK'
  BY <1>1, <1>2, <1>4 DEF SettingsTypeOK
<1>6. ASSUME NEW p \in Request PROVE HeldAsSaved(p)'
  <2>1. CASE p = r
    BY <1>1, <1>3, <1>4, <2>1 DEF HeldAsSaved, Lists, Copies
  <2>2. CASE p # r
    BY <1>1, <1>2, <1>4, <2>2 DEF HeldAsSaved
  <2>. QED  BY <2>1, <2>2
<1>7. ASSUME NEW u \in Copies PROVE Renewed(u)'
  <2>1. InForce(u)' <=> InForce(u)
    BY <1>1 DEF InForce, ClearedSeverityLags
  <2>2. Renewing(u) => Renewing(u)'
    <3>1. \A p \in Request : serving[p].stage \in {"wrote", "holding"} =>
              serving'[p].stage \in {"wrote", "holding"} /\ serving'[p].table = serving[p].table
      BY <1>3, <1>4
    <3>. QED  BY <3>1 DEF Renewing
  <2>. QED  BY <1>1, <1>2, <2>1, <2>2 DEF Renewed
<1>8. ProfileCompiled'
  <2>1. \A p \in Request : serving[p].stage = "halfway" => serving'[p].stage = "halfway"
    BY <1>3, <1>4
  <2>2. RuleAsProfile' <=> RuleAsProfile
    BY <1>1 DEF RuleAsProfile
  <2>. QED  BY <1>1, <1>2, <2>1, <2>2 DEF ProfileCompiled
<1>. QED  BY <1>5, <1>6, <1>7, <1>8 DEF SettingsInv

(* The copy is assigned: as the row is, or behind it.                      *)
LEMMA AssignKeeps == ASSUME SettingsInv, NEW r \in Request, Assigns(r) PROVE SettingsInv'
<1>0. PICK t : t = serving[r].table
  OBVIOUS
<1>1. /\ serving[r].stage = "holding" /\ live' = [live EXCEPT ![t] = InMemory(t, serving[r].got)]
      /\ behind' = IF serving[r].raced THEN behind \cup {t} ELSE behind \ {t}
      /\ serving' = [serving EXCEPT ![r] = NoRequest] /\ UNCHANGED <<subject, yamlOn, saved, mishaps>>
  BY <1>0 DEF Assigns
<1>2. /\ SettingsTypeOK /\ ProfileCompiled /\ (\A q \in Request : HeldAsSaved(q)) /\ (\A u \in Copies : Renewed(u))
      /\ serving[r].got \in Setting /\ live \in [Copies -> Setting] /\ behind \subseteq Tables
      /\ saved \in [Tables -> Setting]
  BY SettingsTypes DEF SettingsInv, SettingsTypeOK
<1>3. t \in Copies /\ t \in Tables /\ t # "profile"
  BY <1>0, <1>1, <1>2 DEF HeldAsSaved, Copies, Lists, Fields, Tables
<1>4. /\ serving' \in [Request -> [table : Tables, got : Setting, raced : BOOLEAN,
                               stage : {"idle", "viewing", "halfway", "wrote", "holding"}]]
      /\ serving'[r] = NoRequest /\ \A p \in Request \ {r} : serving'[p] = serving[p]
  BY <1>1, IdleTyped, OneGoesOn
<1>5. InMemory(t, serving[r].got) \in Setting
  BY <1>2 DEF InMemory, Setting
<1>6. live' \in [Copies -> Setting] /\ live'[t] = InMemory(t, serving[r].got) /\ \A u \in Copies \ {t} : live'[u] = live[u]
  BY <1>1, <1>2, <1>3, <1>5
<1>7. SettingsTypeOK'
  <2>1. behind' \subseteq Tables
    BY <1>1, <1>2, <1>3
  <2>. QED  BY <1>1, <1>2, <1>4, <1>6, <2>1 DEF SettingsTypeOK
<1>8. ASSUME NEW p \in Request PROVE HeldAsSaved(p)'
  <2>1. CASE p = r
    BY <1>4, <2>1, IdleTyped DEF HeldAsSaved
  <2>2. CASE p # r
    BY <1>1, <1>2, <1>4, <2>2 DEF HeldAsSaved
  <2>. QED  BY <2>1, <2>2
<1>9. ASSUME NEW u \in Copies PROVE Renewed(u)'
  <2>1. CASE u = t /\ serving[r].raced
    BY <1>1, <2>1 DEF Renewed
  <2>2. CASE u = t /\ ~serving[r].raced
    <3>1. serving[r].got = saved[t] /\ (t = "enabled" => saved["enabled"].there)
      BY <1>0, <1>1, <1>2, <2>2 DEF HeldAsSaved
    <3>2. InForce(t)'
      <4>1. CASE t = "enabled"
        BY <1>1, <1>6, <3>1, <4>1 DEF InForce, ClearedSeverityLags, InMemory
      <4>2. CASE t = "severity"
        <5>1. CASE saved["severity"].mark = "none"
          <6>1. live'["severity"] = [saved["severity"] EXCEPT !.mark = "void"]
            BY <1>6, <3>1, <4>2, <5>1 DEF InMemory
          <6>2. saved["severity"] \in Setting
            BY <1>2, <1>3, <4>2
          <6>3. live'["severity"].mark = "void"
            BY <6>1, <6>2 DEF Setting
          <6>. QED  BY <1>1, <4>2, <5>1, <6>3 DEF InForce, ClearedSeverityLags
        <5>2. CASE saved["severity"].mark # "none"
          <6>1. live'["severity"] = saved["severity"]
            BY <1>6, <3>1, <4>2, <5>2 DEF InMemory
          <6>. QED  BY <1>1, <4>2, <6>1 DEF InForce, ClearedSeverityLags
        <5>. QED  BY <5>1, <5>2
      <4>3. CASE t \notin {"enabled", "severity"}
        <5>1. live'[t] = saved[t]
          BY <1>6, <3>1, <4>3 DEF InMemory
        <5>. QED  BY <1>1, <4>3, <5>1 DEF InForce, ClearedSeverityLags
      <4>. QED  BY <4>1, <4>2, <4>3
    <3>. QED  BY <2>2, <3>2 DEF Renewed
  <2>3. CASE u # t
    <3>1. InForce(u) => InForce(u)'
      BY <1>1, <1>6, <2>3 DEF InForce, ClearedSeverityLags
    <3>2. Renewing(u) => Renewing(u)'
      <4>1. \A p \in Request : serving[p].table = u => p # r
        BY <1>0, <2>3
      <4>. QED  BY <1>4, <4>1 DEF Renewing
    <3>3. u \in behind => u \in behind'
      BY <1>1, <2>3
    <3>. QED  BY <1>2, <3>1, <3>2, <3>3 DEF Renewed
  <2>. QED  BY <2>1, <2>2, <2>3
<1>10. ProfileCompiled'
  <2>1. \A p \in Request : serving[p].stage = "halfway" => serving'[p].stage = "halfway"
    BY <1>1, <1>4
  <2>2. RuleAsProfile' <=> RuleAsProfile
    BY <1>1 DEF RuleAsProfile
  <2>3. "profile" \in behind => "profile" \in behind'
    BY <1>1, <1>3
  <2>. QED  BY <1>1, <1>2, <2>1, <2>2, <2>3 DEF ProfileCompiled
<1>. QED  BY <1>7, <1>8, <1>9, <1>10 DEF SettingsInv

(* A profile is written, and then the rule that is compiled from it.       *)
LEMMA ProfileKeeps ==
    ASSUME SettingsInv, NEW r \in Request, NEW row \in Setting, WritesProfile(r, row), row.on => row.there
    PROVE  SettingsInv'
<1>1. /\ serving[r].stage = "idle" /\ saved' = [saved EXCEPT !["profile"] = row]
      /\ Goes(r, "profile", "halfway", row) /\ UNCHANGED <<subject, yamlOn, live, behind, mishaps>>
  BY DEF WritesProfile
<1>2. /\ SettingsTypeOK /\ ProfileCompiled /\ (\A q \in Request : HeldAsSaved(q)) /\ (\A u \in Copies : Renewed(u))
      /\ "profile" \in Tables /\ "profile" \notin Copies
  BY DEF SettingsInv, Tables, Copies, Lists, Fields
<1>3. saved' \in [Tables -> Setting] /\ saved'["profile"] = row /\ \A u \in Tables \ {"profile"} : saved'[u] = saved[u]
  BY <1>1, <1>2 DEF SettingsTypeOK
<1>4. /\ serving' \in [Request -> [table : Tables, got : Setting, raced : BOOLEAN,
                               stage : {"idle", "viewing", "halfway", "wrote", "holding"}]]
      /\ serving'[r].table = "profile" /\ serving'[r].stage = "halfway" /\ serving'[r].got = row
      /\ \A q \in Request \ {r} :
            /\ serving'[q].table = serving[q].table /\ serving'[q].stage = serving[q].stage
            /\ serving'[q].got = serving[q].got
            /\ serving[q].raced => serving'[q].raced
            /\ serving[q].stage \in {"halfway", "holding"} /\ serving[q].table = "profile" => serving'[q].raced
  BY <1>1, <1>2, GoesFacts
<1>5. SettingsTypeOK'
  BY <1>1, <1>2, <1>3, <1>4 DEF SettingsTypeOK
<1>6. ASSUME NEW q \in Request PROVE HeldAsSaved(q)'
  <2>1. CASE q = r
    BY <1>3, <1>4, <2>1 DEF HeldAsSaved
  <2>2. CASE q # r
    <3>1. serving[q].table \in Tables /\ HeldAsSaved(q)
      BY <1>2, SettingsTypes
    <3>2. /\ serving'[q].table = serving[q].table /\ serving'[q].stage = serving[q].stage
          /\ serving'[q].got = serving[q].got /\ (serving[q].raced => serving'[q].raced)
          /\ serving[q].stage = "halfway" => serving'[q].raced
      BY <1>4, <2>2, <3>1 DEF HeldAsSaved
    <3>3. serving[q].stage = "holding" => serving[q].table \in Copies /\ saved'[serving[q].table] = saved[serving[q].table]
      BY <1>2, <1>3, <3>1 DEF HeldAsSaved, Tables
    <3>4. saved'["enabled"] = saved["enabled"]
      BY <1>3 DEF Tables, Copies, Fields
    <3>. QED  BY <3>1, <3>2, <3>3, <3>4 DEF HeldAsSaved
  <2>. QED  BY <2>1, <2>2
<1>7. ASSUME NEW u \in Copies PROVE Renewed(u)'
  <2>1. u \in Tables \ {"profile"}
    BY <1>2 DEF Tables
  <2>2. InForce(u) => InForce(u)'
    BY <1>1, <1>3, <2>1 DEF InForce, ClearedSeverityLags
  <2>3. Renewing(u) => Renewing(u)'
    BY <1>1, <1>4 DEF Renewing
  <2>. QED  BY <1>1, <1>2, <2>2, <2>3 DEF Renewed
<1>8. ProfileCompiled'
  BY <1>3, <1>4 DEF ProfileCompiled
<1>. QED  BY <1>5, <1>6, <1>7, <1>8 DEF SettingsInv

LEMMA CompileKeeps == ASSUME SettingsInv, NEW r \in Request, CompilesRule(r) PROVE SettingsInv'
<1>0. PICK got, raced : got = serving[r].got /\ raced = serving[r].raced
  OBVIOUS
<1>. DEFINE row == IF got.there THEN Upserted(saved["rules"], got.on) ELSE Absent
<1>1. /\ serving[r].stage = "halfway" /\ saved' = [saved EXCEPT !["rules"] = row]
      /\ behind' = IF raced THEN behind \cup {"profile"} ELSE behind \ {"profile"}
      /\ Goes(r, "rules", "wrote", Absent) /\ UNCHANGED <<subject, yamlOn, live, mishaps>>
  <2>1. "rules" \in Tables /\ saved \in [Tables -> Setting]
    BY DEF SettingsInv, SettingsTypeOK, Tables, Copies, Lists
  <2>. QED  BY <1>0, <2>1 DEF CompilesRule
<1>2. /\ SettingsTypeOK /\ ProfileCompiled /\ (\A q \in Request : HeldAsSaved(q)) /\ (\A u \in Copies : Renewed(u))
      /\ "rules" \in Tables /\ "rules" \in Copies /\ "rules" \in Lists /\ got \in Setting /\ saved["rules"] \in Setting
      /\ Absent \in Setting
  BY <1>0, SettingsTypes DEF SettingsInv, Tables, Copies, Lists, Absent, Setting
<1>3. row \in Setting /\ (raced \/ got = saved["profile"])
      /\ (got.there => row.there /\ row.on = got.on) /\ (~got.there => ~row.there /\ ~row.on)
  <2>1. got.on \in BOOLEAN
    BY <1>2 DEF Setting
  <2>2. raced \/ got = saved["profile"]
    BY <1>0, <1>1, <1>2 DEF HeldAsSaved
  <2>3. ~Absent.there /\ ~Absent.on
    BY DEF Absent
  <2>. QED  BY <1>2, <2>1, <2>2, <2>3, RowTypes
<1>. HIDE DEF row
<1>4. PICK w \in Setting : w = row
  BY <1>3
<1>5. saved' \in [Tables -> Setting] /\ saved'["rules"] = w /\ \A u \in Tables \ {"rules"} : saved'[u] = saved[u]
  BY <1>1, <1>2, <1>4 DEF SettingsTypeOK
<1>6. /\ serving' \in [Request -> [table : Tables, got : Setting, raced : BOOLEAN,
                               stage : {"idle", "viewing", "halfway", "wrote", "holding"}]]
      /\ serving'[r].table = "rules" /\ serving'[r].stage = "wrote" /\ serving'[r].got = Absent
      /\ \A q \in Request \ {r} :
            /\ serving'[q].table = serving[q].table /\ serving'[q].stage = serving[q].stage
            /\ serving'[q].got = serving[q].got
            /\ serving[q].raced => serving'[q].raced
            /\ serving[q].stage \in {"halfway", "holding"} /\ serving[q].table = "rules" => serving'[q].raced
  BY <1>1, <1>2, GoesFacts
<1>7. SettingsTypeOK'
  <2>1. behind' \subseteq Tables
    BY <1>1, <1>2 DEF SettingsTypeOK, Tables
  <2>. QED  BY <1>1, <1>2, <1>5, <1>6, <2>1 DEF SettingsTypeOK
<1>8. ASSUME NEW q \in Request PROVE HeldAsSaved(q)'
  <2>1. CASE q = r
    BY <1>2, <1>6, <2>1 DEF HeldAsSaved
  <2>2. CASE q # r
    <3>1. serving[q].table \in Tables /\ HeldAsSaved(q)
      BY <1>2, SettingsTypes
    <3>2. saved'["enabled"] = saved["enabled"] /\ saved'["profile"] = saved["profile"]
      BY <1>5 DEF Tables, Copies, Fields
    <3>. QED  BY <1>5, <1>6, <2>2, <3>1, <3>2 DEF HeldAsSaved
  <2>. QED  BY <2>1, <2>2
<1>9. ASSUME NEW u \in Copies PROVE Renewed(u)'
  <2>1. CASE u = "rules"
    BY <1>6, <2>1 DEF Renewed, Renewing
  <2>2. CASE u # "rules"
    <3>1. u \in Tables \ {"rules"} /\ u # "profile"
      BY <2>2 DEF Tables, Copies, Lists, Fields
    <3>2. InForce(u) => InForce(u)'
      BY <1>1, <1>5, <3>1 DEF InForce, ClearedSeverityLags
    <3>3. Renewing(u) => Renewing(u)'
      BY <1>1, <1>6 DEF Renewing
    <3>4. u \in behind => u \in behind'
      BY <1>1, <3>1
    <3>. QED  BY <1>2, <3>2, <3>3, <3>4 DEF Renewed
  <2>. QED  BY <2>1, <2>2
<1>10. ProfileCompiled'
  <2>1. saved'["profile"] = saved["profile"]
    BY <1>5 DEF Tables
  <2>2. (saved["profile"].on => saved["profile"].there) /\ saved["profile"] \in Setting /\ w \in Setting
    BY <1>2, SettingsTypes DEF ProfileCompiled, Tables
  <2>3. CASE raced
    BY <1>1, <2>1, <2>2, <2>3 DEF ProfileCompiled
  <2>4. CASE ~raced
    <3>1. RuleAsProfile'
      BY <1>3, <1>4, <1>5, <2>1, <2>2, <2>4 DEF RuleAsProfile, Setting
    <3>. QED  BY <2>1, <2>2, <3>1 DEF ProfileCompiled
  <2>. QED  BY <2>3, <2>4
<1>. QED  BY <1>7, <1>8, <1>9, <1>10 DEF SettingsInv

(* A list that cannot be read, or a second statement that fails.           *)
LEMMA FailuresKeep == ASSUME SettingsInv, NEW r \in Request, ListFails(r) \/ ProfileFails(r) PROVE SettingsInv'
<1>0. PICK t, stage : t = serving[r].table /\ stage = serving[r].stage
  OBVIOUS
<1>1. /\ serving' = [serving EXCEPT ![r] = NoRequest] /\ UNCHANGED <<subject, yamlOn, saved, live>>
      /\ mishaps < MaxMishaps /\ mishaps' = mishaps + 1
      /\ stage \in {"viewing", "wrote", "halfway"} /\ behind \subseteq behind'
  BY <1>0 DEF ListFails, ProfileFails
<1>2. /\ SettingsTypeOK /\ ProfileCompiled /\ (\A q \in Request : HeldAsSaved(q)) /\ (\A u \in Copies : Renewed(u))
      /\ t \in Tables /\ (stage = "halfway" => t = "profile")
      /\ mishaps \in Nat
  BY <1>0, SettingsTypes, SettingsAssumption DEF SettingsInv, SettingsTypeOK, HeldAsSaved
<1>3. behind' \subseteq behind \cup {t} /\ (stage \in {"wrote", "halfway"} => t \in behind')
  BY <1>0, <1>1, <1>2 DEF ListFails, ProfileFails
<1>4. /\ serving' \in [Request -> [table : Tables, got : Setting, raced : BOOLEAN,
                               stage : {"idle", "viewing", "halfway", "wrote", "holding"}]]
      /\ serving'[r] = NoRequest /\ \A p \in Request \ {r} : serving'[p] = serving[p]
  BY <1>1, IdleTyped, OneGoesOn
<1>5. SettingsTypeOK'
  <2>1. behind' \subseteq Tables /\ mishaps' \in 0..MaxMishaps
    BY <1>1, <1>2, <1>3, SettingsAssumption DEF SettingsTypeOK
  <2>. QED  BY <1>1, <1>2, <1>4, <2>1 DEF SettingsTypeOK
<1>6. ASSUME NEW p \in Request PROVE HeldAsSaved(p)'
  <2>1. CASE p = r
    BY <1>4, <2>1, IdleTyped DEF HeldAsSaved
  <2>2. CASE p # r
    BY <1>1, <1>2, <1>4, <2>2 DEF HeldAsSaved
  <2>. QED  BY <2>1, <2>2
<1>7. ASSUME NEW u \in Copies PROVE Renewed(u)'
  <2>1. InForce(u) => InForce(u)'
    BY <1>1 DEF InForce, ClearedSeverityLags
  <2>2. ASSUME Renewing(u) PROVE u \in behind' \/ Renewing(u)'
    <3>1. PICK p \in Request : serving[p].table = u /\ serving[p].stage \in {"wrote", "holding"}
      BY <2>2 DEF Renewing
    <3>2. CASE p = r
      BY <1>0, <1>1, <1>3, <3>1, <3>2
    <3>3. CASE p # r
      BY <1>4, <3>1, <3>3 DEF Renewing
    <3>. QED  BY <3>2, <3>3
  <2>. QED  BY <1>1, <1>2, <2>1, <2>2 DEF Renewed
<1>8. ProfileCompiled'
  <2>1. RuleAsProfile' <=> RuleAsProfile
    BY <1>1 DEF RuleAsProfile
  <2>2. ASSUME NEW p \in Request, serving[p].stage = "halfway"
        PROVE  "profile" \in behind' \/ serving'[p].stage = "halfway"
    <3>1. CASE p = r
      BY <1>0, <1>2, <1>3, <2>2, <3>1
    <3>2. CASE p # r
      BY <1>4, <2>2, <3>2
    <3>. QED  BY <3>1, <3>2
  <2>. QED  BY <1>1, <1>2, <2>1, <2>2 DEF ProfileCompiled
<1>. QED  BY <1>5, <1>6, <1>7, <1>8 DEF SettingsInv

LEMMA RestartKeeps == ASSUME SettingsInv, Restarts PROVE SettingsInv'
<1>1. PICK unread \in SUBSET {ListOf} :
         /\ live' = [t \in Copies |-> IF t \in unread THEN Absent ELSE AtStart(t)]
         /\ behind' = unread \cup (behind \cap {"profile"})
                   \cup {t \in {"profile"} : \E r \in Request : serving[r].stage = "halfway"}
  BY DEF Restarts
<1>2. /\ serving' = [r \in Request |-> NoRequest] /\ UNCHANGED <<subject, yamlOn, saved>>
      /\ mishaps < MaxMishaps /\ mishaps' = mishaps + 1
  BY DEF Restarts
<1>3. /\ SettingsTypeOK /\ ProfileCompiled /\ (\A t \in Copies : t \in Tables /\ saved[t] \in Setting)
      /\ ListOf \in Tables /\ "profile" \in Tables /\ mishaps \in Nat
  BY SettingsTypes, SettingsAssumption DEF SettingsInv, SettingsTypeOK, Lists, Copies, Tables
<1>4. /\ serving' \in [Request -> [table : Tables, got : Setting, raced : BOOLEAN,
                               stage : {"idle", "viewing", "halfway", "wrote", "holding"}]]
      /\ \A p \in Request : serving'[p] = NoRequest
  BY <1>2, IdleTyped
<1>5. \A t \in Copies : AtStart(t) \in Setting /\ Absent \in Setting
  BY <1>3 DEF AtStart, Absent, Setting, SettingsTypeOK
<1>6. SettingsTypeOK'
  <2>1. behind' \subseteq Tables /\ mishaps' \in 0..MaxMishaps
    BY <1>1, <1>2, <1>3, SettingsAssumption
  <2>2. live' \in [Copies -> Setting]
    BY <1>1, <1>5
  <2>. QED  BY <1>2, <1>3, <1>4, <2>1, <2>2 DEF SettingsTypeOK
<1>7. ASSUME NEW p \in Request PROVE HeldAsSaved(p)'
  BY <1>4, IdleTyped DEF HeldAsSaved
<1>8. ASSUME NEW t \in Copies PROVE Renewed(t)'
  <2>1. CASE t \in unread
    BY <1>1, <2>1 DEF Renewed
  <2>2. CASE t \notin unread
    <3>1. live'[t] = AtStart(t)
      BY <1>1, <2>2
    <3>2. t = "enabled" /\ ~saved["enabled"].there => live'["enabled"].on = yamlOn
      BY <3>1 DEF AtStart, Absent
    <3>3. t # "enabled" \/ saved["enabled"].there => live'[t] = saved[t]
      BY <3>1 DEF AtStart
    <3>4. InForce(t)'
      BY <1>2, <3>2, <3>3 DEF InForce, ClearedSeverityLags
    <3>. QED  BY <3>4 DEF Renewed
  <2>. QED  BY <2>1, <2>2
<1>9. ProfileCompiled'
  <2>1. RuleAsProfile' <=> RuleAsProfile
    BY <1>2 DEF RuleAsProfile
  <2>2. "profile" \notin behind' => "profile" \notin behind /\ \A r \in Request : serving[r].stage # "halfway"
    BY <1>1
  <2>. QED  BY <1>2, <1>3, <2>1, <2>2 DEF ProfileCompiled
<1>. QED  BY <1>6, <1>7, <1>8, <1>9 DEF SettingsInv

-----------------------------------------------------------------------------
LEMMA SettingsStarts == SettingsInit => SettingsInv
<1>. SUFFICES ASSUME SettingsInit PROVE SettingsInv
  OBVIOUS
<1>1. /\ subject \in Subjects /\ yamlOn \in BOOLEAN /\ saved = [t \in Tables |-> Absent]
      /\ live = [t \in Copies |-> IF t = "enabled" THEN [Absent EXCEPT !.on = yamlOn] ELSE Absent]
      /\ serving = [r \in Request |-> NoRequest] /\ behind = {} /\ mishaps = 0
  <2>1. yamlOn \in BOOLEAN
    BY DEF SettingsInit
  <2>. QED  BY <2>1 DEF SettingsInit
<1>2. Absent \in Setting /\ [Absent EXCEPT !.on = yamlOn] \in Setting /\ [Absent EXCEPT !.on = yamlOn].on = yamlOn
      /\ ~Absent.there /\ ~Absent.on
  BY <1>1 DEF Absent, Setting
<1>3. SettingsTypeOK
  <2>1. saved \in [Tables -> Setting] /\ live \in [Copies -> Setting]
    BY <1>1, <1>2
  <2>2. serving \in [Request -> [table : Tables, got : Setting, raced : BOOLEAN,
                        stage : {"idle", "viewing", "halfway", "wrote", "holding"}]]
    BY <1>1, IdleTyped
  <2>. QED  BY <1>1, <2>1, <2>2, SettingsAssumption DEF SettingsTypeOK
<1>4. \A r \in Request : HeldAsSaved(r)
  BY <1>1, IdleTyped DEF HeldAsSaved
<1>5. ASSUME NEW t \in Copies PROVE Renewed(t)
  <2>1. saved[t] = Absent /\ (t = "enabled" => live[t].on = yamlOn) /\ (t # "enabled" => live[t] = Absent)
    BY <1>1, <1>2 DEF Tables
  <2>2. InForce(t)
    BY <1>2, <2>1 DEF InForce, ClearedSeverityLags
  <2>. QED  BY <2>2 DEF Renewed
<1>6. ProfileCompiled
  <2>1. saved["profile"] = Absent /\ saved["rules"] = Absent
    BY <1>1 DEF Tables, Copies, Lists
  <2>. QED  BY <1>2, <2>1 DEF ProfileCompiled, RuleAsProfile
<1>. QED  BY <1>3, <1>4, <1>5, <1>6 DEF SettingsInv

LEMMA SettingsStep == SettingsInv /\ SettingsNext => SettingsInv'
<1>. SUFFICES ASSUME SettingsInv, SettingsNext PROVE SettingsInv'
  OBVIOUS
<1>1. ASSUME NEW r \in Request, SavesProfile(r) \/ DeletesProfile(r) PROVE SettingsInv'
  <2>1. Absent \in Setting /\ ~Absent.on
    BY DEF Absent, Setting
  <2>2. \A on \in BOOLEAN : Upserted(Absent, on) \in Setting /\ Upserted(Absent, on).there
    BY <2>1, RowTypes
  <2>. QED  BY <1>1, <2>1, <2>2, ProfileKeeps DEF SavesProfile, DeletesProfile
<1>2. CASE Restarts
  BY <1>2, RestartKeeps
<1>3. ASSUME NEW r \in Request,
             \/ SavesRule(r) \/ TogglesRule(r) \/ SilencesRule(r) \/ DeletesRule(r)
             \/ SavesRoute(r) \/ SavesCard(r) \/ SilencesCard(r)
             \/ SavesChannel(r) \/ TogglesChannel(r) \/ DeletesChannel(r)
             \/ Mutes(r) \/ Unmutes(r) \/ TogglesDetection(r) \/ SetsSeverity(r) \/ Views(r)
             \/ SavesProfile(r) \/ DeletesProfile(r) \/ CompilesRule(r)
             \/ Relists(r) \/ Assigns(r) \/ ListFails(r) \/ ProfileFails(r)
      PROVE  SettingsInv'
  BY <1>1, <1>3, WrittenKeeps, SeverityKeeps, ReadsKeep, CompileKeeps, AssignKeeps, FailuresKeep
<1>. QED  BY <1>2, <1>3 DEF SettingsNext

LEMMA SettingsRests == SettingsInv /\ UNCHANGED settingsVars => SettingsInv'
<1>. SUFFICES ASSUME SettingsInv, UNCHANGED settingsVars PROVE SettingsInv'
  OBVIOUS
<1>1. UNCHANGED <<subject, yamlOn, saved, live>> /\ UNCHANGED <<serving, behind, mishaps>>
  BY DEF settingsVars
<1>2. SettingsTypeOK'
  BY <1>1 DEF SettingsInv, SettingsTypeOK
<1>3. ProfileCompiled'
  BY <1>1 DEF SettingsInv, ProfileCompiled, RuleAsProfile
<1>4. \A r \in Request : HeldAsSaved(r)'
  BY <1>1 DEF SettingsInv, HeldAsSaved
<1>5. ASSUME NEW t \in Copies PROVE Renewed(t)'
  <2>1. Renewed(t)
    BY DEF SettingsInv
  <2>. QED  BY <1>1, <2>1 DEF Renewed, Renewing, InForce, ClearedSeverityLags
<1>. QED  BY <1>2, <1>3, <1>4, <1>5 DEF SettingsInv

LEMMA SettingsInvariant == SettingsSpec => []SettingsInv
<1>1. SettingsInv /\ [SettingsNext]_settingsVars => SettingsInv'
  BY SettingsStep, SettingsRests
<1>. QED  BY <1>1, SettingsStarts, PTL DEF SettingsSpec

LEMMA SettingsCovers == SettingsInv => SettingsInForce
<1>. SUFFICES ASSUME SettingsInv PROVE SettingsInForce
  OBVIOUS
<1>1. ASSUME NEW t \in Copies \ behind, ~AtWork(t) PROVE InForce(t)
  BY <1>1 DEF SettingsInv, Renewed, Renewing, AtWork
<1>2. ASSUME subject = "profile", "profile" \notin behind, ~AtWork("profile") PROVE RuleAsProfile
  <2>1. \A r \in Request : serving[r].stage # "halfway"
    BY <1>2 DEF SettingsInv, HeldAsSaved, AtWork
  <2>. QED  BY <1>2, <2>1 DEF SettingsInv, ProfileCompiled
<1>. QED  BY <1>1, <1>2 DEF SettingsInForce, RuleAsProfile

(* What is saved is in force once the requests on it are through, unless   *)
(* one of them knew, or could have known, that it was overtaken, or a      *)
(* statement failed (Notifier.reload_rules, noise.refresh, save_profile).  *)
THEOREM SettingsHold == SettingsSpec => []SettingsInForce
BY SettingsInvariant, SettingsCovers, PTL

-----------------------------------------------------------------------------
(* RouteViews.                                                             *)

(* What any clause of a rule is like, one that the form has saved too.     *)
ClauseFits(c) ==
    /\ c.field \in {"module", "action", "severity"} /\ c.negated \in BOOLEAN
    /\ c.field = "module" => \E m \in CatalogModules \cup {"aws.cloudtrail", "__custom__"} : c.values = {m}
    /\ c.field = "severity" => c.values # {} /\ c.values \subseteq Levels

TreeFits(t) ==
    /\ t.shape \in {"all", "any"}
    /\ \E n \in Nat : n <= 2 /\ DOMAIN t.clauses = 1..n
    /\ \A i \in DOMAIN t.clauses : ClauseFits(t.clauses[i])

RuleFits(r) ==
    /\ r = [tree |-> r.tree, active |-> r.active, channels |-> r.channels]
    /\ TreeFits(r.tree) /\ r.active \in BOOLEAN /\ r.channels \in 0..2

FormFits(f) ==
    /\ f.module \in CatalogModules \cup {"__custom__"} /\ f.severities \subseteq Levels
    /\ f.active \in BOOLEAN

(* A rule stays simple as long as it is open in the form, and what is      *)
(* saved over it is what the form says.                                    *)
RoutesInv ==
    /\ RuleFits(routeRule)
    /\ \A f \in form : FormFits(f) /\ \A g \in form : f = g
    /\ form = {} => savedOver = {}
    /\ form # {} /\ savedOver = {} => RuleSimple(routeRule.tree)
    /\ \A r \in savedOver :
          /\ RuleFits(r) /\ RuleSimple(r.tree)
          /\ \A f \in form : Savable(f) /\ routeRule.tree = BuildSimpleMatch(f.module, f.severities)

LEMMA Modules == CatalogModules = {"aws.iam", "ec2.host"}
BY DEF CatalogModules, Catalog, EventKinds

LEMMA FirstSays ==
    ASSUME NEW t, NEW n \in Nat, n <= 2, NEW said, NEW none, DOMAIN said = 1..n
    PROVE  \/ /\ FirstOr(t, said, none) = none
              /\ t.shape = "any" \/ \A i \in 1..n : said[i] = none
           \/ /\ t.shape # "any"
              /\ \E i \in 1..n : /\ said[i] # none /\ FirstOr(t, said, none) = said[i]
                                 /\ \A j \in 1..n : j < i => said[j] = none
<1>. DEFINE saying == {i \in DOMAIN said : said[i] # none}
            first  == CHOOSE i \in saying : \A j \in saying : i <= j
<1>1. CASE t.shape = "any" \/ saying = {}
  BY <1>1 DEF FirstOr
<1>2. CASE t.shape # "any" /\ saying # {}
  <2>1. saying \subseteq 1..n
    OBVIOUS
  <2>2. \E i \in saying : \A j \in saying : i <= j
    <3>1. CASE 1 \in saying
      BY <3>1, <2>1
    <3>2. CASE 1 \notin saying
      <4>1. saying \subseteq {2}
        BY <3>2, <2>1
      <4>. QED  BY <4>1, <1>2
    <3>. QED  BY <3>1, <3>2
  <2>3. first \in saying /\ \A j \in saying : first <= j
    BY <2>2
  <2>4. FirstOr(t, said, none) = said[first]
    BY <1>2 DEF FirstOr
  <2>5. \A j \in 1..n : j < first => said[j] = none
    <3>. SUFFICES ASSUME NEW j \in 1..n, j < first, said[j] # none PROVE FALSE
      OBVIOUS
    <3>1. j \in saying
      OBVIOUS
    <3>. QED  BY <3>1, <2>3, <2>1
  <2>. QED  BY <2>1, <2>3, <2>4, <2>5, <1>2
<1>. QED  BY <1>1, <1>2

LEMMA SaidOfModule ==
    ASSUME NEW c, ClauseFits(c)
    PROVE  /\ ModuleIn(c) \in {"", "__custom__"} \cup CatalogModules
           /\ c.field = "module" /\ ~c.negated =>
                 \A m : c.values = {m} => ModuleIn(c) = IF m = "aws.cloudtrail" THEN "aws.iam" ELSE m
<1>. DEFINE owners == IF c.field = "action" THEN {Catalog(k) : k \in c.values} ELSE c.values
            owner  == CHOOSE m \in owners : TRUE
<1>1. ModuleIn(c) = IF c.negated \/ c.field = "severity" \/ Cardinality(owners) # 1 THEN ""
                    ELSE IF owner = "aws.cloudtrail" THEN "aws.iam" ELSE owner
  BY DEF ModuleIn
<1>2. CASE c.field = "severity" \/ c.negated
  BY <1>1, <1>2
<1>3. CASE c.field = "module" /\ ~c.negated
  <2>1. PICK m \in CatalogModules \cup {"aws.cloudtrail", "__custom__"} : c.values = {m}
    BY <1>3 DEF ClauseFits
  <2>2. owners = {m} /\ owner = m
    BY <2>1, <1>3
  <2>3. Cardinality({m}) = 1
    BY FS_Singleton
  <2>4. c.field # "severity"
    BY <1>3
  <2>5. Cardinality(owners) = 1
    BY <2>2, <2>3
  <2>6. ModuleIn(c) = IF m = "aws.cloudtrail" THEN "aws.iam" ELSE m
    <3>. HIDE DEF owners, owner
    <3>. QED  BY <1>1, <2>2, <2>5, <2>4, <1>3
  <2>7. \A x : c.values = {x} => x = m
    BY <2>1
  <2>. QED  BY <2>6, <2>7, Modules
<1>4. CASE c.field = "action"
  <2>1. owners \subseteq CatalogModules
    BY <1>4, Modules DEF Catalog
  <2>2. CASE Cardinality(owners) = 1
    <3>1. owners # {}
      BY <2>2, FS_EmptySet
    <3>2. owner \in CatalogModules
      BY <3>1, <2>1
    <3>. HIDE DEF owners, owner
    <3>3. ModuleIn(c) \in {"", owner}
      BY <1>1, <3>2, Modules
    <3>. QED  BY <3>3, <3>2, <1>4
  <2>3. CASE Cardinality(owners) # 1
    BY <1>1, <2>3, <1>4
  <2>. QED  BY <2>2, <2>3
<1>. QED  BY <1>2, <1>3, <1>4 DEF ClauseFits

LEMMA RowSays ==
    ASSUME NEW t, TreeFits(t)
    PROVE  /\ ModuleOf(t) \in CatalogModules \cup {"__custom__"}
           /\ SeveritiesOf(t) \subseteq Levels
<1>1. PICK n \in Nat : n <= 2 /\ DOMAIN t.clauses = 1..n
  BY DEF TreeFits
<1>2. \A i \in 1..n : ClauseFits(t.clauses[i])
  BY <1>1 DEF TreeFits
<1>3. SeveritiesOf(t) \subseteq Levels
  <2>. DEFINE said == [i \in DOMAIN t.clauses |-> SeveritiesIn(t.clauses[i])]
  <2>1. DOMAIN said = 1..n
    BY <1>1
  <2>2. \A i \in 1..n : said[i] \subseteq Levels
    BY <1>1, <1>2 DEF ClauseFits, SeveritiesIn
  <2>3. SeveritiesOf(t) = FirstOr(t, said, {})
    BY DEF SeveritiesOf
  <2>. HIDE DEF said
  <2>4. FirstOr(t, said, {}) = {} \/ \E i \in 1..n : FirstOr(t, said, {}) = said[i]
    BY <1>1, <2>1, FirstSays
  <2>. QED  BY <2>2, <2>3, <2>4
<1>4. ModuleOf(t) \in CatalogModules \cup {"__custom__"}
  <2>. DEFINE said == [i \in DOMAIN t.clauses |-> ModuleIn(t.clauses[i])]
              m    == FirstOr(t, said, "")
  <2>1. DOMAIN said = 1..n
    BY <1>1
  <2>2. \A i \in 1..n : said[i] \in {"", "__custom__"} \cup CatalogModules
    BY <1>1, <1>2, SaidOfModule
  <2>3. ModuleOf(t) = IF m = "" THEN "__custom__" ELSE m
    BY DEF ModuleOf
  <2>. HIDE DEF said
  <2>4. m = "" \/ \E i \in 1..n : m = said[i]
    <3>1. \A e : FirstOr(t, said, e) = e \/ \E i \in 1..n : FirstOr(t, said, e) = said[i]
      BY <1>1, <2>1, FirstSays
    <3>. QED  BY <3>1, Zenon
  <2>. HIDE DEF m
  <2>. QED  BY <2>2, <2>3, <2>4
<1>. QED  BY <1>3, <1>4

LEMMA BuiltFits ==
    ASSUME NEW m \in CatalogModules \cup {"__custom__"}, NEW ss, ss # {}, ss \subseteq Levels
    PROVE  TreeFits(BuildSimpleMatch(m, ss)) /\ RuleSimple(BuildSimpleMatch(m, ss))
<1>. DEFINE t == BuildSimpleMatch(m, ss)
<1>1. /\ t.shape = "all" /\ DOMAIN t.clauses = 1..2
      /\ t.clauses[1] = [field |-> "module", values |-> {m}, negated |-> FALSE]
      /\ t.clauses[2] = [field |-> "severity", values |-> ss, negated |-> FALSE]
  BY DEF BuildSimpleMatch
<1>. HIDE DEF t
<1>2. ClauseFits(t.clauses[1]) /\ ClauseFits(t.clauses[2])
  BY <1>1 DEF ClauseFits
<1>3. \A i \in 1..2 : i = 1 \/ i = 2
  OBVIOUS
<1>4. TreeFits(t)
  BY <1>1, <1>2, <1>3 DEF TreeFits
<1>5. RuleSimple(t)
  BY <1>1, <1>3 DEF RuleSimple, SimpleFields
<1>. QED  BY <1>4, <1>5 DEF t

LEMMA RowsFit ==
    ASSUME NEW r \in RuleRows
    PROVE  RuleFits(r)
<1>1. r.tree \in Trees /\ r.active \in BOOLEAN /\ r.channels \in 0..2
      /\ r = [tree |-> r.tree, active |-> r.active, channels |-> r.channels]
  BY DEF RuleRows
<1>2. r.tree.shape \in {"all", "any"} /\ r.tree.clauses \in ClauseLists
  BY <1>1 DEF Trees
<1>3. PICK n \in 0..2 : r.tree.clauses \in [1..n -> Clauses]
  BY <1>2 DEF ClauseLists
<1>4. \A c \in Clauses : ClauseFits(c)
  <2>. SUFFICES ASSUME NEW c \in Clauses PROVE ClauseFits(c)
    OBVIOUS
  <2>1. CASE c \in [field : {"module"}, values : {{"ec2.host"}, {"aws.iam"}, {"aws.cloudtrail"}}, negated : BOOLEAN]
    <3>1. c.field = "module" /\ c.negated \in BOOLEAN
          /\ c.values \in {{"ec2.host"}, {"aws.iam"}, {"aws.cloudtrail"}}
      BY <2>1
    <3>. QED  BY <3>1, Modules DEF ClauseFits
  <2>2. CASE c \in [field : {"action"}, values : {{"iam.user.create"}, EventKinds}, negated : BOOLEAN]
    <3>1. c.field = "action" /\ c.negated \in BOOLEAN
      BY <2>2
    <3>. QED  BY <3>1 DEF ClauseFits
  <2>3. CASE c \in [field : {"severity"}, values : {{"high"}, Levels}, negated : {FALSE}]
    <3>1. c.field = "severity" /\ c.negated \in BOOLEAN /\ c.values \in {{"high"}, Levels}
      BY <2>3
    <3>. QED  BY <3>1 DEF ClauseFits, Levels
  <2>. QED  BY <2>1, <2>2, <2>3 DEF Clauses
<1>5. DOMAIN r.tree.clauses = 1..n /\ \A i \in 1..n : r.tree.clauses[i] \in Clauses
  BY <1>3
<1>6. TreeFits(r.tree)
  BY <1>2, <1>4, <1>5 DEF TreeFits
<1>. QED  BY <1>1, <1>6 DEF RuleFits

LEMMA RoutesStarts == RoutesInit => RoutesInv
<1>. SUFFICES ASSUME RoutesInit PROVE RoutesInv
  OBVIOUS
<1>. QED  BY RowsFit DEF RoutesInit, RoutesInv

(* Where another part moves.                                               *)
LEMMA RoutesAtRest == RoutesRest => RoutesInv
<1>. SUFFICES ASSUME RoutesRest PROVE RoutesInv
  OBVIOUS
<1>1. /\ routeRule.tree.shape = "all" /\ routeRule.tree.clauses = <<>>
      /\ routeRule.active = FALSE /\ routeRule.channels = 0
      /\ routeRule = [tree |-> routeRule.tree, active |-> routeRule.active, channels |-> routeRule.channels]
      /\ form = {} /\ savedOver = {}
  BY DEF RoutesRest
<1>2. DOMAIN routeRule.tree.clauses = 1..0
  BY <1>1
<1>3. TreeFits(routeRule.tree)
  <2>. DEFINE t == routeRule.tree
  <2>1. t.shape = "all" /\ DOMAIN t.clauses = 1..0
    BY <1>1, <1>2
  <2>. HIDE DEF t
  <2>2. \A i \in 1..0 : FALSE
    OBVIOUS
  <2>3. TreeFits(t)
    BY <2>1, <2>2 DEF TreeFits
  <2>. QED  BY <2>3 DEF t
<1>4. RuleFits(routeRule)
  <2>1. routeRule.active \in BOOLEAN
    BY <1>1
  <2>2. routeRule.channels \in 0..2
    BY <1>1
  <2>. QED  BY <2>1, <2>2, <1>1, <1>3 DEF RuleFits
<1>. QED  BY <1>1, <1>4 DEF RoutesInv

LEMMA RoutesStep == RoutesInv /\ RoutesNext => RoutesInv'
<1>. SUFFICES ASSUME RoutesInv, RoutesNext PROVE RoutesInv'
  OBVIOUS
<1>1. CASE OpensForm
  <2>1. /\ RuleSimple(routeRule.tree) /\ form' = {RouteRow(routeRule)} /\ savedOver' = {}
        /\ routeRule' = routeRule
    BY <1>1 DEF OpensForm
  <2>2. FormFits(RouteRow(routeRule))
    <3>1. TreeFits(routeRule.tree) /\ routeRule.active \in BOOLEAN
      BY DEF RoutesInv, RuleFits
    <3>. QED  BY <3>1, RowSays DEF FormFits, RouteRow
  <2>3. RuleFits(routeRule)
    BY DEF RoutesInv
  <2>. QED  BY <2>1, <2>2, <2>3 DEF RoutesInv
<1>2. CASE SavesForm
  <2>1. PICK f \in form :
           /\ Savable(f) /\ savedOver = {}
           /\ routeRule' = [tree |-> BuildSimpleMatch(f.module, f.severities), active |-> f.active, channels |-> 1]
           /\ savedOver' = {routeRule} /\ form' = form
    BY <1>2 DEF SavesForm
  <2>2. FormFits(f) /\ RuleFits(routeRule) /\ RuleSimple(routeRule.tree) /\ \A g \in form : g = f
    BY <2>1 DEF RoutesInv
  <2>3. TreeFits(BuildSimpleMatch(f.module, f.severities))
    BY <2>1, <2>2, BuiltFits DEF FormFits, Savable
  <2>4. f.active \in BOOLEAN
    BY <2>2 DEF FormFits
  <2>5. RuleFits(routeRule')
    BY <2>1, <2>3, <2>4 DEF RuleFits
  <2>. QED  BY <2>1, <2>2, <2>5 DEF RoutesInv
<1>3. CASE RewritesRule
  <2>1. form # {} /\ savedOver = {} /\ form' = form /\ savedOver' = savedOver
        /\ \/ routeRule' = [routeRule EXCEPT !.active = ~@]
           \/ routeRule' = [routeRule EXCEPT !.tree = BuildSimpleMatch("ec2.host", {"high"})]
    BY <1>3 DEF RewritesRule
  <2>2. RuleFits(routeRule) /\ RuleSimple(routeRule.tree)
    BY <2>1 DEF RoutesInv
  <2>3. TreeFits(BuildSimpleMatch("ec2.host", {"high"})) /\ RuleSimple(BuildSimpleMatch("ec2.host", {"high"}))
    BY BuiltFits, Modules DEF Levels
  <2>4. RuleFits(routeRule') /\ RuleSimple(routeRule'.tree)
    <3>1. CASE routeRule' = [routeRule EXCEPT !.active = ~@]
      <4>1. routeRule' = [tree |-> routeRule.tree, active |-> ~routeRule.active, channels |-> routeRule.channels]
        BY <3>1, <2>2 DEF RuleFits
      <4>. QED  BY <4>1, <2>2 DEF RuleFits
    <3>2. CASE routeRule' = [routeRule EXCEPT !.tree = BuildSimpleMatch("ec2.host", {"high"})]
      <4>1. routeRule' = [tree |-> BuildSimpleMatch("ec2.host", {"high"}), active |-> routeRule.active,
                          channels |-> routeRule.channels]
        BY <3>2, <2>2 DEF RuleFits
      <4>. QED  BY <4>1, <2>2, <2>3 DEF RuleFits
    <3>. QED  BY <2>1, <3>1, <3>2
  <2>5. \A f \in form : FormFits(f) /\ \A g \in form : f = g
    BY DEF RoutesInv
  <2>. QED  BY <2>1, <2>4, <2>5 DEF RoutesInv
<1>. QED  BY <1>1, <1>2, <1>3 DEF RoutesNext

LEMMA RoutesRests == RoutesInv /\ UNCHANGED routeVars => RoutesInv'
BY DEF RoutesInv, routeVars

(* A rule is a row of the table until the form is saved over it.           *)
RoutesTyped ==
    /\ savedOver = {} => routeRule \in RuleRows
    /\ savedOver \subseteq RuleRows /\ Len(routeRule.tree.clauses) <= 2

LEMMA RowsShort ==
    ASSUME NEW r \in RuleRows
    PROVE  Len(r.tree.clauses) <= 2
<1>1. r.tree.clauses \in ClauseLists
  BY DEF RuleRows, Trees
<1>2. PICK n \in 0..2 : r.tree.clauses \in [1..n -> Clauses]
  BY <1>1 DEF ClauseLists
<1>3. Len(r.tree.clauses) = n
  BY <1>2
<1>. QED  BY <1>3

LEMMA RoutesTypedAtFirst == RoutesInit \/ RoutesRest => RoutesTyped
<1>1. ASSUME RoutesInit PROVE RoutesTyped
  BY <1>1, RowsShort DEF RoutesInit, RoutesTyped
<1>2. ASSUME RoutesRest PROVE RoutesTyped
  <2>1. <<>> \in [1..0 -> Clauses]
    OBVIOUS
  <2>2. <<>> \in ClauseLists
    BY <2>1 DEF ClauseLists
  <2>3. routeRule \in RuleRows
    BY <1>2, <2>2 DEF RoutesRest, RuleRows, Trees
  <2>. QED  BY <1>2, <2>3, RowsShort DEF RoutesRest, RoutesTyped
<1>. QED  BY <1>1, <1>2

LEMMA BuiltIsARow ==
    /\ BuildSimpleMatch("ec2.host", {"high"}) \in Trees
    /\ \A m, ss : Len(BuildSimpleMatch(m, ss).clauses) = 2
<1>. DEFINE of   == [field |-> "module", values |-> {"ec2.host"}, negated |-> FALSE]
            high == [field |-> "severity", values |-> {"high"}, negated |-> FALSE]
<1>1. of \in Clauses /\ high \in Clauses
  BY DEF Clauses, Levels
<1>2. BuildSimpleMatch("ec2.host", {"high"}) = [shape |-> "all", clauses |-> <<of, high>>]
  BY DEF BuildSimpleMatch
<1>. HIDE DEF of, high
<1>3. <<of, high>> \in [1..2 -> Clauses]
  BY <1>1
<1>4. <<of, high>> \in ClauseLists
  BY <1>3 DEF ClauseLists
<1>5. BuildSimpleMatch("ec2.host", {"high"}) \in Trees
  BY <1>2, <1>4 DEF Trees
<1>6. \A m, ss : Len(BuildSimpleMatch(m, ss).clauses) = 2
  BY DEF BuildSimpleMatch
<1>. QED  BY <1>5, <1>6

LEMMA RoutesStayTyped == RoutesInv /\ RoutesTyped /\ RoutesNext => RoutesTyped'
<1>. SUFFICES ASSUME RoutesInv, RoutesTyped, RoutesNext PROVE RoutesTyped'
  OBVIOUS
<1>1. CASE OpensForm
  <2>1. savedOver = {} /\ savedOver' = {} /\ routeRule' = routeRule
    BY <1>1 DEF OpensForm, RoutesInv
  <2>. QED  BY <2>1 DEF RoutesTyped
<1>2. CASE SavesForm
  <2>1. PICK f \in form :
           /\ savedOver = {} /\ savedOver' = {routeRule}
           /\ routeRule' = [tree |-> BuildSimpleMatch(f.module, f.severities), active |-> f.active, channels |-> 1]
    BY <1>2 DEF SavesForm
  <2>2. Len(routeRule'.tree.clauses) = 2
    BY <2>1, BuiltIsARow
  <2>3. routeRule \in RuleRows
    BY <2>1 DEF RoutesTyped
  <2>4. savedOver' # {} /\ savedOver' \subseteq RuleRows
    BY <2>1, <2>3
  <2>. QED  BY <2>2, <2>4 DEF RoutesTyped
<1>3. CASE RewritesRule
  <2>1. /\ savedOver' = {} /\ routeRule \in RuleRows
        /\ \/ routeRule' = [routeRule EXCEPT !.active = ~@]
           \/ routeRule' = [routeRule EXCEPT !.tree = BuildSimpleMatch("ec2.host", {"high"})]
    BY <1>3 DEF RewritesRule, RoutesTyped
  <2>2. routeRule' \in RuleRows
    BY <2>1, BuiltIsARow DEF RuleRows
  <2>. QED  BY <2>1, <2>2, RowsShort DEF RoutesTyped
<1>. QED  BY <1>1, <1>2, <1>3 DEF RoutesNext

LEMMA RoutesRestTyped == RoutesTyped /\ UNCHANGED routeVars => RoutesTyped'
BY DEF RoutesTyped, routeVars

LEMMA RoutesAreTyped == RoutesInv /\ RoutesTyped => RoutesTypeOK
BY DEF RoutesInv, RoutesTyped, RoutesTypeOK, RuleFits, TreeFits, FormFits

LEMMA HoldsIs ==
    ASSUME NEW c, c.negated \in BOOLEAN, ~c.negated, NEW k, NEW s
    PROVE  /\ c.field = "module"   => (Holds(c, k, s) <=> Origin(k) \in c.values)
           /\ c.field = "action"   => (Holds(c, k, s) <=> k \in c.values)
           /\ c.field = "severity" => (Holds(c, k, s) <=> s \in c.values)
<1>1. c.field = "module" => (Holds(c, k, s) <=> ((Origin(k) \in c.values) # c.negated))
  BY DEF Holds
<1>2. c.field = "action" => (Holds(c, k, s) <=> ((k \in c.values) # c.negated))
  BY DEF Holds
<1>3. c.field = "severity" => (Holds(c, k, s) <=> ((s \in c.values) # c.negated))
  BY DEF Holds
<1>. QED  BY <1>1, <1>2, <1>3

LEMMA NoneTwice ==
    ASSUME NEW t, NEW f, NEW n \in Nat, DOMAIN t.clauses = 1..n, Once(t, f),
           NEW i \in 1..n, NEW j \in 1..n, t.clauses[i].field = f, t.clauses[j].field = f
    PROVE  i = j
<1>. DEFINE S == {x \in DOMAIN t.clauses : t.clauses[x].field = f}
<1>1. IsFiniteSet(S)
  <2>1. S \subseteq 1..n /\ IsFiniteSet(1..n)
    BY FS_Interval
  <2>. QED  BY <2>1, FS_Subset
<1>2. Cardinality(S) \in Nat /\ Cardinality(S) <= 1
  BY <1>1, FS_CardinalityType DEF Once
<1>3. i \in S /\ j \in S
  OBVIOUS
<1>. HIDE DEF S
<1>4. Cardinality(S) # 0
  BY <1>1, <1>3, FS_EmptySet
<1>5. PICK x : S = {x}
  <2>1. Cardinality(S) = 1
    BY <1>2, <1>4
  <2>. QED  BY <2>1, <1>1, FS_Singleton
<1>. QED  BY <1>3, <1>5

(* What is saved over a rule with one clause on the module, of an adapter  *)
(* that events come from, and one on the severity is that rule again.      *)
LEMMA SavedSelects ==
    ASSUME NEW t, TreeFits(t), RuleSimple(t), Once(t, "module"), Once(t, "severity"),
           ModuleOf(t) # "__custom__", ~SaysModule(t, {"aws.cloudtrail"}), SeveritiesOf(t) # {},
           NEW k \in EventKinds, NEW s \in Levels
    PROVE  Selects(BuildSimpleMatch(ModuleOf(t), SeveritiesOf(t)), k, s) <=> Selects(t, k, s)
<1>1. PICK n \in Nat : n <= 2 /\ DOMAIN t.clauses = 1..n
  BY DEF TreeFits
<1>2. \A i \in 1..n : /\ ClauseFits(t.clauses[i]) /\ ~t.clauses[i].negated
                      /\ t.clauses[i].field \in {"module", "severity"}
  BY <1>1 DEF TreeFits, RuleSimple, SimpleFields
<1>3. t.shape = "all"
  BY DEF RuleSimple
<1>4. PICK a \in 1..n : t.clauses[a].field = "severity" /\ t.clauses[a].values = SeveritiesOf(t)
  <2>. DEFINE said == [i \in DOMAIN t.clauses |-> SeveritiesIn(t.clauses[i])]
  <2>1. DOMAIN said = 1..n
    BY <1>1
  <2>2. SeveritiesOf(t) = FirstOr(t, said, {})
    BY DEF SeveritiesOf
  <2>3. \A i \in 1..n : said[i] = SeveritiesIn(t.clauses[i])
    BY <1>1
  <2>. HIDE DEF said
  <2>4. FirstOr(t, said, {}) = {} \/ \E i \in 1..n : FirstOr(t, said, {}) = said[i]
    BY <1>1, <2>1, FirstSays
  <2>5. PICK i \in 1..n : said[i] = SeveritiesOf(t)
    BY <2>2, <2>4
  <2>. QED  BY <2>3, <2>5 DEF SeveritiesIn
<1>5. PICK b \in 1..n : /\ t.clauses[b].field = "module" /\ ModuleIn(t.clauses[b]) = ModuleOf(t)
  <2>. DEFINE said == [i \in DOMAIN t.clauses |-> ModuleIn(t.clauses[i])]
              m    == FirstOr(t, said, "")
  <2>1. DOMAIN said = 1..n
    BY <1>1
  <2>2. ModuleOf(t) = m /\ m # ""
    BY DEF ModuleOf
  <2>3. \A i \in 1..n : said[i] = ModuleIn(t.clauses[i])
    BY <1>1
  <2>. HIDE DEF said
  <2>7. \A e : FirstOr(t, said, e) = e \/ \E i \in 1..n : FirstOr(t, said, e) = said[i]
    BY <1>1, <2>1, FirstSays
  <2>6. FirstOr(t, said, "") = "" \/ \E i \in 1..n : FirstOr(t, said, "") = said[i]
    BY <2>7, Zenon
  <2>4. PICK i \in 1..n : said[i] = m
    BY <2>2, <2>6
  <2>5. t.clauses[i].field # "severity"
    <3>. SUFFICES ASSUME t.clauses[i].field = "severity" PROVE FALSE
      OBVIOUS
    <3>1. ModuleIn(t.clauses[i]) = ""
      BY DEF ModuleIn
    <3>. QED  BY <3>1, <2>2, <2>3, <2>4
  <2>. HIDE DEF m
  <2>. QED  BY <2>2, <2>3, <2>4, <2>5, <1>2
<1>6. t.clauses[b].values = {ModuleOf(t)}
  <2>1. PICK x : t.clauses[b].values = {x}
    BY <1>5, <1>2 DEF ClauseFits
  <2>2. x # "aws.cloudtrail"
    BY <2>1, <1>1, <1>5 DEF SaysModule
  <2>3. ModuleIn(t.clauses[b]) = x
    BY <2>1, <2>2, <1>2, <1>5, SaidOfModule
  <2>. QED  BY <2>1, <2>3, <1>5
<1>7. \A i \in 1..n : i = a \/ i = b
  <2>1. \A i \in 1..n : /\ t.clauses[i].field = "severity" => i = a
                        /\ t.clauses[i].field = "module" => i = b
    BY <1>1, <1>4, <1>5, NoneTwice
  <2>. QED  BY <2>1, <1>2
<1>8. Selects(t, k, s) <=> Holds(t.clauses[a], k, s) /\ Holds(t.clauses[b], k, s)
  BY <1>1, <1>3, <1>7 DEF Selects
<1>9. /\ Holds(t.clauses[a], k, s) <=> s \in SeveritiesOf(t)
      /\ Holds(t.clauses[b], k, s) <=> Origin(k) = ModuleOf(t)
  BY <1>2, <1>4, <1>5, <1>6 DEF Holds, ClauseFits
<1>10. Selects(BuildSimpleMatch(ModuleOf(t), SeveritiesOf(t)), k, s)
          <=> s \in SeveritiesOf(t) /\ Origin(k) = ModuleOf(t)
  <2>. DEFINE u  == BuildSimpleMatch(ModuleOf(t), SeveritiesOf(t))
  <2>1. /\ u.shape = "all" /\ DOMAIN u.clauses = 1..2
        /\ u.clauses[1] = [field |-> "module", values |-> {ModuleOf(t)}, negated |-> FALSE]
        /\ u.clauses[2] = [field |-> "severity", values |-> SeveritiesOf(t), negated |-> FALSE]
    BY DEF BuildSimpleMatch
  <2>5. /\ u.clauses[1].field = "module" /\ u.clauses[1].values = {ModuleOf(t)}
        /\ u.clauses[1].negated = FALSE /\ u.clauses[2].negated = FALSE
        /\ u.clauses[2].field = "severity" /\ u.clauses[2].values = SeveritiesOf(t)
    BY <2>1
  <2>2. \A i \in 1..2 : i = 1 \/ i = 2
    OBVIOUS
  <2>. HIDE DEF u
  <2>3. Selects(u, k, s) <=> Holds(u.clauses[1], k, s) /\ Holds(u.clauses[2], k, s)
    BY <2>1, <2>2 DEF Selects
  <2>4. /\ Holds(u.clauses[1], k, s) <=> Origin(k) = ModuleOf(t)
        /\ Holds(u.clauses[2], k, s) <=> s \in SeveritiesOf(t)
    <3>. DEFINE v == u.clauses[1]
                w == u.clauses[2]
    <3>1. v.negated \in BOOLEAN /\ ~v.negated /\ w.negated \in BOOLEAN /\ ~w.negated
      BY <2>5
    <3>2. /\ v.field = "module" => (Holds(v, k, s) <=> Origin(k) \in v.values)
          /\ w.field = "severity" => (Holds(w, k, s) <=> s \in w.values)
      <4>. HIDE DEF v, w
      <4>. QED  BY <3>1, HoldsIs
    <3>. QED  BY <3>2, <2>5
  <2>. QED  BY <2>3, <2>4 DEF u
<1>. QED  BY <1>8, <1>9, <1>10

LEMMA CoverageAgrees ==
    ASSUME RuleFits(routeRule), Direct(routeRule.tree), Aimed(routeRule.tree), NEW k \in EventKinds
    PROVE  LET sent == {s \in Levels : /\ Selects(routeRule.tree, k, s)
                                       /\ routeRule.active /\ routeRule.channels > 0}
           IN  /\ sent # {} => CoverageOf(k) = "fallback"
               /\ CoverageOf(k) = "fallback" => sent # {} \/ SaysModule(routeRule.tree, {"aws.iam"})
               /\ "high" \in sent => ~HighGap(k) \/ RuleSeverities(routeRule) = {}
<1>. DEFINE t == routeRule.tree
<1>1. PICK n \in Nat : n <= 2 /\ DOMAIN t.clauses = 1..n
  BY DEF RuleFits, TreeFits
<1>2. \A i \in 1..n : ClauseFits(t.clauses[i]) /\ ~t.clauses[i].negated
  BY <1>1 DEF RuleFits, TreeFits, Direct
<1>3. t.shape = "all"
  BY DEF Direct
<1>4. PICK b \in 1..n : /\ t.clauses[b].field \in {"module", "action"}
                        /\ \A i \in 1..n : i # b => t.clauses[i].field = "severity"
  <2>. DEFINE A == {i \in DOMAIN t.clauses : t.clauses[i].field \in {"module", "action"}}
  <2>1. IsFiniteSet(A)
    <3>1. A \subseteq {1} \cup {2}
      BY <1>1
    <3>2. IsFiniteSet({1} \cup {2})
      BY FS_Singleton, FS_AddElement
    <3>. QED  BY <3>1, <3>2, FS_Subset
  <2>2. Cardinality(A) = 1
    BY DEF Aimed
  <2>. HIDE DEF A
  <2>3. PICK b : A = {b}
    BY <2>1, <2>2, FS_Singleton
  <2>4. b \in 1..n /\ t.clauses[b].field \in {"module", "action"}
        /\ \A i \in 1..n : i # b => t.clauses[i].field \notin {"module", "action"}
    BY <2>3, <1>1 DEF A
  <2>. QED  BY <2>4, <1>2 DEF ClauseFits
<1>. DEFINE c == t.clauses[b]
            others == {t.clauses[i] : i \in (1..n) \ {b}}
<1>5. /\ LeavesOf(t) = {c} \cup others
      /\ \A d \in others : d.field = "severity" /\ d.values # {} /\ d.values \subseteq Levels
                           /\ d.negated \in BOOLEAN /\ ~d.negated /\ d.field # "module" /\ d.field # "action"
      /\ c.negated \in BOOLEAN /\ ~c.negated /\ ClauseFits(c) /\ c.field \in {"module", "action"}
  <2>1. LeavesOf(t) = {t.clauses[i] : i \in 1..n}
    BY <1>1 DEF LeavesOf
  <2>2. LeavesOf(t) = {c} \cup others
    BY <2>1, <1>4
  <2>. QED  BY <2>2, <1>2, <1>4 DEF ClauseFits
<1>6. \A s \in Levels : Selects(t, k, s) <=> Holds(c, k, s) /\ \A d \in others : Holds(d, k, s)
  <2>. SUFFICES ASSUME NEW s \in Levels
                PROVE  Selects(t, k, s) <=> Holds(c, k, s) /\ \A d \in others : Holds(d, k, s)
    OBVIOUS
  <2>1. Selects(t, k, s) <=> \A i \in 1..n : Holds(t.clauses[i], k, s)
    BY <1>1, <1>3 DEF Selects
  <2>. QED  BY <2>1, <1>4
<1>7. \A d, e \in others : d = e
  <2>1. \A i, j \in (1..n) \ {b} : i = j
    BY <1>1, <1>4
  <2>. QED  BY <2>1
<1>8. \A s \in Levels, d \in others : Holds(d, k, s) <=> s \in d.values
  BY <1>5, HoldsIs
<1>9. RuleSeverities(routeRule) = UNION {d.values : d \in others}
  <2>1. {d \in LeavesOf(t) : d.field = "severity"} = others
    BY <1>5
  <2>. QED  BY <2>1 DEF RuleSeverities
<1>10. /\ c.field = "action" => (Covers(routeRule, k) <=> k \in c.values)
       /\ c.field = "module" => (Covers(routeRule, k) <=> c.values \subseteq {Catalog(k), Origin(k)})
  <2>. DEFINE named == {d \in LeavesOf(t) : d.field = "action"}
  <2>1. Covers(routeRule, k) <=> IF named # {} THEN \E d \in named : k \in d.values
           ELSE \E d \in LeavesOf(t) : d.field = "module" /\ d.values \subseteq {Catalog(k), Origin(k)}
    BY DEF Covers
  <2>2. c.field = "action" => named = {c}
    BY <1>5
  <2>3. c.field = "module" => named = {} /\ {d \in LeavesOf(t) : d.field = "module"} = {c}
    BY <1>5
  <2>. HIDE DEF named, c
  <2>. QED  BY <2>1, <2>2, <2>3
<1>11. \A s \in Levels : /\ c.field = "action" => (Holds(c, k, s) <=> k \in c.values)
                         /\ c.field = "module" => (Holds(c, k, s) <=> Origin(k) \in c.values)
  <2>. SUFFICES ASSUME NEW s \in Levels
                PROVE  /\ c.field = "action" => (Holds(c, k, s) <=> k \in c.values)
                       /\ c.field = "module" => (Holds(c, k, s) <=> Origin(k) \in c.values)
    OBVIOUS
  <2>1. c.negated \in BOOLEAN /\ ~c.negated
    BY <1>5
  <2>. HIDE DEF c
  <2>. QED  BY <2>1, HoldsIs
<1>12. CoverageOf(k) = "fallback" <=> Covers(routeRule, k) /\ routeRule.channels > 0 /\ routeRule.active
  BY DEF CoverageOf, FallbackFor
<1>13. c.field = "module" => \E m : c.values = {m}
  BY <1>5 DEF ClauseFits
<1>14. \A s \in Levels : Holds(c, k, s) => Covers(routeRule, k)
  BY <1>10, <1>11, <1>13, <1>5
<1>15. Covers(routeRule, k) => SaysModule(t, {"aws.iam"}) \/ \A s \in Levels : Holds(c, k, s)
  <2>. SUFFICES ASSUME Covers(routeRule, k), c.field = "module"
                PROVE  SaysModule(t, {"aws.iam"}) \/ \A s \in Levels : Holds(c, k, s)
    BY <1>5, <1>10, <1>11
  <2>1. c.values = {Catalog(k)} \/ c.values = {Origin(k)}
    BY <1>10, <1>13
  <2>2. CASE c.values = {Origin(k)}
    BY <2>2, <1>11
  <2>3. CASE c.values = {Catalog(k)} /\ Catalog(k) # Origin(k)
    <3>1. Catalog(k) = "aws.iam"
      BY <2>3 DEF Catalog, Origin
    <3>. QED  BY <3>1, <2>3, <1>1, <1>4 DEF SaysModule
  <2>. QED  BY <2>1, <2>2, <2>3
<1>. DEFINE sent == {s \in Levels : Selects(t, k, s) /\ routeRule.active /\ routeRule.channels > 0}
<1>. HIDE DEF t, c, others
<1>16. \A s \in sent : Covers(routeRule, k) /\ routeRule.active /\ routeRule.channels > 0
  BY <1>6, <1>14
<1>17. sent # {} => CoverageOf(k) = "fallback"
  BY <1>12, <1>16
<1>18. \E s \in Levels : \A d \in others : s \in d.values
  <2>1. CASE others = {}
    BY <2>1 DEF Levels
  <2>2. CASE others # {}
    <3>1. PICK d \in others : \A e \in others : e = d
      BY <2>2, <1>7
    <3>2. PICK s \in d.values : s \in Levels
      BY <3>1, <1>5
    <3>. QED  BY <3>1, <3>2
  <2>. QED  BY <2>1, <2>2
<1>19. CoverageOf(k) = "fallback" => sent # {} \/ SaysModule(t, {"aws.iam"})
  <2>. SUFFICES ASSUME CoverageOf(k) = "fallback", ~SaysModule(t, {"aws.iam"}) PROVE sent # {}
    OBVIOUS
  <2>1. routeRule.active /\ routeRule.channels > 0 /\ \A s \in Levels : Holds(c, k, s)
    BY <1>12, <1>15
  <2>2. PICK s \in Levels : \A d \in others : s \in d.values
    BY <1>18
  <2>3. Selects(t, k, s)
    BY <2>1, <2>2, <1>6, <1>8
  <2>4. s \in sent
    BY <2>1, <2>3
  <2>. QED  BY <2>4
<1>20. "high" \in sent => ~HighGap(k) \/ RuleSeverities(routeRule) = {}
  <2>. SUFFICES ASSUME "high" \in sent, RuleSeverities(routeRule) # {} PROVE ~HighGap(k)
    OBVIOUS
  <2>1. Selects(t, k, "high") /\ "high" \in Levels
    BY DEF Levels
  <2>2. \A d \in others : "high" \in d.values
    BY <2>1, <1>6, <1>8
  <2>3. PICK d \in others : TRUE
    BY <1>9
  <2>4. "high" \in RuleSeverities(routeRule)
    BY <2>2, <2>3, <1>9
  <2>5. Covers(routeRule, k)
    BY <1>16
  <2>. QED  BY <2>4, <2>5 DEF HighGap
<1>. HIDE DEF sent
<1>21. sent = {s \in Levels : /\ Selects(routeRule.tree, k, s)
                              /\ routeRule.active /\ routeRule.channels > 0}
  BY DEF sent, t
<1>. QED  BY <1>17, <1>19, <1>20, <1>21 DEF t

LEMMA RoutesCovers == RoutesInv => RoutesShown
<1>. SUFFICES ASSUME RoutesInv PROVE RoutesShown
  OBVIOUS
<1>1. ASSUME NEW r \in savedOver, NEW f \in form,
             RouteRow(r) = f, Once(r.tree, "module"), Once(r.tree, "severity"),
             f.module # "__custom__", ~SaysModule(r.tree, {"aws.cloudtrail"}),
             NEW k \in EventKinds, NEW s \in Levels
      PROVE  Selects(routeRule.tree, k, s) <=> Selects(r.tree, k, s)
  <2>1. f.module = ModuleOf(r.tree) /\ f.severities = SeveritiesOf(r.tree)
    BY <1>1 DEF RouteRow
  <2>2. /\ TreeFits(r.tree) /\ RuleSimple(r.tree) /\ f.severities # {}
        /\ routeRule.tree = BuildSimpleMatch(f.module, f.severities)
    BY <1>1 DEF RoutesInv, RuleFits, Savable
  <2>. QED  BY <1>1, <2>1, <2>2, SavedSelects
<1>2. Direct(routeRule.tree) /\ Aimed(routeRule.tree) =>
          \A k \in EventKinds :
             LET sent == {s \in Levels : /\ Selects(routeRule.tree, k, s)
                                         /\ routeRule.active /\ routeRule.channels > 0}
             IN  /\ sent # {} => CoverageOf(k) = "fallback"
                 /\ CoverageOf(k) = "fallback" => sent # {} \/ SaysModule(routeRule.tree, {"aws.iam"})
                 /\ "high" \in sent => ~HighGap(k) \/ RuleSeverities(routeRule) = {}
  <2>1. RuleFits(routeRule)
    BY DEF RoutesInv
  <2>. QED  BY <2>1, CoverageAgrees
<1>. QED  BY <1>1, <1>2 DEF RoutesShown

(* A form that is saved as it was opened selects what the rule selected,   *)
(* but for the rules the property excepts, and the coverage page agrees    *)
(* with the notifier (build_simple_match, _rule_covers_event).             *)
THEOREM RoutesHold == RoutesSpec => []RoutesShown
<1>1. RoutesSpec => []RoutesInv
  BY RoutesStarts, RoutesStep, RoutesRests, PTL DEF RoutesSpec
<1>. QED  BY <1>1, RoutesCovers, PTL

-----------------------------------------------------------------------------
(* EventMatching.                                                          *)

(* An event is scored once, by the rules there are.                        *)
MatchInv ==
    /\ rulebook \in Rulebooks /\ incoming \in Incident
    /\ \A e \in scored : e = Judges(incoming)

LEMMA RankOf ==
    /\ Rank("none") = -1 /\ Rank("informational") = 1 /\ Rank("low") = 2
    /\ Rank("medium") = 3 /\ Rank("high") = 4 /\ Rank("critical") = 5
<1>1. /\ SeverityOrder[1] = "informational" /\ SeverityOrder[2] = "low" /\ SeverityOrder[3] = "medium"
      /\ SeverityOrder[4] = "high" /\ SeverityOrder[5] = "critical"
  BY DEF SeverityOrder
<1>2. \A n \in 1..5 : n = 1 \/ n = 2 \/ n = 3 \/ n = 4 \/ n = 5
  OBVIOUS
<1>3. \A m \in 1..5 : Rank(SeverityOrder[m]) = m
  <2>. SUFFICES ASSUME NEW m \in 1..5 PROVE Rank(SeverityOrder[m]) = m
    OBVIOUS
  <2>1. \A n \in 1..5 : SeverityOrder[n] = SeverityOrder[m] => n = m
    BY <1>1, <1>2
  <2>2. (CHOOSE n \in 1..5 : SeverityOrder[n] = SeverityOrder[m]) = m
    BY <2>1
  <2>3. SeverityOrder[m] # "none"
    BY <1>1, <1>2
  <2>. QED  BY <2>2, <2>3 DEF Rank
<1>4. Rank("none") = -1
  BY DEF Rank
<1>. QED  BY <1>1, <1>3, <1>4

LEMMA NamedAre == Named = {"informational", "low", "medium", "high", "critical"}
<1>1. /\ SeverityOrder[1] = "informational" /\ SeverityOrder[2] = "low" /\ SeverityOrder[3] = "medium"
      /\ SeverityOrder[4] = "high" /\ SeverityOrder[5] = "critical"
  BY DEF SeverityOrder
<1>2. \A n \in 1..5 : n = 1 \/ n = 2 \/ n = 3 \/ n = 4 \/ n = 5
  OBVIOUS
<1>. QED  BY <1>1, <1>2 DEF Named

LEMMA Ranked ==
    /\ \A s \in Named \cup {"none"} : Rank(s) \in Int
    /\ \A s, t \in Named : Rank(s) = Rank(t) => s = t
    /\ \A s \in Named : Rank(s) > Rank("none")
    /\ \A s \in CardThreshold : s \in Named /\ Rank(s) > Rank("informational")
    /\ "none" \notin Named
BY RankOf, NamedAre DEF CardThreshold

LEMMA LeavesAre ==
    ASSUME NEW e, NEW v
    PROVE  /\ LeafHolds(Leaf("severity", "in", v), e) <=> ({e.severity} \ {"none"}) \cap v # {}
           /\ LeafHolds(Leaf("source.module", "in", v), e) <=> e.module \in v
           /\ LeafHolds(Leaf("source.module", "equals", v), e) <=> {e.module} = v
           /\ LeafHolds(Leaf("action", "in", v), e) <=> e.action \in v
           /\ LeafHolds(Leaf("action", "icontains", v), e) <=> e.action \in v
           /\ LeafHolds(Leaf("action", "regex", v), e) <=> e.action \in v
           /\ LeafHolds(Leaf("action", "equals", v), e) <=> {e.action} = v
           /\ LeafHolds(Leaf("action", "exists", v), e)
           /\ LeafHolds(Leaf("tags", "in", v), e) <=> e.tags \cap v # {}
<1>1. /\ FieldOf(e, "severity") = {e.severity} \ {"none"}
      /\ FieldOf(e, "source.module") = {e.module}
      /\ FieldOf(e, "action") = {e.action}
      /\ FieldOf(e, "tags") = e.tags
  BY DEF FieldOf
<1>2. \A f : /\ LeafHolds(Leaf(f, "equals", v), e) <=> FieldOf(e, f) = v
             /\ LeafHolds(Leaf(f, "exists", v), e) <=> FieldOf(e, f) # {}
             /\ LeafHolds(Leaf(f, "in", v), e) <=> FieldOf(e, f) \cap v # {}
             /\ LeafHolds(Leaf(f, "icontains", v), e) <=> FieldOf(e, f) \cap v # {}
             /\ LeafHolds(Leaf(f, "regex", v), e) <=> FieldOf(e, f) \cap v # {}
  BY DEF LeafHolds, Leaf
<1>. QED  BY <1>1, <1>2

LEMMA SeverityIn ==
    ASSUME NEW e, e.severity \in Named \cup {"none"}, NEW v, v \subseteq Named
    PROVE  LeafHolds(Leaf("severity", "in", v), e) <=> e.severity \in v
<1>1. "none" \notin v
  BY Ranked
<1>2. LeafHolds(Leaf("severity", "in", v), e) <=> ({e.severity} \ {"none"}) \cap v # {}
  BY LeavesAre
<1>. QED  BY <1>1, <1>2

(* A rule that was seeded from a route matches what the route did.         *)
LEMMA SeededMatches ==
    ASSUME NEW r \in Route, NEW e \in Incident
    PROVE  RouteMatches(r, e) <=> r.enabled /\ EvalCondition(RouteCondition(r), e)
<1>. DEFINE least    == {Leaf("severity", "in", {s \in Named : Rank(s) >= Rank(x)}) : x \in r.least}
            severity == {Leaf("severity", "in", v) : v \in r.severity}
            modules  == {Leaf("source.module", "in", v) : v \in r.modules}
            actions  == {Leaf("action", "in", v) : v \in r.actions}
            tags     == {Leaf("tags", "in", v) : v \in r.tags}
            clauses  == least \cup severity \cup modules \cup actions \cup tags
<1>1. /\ r.enabled \in BOOLEAN /\ r.least \in Given(Named) /\ r.severity \in Given({{}, {"low", "critical"}})
  BY DEF Route
<1>2. e.severity \in Named \cup {"none"}
  BY DEF Incident
<1>3. \A x \in r.least : x \in Named
  BY <1>1 DEF Given
<1>4. \A v \in r.severity : v \subseteq Named
  BY <1>1, NamedAre DEF Given
<1>5. (\A l \in least : LeafHolds(l, e)) <=> \A x \in r.least : Rank(e.severity) >= Rank(x)
  <2>. SUFFICES ASSUME NEW x \in r.least
                PROVE  LeafHolds(Leaf("severity", "in", {s \in Named : Rank(s) >= Rank(x)}), e)
                          <=> Rank(e.severity) >= Rank(x)
    OBVIOUS
  <2>. DEFINE v == {s \in Named : Rank(s) >= Rank(x)}
  <2>1. LeafHolds(Leaf("severity", "in", v), e) <=> e.severity \in v
    BY <1>2, SeverityIn
  <2>2. e.severity = "none" => ~(Rank(e.severity) >= Rank(x))
    BY <1>3, Ranked
  <2>. QED  BY <1>2, <2>1, <2>2
<1>6. (\A l \in severity : LeafHolds(l, e)) <=> \A v \in r.severity : e.severity \in v
  BY <1>2, <1>4, SeverityIn
<1>7. (\A l \in modules : LeafHolds(l, e)) <=> \A v \in r.modules : e.module \in v
  BY LeavesAre
<1>8. (\A l \in actions : LeafHolds(l, e)) <=> \A v \in r.actions : e.action \in v
  BY LeavesAre
<1>9. (\A l \in tags : LeafHolds(l, e)) <=> \A v \in r.tags : v \cap e.tags # {}
  BY LeavesAre
<1>10. RouteCondition(r) = IF clauses = {} THEN {Leaf("action", "exists", {})} ELSE clauses
  BY DEF RouteCondition
<1>. HIDE DEF least, severity, modules, actions, tags
<1>11. EvalCondition(RouteCondition(r), e) <=> \A l \in clauses : LeafHolds(l, e)
  <2>1. LeafHolds(Leaf("action", "exists", {}), e)
    BY LeavesAre
  <2>2. CASE clauses = {}
    <3>1. RouteCondition(r) = {Leaf("action", "exists", {})}
      BY <1>10, <2>2
    <3>. QED  BY <2>1, <2>2, <3>1 DEF EvalCondition
  <2>3. CASE clauses # {}
    <3>1. RouteCondition(r) = clauses
      BY <1>10, <2>3
    <3>. QED  BY <3>1 DEF EvalCondition
  <2>. QED  BY <2>2, <2>3
<1>12. EvalCondition(RouteCondition(r), e) <=>
          /\ \A l \in least : LeafHolds(l, e)
          /\ \A l \in severity : LeafHolds(l, e)
          /\ \A l \in modules : LeafHolds(l, e)
          /\ \A l \in actions : LeafHolds(l, e)
          /\ \A l \in tags : LeafHolds(l, e)
  BY <1>11
<1>. QED  BY <1>5, <1>6, <1>7, <1>8, <1>9, <1>12 DEF RouteMatches

LEMMA BestIs ==
    ASSUME NEW ds, NEW c \in Detection, NEW d \in Detection, ds \subseteq {c, d}, ds # {}
    PROVE  \E b \in ds : Best(ds) = b.severity /\ \A x \in ds : Rank(b.severity) >= Rank(x.severity)
<1>1. Rank(c.severity) \in Int /\ Rank(d.severity) \in Int
  <2>1. c.severity \in {"none", "low", "high"} /\ d.severity \in {"none", "low", "high"}
    BY DEF Detection
  <2>. QED  BY <2>1, RankOf
<1>2. \E b \in ds : \A x \in ds : Rank(b.severity) >= Rank(x.severity)
  BY <1>1
<1>. DEFINE best == CHOOSE b \in ds : \A x \in ds : Rank(b.severity) >= Rank(x.severity)
<1>3. best \in ds /\ \A x \in ds : Rank(best.severity) >= Rank(x.severity)
  BY <1>2
<1>4. Best(ds) = best.severity
  BY DEF Best
<1>. QED  BY <1>3, <1>4

(* The severity that the rules put an event at.                            *)
LEMMA JudgesSays ==
    ASSUME MatchInv, NEW e, e = Judges(incoming)
    PROVE  /\ e.module = incoming.module /\ e.action = incoming.action
           /\ e.severity \in Named \cup {"none"}
           /\ \A t \in CardThreshold :
                 Rank(e.severity) >= Rank(t) <=>
                    IF Matched(incoming) = {} THEN Rank(incoming.severity) >= Rank(t)
                    ELSE /\ \A d \in Matched(incoming) : ~d.suppress
                         /\ \E d \in Matched(incoming) : Rank(d.severity) >= Rank(t)
<1>. DEFINE ds == Matched(incoming)
<1>1. /\ incoming \in Incident /\ rulebook \in Rulebooks
  BY DEF MatchInv
<1>2. incoming.severity \in Named \cup {"none"}
      /\ incoming = [module |-> incoming.module, action |-> incoming.action,
                     severity |-> incoming.severity, tags |-> incoming.tags]
  BY <1>1 DEF Incident
<1>3. ds \subseteq rulebook
  BY DEF Matched
<1>4. e = IF ds = {} THEN incoming
          ELSE IF \E d \in ds : d.suppress
          THEN [incoming EXCEPT !.severity = "informational", !.tags = @ \cup {"suppressed"}]
          ELSE [incoming EXCEPT !.severity = Best(ds)]
  BY DEF Judges
<1>. HIDE DEF ds
<1>5. CASE ds = {}
  BY <1>2, <1>4, <1>5 DEF ds
<1>6. CASE ds # {} /\ \E d \in ds : d.suppress
  <2>1. e = [incoming EXCEPT !.severity = "informational", !.tags = @ \cup {"suppressed"}]
    BY <1>4, <1>6
  <2>2. /\ e.module = incoming.module /\ e.action = incoming.action /\ e.severity = "informational"
    BY <1>2, <2>1
  <2>3. "informational" \in Named
    BY NamedAre
  <2>4. \A t \in CardThreshold : ~(Rank(e.severity) >= Rank(t))
    BY <2>2, <2>3, Ranked
  <2>. QED  BY <1>6, <2>2, <2>3, <2>4 DEF ds
<1>7. CASE ds # {} /\ \A d \in ds : ~d.suppress
  <2>1. PICK c \in Detection, d \in Detection : rulebook = {c, d}
    BY <1>1, <1>3, <1>7 DEF Rulebooks
  <2>2. PICK b \in ds : Best(ds) = b.severity /\ \A x \in ds : Rank(b.severity) >= Rank(x.severity)
    BY <1>3, <1>7, <2>1, BestIs
  <2>3. e = [incoming EXCEPT !.severity = Best(ds)]
    BY <1>4, <1>7
  <2>4. /\ e.module = incoming.module /\ e.action = incoming.action /\ e.severity = b.severity
    BY <1>2, <2>2, <2>3
  <2>5. \A x \in ds : x.severity \in Named \cup {"none"}
    BY <1>3, <2>1, NamedAre DEF Detection
  <2>6. \A t \in CardThreshold : Rank(e.severity) >= Rank(t) <=> \E x \in ds : Rank(x.severity) >= Rank(t)
    <3>. SUFFICES ASSUME NEW t \in CardThreshold
                  PROVE  Rank(e.severity) >= Rank(t) <=> \E x \in ds : Rank(x.severity) >= Rank(t)
      OBVIOUS
    <3>1. Rank(t) \in Int /\ Rank(b.severity) \in Int /\ \A x \in ds : Rank(x.severity) \in Int
      BY <2>5, Ranked
    <3>. QED  BY <2>2, <2>4, <3>1
  <2>. QED  BY <1>7, <2>4, <2>5, <2>6 DEF ds
<1>. QED  BY <1>5, <1>6, <1>7

LEMMA CardShown ==
    ASSUME NEW m, NEW t \in CardThreshold
    PROVE  ThresholdOf(CardMatch(m, t)) = t
<1>1. \A u \in CardThreshold : Leaf("severity", "in", Includes(u)) \in CardMatch(m, t) => u = t
  <2>. SUFFICES ASSUME NEW u \in CardThreshold, Leaf("severity", "in", Includes(u)) \in CardMatch(m, t)
                PROVE  u = t
    OBVIOUS
  <2>1. \/ Leaf("severity", "in", Includes(u)) = Leaf("source.module", "equals", {m})
        \/ Leaf("severity", "in", Includes(u)) = Leaf("severity", "in", Includes(t))
    BY DEF CardMatch
  <2>2. Includes(u) = Includes(t)
    BY <2>1 DEF Leaf
  <2>3. u \in Named /\ t \in Named /\ Rank(u) \in Int /\ Rank(t) \in Int
    BY Ranked
  <2>4. u \in Includes(u) /\ t \in Includes(t)
    BY <2>3 DEF Includes
  <2>5. Rank(u) >= Rank(t) /\ Rank(t) >= Rank(u)
    BY <2>2, <2>4 DEF Includes
  <2>6. Rank(u) = Rank(t)
    BY <2>3, <2>5
  <2>. QED  BY <2>3, <2>6, Ranked
<1>2. Leaf("severity", "in", Includes(t)) \in CardMatch(m, t)
  BY DEF CardMatch
<1>3. {u \in CardThreshold : Leaf("severity", "in", Includes(u)) \in CardMatch(m, t)} = {t}
  BY <1>1, <1>2
<1>. QED  BY <1>3 DEF ThresholdOf

LEMMA MatchStarts == MatchInit => MatchInv
BY DEF MatchInit, MatchInv

(* Where another part moves.                                               *)
LEMMA MatchAtRest == MatchRests => MatchInv
<1>. SUFFICES ASSUME MatchRests PROVE MatchInv
  OBVIOUS
<1>1. rulebook \in Rulebooks
  BY DEF MatchRests, Rulebooks
<1>2. incoming \in Incident
  BY NamedAre DEF MatchRests, Incident, Actions
<1>. QED  BY <1>1, <1>2 DEF MatchRests, MatchInv

LEMMA MatchStep == MatchInv /\ MatchNext => MatchInv'
<1>. SUFFICES ASSUME MatchInv, MatchNext PROVE MatchInv'
  OBVIOUS
<1>1. scored' = {Judges(incoming)} /\ rulebook' = rulebook /\ incoming' = incoming
  BY DEF MatchNext
<1>2. Judges(incoming') = Judges(incoming) /\ Judges(incoming)' = Judges(incoming)
  BY <1>1 DEF Judges, Matched
<1>. QED  BY <1>1, <1>2 DEF MatchInv

LEMMA MatchKeptAtRest == MatchInv /\ UNCHANGED matchVars => MatchInv'
BY DEF MatchInv, matchVars, Judges, Matched

(* What is sent of a profile, in terms of the thresholds an event reaches. *)
LEMMA SeverityAt ==
    ASSUME NEW sv \in Named \cup {"none"}, NEW s \in CardThreshold
    PROVE  sv = s <=> /\ Rank(sv) >= Rank(s)
                      /\ \A t \in Named : Rank(t) > Rank(s) => ~(Rank(sv) >= Rank(t))
<1>1. Rank(sv) \in Int /\ s \in Named /\ \A t \in Named : Rank(t) \in Int
  BY Ranked
<1>2. ASSUME Rank(sv) >= Rank(s), \A t \in Named : Rank(t) > Rank(s) => ~(Rank(sv) >= Rank(t))
      PROVE  sv = s
  <2>1. sv # "none"
    BY <1>1, <1>2, Ranked
  <2>2. ~(Rank(sv) > Rank(s))
    BY <1>1, <1>2, <2>1
  <2>. QED  BY <1>1, <1>2, <2>1, <2>2, Ranked
<1>. QED  BY <1>1, <1>2

LEMMA MatchTyped == MatchInv => MatchTypeOK
<1>. SUFFICES ASSUME MatchInv PROVE MatchTypeOK
  OBVIOUS
<1>1. rulebook \subseteq Detection /\ incoming \in Incident
  BY DEF MatchInv, Rulebooks
<1>2. Cardinality(scored) <= 1
  <2>1. scored = {} \/ scored = {Judges(incoming)}
    BY DEF MatchInv
  <2>. QED  BY <2>1, AtMostOne
<1>3. ASSUME NEW e \in scored
      PROVE  /\ e.severity \in Named \cup {"none"} /\ e.module = incoming.module
             /\ e.tags \subseteq incoming.tags \cup {"suppressed"}
  <2>. DEFINE ds == Matched(incoming)
  <2>1. e = IF ds = {} THEN incoming
            ELSE IF \E d \in ds : d.suppress
            THEN [incoming EXCEPT !.severity = "informational", !.tags = @ \cup {"suppressed"}]
            ELSE [incoming EXCEPT !.severity = Best(ds)]
    BY DEF MatchInv, Judges
  <2>2. ds \subseteq Detection
    BY <1>1 DEF Matched
  <2>. HIDE DEF ds
  <2>3. ds # {} => Best(ds) \in Named \cup {"none"}
    <3>. HAVE ds # {}
    <3>0. PICK c \in Detection, d \in Detection : rulebook \subseteq {c, d}
      BY <2>2 DEF MatchInv, Rulebooks, ds, Matched
    <3>1. PICK b \in ds : Best(ds) = b.severity
      <4>1. ds \subseteq {c, d}
        BY <3>0 DEF ds, Matched
      <4>. QED  BY <4>1, <3>0, BestIs
    <3>. QED  BY <3>1, <2>2, NamedAre DEF Detection
  <2>4. "informational" \in Named
    BY NamedAre
  <2>. QED  BY <1>1, <2>1, <2>3, <2>4 DEF Incident
<1>. QED  BY <1>1, <1>2, <1>3 DEF MatchTypeOK

LEMMA MatchCovers == MatchInv => MatchesMeant
<1>. SUFFICES ASSUME MatchInv PROVE MatchesMeant
  OBVIOUS
<1>1. \A r \in Route : RouteMatches(r, incoming) = (r.enabled /\ EvalCondition(RouteCondition(r), incoming))
  <2>. SUFFICES ASSUME NEW r \in Route
                PROVE  RouteMatches(r, incoming) = (r.enabled /\ EvalCondition(RouteCondition(r), incoming))
    OBVIOUS
  <2>1. incoming \in Incident
    BY DEF MatchInv
  <2>2. RouteMatches(r, incoming) \in BOOLEAN
    BY DEF RouteMatches
  <2>. QED  BY <2>1, <2>2, SeededMatches
<1>2. ASSUME NEW e \in scored
      PROVE  LET ds == Matched(incoming)
                 AtLeast(t) == IF ds = {} THEN Rank(incoming.severity) >= Rank(t)
                               ELSE /\ \A d \in ds : ~d.suppress
                                    /\ \E d \in ds : Rank(d.severity) >= Rank(t)
                 At(s) == IF s = "informational" THEN e.severity = s ELSE
                          AtLeast(s) /\ \A t \in Named : Rank(t) > Rank(s) => ~AtLeast(t)
             IN  /\ \A m \in {"rds", "ueba"}, t \in CardThreshold :
                       /\ EvalCondition(CardMatch(m, t), e) <=> m = e.module /\ AtLeast(t)
                       /\ ThresholdOf(CardMatch(m, t)) = t
                 /\ \A ss \in {{}, {"low"}, {"low", "high"}, {"informational"}} :
                       LET sent == IF ss = {} THEN {"high"} ELSE ss
                       IN  /\ EvalCondition(ProfileMatch("rds", "rds.auth.failure", ss), e)
                                 <=> e.action = "rds.auth.failure" /\ \E s \in sent : At(s)
                           /\ EvalCondition(ProfileMatch("findings", "<finding>.detected", ss), e)
                                 <=> e.action \in {"finding.public.detected", "finding.detected"}
                                     /\ \E s \in sent : At(s)
  <2>. DEFINE ds == Matched(incoming)
              AtLeast(t) == IF ds = {} THEN Rank(incoming.severity) >= Rank(t)
                            ELSE /\ \A d \in ds : ~d.suppress
                                 /\ \E d \in ds : Rank(d.severity) >= Rank(t)
              At(s) == IF s = "informational" THEN e.severity = s ELSE
                       AtLeast(s) /\ \A t \in Named : Rank(t) > Rank(s) => ~AtLeast(t)
  <2>1. e = Judges(incoming)
    BY <1>2 DEF MatchInv
  <2>2. e.severity \in Named \cup {"none"} /\ \A t \in CardThreshold : Rank(e.severity) >= Rank(t) <=> AtLeast(t)
    BY <2>1, JudgesSays
  <2>. HIDE DEF ds, AtLeast
  <2>3. \A m, t : t \in CardThreshold =>
           /\ EvalCondition(CardMatch(m, t), e) <=> m = e.module /\ AtLeast(t)
           /\ ThresholdOf(CardMatch(m, t)) = t
    <3>. SUFFICES ASSUME NEW m, NEW t \in CardThreshold
                  PROVE  EvalCondition(CardMatch(m, t), e) <=> m = e.module /\ AtLeast(t)
      BY CardShown
    <3>1. EvalCondition(CardMatch(m, t), e) <=>
             /\ LeafHolds(Leaf("source.module", "equals", {m}), e)
             /\ LeafHolds(Leaf("severity", "in", Includes(t)), e)
      BY DEF EvalCondition, CardMatch
    <3>2. LeafHolds(Leaf("severity", "in", Includes(t)), e) <=> e.severity \in Includes(t)
      BY <2>2, SeverityIn DEF Includes
    <3>3. LeafHolds(Leaf("source.module", "equals", {m}), e) <=> m = e.module
      BY LeavesAre
    <3>4. e.severity \in Includes(t) <=> Rank(e.severity) >= Rank(t)
      BY <2>2, Ranked DEF Includes
    <3>. QED  BY <2>2, <3>1, <3>2, <3>3, <3>4
  <2>4. \A s \in Named : At(s) <=> e.severity = s
    <3>. SUFFICES ASSUME NEW s \in Named, s # "informational" PROVE At(s) <=> e.severity = s
      OBVIOUS
    <3>1. s \in CardThreshold /\ \A t \in Named : Rank(t) > Rank(s) => t \in CardThreshold
      <4>1. s \in CardThreshold
        BY DEF CardThreshold
      <4>2. Rank(s) > Rank("informational") /\ Rank(s) \in Int /\ Rank("informational") = 1
        BY <4>1, Ranked, RankOf
      <4>. QED  BY <4>1, <4>2, Ranked DEF CardThreshold
    <3>2. At(s) <=> /\ Rank(e.severity) >= Rank(s)
                    /\ \A t \in Named : Rank(t) > Rank(s) => ~(Rank(e.severity) >= Rank(t))
      BY <2>2, <3>1
    <3>. QED  BY <2>2, <3>1, <3>2, SeverityAt
  <2>. HIDE DEF At
  <2>5. ASSUME NEW ss, ss \in {{}, {"low"}, {"low", "high"}, {"informational"}}
        PROVE  LET sent == IF ss = {} THEN {"high"} ELSE ss
               IN  /\ EvalCondition(ProfileMatch("rds", "rds.auth.failure", ss), e)
                         <=> e.action = "rds.auth.failure" /\ \E s \in sent : At(s)
                   /\ EvalCondition(ProfileMatch("findings", "<finding>.detected", ss), e)
                         <=> e.action \in {"finding.public.detected", "finding.detected"}
                             /\ \E s \in sent : At(s)
    <3>. DEFINE sent == IF ss = {} THEN {"high"} ELSE ss
    <3>1. Normalized(ss) = sent /\ sent \subseteq Named
      BY <2>5, NamedAre DEF Normalized
    <3>. HIDE DEF sent
    <3>2. LeafHolds(Leaf("severity", "in", sent), e) <=> \E s \in sent : At(s)
      <4>1. LeafHolds(Leaf("severity", "in", sent), e) <=> e.severity \in sent
        BY <2>2, <3>1, SeverityIn
      <4>. QED  BY <4>1, <3>1, <2>4
    <3>3. \A m, k : EvalCondition(ProfileMatch(m, k, ss), e) <=>
                       LeafHolds(ActionClause(m, k), e) /\ LeafHolds(Leaf("severity", "in", sent), e)
      BY <3>1 DEF EvalCondition, ProfileMatch
    <3>4. LeafHolds(ActionClause("rds", "rds.auth.failure"), e) <=> e.action = "rds.auth.failure"
      <4>1. ActionClause("rds", "rds.auth.failure") = Leaf("action", "equals", {"rds.auth.failure"})
        BY DEF ActionClause
      <4>2. LeafHolds(Leaf("action", "equals", {"rds.auth.failure"}), e) <=> {e.action} = {"rds.auth.failure"}
        BY LeavesAre
      <4>. QED  BY <4>1, <4>2
    <3>5. LeafHolds(ActionClause("findings", "<finding>.detected"), e)
             <=> e.action \in {"finding.public.detected", "finding.detected"}
      <4>1. ActionClause("findings", "<finding>.detected")
               = Leaf("action", "regex", {"finding.public.detected", "finding.detected"})
        BY DEF ActionClause
      <4>. QED  BY <4>1, LeavesAre
    <3>. QED  BY <3>2, <3>3, <3>4, <3>5 DEF sent
  <2>. QED  BY <2>3, <2>5 DEF ds, AtLeast, At
<1>. QED  BY <1>1, <1>2 DEF MatchesMeant

(* A rule seeded from a route, a card and a profile match exactly what     *)
(* their settings say of an event and of the severity that the detection   *)
(* rules put it at (seed_from_routes, build_card_match, profile_match).    *)
THEOREM MatchesHold == MatchSpec => []MatchesMeant
<1>1. MatchSpec => []MatchInv
  BY MatchStarts, MatchStep, MatchKeptAtRest, PTL DEF MatchSpec
<1>. QED  BY <1>1, MatchCovers, PTL

=============================================================================
