----------------------------- MODULE BucketDrift -----------------------------
(***************************************************************************)
(* The inventory of S3 buckets: what a drift scan reads of each bucket,    *)
(* call by call (connectors/aws_s3_drift.py), the report the adapter makes *)
(* of it (modules/aws_s3.py), and what the projection stores and says      *)
(* (s3/projection.py).  Scans may overlap: one that outlives its operation *)
(* goes on, and scripts/s3_bucket_inventory.py sends the same report.      *)
(* Regions, tags, policies and logging targets are left out.               *)
(***************************************************************************)
EXTENDS FiniteSets, Naturals

CONSTANTS
    Sweep,      \* scans that may overlap
    Bucket, Account,
    AccountOf,  \* the account of each bucket
    MaxStirs,   \* bound: changes of buckets
    MaxSnags    \* bound: calls that fail and scans that end early

ASSUME BucketAssumption == MaxStirs \in Nat /\ MaxSnags \in Nat

VARIABLES
    bucket,    \* the buckets as they are
    bucketRow, \* rows of bucket_status
    alert,     \* what the events so far say of each bucket
    sweep,     \* what each scan is doing
    outdated,  \* buckets that changed, or did not answer, since a scan listed them (ghost)
    unclear,   \* buckets whose row was not made from what they are (ghost)
    tangled,   \* buckets two scans had in hand at once, or whose events were lost (ghost)
    unread,    \* buckets with a versioning that was not read, until it is found enabled (ghost)
    stirs, snags

bucketVars == <<bucket, bucketRow, alert, sweep, outdated, unclear, tangled, unread, stirs, snags>>

Versioning == {"Enabled", "Suspended", "Disabled"}
Config   == [there : BOOLEAN, blocked : BOOLEAN, granted : BOOLEAN, encrypted : BOOLEAN, versioning : Versioning]
BucketSnapshot == [there : BOOLEAN, public : BOOLEAN, encryption : {"none", "set", "unknown"},
             versioning : Versioning \cup {"unknown"}]
Alert    == [there : BOOLEAN, public : BOOLEAN, bare : BOOLEAN, off : BOOLEAN]

NoBucket == [there |-> FALSE, blocked |-> FALSE, granted |-> FALSE, encrypted |-> FALSE, versioning |-> "Disabled"]
NewBucket    == [NoBucket EXCEPT !.there = TRUE]
Exposed  == [NewBucket EXCEPT !.granted = TRUE, !.versioning = "Enabled"]
NoRecord    == [there |-> FALSE, public |-> FALSE, encryption |-> "none", versioning |-> "Disabled"]
Silent   == [there |-> FALSE, public |-> FALSE, bare |-> FALSE, off |-> FALSE]

NoSweep == [stage |-> "idle", account |-> "none", names |-> {}, todo |-> {},
            blocked |-> [b \in Bucket |-> "unread"], report |-> [b \in Bucket |-> NoRecord], of |-> {}, prev |-> NoRecord, derived |-> {}]

BucketTypeOK ==
    /\ bucket \in [Bucket -> Config] /\ bucketRow \in [Bucket -> BucketSnapshot] /\ alert \in [Bucket -> Alert]
    /\ sweep \in [Sweep -> [stage : {"idle", "reading", "storing", "dropping"}, account : Account \cup {"none"},
                            names : SUBSET Bucket, todo : SUBSET Bucket,
                            blocked : [Bucket -> {"unread", "on", "off"}],
                            report : [Bucket -> BucketSnapshot], of : SUBSET Bucket,
                            prev : BucketSnapshot, derived : SUBSET Bucket]]
    /\ \A s \in Sweep : Cardinality(sweep[s].of) <= 1
    /\ outdated \in [Sweep -> SUBSET Bucket]
    /\ unclear \subseteq Bucket /\ tangled \subseteq Bucket /\ unread \subseteq Bucket
    /\ stirs \in 0..MaxStirs /\ snags \in 0..MaxSnags

BucketInit ==
    /\ bucket \in [Bucket -> {NewBucket, Exposed}] /\ bucketRow = [b \in Bucket |-> NoRecord]
    /\ alert = [b \in Bucket |-> Silent]
    /\ sweep = [s \in Sweep |-> NoSweep] /\ outdated = [s \in Sweep |-> {}]
    /\ unclear = Bucket /\ tangled = {} /\ unread = {}
    /\ stirs = 0 /\ snags = 0

-----------------------------------------------------------------------------
(* The account changes.                                                    *)

InStage(s, stage) == sweep[s].stage = stage

Stir(b, config) ==
    /\ stirs < MaxStirs /\ config # bucket[b]
    /\ stirs' = stirs + 1
    /\ bucket' = [bucket EXCEPT ![b] = config]
    /\ outdated' = [s \in Sweep |-> IF InStage(s, "idle") THEN {} ELSE outdated[s] \cup {b}]
    /\ unclear' = unclear \cup {b}
    /\ UNCHANGED <<bucketRow, alert, sweep, tangled, unread, snags>>

BucketChanges(b) ==
    \/ Stir(b, IF bucket[b].there THEN NoBucket ELSE NewBucket)
    \/ /\ bucket[b].there
       /\ \/ \E x \in BOOLEAN : Stir(b, [bucket[b] EXCEPT !.blocked = x])
          \/ \E x \in BOOLEAN : Stir(b, [bucket[b] EXCEPT !.granted = x])
          \/ \E x \in BOOLEAN : Stir(b, [bucket[b] EXCEPT !.encrypted = x])
          \/ \E v \in {"Enabled", "Suspended"} : Stir(b, [bucket[b] EXCEPT !.versioning = v])

-----------------------------------------------------------------------------
(* scan_account                                                            *)

(* A scan that cannot list the buckets sends neither snapshots nor a       *)
(* completion, and leaves everything as it is.                             *)
ListsBuckets(s, a) ==
    LET listed == {b \in Bucket : bucket[b].there /\ AccountOf[b] = a}
    IN  /\ InStage(s, "idle")
        /\ sweep' = [sweep EXCEPT ![s] = [NoSweep EXCEPT !.stage = "reading", !.account = a,
                                                          !.names = listed, !.todo = listed]]
        /\ UNCHANGED <<bucket, bucketRow, alert, outdated, unclear, tangled, unread, stirs, snags>>

(* A call on b answers, or fails and leaves its default.                   *)
CallFails(s, b) ==
    /\ snags < MaxSnags
    /\ snags' = snags + 1
    /\ outdated' = [outdated EXCEPT ![s] = @ \cup {b}]
Answers == UNCHANGED <<snags, outdated>>

(* One bucket is looked at after the other.                                *)
UpToBucket(s, b) ==
    /\ InStage(s, "reading") /\ b \in sweep[s].todo
    /\ \A x \in Bucket \ {b} : sweep[s].blocked[x] = "unread"

(* get_public_access_block comes first; no answer counts as off.           *)
ReadsBlock(s, b) ==
    /\ UpToBucket(s, b) /\ sweep[s].blocked[b] = "unread"
    /\ \E as \in {"on", "off"} :
           /\ sweep' = [sweep EXCEPT ![s].blocked[b] = as]
           /\ \/ Answers /\ as = IF bucket[b].there /\ bucket[b].blocked THEN "on" ELSE "off"
              \/ CallFails(s, b) /\ as = "off"
    /\ UNCHANGED <<bucket, bucketRow, alert, unclear, tangled, unread, stirs>>

(* Both are needed to be public.  Mutant: any grant makes it public.       *)
GrantedOnly(blocked, granted) == granted
IsPublic(blocked, granted)    == ~blocked /\ granted

Examined(s, b, granted, enc, ver) ==
    /\ UpToBucket(s, b) /\ sweep[s].blocked[b] # "unread"
    /\ sweep' = [sweep EXCEPT
            ![s].todo = @ \ {b}, ![s].blocked[b] = "unread",
            ![s].report[b] = [there |-> TRUE, public |-> IsPublic(sweep[s].blocked[b] = "on", granted),
                              encryption |-> enc, versioning |-> ver]]
    /\ UNCHANGED <<bucket, bucketRow, alert, unclear, tangled, unread, stirs>>

EncryptionOf(c) == IF c.encrypted THEN "set" ELSE "none"

(* The other calls, of which any may fail, together or alone: one for all  *)
(* that grants access, the encryption, the versioning.                     *)
ReadsRest(s, b) ==
    LET c == bucket[b]
    IN  \E failed \in SUBSET {"grants", "encryption", "versioning"} :
            /\ Examined(s, b, c.granted /\ "grants" \notin failed,
                           IF "encryption" \in failed THEN "none" ELSE EncryptionOf(c),
                           IF "versioning" \in failed THEN "Disabled" ELSE c.versioning)
            /\ IF failed = {} THEN Answers ELSE CallFails(s, b)

(* Anything else that raises: the bucket is in the report all the same.    *)
Unexamined(s, b) ==
    /\ UpToBucket(s, b) /\ CallFails(s, b)
    /\ sweep' = [sweep EXCEPT ![s].todo = @ \ {b}, ![s].blocked[b] = "unread",
            ![s].report[b] = [there |-> TRUE, public |-> FALSE, encryption |-> "unknown", versioning |-> "unknown"]]
    /\ UNCHANGED <<bucket, bucketRow, alert, unclear, tangled, unread, stirs>>

ShipsReport(s) ==
    /\ InStage(s, "reading") /\ sweep[s].todo = {}
    /\ sweep' = [sweep EXCEPT ![s].stage = "storing", ![s].todo = sweep[s].names]
    /\ UNCHANGED <<bucket, bucketRow, alert, outdated, unclear, tangled, unread, stirs, snags>>

-----------------------------------------------------------------------------
(* s3.bucket.snapshot                                                      *)

(* A scan has b in hand from its look at the row until it has told of it.  *)
InHand(s, b) == b \in sweep[s].of \cup sweep[s].derived
Meets(s, b)  == \E q \in Sweep \ {s} : InHand(q, b)

LooksAtRow(s, b) ==
    /\ InStage(s, "storing") /\ b \in sweep[s].todo
    /\ sweep[s].of = {} /\ sweep[s].derived = {}
    /\ sweep' = [sweep EXCEPT ![s].of = {b}, ![s].prev = bucketRow[b]]
    /\ tangled' = IF Meets(s, b) THEN tangled \cup {b} ELSE tangled
    /\ UNCHANGED <<bucket, bucketRow, alert, outdated, unclear, unread, stirs, snags>>

Judged(s, b) == unclear' = IF b \in outdated[s] THEN unclear \cup {b} ELSE unclear \ {b}

(* What only a failed call makes of a versioning.                          *)
Unlikely(was, is) == is = "unknown" \/ (was = "Enabled" /\ is = "Disabled")

BucketUpserted(b, new) == bucketRow' = [bucketRow EXCEPT ![b] = new]

StoresRow(s, b) ==
    LET new == sweep[s].report[b]
    IN  /\ InStage(s, "storing") /\ b \in sweep[s].of
        /\ BucketUpserted(b, new)
        /\ sweep' = [sweep EXCEPT ![s].of = {}, ![s].todo = @ \ {b}, ![s].derived = {b}]
        /\ Judged(s, b)
        /\ unread' = IF new.versioning = "Enabled" THEN unread \ {b}
                     ELSE IF Unlikely(sweep[s].prev.versioning, new.versioning) THEN unread \cup {b} ELSE unread
        /\ UNCHANGED <<bucket, alert, outdated, tangled, stirs, snags>>

Off(versioning) == versioning \in {"Suspended", "Disabled"}

(* The events derived from a snapshot, and what they leave said.  The      *)
(* first one of a bucket says what is wrong with it, later ones say what   *)
(* differs; a loss of versioning is only told of a bucket that had it.     *)
Says(said, prev, new) ==
    IF ~prev.there
    THEN [there |-> TRUE, public |-> new.public, bare |-> new.encryption = "none", off |-> Off(new.versioning)]
    ELSE [there  |-> TRUE,
          public |-> IF prev.public # new.public THEN new.public ELSE said.public,
          bare   |-> IF prev.encryption # new.encryption /\ "none" \in {prev.encryption, new.encryption}
                     THEN new.encryption = "none" ELSE said.bare,
          off    |-> IF prev.versioning # "Enabled" /\ new.versioning = "Enabled" THEN FALSE
                     ELSE IF prev.versioning = "Enabled" /\ new.versioning = "Suspended" THEN TRUE
                     ELSE said.off]

TellsOfBucket(s, b) ==
    /\ InStage(s, "storing") /\ b \in sweep[s].derived
    /\ alert' = [alert EXCEPT ![b] = Says(@, sweep[s].prev, sweep[s].report[b])]
    /\ sweep' = [sweep EXCEPT ![s].derived = {}, ![s].prev = NoRecord, ![s].report[b] = NoRecord]
    /\ UNCHANGED <<bucket, bucketRow, outdated, unclear, tangled, unread, stirs, snags>>

(* A projection that raises is caught: the row stays what it was.          *)
SkipsBucket(s, b) ==
    /\ InStage(s, "storing") /\ b \in sweep[s].of
    /\ snags < MaxSnags /\ snags' = snags + 1
    /\ sweep' = [sweep EXCEPT ![s].of = {}, ![s].todo = @ \ {b}]
    /\ UNCHANGED <<bucket, bucketRow, alert, outdated, unclear, tangled, unread, stirs>>

-----------------------------------------------------------------------------
(* s3.scan.completed                                                       *)

(* Tracked buckets of the account that the scan did not list.  Mutant: of  *)
(* any account.                                                            *)
MissingAnywhere(s) == {b \in Bucket : bucketRow[b].there} \ sweep[s].names
Missing(s) == {b \in Bucket : bucketRow[b].there /\ AccountOf[b] = sweep[s].account} \ sweep[s].names

Completes(s) ==
    /\ InStage(s, "storing") /\ sweep[s].todo = {} /\ sweep[s].derived = {}
    /\ sweep' = [sweep EXCEPT ![s].stage = "dropping", ![s].todo = Missing(s)]
    /\ tangled' = tangled \cup {b \in Missing(s) : Meets(s, b)}
    /\ UNCHANGED <<bucket, bucketRow, alert, outdated, unclear, unread, stirs, snags>>

DropsRow(s, b) ==
    /\ InStage(s, "dropping") /\ b \in sweep[s].todo
    /\ bucketRow' = [bucketRow EXCEPT ![b] = NoRecord]
    /\ sweep' = [sweep EXCEPT ![s].todo = @ \ {b}, ![s].derived = @ \cup {b}]
    /\ tangled' = IF Meets(s, b) \/ \E q \in Sweep \ {s} : InStage(q, "dropping") /\ b \in sweep[q].todo
                  THEN tangled \cup {b} ELSE tangled
    /\ Judged(s, b)
    /\ UNCHANGED <<bucket, alert, outdated, unread, stirs, snags>>

(* The derived events are stored when all rows are dropped.                *)
TellsGone(s, b) ==
    /\ InStage(s, "dropping") /\ sweep[s].todo = {} /\ b \in sweep[s].derived
    /\ alert' = [alert EXCEPT ![b] = Silent]
    /\ sweep' = [sweep EXCEPT ![s].derived = @ \ {b}]
    /\ UNCHANGED <<bucket, bucketRow, outdated, unclear, tangled, unread, stirs, snags>>

SweepEnds(s) ==
    /\ InStage(s, "dropping") /\ sweep[s].todo = {} /\ sweep[s].derived = {}
    /\ sweep' = [sweep EXCEPT ![s] = NoSweep]
    /\ outdated' = [outdated EXCEPT ![s] = {}]
    /\ UNCHANGED <<bucket, bucketRow, alert, unclear, tangled, unread, stirs, snags>>

(* A restart, an insert that raises, or a reconciliation that raises half- *)
(* way: what was derived is not told.                                      *)
SweepBreaks(s) ==
    /\ ~InStage(s, "idle")
    /\ snags < MaxSnags /\ snags' = snags + 1
    /\ tangled' = tangled \cup sweep[s].derived
    /\ sweep' = [sweep EXCEPT ![s] = NoSweep]
    /\ outdated' = [outdated EXCEPT ![s] = {}]
    /\ UNCHANGED <<bucket, bucketRow, alert, unclear, unread, stirs>>

BucketNext ==
    \/ \E b \in Bucket : BucketChanges(b)
    \/ \E s \in Sweep :
           \/ \E a \in Account : ListsBuckets(s, a)
           \/ \E b \in Bucket :
                  \/ ReadsBlock(s, b) \/ ReadsRest(s, b) \/ Unexamined(s, b)
                  \/ LooksAtRow(s, b) \/ StoresRow(s, b) \/ TellsOfBucket(s, b) \/ SkipsBucket(s, b)
                  \/ DropsRow(s, b) \/ TellsGone(s, b)
           \/ ShipsReport(s) \/ Completes(s) \/ SweepEnds(s) \/ SweepBreaks(s)

BucketSpec == BucketInit /\ [][BucketNext]_bucketVars

-----------------------------------------------------------------------------

RowTells(r, c) ==
    /\ r.there = c.there
    /\ c.there => /\ r.public = (c.granted /\ ~c.blocked)
                  /\ r.encryption = EncryptionOf(c) /\ r.versioning = c.versioning

(* The events told of a bucket add up to its row, and the row is what the  *)
(* bucket is if nothing about it changed or failed since the scan that     *)
(* last wrote or dropped it made its list - however scans of the same and  *)
(* of other accounts overlap, and although the calls on a bucket are made  *)
(* one after the other.  A bucket two scans had in hand at once, or whose  *)
(* events were lost, is excepted from the first, and one whose versioning  *)
(* could not be read from what was told of its versioning: "Disabled" for  *)
(* a failed call hides that it was suspended.                              *)
BucketsTold ==
    \A b \in Bucket :
        /\ b \notin unclear => RowTells(bucketRow[b], bucket[b])
        /\ b \notin tangled /\ (\A s \in Sweep : ~InHand(s, b)) =>
              /\ alert[b].there = bucketRow[b].there
              /\ bucketRow[b].there =>
                    /\ alert[b].public = bucketRow[b].public
                    /\ alert[b].bare = (bucketRow[b].encryption = "none")
                    /\ b \notin unread => alert[b].off = Off(bucketRow[b].versioning)
=============================================================================
