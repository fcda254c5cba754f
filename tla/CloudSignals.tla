----------------------------- MODULE CloudSignals -----------------------------
(***************************************************************************)
(* Two ways to learn of a weak setting of an AWS resource: the flags that  *)
(* the CloudTrail adapter (modules/aws_cloudtrail.py) puts on the event of *)
(* a call, and the findings of the posture and S3 drift scans              *)
(* (connectors/aws_posture_drift.py, aws_s3_drift.py), which promise the   *)
(* same conditions.  One resource of some kind, changed by calls that AWS  *)
(* carried out; how scans and events travel is in PostureFindings,         *)
(* BucketDrift and IngestPipeline.                                         *)
(***************************************************************************)
EXTENDS FiniteSets, Integers

CONSTANTS
    LastPort,  \* ports are 0..LastPort
    Risky,     \* _RISKY_PORTS, the same list in both files
    Web,       \* 80 and 443
    Wide,      \* a range from 0 to this or beyond is "all traffic" (1024)
    MostPorts, \* ports of a rule the adapter looks at (50)
    MaxRules   \* bound: rules of a security group

ASSUME SignalsAssumption == LastPort \in Nat /\ MostPorts \in Nat /\ MaxRules \in Nat

VARIABLES
    kind,   \* of the resource
    state,  \* its settings, {} when there is none
    flagged,   \* flags raised since their condition last held not (ghost)
    silent, \* conditions that no event looked at when they came about (ghost)
    said    \* flags of the last event (ghost)

signalVars == <<kind, state, flagged, silent, said>>

When(p, x) == IF p THEN {x} ELSE {}

(* The rules open to the world; others raise and find nothing.             *)
PublicRule == {[proto |-> "tcp", lo |-> p, hi |-> q] : p \in 0..LastPort, q \in 0..LastPort}
              \cup {[proto |-> x, lo |-> 0, hi |-> 0] : x \in {"any", "portless"}}
Settings   == {"public", "unencrypted", "no_backups", "unprotected", "no_iam"}
SettingsOf(k) ==
    CASE k = "group"    -> {s \in SUBSET {r \in PublicRule : r.lo <= r.hi} : Cardinality(s) <= MaxRules}
      [] k = "snapshot" -> SUBSET {"all", "account"}
      [] k = "instance" -> SUBSET {"imdsv1", "running"}
      [] k = "key"      -> SUBSET {"wildcard", "no_rotation", "enabled"}
      [] k = "role"     -> SUBSET {"wildcard_trust"}
      [] k = "user"     -> SUBSET {"login", "mfa"}
      [] k = "trail"    -> SUBSET {"logging", "multi", "validated"}
      [] k = "database" -> SUBSET Settings
      [] k = "bucket"   -> SUBSET {"public_acl", "public_policy", "bpa_weakened"}
Kind == {"group", "snapshot", "instance", "key", "role", "user", "trail", "database", "bucket"}

(* The flags that are looked at here.                                      *)
Flag == Settings \cup
    {"public_ingress", "all_traffic", "risky_port", "made_public", "shared", "imdsv1", "wildcard",
     "no_rotation", "wildcard_trust", "no_mfa", "not_logging", "not_validated", "no_multi_region",
     "public_acl", "public_policy", "bpa_weakened"}

SignalsTypeOK ==
    /\ kind \in Kind /\ Cardinality(state) <= 1 /\ state \subseteq SettingsOf(kind)
    /\ flagged \cap silent = {} /\ said \subseteq Flag

-----------------------------------------------------------------------------
(* Conditions and findings                                                 *)

AllTraffic(r) == r.proto = "any" \/ (r.proto = "tcp" /\ r.lo = 0 /\ r.hi >= Wide)
Ports(r)      == IF r.proto = "tcp" /\ ~AllTraffic(r) THEN r.lo..r.hi ELSE {}

GroupHeld(s) ==
    When(s # {}, "public_ingress") \cup When(\E r \in s : AllTraffic(r), "all_traffic")
    \cup When(\E r \in s : Ports(r) \cap Risky # {}, "risky_port")
    \cup When(\E r \in s : Ports(r) \ (Risky \cup Web) # {}, "non_web")

TrailHeld(s) ==
    When("logging" \notin s, "not_logging") \cup When("validated" \notin s, "not_validated")
    \cup When(~({"multi", "logging"} \subseteq s), "no_multi_region")

(* What is weak about the resource, whether a scan looks at it or not.     *)
Held(k, is) ==
    IF k = "trail" /\ is = {} THEN {"no_multi_region"}
    ELSE UNION {CASE k = "group"    -> GroupHeld(s)
                  [] k = "snapshot" -> When("all" \in s, "made_public") \cup When("account" \in s, "shared")
                  [] k = "instance" -> s \cap {"imdsv1"}
                  [] k = "key"      -> s \ {"enabled"}
                  [] k = "user"     -> When("login" \in s /\ "mfa" \notin s, "no_mfa")
                  [] k = "trail"    -> TrailHeld(s)
                  [] OTHER          -> s : s \in is}

(* One finding for each group, its worst.                                  *)
GroupFinding(s) ==
    LET h == GroupHeld(s)
    IN  IF "all_traffic" \in h THEN {"all_traffic"}
        ELSE IF "risky_port" \in h THEN {"risky_port"} ELSE h \cap {"non_web"}

SnapshotFinding(s)  == When("all" \in s, "made_public")
InstanceFinding(s)  == IF "running" \in s THEN s \cap {"imdsv1"} ELSE {}
KeyFindings(s)      == IF "enabled" \in s THEN s \ {"enabled"} ELSE {}
RoleFinding(s)      == s
UserFinding(s)      == When("login" \in s /\ "mfa" \notin s, "no_mfa")
TrailFindings(s)    == IF "logging" \in s THEN TrailHeld(s) ELSE TrailHeld(s) \ {"not_validated"}
DatabaseFindings(s) == s

(* A block of public access neutralizes grants and policy.                 *)
BucketFinding(s) ==
    When("bpa_weakened" \in s /\ s \cap {"public_acl", "public_policy"} # {}, "public_bucket")

Findings(k, is) ==
    IF k = "trail" /\ is = {} THEN {"no_multi_region"}
    ELSE UNION {CASE k = "group"    -> GroupFinding(s)     [] k = "snapshot" -> SnapshotFinding(s)
                  [] k = "instance" -> InstanceFinding(s)  [] k = "key"      -> KeyFindings(s)
                  [] k = "role"     -> RoleFinding(s)      [] k = "user"     -> UserFinding(s)
                  [] k = "trail"    -> TrailFindings(s)    [] k = "database" -> DatabaseFindings(s)
                  [] k = "bucket"   -> BucketFinding(s) : s \in is}

-----------------------------------------------------------------------------
(* Calls: what the settings become, the flags of the event, and the        *)
(* conditions the adapter does not look at in this call                    *)

Call(to, says, quiet) == [to |-> to, says |-> says, quiet |-> quiet]

(* Mutant: the last port of a range is left out.                           *)
LooksShort(r) == {p \in Ports(r) : p < r.lo + MostPorts /\ (p < r.hi \/ r.lo = r.hi)}
Looks(r)      == {p \in Ports(r) : p < r.lo + MostPorts}

IngressSignals(r) ==
    {"public_ingress"} \cup When(AllTraffic(r), "all_traffic") \cup When(Looks(r) \cap Risky # {}, "risky_port")

GroupCalls(s) ==
    {Call(s \cup {r}, IngressSignals(r), {}) : r \in {x \in PublicRule : x.lo <= x.hi}}
    \cup {Call(s \ {r}, {}, {}) : r \in s}

(* EBS snapshots, AMIs and RDS snapshots: shared with everyone or with an  *)
(* account, and taken back.                                                *)
ShareCalls(s) ==
    {Call(s \cup {"all"}, {"made_public"}, {}), Call(s \cup {"account"}, {"shared"}, {})}
    \cup {Call(s \ {w}, {}, {}) : w \in s}

(* The flag is looked for in httpTokens, not in metadataOptions.httpTokens *)
(* where other fields of the event are taken from.                         *)
InstanceCalls(s) ==
    {Call(s \cup {"imdsv1"}, {"imdsv1"}, {}), Call(s \cup {"imdsv1"}, {}, {"imdsv1"})}
    \cup {Call(s \ {"imdsv1"}, {}, {}), Call(s \cup {"running"}, {}, {}), Call(s \ {"running"}, {}, {})}

(* Principal "*" of an Allow without Condition.  Turning rotation off is   *)
(* told by its action.                                                     *)
KeyCalls(s) ==
    {Call(s \cup {"wildcard"}, {"wildcard"}, {}), Call(s \cup {"no_rotation"}, {"no_rotation"}, {})}
    \cup {Call(s \ {x}, {}, {}) : x \in s} \cup {Call(s \cup {"enabled"}, {}, {})}

(* Told by their actions: the request is not looked at.                    *)
RoleCalls(s) == {Call(s \cup {"wildcard_trust"}, {"wildcard_trust"}, {}), Call({}, {"wildcard_trust"}, {})}
UserCalls(s) ==
    {Call(s \cup {"login"}, {"no_mfa"}, {}), Call(s \ {"mfa"}, {"no_mfa"}, {}),
     Call(s \cup {"mfa"}, {}, {}), Call(s \ {"login"}, {}, {})}
TrailCalls(s) ==
    {Call(s \ {"logging"}, {"not_logging", "no_multi_region"}, {}), Call(s \cup {"logging"}, {}, {})}
    \cup {Call((s \cap {"logging"}) \cup u, {"not_validated", "no_multi_region"}, {})
            : u \in SUBSET {"multi", "validated"}}

(* A field that is not in the request changes nothing; encryption is for   *)
(* good.                                                                   *)
DatabaseCalls(s) ==
    {Call(s \cup {x}, {x}, {}) : x \in Settings \ {"unencrypted"}}
    \cup {Call(s \ {x}, {}, {}) : x \in Settings \ {"unencrypted"}}

(* Any of the four switches missing or false; DeletePublicAccessBlock is   *)
(* told by its action.                                                     *)
BucketCalls(s) ==
    {Call(s \cup {x}, {x}, {}) : x \in {"public_acl", "public_policy", "bpa_weakened"}}
    \cup {Call(s \ {x}, {}, {}) : x \in s}

CallsOn(k, s) ==
    CASE k = "group"    -> GroupCalls(s)     [] k = "snapshot" -> ShareCalls(s)
      [] k = "instance" -> InstanceCalls(s)  [] k = "key"      -> KeyCalls(s)
      [] k = "role"     -> RoleCalls(s)      [] k = "user"     -> UserCalls(s)
      [] k = "trail"    -> TrailCalls(s)     [] k = "database" -> DatabaseCalls(s)
      [] k = "bucket"   -> BucketCalls(s)

(* What a database has unless the request says otherwise, with an address  *)
(* of the subnet's choice.                                                 *)
Defaults == {d \cup {"unencrypted", "unprotected", "no_iam"} : d \in SUBSET {"public"}}

(* A database is created from a request, of which the fields present are   *)
(* looked at, or restored from a snapshot, which is not looked at; nor is  *)
(* what instances, keys, roles and trails are created with.  The others    *)
(* are born in order.                                                      *)
RequestBirths(given) ==
    UNION {{Call(bad \cup (d \ given), bad, d \ given) : bad \in SUBSET given} : d \in Defaults}
RestoreBirths == {Call(bad, {}, bad) : bad \in SUBSET Settings}
DatabaseBirths == RestoreBirths \cup UNION {RequestBirths(given) : given \in SUBSET Settings}
Births(k) ==
    CASE k = "database" -> DatabaseBirths
      [] k \in {"instance", "key", "role", "trail"} -> {Call(s, {}, Held(k, {s})) : s \in SettingsOf(k)}
      [] OTHER -> {Call({}, {}, {})}

-----------------------------------------------------------------------------

SignalsInit ==
    /\ kind \in Kind /\ state = {} /\ said = {} /\ flagged = {} /\ silent = Held(kind, {})

Becomes(is, says, quiet) ==
    /\ state' = is /\ said' = says
    /\ flagged' = ((flagged \cup says) \ quiet) \cap Held(kind, is)
    /\ silent' = ((silent \cup quiet) \ says) \cap Held(kind, is)
    /\ UNCHANGED kind

Made == state = {} /\ \E c \in Births(kind) : Becomes({c.to}, c.says, c.quiet \ flagged)

Changed == \E s \in state : \E c \in CallsOn(kind, s) :
               c.to \in SettingsOf(kind) /\ Becomes({c.to}, c.says, c.quiet \ flagged)

(* DeleteTrail is told by its action.                                      *)
Removed == state # {} /\ Becomes({}, {"no_multi_region"} \cap Held(kind, {}), {})

SignalsNext == Made \/ Changed \/ Removed
SignalsSpec == SignalsInit /\ [][SignalsNext]_signalVars

-----------------------------------------------------------------------------

(* Whatever a scan finds was told by the event of a call since it last was *)
(* in order, after any sequence of calls, even if another finding hid it   *)
(* from scans since: a port as risky unless it lies beyond the ports the   *)
(* adapter looks at, a public bucket by both halves of what makes it so.   *)
(* Excepted is what the adapter does not look at: settings a resource is   *)
(* created or restored with unless the request names them, and metadata    *)
(* options in a nested field.  And a flag computed from a request is       *)
(* raised only by a call that left its condition behind.                   *)
ChangesSignalled ==
    LET known == flagged \cup silent
        far   == \A s \in state : \A r \in s : Ports(r) \cap Risky # {} => r.hi >= r.lo + MostPorts
        Heard(f) == CASE f = "risky_port"    -> f \in known \/ (far /\ "public_ingress" \in known)
                      [] f = "non_web"       -> "public_ingress" \in known
                      [] f = "public_bucket" -> "bpa_weakened" \in known
                                                /\ {"public_acl", "public_policy"} \cap known # {}
                      [] OTHER               -> f \in known
    IN  /\ \A f \in Findings(kind, state) : Heard(f)
        /\ kind \in {"group", "snapshot", "instance", "database", "bucket"} => said \subseteq Held(kind, state)
=============================================================================
