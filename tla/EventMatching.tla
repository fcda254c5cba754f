----------------------------- MODULE EventMatching -----------------------------
(***************************************************************************)
(* What an event matches: detection rules (rules/engine.py,                *)
(* rules/operators.py), and the conditions that the notifier is given:     *)
(* rules seeded from legacy routes (notify/router.py), module cards        *)
(* (routing_matrix.py) and profiles (profiles.py).  How these settings are *)
(* stored and come into force is LiveSettings; here they are in force.  A  *)
(* behaviour is an event on its way: it arrives and is scored.             *)
(***************************************************************************)
EXTENDS FiniteSets, Integers

VARIABLES
    rulebook, \* the detection rules
    incoming, \* the event as its adapter made it
    scored    \* the event after evaluate, {} before

matchVars == <<rulebook, incoming, scored>>

-----------------------------------------------------------------------------
(* Events and conditions                                                   *)

SeverityOrder == <<"informational", "low", "medium", "high", "critical">>
Named   == {SeverityOrder[n] : n \in 1..5}
Rank(s) == IF s = "none" THEN -1 ELSE CHOOSE n \in 1..5 : SeverityOrder[n] = s

Actions  == {"rds.auth.failure", "iam.anomaly.first_seen_ip", "finding.public.detected", "finding.detected"}
Incident == [module : {"rds", "ueba"}, action : Actions, severity : Named \cup {"none"}, tags : SUBSET {"auth"}]

(* A field as the set of its values, a missing one as no value.            *)
FieldOf(e, f) ==
    CASE f = "severity"      -> {e.severity} \ {"none"}
      [] f = "source.module" -> {e.module}
      [] f = "action"        -> {e.action}
      [] f = "tags"          -> e.tags

(* A leaf of a condition.  The value of "icontains" and "regex" is the set *)
(* of actions with the text.                                               *)
Leaf(f, o, v) == [field |-> f, op |-> o, value |-> v]

LeafHolds(l, e) ==
    LET is == FieldOf(e, l.field)
    IN  CASE l.op = "equals" -> is = l.value
          [] l.op = "exists" -> is # {}
          [] l.op \in {"in", "icontains", "regex"} -> is \cap l.value # {}

(* {"all": [...]}, or a leaf by itself.                                    *)
EvalCondition(leaves, e) == \A l \in leaves : LeafHolds(l, e)

-----------------------------------------------------------------------------
(* Detection rules                                                         *)

Detection == [enabled : BOOLEAN, suppress : BOOLEAN, severity : {"none", "low", "high"},
              match : {{Leaf("action", "equals", {"rds.auth.failure"})},
                       {Leaf("tags", "in", {"auth"})}}]

Rulebooks == {{}} \cup {{c, d} : c \in Detection, d \in Detection}  \* bound: two rules

Matched(e) == {d \in rulebook : d.enabled /\ EvalCondition(d.match, e)}

(* Mutant: a rule without severity counts like any other.                  *)
BestOfAny(ds) == IF ds = {} \/ \E d \in ds : d.severity = "none" THEN "none"
                 ELSE (CHOOSE d \in ds : \A x \in ds : Rank(d.severity) >= Rank(x.severity)).severity
Best(ds) == IF ds = {} THEN "none"
            ELSE (CHOOSE d \in ds : \A x \in ds : Rank(d.severity) >= Rank(x.severity)).severity

(* An event that matches nothing stays as it was.                          *)
Judges(e) ==
    LET ds == Matched(e)
    IN  IF ds = {} THEN e
        ELSE IF \E d \in ds : d.suppress
        THEN [e EXCEPT !.severity = "informational", !.tags = @ \cup {"suppressed"}]
        ELSE [e EXCEPT !.severity = Best(ds)]

-----------------------------------------------------------------------------
(* What the notifier is given                                              *)

(* Each criterion of a route is given, {v}, or not, {}.  Categories are    *)
(* matched as modules are.                                                 *)
Given(vs) == {{}} \cup {{v} : v \in vs}
Route == [enabled : BOOLEAN, least : Given(Named), severity : Given({{}, {"low", "critical"}}),
          modules : Given({{"rds"}}), actions : Given({{"finding.detected"}}),
          tags : Given({{"auth", "suppressed"}})]

RouteMatches(r, e) ==
    /\ r.enabled
    /\ \A s \in r.least : Rank(e.severity) >= Rank(s)
    /\ \A v \in r.severity : e.severity \in v
    /\ \A v \in r.modules : e.module \in v
    /\ \A v \in r.actions : e.action \in v
    /\ \A v \in r.tags : v \cap e.tags # {}

RouteCondition(r) ==
    LET clauses == {Leaf("severity", "in", {s \in Named : Rank(s) >= Rank(x)}) : x \in r.least}
                   \cup {Leaf("severity", "in", v) : v \in r.severity}
                   \cup {Leaf("source.module", "in", v) : v \in r.modules}
                   \cup {Leaf("action", "in", v) : v \in r.actions}
                   \cup {Leaf("tags", "in", v) : v \in r.tags}
    IN  IF clauses = {} THEN {Leaf("action", "exists", {})} ELSE clauses

(* Cards: a module and a threshold, which is read back from the rule.      *)
CardThreshold   == Named \ {"informational"}
Includes(t) == {s \in Named : Rank(s) >= Rank(t)}
CardMatch(m, t) == {Leaf("source.module", "equals", {m}), Leaf("severity", "in", Includes(t))}
ThresholdOf(c) ==
    LET found == {t \in CardThreshold : Leaf("severity", "in", Includes(t)) \in c}
    IN  IF found = {} THEN "high" ELSE CHOOSE t \in found : TRUE

(* Profiles: one kind of event, and severities, the default ones if none   *)
(* is left.                                                                *)
ActionClause(m, k) ==
    IF m = "ueba" THEN Leaf("action", "icontains", {"iam.anomaly.first_seen_ip"})
    ELSE IF m = "findings" THEN Leaf("action", "regex", {"finding.public.detected", "finding.detected"})
    ELSE Leaf("action", "equals", {k})
Normalized(ss) == IF ss \cap Named = {} THEN {"high"} ELSE ss \cap Named
ProfileMatch(m, k, ss) == {ActionClause(m, k), Leaf("severity", "in", Normalized(ss))}

-----------------------------------------------------------------------------

MatchTypeOK ==
    /\ rulebook \subseteq Detection /\ incoming \in Incident /\ Cardinality(scored) <= 1
    /\ \A e \in scored : /\ e.severity \in Named \cup {"none"} /\ e.module = incoming.module
                         /\ e.tags \subseteq incoming.tags \cup {"suppressed"}

MatchInit ==
    /\ rulebook \in Rulebooks
    /\ incoming \in {e \in Incident : e.severity \in {"none", "high"}}
    /\ scored = {}

(* One of the initial states, for a run in which nothing is matched.       *)
MatchRests ==
    /\ rulebook = {} /\ scored = {}
    /\ incoming = [module |-> "rds", action |-> "finding.detected", severity |-> "high", tags |-> {}]

MatchNext ==
    /\ scored = {} /\ scored' = {Judges(incoming)} /\ UNCHANGED <<rulebook, incoming>>

MatchSpec == MatchInit /\ [][MatchNext]_matchVars

-----------------------------------------------------------------------------

(* What an operator sets is what is sent.  A seeded rule matches exactly   *)
(* what its route did.  A card is shown the threshold it was saved with,   *)
(* and is reached by the events of its module that a matching detection    *)
(* rule puts at the threshold or above, unless another one suppresses      *)
(* them; what the adapter said counts only if no rule matches.  A profile  *)
(* is reached by its kind of event at its severities.                      *)
MatchesMeant ==
    /\ rulebook = {} => \A r \in Route :
          RouteMatches(r, incoming) = (r.enabled /\ EvalCondition(RouteCondition(r), incoming))
    /\ \A e \in scored :
          LET ds == Matched(incoming)
              AtLeast(t) == IF ds = {} THEN Rank(incoming.severity) >= Rank(t)
                            ELSE /\ \A d \in ds : ~d.suppress
                                 /\ \E d \in ds : Rank(d.severity) >= Rank(t)
              At(s) == IF s = "informational" THEN e.severity = s ELSE
                       AtLeast(s) /\ \A t \in Named : Rank(t) > Rank(s) => ~AtLeast(t)
          IN  /\ \A m \in {"rds", "ueba"}, t \in CardThreshold :
                    /\ EvalCondition(CardMatch(m, t), e) <=> m = e.module /\ AtLeast(t)
                    /\ ThresholdOf(CardMatch(m, t)) = t
              /\ \A ss \in {{}, {"low"}, {"low", "high"}, {"informational"}} :
                    LET sent == IF ss = {} THEN {"high"} ELSE ss
                    IN  /\ EvalCondition(ProfileMatch("rds", "rds.auth.failure", ss), e)
                              <=> e.action = "rds.auth.failure" /\ \E s \in sent : At(s)
                        /\ EvalCondition(ProfileMatch("findings", "<finding>.detected", ss), e)
                              <=> e.action \in {"finding.public.detected", "finding.detected"}
                                  /\ \E s \in sent : At(s)
=============================================================================
