------------------------------ MODULE RouteViews ------------------------------
(***************************************************************************)
(* What the notification pages say of a rule: the row of a route and the   *)
(* form that saves it (notify/routes_view.py), and the coverage of event   *)
(* kinds that have no profile of their own (notify/catalog.py).  One rule, *)
(* and two operators: one has the form open while the other rewrites it.   *)
(***************************************************************************)
EXTENDS FiniteSets, Integers, Sequences

VARIABLES
    routeRule, \* the row in notification_rules
    form,      \* the route that was opened in the form, {} without
    savedOver  \* the rule that the form was saved over, {} before (ghost)

routeVars == <<routeRule, form, savedOver>>

-----------------------------------------------------------------------------
(* Event kinds, the module of the catalog that lists them, and the module  *)
(* their events come from.                                                 *)

EventKinds == {"iam.user.create", "host.bruteforce"}
Catalog(k) == IF k = "iam.user.create" THEN "aws.iam" ELSE "ec2.host"
Origin(k)  == IF k = "iam.user.create" THEN "aws.cloudtrail" ELSE "ec2.host"

CatalogModules == {Catalog(k) : k \in EventKinds}
Levels         == {"medium", "high"}

(* Clauses and rules: {"all": [...]} or {"any": [...]}.                    *)
Clauses ==
    [field : {"module"}, values : {{"ec2.host"}, {"aws.iam"}, {"aws.cloudtrail"}}, negated : BOOLEAN]
    \cup [field : {"action"}, values : {{"iam.user.create"}, EventKinds}, negated : BOOLEAN]
    \cup [field : {"severity"}, values : {{"high"}, Levels}, negated : {FALSE}]

ClauseLists == UNION {[1..n -> Clauses] : n \in 0..2}
Trees == [shape : {"all"}, clauses : ClauseLists] \cup [shape : {"any"}, clauses : ClauseLists \ {<<>>}]
RuleRows == [tree : Trees, active : BOOLEAN, channels : 0..2]

Holds(c, k, s) ==
    LET is == CASE c.field = "module" -> Origin(k)
                [] c.field = "action" -> k
                [] c.field = "severity" -> s
    IN  (is \in c.values) # c.negated

Selects(t, k, s) ==
    IF t.shape = "all" THEN \A i \in DOMAIN t.clauses : Holds(t.clauses[i], k, s)
                       ELSE \E i \in DOMAIN t.clauses : Holds(t.clauses[i], k, s)

-----------------------------------------------------------------------------
(* The row of a route                                                      *)

(* What a clause says of the module, "" if nothing: an action is of the    *)
(* module whose catalog has it, a list of actions if they agree.           *)
ModuleIn(c) ==
    LET owners == IF c.field = "action" THEN {Catalog(k) : k \in c.values} ELSE c.values
        owner  == CHOOSE m \in owners : TRUE
    IN  IF c.negated \/ c.field = "severity" \/ Cardinality(owners) # 1 THEN ""
        ELSE IF owner = "aws.cloudtrail" THEN "aws.iam" ELSE owner

(* The first clause that says anything; clauses of "any" say nothing.      *)
FirstOr(t, said, none) ==
    LET saying == {i \in DOMAIN said : said[i] # none}
    IN  IF t.shape = "any" \/ saying = {} THEN none
        ELSE said[CHOOSE i \in saying : \A j \in saying : i <= j]

SeveritiesIn(c) == IF c.field = "severity" THEN c.values ELSE {}
SeveritiesOf(t) == FirstOr(t, [i \in DOMAIN t.clauses |-> SeveritiesIn(t.clauses[i])], {})
ModuleOf(t) ==
    LET m == FirstOr(t, [i \in DOMAIN t.clauses |-> ModuleIn(t.clauses[i])], "")
    IN  IF m = "" THEN "__custom__" ELSE m

(* _rule_kind.  Mutant: an action is as simple.                            *)
SimpleFields  == {"module", "severity"}
AnySimple(t)  == t.shape = "all" /\ \A i \in DOMAIN t.clauses : ~t.clauses[i].negated
RuleSimple(t) == t.shape = "all" /\ \A i \in DOMAIN t.clauses :
                    ~t.clauses[i].negated /\ t.clauses[i].field \in SimpleFields

RouteRow(r) == [module |-> ModuleOf(r.tree), severities |-> SeveritiesOf(r.tree), active |-> r.active]

BuildSimpleMatch(module, severities) ==
    [shape |-> "all", clauses |-> << [field |-> "module", values |-> {module}, negated |-> FALSE],
                                     [field |-> "severity", values |-> severities, negated |-> FALSE] >>]

-----------------------------------------------------------------------------
(* Coverage of a kind                                                      *)

(* _rule_covers_event, by all leaves wherever they are.                    *)
LeavesOf(t) == {t.clauses[i] : i \in DOMAIN t.clauses}
Covers(r, k) ==
    LET named == {c \in LeavesOf(r.tree) : c.field = "action"}
    IN  IF named # {} THEN \E c \in named : k \in c.values
        ELSE \E c \in LeavesOf(r.tree) : /\ c.field = "module"
                                         /\ c.values \subseteq {Catalog(k), Origin(k)}

RuleSeverities(r) == UNION {c.values : c \in {d \in LeavesOf(r.tree) : d.field = "severity"}}

(* Mutant: rules that are off count as well.                               *)
FallbackIfAny(r, k) == Covers(r, k) /\ r.channels > 0
FallbackFor(r, k) == Covers(r, k) /\ r.channels > 0 /\ r.active

CoverageOf(k) ==
    IF FallbackFor(routeRule, k) THEN "fallback"
    ELSE IF Covers(routeRule, k) /\ routeRule.channels > 0 THEN "muted"
    ELSE "unconfigured"

HighGap(k) == ~(Covers(routeRule, k) /\ "high" \in RuleSeverities(routeRule))

-----------------------------------------------------------------------------
RoutesTypeOK ==
    /\ routeRule.tree.shape \in {"all", "any"} /\ Len(routeRule.tree.clauses) <= 2
    /\ routeRule.active \in BOOLEAN /\ routeRule.channels \in 0..2
    /\ \A f \in form : f.module \in CatalogModules \cup {"__custom__"} /\ f.severities \subseteq Levels
    /\ savedOver \subseteq RuleRows

RoutesInit == routeRule \in RuleRows /\ form = {} /\ savedOver = {}

(* Where another part of the system moves.                                 *)
RoutesRest ==
    /\ routeRule = [tree |-> [shape |-> "all", clauses |-> <<>>], active |-> FALSE, channels |-> 0]
    /\ form = {} /\ savedOver = {}

(* Only a route with a channel has a row, and a simple one opens the form. *)
OpensForm ==
    /\ routeRule.channels > 0 /\ RuleSimple(routeRule.tree) /\ form = {}
    /\ form' = {RouteRow(routeRule)} /\ savedOver' = {}
    /\ UNCHANGED routeRule

(* upsert_simple_route with the form as it was opened.                     *)
Savable(f) == f.module # "" /\ f.severities # {}

SavesForm ==
    \E f \in form :
       /\ Savable(f) /\ savedOver = {}
       /\ routeRule' = [tree |-> BuildSimpleMatch(f.module, f.severities), active |-> f.active, channels |-> 1]
       /\ savedOver' = {routeRule} /\ UNCHANGED form

(* The other operator, meanwhile.                                          *)
RewritesRule ==
    /\ form # {} /\ savedOver = {}
    /\ routeRule' \in {[routeRule EXCEPT !.active = ~@],
                       [routeRule EXCEPT !.tree = BuildSimpleMatch("ec2.host", {"high"})]}
    /\ UNCHANGED <<form, savedOver>>

RoutesNext == OpensForm \/ SavesForm \/ RewritesRule

RoutesSpec == RoutesInit /\ [][RoutesNext]_routeVars

-----------------------------------------------------------------------------
Once(t, f)  == Cardinality({i \in DOMAIN t.clauses : t.clauses[i].field = f}) <= 1
SaysModule(t, ms) == \E i \in DOMAIN t.clauses : t.clauses[i].field = "module" /\ t.clauses[i].values \subseteq ms
Aimed(t)    == Cardinality({i \in DOMAIN t.clauses : t.clauses[i].field \in {"module", "action"}}) = 1
Direct(t)   == t.shape = "all" /\ \A i \in DOMAIN t.clauses : ~t.clauses[i].negated

(* A form that is saved as it was opened selects what the rule selected,   *)
(* unless the rule was rewritten meanwhile, names a field twice, names no  *)
(* module (it then selects nothing) or names CloudTrail (the catalog's     *)
(* "aws.iam" is the module of no event).  For a rule with one clause on    *)
(* its events and no negation the coverage page agrees with the notifier:  *)
(* a kind is covered if some event of it is sent, but for that "aws.iam",  *)
(* and lacks high severity if none of those is, but for a rule that names  *)
(* no severity.                                                            *)
RoutesShown ==
    /\ \A r \in savedOver, f \in form :
          LET t == r.tree
          IN  RouteRow(r) = f /\ Once(t, "module") /\ Once(t, "severity")
                /\ f.module # "__custom__" /\ ~SaysModule(t, {"aws.cloudtrail"}) =>
                  \A k \in EventKinds, s \in Levels : Selects(routeRule.tree, k, s) <=> Selects(t, k, s)
    /\ Direct(routeRule.tree) /\ Aimed(routeRule.tree) =>
          \A k \in EventKinds :
             LET sent == {s \in Levels : /\ Selects(routeRule.tree, k, s)
                                         /\ routeRule.active /\ routeRule.channels > 0}
             IN  /\ sent # {} => CoverageOf(k) = "fallback"
                 /\ CoverageOf(k) = "fallback" => sent # {} \/ SaysModule(routeRule.tree, {"aws.iam"})
                 /\ "high" \in sent => ~HighGap(k) \/ RuleSeverities(routeRule) = {}
=============================================================================
