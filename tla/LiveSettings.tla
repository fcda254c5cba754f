----------------------------- MODULE LiveSettings -----------------------------
(***************************************************************************)
(* What an administrator sets, in the database and in the memory of the    *)
(* process that acts on it: notification rules and channels (Notifier),    *)
(* mutes (blackwatch/noise.py), the overrides of one detection rule        *)
(* (RuleEngine) and a profile with the rule compiled from it.  Every       *)
(* request writes a row and then renews the copy, and requests overlap:    *)
(* the handlers are plain functions run by a pool of threads, and nothing  *)
(* is locked.  One row, and the tables that go with it: requests on        *)
(* different tables do not meet, and two on different rows of a table meet *)
(* in the list they both read and assign.                                  *)
(***************************************************************************)
EXTENDS Naturals

CONSTANTS
    Request,     \* threads that serve requests
    MaxMishaps   \* bound: failing statements and restarts

VARIABLES
    subject,  \* what is set: the rule of a "route", a "card" or a "profile", or another row
    yamlOn,   \* whether the YAML of the detection rule enables it
    saved,    \* the rows in the database
    live,     \* what the process goes by
    serving,  \* what each thread is doing
    behind,   \* copies that an overlap or a failure has left behind, a half saved profile
    mishaps

settingsVars == <<subject, yamlOn, saved, live, serving, behind, mishaps>>

ASSUME SettingsAssumption == MaxMishaps \in Nat

Lists  == {"rules", "channels", "mutes"}     \* copied as whole lists
Fields == {"enabled", "severity"}            \* set in the rule engine one by one
Copies == Lists \cup Fields
Tables == Copies \cup {"profile"}

Ruled    == {"route", "card", "profile"}
Subjects == Ruled \cup {"channel", "mute", "detection"}

(* mark: a rule's silence, or a severity ("void" is no severity at all)    *)
Setting    == [there : BOOLEAN, on : BOOLEAN, mark : {"none", "set", "void"}]
Absent == [there |-> FALSE, on |-> FALSE, mark |-> "none"]

\* The list that the subject is a row of.
ListOf == CASE subject \in Ruled    -> "rules"
            [] subject = "channel" -> "channels"
            [] OTHER               -> "mutes"

NoRequest == [table |-> "profile", stage |-> "idle", got |-> Absent, raced |-> FALSE]

SettingsTypeOK ==
    /\ subject \in Subjects /\ yamlOn \in BOOLEAN
    /\ saved \in [Tables -> Setting] /\ live \in [Copies -> Setting]
    /\ serving \in [Request -> [table : Tables, got : Setting, raced : BOOLEAN,
                        stage : {"idle", "viewing", "halfway", "wrote", "holding"}]]
    /\ behind \subseteq Tables /\ mishaps \in 0..MaxMishaps

(* upsert_notification_rule leaves silence_until alone.                    *)
Upserted(row, on)  == [row EXCEPT !.there = TRUE, !.on = on]
Toggled(row, on)   == IF row.there THEN [row EXCEPT !.on = on] ELSE row
Silenced(row, m)   == IF row.there THEN [row EXCEPT !.mark = m] ELSE row

(* What the process goes by after a start; mutant: the YAML alone.         *)
DefaultAtStart(t) == CASE t = "enabled"  -> [Absent EXCEPT !.on = yamlOn]
                       [] t = "severity" -> Absent
                       [] OTHER          -> saved[t]
AtStart(t) == IF t = "enabled" /\ ~saved[t].there THEN [Absent EXCEPT !.on = yamlOn] ELSE saved[t]

SettingsInit ==
    /\ subject \in Subjects
    /\ yamlOn \in (IF subject = "detection" THEN BOOLEAN ELSE {TRUE})
    /\ saved = [t \in Tables |-> Absent]
    /\ live = [t \in Copies |-> IF t = "enabled" THEN [Absent EXCEPT !.on = yamlOn] ELSE Absent]
    /\ serving = [r \in Request |-> NoRequest]
    /\ behind = {}
    /\ mishaps = 0

-----------------------------------------------------------------------------
(* A write of a row, while other requests may hold what they read before.  *)

Overtaken(q, t) == [q EXCEPT !.raced = @ \/ (q.stage \in {"holding", "halfway"} /\ q.table = t)]

Goes(r, t, stage, row) ==
    serving' = [q \in Request |->
        IF q = r THEN [table |-> t, stage |-> stage, got |-> row, raced |-> FALSE]
                 ELSE Overtaken(serving[q], t)]

Writes(r, t, row) ==
    /\ serving[r].stage = "idle"
    /\ saved' = [saved EXCEPT ![t] = row]
    /\ Goes(r, t, IF t \in Fields THEN "holding" ELSE "wrote", row)
    /\ UNCHANGED <<subject, yamlOn, live, mishaps>>

(* The generic endpoints may edit the rule of a profile past the profile.  *)
WritesRule(r, row) ==
    /\ subject \in Ruled
    /\ Writes(r, "rules", row)
    /\ behind' = IF subject = "profile" THEN behind \cup {"profile"} ELSE behind

SavesRule(r)    == \E on \in BOOLEAN : WritesRule(r, Upserted(saved["rules"], on))
TogglesRule(r)  == \E on \in BOOLEAN : WritesRule(r, Toggled(saved["rules"], on))
SilencesRule(r) == \E m \in {"none", "set"} : WritesRule(r, Silenced(saved["rules"], m))
DeletesRule(r)  == WritesRule(r, Absent)

(* The wizard's form of SavesRule.                                         *)
SavesRoute(r) == subject = "route" /\ SavesRule(r)

(* A card without a channel is switched off by deleting its rule.          *)
SavesCard(r) ==
    /\ subject = "card"
    /\ \/ SavesRule(r)
       \/ DeletesRule(r)

SilencesCard(r) == subject = "card" /\ SilencesRule(r)

WritesChannel(r, row) == subject = "channel" /\ Writes(r, "channels", row) /\ UNCHANGED behind
SavesChannel(r)   == \E on \in BOOLEAN : WritesChannel(r, Upserted(saved["channels"], on))
TogglesChannel(r) == \E on \in BOOLEAN : WritesChannel(r, Toggled(saved["channels"], on))
DeletesChannel(r) == WritesChannel(r, Absent)

Mutes(r)   == subject = "mute" /\ Writes(r, "mutes", Upserted(Absent, TRUE)) /\ UNCHANGED behind
Unmutes(r) == subject = "mute" /\ Writes(r, "mutes", Absent) /\ UNCHANGED behind

(* set_rule_override                                                       *)
TogglesDetection(r) ==
    subject = "detection" /\ \E on \in BOOLEAN : Writes(r, "enabled", Upserted(saved["enabled"], on)) /\ UNCHANGED behind

(* The row of the override is shared: a severity set first enables a rule  *)
(* that its YAML disables, from the next start on.                         *)
SeverityUpserted(m) ==
    [saved EXCEPT !["severity"] = [there |-> TRUE, on |-> TRUE, mark |-> m],
                  !["enabled"] = IF @.there THEN @ ELSE Upserted(Absent, TRUE)]

SetsSeverity(r) ==
    /\ subject = "detection"
    /\ serving[r].stage = "idle"
    /\ \E m \in {"none", "set"} :
           /\ saved' = SeverityUpserted(m)
           /\ Goes(r, "severity", "holding", saved'["severity"])
    /\ behind' = IF saved["enabled"].there \/ yamlOn THEN behind ELSE behind \cup {"enabled"}
    /\ UNCHANGED <<subject, yamlOn, live, mishaps>>

(* A page, or the test of a card, that renews the copy before it uses it.  *)
(* A card whose write failed goes on in the same way.                      *)
Views(r) ==
    /\ subject \in Ruled \cup {"channel"}
    /\ serving[r].stage = "idle"
    /\ serving' = [serving EXCEPT ![r] = [NoRequest EXCEPT !.table = ListOf, !.stage = "viewing"]]
    /\ UNCHANGED <<subject, yamlOn, saved, live, behind, mishaps>>

-----------------------------------------------------------------------------
(* save_profile and delete_profile: the profile, then the rule.            *)

WritesProfile(r, row) ==
    /\ subject = "profile"
    /\ serving[r].stage = "idle"
    /\ saved' = [saved EXCEPT !["profile"] = row]
    /\ Goes(r, "profile", "halfway", row)
    /\ UNCHANGED <<subject, yamlOn, live, behind, mishaps>>

SavesProfile(r)   == \E on \in BOOLEAN : WritesProfile(r, Upserted(Absent, on))
DeletesProfile(r) == WritesProfile(r, Absent)

CompilesRule(r) ==
    /\ serving[r].stage = "halfway"
    /\ saved' = [saved EXCEPT !["rules"] = IF serving[r].got.there
                                           THEN Upserted(@, serving[r].got.on) ELSE Absent]
    /\ behind' = IF serving[r].raced THEN behind \cup {"profile"} ELSE behind \ {"profile"}
    /\ Goes(r, "rules", "wrote", Absent)
    /\ UNCHANGED <<subject, yamlOn, live, mishaps>>

-----------------------------------------------------------------------------
(* reload_rules, reload_channels, noise.refresh: list, then assign.        *)

Relists(r) ==
    /\ serving[r].stage \in {"viewing", "wrote"}
    /\ serving' = [serving EXCEPT ![r].stage = "holding", ![r].got = saved[serving[r].table]]
    /\ UNCHANGED <<subject, yamlOn, saved, live, behind, mishaps>>

(* A cleared severity is no severity in the engine, and the YAML's again   *)
(* after the next start.                                                   *)
InMemory(t, row) == IF t = "severity" /\ row.mark = "none" THEN [row EXCEPT !.mark = "void"] ELSE row

Assigns(r) ==
    LET t == serving[r].table
    IN  /\ serving[r].stage = "holding"
        /\ live' = [live EXCEPT ![t] = InMemory(t, serving[r].got)]
        /\ behind' = IF serving[r].raced THEN behind \cup {t} ELSE behind \ {t}
        /\ serving' = [serving EXCEPT ![r] = NoRequest]
        /\ UNCHANGED <<subject, yamlOn, saved, mishaps>>

(* A list that cannot be read leaves the copy as it is, and the request    *)
(* that changed the rows is answered all the same.                         *)
ListFails(r) ==
    /\ serving[r].stage \in {"viewing", "wrote"}
    /\ mishaps < MaxMishaps
    /\ mishaps' = mishaps + 1
    /\ behind' = IF serving[r].stage = "wrote" THEN behind \cup {serving[r].table} ELSE behind
    /\ serving' = [serving EXCEPT ![r] = NoRequest]
    /\ UNCHANGED <<subject, yamlOn, saved, live>>

(* The second statement of a profile fails; a failing entry in the audit   *)
(* is a request that ends with its list unread.                            *)
ProfileFails(r) ==
    /\ serving[r].stage = "halfway"
    /\ mishaps < MaxMishaps
    /\ mishaps' = mishaps + 1
    /\ behind' = behind \cup {"profile"}
    /\ serving' = [serving EXCEPT ![r] = NoRequest]
    /\ UNCHANGED <<subject, yamlOn, saved, live>>

(* The process starts again: every copy is read, or is empty if its list   *)
(* cannot be read.                                                         *)
Restarts ==
    /\ mishaps < MaxMishaps
    /\ mishaps' = mishaps + 1
    /\ \E unread \in SUBSET {ListOf} :
           /\ live' = [t \in Copies |-> IF t \in unread THEN Absent ELSE AtStart(t)]
           /\ behind' = unread \cup (behind \cap {"profile"})
                   \cup {t \in {"profile"} : \E r \in Request : serving[r].stage = "halfway"}
    /\ serving' = [r \in Request |-> NoRequest]
    /\ UNCHANGED <<subject, yamlOn, saved>>

SettingsNext ==
    \/ \E r \in Request :
           \/ SavesRule(r) \/ TogglesRule(r) \/ SilencesRule(r) \/ DeletesRule(r)
           \/ SavesRoute(r) \/ SavesCard(r) \/ SilencesCard(r)
           \/ SavesChannel(r) \/ TogglesChannel(r) \/ DeletesChannel(r)
           \/ Mutes(r) \/ Unmutes(r) \/ TogglesDetection(r) \/ SetsSeverity(r) \/ Views(r)
           \/ SavesProfile(r) \/ DeletesProfile(r) \/ CompilesRule(r)
           \/ Relists(r) \/ Assigns(r) \/ ListFails(r) \/ ProfileFails(r)
    \/ Restarts

SettingsSpec == SettingsInit /\ [][SettingsNext]_settingsVars

-----------------------------------------------------------------------------

(* The disagreement with rule_severity, api.py:455-456: "Passing null       *)
(* clears the override and the rule falls back to whatever the YAML        *)
(* defines".  The row does; the engine is given no severity at all, and    *)
(* has the YAML's from the next start on.                                  *)
ClearedSeverityLags == saved["severity"].mark = "none" /\ live["severity"].mark = "void"

InForce(t) ==
    CASE t = "enabled"  -> live[t].on = IF saved[t].there THEN saved[t].on ELSE yamlOn
      [] t = "severity" -> live[t].mark = saved[t].mark \/ ClearedSeverityLags
      [] OTHER          -> live[t] = saved[t]

AtWork(t) == \E r \in Request : serving[r].stage # "idle" /\ serving[r].table = t

(* What is saved is in force once the requests on it are through, however  *)
(* they overlap and whatever was set before the last start, and a profile  *)
(* has the rule it says; unless a write came between what the last of them *)
(* read and what it assigned, or a statement failed (rule_toggle: "Persists*)
(* the override and updates the live engine in-process").  Excepted by     *)
(* name: a severity cleared since the last start, ClearedSeverityLags.     *)
SettingsInForce ==
    /\ \A t \in Copies \ behind : ~AtWork(t) => InForce(t)
    /\ subject = "profile" /\ "profile" \notin behind /\ ~AtWork("profile")
           => saved["rules"].there = saved["profile"].there /\ saved["rules"].on = saved["profile"].on
=============================================================================
