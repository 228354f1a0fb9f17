---------------------------- MODULE ExtensionFirewall ----------------------------
(***************************************************************************)
(* The background worker of apps/extension: it pulls the blocklist from    *)
(* the gateway, keeps it in storage.local, and turns it into redirect      *)
(* rules of the browser.  Its handlers (sync, settings changed, "continue  *)
(* anyway", expiry alarm, popup status) are asynchronous functions: they   *)
(* interleave at every await, and each works on what it read before.       *)
(*                                                                         *)
(* The worker can be killed between two awaits, which loses its handlers   *)
(* but neither storage nor rules; a restart of the browser also empties    *)
(* storage.session.  blMeta, the statistics and the badge are display.     *)
(***************************************************************************)
EXTENDS Integers, FiniteSets, Sequences, Functions

CONSTANTS
    Domains,            \* valid host names, numbered in the order of a snapshot
    Seed,               \* the gateway's list when its database does not answer
    Handlers,           \* handlers that may run at once
    LEASE,              \* TEMP_ALLOW_MINUTES, in ticks
    MAX_BLOCK_RULES,
    Failing,            \* what may fail: a subset of FaultKinds
    MaxDeaths,          \* bound: deaths of the worker and restarts of the browser
    MaxEdits,           \* bound: edits on the options page
    Unset               \* nothing stored

\* The request or gateway, the gateway's database, the worker, the browser.
FaultKinds == {"gateway", "database", "worker", "browser"}

ASSUME DomainsAssumption == Domains \subseteq Nat /\ IsFiniteSet(Domains) /\ Seed \subseteq Domains
ASSUME LimitAssumption == LEASE \in Nat \ {0} /\ MAX_BLOCK_RULES \in Nat
ASSUME BoundAssumption ==
    Failing \subseteq FaultKinds /\ MaxDeaths \in Nat /\ MaxEdits \in Nat

VARIABLES
    table,      \* domains in the gateway's blocklist table
    list,       \* storage.local: blocklist
    settings,   \* storage.local: settings
    page,       \* the settings the open options page holds
    lease,      \* storage.session: tempAllow, as the time left
    incidents,  \* storage.session: incidentMap
    alarm,      \* time left of the alarm of a domain
    rules,      \* the browser's dynamic rules, by id
    shown,      \* domains an open block page names
    changed,    \* onChanged events of settings not yet delivered
    starting,   \* onInstalled or onStartup is not yet delivered
    pc,         \* per handler: the step it is about to take
    task,       \* and the event it handles
    held,       \* and what it has read
    disturbed,  \* history: two handlers ran at once, or the worker was killed
    deaths,
    edits

storage == <<list, settings, lease, incidents, alarm, rules>>
outside == <<table, page, shown, changed, starting, deaths, edits>>
vars == <<storage, outside, pc, task, held, disturbed>>

Absent == -1
Never == [d \in Domains |-> Absent]
Levels == {"standard", "monitor"}       \* strict blocks as standard does
Settings == [level : Levels, allow : SUBSET Domains]
DEFAULT_SETTINGS == [level |-> "standard", allow |-> {}]
Blank == [block |-> {}, settings |-> Unset, lease |-> Never, ids |-> {}, domain |-> Unset]

Tasks == {"boot", "sync", "allow", "expire", "status", "rebuild"}
Steps == {"persist", "fetch", "store", "get", "purge", "act", "alarm",
          "read", "clean", "map", "list", "update"}
Times == Absent .. LEASE
Ids == 1 .. Cardinality(Domains)
Copies == [block : SUBSET Domains, settings : Settings \cup {Unset},
           lease : [Domains -> Times], ids : SUBSET Ids, domain : Domains \cup {Unset}]

TypeOK ==
    /\ table \subseteq Domains
    /\ list \subseteq Domains
    /\ settings \in Settings \cup {Unset}
    /\ page \in Settings \cup {Unset}
    /\ lease \in [Domains -> Times]
    /\ incidents \in Seq(Domains)
    /\ alarm \in [Domains -> Times]
    /\ DOMAIN rules \subseteq Ids /\ \A i \in DOMAIN rules : rules[i] \in Domains
    /\ shown \subseteq Domains
    /\ changed \in Nat
    /\ starting \in BOOLEAN
    /\ pc \in [Handlers -> {"idle"} \cup Steps]
    /\ task \in [Handlers -> {"none"} \cup Tasks]
    /\ held \in [Handlers -> Copies]
    /\ disturbed \in BOOLEAN
    /\ deaths \in 0 .. MaxDeaths
    /\ edits \in 0 .. MaxEdits

Init ==
    /\ table \in SUBSET Domains
    /\ list = {}
    /\ settings = Unset
    /\ page = Unset
    /\ lease = Never
    /\ incidents = <<>>
    /\ alarm = Never
    /\ rules = <<>>
    /\ shown = {}
    /\ changed = 0
    /\ starting = TRUE
    /\ pc = [h \in Handlers |-> "idle"]
    /\ task = [h \in Handlers |-> "none"]
    /\ held = [h \in Handlers |-> Blank]
    /\ disturbed = FALSE
    /\ deaths = 0
    /\ edits = 0

------------------------------------------------------------------------------
(* Helpers *)

\* getSettings: the defaults where nothing is stored.
Effective(s) == IF s = Unset THEN DEFAULT_SETTINGS ELSE s

Live(l) == {d \in Domains : l[d] > 0}
Kept(l) == [d \in Domains |-> IF l[d] > 0 THEN l[d] ELSE Absent]
HasExpired(l) == \E d \in Domains : l[d] = 0

\* The domains that get a rule: none in monitor mode, no exception otherwise.
Blockable(l, s, allowed) ==
    IF s.level = "monitor" THEN {} ELSE l \ (s.allow \cup allowed)

\* buildBlockRules: ids 1, 2, ... in the order of the list, up to the maximum.
Place(d, block) == Cardinality({e \in block : e <= d})
Build(block) ==
    [i \in {Place(d, block) : d \in block} \cap 1 .. MAX_BLOCK_RULES |->
        CHOOSE d \in block : Place(d, block) = i]

\* The rules or incidents in kept, and the new ones, which come first.
Together(new, kept) ==
    [i \in DOMAIN new \cup DOMAIN kept |-> IF i \in DOMAIN new THEN new[i] ELSE kept[i]]

\* load, and seed when the query fails or finds nothing.
Snapshot(answers) == IF answers /\ table # {} THEN table ELSE Seed

Goto(h, step) == pc' = [pc EXCEPT ![h] = step]

\* A handler starts on a free slot.
Start(h, event, step, read) ==
    /\ pc[h] = "idle"
    /\ Goto(h, step)
    /\ task' = [task EXCEPT ![h] = event]
    /\ held' = [held EXCEPT ![h] = read]
    /\ disturbed' = (disturbed \/ \E g \in Handlers : pc[g] # "idle")

\* It returns or throws.
End(h) ==
    /\ Goto(h, "idle")
    /\ task' = [task EXCEPT ![h] = "none"]
    /\ held' = [held EXCEPT ![h] = Blank]

\* It goes on to rebuildRules, which takes nothing from it.
Rebuild(h) ==
    /\ Goto(h, "read")
    /\ task' = [task EXCEPT ![h] = "rebuild"]
    /\ held' = [held EXCEPT ![h] = Blank]

\* storage.local.set: an event if the value is another one.
Save(new) ==
    /\ settings' = new
    /\ changed' = IF new = settings THEN changed ELSE changed + 1

------------------------------------------------------------------------------
(* Events *)

\* onInstalled, onStartup: bootstrap reads the settings ...
Bootstrap(h) ==
    /\ starting
    /\ starting' = FALSE
    /\ Start(h, "boot", "persist", [Blank EXCEPT !.settings = Effective(settings)])
    /\ UNCHANGED <<storage, table, page, shown, changed, deaths, edits>>

\* ... writes them back, and syncs.
PersistSettings(h) ==
    /\ pc[h] = "persist"
    /\ Save(held[h].settings)
    /\ Goto(h, "fetch")
    /\ task' = [task EXCEPT ![h] = "sync"]
    /\ held' = [held EXCEPT ![h] = Blank]
    /\ UNCHANGED <<list, lease, incidents, alarm, rules, table, page, shown, starting,
                   deaths, edits, disturbed>>

\* The periodic alarm, or the button of the popup.
SyncRequested(h) ==
    /\ Start(h, "sync", "fetch", Blank)
    /\ UNCHANGED <<storage, outside>>

\* Mutant: the rebuild runs without an event.
RebuildUnasked(h) ==
    /\ changed' = changed - 1
    /\ Start(h, "rebuild", "read", Blank)
    /\ UNCHANGED <<storage, table, page, shown, starting, deaths, edits>>

SettingsChanged(h) ==
    /\ changed > 0
    /\ changed' = changed - 1
    /\ Start(h, "rebuild", "read", Blank)
    /\ UNCHANGED <<storage, table, page, shown, starting, deaths, edits>>

\* "Continue anyway" on a block page.
ProceedAnyway(h) ==
    /\ \E d \in shown : Start(h, "allow", "get", [Blank EXCEPT !.domain = d])
    /\ UNCHANGED <<storage, outside>>

AlarmFires(h, d) ==
    /\ alarm[d] = 0
    /\ alarm' = [alarm EXCEPT ![d] = Absent]
    /\ Start(h, "expire", "get", [Blank EXCEPT !.domain = d])
    /\ UNCHANGED <<list, settings, lease, incidents, rules, outside>>

\* The popup asks for the status.
StatusRequested(h) ==
    /\ Start(h, "status", "get", Blank)
    /\ UNCHANGED <<storage, outside>>

------------------------------------------------------------------------------
(* syncBlocklist *)

\* The gateway answers; count and hash are those of the entries it sends.
SnapshotArrives(h) ==
    /\ pc[h] = "fetch"
    /\ \E answers \in BOOLEAN :
         /\ answers \/ "database" \in Failing
         /\ held' = [held EXCEPT ![h] = [Blank EXCEPT !.block = Snapshot(answers)]]
    /\ Goto(h, "store")
    /\ UNCHANGED <<storage, outside, task, disturbed>>

\* No answer, an error, or an answer that fails validation: only blMeta changes.
SyncFails(h) ==
    /\ pc[h] = "fetch"
    /\ "gateway" \in Failing
    /\ End(h)
    /\ UNCHANGED <<storage, outside, disturbed>>

\* Mutant: the new list is stored and the rules are left as they are.
StoreOnly(h) ==
    /\ pc[h] = "store"
    /\ list' = held[h].block
    /\ End(h)
    /\ UNCHANGED <<settings, lease, incidents, alarm, rules, outside, disturbed>>

StoreBlocklist(h) ==
    /\ pc[h] = "store"
    /\ list' = held[h].block
    /\ Rebuild(h)
    /\ UNCHANGED <<settings, lease, incidents, alarm, rules, outside, disturbed>>

------------------------------------------------------------------------------
(* getTempAllow, and what addTempAllow and the alarm do with it *)

\* Expired entries are dropped from the copy, and a second write drops them
\* from storage.
GetTempAllow(h) ==
    /\ pc[h] = "get"
    /\ held' = [held EXCEPT ![h].lease = Kept(lease)]
    /\ Goto(h, IF HasExpired(lease) THEN "purge" ELSE "act")
    /\ UNCHANGED <<storage, outside, task, disturbed>>

PurgeTempAllow(h) ==
    /\ lease' = held[h].lease
    /\ \/ pc[h] = "purge" /\ Goto(h, "act") /\ UNCHANGED held
       \/ pc[h] = "clean" /\ Goto(h, "map") /\ held' = [held EXCEPT ![h].lease = Never]
    /\ UNCHANGED <<list, settings, incidents, alarm, rules, outside, task, disturbed>>

AddTempAllow(h) ==
    /\ pc[h] = "act"
    /\ task[h] = "allow"
    /\ held' = [held EXCEPT ![h].lease[held[h].domain] = LEASE]
    /\ lease' = held'[h].lease
    /\ Goto(h, "alarm")
    /\ UNCHANGED <<list, settings, incidents, alarm, rules, outside, task, disturbed>>

\* Mutant: no alarm is set when the entry has one already.
CreateAlarmOnce(h) ==
    /\ pc[h] = "alarm"
    /\ LET d == held[h].domain
       IN  alarm' = [alarm EXCEPT ![d] = IF @ = Absent THEN held[h].lease[d] ELSE @]
    /\ Rebuild(h)
    /\ UNCHANGED <<list, settings, lease, incidents, rules, outside, disturbed>>

\* chrome.alarms.create replaces the alarm of the same name.
CreateAlarm(h) ==
    /\ pc[h] = "alarm"
    /\ LET d == held[h].domain
       IN  alarm' = [alarm EXCEPT ![d] = held[h].lease[d]]
    /\ Rebuild(h)
    /\ UNCHANGED <<list, settings, lease, incidents, rules, outside, disturbed>>

\* The alarm removes the entry, if the copy has one.
DropTempAllow(h) ==
    /\ pc[h] = "act"
    /\ task[h] = "expire"
    /\ LET d == held[h].domain
       IN  lease' = IF held[h].lease[d] # Absent
                      THEN [held[h].lease EXCEPT ![d] = Absent]
                      ELSE lease
    /\ Rebuild(h)
    /\ UNCHANGED <<list, settings, incidents, alarm, rules, outside, disturbed>>

StatusReturns(h) ==
    /\ pc[h] = "act"
    /\ task[h] = "status"
    /\ End(h)
    /\ UNCHANGED <<storage, outside, disturbed>>

------------------------------------------------------------------------------
(* rebuildRules *)

\* The three reads are issued in one turn, before any later write.
ReadInputs(h) ==
    /\ pc[h] = "read"
    /\ held' = [held EXCEPT
                  ![h].lease = IF HasExpired(lease) THEN Kept(lease) ELSE Never,
                  ![h].block = Blockable(list, Effective(settings), Live(lease))]
    /\ Goto(h, IF HasExpired(lease) THEN "clean" ELSE "map")
    /\ UNCHANGED <<storage, outside, task, disturbed>>

\* Mutant: old incidents stay behind the new ones.
KeepOldIncidents(h) ==
    /\ pc[h] = "map"
    /\ incidents' = Together(Build(held[h].block), incidents)
    /\ Goto(h, "list")
    /\ UNCHANGED <<list, settings, lease, alarm, rules, outside, task, held, disturbed>>

SetIncidentMap(h) ==
    /\ pc[h] = "map"
    /\ incidents' = Build(held[h].block)
    /\ Goto(h, "list")
    /\ UNCHANGED <<list, settings, lease, alarm, rules, outside, task, held, disturbed>>

GetDynamicRules(h) ==
    /\ pc[h] = "list"
    /\ held' = [held EXCEPT ![h].ids = DOMAIN rules]
    /\ Goto(h, "update")
    /\ UNCHANGED <<storage, outside, task, disturbed>>

\* Mutant: only the ids of the new rules are removed.
ReplaceSameIds(h) ==
    /\ pc[h] = "update"
    /\ LET new == Build(held[h].block)
       IN  rules' = Together(new, rules)
    /\ End(h)
    /\ UNCHANGED <<list, settings, lease, incidents, alarm, outside, disturbed>>

\* updateDynamicRules removes the listed ids and adds the new rules, or rejects
\* the batch when an id would exist twice.
UpdateDynamicRules(h) ==
    /\ pc[h] = "update"
    /\ LET kept == Restrict(rules, DOMAIN rules \ held[h].ids)
           new == Build(held[h].block)
       IN  rules' = IF DOMAIN kept \cap DOMAIN new = {} THEN Together(new, kept) ELSE rules
    /\ End(h)
    /\ UNCHANGED <<list, settings, lease, incidents, alarm, outside, disturbed>>

------------------------------------------------------------------------------
(* The user, the gateway's table, the browser and time *)

\* blocked.js: a visit is redirected, and the page resolves the id of the rule.
Visit ==
    /\ \E i \in DOMAIN rules \cap DOMAIN incidents : shown' = shown \cup {incidents[i]}
    /\ UNCHANGED <<storage, table, page, changed, starting, deaths, edits, pc, task, held,
                   disturbed>>

OpenOptions ==
    /\ page' = Effective(settings)
    /\ UNCHANGED <<storage, table, shown, changed, starting, deaths, edits, pc, task, held,
                   disturbed>>

\* addAllow, removeAllow, onLevelChange: the page saves its copy as a whole.
EditOptions ==
    /\ page # Unset
    /\ edits < MaxEdits
    /\ edits' = edits + 1
    /\ \/ \E d \in Domains : page' = [page EXCEPT !.allow = @ \cup {d}]
       \/ \E d \in page.allow : page' = [page EXCEPT !.allow = @ \ {d}]
       \/ \E level \in Levels : page' = [page EXCEPT !.level = level]
    /\ Save(page')
    /\ UNCHANGED <<list, lease, incidents, alarm, rules, table, shown, starting, deaths,
                   pc, task, held, disturbed>>

\* The engine lists another domain.
TableGrows ==
    /\ \E d \in Domains \ table : table' = table \cup {d}
    /\ UNCHANGED <<storage, page, shown, changed, starting, deaths, edits, pc, task, held,
                   disturbed>>

Running == \E h \in Handlers : pc[h] # "idle"

HandlersVanish ==
    /\ deaths < MaxDeaths
    /\ deaths' = deaths + 1
    /\ pc' = [h \in Handlers |-> "idle"]
    /\ task' = [h \in Handlers |-> "none"]
    /\ held' = [h \in Handlers |-> Blank]
    /\ disturbed' = TRUE

WorkerDies ==
    /\ "worker" \in Failing
    /\ Running
    /\ HandlersVanish
    /\ UNCHANGED <<storage, table, page, shown, changed, starting, edits>>

\* Alarms may or may not survive; the session area does not.
BrowserRestarts ==
    /\ "browser" \in Failing
    /\ HandlersVanish
    /\ lease' = Never
    /\ incidents' = <<>>
    /\ alarm' \in {alarm, Never}
    /\ page' = Unset
    /\ shown' = {}
    /\ changed' = 0
    /\ starting' = TRUE
    /\ UNCHANGED <<list, settings, rules, table, edits>>

Aged(f) == [d \in Domains |-> IF f[d] > 0 THEN f[d] - 1 ELSE f[d]]

Tick ==
    /\ lease' = Aged(lease)
    /\ alarm' = Aged(alarm)
    /\ held' = [h \in Handlers |-> [held[h] EXCEPT !.lease = Aged(@)]]
    /\ UNCHANGED <<list, settings, incidents, rules, outside, pc, task, disturbed>>

------------------------------------------------------------------------------

Step(h) ==
    \/ PersistSettings(h)
    \/ SnapshotArrives(h) \/ SyncFails(h) \/ StoreBlocklist(h)
    \/ GetTempAllow(h) \/ PurgeTempAllow(h)
    \/ AddTempAllow(h) \/ CreateAlarm(h)
    \/ DropTempAllow(h) \/ StatusReturns(h)
    \/ ReadInputs(h) \/ SetIncidentMap(h) \/ GetDynamicRules(h) \/ UpdateDynamicRules(h)

Event(h) ==
    \/ Bootstrap(h) \/ SyncRequested(h) \/ SettingsChanged(h)
    \/ ProceedAnyway(h) \/ StatusRequested(h)
    \/ \E d \in Domains : AlarmFires(h, d)

Next ==
    \/ \E h \in Handlers : Event(h) \/ Step(h)
    \/ Visit \/ OpenOptions \/ EditOptions \/ TableGrows
    \/ WorkerDies \/ BrowserRestarts
    \/ Tick

Spec == Init /\ [][Next]_vars

\* A handler that was started keeps running; the periodic sync comes again and
\* again, and the gateway answers it again and again.  Nothing is asked of the
\* other events.
Fairness ==
    /\ \A h \in Handlers : WF_vars(Step(h))
    /\ SF_vars(\E h \in Handlers : SyncRequested(h))
    /\ SF_vars(\E h \in Handlers : SnapshotArrives(h))

FairSpec == Spec /\ Fairness

------------------------------------------------------------------------------
(* Properties *)

Idle == ~Running /\ changed = 0 /\ ~starting

Ruled == {rules[i] : i \in DOMAIN rules}

\* As long as no two handlers overlapped and none was killed, a listed domain
\* without an exception has its rule whenever the worker is idle; an exception
\* that has run out ends with its alarm.
ListedIsBlocked ==
    Idle /\ ~disturbed
      => \A d \in Blockable(list, Effective(settings), {}) :
           \/ d \in Ruled
           \/ lease[d] # Absent \/ alarm[d] # Absent
           \/ Cardinality(Ruled) = MAX_BLOCK_RULES

\* Then, too, no rule is left for a domain the user allowed, or that is not
\* listed any more.
ExceptionIsHonoured ==
    Idle /\ ~disturbed
      => Ruled \subseteq Blockable(list, Effective(settings), Live(lease))

\* Then, too, the block page resolves the id of every rule to the rule's domain.
IncidentNamesTheRule ==
    Idle /\ ~disturbed => incidents = rules

\* The rules are those the list, the settings and the exceptions ask for: none is
\* missing, none is left over, and the block page knows them all.
RulesAccord == ListedIsBlocked /\ ExceptionIsHonoured /\ IncidentNamesTheRule

\* A handler writes back a copy in which d has less time than is stored by now.
WritesStaleCopy(d) ==
    \E h \in Handlers :
      /\ pc[h] \in {"purge", "act", "clean"}
      /\ held[h].lease[d] < lease[d] /\ lease'[d] = held[h].lease[d]

DropsOnAlarm(d) == \E h \in Handlers : held[h].domain = d /\ DropTempAllow(h)

\* As long as no two handlers have overlapped and none was killed, a temporary
\* exception that is granted or renewed lasts its full time.  After an overlap it may
\* end early, but only when a handler writes back what it read before the grant, when
\* an alarm of the same domain finds it, or when the browser restarts.
LeaseLasts ==
    [][\A d \in Live(lease) :
         lease'[d] < lease[d] - 1
           => disturbed' /\ (WritesStaleCopy(d) \/ DropsOnAlarm(d) \/ deaths' # deaths)]_vars

\* Whatever overlapped, was lost or was killed: a rule that disagrees with the
\* stored list, settings and exceptions does not disagree for ever.
Disagrees(d) ==
    (d \in Ruled) # (d \in Blockable(list, Effective(settings), Live(lease)))
RulesHeal == \A d \in Domains : Disagrees(d) ~> ~Disagrees(d)

\* What a rebuild has read and written is what the storage asks for.
Wanted == Blockable(list, Effective(settings), Live(lease))
Carries(h) ==
    /\ pc[h] \in {"clean", "map", "list", "update"}
    /\ held[h].block = Wanted
    /\ pc[h] = "clean" => held[h].lease = Kept(lease)
    /\ pc[h] \in {"list", "update"} => incidents = Build(Wanted)
    /\ pc[h] = "update" => held[h].ids = DOMAIN rules

\* Another handler steps, the user edits, an exception ends, or the worker is killed.
Interferes(h) ==
    \/ \E g \in Handlers \ {h} : pc[g] # "idle"
    \/ settings' # settings
    \/ Live(lease') # Live(lease)
    \/ deaths' # deaths

\* One rebuild repairs everything: whatever rules and incidents an overlap or a kill
\* left, a rebuild that nothing interferes with replaces them all by those that the
\* list, the settings and the exceptions ask for.
RebuildHeals ==
    [][\A h \in Handlers :
         /\ ReadInputs(h) => Carries(h)'
         /\ Carries(h) =>
              \/ Carries(h)'
              \/ pc'[h] = "idle" /\ rules' = Build(Wanted) /\ incidents' = rules'
              \/ Interferes(h)]_vars

==============================================================================
