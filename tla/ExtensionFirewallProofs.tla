------------------------ MODULE ExtensionFirewallProofs ------------------------
(***************************************************************************)
(* Proofs about ExtensionFirewall for any list of domains, any number of   *)
(* handlers, any lease and any maximum of rules: what holds as long as no  *)
(* two handlers overlap and none is killed.                                *)
(***************************************************************************)
EXTENDS ExtensionFirewall, FiniteSetTheorems, TLAPS

------------------------------------------------------------------------------
(* The rules built from a block: every domain of it has a place of its own *)

LEMMA BlockIsFinite ==
    ASSUME NEW block \in SUBSET Domains
    PROVE  /\ IsFiniteSet(block)
           /\ Cardinality(block) \in Nat
           /\ Cardinality(block) <= Cardinality(Domains)
           /\ Cardinality(Domains) \in Nat
BY DomainsAssumption, FS_Subset, FS_CardinalityType

LEMMA PlaceInBlock ==
    ASSUME NEW block \in SUBSET Domains, NEW d \in block
    PROVE  Place(d, block) \in 1 .. Cardinality(block)
<1> DEFINE below == {e \in block : e <= d}
<1>1. IsFiniteSet(block) /\ Cardinality(block) \in Nat
  BY BlockIsFinite
<1>2. below \in SUBSET block /\ d \in below
  BY DomainsAssumption
<1>3. IsFiniteSet(below) /\ Cardinality(below) <= Cardinality(block)
  BY <1>1, <1>2, FS_Subset
<1>4. Cardinality(below) \in Nat /\ Cardinality(below) # 0
  BY <1>2, <1>3, FS_CardinalityType, FS_EmptySet
<1>5. QED
  BY <1>1, <1>3, <1>4 DEF Place

LEMMA PlaceFollowsOrder ==
    ASSUME NEW block \in SUBSET Domains, NEW c \in block, NEW d \in block, c < d
    PROVE  Place(c, block) < Place(d, block)
<1> DEFINE below(b) == {e \in block : e <= b}
<1>1. c \in Nat /\ d \in Nat /\ block \subseteq Nat
  BY DomainsAssumption
<1>2. below(c) \in SUBSET below(d) /\ d \in below(d) /\ d \notin below(c)
  <2>1. \A e \in block : e <= c => e <= d
    BY <1>1
  <2>2. d <= d /\ ~(d <= c)
    BY <1>1
  <2>3. QED
    BY <2>1, <2>2
<1>3. IsFiniteSet(below(d))
  BY BlockIsFinite, FS_Subset, below(d) \in SUBSET block
<1>4. below(c) # below(d)
  BY <1>2
<1>5. /\ Cardinality(below(c)) <= Cardinality(below(d))
      /\ Cardinality(below(c)) # Cardinality(below(d))
  <2> HIDE DEF below
  <2>1. QED
    BY <1>2, <1>3, <1>4, FS_Subset
<1>6. Place(c, block) \in Nat /\ Place(d, block) \in Nat
  BY PlaceInBlock, BlockIsFinite
<1>7. QED
  BY <1>5, <1>6 DEF Place

LEMMA PlaceIsOwn ==
    ASSUME NEW block \in SUBSET Domains, NEW c \in block, NEW d \in block,
           Place(c, block) = Place(d, block)
    PROVE  c = d
<1>1. c \in Nat /\ d \in Nat
  BY DomainsAssumption
<1>2. Place(c, block) \in Nat
  BY PlaceInBlock, BlockIsFinite
<1>3. ~(c < d) /\ ~(d < c)
  BY <1>2, PlaceFollowsOrder
<1>4. QED
  BY <1>1, <1>3

LEMMA PlacesCover ==
    ASSUME NEW block \in SUBSET Domains
    PROVE  {Place(d, block) : d \in block} = 1 .. Cardinality(block)
<1> DEFINE n == Cardinality(block)
           f == [d \in block |-> Place(d, block)]
<1>1. IsFiniteSet(block) /\ n \in Nat
  BY BlockIsFinite
<1>2. f \in [block -> 1 .. n]
  BY PlaceInBlock
<1>3. IsInjective(f)
  BY PlaceIsOwn DEF IsInjective
<1>4. f \in Injection(block, 1 .. n)
  BY <1>2, <1>3 DEF Injection
<1>5. IsFiniteSet(1 .. n) /\ Cardinality(1 .. n) = n
  BY <1>1, FS_Interval
<1>6. f \in Surjection(block, 1 .. n)
  <2> HIDE DEF f
  <2>1. QED
    BY <1>4, <1>5, FS_Injection
<1>7. \A i \in 1 .. n : \E d \in block : Place(d, block) = i
  BY <1>6 DEF Surjection
<1>8. QED
  BY <1>7, PlaceInBlock

LEMMA BuildAt ==
    ASSUME NEW block \in SUBSET Domains, NEW i \in DOMAIN Build(block)
    PROVE  Build(block)[i] \in block /\ Place(Build(block)[i], block) = i
BY DEF Build

LEMMA BuildType ==
    ASSUME NEW block \in SUBSET Domains
    PROVE  /\ Build(block) \in Seq(Domains)
           /\ DOMAIN Build(block) \subseteq Ids
<1> DEFINE n == Cardinality(block)
           m == IF n <= MAX_BLOCK_RULES THEN n ELSE MAX_BLOCK_RULES
<1>1. n \in Nat /\ n <= Cardinality(Domains) /\ Cardinality(Domains) \in Nat
      /\ MAX_BLOCK_RULES \in Nat
  BY BlockIsFinite, LimitAssumption
<1>2. DOMAIN Build(block) = (1 .. n) \cap 1 .. MAX_BLOCK_RULES
  BY PlacesCover DEF Build
<1>3. m \in Nat /\ DOMAIN Build(block) = 1 .. m
  BY <1>1, <1>2
<1>4. \A i \in 1 .. m : Build(block)[i] \in Domains
  BY <1>3, BuildAt
<1>5. Build(block) = [i \in 1 .. m |-> Build(block)[i]]
  BY <1>3 DEF Build
<1>6. Build(block) \in [1 .. m -> Domains]
  BY <1>4, <1>5
<1>7. Build(block) \in Seq(Domains)
  BY <1>3, <1>6
<1>8. DOMAIN Build(block) \subseteq Ids
  BY <1>1, <1>2 DEF Ids
<1>9. QED
  BY <1>7, <1>8

\* The rules are for domains of the block, and for all of them unless there are
\* as many as there may be.
LEMMA BuildRules ==
    ASSUME NEW block \in SUBSET Domains, rules = Build(block)
    PROVE  /\ Ruled \subseteq block
           /\ block \subseteq Ruled \/ Cardinality(Ruled) = MAX_BLOCK_RULES
<1> DEFINE n == Cardinality(block)
           ids == DOMAIN Build(block)
           f == [i \in ids |-> Build(block)[i]]
<1>1. IsFiniteSet(block) /\ n \in Nat /\ MAX_BLOCK_RULES \in Nat
  BY BlockIsFinite, LimitAssumption
<1>2. ids = (1 .. n) \cap 1 .. MAX_BLOCK_RULES
  BY PlacesCover DEF Build
<1>3. Ruled \subseteq block
  BY BuildAt DEF Ruled
<1>4. CASE n <= MAX_BLOCK_RULES
  <2>1. ASSUME NEW d \in block
        PROVE  d \in Ruled
    <3>1. Place(d, block) \in ids
      BY <1>1, <1>2, <1>4, PlaceInBlock
    <3>2. Build(block)[Place(d, block)] = d
      BY <3>1, BuildAt, PlaceIsOwn
    <3>3. QED
      BY <3>1, <3>2 DEF Ruled
  <2>2. QED
    BY <1>3, <2>1
<1>5. CASE n > MAX_BLOCK_RULES
  <2>1. ids = 1 .. MAX_BLOCK_RULES
    BY <1>1, <1>2, <1>5
  <2>2. IsFiniteSet(ids) /\ Cardinality(ids) = MAX_BLOCK_RULES
    BY <1>1, <2>1, FS_Interval
  <2>3. IsFiniteSet(Ruled)
    BY <1>1, <1>3, FS_Subset
  <2>4. f \in [ids -> Ruled]
    BY DEF Ruled
  <2>5. IsInjective(f)
    BY BuildAt DEF IsInjective
  <2>6. \A d \in Ruled : \E i \in ids : f[i] = d
    BY DEF Ruled
  <2>7. f \in Injection(ids, Ruled) /\ f \in Surjection(ids, Ruled)
    BY <2>4, <2>5, <2>6 DEF Injection, Surjection
  <2>8. Cardinality(ids) = Cardinality(Ruled)
    <3> HIDE DEF f, ids
    <3>1. QED
      BY <2>3, <2>7, FS_Injection
  <2>9. QED
    BY <1>3, <2>2, <2>8
<1>6. QED
  BY <1>1, <1>4, <1>5

------------------------------------------------------------------------------
(* The inductive invariant *)

Ready(h) == pc[h] \in {"clean", "map", "list", "update"}
Quiet(h) == pc[h] \in {"idle", "persist", "fetch"} \/ task[h] = "status"

\* One handler at a time, and its step goes with its event.
Alone ==
    /\ \A g, h \in Handlers : pc[g] # "idle" /\ pc[h] # "idle" => g = h
    /\ \A h \in Handlers :
         /\ pc[h] \in {"get", "purge", "act"} => task[h] \in {"allow", "expire", "status"}
         /\ pc[h] = "alarm" => task[h] = "allow"
         /\ task[h] \in {"allow", "expire", "status"} =>
              pc[h] \in {"get", "purge", "act", "alarm"}
         /\ task[h] \in {"allow", "expire"} => held[h].domain \in Domains

\* What a handler has read of the exceptions is what is stored, expired ones apart.
CopiesAgree ==
    \A h \in Handlers :
      /\ pc[h] \in {"purge", "clean"} => \A d \in Domains :
           \/ held[h].lease[d] = lease[d]
           \/ held[h].lease[d] = Absent /\ lease[d] \in {0, Absent}
      /\ pc[h] \in {"act", "alarm"} => held[h].lease = lease

\* An exception has an alarm that ends with it, unless a handler is about to set
\* it, or it has fired and a handler is about to remove the exception.
AlarmsAgree ==
    /\ \A d \in Domains : lease[d] # Absent =>
         \/ alarm[d] = lease[d]
         \/ \E h \in Handlers : held[h].domain = d /\ (pc[h] = "alarm" \/ task[h] = "expire")
    /\ \A h \in Handlers : task[h] = "expire" => lease[held[h].domain] \in {0, Absent}

\* The domains of a block come from this list, less the exceptions, and the alarm
\* of any other domain of the list is still to come.
Accords(block, from, s, excepted, due) ==
    /\ block \subseteq Blockable(from, Effective(s), Live(excepted))
    /\ \A d \in Blockable(from, Effective(s), {}) \ block : due[d] # Absent

Fresh(block) == Accords(block, list, settings, lease, alarm)
InForce(block) == Fresh(block) /\ rules = Build(block) /\ incidents = rules

RulesAgree ==
    /\ changed = 0 =>
         /\ (\A h \in Handlers : Quiet(h)) => \E block \in SUBSET Domains : InForce(block)
         /\ \A h \in Handlers : Ready(h) => Fresh(held[h].block)
    /\ \A h \in Handlers :
         /\ pc[h] \in {"list", "update"} => incidents = Build(held[h].block)
         /\ pc[h] = "update" => held[h].ids = DOMAIN rules

Calm == Alone /\ CopiesAgree /\ AlarmsAgree /\ RulesAgree

IInv == TypeOK /\ (~disturbed => Calm)

------------------------------------------------------------------------------
(* Types *)

LEMMA TimesType ==
    /\ Absent \in Times /\ LEASE \in Times /\ 0 \in Times
    /\ Never \in [Domains -> Times]
    /\ \A f \in [Domains -> Times] :
         Kept(f) \in [Domains -> Times] /\ Aged(f) \in [Domains -> Times]
BY LimitAssumption DEF Times, Absent, Never, Kept, Aged

LEMMA BlankType == Blank \in Copies
BY TimesType DEF Blank, Copies

LEMMA SettingsType ==
    /\ \A s \in Settings \cup {Unset} : Effective(s) \in Settings
    /\ \A allowed : \A l \in SUBSET Domains, s \in Settings :
         Blockable(l, s, allowed) \in SUBSET Domains
BY DEF Effective, Settings, DEFAULT_SETTINGS, Levels, Blockable

LEMMA CopyTypes ==
    ASSUME NEW c \in Copies
    PROVE  /\ \A s \in Settings \cup {Unset} : [c EXCEPT !.settings = s] \in Copies
           /\ \A d \in Domains \cup {Unset} : [c EXCEPT !.domain = d] \in Copies
           /\ \A b \in SUBSET Domains : [c EXCEPT !.block = b] \in Copies
           /\ \A l \in [Domains -> Times] : [c EXCEPT !.lease = l] \in Copies
           /\ \A i \in SUBSET Ids : [c EXCEPT !.ids = i] \in Copies
BY DEF Copies

LEMMA TypeInitial == Init => TypeOK
<1> SUFFICES ASSUME Init PROVE TypeOK
  OBVIOUS
<1>1. settings = Unset /\ page = Unset /\ list = {} /\ table \in SUBSET Domains /\ shown = {}
  BY DEF Init
<1>2. lease \in [Domains -> Times] /\ alarm \in [Domains -> Times]
  BY TimesType DEF Init
<1>3. incidents \in Seq(Domains) /\ DOMAIN rules = {}
  BY DEF Init
<1>4. held \in [Handlers -> Copies]
  BY BlankType DEF Init
<1>5. pc \in [Handlers -> {"idle"} \cup Steps] /\ task \in [Handlers -> {"none"} \cup Tasks]
  BY DEF Init
<1>6. starting \in BOOLEAN /\ disturbed \in BOOLEAN
  BY DEF Init
<1>7. changed \in Nat /\ deaths \in 0 .. MaxDeaths /\ edits \in 0 .. MaxEdits
  <2>1. changed = 0 /\ deaths = 0 /\ edits = 0
    BY DEF Init
  <2>2. QED
    BY <2>1, BoundAssumption
<1>8. QED
  BY <1>1, <1>2, <1>3, <1>4, <1>5, <1>6, <1>7 DEF TypeOK

LEMMA StartType ==
    ASSUME TypeOK, NEW h \in Handlers, NEW event \in Tasks, NEW step \in Steps,
           NEW read \in Copies, Start(h, event, step, read)
    PROVE  /\ pc' \in [Handlers -> {"idle"} \cup Steps]
           /\ task' \in [Handlers -> {"none"} \cup Tasks]
           /\ held' \in [Handlers -> Copies]
           /\ disturbed' \in BOOLEAN
BY DEF TypeOK, Start, Goto

LEMMA EndType ==
    ASSUME TypeOK, NEW h \in Handlers, End(h) \/ Rebuild(h)
    PROVE  /\ pc' \in [Handlers -> {"idle"} \cup Steps]
           /\ task' \in [Handlers -> {"none"} \cup Tasks]
           /\ held' \in [Handlers -> Copies]
BY BlankType DEF TypeOK, End, Rebuild, Goto, Steps, Tasks

LEMMA EventTypes ==
    ASSUME TypeOK, NEW h \in Handlers, Event(h)
    PROVE  TypeOK'
<1> USE DEF TypeOK
<1>1. CASE Bootstrap(h)
  <2>1. [Blank EXCEPT !.settings = Effective(settings)] \in Copies
    BY BlankType, CopyTypes, SettingsType
  <2>2. QED
    BY <1>1, <2>1, StartType DEF Bootstrap, storage, Tasks, Steps
<1>2. CASE SyncRequested(h)
  BY <1>2, BlankType, StartType DEF SyncRequested, storage, outside, Tasks, Steps
<1>3. CASE SettingsChanged(h)
  BY <1>3, BlankType, StartType DEF SettingsChanged, storage, Tasks, Steps
<1>4. CASE ProceedAnyway(h)
  <2>1. PICK d \in shown : Start(h, "allow", "get", [Blank EXCEPT !.domain = d])
    BY <1>4 DEF ProceedAnyway
  <2>2. [Blank EXCEPT !.domain = d] \in Copies
    BY BlankType, CopyTypes
  <2>3. QED
    BY <1>4, <2>1, <2>2, StartType DEF ProceedAnyway, storage, outside, Tasks, Steps
<1>5. CASE StatusRequested(h)
  BY <1>5, BlankType, StartType DEF StatusRequested, storage, outside, Tasks, Steps
<1>6. ASSUME NEW d \in Domains, AlarmFires(h, d)
      PROVE  TypeOK'
  <2>1. [Blank EXCEPT !.domain = d] \in Copies
    BY BlankType, CopyTypes
  <2>2. alarm' \in [Domains -> Times]
    BY <1>6, TimesType DEF AlarmFires
  <2>3. QED
    BY <1>6, <2>1, <2>2, StartType DEF AlarmFires, outside, Tasks, Steps
<1>7. QED
  BY <1>1, <1>2, <1>3, <1>4, <1>5, <1>6 DEF Event

LEMMA StepTypes ==
    ASSUME TypeOK, NEW h \in Handlers, Step(h)
    PROVE  TypeOK'
<1> USE DEF TypeOK
<1>0. held[h] \in Copies /\ Blank \in Copies
  BY BlankType
<1>1. CASE PersistSettings(h)
  BY <1>0, <1>1 DEF PersistSettings, Save, Goto, Steps, Tasks, Copies
<1>2. CASE SnapshotArrives(h)
  <2>1. \A answers \in BOOLEAN : [Blank EXCEPT !.block = Snapshot(answers)] \in Copies
    BY <1>0, CopyTypes, DomainsAssumption DEF Snapshot
  <2>2. held' \in [Handlers -> Copies]
    BY <1>2, <2>1 DEF SnapshotArrives
  <2>3. QED
    BY <1>2, <2>2 DEF SnapshotArrives, storage, outside, Goto, Steps
<1>3. CASE SyncFails(h)
  BY <1>3, EndType DEF SyncFails, storage, outside
<1>4. CASE StoreBlocklist(h)
  BY <1>0, <1>4, EndType DEF StoreBlocklist, outside, Copies
<1>5. CASE GetTempAllow(h)
  <2>1. [held[h] EXCEPT !.lease = Kept(lease)] \in Copies
    BY <1>0, CopyTypes, TimesType
  <2>2. held' \in [Handlers -> Copies]
    BY <1>5, <2>1 DEF GetTempAllow
  <2>3. QED
    BY <1>5, <2>2 DEF GetTempAllow, storage, outside, Goto, Steps
<1>6. CASE PurgeTempAllow(h)
  <2>1. [held[h] EXCEPT !.lease = Never] \in Copies
    BY <1>0, CopyTypes, TimesType
  <2>2. held' \in [Handlers -> Copies]
    BY <1>6, <2>1 DEF PurgeTempAllow
  <2>3. lease' \in [Domains -> Times]
    BY <1>0, <1>6 DEF PurgeTempAllow, Copies
  <2>4. QED
    BY <1>6, <2>2, <2>3 DEF PurgeTempAllow, outside, Goto, Steps
<1>7. CASE AddTempAllow(h)
  <2>1. [held[h].lease EXCEPT ![held[h].domain] = LEASE] \in [Domains -> Times]
    BY <1>0, TimesType DEF Copies
  <2>2. [held[h] EXCEPT !.lease = [held[h].lease EXCEPT ![held[h].domain] = LEASE]] \in Copies
    BY <1>0, <2>1, CopyTypes
  <2>3. held' \in [Handlers -> Copies]
    BY <1>7, <2>2 DEF AddTempAllow
  <2>4. lease' \in [Domains -> Times]
    BY <1>7, <2>3 DEF AddTempAllow, Copies
  <2>5. QED
    BY <1>7, <2>3, <2>4 DEF AddTempAllow, outside, Goto, Steps
<1>8. CASE CreateAlarm(h)
  <2>1. alarm' \in [Domains -> Times]
    BY <1>0, <1>8 DEF CreateAlarm, Copies
  <2>2. QED
    BY <1>8, <2>1, EndType DEF CreateAlarm, outside
<1>9. CASE DropTempAllow(h)
  <2>1. lease' \in [Domains -> Times]
    BY <1>0, <1>9, TimesType DEF DropTempAllow, Copies
  <2>2. QED
    BY <1>9, <2>1, EndType DEF DropTempAllow, outside
<1>10. CASE StatusReturns(h)
  BY <1>10, EndType DEF StatusReturns, storage, outside
<1>11. CASE ReadInputs(h)
  <2> DEFINE l == IF HasExpired(lease) THEN Kept(lease) ELSE Never
             b == Blockable(list, Effective(settings), Live(lease))
  <2>1. l \in [Domains -> Times] /\ b \in SUBSET Domains
    BY TimesType, SettingsType
  <2>2. [held[h] EXCEPT !.lease = l, !.block = b] \in Copies
    BY <1>0, <2>1 DEF Copies
  <2>3. held' \in [Handlers -> Copies]
    BY <1>11, <2>2 DEF ReadInputs
  <2>4. QED
    BY <1>11, <2>3 DEF ReadInputs, storage, outside, Goto, Steps
<1>12. CASE SetIncidentMap(h)
  <2>1. incidents' \in Seq(Domains)
    BY <1>0, <1>12, BuildType DEF SetIncidentMap, Copies
  <2>2. QED
    BY <1>12, <2>1 DEF SetIncidentMap, outside, Goto, Steps
<1>13. CASE GetDynamicRules(h)
  <2>1. [held[h] EXCEPT !.ids = DOMAIN rules] \in Copies
    BY <1>0, CopyTypes
  <2>2. held' \in [Handlers -> Copies]
    BY <1>13, <2>1 DEF GetDynamicRules
  <2>3. QED
    BY <1>13, <2>2 DEF GetDynamicRules, storage, outside, Goto, Steps
<1>14. CASE UpdateDynamicRules(h)
  <2>1. held[h].block \in SUBSET Domains
    BY <1>0 DEF Copies
  <2>2. /\ DOMAIN Build(held[h].block) \subseteq Ids
        /\ \A i \in DOMAIN Build(held[h].block) : Build(held[h].block)[i] \in Domains
    BY <2>1, BuildType, BuildAt
  <2>3. DOMAIN rules' \subseteq Ids /\ \A i \in DOMAIN rules' : rules'[i] \in Domains
    BY <1>14, <2>2 DEF UpdateDynamicRules, Together, Restrict
  <2>4. QED
    BY <1>14, <2>3, EndType DEF UpdateDynamicRules, outside
<1>15. QED
  BY <1>1, <1>2, <1>3, <1>4, <1>5, <1>6, <1>7, <1>8, <1>9, <1>10, <1>11, <1>12, <1>13, <1>14
     DEF Step

LEMMA TypeInductive == TypeOK /\ [Next]_vars => TypeOK'
<1> SUFFICES ASSUME TypeOK, [Next]_vars PROVE TypeOK'
  OBVIOUS
<1> USE DEF TypeOK
<1>1. ASSUME NEW h \in Handlers, Event(h) \/ Step(h)
      PROVE  TypeOK'
  BY <1>1, EventTypes, StepTypes
<1>2. CASE Visit
  <2>1. shown' \subseteq Domains
    BY <1>2 DEF Visit
  <2>2. QED
    BY <1>2, <2>1 DEF Visit, storage
<1>3. CASE OpenOptions
  BY <1>3, SettingsType DEF OpenOptions, storage
<1>4. CASE EditOptions
  <2>1. page \in Settings /\ page' \in Settings
    BY <1>4 DEF EditOptions, Settings
  <2>2. QED
    BY <1>4, <2>1, BoundAssumption DEF EditOptions, Save
<1>5. CASE TableGrows
  BY <1>5 DEF TableGrows, storage
<1>6. CASE WorkerDies
  BY <1>6, BlankType, BoundAssumption DEF WorkerDies, HandlersVanish, storage
<1>7. CASE BrowserRestarts
  <2>1. /\ lease' \in [Domains -> Times] /\ alarm' \in [Domains -> Times]
        /\ incidents' \in Seq(Domains)
    BY <1>7, TimesType DEF BrowserRestarts
  <2>2. QED
    BY <1>7, <2>1, BlankType, BoundAssumption DEF BrowserRestarts, HandlersVanish
<1>8. CASE Tick
  <2>1. ASSUME NEW h \in Handlers
        PROVE  [held[h] EXCEPT !.lease = Aged(@)] \in Copies
    <3>1. held[h] \in Copies /\ Aged(held[h].lease) \in [Domains -> Times]
      BY TimesType DEF Copies
    <3>2. QED
      BY <3>1, CopyTypes
  <2>2. held' \in [Handlers -> Copies]
    BY <1>8, <2>1 DEF Tick
  <2>3. lease' \in [Domains -> Times] /\ alarm' \in [Domains -> Times]
    BY <1>8, TimesType DEF Tick
  <2>4. QED
    BY <1>8, <2>2, <2>3 DEF Tick, outside
<1>9. CASE UNCHANGED vars
  BY <1>9 DEF vars, storage, outside
<1>10. QED
  BY <1>1, <1>2, <1>3, <1>4, <1>5, <1>6, <1>7, <1>8, <1>9 DEF Next

------------------------------------------------------------------------------
(* One handler at a time *)

LEMMA OthersAreIdle ==
    ASSUME Alone, NEW h \in Handlers, pc[h] # "idle"
    PROVE  \A g \in Handlers \ {h} :
             pc[g] = "idle" /\ task[g] \notin {"allow", "expire", "status"}
BY DEF Alone

LEMMA StartsAlone ==
    ASSUME TypeOK, Alone, ~disturbed', NEW h \in Handlers, NEW event \in Tasks,
           NEW step \in Steps, NEW read \in Copies, Start(h, event, step, read)
    PROVE  /\ \A g \in Handlers : pc[g] = "idle" /\ task[g] \notin {"allow", "expire", "status"}
           /\ \A g \in Handlers \ {h} : pc'[g] = "idle" /\ task'[g] = task[g]
           /\ pc'[h] = step /\ task'[h] = event /\ held'[h] = read
<1>1. ~\E g \in Handlers : pc[g] # "idle"
  BY Zenon DEF Start
<1>2. \A g \in Handlers : pc[g] = "idle" /\ task[g] \notin {"allow", "expire", "status"}
  BY <1>1 DEF Alone
<1>3. pc' = [pc EXCEPT ![h] = step] /\ task' = [task EXCEPT ![h] = event]
      /\ held' = [held EXCEPT ![h] = read]
  BY DEF Start, Goto
<1>4. QED
  BY <1>2, <1>3 DEF TypeOK

LEMMA StartKeepsAlone ==
    ASSUME TypeOK, Alone, ~disturbed', NEW h \in Handlers, NEW event \in Tasks,
           NEW step \in Steps, NEW read \in Copies, Start(h, event, step, read),
           step # "alarm",
           step = "get" <=> event \in {"allow", "expire", "status"},
           step \notin {"purge", "act"},
           event \in {"allow", "expire"} => read.domain \in Domains
    PROVE  Alone'
<1>1. /\ \A g \in Handlers : pc[g] = "idle" /\ task[g] \notin {"allow", "expire", "status"}
      /\ \A g \in Handlers \ {h} : pc'[g] = "idle" /\ task'[g] = task[g]
      /\ pc'[h] = step /\ task'[h] = event /\ held'[h] = read
  BY StartsAlone
<1>2. QED
  BY <1>1 DEF Alone

LEMMA AloneInductive ==
    ASSUME TypeOK, TypeOK', Alone, ~disturbed', [Next]_vars
    PROVE  Alone'
<1>1. ASSUME NEW h \in Handlers, Event(h)
      PROVE  Alone'
  <2> USE BlankType
  <2>1. CASE Bootstrap(h)
    <3>1. [Blank EXCEPT !.settings = Effective(settings)] \in Copies
      BY CopyTypes, SettingsType DEF TypeOK
    <3>2. QED
      BY <2>1, <3>1, StartKeepsAlone DEF Bootstrap, Tasks, Steps
  <2>2. CASE SyncRequested(h)
    BY <2>2, StartKeepsAlone DEF SyncRequested, Tasks, Steps
  <2>3. CASE SettingsChanged(h)
    BY <2>3, StartKeepsAlone DEF SettingsChanged, Tasks, Steps
  <2>4. CASE ProceedAnyway(h)
    <3>1. PICK d \in shown : Start(h, "allow", "get", [Blank EXCEPT !.domain = d])
      BY <2>4 DEF ProceedAnyway
    <3>2. d \in Domains
      BY DEF TypeOK
    <3>3. /\ [Blank EXCEPT !.domain = d] \in Copies
          /\ [Blank EXCEPT !.domain = d].domain \in Domains
      BY <3>2, CopyTypes DEF Blank
    <3>4. QED
      BY <3>1, <3>3, StartKeepsAlone DEF Tasks, Steps
  <2>5. CASE StatusRequested(h)
    BY <2>5, StartKeepsAlone DEF StatusRequested, Tasks, Steps
  <2>6. ASSUME NEW d \in Domains, AlarmFires(h, d)
        PROVE  Alone'
    <3>1. /\ [Blank EXCEPT !.domain = d] \in Copies
          /\ [Blank EXCEPT !.domain = d].domain \in Domains
      BY CopyTypes DEF Blank
    <3>2. QED
      BY <2>6, <3>1, StartKeepsAlone DEF AlarmFires, Tasks, Steps
  <2>7. QED
    BY <1>1, <2>1, <2>2, <2>3, <2>4, <2>5, <2>6 DEF Event
<1>2. ASSUME NEW h \in Handlers, Step(h)
      PROVE  Alone'
  <2>1. /\ pc[h] # "idle"
        /\ \A g \in Handlers \ {h} :
             /\ pc'[g] = "idle" /\ task'[g] = task[g]
             /\ task[g] \notin {"allow", "expire", "status"}
    <3>1. pc[h] # "idle"
      BY <1>2 DEF Step, PersistSettings, SnapshotArrives, SyncFails, StoreBlocklist,
         GetTempAllow, PurgeTempAllow, AddTempAllow, CreateAlarm, DropTempAllow, StatusReturns,
         ReadInputs, SetIncidentMap, GetDynamicRules, UpdateDynamicRules
    <3>2. \A g \in Handlers \ {h} : pc'[g] = pc[g] /\ task'[g] = task[g]
      BY <1>2 DEF Step, PersistSettings, SnapshotArrives, SyncFails, StoreBlocklist,
         GetTempAllow, PurgeTempAllow, AddTempAllow, CreateAlarm, DropTempAllow, StatusReturns,
         ReadInputs, SetIncidentMap, GetDynamicRules, UpdateDynamicRules, Goto, End, Rebuild, TypeOK
    <3>3. QED
      BY <3>1, <3>2, OthersAreIdle
  <2>2. /\ pc'[h] \in {"get", "purge", "act"} => task'[h] \in {"allow", "expire", "status"}
        /\ pc'[h] = "alarm" => task'[h] = "allow"
        /\ task'[h] \in {"allow", "expire", "status"} =>
             pc'[h] \in {"get", "purge", "act", "alarm"}
        /\ task'[h] \in {"allow", "expire"} => task'[h] = task[h]
    BY <1>2 DEF Step, PersistSettings, SnapshotArrives, SyncFails, StoreBlocklist,
       GetTempAllow, PurgeTempAllow, AddTempAllow, CreateAlarm, DropTempAllow, StatusReturns,
       ReadInputs, SetIncidentMap, GetDynamicRules, UpdateDynamicRules, Goto, End, Rebuild,
       Alone, TypeOK
  <2>3. task'[h] \in {"allow", "expire"} => held'[h].domain = held[h].domain
    BY <1>2 DEF Step, PersistSettings, SnapshotArrives, SyncFails, StoreBlocklist,
       GetTempAllow, PurgeTempAllow, AddTempAllow, CreateAlarm, DropTempAllow, StatusReturns,
       ReadInputs, SetIncidentMap, GetDynamicRules, UpdateDynamicRules, Goto, End, Rebuild,
       Alone, TypeOK, Copies
  <2>4. QED
    BY <2>1, <2>2, <2>3 DEF Alone
<1>3. CASE Tick
  <2>1. \A h \in Handlers : held'[h].domain = held[h].domain
    BY <1>3 DEF Tick, TypeOK, Copies
  <2>2. QED
    BY <1>3, <2>1 DEF Tick, Alone
<1>4. CASE WorkerDies \/ BrowserRestarts
  BY <1>4 DEF WorkerDies, BrowserRestarts, HandlersVanish
<1>5. CASE Visit \/ OpenOptions \/ EditOptions \/ TableGrows \/ UNCHANGED vars
  BY <1>5 DEF Visit, OpenOptions, EditOptions, TableGrows, vars, Alone
<1>6. QED
  BY <1>1, <1>2, <1>3, <1>4, <1>5 DEF Next

------------------------------------------------------------------------------
(* What a step reads and writes *)

\* A starting handler takes the first step of its event; only the alarm's takes
\* something away, and only bootstrap reads anything.
LEMMA EventEffect ==
    ASSUME TypeOK, Alone, ~disturbed', NEW h \in Handlers, Event(h)
    PROVE  /\ \A g \in Handlers : pc[g] = "idle" /\ task[g] \notin {"allow", "expire", "status"}
           /\ \A g \in Handlers \ {h} : pc'[g] = "idle" /\ task'[g] = task[g]
           /\ pc'[h] \in {"persist", "fetch", "read", "get"}
           /\ UNCHANGED <<list, settings, lease, rules, incidents>>
           /\ \/ task'[h] \in {"boot", "sync", "status"} /\ UNCHANGED <<alarm, changed>>
              \/ task'[h] \in {"rebuild", "allow"} /\ UNCHANGED alarm
              \/ /\ task'[h] = "expire"
                 /\ \E d \in Domains : /\ held'[h].domain = d /\ alarm[d] = 0
                                       /\ alarm' = [alarm EXCEPT ![d] = Absent]
           /\ pc'[h] = "get" <=> task'[h] \in {"allow", "expire", "status"}
<1> USE BlankType
<1>1. CASE Bootstrap(h)
  <2>1. [Blank EXCEPT !.settings = Effective(settings)] \in Copies
    BY CopyTypes, SettingsType DEF TypeOK
  <2>2. QED
    BY <1>1, <2>1, StartsAlone DEF Bootstrap, Tasks, Steps, storage
<1>2. CASE SyncRequested(h)
  BY <1>2, StartsAlone DEF SyncRequested, Tasks, Steps, storage, outside
<1>3. CASE SettingsChanged(h)
  BY <1>3, StartsAlone DEF SettingsChanged, Tasks, Steps, storage
<1>4. CASE ProceedAnyway(h)
  <2>1. PICK d \in shown : Start(h, "allow", "get", [Blank EXCEPT !.domain = d])
    BY <1>4 DEF ProceedAnyway
  <2>2. [Blank EXCEPT !.domain = d] \in Copies
    BY CopyTypes DEF TypeOK
  <2>3. QED
    BY <1>4, <2>1, <2>2, StartsAlone DEF ProceedAnyway, Tasks, Steps, storage, outside
<1>5. CASE StatusRequested(h)
  BY <1>5, StartsAlone DEF StatusRequested, Tasks, Steps, storage, outside
<1>6. ASSUME NEW d \in Domains, AlarmFires(h, d)
      PROVE  /\ \A g \in Handlers : pc[g] = "idle" /\ task[g] \notin {"allow", "expire", "status"}
             /\ \A g \in Handlers \ {h} : pc'[g] = "idle" /\ task'[g] = task[g]
             /\ pc'[h] = "get" /\ task'[h] = "expire" /\ held'[h].domain = d
             /\ alarm[d] = 0 /\ alarm' = [alarm EXCEPT ![d] = Absent]
             /\ UNCHANGED <<list, settings, lease, rules, incidents>>
  <2>1. [Blank EXCEPT !.domain = d] \in Copies /\ [Blank EXCEPT !.domain = d].domain = d
    BY CopyTypes DEF Blank
  <2>2. /\ alarm[d] = 0 /\ alarm' = [alarm EXCEPT ![d] = Absent]
        /\ UNCHANGED <<list, settings, lease, rules, incidents>>
    BY <1>6 DEF AlarmFires
  <2>3. Start(h, "expire", "get", [Blank EXCEPT !.domain = d])
    BY <1>6 DEF AlarmFires
  <2>4. "expire" \in Tasks /\ "get" \in Steps
    BY DEF Tasks, Steps
  <2>5. /\ \A g \in Handlers : pc[g] = "idle" /\ task[g] \notin {"allow", "expire", "status"}
        /\ \A g \in Handlers \ {h} : pc'[g] = "idle" /\ task'[g] = task[g]
        /\ pc'[h] = "get" /\ task'[h] = "expire" /\ held'[h] = [Blank EXCEPT !.domain = d]
    BY <2>1, <2>3, <2>4, StartsAlone
  <2>6. QED
    BY <2>1, <2>2, <2>5
<1>7. QED
  BY <1>1, <1>2, <1>3, <1>4, <1>5, <1>6 DEF Event

LEMMA StepLeavesOthers ==
    ASSUME TypeOK, Alone, NEW h \in Handlers, Step(h)
    PROVE  /\ pc[h] # "idle"
           /\ \A g \in Handlers \ {h} :
                /\ pc[g] = "idle" /\ task[g] \notin {"allow", "expire", "status"}
                /\ pc'[g] = "idle" /\ task'[g] = task[g] /\ held'[g] = held[g]
<1>1. pc[h] # "idle"
  BY DEF Step, PersistSettings, SnapshotArrives, SyncFails, StoreBlocklist,
     GetTempAllow, PurgeTempAllow, AddTempAllow, CreateAlarm, DropTempAllow, StatusReturns,
     ReadInputs, SetIncidentMap, GetDynamicRules, UpdateDynamicRules
<1>2. \A g \in Handlers \ {h} : pc'[g] = pc[g] /\ task'[g] = task[g] /\ held'[g] = held[g]
  BY DEF Step, PersistSettings, SnapshotArrives, SyncFails, StoreBlocklist,
     GetTempAllow, PurgeTempAllow, AddTempAllow, CreateAlarm, DropTempAllow, StatusReturns,
     ReadInputs, SetIncidentMap, GetDynamicRules, UpdateDynamicRules, Goto, End, Rebuild, TypeOK
<1>3. QED
  BY <1>1, <1>2, OthersAreIdle

LEMMA TickEffect ==
    ASSUME TypeOK, Tick
    PROVE  /\ \A h \in Handlers : /\ held'[h].lease = Aged(held[h].lease)
                                  /\ held'[h].domain = held[h].domain
                                  /\ held'[h].block = held[h].block
                                  /\ held'[h].ids = held[h].ids
           /\ lease' = Aged(lease) /\ alarm' = Aged(alarm)
           /\ UNCHANGED <<pc, task, list, settings, rules, incidents, changed>>
BY DEF Tick, TypeOK, Copies, outside

\* Time leaves an absent value and an expired one as they are.
LEMMA Aging ==
    ASSUME NEW f \in [Domains -> Times], NEW d \in Domains
    PROVE  /\ f[d] = Absent <=> Aged(f)[d] = Absent
           /\ f[d] = 0 => Aged(f)[d] = 0
           /\ Aged(f)[d] > 0 => f[d] > 0
           /\ Aged(f)[d] >= f[d] - 1
           /\ Aged(f)[d] = IF f[d] > 0 THEN f[d] - 1 ELSE f[d]
BY LimitAssumption DEF Aged, Times, Absent

LEMMA CopyOf ==
    ASSUME NEW f \in [Domains -> Times]
    PROVE  /\ \A d \in Domains : Kept(f)[d] = f[d] \/ (Kept(f)[d] = Absent /\ f[d] \in {0, Absent})
           /\ ~HasExpired(f) => Kept(f) = f
<1>1. \A d \in Domains : f[d] \in Int /\ f[d] >= -1
  BY LimitAssumption DEF Times, Absent
<1>2. \A d \in Domains : Kept(f)[d] = f[d] \/ (Kept(f)[d] = Absent /\ f[d] \in {0, Absent})
  BY <1>1 DEF Kept, Absent
<1>3. ASSUME ~HasExpired(f)
      PROVE  Kept(f) = f
  <2>1. \A d \in Domains : Kept(f)[d] = f[d]
    BY <1>1, <1>3 DEF Kept, HasExpired, Absent
  <2>2. Kept(f) = [d \in Domains |-> Kept(f)[d]] /\ f = [d \in Domains |-> f[d]]
    BY DEF Kept
  <2>3. QED
    BY <2>1, <2>2
<1>4. QED
  BY <1>2, <1>3

------------------------------------------------------------------------------
(* Exceptions, their copies and their alarms *)

LEMMA CopiesInductive ==
    ASSUME TypeOK, TypeOK', Alone, CopiesAgree, ~disturbed', [Next]_vars
    PROVE  CopiesAgree'
<1>1. ASSUME NEW h \in Handlers, Event(h)
      PROVE  CopiesAgree'
  BY <1>1, EventEffect DEF CopiesAgree
<1>2. ASSUME NEW h \in Handlers, Step(h)
      PROVE  CopiesAgree'
  <2>0. \A g \in Handlers \ {h} : pc'[g] = "idle"
    BY <1>2, StepLeavesOthers
  <2>1. CASE GetTempAllow(h)
    <3>1. held'[h].lease = Kept(lease) /\ lease' = lease
      BY <2>1 DEF GetTempAllow, storage, TypeOK, Copies
    <3>2. pc'[h] = IF HasExpired(lease) THEN "purge" ELSE "act"
      BY <2>1 DEF GetTempAllow, Goto, TypeOK
    <3>3. /\ \A d \in Domains :
                 Kept(lease)[d] = lease[d] \/ (Kept(lease)[d] = Absent /\ lease[d] \in {0, Absent})
          /\ ~HasExpired(lease) => Kept(lease) = lease
      BY CopyOf DEF TypeOK
    <3>4. QED
      BY <2>0, <3>1, <3>2, <3>3 DEF CopiesAgree
  <2>2. CASE PurgeTempAllow(h)
    <3>1. /\ lease' = held[h].lease
          /\ (pc'[h] = "act" /\ held'[h] = held[h]) \/ pc'[h] = "map"
      BY <2>2 DEF PurgeTempAllow, Goto, TypeOK
    <3>2. QED
      BY <2>0, <3>1 DEF CopiesAgree
  <2>3. CASE AddTempAllow(h)
    <3>1. pc'[h] = "alarm" /\ lease' = held'[h].lease
      BY <2>3 DEF AddTempAllow, Goto, TypeOK
    <3>2. QED
      BY <2>0, <3>1 DEF CopiesAgree
  <2>4. CASE ReadInputs(h)
    <3>1. pc'[h] = (IF HasExpired(lease) THEN "clean" ELSE "map") /\ lease' = lease
      BY <2>4 DEF ReadInputs, Goto, TypeOK, storage
    <3>2. held'[h].lease = IF HasExpired(lease) THEN Kept(lease) ELSE Never
      BY <2>4 DEF ReadInputs, TypeOK, Copies
    <3>3. QED
      BY <2>0, <3>1, <3>2, CopyOf DEF CopiesAgree, TypeOK
  <2>5. CASE PersistSettings(h) \/ SnapshotArrives(h) \/ SyncFails(h) \/ StoreBlocklist(h)
             \/ CreateAlarm(h) \/ DropTempAllow(h) \/ StatusReturns(h) \/ SetIncidentMap(h)
             \/ GetDynamicRules(h) \/ UpdateDynamicRules(h)
    <3>1. pc'[h] \in {"fetch", "store", "idle", "read", "list", "update"}
      BY <2>5 DEF PersistSettings, SnapshotArrives, SyncFails, StoreBlocklist, CreateAlarm,
         DropTempAllow, StatusReturns, SetIncidentMap, GetDynamicRules, UpdateDynamicRules,
         Goto, End, Rebuild, TypeOK
    <3>2. QED
      BY <2>0, <3>1 DEF CopiesAgree
  <2>6. QED
    BY <1>2, <2>1, <2>2, <2>3, <2>4, <2>5 DEF Step
<1>3. CASE Tick
  <2>1. \A h \in Handlers : pc'[h] = pc[h] /\ held'[h].lease = Aged(held[h].lease)
                          /\ held[h].lease \in [Domains -> Times]
    BY <1>3, TickEffect DEF TypeOK, Copies
  <2>2. lease' = Aged(lease) /\ lease \in [Domains -> Times]
    BY <1>3, TickEffect DEF TypeOK
  <2>3. QED
    BY <2>1, <2>2, Aging DEF CopiesAgree
<1>4. CASE WorkerDies \/ BrowserRestarts
  BY <1>4 DEF WorkerDies, BrowserRestarts, HandlersVanish
<1>5. CASE Visit \/ OpenOptions \/ EditOptions \/ TableGrows \/ UNCHANGED vars
  BY <1>5 DEF Visit, OpenOptions, EditOptions, TableGrows, vars, storage, CopiesAgree
<1>6. QED
  BY <1>1, <1>2, <1>3, <1>4, <1>5 DEF Next

LEMMA AlarmsInductive ==
    ASSUME TypeOK, TypeOK', Alone, Alone', CopiesAgree, AlarmsAgree, ~disturbed', [Next]_vars
    PROVE  AlarmsAgree'
<1>1. ASSUME NEW h \in Handlers, Event(h)
      PROVE  AlarmsAgree'
  <2>1. \A d \in Domains : lease[d] # Absent => alarm[d] = lease[d]
    BY <1>1, EventEffect DEF AlarmsAgree
  <2>2. CASE UNCHANGED alarm /\ task'[h] # "expire"
    BY <1>1, <2>1, <2>2, EventEffect DEF AlarmsAgree
  <2>3. ASSUME task'[h] = "expire", NEW d \in Domains, held'[h].domain = d, alarm[d] = 0,
               alarm' = [alarm EXCEPT ![d] = Absent]
        PROVE  AlarmsAgree'
    <3>1. lease' = lease /\ lease[d] \in {0, Absent}
      BY <1>1, <2>1, <2>3, EventEffect
    <3>2. \A g \in Handlers \ {h} : task'[g] # "expire"
      BY <1>1, EventEffect
    <3>3. \A e \in Domains \ {d} : alarm'[e] = alarm[e]
      BY <2>3 DEF TypeOK
    <3>4. QED
      BY <2>1, <2>3, <3>1, <3>2, <3>3 DEF AlarmsAgree
  <2>4. QED
    BY <1>1, <2>2, <2>3, EventEffect
<1>2. ASSUME NEW h \in Handlers, Step(h)
      PROVE  AlarmsAgree'
  <2>0. /\ pc[h] # "idle"
        /\ \A g \in Handlers \ {h} :
             /\ pc[g] = "idle" /\ task[g] \notin {"allow", "expire", "status"}
             /\ pc'[g] = "idle" /\ task'[g] \notin {"allow", "expire", "status"}
    BY <1>2, StepLeavesOthers
  <2> DEFINE Excused(d) == held[h].domain = d /\ (pc[h] = "alarm" \/ task[h] = "expire")
  <2>1. /\ \A d \in Domains : lease[d] # Absent => alarm[d] = lease[d] \/ Excused(d)
        /\ task[h] = "expire" => lease[held[h].domain] \in {0, Absent}
    BY <2>0 DEF AlarmsAgree
  <2>2. CASE PurgeTempAllow(h)
    <3>1. /\ lease' = held[h].lease /\ alarm' = alarm /\ task' = task
          /\ held'[h].domain = held[h].domain
          /\ pc[h] \in {"purge", "clean"} /\ pc'[h] \in {"act", "map"}
      BY <2>2 DEF PurgeTempAllow, Goto, TypeOK, Copies
    <3>2. \A d \in Domains :
            lease'[d] = lease[d] \/ (lease'[d] = Absent /\ lease[d] \in {0, Absent})
      BY <3>1 DEF CopiesAgree
    <3>3. QED
      BY <2>0, <2>1, <3>1, <3>2 DEF AlarmsAgree, Alone
  <2>3. CASE AddTempAllow(h)
    <3>1. /\ lease' = [lease EXCEPT ![held[h].domain] = LEASE] /\ alarm' = alarm /\ task' = task
          /\ held'[h].domain = held[h].domain /\ pc'[h] = "alarm" /\ task[h] = "allow"
      <4>1. held'[h].lease = [held[h].lease EXCEPT ![held[h].domain] = LEASE]
        BY <2>3 DEF AddTempAllow, TypeOK, Copies
      <4>2. held[h].lease = lease
        BY <2>3 DEF AddTempAllow, CopiesAgree
      <4>3. held'[h].domain = held[h].domain
        BY <2>3 DEF AddTempAllow, TypeOK, Copies
      <4>4. QED
        BY <2>3, <4>1, <4>2, <4>3 DEF AddTempAllow, Goto, TypeOK
    <3>2. \A d \in Domains : d # held[h].domain => lease'[d] = lease[d]
      BY <3>1 DEF TypeOK
    <3>3. QED
      BY <2>0, <2>1, <2>3, <3>1, <3>2 DEF AlarmsAgree, AddTempAllow
  <2>4. CASE CreateAlarm(h)
    <3>1. /\ held[h].lease = lease /\ lease' = lease
          /\ alarm' = [alarm EXCEPT ![held[h].domain] = lease[held[h].domain]]
          /\ task[h] = "allow" /\ task'[h] = "rebuild"
      BY <2>4 DEF CreateAlarm, CopiesAgree, Rebuild, TypeOK, Alone
    <3>2. \A d \in Domains : alarm'[d] = IF d = held[h].domain THEN lease[d] ELSE alarm[d]
      BY <3>1 DEF TypeOK
    <3>3. QED
      BY <2>0, <2>1, <3>1, <3>2 DEF AlarmsAgree
  <2>5. CASE DropTempAllow(h)
    <3>1. /\ held[h].lease = lease /\ alarm' = alarm /\ task'[h] = "rebuild"
          /\ pc[h] = "act"
          /\ lease' = IF lease[held[h].domain] # Absent
                        THEN [lease EXCEPT ![held[h].domain] = Absent] ELSE lease
      BY <2>5 DEF DropTempAllow, CopiesAgree, Rebuild, TypeOK
    <3>2. \A d \in Domains : lease'[d] = IF d = held[h].domain THEN Absent ELSE lease[d]
      BY <3>1 DEF TypeOK
    <3>3. QED
      BY <2>0, <2>1, <3>1, <3>2 DEF AlarmsAgree
  <2>6. CASE GetTempAllow(h) \/ StatusReturns(h) \/ PersistSettings(h) \/ SnapshotArrives(h)
             \/ SyncFails(h) \/ StoreBlocklist(h) \/ ReadInputs(h) \/ SetIncidentMap(h)
             \/ GetDynamicRules(h) \/ UpdateDynamicRules(h)
    <3>1. UNCHANGED <<lease, alarm>> /\ pc[h] # "alarm"
      BY <2>6 DEF GetTempAllow, StatusReturns, PersistSettings, SnapshotArrives, SyncFails,
         StoreBlocklist, ReadInputs, SetIncidentMap, GetDynamicRules, UpdateDynamicRules,
         storage
    <3>2. task[h] = "expire" => task'[h] = "expire" /\ held'[h].domain = held[h].domain
      BY <2>6 DEF GetTempAllow, StatusReturns, PersistSettings, SnapshotArrives, SyncFails,
         StoreBlocklist, ReadInputs, SetIncidentMap, GetDynamicRules, UpdateDynamicRules,
         TypeOK, Copies, Alone
    <3>3. task'[h] = "expire" => task[h] = "expire"
      BY <2>6 DEF GetTempAllow, StatusReturns, PersistSettings, SnapshotArrives, SyncFails,
         StoreBlocklist, ReadInputs, SetIncidentMap, GetDynamicRules, UpdateDynamicRules,
         TypeOK, End, Rebuild
    <3>4. QED
      BY <2>0, <2>1, <3>1, <3>2, <3>3 DEF AlarmsAgree
  <2>7. QED
    BY <1>2, <2>2, <2>3, <2>4, <2>5, <2>6 DEF Step
<1>3. CASE Tick
  <2>1. /\ \A h \in Handlers : held'[h].domain = held[h].domain
        /\ UNCHANGED <<pc, task>> /\ lease' = Aged(lease) /\ alarm' = Aged(alarm)
    BY <1>3, TickEffect
  <2>2. \A d \in Domains :
          /\ lease'[d] # Absent => lease[d] # Absent
          /\ lease[d] \in {0, Absent} => lease'[d] \in {0, Absent}
          /\ alarm[d] = lease[d] => alarm'[d] = lease'[d]
    BY <2>1, Aging DEF TypeOK
  <2>3. \A h \in Handlers : task[h] = "expire" => held[h].domain \in Domains
    BY DEF Alone
  <2>4. QED
    BY <2>1, <2>2, <2>3 DEF AlarmsAgree
<1>4. CASE WorkerDies \/ BrowserRestarts
  BY <1>4 DEF WorkerDies, BrowserRestarts, HandlersVanish
<1>5. CASE Visit \/ OpenOptions \/ EditOptions \/ TableGrows \/ UNCHANGED vars
  BY <1>5 DEF Visit, OpenOptions, EditOptions, TableGrows, vars, storage, AlarmsAgree
<1>6. QED
  BY <1>1, <1>2, <1>3, <1>4, <1>5 DEF Next

------------------------------------------------------------------------------
(* Rules and incidents *)

LEMMA AccordsLasts ==
    ASSUME NEW block, NEW from, NEW s, NEW excepted, NEW later, NEW due, NEW duelater,
           Accords(block, from, s, excepted, due), Live(later) \subseteq Live(excepted),
           \A d \in Domains : due[d] # Absent => duelater[d] # Absent,
           from \subseteq Domains
    PROVE  Accords(block, from, s, later, duelater)
BY DEF Accords, Blockable

\* A block that was read has its rules as long as nothing it came from changes.
LEMMA StillInForce ==
    ASSUME TypeOK, RulesAgree, \A h \in Handlers : Quiet(h), changed' = 0, changed = 0,
           UNCHANGED <<list, settings, rules, incidents>>, Live(lease') \subseteq Live(lease),
           \A d \in Domains : alarm[d] # Absent => alarm'[d] # Absent
    PROVE  \E block \in SUBSET Domains : InForce(block)'
<1>1. PICK block \in SUBSET Domains : InForce(block)
  BY DEF RulesAgree
<1>2. Accords(block, list, settings, lease', alarm')
  BY <1>1, AccordsLasts DEF InForce, Fresh, TypeOK
<1>3. InForce(block)'
  BY <1>1, <1>2 DEF InForce, Fresh
<1>4. QED
  BY <1>3

LEMMA RulesInductive ==
    ASSUME TypeOK, TypeOK', Calm, ~disturbed', [Next]_vars
    PROVE  RulesAgree'
<1> USE DEF Calm
<1>1. ASSUME NEW h \in Handlers, Event(h)
      PROVE  RulesAgree'
  <2>1. /\ \A g \in Handlers : pc[g] = "idle"
        /\ \A g \in Handlers \ {h} : pc'[g] = "idle"
        /\ pc'[h] \in {"persist", "fetch", "read", "get"}
        /\ UNCHANGED <<list, settings, lease, rules, incidents>>
        /\ pc'[h] = "get" <=> task'[h] \in {"allow", "expire", "status"}
        /\ task'[h] \in {"boot", "sync", "status"} => UNCHANGED <<alarm, changed>>
        /\ task'[h] \in {"boot", "sync", "status", "rebuild", "allow", "expire"}
    BY <1>1, EventEffect
  <2>2. \A g \in Handlers : Quiet(g)
    BY <2>1 DEF Quiet
  <2>3. \A g \in Handlers : ~Ready(g)' /\ pc'[g] \notin {"list", "update"}
    BY <2>1 DEF Ready
  <2>4. CASE task'[h] \in {"boot", "sync", "status"}
    <3>1. UNCHANGED <<alarm, changed>>
      BY <2>1, <2>4
    <3>2. changed' = 0 => \E block \in SUBSET Domains : InForce(block)'
      BY <2>1, <2>2, <3>1, StillInForce
    <3>3. QED
      BY <2>3, <3>2 DEF RulesAgree
  <2>5. CASE task'[h] \in {"rebuild", "allow", "expire"}
    <3>1. pc'[h] \in {"read", "get"}
      BY <1>1, <2>1, <2>5 DEF Event, Bootstrap, SyncRequested, SettingsChanged, ProceedAnyway,
         StatusRequested, AlarmFires, Start, Goto, TypeOK
    <3>2. ~Quiet(h)'
      BY <2>5, <3>1 DEF Quiet
    <3>3. QED
      BY <2>3, <3>2 DEF RulesAgree
  <2>6. QED
    BY <2>1, <2>4, <2>5
<1>2. ASSUME NEW h \in Handlers, Step(h)
      PROVE  RulesAgree'
  <2>0. /\ pc[h] # "idle"
        /\ \A g \in Handlers \ {h} :
             /\ pc[g] = "idle" /\ task[g] \notin {"allow", "expire", "status"}
             /\ pc'[g] = "idle" /\ task'[g] = task[g] /\ held'[g] = held[g]
    BY <1>2, StepLeavesOthers
  <2>1. \A g \in Handlers \ {h} :
          Quiet(g) /\ ~Ready(g)' /\ pc'[g] \notin {"list", "update"}
    BY <2>0 DEF Quiet, Ready
  <2>2. held[h] \in Copies /\ held'[h] \in Copies
    BY DEF TypeOK
  <2>3. CASE PersistSettings(h)
    <3>1. /\ pc[h] = "persist" /\ pc'[h] = "fetch"
          /\ UNCHANGED <<list, lease, rules, incidents, alarm>>
          /\ changed' = IF settings' = settings THEN changed ELSE changed + 1
      BY <2>3 DEF PersistSettings, Goto, Save, TypeOK
    <3>2. Quiet(h) /\ ~Ready(h)'
      BY <3>1 DEF Quiet, Ready
    <3>3. changed' = 0 => changed = 0 /\ settings' = settings
      BY <3>1 DEF TypeOK
    <3>4. changed' = 0 => \E block \in SUBSET Domains : InForce(block)'
      BY <2>1, <3>1, <3>2, <3>3, StillInForce
    <3>5. QED
      BY <2>1, <3>1, <3>2, <3>4 DEF RulesAgree
  <2>4. CASE SyncFails(h) \/ StatusReturns(h)
    <3>1. /\ pc[h] = "fetch" \/ task[h] = "status"
          /\ pc'[h] = "idle"
          /\ UNCHANGED <<list, settings, lease, rules, incidents, alarm, changed>>
      BY <2>4 DEF SyncFails, StatusReturns, End, Goto, TypeOK, storage, outside
    <3>2. Quiet(h) /\ ~Ready(h)'
      BY <3>1 DEF Quiet, Ready
    <3>3. changed' = 0 => \E block \in SUBSET Domains : InForce(block)'
      BY <2>1, <3>1, <3>2, StillInForce
    <3>4. QED
      BY <2>1, <3>1, <3>2, <3>3 DEF RulesAgree
  <2>5. CASE SnapshotArrives(h)
    <3>1. pc'[h] = "store" /\ task'[h] = task[h] /\ pc[h] = "fetch"
      BY <2>5 DEF SnapshotArrives, Goto, TypeOK
    <3>2. ~Quiet(h)' /\ ~Ready(h)'
      BY <3>1 DEF Quiet, Ready, Alone
    <3>3. QED
      BY <2>1, <3>1, <3>2 DEF RulesAgree
  <2>6. CASE StoreBlocklist(h) \/ CreateAlarm(h) \/ DropTempAllow(h)
    <3>1. pc'[h] = "read" /\ task'[h] = "rebuild"
      BY <2>6 DEF StoreBlocklist, CreateAlarm, DropTempAllow, Rebuild, Goto, TypeOK
    <3>2. ~Quiet(h)' /\ ~Ready(h)'
      BY <3>1 DEF Quiet, Ready
    <3>3. QED
      BY <2>1, <3>1, <3>2 DEF RulesAgree
  <2>7. CASE GetTempAllow(h) \/ (PurgeTempAllow(h) /\ pc[h] = "purge")
    <3>1. /\ pc[h] \in {"get", "purge"} /\ pc'[h] \in {"purge", "act"} /\ task'[h] = task[h]
          /\ UNCHANGED <<list, settings, rules, incidents, alarm, changed>>
          /\ lease' = lease \/ (pc[h] = "purge" /\ lease' = held[h].lease)
      BY <2>7 DEF GetTempAllow, PurgeTempAllow, Goto, TypeOK, storage, outside
    <3>2. Live(lease') \subseteq Live(lease)
      BY <3>1 DEF CopiesAgree, Live, Absent
    <3>3. task[h] = "status" => Quiet(h)
      BY DEF Quiet
    <3>4. Quiet(h)' => task[h] = "status"
      BY <3>1 DEF Quiet
    <3>5. (\A g \in Handlers : Quiet(g)') /\ changed' = 0
            => \E block \in SUBSET Domains : InForce(block)'
      BY <2>1, <3>1, <3>2, <3>3, <3>4, StillInForce
    <3>6. ~Ready(h)'
      BY <3>1 DEF Ready
    <3>7. QED
      BY <2>1, <3>1, <3>5, <3>6 DEF RulesAgree
  <2>8. CASE PurgeTempAllow(h) /\ pc[h] = "clean"
    <3>1. /\ pc'[h] = "map" /\ task'[h] = task[h] /\ lease' = held[h].lease
          /\ held'[h].block = held[h].block
          /\ UNCHANGED <<list, settings, alarm, changed>>
      BY <2>8 DEF PurgeTempAllow, Goto, TypeOK, Copies, outside
    <3>2. Live(lease') \subseteq Live(lease)
      BY <2>8, <3>1 DEF CopiesAgree, Live, Absent
    <3>3. changed' = 0 => Fresh(held[h].block)
      BY <2>8, <3>1 DEF RulesAgree, Ready
    <3>4. changed' = 0 => Accords(held[h].block, list, settings, lease', alarm)
      BY <3>2, <3>3, AccordsLasts DEF Fresh, TypeOK
    <3>5. changed' = 0 => Fresh(held[h].block)'
      BY <3>1, <3>4 DEF Fresh
    <3>6. ~Quiet(h)'
      BY <2>8, <3>1 DEF Quiet, Alone
    <3>7. QED
      BY <2>1, <3>1, <3>5, <3>6 DEF RulesAgree
  <2>9. CASE AddTempAllow(h)
    <3>1. pc'[h] = "alarm" /\ task'[h] = "allow"
      BY <2>9 DEF AddTempAllow, Goto, TypeOK
    <3>2. ~Quiet(h)' /\ ~Ready(h)'
      BY <3>1 DEF Quiet, Ready
    <3>3. QED
      BY <2>1, <3>1, <3>2 DEF RulesAgree
  <2>10. CASE ReadInputs(h)
    <3>1. /\ pc[h] = "read" /\ pc'[h] \in {"clean", "map"} /\ task'[h] = task[h]
          /\ UNCHANGED <<list, settings, lease, alarm, changed>>
      BY <2>10 DEF ReadInputs, Goto, TypeOK, storage, outside
    <3>2. held'[h].block = Blockable(list, Effective(settings), Live(lease))
      BY <2>10 DEF ReadInputs, TypeOK, Copies
    <3>3. task[h] \notin {"expire", "status"}
      BY <3>1 DEF Alone
    <3>4. \A d \in Domains : lease[d] # Absent => alarm[d] = lease[d]
      BY <2>0, <3>1, <3>3 DEF AlarmsAgree
    <3>5. \A d \in Live(lease) : d \in Domains /\ alarm[d] # Absent
      BY <3>4 DEF Live, Absent
    <3>6. Accords(held'[h].block, list, settings, lease, alarm)
      BY <3>2, <3>5 DEF Accords, Blockable
    <3>7. Fresh(held[h].block)'
      BY <3>1, <3>6 DEF Fresh
    <3>8. ~Quiet(h)'
      BY <3>1, <3>3 DEF Quiet
    <3>9. QED
      BY <2>1, <3>1, <3>7, <3>8 DEF RulesAgree
  <2>11. CASE SetIncidentMap(h) \/ GetDynamicRules(h)
    <3>1. /\ pc[h] \in {"map", "list"} /\ task'[h] = task[h] /\ held'[h].block = held[h].block
          /\ UNCHANGED <<list, settings, lease, alarm, changed, rules>>
      BY <2>11 DEF SetIncidentMap, GetDynamicRules, TypeOK, Copies, storage, outside
    <3>2. pc'[h] \in {"list", "update"} /\ incidents' = Build(held'[h].block)
      BY <2>11, <3>1 DEF SetIncidentMap, GetDynamicRules, Goto, TypeOK, storage, RulesAgree
    <3>3. pc'[h] = "update" => held'[h].ids = DOMAIN rules'
      BY <2>11 DEF SetIncidentMap, GetDynamicRules, Goto, TypeOK, Copies, storage
    <3>4. changed' = 0 => Fresh(held[h].block)'
      BY <3>1 DEF RulesAgree, Ready, Fresh
    <3>5. ~Quiet(h)'
      BY <3>1, <3>2 DEF Quiet, Alone
    <3>6. QED
      BY <2>1, <3>2, <3>3, <3>4, <3>5 DEF RulesAgree
  <2>12. CASE UpdateDynamicRules(h)
    <3> DEFINE block == held[h].block
    <3>1. /\ pc[h] = "update" /\ pc'[h] = "idle"
          /\ UNCHANGED <<list, settings, lease, alarm, changed, incidents>>
      BY <2>12 DEF UpdateDynamicRules, End, Goto, TypeOK, outside
    <3>2. held[h].ids = DOMAIN rules /\ incidents = Build(block)
      BY <3>1 DEF RulesAgree
    <3>3. DOMAIN Restrict(rules, DOMAIN rules \ held[h].ids) = {}
      BY <3>2 DEF Restrict
    <3>4. \A kept : DOMAIN kept = {} => Together(Build(block), kept) = Build(block)
      BY DEF Together, Build
    <3>5. rules' = Build(block)
      BY <2>12, <3>3, <3>4 DEF UpdateDynamicRules
    <3>6. changed' = 0 => Fresh(block)
      BY <3>1 DEF RulesAgree, Ready
    <3>7. block \in SUBSET Domains
      BY <2>2 DEF Copies
    <3>8. changed' = 0 => \E b \in SUBSET Domains : InForce(b)'
      <4>1. \A b \in SUBSET Domains :
              Fresh(b) /\ rules' = Build(b) /\ incidents = Build(b) => InForce(b)'
        BY <3>1 DEF InForce, Fresh
      <4>2. QED
        BY <3>2, <3>5, <3>6, <3>7, <4>1
    <3>9. QED
      BY <2>1, <3>1, <3>8 DEF RulesAgree, Ready
  <2>13. QED
    BY <1>2, <2>3, <2>4, <2>5, <2>6, <2>7, <2>8, <2>9, <2>10, <2>11, <2>12
       DEF Step, PurgeTempAllow
<1>3. CASE Tick
  <2>1. /\ \A h \in Handlers : held'[h].block = held[h].block /\ held'[h].ids = held[h].ids
        /\ lease' = Aged(lease) /\ alarm' = Aged(alarm)
        /\ UNCHANGED <<pc, task, list, settings, rules, incidents, changed>>
    BY <1>3, TickEffect
  <2>2. /\ Live(lease') \subseteq Live(lease)
        /\ \A d \in Domains : alarm[d] # Absent => alarm'[d] # Absent
    BY <2>1, Aging DEF Live, TypeOK
  <2>3. (\A h \in Handlers : Quiet(h)') /\ changed' = 0
          => \E block \in SUBSET Domains : InForce(block)'
    BY <2>1, <2>2, StillInForce DEF Quiet
  <2>4. ASSUME NEW h \in Handlers, changed' = 0, Ready(h)'
        PROVE  Fresh(held[h].block)'
    <3>1. Fresh(held[h].block)
      BY <2>1, <2>4 DEF RulesAgree, Ready
    <3>2. Accords(held[h].block, list, settings, lease', alarm')
      BY <2>2, <3>1, AccordsLasts DEF Fresh, TypeOK
    <3>3. QED
      BY <2>1, <3>2 DEF Fresh
  <2>5. QED
    BY <2>1, <2>3, <2>4 DEF RulesAgree
<1>4. CASE WorkerDies \/ BrowserRestarts
  BY <1>4 DEF WorkerDies, BrowserRestarts, HandlersVanish
<1>5. CASE EditOptions
  <2>1. /\ UNCHANGED <<list, lease, incidents, alarm, rules, pc, task, held>>
        /\ changed' = IF settings' = settings THEN changed ELSE changed + 1
    BY <1>5 DEF EditOptions, Save
  <2>2. changed' = 0 => changed = 0 /\ settings' = settings
    BY <2>1 DEF TypeOK
  <2>3. QED
    BY <2>1, <2>2 DEF RulesAgree, InForce, Fresh, Quiet, Ready
<1>6. CASE Visit \/ OpenOptions \/ TableGrows \/ UNCHANGED vars
  BY <1>6 DEF Visit, OpenOptions, TableGrows, vars, storage, outside,
     RulesAgree, InForce, Fresh, Quiet, Ready
<1>7. QED
  BY <1>1, <1>2, <1>3, <1>4, <1>5, <1>6 DEF Next

------------------------------------------------------------------------------
(* The inductive invariant holds *)

LEMMA InvariantInitial == Init => IInv
<1> SUFFICES ASSUME Init PROVE Calm
  BY TypeInitial DEF IInv
<1>1. Alone
  BY DEF Init, Alone
<1>2. CopiesAgree
  BY DEF Init, CopiesAgree
<1>3. AlarmsAgree
  BY DEF Init, AlarmsAgree, Never
<1>4. RulesAgree
  <2>1. Fresh({})
    BY DEF Init, Fresh, Accords, Blockable
  <2>2. rules = Build({})
    BY DEF Init, Build
  <2>3. InForce({})
    BY <2>1, <2>2 DEF Init, InForce
  <2>4. QED
    BY <2>3 DEF Init, RulesAgree, Ready
<1>5. QED
  BY <1>1, <1>2, <1>3, <1>4 DEF Calm

\* Once disturbed, always disturbed.
LEMMA StaysDisturbed == [Next]_vars /\ ~disturbed' => ~disturbed
<1> SUFFICES ASSUME [Next]_vars, disturbed
             PROVE  disturbed'
  OBVIOUS
<1>1. ASSUME NEW h \in Handlers, Event(h)
      PROVE  disturbed'
  <2>1. \A event, step, read : Start(h, event, step, read) => disturbed'
    BY Zenon DEF Start
  <2>2. QED
    BY <1>1, <2>1, Zenon DEF Event, Bootstrap, SyncRequested, SettingsChanged, ProceedAnyway,
       StatusRequested, AlarmFires
<1>2. ASSUME NEW h \in Handlers, Step(h)
      PROVE  disturbed'
  BY <1>2 DEF Step, PersistSettings, SnapshotArrives, SyncFails, StoreBlocklist,
     GetTempAllow, PurgeTempAllow, AddTempAllow, CreateAlarm, DropTempAllow, StatusReturns,
     ReadInputs, SetIncidentMap, GetDynamicRules, UpdateDynamicRules
<1>3. CASE Visit \/ OpenOptions \/ EditOptions \/ TableGrows \/ Tick \/ UNCHANGED vars
  BY <1>3 DEF Visit, OpenOptions, EditOptions, TableGrows, Tick, vars
<1>4. CASE WorkerDies \/ BrowserRestarts
  BY <1>4 DEF WorkerDies, BrowserRestarts, HandlersVanish
<1>5. QED
  BY <1>1, <1>2, <1>3, <1>4 DEF Next

LEMMA InvariantInductive == IInv /\ [Next]_vars => IInv'
<1> SUFFICES ASSUME IInv, [Next]_vars
             PROVE  IInv'
  OBVIOUS
<1>1. TypeOK /\ TypeOK'
  BY TypeInductive DEF IInv
<1>2. ASSUME ~disturbed'
      PROVE  Calm'
  <2>1. Calm
    BY <1>2, StaysDisturbed DEF IInv
  <2>2. Alone'
    BY <1>1, <1>2, <2>1, AloneInductive DEF Calm
  <2>3. CopiesAgree'
    BY <1>1, <1>2, <2>1, CopiesInductive DEF Calm
  <2>4. AlarmsAgree'
    BY <1>1, <1>2, <2>1, <2>2, AlarmsInductive DEF Calm
  <2>5. RulesAgree'
    BY <1>1, <1>2, <2>1, RulesInductive
  <2>6. QED
    BY <2>2, <2>3, <2>4, <2>5 DEF Calm
<1>3. QED
  BY <1>1, <1>2 DEF IInv

LEMMA Invariant == Spec => []IInv
BY InvariantInitial, InvariantInductive, PTL DEF Spec

\* When nothing runs and nothing is due, the rules are those of a block in force.
LEMMA IdleInForce ==
    ASSUME IInv, Idle, ~disturbed
    PROVE  \E block \in SUBSET Domains : InForce(block)
<1>1. \A h \in Handlers : Quiet(h)
  BY DEF Idle, Running, Quiet
<1>2. QED
  BY <1>1 DEF IInv, Calm, RulesAgree, Idle

LEMMA CalmLeases ==
    ASSUME IInv, IInv', [Next]_vars, ~disturbed'
    PROVE  \A d \in Live(lease) : lease'[d] >= lease[d] - 1
<1>0. TypeOK /\ TypeOK' /\ Calm
  BY StaysDisturbed DEF IInv
<1> SUFFICES ASSUME NEW d \in Domains, lease[d] > 0
             PROVE  lease'[d] >= lease[d] - 1
  BY DEF Live
<1>1. lease[d] \in 1 .. LEASE /\ LEASE \in Nat
  BY <1>0, LimitAssumption DEF TypeOK, Times, Absent
<1>2. ASSUME NEW h \in Handlers, Event(h)
      PROVE  lease' = lease
  BY <1>0, <1>2, EventEffect DEF Calm
<1>3. ASSUME NEW h \in Handlers, Step(h)
      PROVE  lease'[d] >= lease[d]
  <2>1. CASE PurgeTempAllow(h)
    BY <1>0, <1>1, <2>1 DEF PurgeTempAllow, Calm, CopiesAgree, Absent
  <2>2. CASE AddTempAllow(h)
    <3>1. held'[h].lease = [held[h].lease EXCEPT ![held[h].domain] = LEASE]
      BY <1>0, <2>2 DEF AddTempAllow, TypeOK, Copies
    <3>2. held[h].lease = lease /\ lease' = held'[h].lease
      BY <1>0, <2>2 DEF AddTempAllow, Calm, CopiesAgree
    <3>3. lease' = [lease EXCEPT ![held[h].domain] = LEASE]
      BY <3>1, <3>2
    <3>4. lease'[d] = LEASE \/ lease'[d] = lease[d]
      BY <1>0, <3>3 DEF TypeOK
    <3>5. QED
      BY <1>1, <3>4
  <2>3. CASE DropTempAllow(h)
    <3>1. held[h].lease = lease /\ task[h] = "expire"
      BY <1>0, <2>3 DEF DropTempAllow, Calm, CopiesAgree
    <3>2. lease[held[h].domain] \in {0, Absent}
      BY <1>0, <3>1 DEF Calm, AlarmsAgree
    <3>3. d # held[h].domain
      BY <1>1, <3>2 DEF Absent
    <3>4. lease'[d] = lease[d]
      BY <1>0, <2>3, <3>1, <3>3 DEF DropTempAllow, TypeOK
    <3>5. QED
      BY <1>1, <3>4
  <2>4. CASE PersistSettings(h) \/ SnapshotArrives(h) \/ SyncFails(h) \/ StoreBlocklist(h)
             \/ GetTempAllow(h) \/ CreateAlarm(h) \/ StatusReturns(h) \/ ReadInputs(h)
             \/ SetIncidentMap(h) \/ GetDynamicRules(h) \/ UpdateDynamicRules(h)
    <3>1. lease' = lease
      BY <2>4 DEF PersistSettings, SnapshotArrives, SyncFails, StoreBlocklist, GetTempAllow,
         CreateAlarm, StatusReturns, ReadInputs, SetIncidentMap, GetDynamicRules,
         UpdateDynamicRules, storage
    <3>2. QED
      BY <1>1, <3>1
  <2>5. QED
    BY <1>3, <2>1, <2>2, <2>3, <2>4 DEF Step
<1>4. CASE Tick
  BY <1>0, <1>4, Aging, TickEffect DEF TypeOK
<1>5. CASE Visit \/ OpenOptions \/ EditOptions \/ TableGrows \/ UNCHANGED vars
  <2>1. lease' = lease
    BY <1>5 DEF Visit, OpenOptions, EditOptions, TableGrows, vars, storage
  <2>2. QED
    BY <1>1, <2>1
<1>6. CASE WorkerDies \/ BrowserRestarts
  BY <1>6 DEF WorkerDies, BrowserRestarts, HandlersVanish
<1>7. ASSUME NEW h \in Handlers, Event(h)
      PROVE  lease'[d] >= lease[d] - 1
  BY <1>1, <1>2, <1>7
<1>8. ASSUME NEW h \in Handlers, Step(h)
      PROVE  lease'[d] >= lease[d] - 1
  <2>1. lease[d] \in Int /\ lease'[d] \in Int
    BY <1>0 DEF TypeOK, Times, Absent
  <2>2. QED
    BY <1>3, <1>8, <2>1
<1>9. QED
  BY <1>4, <1>5, <1>6, <1>7, <1>8 DEF Next

\* Whatever overlaps, an exception is cut short only by a copy that is older than what
\* is stored, by an alarm of its domain, or by a restart of the browser.
LEMMA CutShort ==
    ASSUME TypeOK, TypeOK', [Next]_vars, NEW d \in Live(lease), lease'[d] < lease[d] - 1
    PROVE  WritesStaleCopy(d) \/ DropsOnAlarm(d) \/ deaths' # deaths
<1>1. d \in Domains /\ lease[d] \in 1 .. LEASE /\ lease'[d] \in Int /\ LEASE \in Nat
  BY LimitAssumption DEF TypeOK, Times, Absent, Live
<1>2. lease' # lease
  BY <1>1
<1>3. ASSUME NEW h \in Handlers, PurgeTempAllow(h)
      PROVE  WritesStaleCopy(d)
  <2>1. pc[h] \in {"purge", "clean"} /\ lease' = held[h].lease
    BY <1>3 DEF PurgeTempAllow
  <2>2. QED
    BY <1>1, <2>1 DEF WritesStaleCopy
<1>4. ASSUME NEW h \in Handlers, AddTempAllow(h)
      PROVE  WritesStaleCopy(d)
  <2>1. /\ pc[h] = "act"
        /\ lease' = [held[h].lease EXCEPT ![held[h].domain] = LEASE]
    BY <1>4 DEF AddTempAllow, TypeOK, Copies
  <2>2. held[h].lease \in [Domains -> Times]
    BY DEF TypeOK, Copies
  <2>3. lease'[d] = LEASE \/ lease'[d] = held[h].lease[d]
    BY <1>1, <2>1, <2>2
  <2>4. QED
    BY <1>1, <2>1, <2>3 DEF WritesStaleCopy
<1>5. ASSUME NEW h \in Handlers, DropTempAllow(h)
      PROVE  WritesStaleCopy(d) \/ DropsOnAlarm(d)
  <2>1. CASE held[h].domain = d
    BY <1>5, <2>1 DEF DropsOnAlarm
  <2>2. CASE held[h].domain # d
    <3>1. pc[h] = "act" /\ lease' = [held[h].lease EXCEPT ![held[h].domain] = Absent]
      BY <1>2, <1>5 DEF DropTempAllow
    <3>2. held[h].lease \in [Domains -> Times]
      BY DEF TypeOK, Copies
    <3>3. lease'[d] = held[h].lease[d]
      BY <1>1, <2>2, <3>1, <3>2
    <3>4. QED
      BY <1>1, <3>1, <3>3 DEF WritesStaleCopy
  <2>3. QED
    BY <2>1, <2>2
<1>6. ASSUME NEW h \in Handlers, Event(h)
      PROVE  lease' = lease
  BY <1>6 DEF Event, Bootstrap, SyncRequested, SettingsChanged, ProceedAnyway, StatusRequested,
     AlarmFires, storage
<1>7. ASSUME NEW h \in Handlers, Step(h)
      PROVE  WritesStaleCopy(d) \/ DropsOnAlarm(d)
  <2>1. CASE PersistSettings(h) \/ SnapshotArrives(h) \/ SyncFails(h) \/ StoreBlocklist(h)
             \/ GetTempAllow(h) \/ CreateAlarm(h) \/ StatusReturns(h) \/ ReadInputs(h)
             \/ SetIncidentMap(h) \/ GetDynamicRules(h) \/ UpdateDynamicRules(h)
    BY <1>2, <2>1 DEF PersistSettings, SnapshotArrives, SyncFails, StoreBlocklist,
       GetTempAllow, CreateAlarm, StatusReturns, ReadInputs, SetIncidentMap,
       GetDynamicRules, UpdateDynamicRules, storage
  <2>2. QED
    BY <1>3, <1>4, <1>5, <1>7, <2>1 DEF Step
<1>8. CASE Tick
  <2>1. lease'[d] >= lease[d] - 1
    BY <1>1, <1>8, Aging, TickEffect DEF TypeOK
  <2>2. QED
    BY <1>1, <2>1
<1>9. CASE Visit \/ OpenOptions \/ EditOptions \/ TableGrows \/ UNCHANGED vars
  BY <1>2, <1>9 DEF Visit, OpenOptions, EditOptions, TableGrows, vars, storage
<1>10. CASE WorkerDies \/ BrowserRestarts
  BY <1>10 DEF WorkerDies, BrowserRestarts, HandlersVanish, TypeOK
<1>11. QED
  BY <1>2, <1>6, <1>7, <1>8, <1>9, <1>10 DEF Next

------------------------------------------------------------------------------
(* A rebuild that nothing interferes with; whatever happened before it *)

\* What is read is what is asked for.
LEMMA ReadCarries ==
    ASSUME TypeOK, NEW h \in Handlers, ReadInputs(h)
    PROVE  Carries(h)'
<1> DEFINE l == IF HasExpired(lease) THEN Kept(lease) ELSE Never
<1>1. /\ pc'[h] = IF HasExpired(lease) THEN "clean" ELSE "map"
      /\ held'[h] = [held[h] EXCEPT !.lease = l, !.block = Wanted]
  BY DEF ReadInputs, Goto, TypeOK, Wanted
<1>2. held[h] \in Copies
  BY DEF TypeOK
<1>3. held'[h].lease = l /\ held'[h].block = Wanted
  BY <1>1, <1>2 DEF Copies
<1>4. UNCHANGED <<list, settings, lease>>
  BY DEF ReadInputs, storage
<1>5. Wanted' = Wanted /\ Kept(lease)' = Kept(lease)
  BY <1>4 DEF Wanted, Kept, Live
<1>6. QED
  BY <1>1, <1>3, <1>5 DEF Carries

\* The handler's own steps write what they carry, and the last one replaces every rule.
LEMMA OwnStepCarries ==
    ASSUME TypeOK, NEW h \in Handlers, Carries(h), Step(h)
    PROVE  \/ Carries(h)'
           \/ pc'[h] = "idle" /\ rules' = Build(Wanted) /\ incidents' = rules'
           \/ Interferes(h)
<1>0. held[h] \in Copies /\ pc[h] \in {"clean", "map", "list", "update"}
  BY DEF TypeOK, Carries
<1>1. CASE PurgeTempAllow(h)
  <2>1. pc[h] = "clean" /\ pc'[h] = "map" /\ held'[h].block = held[h].block
    BY <1>0, <1>1 DEF PurgeTempAllow, Goto, TypeOK, Copies
  <2>2. lease' = Kept(lease) /\ UNCHANGED <<list, settings>>
    BY <1>1, <2>1 DEF PurgeTempAllow, Carries
  <2>3. \A d \in Domains : Kept(lease)[d] > 0 <=> lease[d] > 0
    BY DEF Kept, TypeOK, Times, Absent
  <2>4. Live(lease') = Live(lease)
    BY <2>2, <2>3 DEF Live
  <2>5. Wanted' = Wanted
    BY <2>2, <2>4 DEF Wanted, Live
  <2>6. QED
    BY <2>1, <2>5 DEF Carries
<1>2. CASE SetIncidentMap(h)
  <2>1. /\ pc'[h] = "list" /\ held' = held
        /\ incidents' = Build(held[h].block)
        /\ UNCHANGED <<list, settings, lease>>
    BY <1>2 DEF SetIncidentMap, Goto, TypeOK
  <2>2. Wanted' = Wanted
    BY <2>1 DEF Wanted, Live
  <2>3. incidents' = Build(Wanted)
    BY <2>1 DEF Carries
  <2>4. QED
    BY <2>1, <2>2, <2>3 DEF Carries
<1>3. CASE GetDynamicRules(h)
  <2>1. /\ pc[h] = "list" /\ pc'[h] = "update"
        /\ held'[h] = [held[h] EXCEPT !.ids = DOMAIN rules]
        /\ UNCHANGED <<list, settings, lease, incidents, rules>>
    BY <1>3 DEF GetDynamicRules, Goto, storage, TypeOK
  <2>2. held'[h].ids = DOMAIN rules /\ held'[h].block = held[h].block
    BY <1>0, <2>1 DEF Copies
  <2>3. Wanted' = Wanted
    BY <2>1 DEF Wanted, Live
  <2>4. QED
    BY <2>1, <2>2, <2>3 DEF Carries
<1>4. CASE UpdateDynamicRules(h)
  <2> DEFINE kept == Restrict(rules, DOMAIN rules \ held[h].ids)
             new == Build(Wanted)
  <2>1. held[h].block = Wanted /\ incidents = new /\ held[h].ids = DOMAIN rules
    BY <1>4 DEF Carries, UpdateDynamicRules
  <2>2. DOMAIN kept = {}
    BY <2>1 DEF Restrict
  <2>3. Together(new, kept) = [i \in DOMAIN new |-> new[i]]
    BY <2>2 DEF Together
  <2>4. new = [i \in DOMAIN new |-> new[i]]
    BY DEF Build
  <2>5. rules' = Together(new, kept) /\ incidents' = incidents /\ pc'[h] = "idle"
    BY <1>4, <2>1, <2>2 DEF UpdateDynamicRules, End, Goto, TypeOK
  <2>6. QED
    BY <2>1, <2>3, <2>4, <2>5
<1>5. QED
  BY <1>0, <1>1, <1>2, <1>3, <1>4 DEF Step, PersistSettings, SnapshotArrives, SyncFails,
     StoreBlocklist, GetTempAllow, AddTempAllow, CreateAlarm, DropTempAllow, StatusReturns,
     ReadInputs

\* A handler that starts touches nothing that a rebuild carries.
LEMMA StartCarries ==
    ASSUME TypeOK, NEW h \in Handlers, Carries(h), NEW g \in Handlers, Event(g)
    PROVE  Carries(h)' \/ Interferes(h)
<1>0. CASE g # h /\ pc[g] # "idle"
  BY <1>0 DEF Interferes
<1>1. CASE g = h
  BY <1>1 DEF Carries, Event, Bootstrap, SyncRequested, SettingsChanged, ProceedAnyway,
     StatusRequested, AlarmFires, Start
<1>2. CASE g # h /\ pc[g] = "idle"
  <2>1. /\ pc'[h] = pc[h] /\ held'[h] = held[h]
        /\ UNCHANGED <<list, settings, lease, incidents, rules>>
    BY <1>2 DEF Event, Bootstrap, SyncRequested, SettingsChanged, ProceedAnyway,
       StatusRequested, AlarmFires, Start, Goto, storage, TypeOK
  <2>2. Wanted' = Wanted /\ Kept(lease)' = Kept(lease)
    BY <2>1 DEF Wanted, Live, Kept
  <2>3. QED
    BY <2>1, <2>2 DEF Carries
<1>3. QED
  BY <1>0, <1>1, <1>2

\* Time takes from the copy what it takes from the storage.
LEMMA TickCarries ==
    ASSUME TypeOK, NEW h \in Handlers, Carries(h), Tick
    PROVE  Carries(h)' \/ Interferes(h)
<1> SUFFICES ASSUME Live(lease') = Live(lease)
             PROVE  Carries(h)'
  BY DEF Interferes
<1>1. lease' = Aged(lease) /\ UNCHANGED <<list, settings, incidents, rules, pc>>
  BY DEF Tick, outside
<1>2. Wanted' = Wanted
  BY <1>1 DEF Wanted, Live
<1>3. /\ held'[h].block = held[h].block /\ held'[h].ids = held[h].ids
      /\ held'[h].lease = Aged(held[h].lease)
  BY DEF Tick, TypeOK, Copies
<1>4. Aged(Kept(lease)) = Kept(Aged(lease))
  <2>1. \A d \in Domains : lease[d] > 0 <=> Aged(lease)[d] > 0
    BY <1>1 DEF Live
  <2>2. \A d \in Domains : Aged(Kept(lease))[d] = Kept(Aged(lease))[d]
    BY <2>1 DEF Aged, Kept, TypeOK, Times, Absent
  <2>3. QED
    BY <2>2 DEF Aged, Kept
<1>5. pc[h] = "clean" => held'[h].lease = Kept(lease')
  BY <1>1, <1>3, <1>4 DEF Carries
<1>6. QED
  BY <1>1, <1>2, <1>3, <1>5 DEF Carries

LEMMA StepHeals ==
    ASSUME TypeOK, [Next]_vars, NEW h \in Handlers, Carries(h)
    PROVE  \/ Carries(h)'
           \/ pc'[h] = "idle" /\ rules' = Build(Wanted) /\ incidents' = rules'
           \/ Interferes(h)
<1>1. ASSUME NEW g \in Handlers, Event(g)
      PROVE  Carries(h)' \/ Interferes(h)
  BY <1>1, StartCarries
<1>2. ASSUME NEW g \in Handlers, Step(g), g # h
      PROVE  Interferes(h)
  <2>1. pc[g] # "idle"
    BY <1>2 DEF Step, PersistSettings, SnapshotArrives, SyncFails, StoreBlocklist,
       GetTempAllow, PurgeTempAllow, AddTempAllow, CreateAlarm, DropTempAllow, StatusReturns,
       ReadInputs, SetIncidentMap, GetDynamicRules, UpdateDynamicRules
  <2>2. QED
    BY <1>2, <2>1 DEF Interferes
<1>3. CASE Visit \/ OpenOptions \/ EditOptions \/ TableGrows \/ UNCHANGED vars
  <2>1. UNCHANGED <<list, lease, incidents, rules, pc, held>>
    BY <1>3 DEF Visit, OpenOptions, EditOptions, TableGrows, vars, storage, outside
  <2>2. CASE settings' = settings
    <3>1. Wanted' = Wanted /\ Kept(lease)' = Kept(lease)
      BY <2>1, <2>2 DEF Wanted, Live, Kept
    <3>2. QED
      BY <2>1, <3>1 DEF Carries
  <2>3. QED
    BY <2>2 DEF Interferes
<1>4. CASE WorkerDies \/ BrowserRestarts
  <2>1. deaths' = deaths + 1 /\ deaths \in Int
    BY <1>4, BoundAssumption DEF WorkerDies, BrowserRestarts, HandlersVanish, TypeOK
  <2>2. QED
    BY <2>1 DEF Interferes
<1>5. CASE Tick
  BY <1>5, TickCarries
<1>6. ASSUME Step(h)
      PROVE  \/ Carries(h)'
             \/ pc'[h] = "idle" /\ rules' = Build(Wanted) /\ incidents' = rules'
             \/ Interferes(h)
  BY <1>6, OwnStepCarries
<1>7. QED
  BY <1>1, <1>2, <1>3, <1>4, <1>5, <1>6 DEF Next

------------------------------------------------------------------------------
(* Theorems *)

\* Every variable of the extension's background worker keeps its type; the rules
\* have ids from 1 up and name domains.
THEOREM TypeCorrect == Spec => []TypeOK
<1>1. IInv => TypeOK
  BY DEF IInv
<1>2. QED
  BY Invariant, <1>1, PTL

\* Undisturbed and idle, the worker has a rule for every listed domain that has no
\* exception, unless as many rules are in force as there may be.
THEOREM ListedTheorem == Spec => []ListedIsBlocked
<1>1. ASSUME IInv
      PROVE  ListedIsBlocked
  <2> SUFFICES ASSUME Idle, ~disturbed,
                      NEW d \in Blockable(list, Effective(settings), {}),
                      d \notin Ruled, Cardinality(Ruled) # MAX_BLOCK_RULES
               PROVE  alarm[d] # Absent
    BY DEF ListedIsBlocked
  <2>1. PICK block \in SUBSET Domains : InForce(block)
    BY <1>1, IdleInForce
  <2>2. block \subseteq Ruled
    BY <2>1, BuildRules DEF InForce
  <2>3. QED
    BY <2>1, <2>2 DEF InForce, Fresh, Accords
<1>2. QED
  BY Invariant, <1>1, PTL

\* Undisturbed and idle, the worker has no rule for a domain the user allowed or
\* that is not listed.
THEOREM ExceptionTheorem == Spec => []ExceptionIsHonoured
<1>1. ASSUME IInv
      PROVE  ExceptionIsHonoured
  <2> SUFFICES ASSUME Idle, ~disturbed
               PROVE  Ruled \subseteq Blockable(list, Effective(settings), Live(lease))
    BY DEF ExceptionIsHonoured
  <2>1. PICK block \in SUBSET Domains : InForce(block)
    BY <1>1, IdleInForce
  <2>2. QED
    BY <2>1, BuildRules DEF InForce, Fresh, Accords
<1>2. QED
  BY Invariant, <1>1, PTL

\* Undisturbed and idle, the incident map names the domain of every rule.
THEOREM IncidentTheorem == Spec => []IncidentNamesTheRule
<1>1. ASSUME IInv
      PROVE  IncidentNamesTheRule
  BY <1>1, IdleInForce DEF IncidentNamesTheRule, InForce
<1>2. QED
  BY Invariant, <1>1, PTL

\* Undisturbed and idle, the worker's rules are exactly those that are asked for, and
\* the block page knows them.
THEOREM AccordTheorem == Spec => []RulesAccord
<1>1. ListedIsBlocked /\ ExceptionIsHonoured /\ IncidentNamesTheRule => RulesAccord
  BY DEF RulesAccord
<1>2. QED
  BY <1>1, ListedTheorem, ExceptionTheorem, IncidentTheorem, PTL

\* As long as no two handlers have overlapped and none was killed, only time shortens an
\* exception that still runs; after that only a stale copy, an alarm of its domain or a
\* restart of the browser can.
THEOREM LeaseTheorem == Spec => LeaseLasts
<1>1. ASSUME IInv, IInv', [Next]_vars
      PROVE  [\A d \in Live(lease) :
                lease'[d] < lease[d] - 1
                  => disturbed' /\ (WritesStaleCopy(d) \/ DropsOnAlarm(d)
                                      \/ deaths' # deaths)]_vars
  <2>1. TypeOK /\ TypeOK'
    BY <1>1 DEF IInv
  <2> SUFFICES ASSUME NEW d \in Live(lease), lease'[d] < lease[d] - 1
               PROVE  disturbed' /\ (WritesStaleCopy(d) \/ DropsOnAlarm(d)
                                       \/ deaths' # deaths)
    OBVIOUS
  <2>2. disturbed'
    <3>1. d \in Domains
      BY DEF Live
    <3>2. lease[d] \in Int /\ lease'[d] \in Int
      BY <2>1, <3>1, LimitAssumption DEF TypeOK, Times, Absent
    <3>3. ~disturbed' => lease'[d] >= lease[d] - 1
      BY <1>1, CalmLeases
    <3>4. QED
      BY <3>2, <3>3
  <2>3. QED
    BY <1>1, <2>1, <2>2, CutShort
<1>2. QED
  BY Invariant, <1>1, PTL DEF Spec, LeaseLasts

\* Whatever overlaps or is killed, a rebuild that nothing interferes with leaves the
\* rules and the incidents that list, settings and exceptions ask for.
THEOREM RebuildTheorem == Spec => RebuildHeals
<1>1. ASSUME TypeOK, [Next]_vars
      PROVE  [\A h \in Handlers :
                /\ ReadInputs(h) => Carries(h)'
                /\ Carries(h) =>
                     \/ Carries(h)'
                     \/ pc'[h] = "idle" /\ rules' = Build(Wanted) /\ incidents' = rules'
                     \/ Interferes(h)]_vars
  BY <1>1, ReadCarries, StepHeals
<1>2. QED
  BY TypeCorrect, <1>1, PTL DEF Spec, RebuildHeals
==============================================================================
