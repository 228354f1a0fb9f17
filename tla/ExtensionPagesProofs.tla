-------------------------- MODULE ExtensionPagesProofs -------------------------
(***************************************************************************)
(* Proofs about ExtensionPages for any hosts, links, forms and bounds.  The *)
(* surfaces share the store only, so each has an inductive invariant of its *)
(* own.                                                                     *)
(***************************************************************************)
EXTENDS ExtensionPages, SequenceTheorems, TLAPS

StoreIInv == stored \in Stores /\ changes \in 0 .. MaxChanges

LEMMA StoreKeeps ==
    ASSUME StoreIInv, ListChanges \/ LevelChanges
    PROVE  StoreIInv' /\ changes' = changes + 1
<1>1. changes' = changes + 1 /\ changes' \in 0 .. MaxChanges
  BY HostAssumption DEF StoreIInv, ListChanges, LevelChanges
<1>2. stored' \in Stores
  BY DEF StoreIInv, Stores, Lists, ListChanges, LevelChanges
<1>3. QED
  BY <1>1, <1>2 DEF StoreIInv

------------------------------------------------------------------------------
(* The page *)

\* The last read on its way is of the store as it is, unless a notice is on its
\* way as well; when neither is, so is the copy.
CopyIInv ==
    /\ booted \in BOOLEAN
    /\ cache \in Stores
    /\ notices \in Nat /\ notices <= changes
    /\ reads \in Seq(Stores)
    /\ orphaned \in BOOLEAN
    /\ ~orphaned /\ notices = 0 =>
         IF reads = <<>> THEN booted /\ cache = stored ELSE reads[Len(reads)] = stored

\* The link last hovered is the one under the pointer, or one the page removed.
HoverIInv ==
    /\ {pointer, hoverAnchor, hoverTimer, tip} \subseteq Anchors \cup {None}
    /\ gone \subseteq Anchors
    /\ hoverTimer \in {None, hoverAnchor}
    /\ ~booted => hoverAnchor = None
    /\ hoverAnchor # None => hoverAnchor = pointer \/ hoverAnchor \in gone
    /\ tip # None => tip = hoverAnchor \/ tip \in gone

FormIInv ==
    /\ modal \in Forms \cup {None}
    /\ proceeded \subseteq Forms
    /\ sent \subseteq Forms
    /\ \A f \in proceeded : f \in sent /\ modal # f

GuardIInv == CopyIInv /\ HoverIInv /\ FormIInv

LEMMA GuardInitial == StoreIInv /\ changes = 0 /\ GuardInit => GuardIInv
<1> SUFFICES ASSUME StoreIInv, changes = 0, GuardInit
             PROVE  GuardIInv
  OBVIOUS
<1>1. CopyIInv
  <2>1. Unlisted \in Stores
    BY DEF Unlisted, Stores, Lists, Severities
  <2>2. reads \in Seq(Stores) /\ reads # <<>> /\ reads[Len(reads)] = stored
    BY DEF GuardInit, StoreIInv
  <2>3. cache = Unlisted /\ booted \in BOOLEAN /\ orphaned \in BOOLEAN
    BY DEF GuardInit
  <2>4. notices \in Nat /\ notices <= changes
    BY DEF GuardInit
  <2>5. QED
    BY <2>1, <2>2, <2>3, <2>4, Zenon DEF CopyIInv
<1>2. HoverIInv
  BY DEF GuardInit, HoverIInv
<1>3. FormIInv
  BY DEF GuardInit, FormIInv
<1>4. QED
  BY <1>1, <1>2, <1>3 DEF GuardIInv

LEMMA CopyKeeps ==
    ASSUME StoreIInv, CopyIInv,
           StoreChangesHere \/ NoticeArrives \/ CacheLoaded \/ ExtensionReloads
    PROVE  StoreIInv' /\ CopyIInv' /\ UNCHANGED <<hoverVars, formVars>> /\ (booted => booted')
<1>1. CASE StoreChangesHere
  <2>1. StoreIInv' /\ changes' = changes + 1
    BY <1>1, StoreKeeps DEF StoreChangesHere
  <2>2. CopyIInv'
    BY <1>1, <2>1 DEF StoreChangesHere, ChangeHeard, CopyIInv, StoreIInv
  <2>3. QED
    BY <1>1, <2>1, <2>2 DEF StoreChangesHere
<1>2. CASE NoticeArrives
  <2>1. UNCHANGED <<stored, changes, booted, cache, orphaned, hoverVars, formVars>>
    BY <1>2 DEF NoticeArrives
  <2>2. StoreIInv'
    BY <2>1 DEF StoreIInv
  <2>3. /\ reads' \in Seq(Stores) /\ reads' # <<>>
        /\ reads'[Len(reads')] = stored
    BY <1>2, AppendProperties DEF NoticeArrives, CopyIInv, StoreIInv
  <2>4. notices' \in Nat /\ notices' <= changes'
    BY <1>2, <2>1 DEF NoticeArrives, CopyIInv, StoreIInv
  <2>5. CopyIInv'
    BY <2>1, <2>3, <2>4 DEF CopyIInv
  <2>6. QED
    BY <2>1, <2>2, <2>5
<1>3. CASE CacheLoaded
  <2>1. UNCHANGED <<stored, changes, notices, orphaned, hoverVars, formVars>>
    BY <1>3 DEF CacheLoaded
  <2>2. StoreIInv'
    BY <2>1 DEF StoreIInv
  <2>3. reads \in Seq(Stores) /\ reads # <<>>
    BY <1>3 DEF CacheLoaded, CopyIInv
  <2>4. /\ cache' = Head(reads) /\ cache' \in Stores
        /\ reads' = Tail(reads) /\ reads' \in Seq(Stores) /\ Len(reads') = Len(reads) - 1
        /\ booted'
    BY <1>3, <2>3, HeadTailProperties DEF CacheLoaded
  <2>5. ASSUME ~orphaned', notices' = 0
        PROVE  IF reads' = <<>> THEN booted' /\ cache' = stored' ELSE reads'[Len(reads')] = stored'
    <3>1. reads[Len(reads)] = stored
      BY <2>1, <2>3, <2>5 DEF CopyIInv
    <3>2. CASE reads' = <<>>
      <4>1. Len(reads) = 1
        BY <2>3, <2>4, <3>2, EmptySeq, LenProperties
      <4>2. QED
        BY <2>1, <2>3, <2>4, <3>1, <3>2, <4>1
    <3>3. CASE reads' # <<>>
      <4>1. Len(reads') \in Nat \ {0}
        BY <2>4, <3>3, EmptySeq
      <4>2. reads'[Len(reads')] = reads[Len(reads') + 1]
        BY <2>3, <2>4, <4>1, HeadTailProperties
      <4>3. Len(reads') + 1 = Len(reads)
        BY <2>3, <2>4, LenProperties
      <4>4. QED
        BY <2>1, <3>1, <3>3, <4>2, <4>3
    <3>4. QED
      BY <3>2, <3>3
  <2>6. CopyIInv'
    BY <1>3, <2>1, <2>4, <2>5 DEF CopyIInv, CacheLoaded
  <2>7. QED
    BY <2>1, <2>2, <2>4, <2>6
<1>4. CASE ExtensionReloads
  <2>1. StoreIInv'
    BY <1>4 DEF ExtensionReloads, StoreIInv
  <2>2. CopyIInv'
    BY <1>4 DEF ExtensionReloads, CopyIInv, StoreIInv
  <2>3. QED
    BY <1>4, <2>1, <2>2 DEF ExtensionReloads
<1>5. QED
  BY <1>1, <1>2, <1>3, <1>4

LEMMA HoverKeeps ==
    ASSUME HoverIInv,
           \/ \E a \in Anchors : PointerEnters(a) \/ LinkRemoved(a)
           \/ PointerLeaves \/ HoverTimerFires \/ Scroll
    PROVE  HoverIInv' /\ UNCHANGED <<storeVars, cacheVars, formVars>>
<1> USE PageAssumption DEF HoverIInv
<1>1. ASSUME NEW a \in Anchors, PointerEnters(a)
      PROVE  HoverIInv' /\ UNCHANGED <<storeVars, cacheVars, formVars>>
  BY <1>1 DEF PointerEnters, cacheVars
<1>2. ASSUME NEW a \in Anchors, LinkRemoved(a)
      PROVE  HoverIInv' /\ UNCHANGED <<storeVars, cacheVars, formVars>>
  BY <1>2 DEF LinkRemoved, cacheVars
<1>3. CASE PointerLeaves
  BY <1>3 DEF PointerLeaves, cacheVars
<1>4. CASE HoverTimerFires
  BY <1>4 DEF HoverTimerFires, cacheVars
<1>5. CASE Scroll
  BY <1>5 DEF Scroll, cacheVars
<1>6. QED
  BY <1>1, <1>2, <1>3, <1>4, <1>5

LEMMA FormKeeps ==
    ASSUME FormIInv, Proceed \/ CancelSubmit \/ \E f \in Forms : Submit(f)
    PROVE  FormIInv' /\ UNCHANGED <<storeVars, cacheVars, hoverVars>>
<1> USE PageAssumption DEF FormIInv
<1>1. ASSUME NEW f \in Forms, Submit(f)
      PROVE  FormIInv' /\ UNCHANGED <<storeVars, cacheVars, hoverVars>>
  <2>1. CASE HeldBack(f, proceeded)
    <3>1. f \notin proceeded
      BY <2>1 DEF HeldBack
    <3>2. QED
      BY <1>1, <2>1, <3>1 DEF Submit
  <2>2. CASE ~HeldBack(f, proceeded)
    BY <1>1, <2>2 DEF Submit
  <2>3. QED
    BY <2>1, <2>2
<1>2. CASE Proceed
  <2>1. proceeded' = proceeded \cup {modal} /\ modal # None
    BY <1>2 DEF Proceed
  <2>2. ~HeldBack(modal, proceeded')
    BY <2>1 DEF HeldBack
  <2>3. modal' = None /\ sent' = sent \cup {modal}
    BY <1>2, <2>2 DEF Proceed
  <2>4. QED
    BY <1>2, <2>1, <2>3 DEF Proceed
<1>3. CASE CancelSubmit
  BY <1>3 DEF CancelSubmit
<1>4. QED
  BY <1>1, <1>2, <1>3

LEMMA GuardInductive ==
    ASSUME StoreIInv, GuardIInv, GuardNext
    PROVE  StoreIInv' /\ GuardIInv'
<1>0. CopyIInv /\ HoverIInv /\ FormIInv
  BY DEF GuardIInv
<1>1. CASE StoreChangesHere \/ NoticeArrives \/ CacheLoaded \/ ExtensionReloads
  <2>1. StoreIInv' /\ CopyIInv' /\ UNCHANGED <<hoverVars, formVars>> /\ (booted => booted')
    BY <1>0, <1>1, CopyKeeps
  <2>2. HoverIInv'
    BY <1>0, <2>1 DEF HoverIInv, hoverVars
  <2>3. FormIInv'
    BY <1>0, <2>1 DEF FormIInv, formVars
  <2>4. QED
    BY <2>1, <2>2, <2>3 DEF GuardIInv
<1>2. CASE \/ \E a \in Anchors : PointerEnters(a) \/ LinkRemoved(a)
           \/ PointerLeaves \/ HoverTimerFires \/ Scroll
  <2>1. HoverIInv' /\ UNCHANGED <<storeVars, cacheVars, formVars>>
    BY <1>0, <1>2, HoverKeeps
  <2>2. StoreIInv' /\ CopyIInv' /\ FormIInv'
    BY <1>0, <2>1 DEF StoreIInv, CopyIInv, FormIInv, storeVars, cacheVars, formVars
  <2>3. QED
    BY <2>1, <2>2 DEF GuardIInv
<1>3. CASE Proceed \/ CancelSubmit \/ \E f \in Forms : Submit(f)
  <2>1. FormIInv' /\ UNCHANGED <<storeVars, cacheVars, hoverVars>>
    BY <1>0, <1>3, FormKeeps
  <2>2. StoreIInv' /\ CopyIInv' /\ HoverIInv'
    BY <1>0, <2>1 DEF StoreIInv, CopyIInv, HoverIInv, storeVars, cacheVars, hoverVars
  <2>3. QED
    BY <2>1, <2>2 DEF GuardIInv
<1>4. QED
  BY <1>1, <1>2, <1>3 DEF GuardNext

\* A caught-up script decides with the store as it is.
LEMMA CaughtUpSees == GuardIInv /\ CaughtUp => cache = stored
BY DEF GuardIInv, CopyIInv, CaughtUp

LEMMA GuardAsks ==
    ASSUME GuardIInv, GuardNext, CaughtUp, Alarming(Assess(Here, stored.list)),
           NEW f \in Sensitive, f \in sent', f \notin sent
    PROVE  f \in proceeded'
<1>0. CopyIInv /\ HoverIInv /\ FormIInv /\ cache = stored /\ booted
  BY CaughtUpSees DEF GuardIInv, CaughtUp
<1>1. ASSUME NEW g \in Forms, Submit(g)
      PROVE  f \in proceeded'
  <2>1. ~HeldBack(g, proceeded) /\ g = f /\ proceeded' = proceeded
    BY <1>1 DEF Submit
  <2>2. QED
    BY <1>0, <2>1 DEF HeldBack
<1>2. CASE Proceed
  BY <1>2 DEF Proceed
<1>3. CASE UNCHANGED sent
  BY <1>3
<1>4. CASE StoreChangesHere \/ NoticeArrives \/ CacheLoaded \/ ExtensionReloads
  BY <1>3, <1>4 DEF StoreChangesHere, NoticeArrives, CacheLoaded, ExtensionReloads, formVars
<1>5. CASE \/ \E a \in Anchors : PointerEnters(a) \/ LinkRemoved(a)
           \/ PointerLeaves \/ HoverTimerFires \/ Scroll \/ CancelSubmit
  BY <1>3, <1>5 DEF PointerEnters, LinkRemoved, PointerLeaves, HoverTimerFires, Scroll,
     CancelSubmit, formVars
<1>6. QED
  BY <1>1, <1>2, <1>4, <1>5 DEF GuardNext

------------------------------------------------------------------------------
(* The side panel *)

Runs == [id : 1 .. MaxRuns, step : RunSteps, value : Values]

\* Notices and writes are targets that were chosen.
PanelTypes ==
    /\ activeTab \in Values
    /\ pending \in [value : Values, recent : BOOLEAN]
    /\ pending.recent => pending.value \in Hosts
    /\ writes \in Seq(Hosts)
    /\ targetNotices \in Nat
    /\ targets \in 0 .. MaxTargets
    /\ targetNotices + Len(writes) <= targets
    /\ panelOpen \in BOOLEAN
    /\ runs \subseteq Runs
    /\ \A r, q \in runs : r.id = q.id => r = q
    /\ currentValue \in Values
    /\ verdict \in [of : Values, by : {"none", "gateway", "local"}]
    /\ overlapped \in BOOLEAN
    /\ ~panelOpen => runs = {} /\ targetNotices = 0

\* While analyses do not overlap there is one at most; past the tab it is about the
\* value shown, and one that went on to the tab has no newer target, unless a
\* notice of it is on its way.
PanelIInv ==
    /\ PanelTypes
    /\ verdict.by = "local" => verdict.of = currentValue
    /\ ~overlapped =>
         /\ \A r, q \in runs : r = q
         /\ runs = {} => verdict.of = currentValue
         /\ \A r \in runs : r.step \in {"check", "local"} => r.value = currentValue
         /\ panelOpen /\ targetNotices = 0 /\ pending.recent =>
              /\ \A r \in runs : r.step # "tab"
              /\ (\A r \in runs : r.step # "pending") => currentValue = pending.value

LEMMA PanelInitial == PanelInit => PanelIInv
<1> SUFFICES ASSUME PanelInit
             PROVE  PanelIInv
  OBVIOUS
<1>1. writes \in Seq(Hosts) /\ Len(writes) = 0
  BY DEF PanelInit
<1>2. verdict \in [of : Values, by : {"none", "gateway", "local"}] /\ verdict.by = "none"
      /\ verdict.of = None
  BY DEF PanelInit, Blank, Values
<1>3. pending \in [value : Values, recent : BOOLEAN] /\ ~pending.recent
  BY DEF PanelInit, Values
<1>4. /\ activeTab \in Values /\ targetNotices = 0 /\ targets = 0 /\ panelOpen = FALSE
      /\ runs = {} /\ currentValue = None /\ overlapped = FALSE
  BY DEF PanelInit
<1>5. targets \in 0 .. MaxTargets /\ targetNotices \in Nat
      /\ targetNotices + Len(writes) <= targets
  BY <1>1, <1>4, PanelAssumption
<1>6. currentValue \in Values
  BY <1>4 DEF Values
<1>7. PanelTypes
  BY <1>1, <1>2, <1>3, <1>4, <1>5, <1>6 DEF PanelTypes
<1>8. QED
  BY <1>2, <1>4, <1>7 DEF PanelIInv

\* A step of one analysis leaves its id and keeps the others.
LEMMA GoesKeeps ==
    ASSUME PanelIInv, NEW r \in runs, NEW step \in RunSteps, NEW value \in Values,
           Goes(r, step, value)
    PROVE  /\ runs' \subseteq Runs
           /\ \A p, q \in runs' : p.id = q.id => p = q
           /\ ~overlapped => \A p \in runs' : p.step = step /\ p.value = value
           /\ ~overlapped => \A p, q \in runs' : p = q
           /\ runs' # {}
<1> DEFINE s == [r EXCEPT !.step = step, !.value = value]
<1>1. r \in Runs /\ runs \subseteq Runs
  BY DEF PanelIInv, PanelTypes
<1>2. s \in Runs /\ s.id = r.id /\ s.step = step /\ s.value = value
  BY <1>1 DEF Runs
<1>3. runs' = (runs \ {r}) \cup {s}
  BY DEF Goes
<1> HIDE DEF s
<1>4. runs' \subseteq Runs /\ runs' # {}
  BY <1>1, <1>2, <1>3
<1>5. \A p, q \in runs' : p.id = q.id => p = q
  BY <1>2, <1>3 DEF PanelIInv, PanelTypes
<1>6. ~overlapped => runs' = {s}
  BY <1>3 DEF PanelIInv, PanelTypes
<1>7. QED
  BY <1>2, <1>4, <1>5, <1>6

LEMMA AnalyzeKeeps ==
    ASSUME PanelIInv, Analyze
    PROVE  /\ runs' \subseteq Runs
           /\ \A p, q \in runs' : p.id = q.id => p = q
           /\ overlapped' \in BOOLEAN
           /\ ~overlapped' => ~overlapped /\ \A p \in runs' : p.step = "pending"
           /\ ~overlapped' => \A p, q \in runs' : p = q
           /\ runs' # {}
<1>1. PICK i \in 1 .. MaxRuns :
        /\ \A r \in runs : r.id # i
        /\ runs' = runs \cup {[id |-> i, step |-> "pending", value |-> None]}
  BY DEF Analyze
<1> DEFINE s == [id |-> i, step |-> "pending", value |-> None]
<1>2. s \in Runs /\ s.id = i /\ s.step = "pending"
  BY DEF Runs, RunSteps, Values
<1> HIDE DEF s
<1>3. runs' = runs \cup {s}
  BY <1>1 DEF s
<1>4. runs \subseteq Runs /\ \A p, q \in runs : p.id = q.id => p = q
  BY DEF PanelIInv, PanelTypes
<1>5. \A p, q \in runs' : p.id = q.id => p = q
  BY <1>1, <1>2, <1>3, <1>4
<1>6. overlapped' = (overlapped \/ runs # {}) /\ overlapped \in BOOLEAN
  BY DEF Analyze, PanelIInv, PanelTypes
<1>7. ~overlapped' => ~overlapped /\ runs' = {s}
  BY <1>3, <1>6
<1>8. QED
  BY <1>2, <1>3, <1>4, <1>5, <1>6, <1>7

\* Nothing but the analyses changes.
KeptVars == <<activeTab, pending, writes, targetNotices, panelOpen, targets>>

LEMMA ShowKeeps ==
    ASSUME PanelIInv, NEW r \in runs, NEW value \in Values, Show(r, value),
           UNCHANGED KeptVars, UNCHANGED overlapped,
           panelOpen /\ targetNotices = 0 /\ pending.recent /\ ~overlapped => value = pending.value
    PROVE  PanelIInv'
<1>1. currentValue' = value /\ verdict' = Blank
  BY DEF Show
<1>2. verdict' \in [of : Values, by : {"none", "gateway", "local"}] /\ verdict'.by = "none"
      /\ verdict'.of = None
  BY <1>1 DEF Blank, Values
<1>3. runs \subseteq Runs /\ runs # {} /\ panelOpen
  BY DEF PanelIInv, PanelTypes
<1>4. UNCHANGED <<activeTab, pending, writes, targetNotices, panelOpen, targets, overlapped>>
  BY DEF KeptVars
<1>5. CASE value = None
  <2>1. runs' = runs \ {r}
    BY <1>5 DEF Show
  <2>2. PanelTypes'
    BY <1>1, <1>2, <1>3, <1>4, <2>1 DEF PanelIInv, PanelTypes
  <2>3. ~overlapped => runs' = {}
    BY <2>1 DEF PanelIInv
  <2>4. QED
    BY <1>1, <1>2, <1>4, <1>5, <2>2, <2>3 DEF PanelIInv
<1>6. CASE value # None
  <2>1. Goes(r, "check", value)
    BY <1>6 DEF Show
  <2>2. /\ runs' \subseteq Runs
        /\ \A p, q \in runs' : p.id = q.id => p = q
        /\ ~overlapped => \A p \in runs' : p.step = "check" /\ p.value = value
        /\ ~overlapped => \A p, q \in runs' : p = q
        /\ runs' # {}
    BY <2>1, GoesKeeps DEF RunSteps
  <2>3. PanelTypes'
    BY <1>1, <1>2, <1>3, <1>4, <2>2 DEF PanelIInv, PanelTypes
  <2>4. QED
    BY <1>1, <1>2, <1>4, <2>2, <2>3 DEF PanelIInv
<1>7. QED
  BY <1>5, <1>6

LEMMA AnswersKeep ==
    ASSUME PanelIInv, NEW r \in runs, PanelAnswers(r)
    PROVE  PanelIInv' /\ UNCHANGED storeVars
<1>1. /\ UNCHANGED storeVars /\ UNCHANGED KeptVars /\ UNCHANGED overlapped
  BY DEF PanelAnswers, PendingAnswers, TabAnswers, GatewayJudges, GatewayFails, LocalJudges, Kept,
     KeptVars
<1>2. r \in Runs /\ runs \subseteq Runs /\ panelOpen
  BY DEF PanelIInv, PanelTypes
<1>3. UNCHANGED <<activeTab, pending, writes, targetNotices, panelOpen, targets, overlapped>>
  BY <1>1 DEF KeptVars
<1>4. CASE PendingAnswers(r)
  <2>1. CASE pending.recent
    <3>1. pending.value \in Values /\ Show(r, pending.value)
      BY <1>4, <2>1 DEF PendingAnswers, PanelIInv, PanelTypes, Values
    <3>2. QED
      BY <1>1, <3>1, ShowKeeps
  <2>2. CASE ~pending.recent
    <3>1. Goes(r, "tab", None) /\ UNCHANGED <<currentValue, verdict>> /\ None \in Values
      BY <1>4, <2>2 DEF PendingAnswers, Values
    <3>2. /\ runs' \subseteq Runs
          /\ \A p, q \in runs' : p.id = q.id => p = q
          /\ ~overlapped => \A p \in runs' : p.step = "tab" /\ p.value = None
          /\ ~overlapped => \A p, q \in runs' : p = q
          /\ runs' # {}
      BY <3>1, GoesKeeps DEF RunSteps
    <3>3. PanelTypes'
      BY <1>2, <1>3, <3>1, <3>2 DEF PanelIInv, PanelTypes
    <3>4. QED
      BY <1>1, <1>3, <2>2, <3>1, <3>2, <3>3 DEF PanelIInv
  <2>3. QED
    BY <2>1, <2>2
<1>5. CASE TabAnswers(r)
  <2>1. Show(r, activeTab) /\ activeTab \in Values /\ r.step = "tab"
    BY <1>5 DEF TabAnswers, PanelIInv, PanelTypes
  <2>2. ~(panelOpen /\ targetNotices = 0 /\ pending.recent /\ ~overlapped)
    BY <2>1 DEF PanelIInv
  <2>3. QED
    BY <1>1, <2>1, <2>2, ShowKeeps
<1>6. CASE GatewayJudges(r) \/ LocalJudges(r)
  <2>1. runs' = runs \ {r} /\ currentValue' = currentValue /\ r.step \in {"check", "local"}
    BY <1>6 DEF GatewayJudges, LocalJudges
  <2>2. /\ verdict' \in [of : Values, by : {"none", "gateway", "local"}]
        /\ verdict'.by = "local" => verdict'.of = currentValue
        /\ verdict'.of \in {r.value, currentValue}
    BY <1>2, <1>6 DEF GatewayJudges, LocalJudges, PanelIInv, PanelTypes, Runs
  <2>3. PanelTypes'
    BY <1>2, <1>3, <2>1, <2>2 DEF PanelIInv, PanelTypes
  <2>4. ~overlapped => runs' = {} /\ r.value = currentValue
    BY <2>1 DEF PanelIInv
  <2>5. ~overlapped => \A p \in runs : p.step # "pending"
    BY <2>1 DEF PanelIInv
  <2>6. QED
    BY <1>1, <1>3, <2>1, <2>2, <2>3, <2>4, <2>5 DEF PanelIInv
<1>7. CASE GatewayFails(r)
  <2>1. Goes(r, "local", r.value) /\ UNCHANGED <<currentValue, verdict>> /\ r.step = "check"
        /\ r.value \in Values
    BY <1>2, <1>7 DEF GatewayFails, Runs
  <2>2. /\ runs' \subseteq Runs
        /\ \A p, q \in runs' : p.id = q.id => p = q
        /\ ~overlapped => \A p \in runs' : p.step = "local" /\ p.value = r.value
        /\ ~overlapped => \A p, q \in runs' : p = q
        /\ runs' # {}
    BY <2>1, GoesKeeps DEF RunSteps
  <2>3. PanelTypes'
    BY <1>2, <1>3, <2>1, <2>2 DEF PanelIInv, PanelTypes
  <2>4. ~overlapped => r.value = currentValue /\ \A p \in runs : p.step # "pending"
    BY <2>1 DEF PanelIInv
  <2>5. QED
    BY <1>1, <1>3, <2>1, <2>2, <2>3, <2>4 DEF PanelIInv
<1>8. QED
  BY <1>4, <1>5, <1>6, <1>7 DEF PanelAnswers

\* An analysis starts on an open panel; the target it will read may have changed.
LEMMA AnalyzeOpens ==
    ASSUME PanelIInv, Analyze, panelOpen',
           pending' = pending, activeTab' = activeTab,
           writes' \in Seq(Hosts), targetNotices' \in Nat, targets' \in 0 .. MaxTargets,
           targetNotices' + Len(writes') <= targets'
    PROVE  PanelIInv'
<1>1. /\ runs' \subseteq Runs
      /\ \A p, q \in runs' : p.id = q.id => p = q
      /\ overlapped' \in BOOLEAN
      /\ ~overlapped' => ~overlapped /\ \A p \in runs' : p.step = "pending"
      /\ ~overlapped' => \A p, q \in runs' : p = q
      /\ runs' # {}
  BY AnalyzeKeeps
<1>2. UNCHANGED <<currentValue, verdict>>
  BY DEF Analyze
<1>3. PanelTypes'
  BY <1>1, <1>2 DEF PanelIInv, PanelTypes
<1>4. verdict'.by = "local" => verdict'.of = currentValue'
  BY <1>2 DEF PanelIInv
<1>5. QED
  BY <1>1, <1>3, <1>4 DEF PanelIInv

LEMMA PanelInductive ==
    ASSUME StoreIInv, PanelIInv, PanelNext
    PROVE  StoreIInv' /\ PanelIInv'
<1> USE PanelAssumption
<1>1. CASE Recheck
  <2>1. Analyze /\ panelOpen' /\ UNCHANGED Kept
    BY <1>1 DEF Recheck, Kept
  <2>2. PanelIInv'
    BY <2>1, AnalyzeOpens DEF PanelIInv, PanelTypes, Kept
  <2>3. QED
    BY <2>1, <2>2 DEF Kept, StoreIInv, storeVars
<1>2. CASE OpenPanel
  <2>1. Analyze /\ panelOpen'
    BY <1>2 DEF OpenPanel
  <2>2. UNCHANGED <<storeVars, activeTab, pending, writes, targetNotices, targets>>
    BY <1>2 DEF OpenPanel
  <2>3. PanelIInv'
    BY <2>1, <2>2, AnalyzeOpens DEF PanelIInv, PanelTypes
  <2>4. QED
    BY <2>2, <2>3 DEF StoreIInv, storeVars
<1>3. CASE TargetNoticed
  <2>1. Analyze
    BY <1>3 DEF TargetNoticed
  <2>2. UNCHANGED <<storeVars, activeTab, pending, writes, panelOpen, targets>>
    BY <1>3 DEF TargetNoticed
  <2>3. panelOpen /\ targetNotices \in Nat /\ targetNotices > 0 /\ targetNotices' = targetNotices - 1
    BY <1>3 DEF TargetNoticed, PanelIInv, PanelTypes
  <2>4. Len(writes) \in Nat /\ targetNotices + Len(writes) <= targets /\ targets \in 0 .. MaxTargets
        /\ writes \in Seq(Hosts)
    BY LenProperties DEF PanelIInv, PanelTypes
  <2>5. targetNotices' \in Nat /\ targetNotices' + Len(writes') <= targets'
    BY <2>2, <2>3, <2>4
  <2>6. PanelIInv'
    BY <2>1, <2>2, <2>3, <2>4, <2>5, AnalyzeOpens
  <2>7. QED
    BY <2>2, <2>6 DEF StoreIInv, storeVars
<1>4. ASSUME NEW v \in Hosts, OpenDetailFor(v)
      PROVE  StoreIInv' /\ PanelIInv'
  <2>1. UNCHANGED <<storeVars, activeTab, pending, targetNotices>>
        /\ targets' = targets + 1 /\ targets < MaxTargets
        /\ writes' = Append(writes, v) /\ panelOpen'
    BY <1>4 DEF OpenDetailFor
  <2>2. Len(writes) \in Nat /\ targetNotices + Len(writes) <= targets /\ targets \in 0 .. MaxTargets
        /\ writes \in Seq(Hosts) /\ targetNotices \in Nat
    BY LenProperties DEF PanelIInv, PanelTypes
  <2>3. writes' \in Seq(Hosts) /\ Len(writes') = Len(writes) + 1
    BY <2>1, <2>2, AppendProperties
  <2>4. targets' \in 0 .. MaxTargets /\ targetNotices' + Len(writes') <= targets'
    BY <2>1, <2>2, <2>3
  <2>5. CASE ~panelOpen
    <3>1. Analyze
      BY <1>4, <2>5 DEF OpenDetailFor
    <3>2. PanelIInv'
      BY <2>1, <2>2, <2>3, <2>4, <3>1, AnalyzeOpens
    <3>3. QED
      BY <2>1, <3>2 DEF StoreIInv, storeVars
  <2>6. CASE panelOpen
    <3>1. UNCHANGED <<runs, overlapped, currentValue, verdict>> /\ panelOpen' = TRUE
      BY <1>4, <2>6 DEF OpenDetailFor
    <3>2. PanelTypes'
      BY <2>1, <2>2, <2>3, <2>4, <3>1 DEF PanelIInv, PanelTypes
    <3>3. PanelIInv'
      BY <2>1, <2>6, <3>1, <3>2 DEF PanelIInv
    <3>4. QED
      BY <2>1, <3>3 DEF StoreIInv, storeVars
  <2>7. QED
    BY <2>5, <2>6
<1>5. CASE TargetStored
  <2>1. UNCHANGED <<storeVars, activeTab, panelOpen, runs, currentValue, verdict, overlapped, targets>>
    BY <1>5 DEF TargetStored
  <2>2. writes \in Seq(Hosts) /\ writes # <<>> /\ targetNotices \in Nat
        /\ targetNotices + Len(writes) <= targets
    BY <1>5 DEF TargetStored, PanelIInv, PanelTypes
  <2>3. /\ Head(writes) \in Hosts /\ writes' = Tail(writes) /\ writes' \in Seq(Hosts)
        /\ Len(writes') = Len(writes) - 1 /\ Len(writes) \in Nat
    BY <1>5, <2>2, HeadTailProperties, LenProperties DEF TargetStored
  <2>4. targetNotices' = (IF panelOpen THEN targetNotices + 1 ELSE targetNotices)
        /\ pending' = [value |-> Head(writes), recent |-> TRUE]
    BY <1>5 DEF TargetStored
  <2>5. targetNotices' \in Nat /\ targetNotices' + Len(writes') <= targets'
    BY <2>1, <2>2, <2>3, <2>4 DEF PanelIInv, PanelTypes
  <2>6. pending' \in [value : Values, recent : BOOLEAN] /\ pending'.value \in Hosts
    BY <2>3, <2>4 DEF Values
  <2>7. ~panelOpen' => runs' = {} /\ targetNotices' = 0
    BY <2>1, <2>4 DEF PanelIInv, PanelTypes
  <2>8. PanelTypes'
    BY <2>1, <2>3, <2>5, <2>6, <2>7 DEF PanelIInv, PanelTypes
  <2>9. panelOpen' => targetNotices' # 0
    BY <2>1, <2>2, <2>4
  <2>10. PanelIInv'
    BY <2>1, <2>8, <2>9 DEF PanelIInv
  <2>11. QED
    BY <2>1, <2>10 DEF StoreIInv, storeVars
<1>6. CASE TargetAges
  <2>1. UNCHANGED <<storeVars, activeTab, writes, targetNotices, panelOpen, runs, currentValue,
                    verdict, overlapped, targets>>
    BY <1>6 DEF TargetAges
  <2>2. pending' \in [value : Values, recent : BOOLEAN] /\ ~pending'.recent
    BY <1>6 DEF TargetAges, PanelIInv, PanelTypes
  <2>3. PanelTypes'
    BY <2>1, <2>2 DEF PanelIInv, PanelTypes
  <2>4. PanelIInv'
    BY <2>1, <2>2, <2>3 DEF PanelIInv
  <2>5. QED
    BY <2>1, <2>4 DEF StoreIInv, storeVars
<1>7. ASSUME NEW v \in Values, TabChanges(v)
      PROVE  StoreIInv' /\ PanelIInv'
  BY <1>7 DEF TabChanges, PanelIInv, PanelTypes, StoreIInv, storeVars
<1>8. ASSUME NEW r \in runs, PanelAnswers(r)
      PROVE  StoreIInv' /\ PanelIInv'
  BY <1>8, AnswersKeep DEF StoreIInv, storeVars
<1>9. QED
  BY <1>1, <1>2, <1>3, <1>4, <1>5, <1>6, <1>7, <1>8 DEF PanelNext

------------------------------------------------------------------------------
(* The count of blocked visits *)

\* As long as nothing crossed, one count is under way at most, and what it stores
\* is the visits blocked today; at rest the stored count is.
CountIInv ==
    /\ day \in 0 .. MaxDays
    /\ stats \in Stats /\ stats.today <= stats.total
    /\ stats.date <= day
    /\ badge \in 0 .. MaxBlocks
    /\ counting \in [Pages -> Stats \cup {None}]
    /\ \A p \in Pages : counting[p] # None =>
         counting[p].today <= counting[p].total /\ counting[p].date <= day
    /\ blocks \in 0 .. MaxBlocks
    /\ crossedCounts \in BOOLEAN
    /\ ~crossedCounts =>
         /\ \A p, q \in Pages : counting[p] # None /\ counting[q] # None => p = q
         /\ \A p \in Pages : counting[p] # None =>
              counting[p].date = day /\ counting[p].today = blocks
         /\ (\A p \in Pages : counting[p] = None) =>
              IF stats.date = day THEN stats.today = blocks /\ badge = blocks ELSE blocks = 0

LEMMA CountInitial == PopupInit => CountIInv
<1> SUFFICES ASSUME PopupInit
             PROVE  CountIInv
  OBVIOUS
<1>1. 0 \in 0 .. MaxDays /\ 0 \in 0 .. MaxBlocks
  BY PopupAssumption
<1>2. NoStats \in Stats /\ NoStats.date = 0 /\ NoStats.today = 0 /\ NoStats.total = 0
  BY <1>1 DEF NoStats, Stats
<1>3. /\ day = 0 /\ stats = NoStats /\ badge = 0 /\ blocks = 0 /\ crossedCounts = FALSE
      /\ counting = [p \in Pages |-> None]
  BY DEF PopupInit
<1>4. counting \in [Pages -> Stats \cup {None}] /\ \A p \in Pages : counting[p] = None
  BY <1>3
<1>5. stats.today <= stats.total /\ stats.date <= day
  BY <1>2, <1>3
<1>6. QED
  BY <1>1, <1>2, <1>3, <1>4, <1>5 DEF CountIInv

LEMMA CountedType ==
    ASSUME CountIInv, stats.total < MaxBlocks
    PROVE  /\ Counted(stats) \in Stats /\ Counted(stats).today <= Counted(stats).total
           /\ Counted(stats).date = day
           /\ Counted(stats).today = (IF stats.date = day THEN stats.today ELSE 0) + 1
<1>1. /\ stats.today \in Nat /\ stats.total \in Nat /\ stats.today <= stats.total
      /\ day \in 0 .. MaxDays /\ MaxBlocks \in Nat
  BY PopupAssumption DEF CountIInv, Stats
<1>2. (IF stats.date = day THEN stats.today ELSE 0) + 1 \in 0 .. MaxBlocks
      /\ stats.total + 1 \in 0 .. MaxBlocks
      /\ (IF stats.date = day THEN stats.today ELSE 0) + 1 <= stats.total + 1
  BY <1>1
<1>3. QED
  BY <1>1, <1>2 DEF Counted, Stats

LEMMA VisitKeeps ==
    ASSUME CountIInv, NEW p \in Pages, VisitBlocked(p)
    PROVE  CountIInv'
<1> DEFINE c == Counted(stats)
<1>1. /\ c \in Stats /\ c.today <= c.total /\ c.date = day
      /\ c.today = (IF stats.date = day THEN stats.today ELSE 0) + 1
  BY CountedType DEF VisitBlocked
<1>2. c # None
  BY <1>1, PopupAssumption DEF Stats
<1> HIDE DEF c
<1>3. counting' = [counting EXCEPT ![p] = c] /\ UNCHANGED <<day, stats, badge>>
      /\ blocks' = blocks + 1 /\ blocks' \in 0 .. MaxBlocks
      /\ crossedCounts' = (crossedCounts \/ \E q \in Pages : counting[q] # None)
  BY PopupAssumption DEF VisitBlocked, c, CountIInv
<1>4. counting' \in [Pages -> Stats \cup {None}] /\ counting'[p] = c
      /\ \A q \in Pages : q # p => counting'[q] = counting[q]
  BY <1>1, <1>3 DEF CountIInv
<1>5. \A q \in Pages : counting'[q] # None =>
        counting'[q].today <= counting'[q].total /\ counting'[q].date <= day
  BY <1>1, <1>4 DEF CountIInv
<1>6. ASSUME ~crossedCounts'
      PROVE  /\ \A q \in Pages : counting'[q] # None => q = p
             /\ c.today = blocks'
  BY <1>1, <1>3, <1>4, <1>6 DEF CountIInv
<1>7. QED
  BY <1>1, <1>2, <1>3, <1>4, <1>5, <1>6 DEF CountIInv

LEMMA StoreCountKeeps ==
    ASSUME CountIInv, NEW p \in Pages, CountStored(p)
    PROVE  CountIInv'
<1>1. /\ counting[p] \in Stats /\ counting[p].today <= counting[p].total
      /\ counting[p].date <= day /\ counting[p].today \in 0 .. MaxBlocks
  BY DEF CountStored, CountIInv, Stats
<1>2. stats' = counting[p] /\ badge' = counting[p].today
      /\ counting' = [counting EXCEPT ![p] = None] /\ UNCHANGED <<day, blocks, crossedCounts>>
  BY DEF CountStored
<1>3. counting' \in [Pages -> Stats \cup {None}] /\ counting'[p] = None
      /\ \A q \in Pages : q # p => counting'[q] = counting[q]
  BY <1>2 DEF CountIInv
<1>4. ~crossedCounts => counting[p].date = day /\ counting[p].today = blocks
  BY DEF CountStored, CountIInv
<1>5. QED
  BY <1>1, <1>2, <1>3, <1>4 DEF CountIInv

LEMMA CountKeeps ==
    ASSUME CountIInv, Midnight \/ BadgeRefreshed \/ \E p \in Pages : VisitBlocked(p) \/ CountStored(p)
    PROVE  CountIInv' /\ UNCHANGED <<storeVars, viewVars>>
<1>1. CASE Midnight
  <2>1. day' \in 0 .. MaxDays /\ day' = day + 1 /\ stats.date \in Nat /\ blocks' = 0
        /\ crossedCounts' = (\E p \in Pages : counting[p] # None)
        /\ UNCHANGED <<storeVars, viewVars, stats, badge, counting>>
    BY <1>1, PopupAssumption DEF Midnight, CountIInv, Stats
  <2>2. stats.date <= day' /\ stats.date # day'
    BY <2>1 DEF CountIInv
  <2>3. \A p \in Pages : counting[p] # None => counting[p].date <= day'
    BY <2>1 DEF CountIInv, Stats
  <2>4. blocks' \in 0 .. MaxBlocks
    BY <2>1, PopupAssumption
  <2>5. QED
    BY <2>1, <2>2, <2>3, <2>4 DEF CountIInv
<1>2. CASE BadgeRefreshed
  <2>1. badge' = (IF stats.date = day THEN stats.today ELSE 0) /\ badge' \in 0 .. MaxBlocks
        /\ UNCHANGED <<storeVars, viewVars, day, stats, counting, blocks, crossedCounts>>
    BY <1>2, PopupAssumption DEF BadgeRefreshed, CountIInv, Stats
  <2>2. QED
    BY <2>1 DEF CountIInv
<1>3. ASSUME NEW p \in Pages, VisitBlocked(p) \/ CountStored(p)
      PROVE  CountIInv' /\ UNCHANGED <<storeVars, viewVars>>
  BY <1>3, VisitKeeps, StoreCountKeeps DEF VisitBlocked, CountStored
<1>4. QED
  BY <1>1, <1>2, <1>3

------------------------------------------------------------------------------
(* What the popup shows *)

\* A button waits for one thing at a time, and the list shown is not older than
\* the last one the user synced, unless the sync button still waits.
ViewIInv ==
    /\ popupOpen \in BOOLEAN
    /\ seen \in 0 .. changes /\ synced \in 0 .. changes
    /\ shownToday \in 0 .. MaxBlocks
    /\ busy \subseteq Waits
    /\ \A w, u \in busy : w.button = u.button => w = u
    /\ popupOpen /\ ~Disabled("sync") => seen >= synced

LEMMA ViewInitial == changes = 0 /\ PopupInit => ViewIInv
<1> SUFFICES ASSUME changes = 0, PopupInit
             PROVE  ViewIInv
  OBVIOUS
<1>1. /\ popupOpen = FALSE /\ seen = 0 /\ shownToday = 0 /\ synced = 0 /\ busy = {}
  BY DEF PopupInit
<1>2. 0 \in 0 .. changes /\ 0 \in 0 .. MaxBlocks
  BY PopupAssumption
<1>3. QED
  BY <1>1, <1>2 DEF ViewIInv

LEMMA PressKeeps ==
    ASSUME ViewIInv, NEW button, NEW what, Wait(button, what) \in Waits, Press(button, what)
    PROVE  ViewIInv'
<1> DEFINE w == Wait(button, what)
<1>1. w \in Waits /\ w.button = button
  BY DEF Wait
<1>2. busy' = busy \cup {w} /\ UNCHANGED <<storeVars, popupOpen, seen, shownToday, synced>>
      /\ ~Disabled(button)
  BY DEF Press
<1> HIDE DEF w
<1>3. changes' = changes
  BY <1>2 DEF storeVars
<1>4. busy' \subseteq Waits /\ \A v, u \in busy' : v.button = u.button => v = u
  BY <1>1, <1>2 DEF ViewIInv, Disabled
<1>5. ~Disabled("sync")' => ~Disabled("sync")
  BY <1>2 DEF Disabled
<1>6. QED
  BY <1>2, <1>3, <1>4, <1>5 DEF ViewIInv

LEMMA AnsweredKeeps ==
    ASSUME ViewIInv, NEW button, NEW what, button # "sync", Answered(button, what)
    PROVE  ViewIInv'
<1> DEFINE w == Wait(button, what)
<1>1. w.button = button
  BY DEF Wait
<1>2. busy' = busy \ {w} /\ UNCHANGED <<storeVars, popupOpen, seen, shownToday, synced>>
  BY DEF Answered
<1> HIDE DEF w
<1>3. changes' = changes
  BY <1>2 DEF storeVars
<1>4. busy' \subseteq Waits /\ \A v, u \in busy' : v.button = u.button => v = u
  BY <1>2 DEF ViewIInv
<1>5. ~Disabled("sync")' => ~Disabled("sync")
  BY <1>1, <1>2 DEF Disabled
<1>6. QED
  BY <1>2, <1>3, <1>4, <1>5 DEF ViewIInv

\* The sync button goes on waiting, for what comes next.
LEMMA MovesKeeps ==
    ASSUME ViewIInv, NEW from, NEW to, Wait("sync", from) \in busy, Wait("sync", to) \in Waits,
           Moves(from, to)
    PROVE  /\ busy' \subseteq Waits
           /\ \A v, u \in busy' : v.button = u.button => v = u
           /\ Disabled("sync")'
<1> DEFINE w == Wait("sync", from)
           n == Wait("sync", to)
<1>1. w.button = "sync" /\ n.button = "sync" /\ w \in busy /\ n \in Waits
  BY DEF Wait
<1>2. busy' = (busy \ {w}) \cup {n}
  BY DEF Moves
<1> HIDE DEF w, n
<1>3. \A v \in busy : v.button = "sync" => v = w
  BY <1>1 DEF ViewIInv
<1>4. QED
  BY <1>1, <1>2, <1>3 DEF ViewIInv, Disabled

LEMMA ViewKeeps ==
    ASSUME StoreIInv, CountIInv, ViewIInv,
           \/ OpenPopup \/ ClosePopup \/ Inspect \/ Report \/ Sync
           \/ PopupAnswers \/ BackgroundSyncs
    PROVE  StoreIInv' /\ ViewIInv' /\ UNCHANGED countVars
<1>0. changes \in Nat /\ stats.today \in 0 .. MaxBlocks
  BY HostAssumption DEF StoreIInv, CountIInv, Stats
<1>1. CASE OpenPopup
  <2>1. /\ popupOpen' = TRUE /\ seen' = changes /\ shownToday' = stats.today
        /\ changes' = changes /\ stored' = stored /\ UNCHANGED <<countVars, busy, synced>>
    BY <1>1 DEF OpenPopup, storeVars
  <2>2. QED
    BY <1>0, <2>1 DEF ViewIInv, StoreIInv
<1>2. CASE ClosePopup
  <2>1. /\ popupOpen' = FALSE /\ seen' = 0 /\ shownToday' = 0 /\ synced' = 0 /\ busy' = {}
        /\ changes' = changes /\ stored' = stored /\ UNCHANGED countVars
    BY <1>2 DEF ClosePopup, storeVars
  <2>2. seen' \in 0 .. changes' /\ synced' \in 0 .. changes' /\ shownToday' \in 0 .. MaxBlocks
    BY <1>0, <2>1, PopupAssumption
  <2>3. QED
    BY <2>1, <2>2 DEF ViewIInv, StoreIInv
<1>3. CASE Inspect
  <2>1. Wait("inspect", "check") \in Waits /\ Press("inspect", "check")
    BY <1>3 DEF Inspect, Wait, Waits
  <2>2. QED
    BY <2>1, PressKeeps DEF Press, StoreIInv, storeVars
<1>4. CASE Report
  <2>1. Wait("report", "report") \in Waits /\ Press("report", "report")
    BY <1>4 DEF Report, Wait, Waits
  <2>2. QED
    BY <2>1, PressKeeps DEF Press, StoreIInv, storeVars
<1>5. CASE Sync
  <2>1. Wait("sync", "sync") \in Waits /\ Press("sync", "sync")
    BY <1>5 DEF Sync, Wait, Waits
  <2>2. QED
    BY <2>1, PressKeeps DEF Press, StoreIInv, storeVars
<1>6. CASE InspectAnswered
  <2>1. ViewIInv'
    BY <1>6, AnsweredKeeps DEF InspectAnswered
  <2>2. QED
    BY <1>6, <2>1 DEF InspectAnswered, Answered, StoreIInv, storeVars
<1>7. CASE ReportAnswered
  <2>1. ViewIInv'
    BY <1>7, AnsweredKeeps DEF ReportAnswered
  <2>2. QED
    BY <1>7, <2>1 DEF ReportAnswered, Answered, StoreIInv, storeVars
<1>8. CASE SyncAnswers
  <2>1. Wait("sync", "sync") \in busy /\ Wait("sync", "status") \in Waits
        /\ Moves("sync", "status") /\ UNCHANGED <<countVars, popupOpen, seen, shownToday>>
    BY <1>8 DEF SyncAnswers, Wait, Waits
  <2>2. /\ busy' \subseteq Waits
        /\ \A v, u \in busy' : v.button = u.button => v = u
        /\ Disabled("sync")'
    BY <2>1, MovesKeeps
  <2>3. CASE ListChanges /\ synced' = changes'
    <3>1. StoreIInv' /\ changes' = changes + 1
      BY <2>3, StoreKeeps
    <3>2. seen' \in 0 .. changes' /\ synced' \in 0 .. changes'
      BY <1>0, <2>1, <2>3, <3>1 DEF ViewIInv
    <3>3. QED
      BY <2>1, <2>2, <3>1, <3>2 DEF ViewIInv
  <2>4. CASE UNCHANGED <<storeVars, synced>>
    BY <2>1, <2>2, <2>4 DEF ViewIInv, StoreIInv, storeVars
  <2>5. QED
    BY <1>8, <2>3, <2>4 DEF SyncAnswers
<1>9. CASE StatusAnswers
  <2>1. Wait("sync", "status") \in busy /\ Wait("sync", "verdict") \in Waits
        /\ Moves("status", "verdict") /\ shownToday' \in {stats.today, shownToday}
        /\ UNCHANGED <<storeVars, countVars, popupOpen, seen, synced>>
    BY <1>9 DEF StatusAnswers, Wait, Waits
  <2>2. /\ busy' \subseteq Waits
        /\ \A v, u \in busy' : v.button = u.button => v = u
        /\ Disabled("sync")'
    BY <2>1, MovesKeeps
  <2>3. QED
    BY <1>0, <2>1, <2>2 DEF ViewIInv, StoreIInv, storeVars
<1>10. CASE VerdictRead
  <2>1. busy' \subseteq busy /\ seen' = changes
        /\ UNCHANGED <<storeVars, countVars, popupOpen, shownToday, synced>>
    BY <1>10 DEF VerdictRead
  <2>2. changes' = changes /\ stored' = stored
    BY <2>1 DEF storeVars
  <2>3. busy' \subseteq Waits /\ \A v, u \in busy' : v.button = u.button => v = u
    BY <2>1 DEF ViewIInv
  <2>4. QED
    BY <1>0, <2>1, <2>2, <2>3 DEF ViewIInv, StoreIInv
<1>11. CASE BackgroundSyncs
  <2>1. ListChanges /\ UNCHANGED countVars /\ UNCHANGED viewVars
    BY <1>11 DEF BackgroundSyncs, popupVars
  <2>2. StoreIInv' /\ changes' = changes + 1
    BY <2>1, StoreKeeps
  <2>3. UNCHANGED <<popupOpen, seen, shownToday, busy, synced>>
    BY <2>1 DEF viewVars
  <2>4. seen' \in 0 .. changes' /\ synced' \in 0 .. changes'
    BY <1>0, <2>2, <2>3 DEF ViewIInv
  <2>5. ~Disabled("sync")' => ~Disabled("sync")
    BY <2>3 DEF Disabled
  <2>6. QED
    BY <2>1, <2>2, <2>3, <2>4, <2>5 DEF ViewIInv
<1>12. QED
  BY <1>1, <1>2, <1>3, <1>4, <1>5, <1>6, <1>7, <1>8, <1>9, <1>10, <1>11 DEF PopupAnswers

LEMMA PopupInductive ==
    ASSUME StoreIInv, CountIInv, ViewIInv, PopupNext
    PROVE  StoreIInv' /\ CountIInv' /\ ViewIInv'
<1>1. CASE Midnight \/ BadgeRefreshed \/ \E p \in Pages : VisitBlocked(p) \/ CountStored(p)
  <2>1. CountIInv' /\ UNCHANGED <<storeVars, viewVars>>
    BY <1>1, CountKeeps
  <2>2. QED
    BY <2>1 DEF StoreIInv, ViewIInv, Disabled, storeVars, viewVars
<1>2. CASE \/ OpenPopup \/ ClosePopup \/ Inspect \/ Report \/ Sync
           \/ PopupAnswers \/ BackgroundSyncs
  <2>1. StoreIInv' /\ ViewIInv' /\ UNCHANGED countVars
    BY <1>2, ViewKeeps
  <2>2. QED
    BY <2>1 DEF CountIInv, countVars
<1>3. QED
  BY <1>1, <1>2 DEF PopupNext

------------------------------------------------------------------------------
(* Together *)

LEMMA GuardMonotone ==
    ASSUME StoreIInv, GuardNext
    PROVE  changes' = changes \/ changes' = changes + 1
BY DEF GuardNext, StoreChangesHere, ListChanges, LevelChanges, NoticeArrives, CacheLoaded,
   ExtensionReloads, PointerEnters, LinkRemoved, PointerLeaves, HoverTimerFires, Scroll, Submit,
   Proceed, CancelSubmit, storeVars

LEMMA PanelKeepsStore ==
    ASSUME PanelNext
    PROVE  UNCHANGED storeVars
BY DEF PanelNext, Recheck, OpenPanel, TargetStored, TargetNoticed, TargetAges, OpenDetailFor,
   TabChanges, PanelAnswers, PendingAnswers, TabAnswers, GatewayJudges, GatewayFails, LocalJudges,
   Kept

\* The copy of the page is kept up to date where the page is looked at.
IInv ==
    /\ surface \in {"page", "panel", "popup"}
    /\ StoreIInv /\ GuardTypeOK /\ HoverIInv /\ FormIInv
    /\ surface = "page" => GuardIInv
    /\ PanelIInv /\ CountIInv /\ ViewIInv

LEMMA GuardTypes == StoreIInv /\ GuardIInv => GuardTypeOK
BY HostAssumption DEF StoreIInv, GuardIInv, CopyIInv, HoverIInv, FormIInv, GuardTypeOK

LEMMA Initial == Init => IInv
<1> SUFFICES ASSUME Init
             PROVE  IInv
  OBVIOUS
<1>1. /\ surface \in {"page", "panel", "popup"} /\ stored \in [list : Lists, level : {"standard"}]
      /\ changes = 0 /\ GuardInit /\ PanelInit /\ PopupInit
  BY DEF Init
<1>2. StoreIInv
  BY <1>1, HostAssumption DEF StoreIInv, Stores
<1>3. GuardIInv
  BY <1>1, <1>2, GuardInitial
<1>4. PanelIInv /\ CountIInv /\ ViewIInv
  BY <1>1, PanelInitial, CountInitial, ViewInitial
<1>5. QED
  BY <1>1, <1>2, <1>3, <1>4, GuardTypes DEF IInv, GuardIInv

LEMMA Inductive ==
    ASSUME IInv, [Next]_vars
    PROVE  IInv'
<1>1. CASE PageStep /\ UNCHANGED surface
  <2>1. GuardNext /\ UNCHANGED panelVars /\ UNCHANGED popupVars /\ surface = "page"
    BY <1>1 DEF PageStep
  <2>2. StoreIInv' /\ GuardIInv'
    BY <2>1, GuardInductive DEF IInv
  <2>3. PanelIInv'
    BY <2>1 DEF IInv, PanelIInv, PanelTypes, panelVars
  <2>4. CountIInv'
    BY <2>1 DEF IInv, CountIInv, popupVars, countVars
  <2>5. changes' \in Nat /\ changes <= changes' /\ changes \in Nat
    BY <2>1, <2>2, GuardMonotone, HostAssumption DEF IInv, StoreIInv
  <2>6. UNCHANGED <<popupOpen, seen, shownToday, busy, synced>>
    BY <2>1 DEF popupVars, viewVars
  <2>7. ViewIInv'
    BY <2>5, <2>6 DEF IInv, ViewIInv, Disabled
  <2>8. GuardTypeOK'
    BY <2>2, HostAssumption DEF GuardTypeOK, GuardIInv, CopyIInv, HoverIInv, FormIInv, StoreIInv
  <2>9. QED
    BY <1>1, <2>2, <2>3, <2>4, <2>7, <2>8 DEF IInv, GuardIInv
<1>2. CASE PanelStep /\ UNCHANGED surface
  <2>1. PanelNext /\ UNCHANGED guardVars /\ UNCHANGED popupVars /\ surface = "panel"
    BY <1>2 DEF PanelStep
  <2>2. StoreIInv' /\ PanelIInv'
    BY <2>1, PanelInductive DEF IInv
  <2>3. GuardTypeOK' /\ HoverIInv' /\ FormIInv'
    BY <2>1 DEF IInv, GuardTypeOK, HoverIInv, FormIInv, guardVars, cacheVars, hoverVars, formVars
  <2>4. CountIInv'
    BY <2>1 DEF IInv, CountIInv, popupVars, countVars
  <2>5. changes' = changes
    BY <2>1, PanelKeepsStore DEF storeVars
  <2>6. ViewIInv'
    BY <2>1, <2>5 DEF IInv, ViewIInv, Disabled, popupVars, viewVars
  <2>7. QED
    BY <1>2, <2>1, <2>2, <2>3, <2>4, <2>6 DEF IInv
<1>3. CASE PopupStep /\ UNCHANGED surface
  <2>1. PopupNext /\ UNCHANGED guardVars /\ UNCHANGED panelVars /\ surface = "popup"
    BY <1>3 DEF PopupStep
  <2>2. StoreIInv' /\ CountIInv' /\ ViewIInv'
    BY <2>1, PopupInductive DEF IInv
  <2>3. GuardTypeOK' /\ HoverIInv' /\ FormIInv'
    BY <2>1 DEF IInv, GuardTypeOK, HoverIInv, FormIInv, guardVars, cacheVars, hoverVars, formVars
  <2>4. PanelIInv'
    BY <2>1 DEF IInv, PanelIInv, PanelTypes, panelVars
  <2>5. QED
    BY <1>3, <2>1, <2>2, <2>3, <2>4 DEF IInv
<1>4. CASE UNCHANGED vars
  BY <1>4 DEF IInv, StoreIInv, GuardTypeOK, GuardIInv, CopyIInv, HoverIInv, FormIInv, PanelIInv,
     PanelTypes, CountIInv, ViewIInv, Disabled, vars, storeVars, guardVars, cacheVars, hoverVars,
     formVars, panelVars, popupVars, countVars, viewVars
<1>5. QED
  BY <1>1, <1>2, <1>3, <1>4 DEF Next

LEMMA InvariantHolds == Spec => []IInv
BY Initial, Inductive, PTL DEF Spec

LEMMA Typed == IInv => TypeOK
<1> SUFFICES ASSUME IInv
             PROVE  TypeOK
  OBVIOUS
<1>1. stored \in Stores /\ changes \in 0 .. MaxChanges /\ GuardTypeOK
  BY DEF IInv, StoreIInv
<1>2. PanelTypeOK
  <2>1. PanelTypes
    BY DEF IInv, PanelIInv
  <2>2. Len(writes) \in Nat
    BY <2>1, LenProperties DEF PanelTypes
  <2>3. targetNotices \in 0 .. MaxTargets
    BY <2>1, <2>2, PanelAssumption DEF PanelTypes
  <2>4. \A r \in runs : r.id \in 1 .. MaxRuns /\ r.step \in RunSteps /\ r.value \in Values
    BY <2>1 DEF PanelTypes, Runs
  <2>5. QED
    BY <2>1, <2>3, <2>4 DEF PanelTypes, PanelTypeOK
<1>3. PopupTypeOK
  <2>1. seen \in 0 .. MaxChanges /\ synced \in 0 .. MaxChanges
    BY HostAssumption DEF IInv, StoreIInv, ViewIInv
  <2>2. QED
    BY <2>1 DEF IInv, CountIInv, ViewIInv, PopupTypeOK
<1>4. QED
  BY <1>1, <1>2, <1>3 DEF TypeOK

------------------------------------------------------------------------------
(* Theorems *)

\* A page that awaits nothing decides with the store as it is, and what the user was
\* told or has said stays true on every surface: the tooltip is
\* about the link last hovered or one removed, a form insisted on has left and is
\* not asked about again, and after a sync the popup shows its list or a later one.
THEOREM SurfacesTheorem == Spec => []SurfacesInv
<1>1. IInv => SurfacesInv
  BY Typed DEF IInv, GuardIInv, CopyIInv, HoverIInv, FormIInv, ViewIInv, SurfacesInv
<1>2. QED
  BY <1>1, InvariantHolds, PTL

\* A verdict made without the gateway is about the value on the panel, and a panel
\* at rest whose analyses did not overlap shows the verdict on its value, which is
\* the target just chosen.
THEOREM PanelTheorem == Spec => []PanelFits
<1>1. IInv => PanelFits
  BY DEF IInv, PanelIInv, PanelFits
<1>2. QED
  BY <1>1, InvariantHolds, PTL

\* Unless counts overlapped one another or midnight, the stored count of today and
\* the badge are the visits blocked today.
THEOREM CountTheorem == Spec => []CountIsExact
<1>1. IInv => CountIsExact
  BY DEF IInv, CountIInv, CountIsExact
<1>2. QED
  BY <1>1, InvariantHolds, PTL

\* A caught-up script lets a form with a secret leave an alarming page only after
\* the user insisted on that form.
THEOREM AskedTheorem == Spec => UserIsAsked
<1> DEFINE Asked == \A f \in Sensitive \cap (sent' \ sent) :
              CaughtUp /\ Alarming(Assess(Here, stored.list)) => f \in proceeded'
<1>1. ASSUME IInv, [Next]_vars
      PROVE  [Asked]_vars
  <2> SUFFICES ASSUME NEW f \in Sensitive, f \in sent', f \notin sent, CaughtUp,
                      Alarming(Assess(Here, stored.list))
               PROVE  f \in proceeded'
    OBVIOUS
  <2>1. sent' # sent
    OBVIOUS
  <2>2. PageStep
    BY <1>1, <2>1 DEF Next, PanelStep, PopupStep, vars, guardVars, formVars
  <2>3. GuardIInv /\ GuardNext
    BY <1>1, <2>2 DEF IInv, PageStep
  <2>4. QED
    BY <2>3, GuardAsks
<1>2. QED
  BY <1>1, InvariantHolds, PTL DEF Spec, UserIsAsked
==============================================================================
