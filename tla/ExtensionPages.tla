----------------------------- MODULE ExtensionPages ---------------------------
(***************************************************************************)
(* The surfaces of apps/extension that run beside the background worker: a  *)
(* guarded page, the side panel, and the popup with the count of blocked    *)
(* visits.  They share what is stored; a behaviour looks at one of them.    *)
(***************************************************************************)
EXTENDS PageGuard, SidePanel, Popup

VARIABLE surface        \* the one that is looked at

vars == <<surface, storeVars, guardVars, panelVars, popupVars>>

Init ==
    /\ surface \in {"page", "panel", "popup"}
    /\ stored \in [list : Lists, level : {"standard"}]
    /\ changes = 0
    /\ GuardInit /\ PanelInit /\ PopupInit
    /\ surface # "page" => stored = Unlisted
    /\ surface # "panel" => activeTab = None

PageStep == surface = "page" /\ GuardNext /\ UNCHANGED <<panelVars, popupVars>>
PanelStep == surface = "panel" /\ PanelNext /\ UNCHANGED <<guardVars, popupVars>>
PopupStep == surface = "popup" /\ PopupNext /\ UNCHANGED <<guardVars, panelVars>>

Next == (PageStep \/ PanelStep \/ PopupStep) /\ UNCHANGED surface

Spec == Init /\ [][Next]_vars

\* Storage and the worker answer, and a request of the worker ends by its timeout
\* at the latest; the gateway need not answer.
AnswerOf(i) ==
    \E r \in runs :
      /\ r.id = i
      /\ PendingAnswers(r) \/ TabAnswers(r) \/ GatewayFails(r) \/ LocalJudges(r)

Fairness ==
    /\ WF_cacheVars(surface = "page" /\ NoticeArrives)
    /\ WF_cacheVars(surface = "page" /\ CacheLoaded)
    /\ \A i \in 1 .. MaxRuns : WF_panelVars(surface = "panel" /\ AnswerOf(i))
    /\ WF_viewVars(surface = "popup" /\ InspectAnswered)
    /\ WF_viewVars(surface = "popup" /\ ReportAnswered)
    /\ WF_viewVars(surface = "popup" /\ (SyncAnswers \/ StatusAnswers \/ VerdictRead))

FairSpec == Spec /\ Fairness

------------------------------------------------------------------------------
(* Properties *)

TypeOK ==
    /\ stored \in Stores
    /\ changes \in 0 .. MaxChanges
    /\ GuardTypeOK /\ PanelTypeOK /\ PopupTypeOK

\* A page that no notice and no read is on its way to decides with the store as it is,
\* however changes, notices and reads overlapped.  What the user was told or has said
\* stays true.  A warning on the page is about the link last hovered, or one the page
\* removed, whatever the order of hovering, removals, scrolling and the timer.  A form
\* the user insisted on has left, also where the page hides form.submit, and no dialog
\* asks about it again.  When a sync the user asked for is over, the verdict the popup
\* shows is from the list it stored, or a later one.
SurfacesInv ==
    /\ TypeOK
    /\ surface = "page" /\ ~orphaned /\ notices = 0 /\ reads = <<>> =>
         booted /\ cache = stored
    /\ tip # None => tip = hoverAnchor \/ tip \in gone
    /\ \A f \in proceeded : f \in sent /\ modal # f
    /\ popupOpen /\ ~Disabled("sync") => seen >= synced

\* Once the script has caught up with the store, a form with a secret leaves a
\* page that is listed, itself or by a parent domain, only after the user
\* insisted on that form.
CaughtUp == booted /\ ~orphaned /\ notices = 0 /\ reads = <<>>
UserIsAsked ==
    [][\A f \in Sensitive \cap (sent' \ sent) :
         CaughtUp /\ Alarming(Assess(Here, stored.list)) => f \in proceeded']_vars

\* A verdict made without the gateway is always about the value on the panel,
\* whatever else was analysed meanwhile.  As long as analyses did not overlap, the
\* panel at rest shows the verdict on the value it names, and a target just chosen
\* in the menu is that value.
PanelFits ==
    /\ verdict.by = "local" => verdict.of = currentValue
    /\ panelOpen /\ ~overlapped /\ runs = {} /\ targetNotices = 0 /\ writes = <<>>
         => /\ verdict.of = currentValue
            /\ pending.recent => currentValue = pending.value

\* As long as counts do not overlap one another or midnight, the stored count of
\* today, and the badge with it, are the visits blocked today.
CountIsExact ==
    ~crossedCounts /\ (\A p \in Pages : counting[p] = None)
      => IF stats.date = day THEN stats.today = blocks /\ badge = blocks ELSE blocks = 0

\* Nothing is left hanging.  The copy the page decides with ends up as what is
\* stored, unless the extension was reloaded under the page; every analysis of the
\* panel ends, though the gateway stays silent; a disabled button of the popup is
\* enabled again.
SurfacesSettle ==
    /\ surface = "page" => <>[](orphaned \/ cache = stored)
    /\ \A i \in 1 .. MaxRuns : (\E r \in runs : r.id = i) ~> (\A r \in runs : r.id # i)
    /\ \A b \in {"inspect", "report", "sync"} : Disabled(b) ~> ~Disabled(b)
==============================================================================
