------------------------------- MODULE PageGuard ------------------------------
(***************************************************************************)
(* The content script of apps/extension in one page: it keeps a copy of the *)
(* stored list, warns of a link the pointer rests on, and holds a form with *)
(* a password or a one-time code back on an alarming page until the user    *)
(* insists.  The copy lags behind the store: a change is a notice, and a    *)
(* notice a read.                                                           *)
(***************************************************************************)
EXTENDS ExtensionStore

CONSTANTS
    Here,           \* the host of the page
    Links,          \* link -> host
    Forms,
    Sensitive,      \* forms that have a password or a one-time code
    Shadowed        \* forms with a field named submit, that hides form.submit

Anchors == DOMAIN Links

ASSUME PageAssumption ==
    /\ Here \in Hosts /\ Links \in [Anchors -> Hosts]
    /\ Sensitive \subseteq Forms /\ Shadowed \subseteq Forms
    /\ None \notin Anchors \cup Forms

VARIABLES
    booted,         \* the listeners of the page are attached
    cache,          \* blockMap and level
    notices,        \* onChanged events on their way to this page
    reads,          \* loadCache: what was read and is not yet kept
    orphaned,       \* the extension was reloaded: storage does not answer any more
    pointer,        \* the link the pointer is on
    hoverAnchor,
    hoverTimer,     \* the link it will look at
    tip,            \* the link the tooltip warns of
    gone,           \* links the page has removed
    modal,          \* the form the dialog is about
    proceeded,
    sent            \* forms that left

cacheVars == <<booted, cache, notices, reads, orphaned>>
hoverVars == <<pointer, hoverAnchor, hoverTimer, tip, gone>>
formVars == <<modal, proceeded, sent>>
guardVars == <<cacheVars, hoverVars, formVars>>

GuardTypeOK ==
    /\ booted \in BOOLEAN
    /\ cache \in Stores
    /\ notices \in 0 .. MaxChanges
    /\ reads \in Seq(Stores)
    /\ orphaned \in BOOLEAN
    /\ {pointer, hoverAnchor, hoverTimer, tip} \subseteq Anchors \cup {None}
    /\ gone \subseteq Anchors
    /\ modal \in Forms \cup {None}
    /\ proceeded \subseteq Forms
    /\ sent \subseteq Forms
    /\ hoverTimer \in {None, hoverAnchor}

\* The script starts: onChanged is heard, and the first loadCache has read.
GuardInit ==
    /\ booted = FALSE
    /\ cache = Unlisted
    /\ notices = 0
    /\ reads = <<stored>>
    /\ orphaned = FALSE
    /\ pointer = None /\ hoverAnchor = None /\ hoverTimer = None /\ tip = None
    /\ gone = {}
    /\ modal = None
    /\ proceeded = {}
    /\ sent = {}

------------------------------------------------------------------------------
(* The copy *)

\* Mutant: a change of the settings is not listened to.
ListChangeHeard ==
    notices' = IF stored'.list # stored.list /\ ~orphaned THEN notices + 1 ELSE notices

ChangeHeard ==
    notices' = IF orphaned THEN notices ELSE notices + 1

StoreChangesHere ==
    /\ ListChanges \/ LevelChanges
    /\ ChangeHeard
    /\ UNCHANGED <<booted, cache, reads, orphaned, hoverVars, formVars>>

\* onChanged: loadCache reads.  Reads are answered in order.
NoticeArrives ==
    /\ notices > 0
    /\ notices' = notices - 1
    /\ reads' = Append(reads, stored)
    /\ UNCHANGED <<stored, changes, booted, cache, orphaned, hoverVars, formVars>>

\* loadCache returns; the first time, the page's listeners are attached.
CacheLoaded ==
    /\ reads # <<>>
    /\ cache' = Head(reads)
    /\ reads' = Tail(reads)
    /\ booted' = TRUE
    /\ UNCHANGED <<stored, changes, notices, orphaned, hoverVars, formVars>>

\* The context is invalidated: what is under way fails, the copy stays.
ExtensionReloads ==
    /\ ~orphaned
    /\ orphaned' = TRUE
    /\ notices' = 0
    /\ reads' = <<>>
    /\ booted' = TRUE
    /\ UNCHANGED <<stored, changes, cache, hoverVars, formVars>>

------------------------------------------------------------------------------
(* The tooltip *)

ShouldShow(verdict) ==
    Alarming(verdict) \/ (verdict = "caution" /\ cache.level = "strict")

\* onOver.  While the page still boots nothing listens.
PointerEnters(a) ==
    /\ pointer = None
    /\ a \notin gone
    /\ pointer' = a
    /\ IF booted /\ a # hoverAnchor
         THEN hoverAnchor' = a /\ hoverTimer' = a
         ELSE UNCHANGED <<hoverAnchor, hoverTimer>>
    /\ UNCHANGED <<storeVars, cacheVars, tip, gone, formVars>>

\* onOut.
PointerLeaves ==
    /\ pointer # None
    /\ pointer' = None
    /\ IF booted /\ pointer = hoverAnchor
         THEN hoverAnchor' = None /\ hoverTimer' = None /\ tip' = None
         ELSE UNCHANGED <<hoverAnchor, hoverTimer, tip>>
    /\ UNCHANGED <<storeVars, cacheVars, gone, formVars>>

\* The page removes a link: the script is told nothing.
LinkRemoved(a) ==
    /\ a \notin gone
    /\ gone' = gone \cup {a}
    /\ pointer' = IF pointer = a THEN None ELSE pointer
    /\ UNCHANGED <<storeVars, cacheVars, hoverAnchor, hoverTimer, tip, formVars>>

\* 150 ms later: assessed with the copy of now; a link of the same host is skipped.
HoverTimerFires ==
    /\ hoverTimer # None
    /\ hoverTimer' = None
    /\ LET host == Links[hoverTimer]
       IN  tip' = IF host # Here /\ ShouldShow(Assess(host, cache.list))
                    THEN hoverTimer ELSE tip
    /\ UNCHANGED <<storeVars, cacheVars, pointer, hoverAnchor, gone, formVars>>

Scroll ==
    /\ booted
    /\ tip # None
    /\ tip' = None
    /\ UNCHANGED <<storeVars, cacheVars, pointer, hoverAnchor, hoverTimer, gone, formVars>>

------------------------------------------------------------------------------
(* The forms *)

\* Mutant: only a page that is itself on the list is alarming.
HereDanger(f, trusted) ==
    booted /\ f \notin trusted /\ f \in Sensitive /\ Assess(Here, cache.list) = "danger"

\* onSubmitCapture stops the event.
HeldBack(f, trusted) ==
    booted /\ f \notin trusted /\ f \in Sensitive /\ Alarming(Assess(Here, cache.list))

\* The user submits: the dialog replaces one that is open.
Submit(f) ==
    /\ IF HeldBack(f, proceeded)
         THEN modal' = f /\ UNCHANGED sent
         ELSE sent' = sent \cup {f} /\ UNCHANGED modal
    /\ UNCHANGED <<storeVars, cacheVars, hoverVars, proceeded>>

\* Mutant: the form is trusted after it was submitted.
ProceedThenTrust ==
    /\ modal # None
    /\ proceeded' = proceeded \cup {modal}
    /\ IF modal \in Shadowed /\ HeldBack(modal, proceeded)
         THEN UNCHANGED <<modal, sent>>
         ELSE modal' = None /\ sent' = sent \cup {modal}
    /\ UNCHANGED <<storeVars, cacheVars, hoverVars>>

\* The user insists: form.submit raises no event; where it is hidden,
\* requestSubmit raises one, which comes back here.
Proceed ==
    /\ modal # None
    /\ proceeded' = proceeded \cup {modal}
    /\ IF modal \in Shadowed /\ HeldBack(modal, proceeded')
         THEN UNCHANGED <<modal, sent>>
         ELSE modal' = None /\ sent' = sent \cup {modal}
    /\ UNCHANGED <<storeVars, cacheVars, hoverVars>>

CancelSubmit ==
    /\ modal # None
    /\ modal' = None
    /\ UNCHANGED <<storeVars, cacheVars, hoverVars, proceeded, sent>>

GuardNext ==
    \/ StoreChangesHere \/ NoticeArrives \/ CacheLoaded \/ ExtensionReloads
    \/ \E a \in Anchors : PointerEnters(a) \/ LinkRemoved(a)
    \/ PointerLeaves \/ HoverTimerFires \/ Scroll
    \/ \E f \in Forms : Submit(f)
    \/ Proceed \/ CancelSubmit
==============================================================================
