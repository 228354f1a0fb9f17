-------------------------------- MODULE MobileApp -----------------------------
(***************************************************************************)
(* The state of apps/mobile: what the Dart isolate holds in memory, what    *)
(* the Kotlin side holds in its preferences, where the receivers of SMS and *)
(* calls read it, and what has reached the disk.                            *)
(*                                                                          *)
(* Dart changes its memory at once and then sends a call over the method    *)
(* channel.  The platform thread executes the calls in order and answers    *)
(* each; the answer resumes the function that awaited it.  A preference is  *)
(* in the map at once and on the disk later (apply).  A preference never    *)
(* written reads as its default, so it is modelled as holding that.         *)
(***************************************************************************)
EXTENDS Naturals, Sequences

CONSTANTS
    Gateways,       \* gateway addresses; a list is named by the gateway it is from
    Default,        \* the address before the user sets one
    Seed,           \* the list built into the app, and its metadata
    Cached,         \* the metadata of a stored list that has none
    None,
    Codes,          \* pairing codes
    MaxHistory,     \* _maxHistory
    MaxActs,        \* bound: what the user does, and ends of the app
    MaxSaves        \* bound: addresses the user sets in one life of the app

ASSUME MobileAssumption ==
    /\ Default \in Gateways
    /\ Seed \notin Gateways /\ Cached \notin Gateways /\ None \notin Gateways
    /\ Seed # None /\ Cached # None /\ Seed # Cached
    /\ Codes # {} /\ None \notin Codes
    /\ MaxHistory \in Nat \ {0}
    /\ MaxActs \in Nat /\ MaxSaves \in Nat

VARIABLES
    alive,          \* the app runs
    mem,            \* AppState, BlocklistStore and FamilyScreen: _baseUrl, _history,
                    \*   _entries, _meta, _config
    prefs,          \* the map of SharedPreferences
    disk,           \* its file
    calls,          \* calls on their way to the platform thread
    replies,        \* their answers on the way back
    saves,          \* addresses set so far
    syncs,          \* syncBlocklist: 0 of the start, n of the n-th address
    manual,         \* the manual check screen: the check under way
    shown,          \* and the result it shows
    screen,         \* the screen of a shared text
    made,           \* history: the number of the newest result recorded
    cleared,        \* history: the number of the newest result cleared away
    fresh,          \* history: a sync has succeeded since the last one was started
    crossed,        \* history: syncs of different addresses were under way at once
    acts            \* history: what the user did, and how often the app ended

stores == <<mem, prefs, disk, calls, replies>>
syncVars == <<saves, syncs, fresh, crossed>>
checkVars == <<manual, shown, screen, made, cleared>>
vars == <<alive, stores, acts, syncVars, checkVars>>

------------------------------------------------------------------------------
Lists == Gateways \cup {Seed}
Families == [enabled : BOOLEAN, consent : BOOLEAN, code : Codes \cup {None},
             guardian : Codes \cup {None}]   \* the code the guardian was linked under
NoFamily == [enabled |-> FALSE, consent |-> FALSE, code |-> None, guardian |-> None]

Fields == {"url", "history", "list", "meta", "family"}
Unwritten == [url |-> Default, history |-> <<>>, list |-> Seed, meta |-> None,
              family |-> NoFamily]

\* What resumes when a call is answered.
Waits == [what : {"nothing", "url", "list", "meta", "check", "deep"}, id : Nat]
Nothing == [what |-> "nothing", id |-> 0]
For(what, i) == [what |-> what, id |-> i]

Call(f, v, w) == [field |-> f, value |-> v, for |-> w]

Act ==
    /\ alive
    /\ acts < MaxActs
    /\ acts' = acts + 1

\* Memory first, then the call.
Store(f, v, w) ==
    /\ mem' = [mem EXCEPT ![f] = v]
    /\ calls' = Append(calls, Call(f, v, w))

Idle == [pc |-> "idle", url |-> None]
Closed == [pc |-> "closed", id |-> 0]

Init ==
    /\ alive = FALSE
    /\ mem = Unwritten /\ prefs = Unwritten /\ disk = Unwritten
    /\ calls = <<>> /\ replies = <<>>
    /\ saves = 0
    /\ syncs = [n \in 0 .. MaxSaves |-> Idle]
    /\ manual = "idle" /\ shown = 0 /\ screen = Closed
    /\ made = 0 /\ cleared = 0
    /\ fresh = FALSE /\ crossed = FALSE
    /\ acts = 0

------------------------------------------------------------------------------
(* The platform thread, the file and the process *)

PlatformWrites ==
    /\ calls # <<>>
    /\ prefs' = [prefs EXCEPT ![Head(calls).field] = Head(calls).value]
    /\ replies' = IF Head(calls).for = Nothing THEN replies
                  ELSE Append(replies, Head(calls).for)
    /\ calls' = Tail(calls)
    /\ UNCHANGED <<alive, mem, disk, acts, syncVars, checkVars>>

\* (After the last end of the app nobody reads the file.)
FileWritten ==
    /\ acts < MaxActs
    /\ disk # prefs
    /\ disk' = prefs
    /\ UNCHANGED <<alive, mem, prefs, calls, replies, acts, syncVars, checkVars>>

\* The isolate ends, with the process or before it: the map is lost with the process.
Dies ==
    /\ Act
    /\ alive' = FALSE
    /\ prefs' \in {prefs, disk}
    /\ mem' = Unwritten
    /\ calls' = <<>> /\ replies' = <<>>
    /\ saves' = 0
    /\ syncs' = [n \in 0 .. MaxSaves |-> Idle]
    /\ manual' = "idle" /\ shown' = 0 /\ screen' = Closed
    /\ made' = 0 /\ cleared' = 0
    /\ fresh' = FALSE /\ crossed' = FALSE
    /\ UNCHANGED disk

------------------------------------------------------------------------------
(* The blocklist *)

Fetching(n) == syncs[n].pc = "fetch"

\* syncBlocklist: the address is the one of now, not the one that was saved.
StartSync(n) ==
    /\ syncs' = [syncs EXCEPT ![n] = [pc |-> "fetch", url |-> mem.url]]
    /\ fresh' = FALSE
    /\ crossed' = \E m \in DOMAIN syncs : Fetching(m) /\ (crossed \/ syncs[m].url # mem.url)

\* load: a list without metadata gets some; a missing list is the seed, with its own.
MetaOf(list, meta) ==
    IF list = Seed THEN Seed ELSE IF meta = None THEN Cached ELSE meta

\* main: everything is read before the first frame; nothing else writes meanwhile.
\* The family screen is built with the first frame, reads its settings, and makes
\* a code if there is none.
Launch ==
    /\ ~alive
    /\ alive' = TRUE
    /\ \E c \in Codes :
         LET family == IF prefs.family.code = None THEN [prefs.family EXCEPT !.code = c]
                       ELSE prefs.family IN
         /\ mem' = [prefs EXCEPT !.meta = MetaOf(prefs.list, prefs.meta), !.family = family]
         /\ calls' = IF prefs.family.code = None
                     THEN <<Call("family", family, Nothing)>> ELSE <<>>
    /\ syncs' = [syncs EXCEPT ![0] = [pc |-> "fetch", url |-> prefs.url]]
    /\ made' = IF prefs.history = <<>> THEN 0 ELSE Head(prefs.history)
    /\ cleared' = made' - Len(prefs.history)
    /\ UNCHANGED <<prefs, disk, replies, acts, saves, fresh, crossed, manual, shown, screen>>

SetBaseUrl(u) ==
    /\ Act
    /\ saves < MaxSaves
    /\ saves' = saves + 1
    /\ Store("url", u, For("url", saves + 1))
    /\ UNCHANGED <<alive, prefs, disk, replies, syncs, fresh, crossed, checkVars>>

Resume(what) ==
    /\ replies # <<>>
    /\ Head(replies).what = what
    /\ replies' = Tail(replies)

\* Mutant: the address is saved, and nothing is fetched.
UrlSavedOnly ==
    /\ Resume("url")
    /\ UNCHANGED <<alive, mem, prefs, disk, calls, acts, syncVars, checkVars>>

UrlSaved ==
    /\ Resume("url")
    /\ StartSync(Head(replies).id)
    /\ UNCHANGED <<alive, mem, prefs, disk, calls, acts, saves, checkVars>>

\* sync: a list with an entry replaces the one in memory, with its metadata; the
\* list is stored first ...
SnapshotArrives(n) ==
    /\ Fetching(n)
    /\ mem' = [mem EXCEPT !.list = syncs[n].url, !.meta = syncs[n].url]
    /\ calls' = Append(calls, Call("list", syncs[n].url, For("list", n)))
    /\ syncs' = [syncs EXCEPT ![n].pc = "list"]
    /\ fresh' = TRUE
    /\ UNCHANGED <<alive, prefs, disk, replies, acts, saves, crossed, checkVars>>

\* ... then the metadata, as they are by then.
ListSaved ==
    /\ Resume("list")
    /\ calls' = Append(calls, Call("meta", mem.meta, For("meta", Head(replies).id)))
    /\ syncs' = [syncs EXCEPT ![Head(replies).id].pc = "meta"]
    /\ UNCHANGED <<alive, mem, prefs, disk, acts, saves, fresh, crossed, checkVars>>

MetaSaved ==
    /\ Resume("meta")
    /\ syncs' = [syncs EXCEPT ![Head(replies).id] = Idle]
    /\ UNCHANGED <<alive, mem, prefs, disk, calls, acts, saves, fresh, crossed, checkVars>>

\* Mutant: a gateway that does not answer is waited for.
SyncWaits(n) ==
    /\ Fetching(n)
    /\ UNCHANGED vars

\* Eight seconds, an error, or a list without an entry: what there is stays.
SyncFails(n) ==
    /\ Fetching(n)
    /\ syncs' = [syncs EXCEPT ![n] = Idle]
    /\ UNCHANGED <<alive, stores, acts, saves, fresh, crossed, checkVars>>

------------------------------------------------------------------------------
(* Checks and their history *)

\* Mutant: a full history takes no more.
RecordedWhileRoom(history, result) ==
    IF Len(history) < MaxHistory THEN <<result>> \o history ELSE history

\* The newest result first, the oldest beyond the maximum dropped.
Recorded(history, result) ==
    LET all == <<result>> \o history IN
    IF Len(all) > MaxHistory THEN SubSeq(all, 1, MaxHistory) ELSE all

\* _record, with the history of now.
Record(w) ==
    /\ made' = made + 1
    /\ Store("history", Recorded(mem.history, made + 1), w)

\* _runCheck: the button and the field are disabled meanwhile.
StartCheck ==
    /\ Act
    /\ manual = "idle"
    /\ manual' = "asking"
    /\ shown' = 0
    /\ UNCHANGED <<alive, stores, syncVars, screen, made, cleared>>

\* check: the gateway's verdict or, when it fails, that of rules and list here.
CheckJudged ==
    /\ manual = "asking"
    /\ Record(For("check", made + 1))
    /\ manual' = "saving"
    /\ UNCHANGED <<alive, prefs, disk, replies, acts, syncVars, shown, screen, cleared>>

\* An address that does not parse fails outside the fallback: an error, no record.
CheckErrs ==
    /\ manual = "asking"
    /\ manual' = "idle"
    /\ UNCHANGED <<alive, stores, acts, syncVars, shown, screen, made, cleared>>

\* The result is shown when it is stored.
CheckSaved ==
    /\ Resume("check")
    /\ manual' = "idle"
    /\ shown' = Head(replies).id
    /\ UNCHANGED <<alive, mem, prefs, disk, calls, acts, syncVars, screen, made, cleared>>

ClearHistory ==
    /\ Act
    /\ mem.history # <<>>
    /\ Store("history", <<>>, Nothing)
    /\ cleared' = made
    /\ UNCHANGED <<alive, prefs, disk, replies, syncVars, manual, shown, screen, made>>

\* A text shared with the app opens a screen, which judges without the gateway ...
Share ==
    /\ Act
    /\ screen.pc = "closed"
    /\ screen' = [pc |-> "local", id |-> 0]
    /\ UNCHANGED <<alive, stores, syncVars, manual, shown, made, cleared>>

\* _runLocal: shows the result and records it.
LocalJudged ==
    /\ screen.pc = "local"
    /\ Record(Nothing)
    /\ screen' = [pc |-> "ready", id |-> 0]
    /\ UNCHANGED <<alive, prefs, disk, replies, acts, syncVars, manual, shown, cleared>>

\* ... and on request asks the gateway (_runDeep), whose failure records nothing.
AskDeep ==
    /\ Act
    /\ screen.pc = "ready"
    /\ screen' = [pc |-> "deep", id |-> 0]
    /\ UNCHANGED <<alive, stores, syncVars, manual, shown, made, cleared>>

DeepJudged ==
    /\ screen.pc = "deep"
    /\ Record(For("deep", made + 1))
    /\ screen' = [pc |-> "saving", id |-> made + 1]
    /\ UNCHANGED <<alive, prefs, disk, replies, acts, syncVars, manual, shown, cleared>>

DeepFails ==
    /\ screen.pc = "deep"
    /\ screen' = [pc |-> "ready", id |-> 0]
    /\ UNCHANGED <<alive, stores, acts, syncVars, manual, shown, made, cleared>>

\* A screen that was left in between is not mounted.
DeepSaved ==
    /\ Resume("deep")
    /\ screen' = IF screen.id = Head(replies).id THEN [pc |-> "ready", id |-> 0] ELSE screen
    /\ UNCHANGED <<alive, mem, prefs, disk, calls, acts, syncVars, manual, shown, made,
                   cleared>>

LeaveScreen ==
    /\ screen.pc # "closed"
    /\ screen' = Closed
    /\ UNCHANGED <<alive, stores, acts, syncVars, manual, shown, made, cleared>>

------------------------------------------------------------------------------
(* Family protection *)

\* _update
Update(family) ==
    /\ Act
    /\ Store("family", family, Nothing)
    /\ UNCHANGED <<alive, prefs, disk, replies, syncVars, checkVars>>

\* Withdrawn consent ends the protection.
ToggleConsent ==
    Update([mem.family EXCEPT !.consent = ~@, !.enabled = @ /\ ~mem.family.consent])

ToggleEnabled ==
    /\ mem.family.enabled \/ mem.family.consent
    /\ Update([mem.family EXCEPT !.enabled = ~@])

RegenerateCode ==
    \E c \in Codes :
      Update([mem.family EXCEPT !.code = c, !.guardian = None, !.enabled = FALSE])

LinkGuardian ==
    /\ mem.family.guardian = None
    /\ Update([mem.family EXCEPT !.guardian = mem.family.code])

UnlinkGuardian ==
    /\ mem.family.guardian # None
    /\ Update([mem.family EXCEPT !.guardian = None, !.enabled = FALSE])

------------------------------------------------------------------------------
Sync ==
    \/ \E u \in Gateways : SetBaseUrl(u)
    \/ UrlSaved \/ ListSaved \/ MetaSaved
    \/ \E n \in 0 .. MaxSaves : SnapshotArrives(n) \/ SyncFails(n)

Check ==
    \/ StartCheck \/ CheckJudged \/ CheckErrs \/ CheckSaved \/ ClearHistory
    \/ Share \/ LocalJudged \/ AskDeep \/ DeepJudged \/ DeepFails \/ DeepSaved \/ LeaveScreen

Family ==
    \/ ToggleConsent \/ ToggleEnabled \/ RegenerateCode
    \/ LinkGuardian \/ UnlinkGuardian

Next ==
    \/ Launch \/ Dies \/ PlatformWrites \/ FileWritten
    \/ Sync \/ Check \/ Family

Spec == Init /\ [][Next]_vars

\* The platform thread executes and answers, Dart resumes, a fetch ends by its
\* timeout, and a check by its own, by the gateway's answer or by an error.
Fairness ==
    /\ WF_vars(PlatformWrites)
    /\ WF_vars(UrlSaved \/ ListSaved \/ MetaSaved \/ CheckSaved \/ DeepSaved)
    /\ \A n \in 0 .. MaxSaves : WF_vars(SyncFails(n))
    /\ WF_vars(CheckJudged \/ CheckErrs)

FairSpec == Spec /\ Fairness

------------------------------------------------------------------------------
(* Properties *)

Results == 1 .. MaxActs
Metas == Lists \cup {Cached, None}
Values == [url |-> Gateways, history |-> Seq(Results), list |-> Lists, meta |-> Metas,
           family |-> Families]
Contents == [url : Values.url, history : Values.history, list : Values.list,
             meta : Values.meta, family : Values.family]
Sent == {calls[i] : i \in DOMAIN calls}

TypeOK ==
    /\ alive \in BOOLEAN
    /\ mem \in Contents /\ prefs \in Contents /\ disk \in Contents
    /\ calls \in Seq(Sent) /\ replies \in Seq(Waits)
    /\ \A c \in Sent : c \in [field : Fields, value : Values[c.field], for : Waits]
    /\ saves \in 0 .. MaxSaves
    /\ syncs \in [0 .. MaxSaves -> [pc : {"idle", "fetch", "list", "meta"},
                                    url : Gateways \cup {None}]]
    /\ manual \in {"idle", "asking", "saving"}
    /\ screen \in [pc : {"closed", "local", "ready", "deep", "saving"}, id : 0 .. MaxActs]
    /\ acts \in 0 .. MaxActs
    /\ made \in 0 .. acts /\ cleared \in 0 .. made
    /\ shown \in 0 .. made
    /\ fresh \in BOOLEAN /\ crossed \in BOOLEAN

\* Preference f of p will hold v when the calls of q are executed.
WillHold(p, q, f, v) ==
    \/ p[f] = v /\ \A i \in DOMAIN q : q[i].field # f
    \/ \E i \in DOMAIN q : /\ q[i].field = f /\ q[i].value = v
                         /\ \A j \in DOMAIN q : j > i => q[j].field # f

\* The preferences follow the memory of the running app, whatever was set, synced,
\* checked or cleared meanwhile: started again, it would load what it has.  Only
\* while a list is being stored may the metadata be others.
Follows ==
    alive =>
      /\ \A f \in Fields \ {"meta"} : WillHold(prefs, calls, f, mem[f])
      /\ \/ WillHold(prefs, calls, "meta", mem.meta)
         \/ WillHold(prefs, calls, "meta", None) /\ mem.meta = MetaOf(mem.list, None)
         \/ \E n \in DOMAIN syncs : syncs[n].pc = "list"

\* The history is the last results that were not cleared away, and none is missing:
\* neither of two checks at once loses the other's, and no check in flight brings a
\* cleared history back.
HistoryIsLast ==
    alive =>
      /\ Len(mem.history) =
           IF made - cleared > MaxHistory THEN MaxHistory ELSE made - cleared
      /\ \A i \in DOMAIN mem.history : mem.history[i] = made + 1 - i

\* A result on the screen is in the preferences, or was cleared or pushed out since.
Kept(result, history) ==
    \/ \E i \in DOMAIN history : history[i] = result
    \/ result <= cleared
    \/ result + MaxHistory <= made
ShownIsStored == shown # 0 => Kept(shown, prefs.history)

\* In every copy, and so after any death, protection is on only with consent, and a
\* guardian is linked only under the present code.
Consents(family) ==
    /\ family.enabled => family.consent
    /\ family.guardian \in {None, family.code}
Consented ==
    /\ Consents(mem.family) /\ Consents(prefs.family) /\ Consents(disk.family)
    /\ \A c \in Sent : c.field = "family" => Consents(c.value)

\* Whoever waits is answered: for a sync, a check and a screen that store, the call is
\* on its way, or its answer, whatever else was sent, answered or left meanwhile.
UnderWay(w) ==
    (\E i \in DOMAIN calls : calls[i].for = w) \/ (\E j \in DOMAIN replies : replies[j] = w)
NoneForgotten ==
    /\ \A n \in DOMAIN syncs :
         syncs[n].pc \in {"list", "meta"} => UnderWay(For(syncs[n].pc, n))
    /\ manual = "saving" => \E i \in 1 .. made : UnderWay(For("check", i))
    /\ screen.pc = "saving" => UnderWay(For("deep", screen.id))

\* One truth: preferences, history, result and consent agree as said above, and nobody
\* waits in vain.
MobileInv ==
    TypeOK /\ Follows /\ HistoryIsLast /\ ShownIsStored /\ Consented /\ NoneForgotten

\* Once nothing is under way, the receivers of messages and calls have the list of the
\* app.  As long as syncs of different addresses do not overlap, it is from the gateway
\* the user has set, unless no sync has succeeded since; and the metadata name it.
Quiet == calls = <<>> /\ replies = <<>> /\ \A n \in DOMAIN syncs : syncs[n].pc = "idle"
ListFollowsGateway ==
    alive /\ Quiet =>
      /\ prefs.list = mem.list
      /\ fresh /\ ~crossed => mem.list = mem.url /\ prefs.meta = mem.url

\* Every sync ends, though the gateway be silent; the spinner of a check goes; the
\* receivers get the list of the app, unless it ends.
MobileSettles ==
    /\ \A n \in 0 .. MaxSaves : syncs[n].pc # "idle" ~> syncs[n].pc = "idle"
    /\ manual # "idle" ~> manual = "idle"
    /\ alive /\ prefs.list # mem.list ~> ~alive \/ prefs.list = mem.list
==============================================================================
