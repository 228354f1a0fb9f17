---------------------------- MODULE ExtensionStore ----------------------------
(***************************************************************************)
(* What the pages of apps/extension share with the background worker: the   *)
(* stored list and protection level, and the verdict lib/heuristics.js      *)
(* gives on a host, with no request.  A host is the sequence of its labels. *)
(***************************************************************************)
EXTENDS Integers, FiniteSets, SequencesExt

CONSTANTS
    Listable,       \* domains that may be on the list
    Looks,          \* per host: what it looks like without the list
    MaxChanges,     \* bound: changes of the stored list and level
    None            \* null

Hosts == DOMAIN Looks

ASSUME HostAssumption ==
    /\ Hosts \subseteq Seq(STRING) /\ Listable \subseteq Seq(STRING)
    /\ Looks \in [Hosts -> {"safe", "caution"}]
    /\ MaxChanges \in Nat

VARIABLES
    stored,     \* storage.local: blocklist by domain, and the level
    changes

storeVars == <<stored, changes>>

Severities == {"none", "warning", "danger"}
Lists == [Listable -> Severities]
Stores == [list : Lists, level : {"standard", "strict"}]
Unlisted == [list |-> [d \in Listable |-> "none"], level |-> "standard"]

\* The host and its parent domains, longest first.
DomainChain(host) ==
    IF Len(host) < 2 THEN <<host>>
    ELSE [i \in 1 .. Len(host) - 1 |-> SubSeq(host, i, Len(host))]

Severity(list, d) == IF d \in Listable THEN list[d] ELSE "none"

\* The entry of the closest listed domain.
Hit(host, list) ==
    LET chain == DomainChain(host)
        listed == {i \in DOMAIN chain : Severity(list, chain[i]) # "none"}
    IN  IF listed = {} THEN "none" ELSE Severity(list, chain[Min(listed)])

\* assess: punycode, brands, the TLD and the shape of a host make it suspicious
\* (caution); an entry of the list outranks them.
Assess(host, list) ==
    IF host \in {<<>>, <<"localhost">>} THEN "safe"
    ELSE IF Hit(host, list) = "none" THEN Looks[host] ELSE Hit(host, list)

Alarming(verdict) == verdict \in {"warning", "danger"}

\* A sync stores another list.
ListChanges ==
    /\ changes < MaxChanges
    /\ changes' = changes + 1
    /\ \E d \in Listable, s \in Severities : stored' = [stored EXCEPT !.list[d] = s]
    /\ stored' # stored

\* The options page stores another level.
LevelChanges ==
    /\ changes < MaxChanges
    /\ changes' = changes + 1
    /\ \E l \in {"standard", "strict"} : stored' = [stored EXCEPT !.level = l]
    /\ stored' # stored
==============================================================================
