------------------------------- MODULE SharePage ------------------------------
(***************************************************************************)
(* The page apps/web opens for a value shared from another app: it checks   *)
(* the value at once, lets the user check others, and is given a new value  *)
(* when the user shares again.  A token drops the answers to earlier checks. *)
(***************************************************************************)
EXTENDS Requests

CONSTANTS
    Values,         \* what is shared or typed
    Empty           \* no value, and null

ASSUME ShareAssumption == Empty \notin Values

VARIABLES
    sharedValue,    \* from the URL of the page
    input,
    checked,
    verdict,        \* result: the value it is for
    checking,       \* loading
    checkFailed,    \* error is set
    checks          \* flight: the live one holds the present token

shareVars == <<sharedValue, input, checked, verdict, checking, checkFailed, checks>>

ShareTypeOK ==
    /\ {sharedValue, input, checked, verdict} \subseteq Values \cup {Empty}
    /\ checking \in BOOLEAN
    /\ checkFailed \in BOOLEAN
    /\ checks \in Flights(Values)
    /\ OneLive(checks)

ShareInit ==
    /\ sharedValue = Empty
    /\ input = Empty
    /\ checked = Empty
    /\ verdict = Empty
    /\ checking = FALSE
    /\ checkFailed = FALSE
    /\ checks = {}

\* runCheck up to its await.
RunCheck(v) ==
    /\ input' = v
    /\ checked' = v
    /\ checking' = TRUE
    /\ checkFailed' = FALSE
    /\ checks' = Ask(checks, v)
    /\ UNCHANGED verdict

\* The page is shared to: the effect checks the value, even while a check runs.
Share(v) ==
    /\ sharedValue # v
    /\ sharedValue' = v
    /\ RunCheck(v)

\* The input is disabled while a check runs.
TypeInput(v) ==
    /\ ~checking
    /\ input' = v
    /\ UNCHANGED <<sharedValue, checked, verdict, checking, checkFailed, checks>>

SubmitCheck ==
    /\ ~checking
    /\ input # Empty
    /\ RunCheck(input)
    /\ UNCHANGED sharedValue

\* Mutant: no token.
AnswerUnguarded(r, ok) ==
    /\ r \in checks
    /\ checks' = checks \ {r}
    /\ checking' = FALSE
    /\ verdict' = IF ok THEN r.key ELSE Empty
    /\ checkFailed' = ~ok
    /\ UNCHANGED <<sharedValue, input, checked>>

CheckAnswers(r, ok) ==
    /\ r \in checks
    /\ checks' = checks \ {r}
    /\ IF r.live
         THEN verdict' = (IF ok THEN r.key ELSE Empty) /\ checkFailed' = ~ok /\ checking' = FALSE
         ELSE UNCHANGED <<verdict, checkFailed, checking>>
    /\ UNCHANGED <<sharedValue, input, checked>>

ShareNext ==
    \/ \E v \in Values : Share(v) \/ TypeInput(v)
    \/ SubmitCheck
    \/ \E r \in checks, ok \in BOOLEAN : CheckAnswers(r, ok)

\* What the page shows.
ShareView ==
    IF checking THEN "loading"
    ELSE IF checkFailed THEN "error"
    ELSE IF verdict # Empty THEN "verdict" ELSE "intro"

\* The value whose verdict is laid out.
VerdictView == IF ShareView = "verdict" THEN verdict ELSE Empty
==============================================================================
