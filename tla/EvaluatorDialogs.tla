-------------------------- MODULE EvaluatorDialogs --------------------------
(***************************************************************************)
(* The dialogs of the evaluator list: the versions of an evaluator with    *)
(* their differences and the regression over them, and the test.           *)
(* An evaluator's versions are numbered from 1; the last is the current    *)
(* one, and 0 is no version.                                               *)
(***************************************************************************)
EXTENDS AsyncResource

CONSTANTS Evaluators,
          VersionsOfEvaluator, \* server: how many versions each of them has
          MaxCalls             \* bound: calls of a kind in flight

ASSUME EvaluatorAssumption ==
    /\ None \notin Evaluators
    /\ VersionsOfEvaluator \in [Evaluators -> Nat \ {0}]
    /\ MaxCalls \in Nat \ {0}

VARIABLES
    modal,     \* the version dialog: open, versionTarget, versionLoading, versionError
    entries,   \* versionEntries: whose they are, and how many
    selected,  \* the selected version
    history,   \* calls for entries in flight
    diff,      \* versionDiff, diffLoading, diffError and the call the effect waits for
    diffs,     \* calls for differences in flight
    draft,     \* regressionDraft: the evaluator it was written for
    saved,     \* localStorage: the draft kept for each evaluator
    regression,\* the evaluator the run in flight was begun for
    test       \* the test dialog, and whether a test is running

entryVars == <<modal, entries, selected, history>>
diffVars == <<diff, diffs>>
draftVars == <<draft, saved>>
runVars == <<regression, test>>
dialogVars == <<entryVars, diffVars, draftVars, runVars>>

NoModal == [open |-> FALSE, target |-> None, loading |-> FALSE, failed |-> FALSE]
NoEntries == [of |-> None, last |-> 0]
NoDiff == [shown |-> None, loading |-> FALSE, failed |-> FALSE, live |-> 0]
NoTest == [open |-> FALSE, running |-> FALSE]

DialogsInit ==
    /\ modal = NoModal /\ entries = NoEntries /\ selected = 0 /\ history = {}
    /\ diff = NoDiff /\ diffs = {}
    /\ draft = None /\ saved = [e \in Evaluators |-> None]
    /\ regression = None /\ test = NoTest

\* The first number that no call in flight has.
Unused(calls) ==
    {n \in 1..MaxCalls : /\ \A c \in calls : c.n # n
                         /\ \A m \in 1..n - 1 : \E c \in calls : c.n = m}

-----------------------------------------------------------------------------
(* The versions                                                            *)

\* diffBaseVersion: the current version, and for that one the version before.
Base(last, version) == IF version = last THEN last - 1 ELSE last

Question(target, last, version) ==
    [target |-> target, version |-> version, base |-> Base(last, version)]

\* The effect: the differences shown are forgotten, or asked for anew. The call
\* the effect waited for before is given up: its answer will not be looked at.
AskDiff(open, target, last, version) ==
    IF ~open \/ version = 0 \/ Base(last, version) = 0
    THEN diff' = NoDiff /\ UNCHANGED diffs
    ELSE \E n \in Unused(diffs) :
            /\ diffs' = diffs \cup {[n |-> n, asks |-> Question(target, last, version)]}
            /\ diff' = [shown |-> diff.shown, loading |-> TRUE, failed |-> FALSE, live |-> n]

\* A draft on the page is kept when the same evaluator is opened again.
OpenVersionModal(e) ==
    /\ ~modal.open /\ ~test.open
    /\ modal' = [open |-> TRUE, target |-> e, loading |-> TRUE, failed |-> FALSE]
    /\ entries' = NoEntries /\ selected' = 0
    /\ diff' = NoDiff
    /\ draft' = IF e = modal.target THEN draft ELSE saved[e]
    /\ \E n \in Unused(history) : history' = history \cup {[n |-> n, of |-> e]}
    /\ UNCHANGED <<diffs, saved, runVars>>

\* The entries are shown whichever evaluator the dialog is open for by now.
VersionsListed ==
    /\ \E c \in history :
          LET last == VersionsOfEvaluator[c.of] IN
          /\ history' = history \ {c}
          /\ entries' = [of |-> c.of, last |-> last] /\ selected' = last
          /\ modal' = [modal EXCEPT !.loading = FALSE]
          /\ AskDiff(modal.open, modal.target, last, last)
    /\ UNCHANGED <<draftVars, runVars>>

VersionsFail ==
    /\ \E c \in history : history' = history \ {c}
    /\ modal' = [modal EXCEPT !.loading = FALSE, !.failed = TRUE]
    /\ UNCHANGED <<entries, selected, diffVars, draftVars, runVars>>

\* What a closed dialog has shown is reset when it opens; what runs goes on.
CloseVersionModal ==
    /\ modal.open
    /\ modal' = [modal EXCEPT !.open = FALSE]
    /\ AskDiff(FALSE, modal.target, entries.last, selected)
    /\ UNCHANGED <<entries, selected, history, draftVars, runVars>>

EntriesShown == modal.open /\ ~modal.loading /\ ~modal.failed /\ selected # 0

SelectVersion(v) ==
    /\ EntriesShown /\ v # selected
    /\ selected' = v
    /\ AskDiff(TRUE, modal.target, entries.last, v)
    /\ UNCHANGED <<modal, entries, history, draftVars, runVars>>

\* Mutant: the answer is shown without a look at active.
DiffAnsweredLate(c) ==
    /\ diffs' = diffs \ {c}
    /\ diff' = [diff EXCEPT !.shown = c.asks, !.loading = FALSE]

\* Only the answer the effect waits for is shown.
DiffAnswered(c) ==
    /\ diffs' = diffs \ {c}
    /\ diff' = IF c.n = diff.live THEN [diff EXCEPT !.shown = c.asks, !.loading = FALSE]
               ELSE diff

DiffFailed(c) ==
    /\ diffs' = diffs \ {c}
    /\ diff' = IF c.n = diff.live
               THEN [diff EXCEPT !.shown = None, !.loading = FALSE, !.failed = TRUE]
               ELSE diff

DiffEnds ==
    /\ \E c \in diffs : DiffAnswered(c) \/ DiffFailed(c)
    /\ UNCHANGED <<entryVars, draftVars, runVars>>

-----------------------------------------------------------------------------
(* The regression and the test                                             *)

TypeDraft ==
    /\ EntriesShown /\ draft' = modal.target
    /\ UNCHANGED <<entryVars, diffVars, saved, runVars>>

HandleSaveRegressionDraft ==
    /\ EntriesShown
    /\ saved' = [saved EXCEPT ![modal.target] = draft]
    /\ UNCHANGED <<entryVars, diffVars, draft, runVars>>

\* Saves the draft and runs it. The flag stays on when the dialog is opened for
\* another evaluator, and the result is shown there.
HandleRunRegression ==
    /\ EntriesShown /\ regression = None
    /\ saved' = [saved EXCEPT ![modal.target] = draft]
    /\ regression' = modal.target
    /\ UNCHANGED <<entryVars, diffVars, draft, test>>

RegressionEnds ==
    /\ regression # None /\ regression' = None
    /\ UNCHANGED <<entryVars, diffVars, draftVars, test>>

OpenTestModal ==
    /\ ~modal.open /\ ~test.open
    /\ test' = [test EXCEPT !.open = TRUE]
    /\ UNCHANGED <<entryVars, diffVars, draftVars, regression>>

CloseTestModal ==
    /\ test.open /\ test' = [test EXCEPT !.open = FALSE]
    /\ UNCHANGED <<entryVars, diffVars, draftVars, regression>>

HandleTest ==
    /\ test.open /\ ~test.running
    /\ test' = [test EXCEPT !.running = TRUE]
    /\ UNCHANGED <<entryVars, diffVars, draftVars, regression>>

TestEnds ==
    /\ test.running /\ test' = [test EXCEPT !.running = FALSE]
    /\ UNCHANGED <<entryVars, diffVars, draftVars, regression>>

\* The page is left, for the form that clones an evaluator or for another: what
\* is in flight finds nobody. Only the drafts that were kept stay.
LeaveList ==
    /\ modal' = NoModal /\ entries' = NoEntries /\ selected' = 0 /\ history' = {}
    /\ diff' = NoDiff /\ diffs' = {}
    /\ draft' = None
    /\ regression' = None /\ test' = NoTest
    /\ UNCHANGED saved

-----------------------------------------------------------------------------

DialogsNext ==
    \/ \E e \in Evaluators : OpenVersionModal(e)
    \/ OpenTestModal
    \/ VersionsListed \/ VersionsFail \/ CloseVersionModal \/ DiffEnds
    \/ \E v \in 1..entries.last : SelectVersion(v)
    \/ TypeDraft \/ HandleSaveRegressionDraft \/ HandleRunRegression \/ RegressionEnds
    \/ CloseTestModal \/ HandleTest \/ TestEnds
    \/ LeaveList

DialogsSpec == DialogsInit /\ [][DialogsNext]_dialogVars

-----------------------------------------------------------------------------

\* Once loading has ended, the differences the dialog shows are those of the
\* evaluator it is open for, between the version selected and its base: no
\* answer to an earlier question is shown under a later one, however the answers
\* overtake each other (the diff effect of EvaluatorListPage.tsx).
DiffMatchesSelection ==
    diff.shown # None /\ ~diff.loading =>
       modal.open /\ diff.shown = Question(modal.target, entries.last, selected)

\* What was written for one evaluator is never kept as the draft of another,
\* although the page has one text for all of them (EvaluatorListPage.tsx).
DraftsStayApart == \A e \in Evaluators : saved[e] \in {None, e}
=============================================================================
