--------------------------- MODULE ExperimentPages ---------------------------
(***************************************************************************)
(* How the outcome of an experiment reaches those who wait for it: the     *)
(* list and the detail page, which poll while what they show is active,    *)
(* the baseline tab of the detail page, which compares by itself, and the  *)
(* evaluate call of the TypeScript client.                                 *)
(*                                                                         *)
(* A change of the tab's state, the rendering of that state and the effect *)
(* of that rendering are three steps: answers and clicks come in between,  *)
(* and a click finds what the last rendering shows.                        *)
(***************************************************************************)
EXTENDS AsyncResource

CONSTANTS Experiments,
          Opened,       \* the experiment of the detail page
          Watches,      \* what the page shows: {Opened} on the detail page, more on
                        \* the list, nothing when the client is the one who waits
          MaxRewrites,  \* bound: statuses that are not the next one in turn
          MaxPresses,   \* bound: clicks on the button of one opening of the tab
          MaxShownLoads,\* bound: loads in flight when the user asks for another
          MaxPolls      \* bound: polls of evaluate, 120 in the code

ASSUME WatchAssumption ==
    /\ Opened \in Experiments
    /\ Watches \subseteq SUBSET Experiments

VARIABLES
    watched,    \* the experiments the page shows
    status,     \* server: status of each experiment
    rewrites,   \* how often a status was not the next one in turn
    baseline,   \* server: the baseline of the dataset
    shown,      \* the resource of the page
    polling,    \* the page has set its timer of 2.5 s
    asked,      \* handlers in flight: cancel, baseline
    tab,        \* the baseline tab: closed, or the baseline it has loaded
    compare,    \* compareData, compareLoading, the calls in flight and the clicks
                \* on the button
    rendered,   \* what the last rendering of the tab shows
    due,        \* the effect of that rendering compares, and has not run
    client      \* evaluate: where it is, and how often it has polled

pageVars == <<shown, polling, asked>>
tabVars == <<tab, compare, rendered, due>>
experimentVars == <<watched, status, rewrites, baseline, pageVars, tabVars, client>>

ActiveStatuses == {"pending", "running", "cancel_requested"}
Final == {"completed", "failed", "canceled"}

NoComparison ==
    [data |-> None, loading |-> FALSE, calls |-> 0, presses |-> 0]
NoTab == [open |-> FALSE, loading |-> FALSE, baseline |-> None]

\* What a rendering shows of the comparison with a baseline: the effect runs
\* again when one of the three has changed.
Shows(b, c) == [baseline |-> b, data |-> c.data, loading |-> c.loading]

ExperimentPagesInit ==
    /\ watched \in Watches
    /\ status = [e \in Experiments |-> "pending"] /\ rewrites = 0
    /\ baseline = None
    /\ shown = Mounted /\ polling = FALSE /\ asked = {}
    /\ tab = NoTab /\ compare = NoComparison
    /\ rendered = Shows(None, NoComparison) /\ due = FALSE
    /\ client = [at |-> "idle", polls |-> 0]

-----------------------------------------------------------------------------
(* The server                                                              *)

\* The run of an experiment goes on, and ends.
WorkerMoves ==
    /\ \E e \in watched \cup {Opened} :
          /\ status[e] \in ActiveStatuses
          /\ \E s \in Final \cup {"running"} :
                /\ s = "running" => status[e] = "pending"
                /\ status' = [status EXCEPT ![e] = s]
    /\ UNCHANGED <<watched, rewrites, baseline, pageVars, tabVars, client>>

\* What else can happen to a status, with one worker whose statements do not
\* fail (ExperimentJobs): somebody else cancels, a run is queued again after it
\* failed, has begun when it was canceled already, or ends as completed after
\* it was.
Rewrites == [pending |-> {"cancel_requested"},
             running |-> {"cancel_requested", "pending"},
             cancel_requested |-> {"pending", "running"},
             canceled |-> {"completed"}, completed |-> {}, failed |-> {}]

StatusRewritten ==
    /\ rewrites < MaxRewrites /\ rewrites' = rewrites + 1
    /\ \E e \in watched \cup {Opened} : \E s \in Rewrites[status[e]] :
          status' = [status EXCEPT ![e] = s]
    /\ UNCHANGED <<watched, baseline, pageVars, tabVars, client>>

-----------------------------------------------------------------------------
(* The page                                                                *)

ShownActive(data) == \E e \in watched : data[e] \in ActiveStatuses

MountPage ==
    /\ shown = Mounted /\ watched # {}
    /\ shown' = Load(shown, watched)
    /\ UNCHANGED <<watched, status, rewrites, baseline, polling, asked, tabVars,
                   client>>

ServeExperiments(i) ==
    /\ shown' = Served(shown, i, [e \in watched |-> status[e]])
    /\ UNCHANGED <<watched, status, rewrites, baseline, polling, asked, tabVars,
                   client>>

\* Mutant: the effect depends on the status and not on the data.
ExperimentsShownOnce(i) ==
    /\ shown' = Applied(shown, i)
    /\ polling' = IF shown'.data = shown.data THEN polling ELSE ShownActive(shown'.data)
    /\ UNCHANGED <<watched, status, rewrites, baseline, asked, tabVars, client>>

\* New data run the effect: the timer is cleared, and set again when one of
\* the experiments shown is active.
ExperimentsShown(i) ==
    /\ shown' = Applied(shown, i)
    /\ polling' = ShownActive(shown'.data)
    /\ UNCHANGED <<watched, status, rewrites, baseline, asked, tabVars, client>>

\* The tab is closed, and finds nothing of what it has asked for.
TabClosed ==
    /\ tab' = NoTab /\ compare' = NoComparison
    /\ rendered' = Shows(None, NoComparison) /\ due' = FALSE

\* The data stay, so the effect does not run: a poll that fails is the last.
\* The error takes the place of the page and of its tab.
ExperimentsFailed(i) ==
    /\ shown' = Failed(shown, i)
    /\ TabClosed
    /\ UNCHANGED <<watched, status, rewrites, baseline, polling, asked, client>>

Poll ==
    /\ polling /\ polling' = FALSE
    /\ shown' = Load(shown, watched)
    /\ UNCHANGED <<watched, status, rewrites, baseline, asked, tabVars, client>>

\* The user retries behind an error, or changes filter, sorting or page.
AskAgain ==
    /\ shown # Mounted /\ Len(shown.calls) < MaxShownLoads
    /\ shown' = Load(shown, watched)
    /\ UNCHANGED <<watched, status, rewrites, baseline, polling, asked, tabVars,
                   client>>

PageStep ==
    \/ \E i \in Waiting(shown) : ServeExperiments(i) \/ ExperimentsFailed(i)
    \/ \E i \in Answered(shown) : ExperimentsShown(i)

\* The detail page shows its buttons for the status shown, which may be old,
\* and none of them is disabled while its request is in flight.
DetailShown == watched = {Opened} /\ shown.data # None /\ ~shown.failed

HandleCancel ==
    /\ DetailShown /\ shown.data[Opened] \in ActiveStatuses
    /\ "cancel" \notin asked
    /\ asked' = asked \cup {"cancel"}
    /\ UNCHANGED <<watched, status, rewrites, baseline, shown, polling, tabVars,
                   client>>

HandleSetBaseline ==
    /\ DetailShown /\ "baseline" \notin asked
    /\ asked' = asked \cup {"baseline"}
    /\ UNCHANGED <<watched, status, rewrites, baseline, shown, polling, tabVars,
                   client>>

\* The server accepts what job and status allow, and the page loads again. A
\* cancellation looks at the job, which may be active when the status is not.
HandlerAnswered ==
    /\ Len(shown.calls) < MaxShownLoads
    /\ \/ /\ "cancel" \in asked
          /\ status' = IF status[Opened] \in {"pending", "running"}
                       THEN [status EXCEPT ![Opened] = "cancel_requested"] ELSE status
          /\ asked' = asked \ {"cancel"}
          /\ UNCHANGED baseline
       \/ /\ "baseline" \in asked /\ status[Opened] = "completed"
          /\ baseline' = Opened
          /\ asked' = asked \ {"baseline"}
          /\ UNCHANGED status
    /\ shown' = Load(shown, watched)
    /\ UNCHANGED <<watched, rewrites, polling, tabVars, client>>

\* Refused or failed: a toast.
HandlerFails ==
    /\ \E h \in asked : asked' = asked \ {h}
    /\ UNCHANGED <<watched, status, rewrites, baseline, shown, polling, tabVars,
                   client>>

-----------------------------------------------------------------------------
(* The baseline tab                                                        *)

ComparesWith(b) == b # None /\ b # Opened

\* handleCompare has begun.
Comparing(c) == [c EXCEPT !.loading = TRUE, !.calls = @ + 1]

\* Mutant: the effect does not look whether a comparison is loading.
StartsAgain(b, c) == ComparesWith(b) /\ c.data = None

\* The effect of a rendering with state c compares.
Starts(b, c) == ComparesWith(b) /\ c.data = None /\ ~c.loading

\* The tab is rendered with state c. The effect that is still due runs before,
\* as its own rendering decided, and changes the state once more.
RenderCompare(b, c) ==
    /\ compare' = IF due THEN Comparing(c) ELSE c
    /\ rendered' = Shows(b, compare')
    /\ due' = (rendered' # rendered /\ Starts(b, compare'))

OpenTab ==
    /\ DetailShown /\ ~tab.open
    /\ tab' = [open |-> TRUE, loading |-> TRUE, baseline |-> None]
    /\ UNCHANGED <<compare, rendered, due>>
    /\ UNCHANGED <<watched, status, rewrites, baseline, pageVars, client>>

CloseTab ==
    /\ tab.open /\ TabClosed
    /\ UNCHANGED <<watched, status, rewrites, baseline, pageVars, client>>

\* Somebody else makes another experiment the baseline.
OtherBaseline ==
    /\ \E e \in Experiments \ {Opened, baseline} : baseline' = e
    /\ UNCHANGED <<watched, status, rewrites, pageVars, tabVars, client>>

\* There is no comparison yet that the new baseline could make obsolete.
BaselineLoaded ==
    /\ tab.open /\ tab.loading
    /\ tab' = [tab EXCEPT !.loading = FALSE, !.baseline = baseline]
    /\ UNCHANGED <<compare, rendered, due>>
    /\ UNCHANGED <<watched, status, rewrites, baseline, pageVars, client>>

RenderTab ==
    /\ tab.open /\ Shows(tab.baseline, compare) # rendered
    /\ RenderCompare(tab.baseline, compare)
    /\ UNCHANGED <<watched, status, rewrites, baseline, pageVars, tab, client>>

\* The effect of the last rendering, which has been painted, compares.
AutoCompare ==
    /\ due /\ due' = FALSE
    /\ compare' = Comparing(compare)
    /\ UNCHANGED <<watched, status, rewrites, baseline, pageVars, tab, rendered,
                   client>>

ComparisonAnswered ==
    /\ compare.calls > 0
    /\ compare' = [compare EXCEPT !.data = tab.baseline, !.loading = FALSE,
                                  !.calls = @ - 1]
    /\ UNCHANGED <<watched, status, rewrites, baseline, pageVars, tab, rendered, due,
                   client>>

\* compareLoading goes back to false without data: once that is rendered the
\* effect compares again, for as long as the comparison fails.
ComparisonFails ==
    /\ compare.calls > 0
    /\ compare' = [compare EXCEPT !.loading = FALSE, !.calls = @ - 1]
    /\ UNCHANGED <<watched, status, rewrites, baseline, pageVars, tab, rendered, due,
                   client>>

\* The button is on the screen between a rendering without a comparison and
\* the next one. A click is rendered at once, after the effect still due.
HandleCompare ==
    /\ tab.open /\ ComparesWith(rendered.baseline)
    /\ rendered.data = None /\ ~rendered.loading
    /\ compare.presses < MaxPresses
    /\ RenderCompare(tab.baseline, [Comparing(compare) EXCEPT !.presses = @ + 1])
    /\ UNCHANGED <<watched, status, rewrites, baseline, pageVars, tab, client>>

-----------------------------------------------------------------------------
(* evaluate of the TypeScript client                                       *)

\* It has created the experiment and polls it.
Evaluate ==
    /\ client.at = "idle" /\ watched = {}
    /\ client' = [at |-> "polling", polls |-> 0]
    /\ UNCHANGED <<watched, status, rewrites, baseline, pageVars, tabVars>>

EvaluatePolls ==
    /\ client.at = "polling"
    /\ client' = IF client.polls = MaxPolls THEN [client EXCEPT !.at = "timed out"]
                 ELSE IF status[Opened] \in Final THEN [client EXCEPT !.at = status[Opened]]
                 ELSE [client EXCEPT !.polls = @ + 1]
    /\ UNCHANGED <<watched, status, rewrites, baseline, pageVars, tabVars>>

EvaluateFails ==
    /\ client.at = "polling" /\ client' = [client EXCEPT !.at = "failed request"]
    /\ UNCHANGED <<watched, status, rewrites, baseline, pageVars, tabVars>>

-----------------------------------------------------------------------------

TabStep == BaselineLoaded \/ RenderTab \/ AutoCompare \/ ComparisonAnswered

ExperimentPagesNext ==
    \/ WorkerMoves \/ StatusRewritten
    \/ MountPage \/ PageStep \/ Poll \/ AskAgain
    \/ HandleCancel \/ HandleSetBaseline \/ HandlerAnswered \/ HandlerFails
    \/ OpenTab \/ CloseTab \/ OtherBaseline
    \/ TabStep \/ ComparisonFails \/ HandleCompare
    \/ Evaluate \/ EvaluatePolls \/ EvaluateFails

ExperimentPagesSpec == ExperimentPagesInit /\ [][ExperimentPagesNext]_experimentVars

-----------------------------------------------------------------------------

\* Again and again the page shows nothing but final statuses, or an error that
\* offers to retry: no order of polls, retries and handlers leaves a page that
\* shows an experiment as running and has stopped asking (ExperimentListPage
\* and ExperimentDetailPage); and evaluate ends (index.ts).
OutcomeShown ==
    []<>(IF watched = {} THEN client.at # "polling"
         ELSE \/ shown.failed
              \/ shown.data # None /\ \A e \in watched : shown.data[e] \in Final)

\* However renderings, effects, clicks and answers follow each other, the tab
\* by itself never has two comparisons in flight: every one beyond the first
\* goes back to a click. And it says that it is loading only while there is one
\* (handleCompare and the effect of BaselineCompareTab).
ComparisonsHaveACause ==
    /\ compare.calls <= 1 + compare.presses
    /\ compare.loading => compare.calls > 0
=============================================================================
