----------------------------- MODULE DialogPages -----------------------------
(***************************************************************************)
(* The pages that show what the server has and change it with buttons and  *)
(* dialogs: a dataset, a prompt, the prompts, a trace, the traces and the  *)
(* monitor rules. They differ in what the first part of this module lists: *)
(* their busy flags, their handlers -- the flag each sets, the dialog it   *)
(* closes, whether it loads the page again -- and their dialogs with the   *)
(* handler each confirms.                                                  *)
(***************************************************************************)
EXTENDS AsyncResource

CONSTANTS Screens,      \* the pages
          Items,        \* rows: examples, versions, rules, alerts, actions
          Views,        \* what the address selects: a search, a filter, a page
          MaxItemLoads, \* bound: loads in flight
          MaxSaves      \* bound: changes in flight

VARIABLES
    screen,   \* the page that is mounted
    view,     \* the address
    items,    \* the resource; of a trace, its actions
    saves,    \* a bag: the handlers whose change is posted and not answered
    flag,     \* what each busy flag names: nothing, an item, or the whole form
    popup     \* the dialog that is open

dialogPageVars == <<screen, view, items, saves, flag, popup>>

Form == "form"

-----------------------------------------------------------------------------
(* Busy flags: one for a form, or one slot that names a row.               *)

DatasetFlags == [submitting |-> "form"]
PromptFlags == [savingVersion |-> "form", previewLoading |-> "form"]
PromptListFlags == [creating |-> "form"]
MonitoringFlags ==
    [saving |-> "form", submittingRuleId |-> "slot", resolvingAlertId |-> "slot"]
TraceFlags ==
    [feedbackLoading |-> "form", backfillLoading |-> "form", retryingActionId |-> "slot"]
TraceListFlags == [submitting |-> "form"]

FlagsOf == [dataset |-> DatasetFlags, prompt |-> PromptFlags, prompts |-> PromptListFlags,
            monitoring |-> MonitoringFlags, trace |-> TraceFlags, traces |-> TraceListFlags]

\* Nothing is no flag's name, and no form's mark.
ASSUME DialogAssumption ==
    /\ None # Form
    /\ \A s \in Screens : None \notin DOMAIN FlagsOf[s]

-----------------------------------------------------------------------------
(* Handlers: the flag, the dialog closed on success, and what comes after. *)

Handler(sets, closes, then) == [sets |-> sets, closes |-> closes, then |-> then]

EditHandlers ==
    [EditSave |-> Handler("submitting", "edit", "reload"),
     Delete   |-> Handler(None, None, "reload")]
ExampleHandlers ==
    [AddExample |-> Handler("submitting", "add", "reload"),
     Import     |-> Handler(None, None, "reload"),
     SchemaSave |-> Handler("submitting", "schema", "reload")]
DatasetVersionHandlers ==
    [RollbackVersion        |-> Handler("submitting", "rollback", "reload"),
     VersionDescriptionSave |-> Handler("submitting", "version", "reload")]
PromptHandlers ==
    [CreateVersion |-> Handler("savingVersion", "version", "reload"),
     Rollback      |-> Handler(None, None, "reload"),
     Release       |-> Handler(None, None, "reload"),
     Preview       |-> Handler("previewLoading", None, "stay")]
\* It goes to the page of the new prompt when the list is there again.
PromptListHandlers == [Create |-> Handler("creating", "create", "leave")]
MonitoringHandlers ==
    [SubmitForm   |-> Handler("saving", "rule", "reload"),
     RunRule      |-> Handler("submittingRuleId", None, "reload"),
     ResolveAlert |-> Handler("resolvingAlertId", None, "reload")]
TraceHandlers ==
    [SubmitFeedback    |-> Handler("feedbackLoading", None, "stay"),
     BackfillToDataset |-> Handler("backfillLoading", "dataset", "reload"),
     SendToAnnotation  |-> Handler("backfillLoading", None, "reload"),
     RetryAction       |-> Handler("retryingActionId", None, "reload")]
TraceListHandlers ==
    [BackfillTraces |-> Handler("submitting", "dataset", "stay"),
     AnnotateTraces |-> Handler("submitting", None, "stay")]

HandlersOf == [dataset |-> EditHandlers @@ ExampleHandlers @@ DatasetVersionHandlers,
               prompt |-> PromptHandlers, prompts |-> PromptListHandlers,
               monitoring |-> MonitoringHandlers, trace |-> TraceHandlers,
               traces |-> TraceListHandlers]

-----------------------------------------------------------------------------
(* Dialogs, with the handler their last button calls.                      *)

ExampleDialogs == [add |-> "AddExample", schema |-> "SchemaSave", edit |-> "EditSave"]
VersionDialog == [version |-> "VersionDescriptionSave"]
RollbackDialog == [rollback |-> "RollbackVersion"]
PromptDialog == [version |-> "CreateVersion"]
PromptListDialog == [create |-> "Create"]
RuleDialog == [rule |-> "SubmitForm"]
TraceDialog == [dataset |-> "BackfillToDataset"]
TraceListDialog == [dataset |-> "BackfillTraces"]

DialogsOf == [dataset |-> ExampleDialogs @@ VersionDialog @@ RollbackDialog,
              prompt |-> PromptDialog, prompts |-> PromptListDialog,
              monitoring |-> RuleDialog, trace |-> TraceDialog, traces |-> TraceListDialog]

\* What is opened or clicked on a row.
ExampleRow == {"edit", "Delete"}
VersionRow == {"version", "rollback"}
PromptVersionRow == {"Rollback"}
MonitoringRow == {"RunRule", "ResolveAlert"}
ActionRow == {"RetryAction"}
OnRow == [dataset |-> ExampleRow \cup VersionRow, prompt |-> PromptVersionRow,
          prompts |-> {}, monitoring |-> MonitoringRow, trace |-> ActionRow, traces |-> {}]

\* Pages whose dialog cannot be closed while it is saved, and whose dialog cannot
\* be opened while the flag of its form is on.
Locked == {"prompt", "prompts"}
OpensWhenFree == {"trace", "traces"}

Page == HandlersOf[screen]
FlagKind(h) == IF Page[h].sets = None THEN "none" ELSE FlagsOf[screen][Page[h].sets]
Busy(h) == FlagKind(h) = "form" /\ flag[Page[h].sets] = Form

DialogPagesInit ==
    /\ screen \in Screens
    /\ view \in Views
    /\ items = Mounted
    /\ saves = EmptyBag
    /\ flag = [f \in DOMAIN FlagsOf[screen] |-> None]
    /\ popup = None

-----------------------------------------------------------------------------
(* Loading                                                                 *)

\* frees is the flag that is reset when the load has ended; leaves, whether the
\* page is left then.
LoadFor(frees, leaves) ==
    /\ Len(items.calls) < MaxItemLoads
    /\ items' = Load(items, [view |-> view', frees |-> frees, leaves |-> leaves])

MountItems ==
    /\ items = Mounted
    /\ UNCHANGED <<screen, view, saves, flag, popup>>
    /\ LoadFor(None, FALSE)

\* A prompt and a trace show the same whatever the rest of the address says.
Browse ==
    /\ screen \notin {"prompt", "trace"} /\ items # Mounted
    /\ \E v \in Views \ {view} : view' = v
    /\ LoadFor(None, FALSE)
    /\ UNCHANGED <<screen, saves, flag, popup>>

\* Nothing on the page of a trace loads its actions again.
RetryItems ==
    /\ items.failed /\ screen # "trace"
    /\ UNCHANGED <<screen, view, saves, flag, popup>>
    /\ LoadFor(None, FALSE)

ServeItems(i) ==
    /\ items' = Served(items, i, items.calls[i].key.view)
    /\ UNCHANGED <<screen, view, saves, flag, popup>>

Reset(f) == IF f = None THEN flag ELSE [flag EXCEPT ![f] = None]

\* The page that comes back later starts anew; what it had in flight has no effect.
LeavePage ==
    /\ items' = Mounted /\ saves' = EmptyBag /\ popup' = None
    /\ flag' = [f \in DOMAIN flag |-> None]
    /\ UNCHANGED <<screen, view>>

\* The i-th load ends and leaves the resource as r.
ItemsEnd(i, r) ==
    LET key == items.calls[i].key IN
    IF key.leaves THEN LeavePage
    ELSE /\ items' = r
         /\ flag' = Reset(key.frees)
         /\ UNCHANGED <<screen, view, saves, popup>>

ItemStep ==
    \/ \E i \in Waiting(items) : ServeItems(i) \/ ItemsEnd(i, Failed(items, i))
    \/ \E i \in Answered(items) : ItemsEnd(i, Applied(items, i))

-----------------------------------------------------------------------------
(* Buttons and dialogs                                                     *)

\* Of a dataset and of the prompts an error takes the place of the whole page,
\* the dialogs included.
PageShown ==
    items # Mounted /\ (items.failed => screen \notin {"dataset", "prompt", "prompts"})

\* Rows hide while they load, those of the monitoring page excepted; an error hides
\* them too, but the page of a trace does not look at it.
RowsListed ==
    /\ PageShown /\ items.data # None
    /\ items.loading => screen = "monitoring"
    /\ items.failed => screen = "trace"

OpenBox ==
    /\ PageShown /\ popup = None
    /\ \E d \in DOMAIN DialogsOf[screen] :
          /\ d \in OnRow[screen] => RowsListed
          /\ screen \in OpensWhenFree => ~Busy(DialogsOf[screen][d])
          /\ popup' = d
    /\ UNCHANGED <<screen, view, items, saves, flag>>

\* Mutant: a dialog that closes is no longer busy.
CloseBoxResets ==
    /\ popup # None /\ popup' = None
    /\ flag' = [f \in DOMAIN flag |-> None]
    /\ UNCHANGED <<screen, view, items, saves>>

\* The change that is being saved goes on.
CloseBox ==
    /\ PageShown /\ popup # None /\ popup' = None
    /\ screen \in Locked => ~Busy(DialogsOf[screen][popup])
    /\ UNCHANGED <<screen, view, items, saves, flag>>

\* The button of the handler, for a row's handler the one on the item's row.
Enabled(h, item) ==
    /\ PageShown
    /\ IF \E d \in DOMAIN DialogsOf[screen] : DialogsOf[screen][d] = h
       THEN popup # None /\ DialogsOf[screen][popup] = h
       ELSE popup = None /\ (h \in OnRow[screen] => RowsListed)
    /\ ~Busy(h)
    /\ h = "Preview" => items.data # None  \* the version it renders is known
    /\ FlagKind(h) = "slot" => flag[Page[h].sets] # item

Click(h) ==
    /\ BagCardinality(saves) < MaxSaves
    /\ saves' = saves (+) SetToBag({h})
    /\ \E item \in Items :
          /\ Enabled(h, item)
          /\ flag' = IF Page[h].sets = None THEN flag
                     ELSE [flag EXCEPT ![Page[h].sets] =
                              IF FlagKind(h) = "form" THEN Form ELSE item]
    /\ UNCHANGED <<screen, view, items, popup>>

\* The text is not JSON, the server refuses, or an answer is lost: the flag is
\* reset, the dialog stays.
SaveFails(h) ==
    /\ flag' = Reset(Page[h].sets)
    /\ UNCHANGED <<items, popup>>

\* The handler's dialog is closed, whatever it is open for by now, and the page
\* is loaded again; the flag stays until that has ended.
SaveDone(h) ==
    /\ popup' = IF popup = Page[h].closes THEN None ELSE popup
    /\ IF Page[h].then = "stay" THEN flag' = Reset(Page[h].sets) /\ UNCHANGED items
       ELSE LoadFor(Page[h].sets, Page[h].then = "leave") /\ UNCHANGED flag

SaveEnds ==
    /\ UNCHANGED <<screen, view>>
    /\ \E h \in BagToSet(saves) :
          /\ saves' = saves (-) SetToBag({h})
          /\ SaveFails(h) \/ SaveDone(h)

-----------------------------------------------------------------------------

DialogPagesNext ==
    \/ MountItems \/ Browse \/ RetryItems \/ ItemStep
    \/ OpenBox \/ CloseBox
    \/ \E h \in DOMAIN Page : Click(h)
    \/ SaveEnds

DialogPagesSpec == DialogPagesInit /\ [][DialogPagesNext]_dialogPageVars

-----------------------------------------------------------------------------

\* How many handlers that set the flag f are in flight or loading the page again.
Underway(f) ==
    BagCardinality([h \in {g \in BagToSet(saves) : Page[g].sets = f} |-> saves[h]])
    + Cardinality({i \in DOMAIN items.calls : items.calls[i].key.frees = f})

\* The handlers that share the flag of a form never overlap -- a rollback with an
\* edit of the same dataset, the backfill of a trace with its annotation --
\* however dialogs are closed and opened meanwhile; and the flag is on exactly as
\* long as one of them is underway, so that no form stays disabled (the finally
\* of every handler, the loading of every button).
SavesTakeTurns ==
    \A f \in DOMAIN flag : FlagsOf[screen][f] = "form" =>
       /\ Underway(f) <= 1
       /\ flag[f] = Form <=> Underway(f) = 1
=============================================================================
