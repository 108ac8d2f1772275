---------------------------- MODULE SettingsPage ----------------------------
(***************************************************************************)
(* The settings of the current project: its members, API keys and models.  *)
(* Every handler posts a change and then loads everything again. The rows  *)
(* shown are those of the last load applied; what a click posts to is the  *)
(* current project of the store. A project's members, keys and models are  *)
(* one revision number, which every change of one of them raises.          *)
(***************************************************************************)
EXTENDS AsyncResource, FiniteSetsExt

CONSTANTS Workspaces,   \* projects, existing or not yet created
          AtFirst,      \* those the user is a member of when the page opens
          WorkspaceRole,\* the user's role in each of them
          ModelButtons, \* the buttons pressed in the rows of the models
          Rows,         \* ids of members, keys and models
          MaxChanges,   \* bound: changes made to all of them
          MaxLoads,     \* bound: loads in flight
          MaxPosts      \* bound: changes in flight

ASSUME SettingsAssumption ==
    /\ AtFirst \subseteq Workspaces /\ AtFirst # {}
    /\ WorkspaceRole \in [Workspaces -> {"owner", "developer", "viewer"}]
    /\ ModelButtons \subseteq {"DeleteModel", "TestModel", "SetDefaultModel"}
    /\ None \notin Workspaces \cup Rows

VARIABLES
    settings,   \* the resource: which project's settings are shown
    chosen,     \* currentProject of the store
    posts,      \* changes posted and not answered
    busy,       \* the row each busy flag names; each is one slot for all rows
    dialog,     \* the dialog that is open
    member,     \* server: the projects the user is a member of
    revision,   \* server: the changes made to each project
    inStep      \* ghost: no load was overtaken, no answer lost

settingsVars == <<settings, chosen, posts, busy, dialog, member, revision, inStep>>

Slots == {"member", "testing", "defaulting", "deleting", "saving"}

\* What each handler has in common with the others: the flag it sets, the
\* dialog it closes.
Handlers == [
    CreateProject    |-> [slot |-> None,         closes |-> "project"],
    CreateApiKey     |-> [slot |-> None,         closes |-> "key"],
    DeleteApiKey     |-> [slot |-> None,         closes |-> None],
    SaveModel        |-> [slot |-> "saving",     closes |-> "model"],
    DeleteModel      |-> [slot |-> "deleting",   closes |-> None],
    TestModel        |-> [slot |-> "testing",    closes |-> None],
    SetDefaultModel  |-> [slot |-> "defaulting", closes |-> None],
    AddMember        |-> [slot |-> "member",     closes |-> "member"],
    UpdateMemberRole |-> [slot |-> "member",     closes |-> None],
    RemoveMember     |-> [slot |-> "member",     closes |-> None]]

SettingsInit ==
    /\ settings = Mounted
    /\ chosen \in AtFirst
    /\ posts = {}
    /\ busy = [s \in Slots |-> None]
    /\ dialog = None
    /\ member = AtFirst
    /\ revision = [p \in Workspaces |-> 0]
    /\ inStep = TRUE

-----------------------------------------------------------------------------
(* Loading                                                                 *)

\* The loader of the last rendering asks for the project that was current
\* then; frees is the flag a handler resets when the load has ended.
Reload(project, frees) ==
    /\ Len(settings.calls) < MaxLoads
    /\ settings' = Load(settings, [project |-> project, frees |-> frees])
    /\ inStep' = (inStep /\ Quiet(settings))

MountSettings ==
    /\ settings = Mounted
    /\ Reload(chosen, None)
    /\ UNCHANGED <<chosen, posts, busy, dialog, member, revision>>

\* loadSettings: the project asked for, or the first one listed.
LoadSettings(i) ==
    LET asked == settings.calls[i].key.project IN
    /\ \E p \in IF asked \in member THEN {asked} ELSE member :
          settings' = Served(settings, i,
             [project |-> p, revision |-> revision[p], projects |-> member])
    /\ UNCHANGED <<chosen, posts, busy, dialog, member, revision,
                   inStep>>

Free(slot) == IF slot = None THEN busy ELSE [busy EXCEPT ![slot] = None]

\* The answer is shown, and the effect gives its projects to the store: when
\* the current one is not among them, another is chosen and loaded.
SettingsLoaded(i) ==
    LET call == settings.calls[i]
        after == Applied(settings, i)
    IN
    /\ IF chosen \in call.answer.projects
       THEN settings' = after /\ UNCHANGED <<chosen, inStep>>
       ELSE /\ chosen' = call.answer.project
            /\ settings' = Load(after, [project |-> chosen', frees |-> None])
            /\ inStep' = (inStep /\ Quiet(after))
    /\ busy' = Free(call.key.frees)
    /\ UNCHANGED <<posts, dialog, member, revision>>

SettingsFailed(i) ==
    /\ settings' = Failed(settings, i)
    /\ busy' = Free(settings.calls[i].key.frees)
    /\ UNCHANGED <<chosen, posts, dialog, member, revision, inStep>>

RetrySettings ==
    /\ settings.failed
    /\ Reload(chosen, None)
    /\ UNCHANGED <<chosen, posts, busy, dialog, member, revision>>

\* The header's selection, or the list of projects of the page.
ChooseWorkspace(p) ==
    /\ p # chosen /\ chosen' = p
    /\ Reload(p, None)
    /\ UNCHANGED <<posts, busy, dialog, member, revision>>

-----------------------------------------------------------------------------
(* What the page shows                                                     *)

\* The tabs: hidden behind an error, shown while other settings are loading.
RowsShown == settings.data # None /\ ~settings.failed

\* data?.currentProjectRole ?? currentProjectRole
Role == WorkspaceRole[IF settings.data = None THEN chosen ELSE settings.data.project]

CanManageMembers == Role = "owner"
CanManageKeys == Role \in {"owner", "developer"}
CanEditModels == Role \in {"owner", "developer"}

OpenDialog(name) ==
    /\ dialog = None /\ dialog' = name
    /\ UNCHANGED <<settings, chosen, posts, busy, member, revision, inStep>>

\* The tab of the projects.
OpenProjectDialog ==
    /\ ~settings.failed
    /\ OpenDialog("project")

\* The tab of the members: their own rows are locked for owners, which the
\* choice of the row stands for.
OpenMemberDialog ==
    /\ ~settings.failed /\ CanManageMembers
    /\ OpenDialog("member")

MemberRowEnabled(row) ==
    RowsShown /\ CanManageMembers /\ busy["member"] # row

\* The tab of the API keys hides its rows while it loads.
OpenKeyDialog ==
    /\ ~settings.failed /\ CanManageKeys
    /\ OpenDialog("key")

KeyRowEnabled == RowsShown /\ ~settings.loading /\ CanManageKeys

\* The tab of the models.
ModelRowEnabled(row, slot) == RowsShown /\ CanEditModels /\ busy[slot] # row

\* For a new model, or for one of the rows.
HandleOpenModel ==
    /\ ~settings.failed /\ CanEditModels
    /\ OpenDialog("model")

\* Cancel, the backdrop and Escape close a dialog, also while it is saved.
CloseDialog ==
    /\ dialog # None /\ dialog' = None
    /\ UNCHANGED <<settings, chosen, posts, busy, member, revision,
                   inStep>>

-----------------------------------------------------------------------------
(* The handlers                                                            *)

\* The change is posted to the current project, whosever rows are shown.
Post(handler, row) ==
    LET slot == Handlers[handler].slot IN
    /\ \E n \in 1..MaxPosts :
          /\ \A c \in posts : c.id # n
          /\ posts' = posts \cup {[id |-> n, handler |-> handler, row |-> row,
                                   project |-> chosen]}
    /\ busy' = IF slot = None THEN busy ELSE [busy EXCEPT ![slot] = row]
    /\ UNCHANGED <<settings, chosen, dialog, member, revision, inStep>>

HandleCreateProject == dialog = "project" /\ Post("CreateProject", "create")
HandleCreateApiKey == dialog = "key" /\ Post("CreateApiKey", "create")
HandleDeleteApiKey(row) == KeyRowEnabled /\ dialog = None /\ Post("DeleteApiKey", row)
HandleSaveModel ==
    /\ dialog = "model" /\ busy["saving"] = None
    /\ Post("SaveModel", "create")
\* Deletes a model, tests it or makes it the default one.
HandleModelButton(row) ==
    \E handler \in ModelButtons :
       /\ ModelRowEnabled(row, Handlers[handler].slot) /\ dialog = None
       /\ Post(handler, row)
HandleAddMember ==
    dialog = "member" /\ busy["member"] # "create" /\ Post("AddMember", "create")
HandleUpdateMemberRole(row) ==
    MemberRowEnabled(row) /\ dialog = None /\ Post("UpdateMemberRole", row)
HandleRemoveMember(row) ==
    MemberRowEnabled(row) /\ dialog = None /\ Post("RemoveMember", row)

\* The first of two changes that share a flag resets it for both.
PostFailed(c) ==
    /\ busy' = Free(Handlers[c.handler].slot)
    /\ UNCHANGED <<settings, chosen, dialog>>

\* Refused, or lost before it reached the server.
PostRefused(c) ==
    /\ PostFailed(c)
    /\ UNCHANGED <<member, revision, inStep>>

Bumped(p) == [revision EXCEPT ![p] = @ + 1]

Allowed(c) ==
    c.project \in member /\ MapThenSumSet(LAMBDA p : revision[p], Workspaces) < MaxChanges

\* The change was made, but its answer was lost: nothing is loaded again.
PostAnswerLost(c) ==
    /\ c.handler \notin {"TestModel", "CreateProject"} /\ Allowed(c)
    /\ revision' = Bumped(c.project)
    /\ inStep' = FALSE
    /\ PostFailed(c)
    /\ UNCHANGED member

\* Its own dialog, which by now may be open for something else.
CloseIts(c) ==
    dialog' = IF dialog = Handlers[c.handler].closes THEN None ELSE dialog

\* Mutant: the rows are not loaded again after the change.
ChangeDoneKeepsRows(c) ==
    /\ c.handler \notin {"TestModel", "CreateProject"} /\ Allowed(c)
    /\ revision' = Bumped(c.project)
    /\ CloseIts(c)
    /\ busy' = Free(Handlers[c.handler].slot)
    /\ UNCHANGED <<settings, inStep, chosen, member>>

\* Everything is loaded again, for the project that is current by now, and the
\* flag stays until that has ended.
ChangeDone(c) ==
    /\ c.handler \notin {"TestModel", "CreateProject"} /\ Allowed(c)
    /\ revision' = Bumped(c.project)
    /\ CloseIts(c)
    /\ Reload(chosen, Handlers[c.handler].slot)
    /\ UNCHANGED <<chosen, busy, member>>

TestDone(c) ==
    /\ c.handler = "TestModel" /\ Allowed(c)
    /\ busy' = Free("testing")
    /\ UNCHANGED <<settings, chosen, dialog, member, revision, inStep>>

\* The new project becomes the current one and the page loads again: with the
\* loader of the last rendering, for the old project, and by its effect, for
\* the new one. The load that ends last is what the page shows.
ProjectCreatedDone(c) ==
    /\ c.handler = "CreateProject"
    /\ Len(settings.calls) < MaxLoads
    /\ \E p \in Workspaces \ member :
          /\ member' = member \cup {p}
          /\ chosen' = p
          /\ settings' = Load(Load(settings, [project |-> chosen, frees |-> None]),
                              [project |-> p, frees |-> None])
    /\ inStep' = FALSE
    /\ CloseIts(c)
    /\ UNCHANGED <<busy, revision>>

PostEnds ==
    \E c \in posts :
       /\ posts' = posts \ {c}
       /\ \/ PostRefused(c) \/ PostAnswerLost(c) \/ ChangeDone(c)
          \/ TestDone(c) \/ ProjectCreatedDone(c)

LoadStep ==
    \/ \E i \in Waiting(settings) : LoadSettings(i) \/ SettingsFailed(i)
    \/ \E i \in Answered(settings) : SettingsLoaded(i)

RowHandler(row) ==
    \/ HandleDeleteApiKey(row) \/ HandleModelButton(row)
    \/ HandleUpdateMemberRole(row) \/ HandleRemoveMember(row)

SettingsNext ==
    \/ MountSettings \/ LoadStep \/ RetrySettings
    \/ settings # Mounted /\ \E p \in member : ChooseWorkspace(p)
    \/ OpenProjectDialog \/ OpenMemberDialog \/ OpenKeyDialog
    \/ HandleOpenModel \/ CloseDialog
    \/ HandleCreateProject \/ HandleCreateApiKey \/ HandleSaveModel \/ HandleAddMember
    \/ \E row \in Rows : RowHandler(row)
    \/ PostEnds

SettingsSpec == SettingsInit /\ [][SettingsNext]_settingsVars

-----------------------------------------------------------------------------

\* When nothing is in flight every row's controls are enabled again and, unless
\* a load was overtaken by another or an answer was lost, the page shows the
\* settings of the current project as the server has them: no change made here
\* and no change of project leaves older rows behind (SettingsPage.tsx).
SettledSettings ==
    settings # Mounted /\ Quiet(settings) /\ posts = {} =>
       /\ \A s \in Slots : busy[s] = None
       /\ inStep /\ ~settings.failed /\ chosen \in member =>
             /\ settings.data.project = chosen
             /\ settings.data.revision = revision[chosen]
=============================================================================
