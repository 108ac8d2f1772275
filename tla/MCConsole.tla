------------------------------ MODULE MCConsole ------------------------------
(***************************************************************************)
(* The console, one page at a time: a tab shows one route, and the pages   *)
(* share nothing but the server. The route is chosen in the beginning;     *)
(* what belongs to the other routes does not move.                         *)
(***************************************************************************)
EXTENDS ConsoleSession, SettingsPage, ListPages, ExperimentPages,
        NewExperimentPage, EvaluatorDialogs, EvaluatorForm, DialogPages

CONSTANTS u1, u2, p1, p2, w1, w2, e1, e2, d1, d2, q1, j1, j2

VARIABLE route  \* the page that is open

Routes == {"session", "settings", "list", "experiment", "new experiment",
           "evaluators", "new evaluator", "dialogs"}

consoleVars == <<sessionVars, settingsVars, listVars, experimentVars, formVars,
                 dialogVars, evaluatorFormVars, dialogPageVars, route>>

MCRoles == [p \in {p1, p2} |-> IF p = p1 THEN "viewer" ELSE "owner"]
MCGranted == {[u \in Users |-> IF u = u1 THEN MCRoles ELSE NoProjects]}
MCWorkspaceRole == [w \in Workspaces |-> IF w = w2 THEN "developer" ELSE "owner"]
MCPagesOf == [s \in Terms \X Picks |-> IF s = <<NoTerm, None>> THEN 2 ELSE 1]
MCWatches == {{}, {e1}, {e1, e2}}
MCVersionsOf == [d \in {d1, d2} |-> IF d = d1 THEN <<2, 1>> ELSE <<1>>]
MCSplitsOf == [d \in {d1, d2} |-> IF d = d1 THEN {"test"} ELSE {"default"}]
MCPromptVersionsOf == [q \in {q1} |-> <<2>>]
MCVersionsOfEvaluator == [e \in Evaluators |-> IF e = e1 THEN 2 ELSE 1]
MCJudgesWith == [e \in Sources |-> IF e = e1 THEN "rule" ELSE "project_model"]
MCModelsOf == [j \in JudgeProjects |-> IF j = j1 THEN "default" ELSE "none"]

-----------------------------------------------------------------------------

\* A state of a route that is not open is one of its initial states.
Pick(S) == CHOOSE x \in S : TRUE
ConsoleInit ==
    /\ route \in Routes
    /\ SessionInit /\ SettingsInit /\ ListInit /\ ExperimentPagesInit
    /\ FormInit /\ DialogsInit /\ EvaluatorFormInit /\ DialogPagesInit
    /\ route # "session" => /\ cookie = Nobody /\ remembered = Nobody
                            /\ \A c \in inFlight : c.id = Pick(Calls)
    /\ route # "settings" => chosen = Pick(AtFirst)
    /\ route # "experiment" => watched = {}
    /\ route # "new evaluator" => project = Pick(JudgeProjects)
    /\ route # "dialogs" => screen = Pick(Screens) /\ view = Pick(Views)

Still(r, vars) == IF route = r THEN TRUE ELSE UNCHANGED vars

\* What stays while something happens on the open page.
OthersStay ==
    /\ UNCHANGED route
    /\ Still("session", sessionVars)
    /\ Still("settings", settingsVars)
    /\ Still("list", listVars)
    /\ Still("experiment", experimentVars)
    /\ Still("new experiment", formVars)
    /\ Still("evaluators", dialogVars)
    /\ Still("new evaluator", evaluatorFormVars)
    /\ Still("dialogs", dialogPageVars)

ConsoleNext ==
    \/ route = "session" /\ SessionNext /\ OthersStay
    \/ route = "settings" /\ SettingsNext /\ OthersStay
    \/ route = "list" /\ ListNext /\ OthersStay
    \/ route = "experiment" /\ ExperimentPagesNext /\ OthersStay
    \/ route = "new experiment" /\ FormNext /\ OthersStay
    \/ route = "evaluators" /\ DialogsNext /\ OthersStay
    \/ route = "new evaluator" /\ EvaluatorFormNext /\ OthersStay
    \/ route = "dialogs" /\ DialogPagesNext /\ OthersStay

\* Timers fire, requests are answered, and the worker goes on.
ConsoleFairness ==
    /\ WF_consoleVars(route = "list" /\ CommitSearch /\ OthersStay)
    /\ WF_consoleVars(route = "list" /\ ListStep /\ OthersStay)
    /\ WF_consoleVars(route = "experiment" /\ WorkerMoves /\ OthersStay)
    /\ WF_consoleVars(route = "experiment" /\ MountPage /\ OthersStay)
    /\ WF_consoleVars(route = "experiment" /\ PageStep /\ OthersStay)
    /\ WF_consoleVars(route = "experiment" /\ Poll /\ OthersStay)
    /\ WF_consoleVars(route = "experiment" /\ EvaluatePolls /\ OthersStay)

ConsoleSpec == ConsoleInit /\ [][ConsoleNext]_consoleVars /\ ConsoleFairness
=============================================================================
