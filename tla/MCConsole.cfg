SPECIFICATION ConsoleSpec
CONSTANTS
  None = None
  Nobody = Nobody
  u1 = u1  u2 = u2  p1 = p1  p2 = p2
  w1 = w1  w2 = w2  e1 = e1  e2 = e2
  d1 = d1  d2 = d2  q1 = q1  j1 = j1  j2 = j2
  \* ConsoleSession
  Users = {u1, u2}
  Projects = {p1, p2}
  Sessions = {1, 2}
  Calls = {1, 2}
  NewProjects = {p2}
  Granted <- MCGranted
  \* SettingsPage
  Workspaces = {w1, w2}
  AtFirst = {w1}
  WorkspaceRole <- MCWorkspaceRole
  ModelButtons = {"TestModel"}
  Rows = {"row"}
  MaxChanges = 1
  MaxLoads = 2
  MaxPosts = 1
  \* ListPages
  Terms = {"", "term"}
  NoTerm = ""
  Filters = {"filter"}
  PagesOf <- MCPagesOf
  MaxTyped = 2
  MaxListed = 2
  \* ExperimentPages
  Experiments = {e1, e2}
  Opened = e1
  Watches <- MCWatches
  MaxRewrites = 1
  MaxPresses = 1
  MaxShownLoads = 1
  MaxPolls = 2
  \* NewExperimentPage
  VersionsOf <- MCVersionsOf
  SplitsOf <- MCSplitsOf
  PromptVersionsOf <- MCPromptVersionsOf
  MaxConfigs = 2
  \* EvaluatorDialogs
  Evaluators = {e1, e2}
  VersionsOfEvaluator <- MCVersionsOfEvaluator
  MaxCalls = 2
  \* EvaluatorForm
  Sources = {e1, e2}
  JudgesWith <- MCJudgesWith
  JudgeProjects = {j1, j2}
  ModelsOf <- MCModelsOf
  MayManage = {j1}
  MaxClones = 2
  MaxModelLoads = 2
  MaxLeft = 1
  \* DialogPages
  Screens = {"dataset", "prompt", "prompts", "trace", "traces", "monitoring"}
  Items = {"item1", "item2"}
  Views = {"view1", "view2"}
  MaxItemLoads = 2
  MaxSaves = 2
INVARIANT StoreAgrees
INVARIANT SettledSettings
INVARIANT FilterSurvivesSearch
INVARIANT ComparisonsHaveACause
INVARIANT VersionIsOffered
INVARIANT DiffMatchesSelection
INVARIANT SavesTakeTurns
PROPERTY EditsSurviveClone
PROPERTY SearchIsCommitted
PROPERTY OutcomeShown
CHECK_DEADLOCK FALSE
