----------------------- MODULE ExperimentPagesProofs ------------------------
(***************************************************************************)
(* The baseline tab never compares twice of its own accord, whatever the   *)
(* experiments, the baselines others set and the order of renderings,      *)
(* effects, clicks and answers. The form that starts an experiment offers  *)
(* what it sends, for any datasets, prompts and versions and any number of *)
(* loads in flight.                                                        *)
(***************************************************************************)
EXTENDS ExperimentPages, NewExperimentPage, SequenceTheorems, TLAPS

Baselines == Experiments \cup {None}
Comparisons == [data : Baselines, loading : BOOLEAN, calls : Nat, presses : Nat]
Screens == [baseline : Baselines, data : Baselines, loading : BOOLEAN]

TabTypeOK ==
    /\ baseline \in Baselines
    /\ tab \in [open : BOOLEAN, loading : BOOLEAN, baseline : Baselines]
    /\ compare \in Comparisons /\ rendered \in Screens /\ due \in BOOLEAN

\* The effect will compare: it is due, or the next rendering makes it due.
Owed(b, c) == due \/ (Shows(b, c) # rendered /\ Starts(b, c))

\* A comparison the effect owes counts like one in flight. Otherwise one that
\* was begun by a click could still be followed by the effect's own.
Bounded(b, c) ==
    /\ c.loading => c.calls > 0
    /\ c.calls <= 1 + c.presses
    /\ Owed(b, c) => c.calls <= c.presses

\* Before the tab has loaded the baseline there is nothing to compare.
NothingYet ==
    tab.loading \/ ~tab.open =>
        /\ compare.calls = 0 /\ ~due
        /\ rendered.baseline = None /\ tab.baseline = None

TabInv == TabTypeOK /\ Bounded(tab.baseline, compare) /\ NothingYet

-----------------------------------------------------------------------------

(* A tab that is closed has no comparison. *)
LEMMA ClosedFits ==
  ASSUME baseline' \in Baselines, TabClosed
  PROVE  TabInv'
<1>1. /\ NoComparison \in Comparisons /\ NoComparison.calls = 0 /\ NoComparison.presses = 0
      /\ NoComparison.loading = FALSE /\ None \in Baselines
  BY DEF NoComparison, Comparisons, Baselines
<1>2. Shows(None, NoComparison) \in Screens /\ Shows(None, NoComparison).baseline = None
  BY <1>1 DEF Shows, Screens, Comparisons
<1>3. /\ NoTab \in [open : BOOLEAN, loading : BOOLEAN, baseline : Baselines]
      /\ NoTab.baseline = None
  BY <1>1 DEF NoTab
<1>4. TabTypeOK'
  BY <1>1, <1>2, <1>3 DEF TabTypeOK, TabClosed
<1>5. Bounded(tab.baseline, compare)'
  BY <1>1, <1>3 DEF TabClosed, Bounded, Owed
<1>6. NothingYet'
  BY <1>1, <1>2, <1>3 DEF TabClosed, NothingYet
<1>. QED BY <1>4, <1>5, <1>6 DEF TabInv

LEMMA ExperimentPagesInitHolds == ExperimentPagesInit => TabInv
<1>. SUFFICES ASSUME ExperimentPagesInit PROVE TabInv
  OBVIOUS
<1>1. /\ NoComparison \in Comparisons /\ NoComparison.calls = 0 /\ NoComparison.presses = 0
      /\ NoComparison.loading = FALSE /\ None \in Baselines
  BY DEF NoComparison, Comparisons, Baselines
<1>2. Shows(None, NoComparison) \in Screens /\ Shows(None, NoComparison).baseline = None
  BY <1>1 DEF Shows, Screens, Comparisons
<1>3. /\ NoTab \in [open : BOOLEAN, loading : BOOLEAN, baseline : Baselines]
      /\ NoTab.baseline = None
  BY <1>1 DEF NoTab
<1>4. TabTypeOK
  BY <1>1, <1>2, <1>3 DEF ExperimentPagesInit, TabTypeOK
<1>5. Bounded(tab.baseline, compare)
  BY <1>1, <1>3 DEF ExperimentPagesInit, Bounded, Owed
<1>6. NothingYet
  BY <1>1, <1>2, <1>3 DEF ExperimentPagesInit, NothingYet
<1>. QED BY <1>4, <1>5, <1>6 DEF TabInv

(* A comparison that begins is one more in flight. *)
LEMMA ComparingFits ==
  ASSUME NEW c \in Comparisons
  PROVE  /\ Comparing(c) \in Comparisons /\ Comparing(c).loading
         /\ Comparing(c).calls = c.calls + 1 /\ Comparing(c).presses = c.presses
<1>1. c.calls + 1 \in Nat
  BY DEF Comparisons
<1>2. Comparing(c) = [c EXCEPT !.loading = TRUE, !.calls = c.calls + 1]
  BY DEF Comparing, Comparisons
<1>. QED BY <1>1, <1>2 DEF Comparisons

(* A rendering lets the effect that is still due begin its comparison; one     *)
(* that makes the effect due owed it before.                                   *)
LEMMA RenderFits ==
  ASSUME NEW b \in Baselines, NEW c \in Comparisons, due \in BOOLEAN,
         Bounded(b, c), RenderCompare(b, c), tab'.baseline = b
  PROVE  /\ compare' \in Comparisons /\ rendered' \in Screens /\ due' \in BOOLEAN
         /\ rendered'.baseline = b
         /\ Bounded(tab.baseline, compare)'
<1>1. c.calls \in Nat /\ c.presses \in Nat
  BY DEF Comparisons
<1>2. compare' \in Comparisons
  BY ComparingFits DEF RenderCompare
<1>3. /\ rendered' = Shows(b, compare') /\ rendered' \in Screens /\ rendered'.baseline = b
      /\ due' \in BOOLEAN
  BY <1>2 DEF RenderCompare, Shows, Screens, Comparisons
<1>4. Owed(tab.baseline, compare)' = due'
  BY <1>3 DEF Owed, Shows
<1>5. CASE due
  <2>1. /\ compare' = Comparing(c) /\ compare'.loading /\ compare'.calls = c.calls + 1
        /\ compare'.presses = c.presses
    BY <1>5, ComparingFits DEF RenderCompare
  <2>2. ~due'
    BY <2>1 DEF RenderCompare, Starts
  <2>3. c.calls <= c.presses
    BY <1>5 DEF Bounded, Owed
  <2>. QED BY <1>1, <1>2, <1>3, <1>4, <2>1, <2>2, <2>3 DEF Bounded
<1>6. CASE ~due
  <2>1. compare' = c /\ (due' => Owed(b, c))
    BY <1>3, <1>6 DEF RenderCompare, Owed
  <2>. QED BY <1>2, <1>3, <1>4, <2>1 DEF Bounded
<1>. QED BY <1>5, <1>6

LEMMA RenderTabHolds == TabInv /\ RenderTab => TabInv'
<1>. SUFFICES ASSUME TabInv, RenderTab PROVE TabInv'
  OBVIOUS
<1>1. /\ RenderCompare(tab.baseline, compare) /\ UNCHANGED <<tab, baseline>>
      /\ tab.baseline \in Baselines /\ compare \in Comparisons /\ due \in BOOLEAN
  BY DEF RenderTab, TabInv, TabTypeOK
<1>2. /\ compare' \in Comparisons /\ rendered' \in Screens /\ due' \in BOOLEAN
      /\ rendered'.baseline = tab.baseline
      /\ Bounded(tab.baseline, compare)'
  BY <1>1, RenderFits DEF TabInv
<1>3. ~due /\ tab.baseline = None => compare' = compare /\ ~due'
  BY <1>1 DEF RenderCompare, Starts, ComparesWith
<1>. QED BY <1>1, <1>2, <1>3 DEF TabInv, TabTypeOK, NothingYet

(* A click adds a comparison, and the press that accounts for it. *)
LEMMA HandleCompareHolds == TabInv /\ HandleCompare => TabInv'
<1>. SUFFICES ASSUME TabInv, HandleCompare PROVE TabInv'
  OBVIOUS
<1>. DEFINE c == [Comparing(compare) EXCEPT !.presses = @ + 1]
<1>1. /\ RenderCompare(tab.baseline, c) /\ UNCHANGED <<tab, baseline>>
      /\ tab.baseline \in Baselines /\ compare \in Comparisons /\ due \in BOOLEAN
      /\ tab.open /\ rendered.baseline # None
  BY DEF HandleCompare, ComparesWith, TabInv, TabTypeOK
<1>2. /\ c \in Comparisons /\ c.loading
      /\ c.calls = compare.calls + 1 /\ c.presses = compare.presses + 1
  BY <1>1, ComparingFits DEF Comparisons
<1>. HIDE DEF c
<1>3. Bounded(tab.baseline, c)
  <2>1. compare.calls \in Nat /\ compare.presses \in Nat
    BY <1>1 DEF Comparisons
  <2>2. compare.calls <= 1 + compare.presses /\ (due => compare.calls <= compare.presses)
    BY DEF TabInv, Bounded, Owed
  <2>3. Owed(tab.baseline, c) = due
    BY <1>1, <1>2 DEF Owed, Starts
  <2>. QED BY <1>2, <2>1, <2>2, <2>3 DEF Bounded
<1>4. /\ compare' \in Comparisons /\ rendered' \in Screens /\ due' \in BOOLEAN
      /\ Bounded(tab.baseline, compare)'
  BY <1>1, <1>2, <1>3, RenderFits
<1>5. ~(tab.loading \/ ~tab.open)
  BY <1>1 DEF TabInv, NothingYet
<1>. QED BY <1>1, <1>4, <1>5 DEF TabInv, TabTypeOK, NothingYet

(* The effect runs: what it owed is in flight. *)
LEMMA AutoCompareHolds == TabInv /\ AutoCompare => TabInv'
<1>. SUFFICES ASSUME TabInv, AutoCompare PROVE TabInv'
  OBVIOUS
<1>1. /\ due /\ due' = FALSE /\ compare' = Comparing(compare)
      /\ UNCHANGED <<tab, baseline, rendered>> /\ compare \in Comparisons
  BY DEF AutoCompare, TabInv, TabTypeOK
<1>2. /\ compare' \in Comparisons /\ compare'.loading /\ compare'.calls = compare.calls + 1
      /\ compare'.presses = compare.presses
  BY <1>1, ComparingFits
<1>3. /\ compare.calls <= compare.presses
      /\ compare.calls \in Nat /\ compare.presses \in Nat
  BY <1>1 DEF TabInv, Bounded, Owed, Comparisons
<1>4. ~Owed(tab.baseline, compare)'
  BY <1>1, <1>2 DEF Owed, Starts
<1>5. Bounded(tab.baseline, compare)'
  BY <1>2, <1>3, <1>4 DEF Bounded
<1>6. ~(tab.loading \/ ~tab.open)
  BY <1>1 DEF TabInv, NothingYet
<1>. QED BY <1>1, <1>2, <1>5, <1>6 DEF TabInv, TabTypeOK, NothingYet

(* A comparison ends: the effect may owe the next one instead. *)
LEMMA ComparisonEnds ==
  ASSUME TabInv, ComparisonAnswered \/ ComparisonFails
  PROVE  TabInv'
<1>1. /\ compare \in Comparisons /\ tab.baseline \in Baselines
      /\ compare.calls > 0 /\ UNCHANGED <<tab, baseline, rendered, due>>
  BY DEF ComparisonAnswered, ComparisonFails, TabInv, TabTypeOK
<1>2. PICK d \in Baselines :
         compare' = [compare EXCEPT !.data = d, !.loading = FALSE, !.calls = @ - 1]
  <2>1. CASE ComparisonAnswered
    BY <1>1, <2>1 DEF ComparisonAnswered
  <2>2. CASE ComparisonFails
    <3>1. compare.data \in Baselines
      BY <1>1 DEF Comparisons
    <3>2. compare' = [compare EXCEPT !.data = compare.data, !.loading = FALSE, !.calls = @ - 1]
      BY <1>1, <2>2 DEF ComparisonFails, Comparisons
    <3>. QED BY <3>1, <3>2
  <2>. QED BY <2>1, <2>2
<1>3. /\ compare.calls \in Nat /\ compare.presses \in Nat
      /\ compare' \in Comparisons /\ compare'.calls = compare.calls - 1
      /\ compare'.presses = compare.presses /\ compare'.loading = FALSE
  <2>1. compare.calls \in Nat /\ compare.calls - 1 \in Nat
    BY <1>1 DEF Comparisons
  <2>2. compare' = [compare EXCEPT !.data = d, !.loading = FALSE,
                                   !.calls = compare.calls - 1]
    BY <1>1, <1>2 DEF Comparisons
  <2>. QED BY <1>1, <2>1, <2>2 DEF Comparisons
<1>4. Bounded(tab.baseline, compare)'
  BY <1>3 DEF TabInv, Bounded
<1>. QED BY <1>1, <1>3, <1>4 DEF TabInv, TabTypeOK, NothingYet

(* The tab is opened, and loads the baseline. *)
LEMMA TabLoads ==
  ASSUME TabInv, OpenTab \/ BaselineLoaded
  PROVE  TabInv'
<1>1. /\ UNCHANGED <<baseline, compare, rendered, due>>
      /\ compare.calls = 0 /\ ~due /\ rendered.baseline = None
  BY DEF OpenTab, BaselineLoaded, TabInv, NothingYet
<1>2. PICK l \in BOOLEAN, b \in Baselines :
         /\ tab' = [open |-> TRUE, loading |-> l, baseline |-> b]
         /\ l => b = None
  <2>1. CASE OpenTab
    BY <2>1 DEF OpenTab, Baselines
  <2>2. CASE BaselineLoaded
    BY <2>2 DEF BaselineLoaded, TabInv, TabTypeOK
  <2>. QED BY <2>1, <2>2
<1>3. compare \in Comparisons /\ compare.presses \in Nat
  BY DEF TabInv, TabTypeOK, Comparisons
<1>4. Bounded(tab.baseline, compare)'
  BY <1>1, <1>3 DEF TabInv, Bounded
<1>. QED BY <1>1, <1>2, <1>4 DEF TabInv, TabTypeOK, NothingYet

(* The rest of the page changes at most the baseline on the server. *)
LEMMA OtherStepHolds ==
  ASSUME TabInv, UNCHANGED tabVars, UNCHANGED baseline \/ baseline' \in Baselines
  PROVE  TabInv'
BY DEF TabInv, TabTypeOK, Bounded, Owed, NothingYet, tabVars

LEMMA ExperimentPagesStepHolds ==
  TabInv /\ [ExperimentPagesNext]_experimentVars => TabInv'
<1>. SUFFICES ASSUME TabInv, [ExperimentPagesNext]_experimentVars PROVE TabInv'
  OBVIOUS
<1>1. CASE OpenTab \/ TabStep \/ ComparisonFails \/ HandleCompare
  BY <1>1, TabLoads, RenderTabHolds, AutoCompareHolds, ComparisonEnds, HandleCompareHolds
     DEF TabStep
<1>2. CASE CloseTab
  BY <1>2, ClosedFits DEF CloseTab, TabInv, TabTypeOK
<1>3. ASSUME NEW i \in Waiting(shown), ExperimentsFailed(i) PROVE TabInv'
  BY <1>3, ClosedFits DEF ExperimentsFailed, TabInv, TabTypeOK
<1>4. CASE PageStep
  <2>1. ASSUME NEW i, ServeExperiments(i) \/ ExperimentsShown(i) PROVE TabInv'
    BY <2>1, OtherStepHolds DEF ServeExperiments, ExperimentsShown
  <2>. QED BY <1>3, <1>4, <2>1 DEF PageStep
<1>5. CASE \/ WorkerMoves \/ StatusRewritten \/ MountPage \/ Poll \/ AskAgain
           \/ HandleCancel \/ HandleSetBaseline \/ HandlerFails
           \/ Evaluate \/ EvaluatePolls \/ EvaluateFails
  BY <1>5, OtherStepHolds DEF WorkerMoves, StatusRewritten, MountPage, Poll, AskAgain,
     HandleCancel, HandleSetBaseline, HandlerFails, Evaluate, EvaluatePolls, EvaluateFails
<1>6. CASE HandlerAnswered
  BY <1>6, OtherStepHolds, WatchAssumption DEF HandlerAnswered, Baselines
<1>7. CASE OtherBaseline
  BY <1>7, OtherStepHolds DEF OtherBaseline, Baselines
<1>8. CASE UNCHANGED experimentVars
  BY <1>8, OtherStepHolds DEF experimentVars
<1>. QED BY <1>1, <1>2, <1>4, <1>5, <1>6, <1>7, <1>8 DEF ExperimentPagesNext

-----------------------------------------------------------------------------

(* Every comparison in flight beyond the first goes back to a click, and the    *)
(* tab says that it is loading only while there is one (handleCompare and the   *)
(* effect of BaselineCompareTab).                                               *)
THEOREM ComparisonsHaveACauseCorrect ==
  ExperimentPagesSpec => []ComparisonsHaveACause
<1>1. TabInv => ComparisonsHaveACause
  BY DEF TabInv, Bounded, ComparisonsHaveACause
<1>. QED BY ExperimentPagesInitHolds, ExperimentPagesStepHolds, <1>1, PTL
        DEF ExperimentPagesSpec

-----------------------------------------------------------------------------
(* What a page loads                                                       *)

CallsOf(Keys, Answers) == [key : Keys, answer : Answers]
Resources(Keys, Answers) ==
    [data : Answers, loading : BOOLEAN, failed : BOOLEAN, calls : Seq(CallsOf(Keys, Answers))]

LEMMA MountedFits ==
  ASSUME NEW Keys, NEW Answers, None \in Answers
  PROVE  Mounted \in Resources(Keys, Answers) /\ Mounted.data = None
BY DEF Mounted, Resources

LEMMA LoadFits ==
  ASSUME NEW Keys, NEW Answers, None \in Answers,
         NEW r \in Resources(Keys, Answers), NEW key \in Keys
  PROVE  Load(r, key) \in Resources(Keys, Answers) /\ Load(r, key).data = r.data
<1>1. [key |-> key, answer |-> None] \in CallsOf(Keys, Answers)
  BY DEF CallsOf
<1>2. Append(r.calls, [key |-> key, answer |-> None]) \in Seq(CallsOf(Keys, Answers))
  BY <1>1 DEF Resources
<1>. QED BY <1>2 DEF Load, Resources

LEMMA CallIsTyped ==
  ASSUME NEW Keys, NEW Answers,
         NEW r \in Resources(Keys, Answers), NEW i \in DOMAIN r.calls
  PROVE  r.calls[i].key \in Keys
<1>1. r.calls \in Seq(CallsOf(Keys, Answers))
  BY DEF Resources
<1>2. PICK c \in CallsOf(Keys, Answers) : r.calls[i] = c
  BY <1>1
<1>. QED BY <1>2 DEF CallsOf

(* A call that has ended is gone, and the others stay calls. *)
LEMMA RemovedFits ==
  ASSUME NEW S, NEW s \in Seq(S), NEW i \in 1..Len(s)
  PROVE  RemoveAt(s, i) \in Seq(S)
<1>1. SubSeq(s, 1, i - 1) \in Seq(S) /\ SubSeq(s, i + 1, Len(s)) \in Seq(S)
  <2>1. \A j \in 1..Len(s) : s[j] \in S
    OBVIOUS
  <2>. QED BY <2>1, SubSeqProperties
<1>. QED BY <1>1, ConcatProperties DEF RemoveAt

LEMMA FailedFits ==
  ASSUME NEW Keys, NEW Answers,
         NEW r \in Resources(Keys, Answers), NEW i \in DOMAIN r.calls
  PROVE  Failed(r, i) \in Resources(Keys, Answers) /\ Failed(r, i).data = r.data
<1>1. RemoveAt(r.calls, i) \in Seq(CallsOf(Keys, Answers))
  BY RemovedFits DEF Resources
<1>. QED BY <1>1 DEF Failed, Resources

(* An answer that is applied is what the page shows. *)
LEMMA AppliedFits ==
  ASSUME NEW Keys, NEW Answers,
         NEW r \in Resources(Keys, Answers), NEW i \in DOMAIN r.calls, NEW v \in Answers
  PROVE  /\ Applied(Served(r, i, v), i) \in Resources(Keys, Answers)
         /\ Applied(Served(r, i, v), i).data = v
<1>. DEFINE served == [r.calls EXCEPT ![i].answer = v]
<1>1. r.calls \in Seq(CallsOf(Keys, Answers)) /\ i \in 1..Len(r.calls)
  BY DEF Resources
<1>2. [r.calls[i] EXCEPT !.answer = v] \in CallsOf(Keys, Answers)
  <2>1. PICK c \in CallsOf(Keys, Answers) : r.calls[i] = c
    BY <1>1
  <2>2. [c EXCEPT !.answer = v] \in CallsOf(Keys, Answers)
    BY DEF CallsOf
  <2>. QED BY <2>1, <2>2
<1>3. served = [r.calls EXCEPT ![i] = [r.calls[i] EXCEPT !.answer = v]]
  BY <1>1
<1>4. served \in Seq(CallsOf(Keys, Answers)) /\ Len(served) = Len(r.calls)
  BY <1>1, <1>2, <1>3, ExceptSeq
<1>5. served[i].answer = v
  BY <1>1, <1>3 DEF CallsOf
<1>6. Served(r, i, v) = [r EXCEPT !.calls = served]
  BY DEF Served, Resources
<1>. HIDE DEF served
<1>7. Served(r, i, v) \in Resources(Keys, Answers) /\ Served(r, i, v).calls = served
  BY <1>4, <1>6 DEF Resources
<1>8. RemoveAt(served, i) \in Seq(CallsOf(Keys, Answers))
  BY <1>1, <1>4, RemovedFits
<1>. QED BY <1>5, <1>7, <1>8 DEF Applied, Resources

-----------------------------------------------------------------------------
(* The form                                                                *)

DatasetOrNone == FormDatasets \cup {None}
PromptOrNone == FormPrompts \cup {None}
Configs == {ConfigOf(d) : d \in DatasetOrNone} \cup {None}
PromptConfigs == {PromptConfigOf(p) : p \in PromptOrNone} \cup {None}

FormTypeOK ==
    /\ offered \in Resources({None}, DatasetOrNone)
    /\ dataset \in DatasetOrNone /\ prompt \in PromptOrNone
    /\ config \in Resources(DatasetOrNone, Configs)
    /\ promptConfig \in Resources(PromptOrNone, PromptConfigs)

\* What is chosen is among what was loaded last, for whatever it was loaded.
VersionFits(data, chosen) ==
    data # None /\ data.of # None => chosen \in ListOf(data.versions)
SplitFits(data, chosen) ==
    data # None /\ data.splits # {} => chosen \in data.splits \cup {"all"}
PromptFits(chosenPrompt, data, chosen) ==
    /\ chosenPrompt # None => VersionFits(data, chosen)
    /\ chosenPrompt = None => chosen = None

NewFormInv ==
    /\ FormTypeOK
    /\ VersionFits(config.data, version)
    /\ SplitFits(config.data, split)
    /\ PromptFits(prompt, promptConfig.data, promptVersion)

LEMMA ConfigsFit ==
  /\ \A d \in DatasetOrNone : ConfigOf(d) \in Configs
  /\ \A p \in PromptOrNone : PromptConfigOf(p) \in PromptConfigs
  /\ None \in Configs /\ None \in PromptConfigs
  /\ None \in DatasetOrNone /\ None \in PromptOrNone
BY DEF Configs, PromptConfigs, DatasetOrNone, PromptOrNone

(* What was loaded for a dataset or a prompt is what it has. *)
LEMMA ConfigIsOf ==
  /\ \A data \in Configs : data # None /\ data.of # None =>
        /\ data.of \in FormDatasets
        /\ data.versions = VersionsOf[data.of] /\ data.splits = SplitsOf[data.of]
  /\ \A data \in PromptConfigs : data # None /\ data.of # None =>
        data.of \in FormPrompts /\ data.versions = PromptVersionsOf[data.of]
BY DEF Configs, PromptConfigs, ConfigOf, PromptConfigOf, NoConfig, NoPromptConfig,
   DatasetOrNone, PromptOrNone

LEMMA HeadIsListed ==
  ASSUME NEW s \in Seq(Nat) \ {<<>>}
  PROVE  Head(s) \in ListOf(s)
<1>1. 1 \in DOMAIN s /\ Head(s) = s[1]
  OBVIOUS
<1>. QED BY <1>1 DEF ListOf

(* The effects choose among what is loaded. *)
LEMMA VersionAfterFits ==
  ASSUME NEW data \in Configs, NEW active, NEW chosen
  PROVE  VersionFits(data, VersionAfter(active, data, chosen))
<1>. SUFFICES ASSUME data # None, data.of # None
              PROVE  VersionAfter(active, data, chosen) \in ListOf(data.versions)
  BY DEF VersionFits
<1>1. data.versions \in Seq(Nat) \ {<<>>}
  BY ConfigIsOf, FormAssumption
<1>. QED BY <1>1, HeadIsListed DEF VersionAfter

LEMMA SplitAfterFits ==
  ASSUME NEW data, NEW chosen
  PROVE  SplitFits(data, SplitAfter(data, chosen))
BY DEF SplitFits, SplitAfter

LEMMA PromptVersionAfterFits ==
  ASSUME NEW data \in PromptConfigs, NEW p, NEW chosen
  PROVE  PromptFits(p, data, PromptVersionAfter(p, data, chosen))
<1>1. CASE p = None \/ data = None
  BY <1>1 DEF PromptFits, PromptVersionAfter, VersionFits
<1>2. CASE p # None /\ data # None
  <2>. SUFFICES ASSUME data.of # None
                PROVE  PromptVersionAfter(p, data, chosen) \in ListOf(data.versions)
    BY <1>2 DEF PromptFits, VersionFits
  <2>1. data.versions \in Seq(Nat) \ {<<>>}
    BY <1>2, ConfigIsOf, FormAssumption
  <2>. QED BY <1>2, <2>1, HeadIsListed DEF PromptVersionAfter
<1>. QED BY <1>1, <1>2

(* A form that is not mounted, or has just been, has chosen nothing. *)
LEMMA EmptyFormFits ==
  ASSUME offered' = Mounted \/ offered' = Loading,
         config' = Mounted \/ config' = Loading,
         promptConfig' = Mounted \/ promptConfig' = Loading,
         dataset' = None, prompt' = None, promptVersion' = None
  PROVE  NewFormInv'
<1>1. /\ Loading \in Resources({None}, DatasetOrNone)
      /\ Loading \in Resources(DatasetOrNone, Configs)
      /\ Loading \in Resources(PromptOrNone, PromptConfigs)
      /\ Loading.data = None
  BY MountedFits, LoadFits, ConfigsFit DEF Loading
<1>2. /\ Mounted \in Resources({None}, DatasetOrNone)
      /\ Mounted \in Resources(DatasetOrNone, Configs)
      /\ Mounted \in Resources(PromptOrNone, PromptConfigs)
      /\ Mounted.data = None
  BY MountedFits, ConfigsFit
<1>3. FormTypeOK'
  BY <1>1, <1>2, ConfigsFit DEF FormTypeOK
<1>4. config'.data = None /\ promptConfig'.data = None
  BY <1>1, <1>2
<1>. QED BY <1>3, <1>4 DEF NewFormInv, VersionFits, SplitFits, PromptFits

LEMMA FormInitHolds == FormInit => NewFormInv
<1>. SUFFICES ASSUME FormInit PROVE NewFormInv
  OBVIOUS
<1>1. /\ Loading \in Resources({None}, DatasetOrNone)
      /\ Loading \in Resources(DatasetOrNone, Configs)
      /\ Loading \in Resources(PromptOrNone, PromptConfigs)
      /\ Loading.data = None
  BY MountedFits, LoadFits, ConfigsFit DEF Loading
<1>2. FormTypeOK
  BY <1>1, ConfigsFit DEF FormInit, FormTypeOK
<1>. QED BY <1>1, <1>2 DEF FormInit, NewFormInv, VersionFits, SplitFits, PromptFits

(* Of the loads of the form itself only the first dataset matters. *)
LEMMA OfferedStepHolds ==
  ASSUME NewFormInv, FormLoaded \/ FormFailed \/ RetryForm
  PROVE  NewFormInv'
<1>. USE DEF NewFormInv, FormTypeOK
<1>1. CASE FormLoaded
  <2>1. PICK first \in FormDatasets :
           /\ offered' = Applied(Served(offered, 1, first), 1)
           /\ config' = IF ActiveOf(dataset, offered') = ActiveOf(dataset, offered)
                        THEN config ELSE Load(config, ActiveOf(dataset, offered'))
    BY <1>1 DEF FormLoaded
  <2>2. 1 \in DOMAIN offered.calls /\ first \in DatasetOrNone
    BY <1>1 DEF FormLoaded, Quiet, Resources, DatasetOrNone
  <2>3. offered' \in Resources({None}, DatasetOrNone) /\ offered'.data = first
    BY <2>1, <2>2, AppliedFits
  <2>4. ActiveOf(dataset, offered') \in DatasetOrNone
    BY <2>2, <2>3, ConfigsFit DEF ActiveOf
  <2>5. config' \in Resources(DatasetOrNone, Configs) /\ config'.data = config.data
    BY <2>1, <2>4, LoadFits, ConfigsFit
  <2>. QED BY <1>1, <2>3, <2>5 DEF FormLoaded
<1>2. CASE FormFailed
  <2>1. 1 \in DOMAIN offered.calls
    BY <1>2 DEF FormFailed, Quiet, Resources
  <2>2. offered' \in Resources({None}, DatasetOrNone)
    BY <1>2, <2>1, FailedFits DEF FormFailed
  <2>. QED BY <1>2, <2>2 DEF FormFailed, choices
<1>3. CASE RetryForm
  <2>1. offered' \in Resources({None}, DatasetOrNone)
    BY <1>3, LoadFits, ConfigsFit DEF RetryForm
  <2>. QED BY <1>3, <2>1 DEF RetryForm, choices
<1>. QED BY <1>1, <1>2, <1>3

(* Answers with versions, for whatever they were asked. *)
LEMMA ConfigStepHolds ==
  ASSUME NewFormInv, NEW i \in DOMAIN config.calls, ConfigLoaded(i) \/ ConfigFailed(i)
  PROVE  NewFormInv'
<1>. USE DEF NewFormInv, FormTypeOK
<1>1. CASE ConfigLoaded(i)
  <2>1. config.calls[i].key \in DatasetOrNone
    BY CallIsTyped
  <2>2. ConfigOf(config.calls[i].key) \in Configs
    BY <2>1, ConfigsFit
  <2>3. config' \in Resources(DatasetOrNone, Configs) /\ config'.data \in Configs
    BY <1>1, <2>2, AppliedFits DEF ConfigLoaded
  <2>4. VersionFits(config'.data, version')
    BY <1>1, <2>3, VersionAfterFits DEF ConfigLoaded
  <2>5. SplitFits(config'.data, split')
    BY <1>1, SplitAfterFits DEF ConfigLoaded
  <2>. QED BY <1>1, <2>3, <2>4, <2>5 DEF ConfigLoaded
<1>2. CASE ConfigFailed(i)
  <2>1. config' \in Resources(DatasetOrNone, Configs) /\ config'.data = config.data
    BY <1>2, FailedFits DEF ConfigFailed
  <2>. QED BY <1>2, <2>1 DEF ConfigFailed
<1>. QED BY <1>1, <1>2

LEMMA PromptConfigStepHolds ==
  ASSUME NewFormInv, NEW i \in DOMAIN promptConfig.calls,
         PromptConfigLoaded(i) \/ PromptConfigFailed(i)
  PROVE  NewFormInv'
<1>. USE DEF NewFormInv, FormTypeOK
<1>1. CASE PromptConfigLoaded(i)
  <2>1. promptConfig.calls[i].key \in PromptOrNone
    BY CallIsTyped
  <2>2. PromptConfigOf(promptConfig.calls[i].key) \in PromptConfigs
    BY <2>1, ConfigsFit
  <2>3. /\ promptConfig' \in Resources(PromptOrNone, PromptConfigs)
        /\ promptConfig'.data \in PromptConfigs
    BY <1>1, <2>2, AppliedFits DEF PromptConfigLoaded
  <2>4. PromptFits(prompt', promptConfig'.data, promptVersion')
    BY <1>1, <2>3, PromptVersionAfterFits DEF PromptConfigLoaded
  <2>. QED BY <1>1, <2>3, <2>4 DEF PromptConfigLoaded
<1>2. CASE PromptConfigFailed(i)
  <2>1. /\ promptConfig' \in Resources(PromptOrNone, PromptConfigs)
        /\ promptConfig'.data = promptConfig.data
    BY <1>2, FailedFits DEF PromptConfigFailed
  <2>. QED BY <1>2, <2>1 DEF PromptConfigFailed
<1>. QED BY <1>1, <1>2

(* The controls: another dataset or prompt, or one of the versions listed. *)
LEMMA ChooseHolds ==
  ASSUME NewFormInv,
         \/ \E d \in FormDatasets : ChooseDataset(d)
         \/ ChooseVersion \/ ChooseSplit
         \/ \E p \in PromptOrNone : ChoosePrompt(p)
         \/ ChoosePromptVersion
  PROVE  NewFormInv'
<1>. USE DEF NewFormInv, FormTypeOK
<1>1. ASSUME NEW d \in FormDatasets, ChooseDataset(d) PROVE NewFormInv'
  <2>1. d \in DatasetOrNone
    BY DEF DatasetOrNone
  <2>2. config' \in Resources(DatasetOrNone, Configs) /\ config'.data = config.data
    BY <1>1, <2>1, LoadFits, ConfigsFit, SMTT(30) DEF ChooseDataset
  <2>3. config.data \in Configs
    BY DEF Resources
  <2>4. VersionFits(config'.data, version')
    BY <1>1, <2>2, <2>3, VersionAfterFits DEF ChooseDataset
  <2>. QED BY <1>1, <2>1, <2>2, <2>4 DEF ChooseDataset
<1>2. CASE ChooseVersion
  BY <1>2 DEF ChooseVersion, VersionFits
<1>3. CASE ChooseSplit
  BY <1>3 DEF ChooseSplit, SplitFits
<1>4. ASSUME NEW p \in PromptOrNone, ChoosePrompt(p) PROVE NewFormInv'
  <2>1. /\ promptConfig' \in Resources(PromptOrNone, PromptConfigs)
        /\ promptConfig'.data = promptConfig.data
    BY <1>4, LoadFits, ConfigsFit DEF ChoosePrompt
  <2>2. promptConfig.data \in PromptConfigs
    BY DEF Resources
  <2>3. PromptFits(prompt', promptConfig'.data, promptVersion')
    BY <1>4, <2>1, <2>2, PromptVersionAfterFits DEF ChoosePrompt
  <2>. QED BY <1>4, <2>1, <2>3 DEF ChoosePrompt
<1>5. CASE ChoosePromptVersion
  BY <1>5 DEF ChoosePromptVersion, PromptFits, VersionFits
<1>. QED BY <1>1, <1>2, <1>3, <1>4, <1>5

LEMMA FormStepHolds == NewFormInv /\ [FormNext]_formVars => NewFormInv'
<1>. SUFFICES ASSUME NewFormInv, [FormNext]_formVars PROVE NewFormInv'
  OBVIOUS
<1>1. CASE FormLoaded \/ FormFailed \/ RetryForm
  BY <1>1, OfferedStepHolds
<1>2. ASSUME NEW i \in DOMAIN config.calls, ConfigLoaded(i) \/ ConfigFailed(i)
      PROVE  NewFormInv'
  BY <1>2, ConfigStepHolds
<1>3. ASSUME NEW i \in DOMAIN promptConfig.calls,
             PromptConfigLoaded(i) \/ PromptConfigFailed(i)
      PROVE  NewFormInv'
  BY <1>3, PromptConfigStepHolds
<1>4. CASE \/ \E d \in FormDatasets : ChooseDataset(d)
           \/ ChooseVersion \/ ChooseSplit
           \/ \E p \in FormPrompts \cup {None} : ChoosePrompt(p)
           \/ ChoosePromptVersion
  BY <1>4, ChooseHolds DEF PromptOrNone
<1>5. CASE ExperimentCreated \/ LeaveForm
  BY <1>5, EmptyFormFits DEF ExperimentCreated, LeaveForm, Unmount
<1>6. CASE \/ HandleSubmit \/ CreationFails \/ HandlePreview \/ PreviewEnds
           \/ UNCHANGED formVars
  BY <1>6 DEF HandleSubmit, CreationFails, HandlePreview, PreviewEnds, formVars, choices,
     NewFormInv, FormTypeOK
<1>. QED BY <1>1, <1>2, <1>3, <1>4, <1>5, <1>6 DEF FormNext

(* Whatever was chosen before, once the versions shown are those of the active  *)
(* dataset, version and split are among them, and the prompt's likewise (the    *)
(* effects of NewExperimentPage).                                               *)
THEOREM VersionIsOfferedCorrect == FormSpec => []VersionIsOffered
<1>1. NewFormInv => VersionIsOffered
  <2>. SUFFICES ASSUME NewFormInv PROVE VersionIsOffered
    OBVIOUS
  <2>1. config.data \in Configs /\ promptConfig.data \in PromptConfigs
    BY DEF NewFormInv, FormTypeOK, Resources
  <2>2. ASSUME config.data # None, config.data.of = Active, Active # None
        PROVE  /\ version \in ListOf(VersionsOf[Active])
               /\ SplitsOf[Active] # {} => split \in SplitsOf[Active] \cup {"all"}
    BY <2>1, <2>2, ConfigIsOf DEF NewFormInv, VersionFits, SplitFits
  <2>3. ASSUME promptConfig.data # None, promptConfig.data.of = prompt, prompt # None
        PROVE  promptVersion \in ListOf(PromptVersionsOf[prompt])
    BY <2>1, <2>3, ConfigIsOf DEF NewFormInv, PromptFits, VersionFits
  <2>. QED BY <2>2, <2>3 DEF VersionIsOffered, NewFormInv, PromptFits
<1>. QED BY FormInitHolds, FormStepHolds, <1>1, PTL DEF FormSpec
=============================================================================
