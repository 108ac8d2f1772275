------------------------ MODULE EvaluatorPagesProofs ------------------------
(***************************************************************************)
(* The evaluator pages, for any evaluators and projects, any number of     *)
(* versions and any number of calls in flight: the differences shown are   *)
(* those of the selection, drafts stay apart, and what the user writes     *)
(* into a form that clones an evaluator stays.                             *)
(***************************************************************************)
EXTENDS EvaluatorDialogs, EvaluatorForm, TLAPS

Targets == Evaluators \cup {None}
Questions == [target : Targets, version : Nat, base : Int]

DialogTypeOK ==
    /\ modal \in [open : BOOLEAN, target : Targets, loading : BOOLEAN, failed : BOOLEAN]
    /\ entries \in [of : Targets, last : Nat]
    /\ selected \in Nat
    /\ history \subseteq [n : 1..MaxCalls, of : Evaluators]
    /\ diff \in [shown : Questions \cup {None}, loading : BOOLEAN, failed : BOOLEAN,
                 live : 0..MaxCalls]
    /\ diffs \subseteq [n : 1..MaxCalls, asks : Questions]
    /\ draft \in Targets
    /\ saved \in [Evaluators -> Targets]

\* The call the effect waits for asks what the dialog would ask now; the other
\* calls have other numbers.
LiveCallAsks ==
    /\ \A c \in diffs : c.n = diff.live =>
          modal.open /\ c.asks = Question(modal.target, entries.last, selected)
    /\ \A c, d \in diffs : c.n = d.n => c = d

\* The text on the page is that of the evaluator the dialog was opened for last.
DraftOfTarget == draft \in {None, modal.target}

DialogInv ==
    /\ DialogTypeOK /\ LiveCallAsks /\ DiffMatchesSelection
    /\ DraftOfTarget /\ DraftsStayApart
-----------------------------------------------------------------------------

(* What the dialog would ask is a question. *)
LEMMA QuestionFits ==
  ASSUME NEW target \in Targets, NEW last \in Nat, NEW version \in Nat
  PROVE  Question(target, last, version) \in Questions
BY DEF Question, Questions, Base

(* The effect, run after the dialog has changed to target, last and version. *)
LEMMA AskDiffKeeps ==
  ASSUME DialogInv,
         modal' \in [open : BOOLEAN, target : Targets, loading : BOOLEAN, failed : BOOLEAN],
         entries' \in [of : Targets, last : Nat], selected' \in Nat,
         AskDiff(modal.open', modal.target', entries.last', selected')
  PROVE  /\ diff' \in [shown : Questions \cup {None}, loading : BOOLEAN, failed : BOOLEAN,
                        live : 0..MaxCalls]
         /\ diffs' \subseteq [n : 1..MaxCalls, asks : Questions]
         /\ LiveCallAsks' /\ DiffMatchesSelection'
<1>. DEFINE q == Question(modal.target', entries.last', selected')
<1>1. MaxCalls \in Nat
  BY EvaluatorAssumption
<1>2. CASE diff' = NoDiff /\ UNCHANGED diffs
  <2>1. /\ diff' \in [shown : Questions \cup {None}, loading : BOOLEAN, failed : BOOLEAN,
                       live : 0..MaxCalls]
        /\ diffs' \subseteq [n : 1..MaxCalls, asks : Questions]
    BY <1>1, <1>2 DEF NoDiff, DialogInv, DialogTypeOK
  <2>2. \A c \in diffs : c.n # 0
    BY <1>1 DEF DialogInv, DialogTypeOK
  <2>3. LiveCallAsks' /\ DiffMatchesSelection'
    BY <1>2, <2>2 DEF NoDiff, DialogInv, LiveCallAsks, DiffMatchesSelection
  <2>. QED BY <2>1, <2>3
<1>3. CASE ~(diff' = NoDiff /\ UNCHANGED diffs)
  <2>1. modal.open'
    BY <1>3 DEF AskDiff
  <2>2. PICK n \in Unused(diffs) :
           /\ diffs' = diffs \cup {[n |-> n, asks |-> q]}
           /\ diff' = [shown |-> diff.shown, loading |-> TRUE, failed |-> FALSE, live |-> n]
    BY <1>3 DEF AskDiff
  <2>3. n \in 1..MaxCalls /\ n \in 0..MaxCalls /\ \A c \in diffs : c.n # n
    BY <1>1 DEF Unused
  <2>4. q \in Questions
    BY QuestionFits
  <2>5. /\ diff' \in [shown : Questions \cup {None}, loading : BOOLEAN, failed : BOOLEAN,
                       live : 0..MaxCalls]
        /\ diffs' \subseteq [n : 1..MaxCalls, asks : Questions]
    BY <2>2, <2>3, <2>4 DEF DialogInv, DialogTypeOK
  <2>6. \A c \in diffs' : c \in diffs \/ c = [n |-> n, asks |-> q]
    BY <2>2
  <2>7. diff'.live = n /\ diff'.loading = TRUE
    BY <2>2
  <2>8. \A c \in diffs' : c.n = n => c.asks = q
    BY <2>3, <2>6
  <2>9. \A c, d \in diffs' : c.n = d.n => c = d
    BY <2>3, <2>6 DEF DialogInv, LiveCallAsks
  <2>10. LiveCallAsks' /\ DiffMatchesSelection'
    BY <2>1, <2>7, <2>8, <2>9 DEF LiveCallAsks, DiffMatchesSelection
  <2>. QED BY <2>5, <2>10
<1>. QED BY <1>2, <1>3

(* A step that leaves the question and the differences alone. *)
LEMMA SameQuestion ==
  ASSUME DialogInv, UNCHANGED <<modal.open, modal.target, entries, selected, diff, diffs>>
  PROVE  LiveCallAsks' /\ DiffMatchesSelection'
BY DEF DialogInv, LiveCallAsks, DiffMatchesSelection, Question, Base

LEMMA DialogsInitHolds == DialogsInit => DialogInv
<1>. SUFFICES ASSUME DialogsInit PROVE DialogInv
  OBVIOUS
<1>1. DialogTypeOK
  BY EvaluatorAssumption DEF DialogsInit, DialogTypeOK, Targets, NoModal, NoEntries, NoDiff
<1>. QED BY <1>1 DEF DialogsInit, DialogInv, LiveCallAsks, DiffMatchesSelection, DraftOfTarget,
        DraftsStayApart, NoDiff

LEMMA OpenHolds ==
  ASSUME DialogInv, NEW e \in Evaluators, OpenVersionModal(e)
  PROVE  DialogInv'
<1>1. PICK n \in Unused(history) : history' = history \cup {[n |-> n, of |-> e]}
  BY DEF OpenVersionModal
<1>2. n \in 1..MaxCalls /\ MaxCalls \in Nat /\ e \in Targets
  BY EvaluatorAssumption DEF Unused, Targets
<1>3. DialogTypeOK'
  BY <1>1, <1>2 DEF OpenVersionModal, DialogInv, DialogTypeOK, NoEntries, NoDiff, Targets
<1>4. LiveCallAsks' /\ DiffMatchesSelection'
  <2>1. \A c \in diffs : c.n # 0
    BY <1>2 DEF DialogInv, DialogTypeOK
  <2>. QED BY <2>1 DEF OpenVersionModal, NoDiff, DialogInv, LiveCallAsks, DiffMatchesSelection
<1>5. DraftOfTarget' /\ DraftsStayApart'
  BY DEF OpenVersionModal, DialogInv, DraftOfTarget, DraftsStayApart
<1>. QED BY <1>3, <1>4, <1>5 DEF DialogInv

LEMMA ListedHolds == DialogInv /\ VersionsListed => DialogInv'
<1>. SUFFICES ASSUME DialogInv, VersionsListed PROVE DialogInv'
  OBVIOUS
<1>1. PICK c \in history :
        /\ history' = history \ {c}
        /\ entries' = [of |-> c.of, last |-> VersionsOfEvaluator[c.of]]
        /\ selected' = VersionsOfEvaluator[c.of]
        /\ modal' = [modal EXCEPT !.loading = FALSE]
        /\ AskDiff(modal.open, modal.target, VersionsOfEvaluator[c.of],
                   VersionsOfEvaluator[c.of])
  BY DEF VersionsListed
<1>2. /\ c.of \in Evaluators /\ VersionsOfEvaluator[c.of] \in Nat
      /\ modal'.open = modal.open /\ modal'.target = modal.target
      /\ modal' \in [open : BOOLEAN, target : Targets, loading : BOOLEAN, failed : BOOLEAN]
  BY <1>1, EvaluatorAssumption DEF DialogInv, DialogTypeOK
<1>3. entries' \in [of : Targets, last : Nat] /\ selected' \in Nat
  BY <1>1, <1>2 DEF Targets
<1>4. AskDiff(modal.open', modal.target', entries.last', selected')
  BY <1>1, <1>2
<1>5. DialogTypeOK'
  BY <1>1, <1>2, <1>3, <1>4, AskDiffKeeps DEF VersionsListed, draftVars, DialogInv, DialogTypeOK
<1>6. DraftOfTarget' /\ DraftsStayApart'
  BY <1>2 DEF VersionsListed, draftVars, DialogInv, DraftOfTarget, DraftsStayApart
<1>. QED BY <1>2, <1>3, <1>4, <1>5, <1>6, AskDiffKeeps DEF DialogInv

LEMMA FailHolds == DialogInv /\ VersionsFail => DialogInv'
<1>. SUFFICES ASSUME DialogInv, VersionsFail PROVE DialogInv'
  OBVIOUS
<1>1. /\ modal'.open = modal.open /\ modal'.target = modal.target
      /\ modal' \in [open : BOOLEAN, target : Targets, loading : BOOLEAN, failed : BOOLEAN]
  BY DEF VersionsFail, DialogInv, DialogTypeOK
<1>2. UNCHANGED <<entries, selected, diff, diffs, draft, saved>>
  BY DEF VersionsFail, diffVars, draftVars
<1>3. DialogTypeOK'
  BY <1>1, <1>2 DEF VersionsFail, DialogInv, DialogTypeOK
<1>4. DraftOfTarget' /\ DraftsStayApart'
  BY <1>1, <1>2 DEF DialogInv, DraftOfTarget, DraftsStayApart
<1>. QED BY <1>1, <1>2, <1>3, <1>4, SameQuestion DEF DialogInv

LEMMA CloseHolds == DialogInv /\ CloseVersionModal => DialogInv'
<1>. SUFFICES ASSUME DialogInv, CloseVersionModal PROVE DialogInv'
  OBVIOUS
<1>1. /\ modal'.open = FALSE /\ modal'.target = modal.target
      /\ modal' \in [open : BOOLEAN, target : Targets, loading : BOOLEAN, failed : BOOLEAN]
  BY DEF CloseVersionModal, DialogInv, DialogTypeOK
<1>2. UNCHANGED <<entries, selected, history, draft, saved>>
  BY DEF CloseVersionModal, draftVars
<1>3. AskDiff(modal.open', modal.target', entries.last', selected')
  BY <1>1, <1>2 DEF CloseVersionModal
<1>4. DialogTypeOK'
  BY <1>1, <1>2, <1>3, AskDiffKeeps DEF DialogInv, DialogTypeOK
<1>5. DraftOfTarget' /\ DraftsStayApart'
  BY <1>1, <1>2 DEF DialogInv, DraftOfTarget, DraftsStayApart
<1>. QED BY <1>1, <1>2, <1>3, <1>4, <1>5, AskDiffKeeps DEF DialogInv, DialogTypeOK

LEMMA SelectHolds ==
  ASSUME DialogInv, NEW v \in 1..entries.last, SelectVersion(v)
  PROVE  DialogInv'
<1>1. /\ modal.open = TRUE /\ selected' = v /\ v \in Nat
      /\ UNCHANGED <<modal, entries, history, draft, saved>>
  BY DEF SelectVersion, EntriesShown, draftVars, DialogInv, DialogTypeOK
<1>2. AskDiff(modal.open', modal.target', entries.last', selected')
  BY <1>1 DEF SelectVersion
<1>3. DialogTypeOK'
  BY <1>1, <1>2, AskDiffKeeps DEF DialogInv, DialogTypeOK
<1>4. DraftOfTarget' /\ DraftsStayApart'
  BY <1>1 DEF DialogInv, DraftOfTarget, DraftsStayApart
<1>. QED BY <1>1, <1>2, <1>3, <1>4, AskDiffKeeps DEF DialogInv, DialogTypeOK

(* Only the answer to what is asked now is shown. *)
LEMMA DiffEndsHolds == DialogInv /\ DiffEnds => DialogInv'
<1>. SUFFICES ASSUME DialogInv, NEW c \in diffs, DiffAnswered(c) \/ DiffFailed(c),
                     UNCHANGED <<entryVars, draftVars, runVars>>
              PROVE  DialogInv'
  BY DEF DiffEnds
<1>1. /\ UNCHANGED <<modal, entries, selected, history, draft, saved>>
      /\ diffs' = diffs \ {c}
  BY DEF entryVars, draftVars, DiffAnswered, DiffFailed
<1>2. c.asks \in Questions
  BY DEF DialogInv, DialogTypeOK
<1>3. DialogTypeOK'
  BY <1>1, <1>2 DEF DiffAnswered, DiffFailed, DialogInv, DialogTypeOK
<1>4. diff'.live = diff.live
  BY DEF DiffAnswered, DiffFailed, DialogInv, DialogTypeOK
<1>5. LiveCallAsks'
  BY <1>1, <1>4 DEF DialogInv, LiveCallAsks, Question, Base
<1>6. DiffMatchesSelection'
  <2>1. CASE c.n # diff.live
    <3>1. diff' = diff
      BY <2>1 DEF DiffAnswered, DiffFailed
    <3>. QED BY <1>1, <3>1 DEF DialogInv, DiffMatchesSelection, Question, Base
  <2>2. CASE c.n = diff.live
    <3>1. modal.open /\ c.asks = Question(modal.target, entries.last, selected)
      BY <2>2 DEF DialogInv, LiveCallAsks
    <3>2. diff'.shown = None \/ diff'.shown = c.asks
      BY <2>2 DEF DiffAnswered, DiffFailed, DialogInv, DialogTypeOK
    <3>. QED BY <1>1, <3>1, <3>2 DEF DiffMatchesSelection, Question, Base
  <2>. QED BY <2>1, <2>2
<1>7. DraftOfTarget' /\ DraftsStayApart'
  BY <1>1 DEF DialogInv, DraftOfTarget, DraftsStayApart
<1>. QED BY <1>3, <1>5, <1>6, <1>7 DEF DialogInv

(* What is written is the draft of the dialog's evaluator, and kept as its. *)
LEMMA DraftHolds ==
  ASSUME DialogInv, TypeDraft \/ HandleSaveRegressionDraft \/ HandleRunRegression
  PROVE  DialogInv'
<1>1. UNCHANGED <<modal, entries, selected, history, diff, diffs>>
  BY DEF TypeDraft, HandleSaveRegressionDraft, HandleRunRegression, entryVars, diffVars
<1>2. \/ draft' = modal.target /\ saved' = saved
      \/ draft' = draft /\ saved' = [saved EXCEPT ![modal.target] = draft]
  BY DEF TypeDraft, HandleSaveRegressionDraft, HandleRunRegression
<1>3. DialogTypeOK'
  BY <1>1, <1>2 DEF DialogInv, DialogTypeOK
<1>4. DraftOfTarget'
  BY <1>1, <1>2 DEF DialogInv, DraftOfTarget
<1>5. DraftsStayApart'
  BY <1>2 DEF DialogInv, DialogTypeOK, DraftOfTarget, DraftsStayApart
<1>. QED BY <1>1, <1>3, <1>4, <1>5, SameQuestion DEF DialogInv

(* The runs and the test touch nothing of this. *)
LEMMA RunHolds ==
  ASSUME DialogInv, UNCHANGED <<entryVars, diffVars, draftVars>>
  PROVE  DialogInv'
<1>1. UNCHANGED <<modal, entries, selected, history, diff, diffs, draft, saved>>
  BY DEF entryVars, diffVars, draftVars
<1>2. DialogTypeOK'
  BY <1>1 DEF DialogInv, DialogTypeOK
<1>3. DraftOfTarget' /\ DraftsStayApart'
  BY <1>1 DEF DialogInv, DraftOfTarget, DraftsStayApart
<1>. QED BY <1>1, <1>2, <1>3, SameQuestion DEF DialogInv

LEMMA LeaveHolds == DialogInv /\ LeaveList => DialogInv'
<1>. SUFFICES ASSUME DialogInv, LeaveList PROVE DialogInv'
  OBVIOUS
<1>1. DialogTypeOK'
  BY EvaluatorAssumption DEF LeaveList, DialogInv, DialogTypeOK, Targets, NoModal, NoEntries,
     NoDiff
<1>. QED BY <1>1 DEF LeaveList, DialogInv, LiveCallAsks, DiffMatchesSelection, DraftOfTarget,
        DraftsStayApart, NoDiff

LEMMA DialogsStepHolds == DialogInv /\ [DialogsNext]_dialogVars => DialogInv'
<1>. SUFFICES ASSUME DialogInv, [DialogsNext]_dialogVars PROVE DialogInv'
  OBVIOUS
<1>1. ASSUME NEW e \in Evaluators, OpenVersionModal(e) PROVE DialogInv'
  BY <1>1, OpenHolds
<1>2. CASE VersionsListed \/ VersionsFail \/ CloseVersionModal \/ DiffEnds
  BY <1>2, ListedHolds, FailHolds, CloseHolds, DiffEndsHolds
<1>3. ASSUME NEW v \in 1..entries.last, SelectVersion(v) PROVE DialogInv'
  BY <1>3, SelectHolds
<1>4. CASE TypeDraft \/ HandleSaveRegressionDraft \/ HandleRunRegression
  BY <1>4, DraftHolds
<1>5. CASE RegressionEnds \/ OpenTestModal \/ CloseTestModal \/ HandleTest \/ TestEnds
  BY <1>5, RunHolds DEF RegressionEnds, OpenTestModal, CloseTestModal, HandleTest, TestEnds
<1>6. CASE LeaveList
  BY <1>6, LeaveHolds
<1>7. CASE UNCHANGED dialogVars
  BY <1>7, RunHolds DEF dialogVars
<1>. QED BY <1>1, <1>2, <1>3, <1>4, <1>5, <1>6, <1>7 DEF DialogsNext

-----------------------------------------------------------------------------

(* The differences shown are those of the selection, however the answers        *)
(* overtake each other (the diff effect of EvaluatorListPage.tsx).              *)
THEOREM DiffMatchesCorrect == DialogsSpec => []DiffMatchesSelection
<1>1. DialogInv => DiffMatchesSelection
  BY DEF DialogInv
<1>. QED BY DialogsInitHolds, DialogsStepHolds, <1>1, PTL DEF DialogsSpec

(* No evaluator's draft is kept as that of another (setRegressionDraft and      *)
(* saveRegressionDraft of EvaluatorListPage.tsx).                               *)
THEOREM DraftsStayApartCorrect == DialogsSpec => []DraftsStayApart
<1>1. DialogInv => DraftsStayApart
  BY DEF DialogInv
<1>. QED BY DialogsInitHolds, DialogsStepHolds, <1>1, PTL DEF DialogsSpec

-----------------------------------------------------------------------------
(* The form that clones an evaluator                                       *)

\* Once the clone has been applied the effect waits for no call: every call in
\* flight was given up.
AppliedWaitsForNone ==
    /\ clone \in [key : Sources \cup {None}, loading : BOOLEAN, failed : BOOLEAN,
                  applied : BOOLEAN, live : 0..MaxClones]
    /\ clones \subseteq 1..MaxClones
    /\ clone.applied => clone.live = 0

-----------------------------------------------------------------------------

LEMMA EvaluatorFormInitHolds == EvaluatorFormInit => AppliedWaitsForNone
BY CloneAssumption DEF EvaluatorFormInit, AppliedWaitsForNone, NoClone

(* A form begins with at most one call, and without one when it clones nothing. *)
LEMMA MountKeeps ==
  ASSUME NEW key \in Sources \cup {None}, MountForm(key)
  PROVE  AppliedWaitsForNone'
<1>1. /\ clone' = [key |-> key, loading |-> key # None, failed |-> FALSE, applied |-> FALSE,
                   live |-> IF key = None THEN 0 ELSE 1]
      /\ clones' \subseteq {1}
  BY DEF MountForm, NoClone
<1>2. 0 \in 0..MaxClones /\ 1 \in 0..MaxClones /\ 1 \in 1..MaxClones
  BY CloneAssumption
<1>. QED BY <1>1, <1>2 DEF AppliedWaitsForNone

(* A form that is left gives up its call. *)
LEMMA DropKeeps ==
  ASSUME DropForm
  PROVE  AppliedWaitsForNone'
BY CloneAssumption DEF DropForm, AppliedWaitsForNone, NoClone

(* Typing a prompt asks again only when nothing has been applied. *)
LEMMA EditPromptsKeeps == AppliedWaitsForNone /\ EditPrompts => AppliedWaitsForNone'
<1>. SUFFICES ASSUME AppliedWaitsForNone, EditPrompts PROVE AppliedWaitsForNone'
  OBVIOUS
<1>1. CASE UNCHANGED <<clone, clones>>
  BY <1>1 DEF AppliedWaitsForNone
<1>2. CASE ~UNCHANGED <<clone, clones>>
  <2>1. PICK n \in 1..MaxClones \ clones :
           /\ clones' = clones \cup {n}
           /\ clone' = [clone EXCEPT !.loading = TRUE, !.failed = FALSE, !.live = n]
    BY <1>2 DEF EditPrompts
  <2>2. clone.applied = FALSE
    BY <1>2 DEF EditPrompts, AppliedWaitsForNone
  <2>3. n \in 0..MaxClones
    BY <2>1, CloneAssumption
  <2>. QED BY <2>1, <2>2, <2>3 DEF AppliedWaitsForNone
<1>. QED BY <1>1, <1>2

(* Applying the clone, or giving up on it, waits for no call. *)
LEMMA CloneEndsKeeps == AppliedWaitsForNone /\ CloneEnds => AppliedWaitsForNone'
<1>. SUFFICES ASSUME AppliedWaitsForNone, NEW n \in clones, CloneAnswered(n) \/ CloneFailed(n)
              PROVE  AppliedWaitsForNone'
  BY DEF CloneEnds
<1>1. 0 \in 0..MaxClones
  BY CloneAssumption
<1>2. \/ clone' = clone
      \/ clone' = [clone EXCEPT !.applied = TRUE, !.loading = FALSE, !.live = 0]
      \/ clone' = [clone EXCEPT !.failed = TRUE, !.loading = FALSE, !.live = 0]
  BY DEF CloneAnswered, CloneFailed, ApplyClone
<1>3. clones' \subseteq 1..MaxClones
  BY DEF CloneAnswered, CloneFailed, AppliedWaitsForNone
<1>. QED BY <1>1, <1>2, <1>3 DEF AppliedWaitsForNone

LEMMA EvaluatorFormStepHolds ==
  AppliedWaitsForNone /\ [EvaluatorFormNext]_evaluatorFormVars => AppliedWaitsForNone'
<1>. SUFFICES ASSUME AppliedWaitsForNone, [EvaluatorFormNext]_evaluatorFormVars
              PROVE  AppliedWaitsForNone'
  OBVIOUS
<1>1. CASE HandleNew \/ OpenCloneForm
  BY <1>1, MountKeeps DEF HandleNew, OpenCloneForm
<1>2. CASE BackToList \/ EvaluatorCreated
  BY <1>2, DropKeeps DEF BackToList, EvaluatorCreated
<1>3. CASE EditPrompts
  BY <1>3, EditPromptsKeeps
<1>4. CASE CloneEnds
  BY <1>4, CloneEndsKeeps
<1>5. CASE UNCHANGED cloneVars
  BY <1>5 DEF cloneVars, AppliedWaitsForNone
<1>6. CASE LateNavigate
  BY <1>5, <1>6, DropKeeps DEF LateNavigate
<1>7. CASE \/ ChooseProjectOfForm \/ ModelsAnswered \/ EditText \/ ChooseJudge
           \/ HandleSubmitEvaluator \/ SubmitFails
  BY <1>5, <1>7 DEF ChooseProjectOfForm, ModelsAnswered, EditText, ChooseJudge,
     HandleSubmitEvaluator, SubmitFails
<1>8. CASE UNCHANGED evaluatorFormVars
  BY <1>5, <1>8 DEF evaluatorFormVars
<1>. QED BY <1>1, <1>2, <1>3, <1>4, <1>6, <1>7, <1>8 DEF EvaluatorFormNext

(* A step from a form to a form, once the clone has been applied, leaves the    *)
(* text or is the user's.                                                       *)
LEMMA EditsSurviveStep ==
  ASSUME AppliedWaitsForNone, [EvaluatorFormNext]_evaluatorFormVars,
         mounted, mounted', clone.applied
  PROVE  text' \in {text, "typed"}
<1>1. CASE CloneEnds
  <2>1. PICK n \in clones : CloneAnswered(n) \/ CloneFailed(n)
    BY <1>1 DEF CloneEnds
  <2>2. n # clone.live
    BY CloneAssumption DEF AppliedWaitsForNone
  <2>. QED BY <2>1, <2>2 DEF CloneAnswered, CloneFailed
<1>2. ~(HandleNew \/ OpenCloneForm \/ BackToList \/ EvaluatorCreated \/ LateNavigate)
        \/ UNCHANGED text
  BY DEF HandleNew, OpenCloneForm, MountForm, BackToList, EvaluatorCreated, DropForm,
     LateNavigate, fieldVars
<1>3. CASE \/ ChooseProjectOfForm \/ ModelsAnswered \/ EditText \/ EditPrompts \/ ChooseJudge
           \/ HandleSubmitEvaluator \/ SubmitFails \/ UNCHANGED evaluatorFormVars
  BY <1>3 DEF ChooseProjectOfForm, ModelsAnswered, EditText, EditPrompts, ChooseJudge,
     HandleSubmitEvaluator, SubmitFails, fieldVars, evaluatorFormVars
<1>. QED BY <1>1, <1>2, <1>3 DEF EvaluatorFormNext

-----------------------------------------------------------------------------

(* A call that the effect has given up never writes over what was typed since   *)
(* (the clone effect of NewEvaluatorPage.tsx).                                  *)
THEOREM EditsSurviveCloneCorrect == EvaluatorFormSpec => EditsSurviveClone
<1>1. /\ AppliedWaitsForNone
      /\ [EvaluatorFormNext]_evaluatorFormVars
      => [mounted /\ mounted' /\ clone.applied => text' \in {text, "typed"}]_evaluatorFormVars
  BY EditsSurviveStep
<1>. QED BY EvaluatorFormInitHolds, EvaluatorFormStepHolds, <1>1, PTL
        DEF EvaluatorFormSpec, EditsSurviveClone
=============================================================================
