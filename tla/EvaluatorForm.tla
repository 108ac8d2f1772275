--------------------------- MODULE EvaluatorForm ----------------------------
(***************************************************************************)
(* The form that makes a new evaluator or clones an old one: the source of *)
(* its model, seeded from the models of the project, the fields a clone    *)
(* fills in, and the creation.                                             *)
(***************************************************************************)
EXTENDS AsyncResource

CONSTANTS Sources,       \* evaluators to clone
          JudgesWith,    \* what each of them judges with
          JudgeProjects, \* projects the user chooses among
          ModelsOf,      \* whether a project has a default model, or only models
          MayManage,     \* projects where the user may create evaluators
          MaxClones,     \* bound: calls for the source in flight
          MaxModelLoads, \* bound: loads of the models in flight
          MaxLeft        \* bound: creations of forms that have been left

ASSUME CloneAssumption ==
    /\ None \notin Sources \cup JudgeProjects
    /\ JudgesWith \in [Sources -> {"rule", "project_default", "project_model", "custom"}]
    /\ ModelsOf \in [JudgeProjects -> {"default", "active", "none"}]
    /\ MayManage \subseteq JudgeProjects
    /\ MaxClones \in Nat \ {0}

VARIABLES
    mounted,   \* the form is on the page
    project,   \* currentProject of the store
    models,    \* the resource: the project whose models it lists
    judge,     \* type, modelSource and selectedProjectModelId
    text,      \* where the other fields have their text from
    clone,     \* what the form clones, and how far it is
    clones,    \* calls for it in flight
    submits    \* creations posted: by this form, by forms that have been left

fieldVars == <<judge, text>>
cloneVars == <<clone, clones>>
evaluatorFormVars == <<mounted, project, models, fieldVars, cloneVars, submits>>

NoClone == [key |-> None, loading |-> FALSE, failed |-> FALSE, applied |-> FALSE, live |-> 0]

Judge(type, source, model) == [type |-> type, source |-> source, model |-> model]

EvaluatorFormInit ==
    /\ mounted = FALSE
    /\ project \in JudgeProjects
    /\ models = Mounted /\ judge = Judge("rule", "custom", None)
    /\ text = "initial" /\ clone = NoClone /\ clones = {}
    /\ submits = [mine |-> FALSE, left |-> 0]

-----------------------------------------------------------------------------
(* Coming and going                                                        *)

MayJudge == project \in MayManage

\* The form begins: what it clones is asked for, and the models of the project.
\* The effect that seeds the source finds no models yet and settles on custom.
MountForm(key) ==
    /\ ~mounted /\ mounted' = TRUE
    /\ models' = Load(Mounted, project)
    /\ judge' = Judge("rule", "custom", None)
    /\ text' = "initial"
    /\ clone' = [NoClone EXCEPT !.key = key, !.loading = key # None,
                                !.live = IF key = None THEN 0 ELSE 1]
    /\ clones' = IF key = None THEN {} ELSE {1}
    /\ UNCHANGED <<project, submits>>

HandleNew == MayJudge /\ MountForm(None)

\* From the list of the evaluators.
OpenCloneForm == MayJudge /\ \E e \in Sources : MountForm(e)

\* A creation that is in flight stays so: see LateNavigate.
DropForm ==
    /\ mounted' = FALSE
    /\ models' = Mounted /\ judge' = Judge("rule", "custom", None)
    /\ text' = "initial" /\ clone' = NoClone /\ clones' = {}
    /\ UNCHANGED project

BackToList ==
    /\ mounted
    /\ submits.mine => submits.left < MaxLeft
    /\ DropForm
    /\ submits' = IF submits.mine THEN [mine |-> FALSE, left |-> submits.left + 1]
                  ELSE submits

\* The effects of a change of project choose the source from the models that
\* are shown, which are still those of the project before.
SeedFrom(shownProject) ==
    [judge EXCEPT
       !.source = IF shownProject = None THEN "custom"
                  ELSE CASE ModelsOf[shownProject] = "default" -> "project_default"
                         [] ModelsOf[shownProject] = "active" -> "project_model"
                         [] ModelsOf[shownProject] = "none" -> "custom",
       !.model = IF shownProject = None \/ ModelsOf[shownProject] = "none" THEN None
                 ELSE shownProject]

ChooseProjectOfForm ==
    /\ \E p \in JudgeProjects \ {project} :
          /\ project' = p
          /\ IF ~mounted THEN UNCHANGED <<models, judge>>
             ELSE /\ Len(models.calls) < MaxModelLoads
                  /\ models' = Load(models, p)
                  /\ judge' = SeedFrom(models.data)
    /\ UNCHANGED <<mounted, text, cloneVars, submits>>

ModelsAnswered ==
    /\ \E i \in DOMAIN models.calls :
          \/ models' = Applied(Served(models, i, models.calls[i].key), i)
          \/ models' = Failed(models, i)
    /\ UNCHANGED <<mounted, project, fieldVars, cloneVars, submits>>

FormEnabled == mounted /\ MayJudge

\* A field the effect of the clone does not depend on.
EditText ==
    /\ FormEnabled /\ text' = "typed"
    /\ UNCHANGED <<mounted, project, models, judge, cloneVars, submits>>

\* The prompts: the effect depends on them, so as long as the clone has not been
\* applied every change gives up the call in flight and asks again.
EditPrompts ==
    /\ FormEnabled /\ judge.type = "llm_judge"
    /\ IF clone.key = None \/ clone.applied THEN UNCHANGED <<clone, clones>>
       ELSE \E n \in 1..MaxClones \ clones :
               /\ clones' = clones \cup {n}
               /\ clone' = [clone EXCEPT !.loading = TRUE, !.failed = FALSE, !.live = n]
    /\ UNCHANGED <<mounted, project, models, judge, text, submits>>

ChooseJudge ==
    /\ FormEnabled
    /\ \/ \E t \in {"rule", "llm_judge"} : judge' = [judge EXCEPT !.type = t]
       \/ /\ judge.type = "llm_judge"
          /\ \E s \in {"project_default", "project_model", "custom"} :
                judge' = [judge EXCEPT !.source = s]
       \/ /\ judge.type = "llm_judge" /\ judge.source = "project_model"
          /\ models.data # None /\ ModelsOf[models.data] # "none"
          /\ judge' = [judge EXCEPT !.model = models.data]
    /\ UNCHANGED <<mounted, project, models, text, cloneVars, submits>>

\* applyClone: every field the source has; the judge's model unless it is a rule.
ApplyClone ==
    LET e == clone.key IN
    /\ text' = "cloned"
    /\ judge' = CASE JudgesWith[e] = "rule" -> [judge EXCEPT !.type = "rule"]
                  [] JudgesWith[e] = "project_model" -> Judge("llm_judge", "project_model", e)
                  [] OTHER -> [judge EXCEPT !.type = "llm_judge", !.source = JudgesWith[e]]
    /\ clone' = [clone EXCEPT !.applied = TRUE, !.loading = FALSE, !.live = 0]

\* Mutant: the answer is applied without a look at active.
CloneAnsweredLate(n) ==
    /\ clones' = clones \ {n}
    /\ ApplyClone

\* Only the answer the effect waits for is applied.
CloneAnswered(n) ==
    /\ clones' = clones \ {n}
    /\ IF n = clone.live THEN ApplyClone ELSE UNCHANGED <<text, judge, clone>>

CloneFailed(n) ==
    /\ clones' = clones \ {n}
    /\ clone' = IF n = clone.live
                THEN [clone EXCEPT !.failed = TRUE, !.loading = FALSE, !.live = 0] ELSE clone
    /\ UNCHANGED <<text, judge>>

CloneEnds ==
    /\ \E n \in clones : CloneAnswered(n) \/ CloneFailed(n)
    /\ UNCHANGED <<mounted, project, models, submits>>

\* validateLLMSource
JudgeIsValid ==
    judge.type = "llm_judge" =>
       /\ judge.source = "project_default" =>
             models.data # None /\ ModelsOf[models.data] = "default"
       /\ judge.source = "project_model" => judge.model # None

HandleSubmitEvaluator ==
    /\ FormEnabled /\ ~submits.mine /\ JudgeIsValid
    /\ submits' = [submits EXCEPT !.mine = TRUE]
    /\ UNCHANGED <<mounted, project, models, fieldVars, cloneVars>>

\* The evaluator is there, and the form goes to the list.
EvaluatorCreated == submits.mine /\ DropForm /\ submits' = [submits EXCEPT !.mine = FALSE]

SubmitFails ==
    /\ \/ submits.mine /\ submits' = [submits EXCEPT !.mine = FALSE]
       \/ submits.left > 0 /\ submits' = [submits EXCEPT !.left = @ - 1]
    /\ UNCHANGED <<mounted, project, models, fieldVars, cloneVars>>

\* A form that has been left goes to the list when its evaluator is created,
\* and takes along whoever fills in another one by then.
LateNavigate ==
    /\ submits.left > 0
    /\ IF mounted THEN DropForm ELSE UNCHANGED <<mounted, project, models, fieldVars, cloneVars>>
    /\ submits' = [mine |-> FALSE, left |-> submits.left - 1 + (IF submits.mine THEN 1 ELSE 0)]

-----------------------------------------------------------------------------

EvaluatorFormNext ==
    \/ HandleNew \/ OpenCloneForm \/ BackToList
    \/ ChooseProjectOfForm \/ ModelsAnswered \/ EditText \/ EditPrompts \/ ChooseJudge
    \/ CloneEnds \/ HandleSubmitEvaluator \/ EvaluatorCreated \/ SubmitFails \/ LateNavigate

EvaluatorFormSpec == EvaluatorFormInit /\ [][EvaluatorFormNext]_evaluatorFormVars

-----------------------------------------------------------------------------

\* When the source has been applied to the form nothing but the user changes the
\* fields: a call given up by the effect does not write over what was typed
\* since (the clone effect of NewEvaluatorPage.tsx).
EditsSurviveClone ==
    [][mounted /\ mounted' /\ clone.applied => text' \in {text, "typed"}]_evaluatorFormVars
=============================================================================
