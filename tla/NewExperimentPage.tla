-------------------------- MODULE NewExperimentPage --------------------------
(***************************************************************************)
(* The form that starts an experiment. Choosing a dataset or a prompt      *)
(* loads its versions; effects then replace a version or split that is not *)
(* among them. Nothing waits for these loads: the form can be sent, or     *)
(* tried out, with what is chosen at any moment.                           *)
(***************************************************************************)
EXTENDS AsyncResource

CONSTANTS VersionsOf,       \* the versions of each dataset, the latest first
          SplitsOf,         \* the splits its examples have
          PromptVersionsOf, \* the versions of each prompt, the current first
          MaxConfigs        \* bound: loads of versions in flight

FormDatasets == DOMAIN VersionsOf
FormPrompts == DOMAIN PromptVersionsOf

ASSUME FormAssumption ==
    /\ DOMAIN SplitsOf = FormDatasets /\ FormDatasets # {}
    /\ \A d \in FormDatasets : VersionsOf[d] \in Seq(Nat) \ {<<>>}
    /\ \A p \in FormPrompts : PromptVersionsOf[p] \in Seq(Nat) \ {<<>>}
    /\ None \notin FormDatasets \cup FormPrompts

VARIABLES
    at,             \* where the user is: the form, elsewhere, the new experiment
    offered,        \* the resource of the form: the datasets to choose from
    dataset,        \* datasetId; None while the user has chosen none
    config,         \* versions and splits, of the dataset they were loaded for
    version, split, \* datasetVersion, split
    prompt,         \* promptId
    promptConfig,   \* promptVersions, of the prompt they were loaded for
    promptVersion,
    submitting, creations,  \* the flag, and the requests in flight
    previewing      \* a target preview is running

choices == <<dataset, config, version, split, prompt, promptConfig, promptVersion>>
formVars == <<at, offered, choices, submitting, creations, previewing>>

NoConfig == [of |-> None, versions |-> <<>>, splits |-> {}]
NoPromptConfig == [of |-> None, versions |-> <<>>]
ListOf(seq) == {seq[i] : i \in DOMAIN seq}

\* datasetId || data?.datasets[0]?.id || ''
ActiveOf(chosen, form) ==
    IF chosen # None THEN chosen ELSE IF form.data = None THEN None ELSE form.data

Loading == Load(Mounted, None)

FormInit ==
    /\ at = "form"
    /\ offered = Loading
    /\ dataset = None /\ config = Loading
    /\ version = None /\ split = "default"
    /\ prompt = None /\ promptConfig = Loading /\ promptVersion = None
    /\ submitting = FALSE /\ creations = 0 /\ previewing = FALSE

\* The state of the form is gone when its page is; requests go on.
Unmount ==
    /\ offered' = Mounted
    /\ dataset' = None /\ config' = Mounted
    /\ version' = None /\ split' = "default"
    /\ prompt' = None /\ promptConfig' = Mounted /\ promptVersion' = None
    /\ submitting' = FALSE /\ previewing' = FALSE

-----------------------------------------------------------------------------
(* The effects                                                             *)

\* Mutant: a version that is chosen is kept.
VersionAfterKeeps(active, data, chosen) ==
    IF data = None THEN chosen
    ELSE IF data.versions = <<>> THEN IF active = None THEN None ELSE chosen
    ELSE IF chosen # None THEN chosen ELSE Head(data.versions)

\* The effect on the versions loaded: the first one, unless one is chosen that
\* is among them.
VersionAfter(active, data, chosen) ==
    IF data = None THEN chosen
    ELSE IF data.versions = <<>> THEN IF active = None THEN None ELSE chosen
    ELSE IF chosen \in ListOf(data.versions) THEN chosen ELSE Head(data.versions)

SplitAfter(data, chosen) ==
    IF data = None \/ data.splits = {} \/ chosen \in data.splits \cup {"all"}
    THEN chosen ELSE "all"

PromptVersionAfter(chosenPrompt, data, chosen) ==
    IF chosenPrompt = None THEN None
    ELSE IF data = None \/ data.versions = <<>> THEN chosen
    ELSE IF chosen \in ListOf(data.versions) THEN chosen ELSE Head(data.versions)

-----------------------------------------------------------------------------
(* Loading                                                                 *)

\* The form is loaded; its first dataset is active until one is chosen, and
\* the resource of the versions loads when the active dataset changes.
FormLoaded ==
    /\ at = "form" /\ ~Quiet(offered)
    /\ \E first \in FormDatasets :
          /\ offered' = Applied(Served(offered, 1, first), 1)
          /\ config' = IF ActiveOf(dataset, offered') = ActiveOf(dataset, offered)
                       THEN config ELSE Load(config, ActiveOf(dataset, offered'))
    /\ UNCHANGED <<at, dataset, version, split, prompt, promptConfig, promptVersion,
                   submitting, creations, previewing>>

FormFailed ==
    /\ at = "form" /\ ~Quiet(offered)
    /\ offered' = Failed(offered, 1)
    /\ UNCHANGED <<at, choices, submitting, creations, previewing>>

RetryForm ==
    /\ at = "form" /\ offered.failed /\ Quiet(offered)
    /\ offered' = Load(offered, None)
    /\ UNCHANGED <<at, choices, submitting, creations, previewing>>

Active == ActiveOf(dataset, offered)

ConfigOf(d) ==
    IF d = None THEN NoConfig
    ELSE [of |-> d, versions |-> VersionsOf[d], splits |-> SplitsOf[d]]

PromptConfigOf(p) ==
    IF p = None THEN NoPromptConfig ELSE [of |-> p, versions |-> PromptVersionsOf[p]]

\* The answers come in any order: the last one counts, whatever is active.
ConfigLoaded(i) ==
    /\ at = "form"
    /\ config' = Applied(Served(config, i, ConfigOf(config.calls[i].key)), i)
    /\ version' = VersionAfter(Active, config'.data, version)
    /\ split' = SplitAfter(config'.data, split)
    /\ UNCHANGED <<at, offered, dataset, prompt, promptConfig, promptVersion,
                   submitting, creations, previewing>>

PromptConfigLoaded(i) ==
    /\ at = "form"
    /\ promptConfig' =
          Applied(Served(promptConfig, i, PromptConfigOf(promptConfig.calls[i].key)), i)
    /\ promptVersion' = PromptVersionAfter(prompt, promptConfig'.data, promptVersion)
    /\ UNCHANGED <<at, offered, dataset, config, version, split, prompt,
                   submitting, creations, previewing>>

\* The errors of these two loads are shown nowhere.
ConfigFailed(i) ==
    /\ at = "form" /\ config' = Failed(config, i)
    /\ UNCHANGED <<at, offered, dataset, version, split, prompt, promptConfig,
                   promptVersion, submitting, creations, previewing>>

PromptConfigFailed(i) ==
    /\ at = "form" /\ promptConfig' = Failed(promptConfig, i)
    /\ UNCHANGED <<at, offered, dataset, config, version, split, prompt,
                   promptVersion, submitting, creations, previewing>>

-----------------------------------------------------------------------------
(* The controls                                                            *)

FormShown == at = "form" /\ ~offered.failed

ChooseDataset(d) ==
    /\ FormShown /\ offered.data # None /\ d # Active
    /\ Len(config.calls) < MaxConfigs
    /\ dataset' = d
    /\ config' = Load(config, d)
    /\ version' = VersionAfter(d, config.data, version)
    /\ UNCHANGED <<at, offered, split, prompt, promptConfig, promptVersion,
                   submitting, creations, previewing>>

\* What can be chosen is what the last load has brought.
ChooseVersion ==
    /\ FormShown /\ config.data # None
    /\ version' \in ListOf(config.data.versions)
    /\ UNCHANGED <<at, offered, dataset, config, split, prompt, promptConfig,
                   promptVersion, submitting, creations, previewing>>

ChooseSplit ==
    /\ FormShown /\ config.data # None
    /\ split' \in config.data.splits \cup {"all"}
    /\ UNCHANGED <<at, offered, dataset, config, version, prompt, promptConfig,
                   promptVersion, submitting, creations, previewing>>

ChoosePrompt(p) ==
    /\ FormShown /\ offered.data # None /\ p # prompt
    /\ Len(promptConfig.calls) < MaxConfigs
    /\ prompt' = p
    /\ promptConfig' = Load(promptConfig, p)
    /\ promptVersion' = PromptVersionAfter(p, promptConfig.data, promptVersion)
    /\ UNCHANGED <<at, offered, dataset, config, version, split,
                   submitting, creations, previewing>>

ChoosePromptVersion ==
    /\ FormShown /\ prompt # None /\ promptConfig.data # None
    /\ promptVersion' \in ListOf(promptConfig.data.versions)
    /\ UNCHANGED <<at, offered, dataset, config, version, split, prompt, promptConfig,
                   submitting, creations, previewing>>

\* The button: loading={submitting || loading}.
HandleSubmit ==
    /\ FormShown /\ ~submitting /\ ~offered.loading
    /\ submitting' = TRUE /\ creations' = creations + 1
    /\ UNCHANGED <<at, offered, choices, previewing>>

\* navigate() goes to the new experiment wherever the user is by then.
ExperimentCreated ==
    /\ creations > 0 /\ creations' = creations - 1
    /\ at' = "experiment" /\ Unmount

\* Refused or failed; or created, and only the answer lost: sent again, the form
\* then starts a second experiment.
CreationFails ==
    /\ creations > 0 /\ creations' = creations - 1 /\ submitting' = FALSE
    /\ UNCHANGED <<at, offered, choices, previewing>>

\* The button of the preview has a flag of its own; two requests follow.
HandlePreview ==
    /\ FormShown /\ ~previewing /\ Active # None
    /\ previewing' = TRUE
    /\ UNCHANGED <<at, offered, choices, submitting, creations>>

PreviewEnds ==
    /\ previewing /\ previewing' = FALSE
    /\ UNCHANGED <<at, offered, choices, submitting, creations>>

LeaveForm ==
    /\ at = "form" /\ at' = "elsewhere" /\ Unmount
    /\ UNCHANGED <<creations>>

FormNext ==
    \/ FormLoaded \/ FormFailed \/ RetryForm
    \/ \E i \in DOMAIN config.calls : ConfigLoaded(i) \/ ConfigFailed(i)
    \/ \E i \in DOMAIN promptConfig.calls : PromptConfigLoaded(i) \/ PromptConfigFailed(i)
    \/ \E d \in FormDatasets : ChooseDataset(d)
    \/ ChooseVersion \/ ChooseSplit
    \/ \E p \in FormPrompts \cup {None} : ChoosePrompt(p)
    \/ ChoosePromptVersion
    \/ HandleSubmit \/ ExperimentCreated \/ CreationFails
    \/ HandlePreview \/ PreviewEnds \/ LeaveForm

FormSpec == FormInit /\ [][FormNext]_formVars

-----------------------------------------------------------------------------

\* As soon as the versions shown are those of the active dataset, the version
\* and the split that would be sent are among them, and so is the version of
\* the prompt: in whatever order datasets and prompts are chosen and answers
\* arrive, no version of the one before survives (effects of the form).
VersionIsOffered ==
    /\ config.data # None /\ config.data.of = Active /\ Active # None =>
          /\ version \in ListOf(VersionsOf[Active])
          /\ SplitsOf[Active] # {} => split \in SplitsOf[Active] \cup {"all"}
    /\ promptConfig.data # None /\ promptConfig.data.of = prompt /\ prompt # None =>
          promptVersion \in ListOf(PromptVersionsOf[prompt])
    /\ prompt = None => promptVersion = None
=============================================================================
