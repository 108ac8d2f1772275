-------------------------- MODULE DatasetVersions --------------------------
(***************************************************************************)
(* The version history of one dataset: the handlers of the dataset service *)
(* that add, import, change, delete and roll back examples, and the        *)
(* statements they run on the datasets, examples, dataset_versions and     *)
(* dataset_version_snapshots tables.                                       *)
(*                                                                         *)
(* A handler is a sequence of autocommitted statements with no lock over   *)
(* them, so every statement is an action of its own and other handlers     *)
(* come between any two. The tests a handler begins with are read together *)
(* with what it loads, in the action that starts it.                       *)
(***************************************************************************)
EXTENDS Integers, FiniteSets, Sequences

CONSTANTS Clients,      \* requests the service handles at the same time
          ExampleIds,   \* ids NewExampleID draws from; an id is drawn once
          Inputs,       \* normalized inputs of examples
          Outputs,      \* what else an example says
          Invalid,      \* a row of an import file that has no usable inputs
          Requests,     \* the kinds of requests that are made
          MaxBatch,     \* bound: rows of one request or one import file
          MaxVersion,   \* bound: datasets.current_version
          MaxFailures   \* bound: statements that fail, handlers that die

Contents == [inputs : Inputs, outputs : Outputs]

Kinds == {"create", "add", "import", "update", "delete", "rollback", "drop"}

ASSUME ConstantsAssumption ==
    /\ Invalid \notin Contents
    /\ Requests \subseteq Kinds
    /\ MaxBatch \in Nat
    /\ MaxVersion \in Nat \ {0}
    /\ MaxFailures \in Nat

VARIABLES
    version,       \* datasets.current_version; 0 when there is no row
    dropped,       \* the dataset row has been deleted
    count,         \* datasets.example_count
    active,        \* the examples rows with archived_at NULL
    archived,      \* the other examples rows
    versionRows,   \* the versions dataset_versions has a row for
    saved,         \* the versions dataset_version_snapshots has a row for
    snapshot,      \* the examples of each saved snapshot
    kind,          \* what each client's handler does
    pc,            \* the statement each handler executes next
    mine,          \* the version each handler has drawn; 0 before
    target,        \* the version each handler rolls back to
    held,          \* the example rows each handler holds in memory
    archiving,     \* the ids its open transaction has archived
    failures

tables == <<version, dropped, count, active, archived>>
history == <<versionRows, saved, snapshot>>
memory == <<kind, mine, target, held, archiving>>
vars == <<tables, history, memory, pc, failures>>

Versions == 1..MaxVersion
Row == [id : ExampleIds, content : Contents, added : 0..MaxVersion]

Pc == {"idle", "bump", "createVersion", "insert", "updateRow", "archive",
       "adjustCount", "replace", "upsert", "setCount", "list", "saveSnapshot",
       "deleteExamples", "deleteDataset"}

Init ==
    /\ version = 0 /\ dropped = FALSE /\ count = 0
    /\ active = {} /\ archived = {}
    /\ versionRows = {} /\ saved = {}
    /\ snapshot = [v \in Versions |-> {}]
    /\ kind = [c \in Clients |-> "create"]
    /\ pc = [c \in Clients |-> "idle"]
    /\ mine = [c \in Clients |-> 0]
    /\ target = [c \in Clients |-> 0]
    /\ held = [c \in Clients |-> {}]
    /\ archiving = [c \in Clients |-> {}]
    /\ failures = 0

-----------------------------------------------------------------------------

HasDataset == version # 0
Ids(rows) == {r.id : r \in rows}

\* Mutant: the deletion of an example does not refresh the snapshot.
FollowingKeepsSnapshot(k, at) ==
    CASE at = "bump" -> IF k = "rollback" THEN "replace" ELSE "createVersion"
      [] at = "createVersion" -> IF k \in {"add", "import"} THEN "insert"
                               ELSE IF k = "delete" THEN "idle" ELSE "list"
      [] at = "insert" -> "list"
      [] at = "list" -> "saveSnapshot"
      [] at = "updateRow" -> "bump"
      [] at = "archive" -> "adjustCount"
      [] at = "adjustCount" -> "bump"
      [] at = "replace" -> "upsert"
      [] at = "upsert" -> "setCount"
      [] at = "setCount" -> "createVersion"
      [] at = "deleteExamples" -> "deleteDataset"
      [] OTHER -> "idle"

\* The statement that follows when a statement has succeeded.
Following(k, at) ==
    CASE at = "bump" -> IF k = "rollback" THEN "replace" ELSE "createVersion"
      [] at = "createVersion" -> IF k \in {"add", "import"} THEN "insert"
                                                           ELSE "list"
      [] at = "insert" -> "list"
      [] at = "list" -> "saveSnapshot"
      [] at = "updateRow" -> "bump"
      [] at = "archive" -> "adjustCount"
      [] at = "adjustCount" -> "bump"
      [] at = "replace" -> "upsert"
      [] at = "upsert" -> "setCount"
      [] at = "setCount" -> "createVersion"
      [] at = "deleteExamples" -> "deleteDataset"
      [] OTHER -> "idle"

\* The statement that follows when one has failed: UpdateExample and
\* DeleteExample ignore that their version row cannot be created.
AfterFailure(k, at) ==
    IF at = "createVersion" /\ k \in {"update", "delete"} THEN "list"
                                                         ELSE "idle"

\* A handler that has returned keeps nothing.
MoveTo(c, at) ==
    /\ pc' = [pc EXCEPT ![c] = at]
    /\ mine' = [mine EXCEPT ![c] = IF at = "idle" THEN 0 ELSE @]
    /\ target' = [target EXCEPT ![c] = IF at = "idle" THEN 0 ELSE @]
    /\ held' = [held EXCEPT ![c] = IF at = "idle" THEN {} ELSE @]
    /\ kind' = [kind EXCEPT ![c] = IF at = "idle" THEN "create" ELSE @]
    /\ archiving' = [archiving EXCEPT ![c] = {}]

Begin(c, k, at, v, rows) ==
    /\ pc[c] = "idle" /\ k \in Requests
    /\ pc' = [pc EXCEPT ![c] = at]
    /\ kind' = [kind EXCEPT ![c] = k]
    /\ mine' = [mine EXCEPT ![c] = IF k = "create" THEN 1 ELSE 0]
    /\ target' = [target EXCEPT ![c] = v]
    /\ held' = [held EXCEPT ![c] = rows]
    /\ UNCHANGED archiving

Succeed(c) == MoveTo(c, Following(kind[c], pc[c]))
Abort(c) == MoveTo(c, AfterFailure(kind[c], pc[c]))

-----------------------------------------------------------------------------
(* Handlers: the reads and early returns they start with.                  *)

CreateDataset(c) ==
    /\ ~HasDataset /\ ~dropped
    /\ Begin(c, "create", "createVersion", 0, {})
    /\ version' = 1
    /\ UNCHANGED <<dropped, count, active, archived, history, failures>>

\* Ids that no row, no snapshot and no request in progress has.
FreshIds ==
    ExampleIds \ (Ids(active) \cup Ids(archived)
                  \cup (UNION {Ids(snapshot[v]) : v \in Versions})
                  \cup (UNION {Ids(held[d]) : d \in Clients}))

\* Example rows for the given positions of a file, each with an id of its own.
BeginWithNewRows(c, k, file, positions) ==
    \E id \in [positions -> FreshIds] :
        /\ \A i, j \in positions : id[i] = id[j] => i = j
        /\ Begin(c, k, "bump", 0,
                 {[id |-> id[i], content |-> file[i], added |-> 0] :
                      i \in positions})

BatchAddExamples(c) ==
    /\ HasDataset
    /\ \E n \in 1..MaxBatch : \E rows \in [1..n -> Contents] :
          BeginWithNewRows(c, "add", rows, 1..n)
    /\ UNCHANGED <<tables, history, failures>>

\* Mutant: rows are compared with the dataset only.
FilterImportDatasetOnly(file, known) ==
    {i \in DOMAIN file : file[i] # Invalid /\ file[i].inputs \notin known}

\* The rows of a file that are valid, whose inputs no active example has and
\* which are the first of the file to have them.
FilterImport(file, known) ==
    {i \in DOMAIN file :
        /\ file[i] # Invalid
        /\ file[i].inputs \notin known
        /\ \A j \in DOMAIN file :
              j < i /\ file[j] # Invalid => file[j].inputs # file[i].inputs}

ImportFile(c) ==
    /\ HasDataset
    /\ \E n \in 1..MaxBatch : \E file \in [1..n -> Contents \cup {Invalid}] :
          LET known == {r.content.inputs : r \in active}
              toAdd == FilterImport(file, known) IN
          /\ toAdd # {}
          /\ BeginWithNewRows(c, "import", file, toAdd)
    /\ UNCHANGED <<tables, history, failures>>

\* A field the request leaves out is written back as it was read.
UpdateExample(c) ==
    /\ HasDataset
    /\ \E row \in active : \E content \in Contents :
          Begin(c, "update", "updateRow", 0, {[row EXCEPT !.content = content]})
    /\ UNCHANGED <<tables, history, failures>>

DeleteExample(c) ==
    /\ HasDataset
    /\ \E row \in active : Begin(c, "delete", "archive", 0, {row})
    /\ UNCHANGED <<tables, history, failures>>

RollbackVersion(c) ==
    /\ HasDataset
    /\ \E v \in saved : Begin(c, "rollback", "bump", v, snapshot[v])
    /\ UNCHANGED <<tables, history, failures>>

DeleteDataset(c) ==
    /\ HasDataset
    /\ Begin(c, "drop", "deleteExamples", 0, {})
    /\ UNCHANGED <<tables, history, failures>>

-----------------------------------------------------------------------------
(* Statements. An UPDATE of a dataset row that is gone changes nothing; an *)
(* INSERT that refers to it fails.                                         *)

\* Mutant: the new version is read from the row without being drawn from it.
BumpVersionKeepsRow(c) ==
    /\ pc[c] = "bump" /\ HasDataset /\ version < MaxVersion
    /\ count' = IF kind[c] \in {"add", "import"}
                THEN count + Cardinality(held[c]) ELSE count
    /\ pc' = [pc EXCEPT ![c] = Following(kind[c], "bump")]
    /\ mine' = [mine EXCEPT ![c] = version + 1]
    /\ UNCHANGED <<version, dropped, active, archived, history, kind, target,
                   held, archiving, failures>>

\* IncrementVersionAndCount or BumpVersion: one UPDATE ... RETURNING.
BumpVersion(c) ==
    /\ pc[c] = "bump"
    /\ \/ /\ HasDataset /\ version < MaxVersion
          /\ version' = version + 1
          /\ count' = IF kind[c] \in {"add", "import"}
                      THEN count + Cardinality(held[c]) ELSE count
          /\ pc' = [pc EXCEPT ![c] = Following(kind[c], "bump")]
          /\ mine' = [mine EXCEPT ![c] = version + 1]
          /\ held' = [held EXCEPT ![c] =
                        IF kind[c] \in {"add", "import"}
                        THEN {[r EXCEPT !.added = version + 1] : r \in @} ELSE @]
          /\ UNCHANGED <<kind, target, archiving>>
       \/ ~HasDataset /\ Abort(c) /\ UNCHANGED <<version, count>>
    /\ UNCHANGED <<dropped, active, archived, history, failures>>

CreateVersionRow(c) ==
    /\ pc[c] = "createVersion"
    /\ IF HasDataset
       THEN versionRows' = versionRows \cup {mine[c]} /\ Succeed(c)
       ELSE Abort(c) /\ UNCHANGED versionRows
    /\ UNCHANGED <<tables, saved, snapshot, failures>>

InsertExamples(c) ==
    /\ pc[c] = "insert"
    /\ IF HasDataset
       THEN active' = active \cup held[c] /\ Succeed(c)
       ELSE Abort(c) /\ UNCHANGED active
    /\ UNCHANGED <<version, dropped, count, archived, history, failures>>

\* The row is overwritten whether or not it is still active.
UpdateExampleRow(c) ==
    LET overwrite(rows) ==
          {IF \E u \in held[c] : u.id = r.id
           THEN [r EXCEPT !.content = (CHOOSE u \in held[c] : u.id = r.id).content]
           ELSE r : r \in rows} IN
    /\ pc[c] = "updateRow"
    /\ active' = overwrite(active)
    /\ archived' = overwrite(archived)
    /\ Succeed(c)
    /\ UNCHANGED <<version, dropped, count, history, failures>>

ArchiveExample(c) ==
    LET gone == {r \in active : r.id \in Ids(held[c])} IN
    /\ pc[c] = "archive"
    /\ active' = active \ gone
    /\ archived' = archived \cup gone
    /\ Succeed(c)
    /\ UNCHANGED <<version, dropped, count, history, failures>>

\* Mutant: the count is not adjusted.
AdjustExampleCountForgotten(c) ==
    /\ pc[c] = "adjustCount" /\ Succeed(c)
    /\ UNCHANGED <<tables, history, failures>>

AdjustExampleCount(c) ==
    /\ pc[c] = "adjustCount"
    /\ count' = IF HasDataset THEN count - 1 ELSE count
    /\ Succeed(c)
    /\ UNCHANGED <<version, dropped, active, archived, history, failures>>

\* ReplaceActiveSet is one READ COMMITTED transaction. Its first statement
\* picks the rows it archives: the active ones the snapshot does not have.
\* Others see that when it commits, and come between.
ArchiveOthers(c) ==
    /\ pc[c] = "replace"
    /\ pc' = [pc EXCEPT ![c] = Following(kind[c], "replace")]
    /\ archiving' = [archiving EXCEPT ![c] = Ids(active) \ Ids(held[c])]
    /\ UNCHANGED <<tables, history, kind, mine, target, held, failures>>

\* Mutant: an archived example of the snapshot is not brought back.
ReplaceActiveSetKeepsArchived(c) ==
    LET back == {r \in held[c] : r.id \notin Ids(archived)}
        others == {r \in active : r.id \notin Ids(back)}
        gone == {r \in others : r.id \in archiving[c]} IN
    /\ pc[c] = "upsert" /\ HasDataset
    /\ active' = back \cup (others \ gone)
    /\ archived' = archived \cup gone
    /\ Succeed(c)
    /\ UNCHANGED <<version, dropped, count, history, failures>>

\* Its upserts restore or overwrite what the snapshot has, and it commits. A
\* row that became active after the first statement stays so. A statement of
\* another handler that waits for a row of the transaction is one after it.
ReplaceActiveSet(c) ==
    LET others == {r \in active : r.id \notin Ids(held[c])}
        gone == {r \in others : r.id \in archiving[c]} IN
    /\ pc[c] = "upsert"
    /\ \/ /\ HasDataset \/ held[c] = {}
          /\ active' = held[c] \cup (others \ gone)
          /\ archived' = gone \cup {r \in archived : r.id \notin Ids(held[c])}
          /\ Succeed(c)
       \/ /\ ~HasDataset /\ held[c] # {}
          /\ Abort(c) /\ UNCHANGED <<active, archived>>
    /\ UNCHANGED <<version, dropped, count, history, failures>>

SetExampleCount(c) ==
    /\ pc[c] = "setCount"
    /\ count' = IF HasDataset THEN Cardinality(held[c]) ELSE count
    /\ Succeed(c)
    /\ UNCHANGED <<version, dropped, active, archived, history, failures>>

\* Mutant: only the ids of the active examples are kept.
ListActiveIds(c) ==
    /\ pc[c] = "list"
    /\ pc' = [pc EXCEPT ![c] = "saveSnapshot"]
    /\ held' = [held EXCEPT ![c] = Ids(active)]
    /\ UNCHANGED <<tables, history, kind, mine, target, archiving, failures>>

\* refreshSnapshot reads the active examples...
ListActiveAll(c) ==
    /\ pc[c] = "list"
    /\ pc' = [pc EXCEPT ![c] = "saveSnapshot"]
    /\ held' = [held EXCEPT ![c] = active]
    /\ UNCHANGED <<tables, history, kind, mine, target, archiving, failures>>

\* Mutant: the snapshot is saved for the version the dataset has by then.
SaveSnapshotOfCurrent(c) ==
    /\ pc[c] = "saveSnapshot" /\ HasDataset
    /\ saved' = saved \cup {version}
    /\ snapshot' = [snapshot EXCEPT ![version] = held[c]]
    /\ Succeed(c)
    /\ UNCHANGED <<tables, versionRows, failures>>

\* ... and saves them, overwriting an earlier snapshot of its version.
SaveSnapshot(c) ==
    /\ pc[c] = "saveSnapshot"
    /\ IF HasDataset
       THEN /\ saved' = saved \cup {mine[c]}
            /\ snapshot' = [snapshot EXCEPT ![mine[c]] = held[c]]
            /\ Succeed(c)
       ELSE Abort(c) /\ UNCHANGED <<saved, snapshot>>
    /\ UNCHANGED <<tables, versionRows, failures>>

DeleteExamples(c) ==
    /\ pc[c] = "deleteExamples"
    /\ active' = {} /\ archived' = {}
    /\ Succeed(c)
    /\ UNCHANGED <<version, dropped, count, history, failures>>

\* Versions, snapshots and examples go with the row (ON DELETE CASCADE). The
\* foreign keys of the evaluation engine's tables, which keep an evaluated
\* dataset from being deleted, are among the failures of Fail.
DeleteDatasetRow(c) ==
    /\ pc[c] = "deleteDataset"
    /\ IF HasDataset
       THEN /\ version' = 0 /\ dropped' = TRUE /\ count' = 0
            /\ active' = {} /\ archived' = {}
            /\ versionRows' = {} /\ saved' = {}
            /\ snapshot' = [v \in Versions |-> {}]
       ELSE UNCHANGED <<tables, history>>
    /\ Succeed(c)
    /\ UNCHANGED failures

\* A statement fails, or the service dies: the handler ends where it is.
Fail(c) ==
    /\ pc[c] # "idle" /\ failures < MaxFailures
    /\ failures' = failures + 1
    /\ Abort(c) \/ MoveTo(c, "idle")
    /\ UNCHANGED <<tables, history>>

-----------------------------------------------------------------------------

Request(c) ==
    \/ CreateDataset(c) \/ BatchAddExamples(c) \/ ImportFile(c)
    \/ UpdateExample(c) \/ DeleteExample(c) \/ RollbackVersion(c)
    \/ DeleteDataset(c)

Statement(c) ==
    \/ BumpVersion(c) \/ CreateVersionRow(c) \/ InsertExamples(c)
    \/ UpdateExampleRow(c) \/ ArchiveExample(c) \/ AdjustExampleCount(c)
    \/ ArchiveOthers(c) \/ ReplaceActiveSet(c) \/ SetExampleCount(c)
    \/ ListActiveAll(c) \/ SaveSnapshot(c)
    \/ DeleteExamples(c) \/ DeleteDatasetRow(c)

Next == \E c \in Clients : Request(c) \/ Statement(c) \/ Fail(c)

Spec == Init /\ [][Next]_vars

-----------------------------------------------------------------------------
(* GET /datasets/{id}/versions/{version}/diff, of two loaded snapshots.    *)

\* Mutant: examples are told apart by their id only.
ChangedById(base, goal) == {}

Added(base, goal) == {r \in goal : r.id \notin Ids(base)}
Removed(base, goal) == {r \in base : r.id \notin Ids(goal)}
Changed(base, goal) ==
    {p \in base \X goal : p[1].id = p[2].id /\ p[1] # p[2]}

-----------------------------------------------------------------------------
(* Properties.                                                             *)

\* Tables, histories and handlers hold values the code can give them.
TypeOK ==
    /\ version \in 0..MaxVersion
    /\ dropped \in BOOLEAN
    /\ count \in Int
    /\ active \in SUBSET Row /\ archived \in SUBSET Row
    /\ versionRows \in SUBSET Versions /\ saved \in SUBSET Versions
    /\ snapshot \in [Versions -> SUBSET Row]
    /\ kind \in [Clients -> Kinds]
    /\ pc \in [Clients -> Pc]
    /\ mine \in [Clients -> 0..MaxVersion]
    /\ target \in [Clients -> 0..MaxVersion]
    /\ held \in [Clients -> SUBSET Row]
    /\ archiving \in [Clients -> SUBSET ExampleIds]
    /\ failures \in 0..MaxFailures

\* Two handlers never work on the same version, and the INSERT of a version
\* row never meets one that is there: UNIQUE (dataset_id, version) holds
\* without a lock, whatever the handlers do between each other's statements.
VersionDrawnOnce ==
    \A c \in Clients : mine[c] # 0 =>
        /\ \A d \in Clients : mine[d] = mine[c] => d = c
        /\ pc[c] = "createVersion" => mine[c] \notin versionRows

\* A snapshot that has been saved never changes, although SaveSnapshot is
\* an upsert: experiments that name a version evaluate the same examples.
SnapshotIsFinal ==
    [][\A v \in saved : v \in saved' => snapshot'[v] = snapshot[v]]_vars

\* The versions that have no row or no snapshot, and of which no handler is
\* at work that would still record them.
LostVersions ==
    {v \in 1..version :
        \/ v \notin saved /\ \A c \in Clients : mine[c] # v
        \/ v \notin versionRows /\ \A c \in Clients : mine[c] = v =>
               pc[c] \notin {"replace", "upsert", "setCount", "createVersion"}}

\* A handler draws its version first and records it later, row and snapshot
\* each in a statement of its own. Only a failure loses a version, each one
\* at most one, whatever other handlers do between the statements.
EachFailureLosesOneVersion == Cardinality(LostVersions) <= failures

Quiet == \A c \in Clients : pc[c] = "idle"

\* When requests come one after the other and none fails, the latest
\* version is what the dataset holds, and example_count is its size.
LatestIsActive ==
    Quiet /\ HasDataset =>
        /\ version \in saved /\ snapshot[version] = active
        /\ count = Cardinality(active)

\* A rollback ends with a version that is the one it rolled back to.
RollbackRestores ==
    [][\A c \in Clients :
         kind[c] = "rollback" /\ pc[c] = "saveSnapshot" /\ pc'[c] = "idle" =>
             snapshot'[mine[c]] = snapshot[target[c]]]_vars

\* The diff of two versions leads from the one to the other.
DiffIsExact ==
    \A v, w \in saved :
        LET base == snapshot[v]
            goal == snapshot[w]
            changed == Changed(base, goal) IN
        goal = ((base \ Removed(base, goal)) \ {p[1] : p \in changed})
                   \cup Added(base, goal) \cup {p[2] : p \in changed}

\* A historical snapshot holds only what was there in its version: no
\* example of a later one.
SnapshotIsHistorical ==
    \A v \in saved : \A r \in snapshot[v] : r.added <= v

\* When requests come one after the other, an import adds no two rows with
\* the same inputs and none whose inputs an active example has.
ImportAddsNewInputs ==
    [][\A c \in Clients :
         kind[c] = "import" /\ pc[c] = "insert" =>
             \A r \in active' \ active, s \in active' :
                 r.content.inputs = s.content.inputs => r = s]_vars
=============================================================================
