----------------------- MODULE DatasetVersionsProofs -----------------------
(***************************************************************************)
(* For any number of handlers, ids, contents and failures: a version of a  *)
(* dataset is drawn by one handler, and its snapshot, once saved, stays as *)
(* it is; only failures leave a version unrecorded, each at most one; a    *)
(* diff leads from one version to the other. No lock is involved: the      *)
(* first three rest on the UPDATE that draws the version, and on a handler *)
(* recording no other version than its own.                                *)
(* For requests that come one after the other: the latest version is what  *)
(* is active, a rollback restores, and an import adds new inputs only.     *)
(***************************************************************************)
EXTENDS DatasetVersions, FiniteSetTheorems, TLAPS

\* The statements a handler executes before it has drawn a version, or when
\* it draws none.
EarlyPc == {"idle", "bump", "updateRow", "archive", "adjustCount",
            "deleteExamples", "deleteDataset"}

\* The statements between drawing a version and recording it.
UnrecordedPc == {"replace", "upsert", "setCount", "createVersion"}

HistoryTypes ==
    /\ version \in 0..MaxVersion
    /\ versionRows \subseteq 1..version
    /\ saved \subseteq 1..version
    /\ DOMAIN snapshot = Versions
    /\ pc \in [Clients -> Pc]
    /\ mine \in [Clients -> 0..MaxVersion]

\* A handler works on a version from drawing it to saving its snapshot; it
\* is not of the future, not recorded before its turn and not yet saved.
OwnVersion ==
    \A c \in Clients :
        /\ pc[c] \in EarlyPc <=> mine[c] = 0
        /\ HasDataset => mine[c] <= version
        /\ mine[c] \notin saved
        /\ pc[c] \in UnrecordedPc => mine[c] \notin versionRows

OneOwner ==
    \A c, d \in Clients : mine[c] # 0 /\ mine[c] = mine[d] => c = d

\* Handlers find a dataset or the trace of one; it is not created again.
DatasetLife ==
    /\ dropped => ~HasDataset
    /\ ~HasDataset /\ ~dropped => \A c \in Clients : pc[c] = "idle"

HistoryInv ==
    /\ HistoryTypes
    /\ OwnVersion
    /\ OneOwner
    /\ DatasetLife

-----------------------------------------------------------------------------

\* Handler c goes on to a statement it may execute in its situation, and
\* forgets its version when it returns.
GoesOn(c, at) ==
    /\ at \in Pc
    /\ pc' = [pc EXCEPT ![c] = at]
    /\ mine' = [mine EXCEPT ![c] = IF at = "idle" THEN 0 ELSE @]
    /\ at \in EarlyPc \ {"idle"} => pc[c] \in EarlyPc
    /\ at \notin EarlyPc => pc[c] \notin EarlyPc
    /\ at \in UnrecordedPc => pc[c] \in UnrecordedPc

(* A step of a handler that draws no version and writes no history.         *)
LEMMA GoingOnKeepsInv ==
  ASSUME HistoryInv, NEW c \in Clients, NEW at, GoesOn(c, at),
         HasDataset \/ dropped, UNCHANGED <<version, dropped, history>>
  PROVE  HistoryInv'
  <1>1. /\ pc'[c] = at /\ mine'[c] = IF at = "idle" THEN 0 ELSE mine[c]
        /\ \A d \in Clients \ {c} : pc'[d] = pc[d] /\ mine'[d] = mine[d]
    BY DEF GoesOn, HistoryInv, HistoryTypes
  <1>2. version \in Nat /\ MaxVersion \in Nat
    BY ConstantsAssumption DEF HistoryInv, HistoryTypes
  <1>3. UNCHANGED <<version, dropped, versionRows, saved, snapshot>>
    BY DEF history
  <1>4. HistoryTypes'
    BY <1>2, <1>3 DEF GoesOn, HistoryInv, HistoryTypes, Versions
  <1>5. 0 \notin saved /\ 0 \notin versionRows
    BY <1>2 DEF HistoryInv, HistoryTypes
  <1>6. OwnVersion'
    <2>1. ASSUME NEW d \in Clients
          PROVE  /\ pc'[d] \in EarlyPc <=> mine'[d] = 0
                 /\ HasDataset => mine'[d] <= version
                 /\ mine'[d] \notin saved
                 /\ pc'[d] \in UnrecordedPc => mine'[d] \notin versionRows
      <3>1. CASE d # c
        BY <1>1, <3>1 DEF HistoryInv, OwnVersion
      <3>2. CASE d = c /\ at = "idle"
        BY <1>1, <1>2, <1>5, <3>2 DEF EarlyPc, UnrecordedPc
      <3>3. CASE d = c /\ at # "idle"
        BY <1>1, <3>3 DEF GoesOn, HistoryInv, OwnVersion
      <3>. QED BY <3>1, <3>2, <3>3
    <2>. QED BY <2>1, <1>3 DEF OwnVersion, HasDataset
  <1>7. OneOwner'
    BY <1>1 DEF HistoryInv, OneOwner
  <1>8. DatasetLife'
    BY <1>3 DEF HistoryInv, DatasetLife, HasDataset
  <1>. QED BY <1>4, <1>6, <1>7, <1>8 DEF HistoryInv

(* There is a dataset, or there was one, wherever a handler is at work.     *)
LEMMA WorkNeedsDataset ==
  ASSUME HistoryInv, NEW c \in Clients, pc[c] # "idle"
  PROVE  HasDataset \/ dropped
  BY DEF HistoryInv, DatasetLife

(* What follows a statement fits the handler's situation.                   *)
LEMMA SucceedGoesOn ==
  ASSUME NEW c \in Clients, Succeed(c), pc[c] # "bump", pc[c] # "idle",
         pc[c] \in Pc
  PROVE  GoesOn(c, Following(kind[c], pc[c]))
  BY DEF Succeed, MoveTo, GoesOn, Following, Pc, EarlyPc, UnrecordedPc

LEMMA AbortGoesOn ==
  ASSUME NEW c \in Clients, Abort(c)
  PROVE  \E at : GoesOn(c, at)
  <1>1. GoesOn(c, AfterFailure(kind[c], pc[c]))
    BY DEF Abort, MoveTo, GoesOn, AfterFailure, Pc, EarlyPc, UnrecordedPc
  <1>. QED BY <1>1

LEMMA EndGoesOn ==
  ASSUME NEW c \in Clients, MoveTo(c, "idle")
  PROVE  GoesOn(c, "idle")
  BY DEF MoveTo, GoesOn, Pc, EarlyPc, UnrecordedPc

(* A request other than CreateDataset starts before any version is drawn.   *)
LEMMA BeginGoesOn ==
  ASSUME HistoryInv, NEW c \in Clients, NEW k, k # "create",
         NEW at \in EarlyPc \ {"idle"}, NEW v, NEW rows,
         Begin(c, k, at, v, rows)
  PROVE  GoesOn(c, at)
  <1>1. pc[c] = "idle" /\ pc' = [pc EXCEPT ![c] = at]
    BY DEF Begin
  <1>2. mine' = [mine EXCEPT ![c] = 0]
    BY DEF Begin
  <1>3. mine[c] = 0
    BY <1>1 DEF HistoryInv, OwnVersion, EarlyPc
  <1>4. mine' = [mine EXCEPT ![c] = IF at = "idle" THEN 0 ELSE @]
    BY <1>2, <1>3
  <1>5. at \in Pc /\ at \notin UnrecordedPc
    BY DEF EarlyPc, Pc, UnrecordedPc
  <1>. QED BY <1>1, <1>4, <1>5 DEF GoesOn, EarlyPc

-----------------------------------------------------------------------------

LEMMA InitHistory ==
  ASSUME Init
  PROVE  HistoryInv
  <1>1. HistoryTypes
    BY ConstantsAssumption DEF Init, HistoryTypes, Pc
  <1>. QED BY <1>1 DEF Init, HistoryInv, OwnVersion, OneOwner, DatasetLife,
             HasDataset, EarlyPc, UnrecordedPc

LEMMA CreateDatasetKeepsInv ==
  ASSUME HistoryInv, NEW c \in Clients, CreateDataset(c)
  PROVE  HistoryInv'
  <1>1. /\ version = 0 /\ dropped = FALSE /\ version' = 1 /\ dropped' = FALSE
        /\ pc' = [pc EXCEPT ![c] = "createVersion"]
        /\ mine' = [mine EXCEPT ![c] = 1]
        /\ UNCHANGED <<versionRows, saved, snapshot>>
    BY DEF CreateDataset, Begin, HistoryInv, DatasetLife, HasDataset, history
  <1>2. \A d \in Clients : pc[d] = "idle" /\ mine[d] = 0
    BY <1>1 DEF HistoryInv, DatasetLife, HasDataset, OwnVersion, EarlyPc
  <1>3. versionRows = {} /\ saved = {}
    BY <1>1 DEF HistoryInv, HistoryTypes
  <1>4. /\ pc'[c] = "createVersion" /\ mine'[c] = 1
        /\ \A d \in Clients \ {c} : pc'[d] = "idle" /\ mine'[d] = 0
    BY <1>1, <1>2 DEF HistoryInv, HistoryTypes
  <1>5. HistoryTypes'
    <2>1. 1 \in 0..MaxVersion
      BY ConstantsAssumption
    <2>2. DOMAIN snapshot' = Versions
      BY <1>1 DEF HistoryInv, HistoryTypes
    <2>3. pc' \in [Clients -> Pc] /\ mine' \in [Clients -> 0..MaxVersion]
      BY <1>1, <2>1 DEF HistoryInv, HistoryTypes, Pc
    <2>. QED BY <1>1, <1>3, <2>1, <2>2, <2>3 DEF HistoryTypes, Versions
  <1>6. OwnVersion' /\ OneOwner'
    BY <1>1, <1>3, <1>4 DEF OwnVersion, OneOwner, HasDataset, EarlyPc,
       UnrecordedPc
  <1>. QED BY <1>1, <1>5, <1>6 DEF HistoryInv, DatasetLife, HasDataset

(* The UPDATE draws a version nobody else has: the one after all there are. *)
LEMMA BumpVersionKeepsInv ==
  ASSUME HistoryInv, NEW c \in Clients, BumpVersion(c)
  PROVE  HistoryInv'
  <1>1. CASE ~HasDataset
    <2>1. Abort(c) /\ UNCHANGED <<version, dropped, history>> /\ pc[c] = "bump"
      BY <1>1 DEF BumpVersion
    <2>. QED BY <2>1, AbortGoesOn, WorkNeedsDataset, GoingOnKeepsInv
  <1>2. CASE HasDataset
    <2>. DEFINE at == Following(kind[c], "bump")
    <2>1. /\ pc[c] = "bump" /\ version < MaxVersion /\ version' = version + 1
          /\ pc' = [pc EXCEPT ![c] = at]
          /\ mine' = [mine EXCEPT ![c] = version + 1]
          /\ UNCHANGED <<dropped, versionRows, saved, snapshot>>
      BY <1>2 DEF BumpVersion, history
    <2>2. at \in {"replace", "createVersion"}
      BY DEF Following
    <2>3. /\ version \in Nat /\ version # 0 /\ MaxVersion \in Nat
          /\ version + 1 \in 1..MaxVersion
      BY <1>2, <2>1, ConstantsAssumption DEF HistoryInv, HistoryTypes, HasDataset
    <2>4. /\ pc'[c] = at /\ mine'[c] = version + 1
          /\ \A d \in Clients \ {c} : pc'[d] = pc[d] /\ mine'[d] = mine[d]
      BY <2>1 DEF HistoryInv, HistoryTypes
    <2>5. \A d \in Clients : mine[d] \in Nat /\ mine[d] <= version
      BY <1>2, <2>3 DEF HistoryInv, HistoryTypes, OwnVersion
    <2>6. version + 1 \notin versionRows /\ version + 1 \notin saved
      BY <2>3 DEF HistoryInv, HistoryTypes
    <2>7. HistoryTypes'
      <3>1. versionRows \subseteq 1..(version + 1) /\ saved \subseteq 1..(version + 1)
        BY <2>3 DEF HistoryInv, HistoryTypes
      <3>2. mine' \in [Clients -> 0..MaxVersion]
        BY <2>1, <2>3 DEF HistoryInv, HistoryTypes
      <3>3. pc' \in [Clients -> Pc]
        BY <2>1, <2>2 DEF HistoryInv, HistoryTypes, Pc
      <3>4. DOMAIN snapshot' = Versions
        BY <2>1 DEF HistoryInv, HistoryTypes
      <3>. QED BY <2>1, <2>3, <3>1, <3>2, <3>3, <3>4 DEF HistoryTypes, Versions
    <2>8. OwnVersion'
      <3>1. ASSUME NEW d \in Clients \ {c}
            PROVE  /\ pc'[d] \in EarlyPc <=> mine'[d] = 0
                   /\ mine'[d] <= version'
                   /\ mine'[d] \notin saved
                   /\ pc'[d] \in UnrecordedPc => mine'[d] \notin versionRows
        <4>1. mine[d] <= version'
          BY <2>1, <2>3, <2>5
        <4>. QED BY <2>4, <4>1 DEF HistoryInv, OwnVersion
      <3>2. /\ pc'[c] \notin EarlyPc /\ mine'[c] # 0 /\ mine'[c] <= version'
            /\ mine'[c] \notin saved /\ mine'[c] \notin versionRows
        BY <2>1, <2>2, <2>3, <2>4, <2>6 DEF EarlyPc
      <3>. QED BY <2>1, <3>1, <3>2 DEF OwnVersion
    <2>9. OneOwner'
      <3>1. \A d \in Clients : mine[d] # version + 1
        BY <2>3, <2>5
      <3>. QED BY <2>4, <3>1 DEF HistoryInv, OneOwner
    <2>10. DatasetLife'
      BY <1>2, <2>1, <2>3 DEF HistoryInv, DatasetLife, HasDataset
    <2>. QED BY <2>7, <2>8, <2>9, <2>10 DEF HistoryInv
  <1>. QED BY <1>1, <1>2

LEMMA CreateVersionRowKeepsInv ==
  ASSUME HistoryInv, NEW c \in Clients, CreateVersionRow(c)
  PROVE  HistoryInv'
  <1>1. CASE ~HasDataset
    <2>1. Abort(c) /\ UNCHANGED <<version, dropped, history>>
          /\ pc[c] = "createVersion"
      BY <1>1 DEF CreateVersionRow, tables, history
    <2>. QED BY <2>1, AbortGoesOn, WorkNeedsDataset, GoingOnKeepsInv
  <1>2. CASE HasDataset
    <2>. DEFINE at == Following(kind[c], "createVersion")
    <2>1. /\ pc[c] = "createVersion" /\ Succeed(c)
          /\ versionRows' = versionRows \cup {mine[c]}
          /\ UNCHANGED <<version, dropped, saved, snapshot>>
      BY <1>2 DEF CreateVersionRow, tables
    <2>2. at \in {"insert", "list"}
      BY DEF Following
    <2>3. /\ pc' = [pc EXCEPT ![c] = at] /\ mine' = mine
      BY <2>1, <2>2 DEF Succeed, MoveTo, HistoryInv, HistoryTypes
    <2>4. mine[c] \in 1..version
      BY <1>2, <2>1 DEF HistoryInv, HistoryTypes, OwnVersion, EarlyPc
    <2>5. /\ pc'[c] = at /\ \A d \in Clients \ {c} : pc'[d] = pc[d]
      BY <2>3 DEF HistoryInv, HistoryTypes
    <2>6. HistoryTypes'
      <3>1. pc' \in [Clients -> Pc]
        BY <2>2, <2>3 DEF HistoryInv, HistoryTypes, Pc
      <3>2. versionRows' \subseteq 1..version
        BY <2>1, <2>4 DEF HistoryInv, HistoryTypes
      <3>. QED BY <2>1, <2>3, <3>1, <3>2 DEF HistoryInv, HistoryTypes, Versions
    <2>7. \A d \in Clients \ {c} : mine[d] # mine[c]
      BY <2>4 DEF HistoryInv, OneOwner
    <2>8. OwnVersion'
      <3>1. pc[c] \notin EarlyPc /\ pc'[c] \notin EarlyPc /\ pc'[c] \notin UnrecordedPc
        BY <2>1, <2>2, <2>5 DEF EarlyPc, UnrecordedPc
      <3>2. HasDataset' <=> HasDataset
        BY <2>1 DEF HasDataset
      <3>3. ASSUME NEW d \in Clients
            PROVE  /\ pc'[d] \in EarlyPc <=> mine[d] = 0
                   /\ pc'[d] \in UnrecordedPc => mine[d] \notin versionRows'
        BY <2>1, <2>5, <2>7, <3>1 DEF HistoryInv, OwnVersion
      <3>. QED BY <2>1, <2>3, <3>2, <3>3 DEF HistoryInv, OwnVersion
    <2>9. OneOwner' /\ DatasetLife'
      BY <1>2, <2>1, <2>3 DEF HistoryInv, OneOwner, DatasetLife, HasDataset
    <2>. QED BY <2>6, <2>8, <2>9 DEF HistoryInv
  <1>. QED BY <1>1, <1>2

LEMMA SaveSnapshotKeepsInv ==
  ASSUME HistoryInv, NEW c \in Clients, SaveSnapshot(c)
  PROVE  HistoryInv' /\ \A v \in saved : snapshot'[v] = snapshot[v]
  <1>1. CASE ~HasDataset
    <2>1. Abort(c) /\ UNCHANGED <<version, dropped, versionRows, saved, snapshot>>
          /\ pc[c] = "saveSnapshot"
      BY <1>1 DEF SaveSnapshot, tables
    <2>. QED BY <2>1, AbortGoesOn, WorkNeedsDataset, GoingOnKeepsInv DEF history
  <1>2. CASE HasDataset
    <2>1. /\ pc[c] = "saveSnapshot" /\ Succeed(c)
          /\ saved' = saved \cup {mine[c]}
          /\ snapshot' = [snapshot EXCEPT ![mine[c]] = held[c]]
          /\ UNCHANGED <<version, dropped, versionRows>>
      BY <1>2 DEF SaveSnapshot, tables
    <2>2. /\ pc' = [pc EXCEPT ![c] = "idle"] /\ mine' = [mine EXCEPT ![c] = 0]
      BY <2>1 DEF Succeed, MoveTo, Following
    <2>3. mine[c] \in 1..version /\ mine[c] \notin saved
      BY <1>2, <2>1 DEF HistoryInv, HistoryTypes, OwnVersion, EarlyPc
    <2>4. /\ pc'[c] = "idle" /\ mine'[c] = 0
          /\ \A d \in Clients \ {c} : pc'[d] = pc[d] /\ mine'[d] = mine[d]
      BY <2>2 DEF HistoryInv, HistoryTypes
    <2>5. version \in Nat /\ 0 \notin saved' /\ 0 \notin versionRows
      BY <2>1, <2>3 DEF HistoryInv, HistoryTypes
    <2>6. HistoryTypes'
      <3>1. pc' \in [Clients -> Pc]
        BY <2>2 DEF HistoryInv, HistoryTypes, Pc
      <3>2. mine' \in [Clients -> 0..MaxVersion]
        BY <2>2, ConstantsAssumption DEF HistoryInv, HistoryTypes
      <3>3. DOMAIN snapshot' = Versions
        BY <2>1 DEF HistoryInv, HistoryTypes
      <3>. QED BY <2>1, <2>3, <3>1, <3>2, <3>3 DEF HistoryInv, HistoryTypes, Versions
    <2>7. \A d \in Clients \ {c} : mine[d] # mine[c]
      BY <2>3 DEF HistoryInv, OneOwner
    <2>8. OwnVersion'
      <3>1. HasDataset' <=> HasDataset
        BY <2>1 DEF HasDataset
      <3>2. ASSUME NEW d \in Clients \ {c}
            PROVE  /\ pc'[d] \in EarlyPc <=> mine'[d] = 0
                   /\ HasDataset => mine'[d] <= version
                   /\ mine'[d] \notin saved'
                   /\ pc'[d] \in UnrecordedPc => mine'[d] \notin versionRows
        BY <2>1, <2>4, <2>7 DEF HistoryInv, OwnVersion
      <3>3. /\ pc'[c] \in EarlyPc /\ pc'[c] \notin UnrecordedPc
            /\ mine'[c] = 0 /\ mine'[c] <= version
        BY <2>4, <2>5 DEF EarlyPc, UnrecordedPc
      <3>. QED BY <2>1, <2>5, <3>1, <3>2, <3>3 DEF OwnVersion
    <2>9. OneOwner' /\ DatasetLife'
      BY <1>2, <2>1, <2>4 DEF HistoryInv, OneOwner, DatasetLife, HasDataset
    <2>10. \A v \in saved : v \in Versions /\ v # mine[c]
      BY <2>3, ConstantsAssumption DEF HistoryInv, HistoryTypes, Versions
    <2>11. \A v \in saved : snapshot'[v] = snapshot[v]
      BY <2>1, <2>10 DEF HistoryInv, HistoryTypes
    <2>. QED BY <2>6, <2>8, <2>9, <2>11 DEF HistoryInv
  <1>. QED BY <1>1, <1>2

LEMMA DeleteDatasetRowKeepsInv ==
  ASSUME HistoryInv, NEW c \in Clients, DeleteDatasetRow(c)
  PROVE  HistoryInv'
  <1>1. pc[c] = "deleteDataset" /\ Succeed(c) /\ pc[c] \in Pc
    BY DEF DeleteDatasetRow, Pc
  <1>2. pc' = [pc EXCEPT ![c] = "idle"] /\ mine' = [mine EXCEPT ![c] = 0]
    BY <1>1 DEF Succeed, MoveTo, Following
  <1>3. CASE ~HasDataset
    <2>1. UNCHANGED <<version, dropped, history>>
      BY <1>3 DEF DeleteDatasetRow, tables
    <2>. QED BY <1>1, <2>1, SucceedGoesOn, WorkNeedsDataset, GoingOnKeepsInv
  <1>4. CASE HasDataset
    <2>1. /\ version' = 0 /\ dropped' = TRUE /\ versionRows' = {} /\ saved' = {}
          /\ snapshot' = [v \in Versions |-> {}]
      BY <1>4 DEF DeleteDatasetRow
    <2>2. HistoryTypes'
      BY <1>2, <2>1, ConstantsAssumption DEF HistoryInv, HistoryTypes, Pc, Versions
    <2>3. /\ pc'[c] = "idle" /\ mine'[c] = 0
          /\ \A d \in Clients \ {c} : pc'[d] = pc[d] /\ mine'[d] = mine[d]
      BY <1>2 DEF HistoryInv, HistoryTypes
    <2>4. OwnVersion' /\ OneOwner'
      BY <2>1, <2>3 DEF HistoryInv, OwnVersion, OneOwner, HasDataset, EarlyPc
    <2>. QED BY <2>1, <2>2, <2>4 DEF HistoryInv, DatasetLife, HasDataset
  <1>. QED BY <1>3, <1>4

\* The steps that draw no version and write no history.
Elsewhere(c) ==
    \/ BatchAddExamples(c) \/ ImportFile(c) \/ UpdateExample(c)
    \/ DeleteExample(c) \/ RollbackVersion(c) \/ DeleteDataset(c)
    \/ InsertExamples(c) \/ UpdateExampleRow(c) \/ ArchiveExample(c)
    \/ AdjustExampleCount(c) \/ ArchiveOthers(c) \/ ReplaceActiveSet(c)
    \/ SetExampleCount(c) \/ ListActiveAll(c) \/ DeleteExamples(c) \/ Fail(c)

LEMMA ElsewhereGoesOn ==
  ASSUME HistoryInv, NEW c \in Clients, Elsewhere(c)
  PROVE  /\ \E at : GoesOn(c, at)
         /\ HasDataset \/ dropped
         /\ UNCHANGED <<version, dropped, history>>
  <1>1. pc[c] \in Pc
    BY DEF HistoryInv, HistoryTypes
  <1>2. ASSUME \/ BatchAddExamples(c) \/ ImportFile(c) \/ UpdateExample(c)
               \/ DeleteExample(c) \/ RollbackVersion(c) \/ DeleteDataset(c)
        PROVE  /\ \E at : GoesOn(c, at)
               /\ HasDataset
               /\ UNCHANGED <<version, dropped, history>>
    <2>1. \E k, at, v, rows :
             /\ k # "create" /\ at \in EarlyPc \ {"idle"}
             /\ Begin(c, k, at, v, rows)
      <3>1. CASE BatchAddExamples(c)
        BY <3>1 DEF BatchAddExamples, BeginWithNewRows, EarlyPc
      <3>2. CASE ImportFile(c)
        BY <3>2 DEF ImportFile, BeginWithNewRows, EarlyPc
      <3>3. CASE UpdateExample(c)
        BY <3>3 DEF UpdateExample, EarlyPc
      <3>4. CASE DeleteExample(c)
        BY <3>4 DEF DeleteExample, EarlyPc
      <3>5. CASE RollbackVersion(c)
        BY <3>5 DEF RollbackVersion, EarlyPc
      <3>6. CASE DeleteDataset(c)
        BY <3>6 DEF DeleteDataset, EarlyPc
      <3>. QED BY <1>2, <3>1, <3>2, <3>3, <3>4, <3>5, <3>6
    <2>2. HasDataset /\ UNCHANGED <<version, dropped, history>>
      BY <1>2 DEF BatchAddExamples, ImportFile, UpdateExample, DeleteExample,
         RollbackVersion, DeleteDataset, tables
    <2>. QED BY <2>1, <2>2, BeginGoesOn
  <1>3. ASSUME \/ InsertExamples(c) \/ ReplaceActiveSet(c)
        PROVE  /\ \E at : GoesOn(c, at)
               /\ pc[c] # "idle"
               /\ UNCHANGED <<version, dropped, history>>
    <2>1. pc[c] \in {"insert", "upsert"} /\ (Succeed(c) \/ Abort(c))
      BY <1>3 DEF InsertExamples, ReplaceActiveSet
    <2>2. UNCHANGED <<version, dropped, history>>
      BY <1>3 DEF InsertExamples, ReplaceActiveSet
    <2>. QED BY <1>1, <2>1, <2>2, SucceedGoesOn, AbortGoesOn
  <1>4. ASSUME \/ UpdateExampleRow(c) \/ ArchiveExample(c)
               \/ AdjustExampleCount(c) \/ SetExampleCount(c)
               \/ DeleteExamples(c)
        PROVE  /\ \E at : GoesOn(c, at)
               /\ pc[c] # "idle"
               /\ UNCHANGED <<version, dropped, history>>
    <2>1. pc[c] \notin {"idle", "bump"} /\ Succeed(c)
      BY <1>4 DEF UpdateExampleRow, ArchiveExample, AdjustExampleCount,
         SetExampleCount, DeleteExamples
    <2>2. UNCHANGED <<version, dropped, history>>
      BY <1>4 DEF UpdateExampleRow, ArchiveExample, AdjustExampleCount,
         SetExampleCount, DeleteExamples
    <2>. QED BY <1>1, <2>1, <2>2, SucceedGoesOn
  <1>5. ASSUME ListActiveAll(c)
        PROVE  /\ \E at : GoesOn(c, at)
               /\ pc[c] # "idle"
               /\ UNCHANGED <<version, dropped, history>>
    <2>1. /\ pc[c] = "list" /\ pc' = [pc EXCEPT ![c] = "saveSnapshot"]
          /\ mine' = mine /\ UNCHANGED <<version, dropped, history>>
      BY <1>5 DEF ListActiveAll, tables
    <2>2. mine' = [mine EXCEPT ![c] = IF "saveSnapshot" = "idle" THEN 0 ELSE @]
      BY <2>1 DEF HistoryInv, HistoryTypes
    <2>3. GoesOn(c, "saveSnapshot")
      BY <2>1, <2>2 DEF GoesOn, Pc, EarlyPc, UnrecordedPc
    <2>. QED BY <2>1, <2>3
  <1>6. ASSUME ArchiveOthers(c)
        PROVE  /\ \E at : GoesOn(c, at)
               /\ pc[c] # "idle"
               /\ UNCHANGED <<version, dropped, history>>
    <2>1. /\ pc[c] = "replace" /\ pc' = [pc EXCEPT ![c] = "upsert"]
          /\ mine' = mine /\ UNCHANGED <<version, dropped, history>>
      BY <1>6 DEF ArchiveOthers, Following, tables
    <2>2. mine' = [mine EXCEPT ![c] = IF "upsert" = "idle" THEN 0 ELSE @]
      BY <2>1 DEF HistoryInv, HistoryTypes
    <2>3. GoesOn(c, "upsert")
      BY <2>1, <2>2 DEF GoesOn, Pc, EarlyPc, UnrecordedPc
    <2>. QED BY <2>1, <2>3
  <1>7. ASSUME Fail(c)
        PROVE  /\ \E at : GoesOn(c, at)
               /\ pc[c] # "idle"
               /\ UNCHANGED <<version, dropped, history>>
    <2>1. pc[c] # "idle" /\ (Abort(c) \/ MoveTo(c, "idle"))
          /\ UNCHANGED <<version, dropped, history>>
      BY <1>7 DEF Fail, tables
    <2>. QED BY <2>1, AbortGoesOn, EndGoesOn
  <1>. QED BY <1>2, <1>3, <1>4, <1>5, <1>6, <1>7, WorkNeedsDataset DEF Elsewhere

(* Every step keeps the invariant, and every saved snapshot that is still   *)
(* there afterwards.                                                       *)
LEMMA StepHistory ==
  ASSUME HistoryInv, [Next]_vars
  PROVE  /\ HistoryInv'
         /\ \A v \in saved : v \in saved' => snapshot'[v] = snapshot[v]
  <1>1. CASE UNCHANGED vars
    <2>1. UNCHANGED <<version, dropped, versionRows, saved, snapshot, pc, mine>>
      BY <1>1 DEF vars, tables, history, memory
    <2>. QED BY <2>1 DEF HistoryInv, HistoryTypes, OwnVersion, OneOwner,
               DatasetLife, HasDataset, Versions
  <1>2. ASSUME NEW c \in Clients, CreateDataset(c)
        PROVE  HistoryInv' /\ UNCHANGED snapshot
    BY <1>2, CreateDatasetKeepsInv DEF CreateDataset, history
  <1>3. ASSUME NEW c \in Clients, BumpVersion(c)
        PROVE  HistoryInv' /\ UNCHANGED snapshot
    BY <1>3, BumpVersionKeepsInv DEF BumpVersion, history
  <1>4. ASSUME NEW c \in Clients, CreateVersionRow(c)
        PROVE  HistoryInv' /\ UNCHANGED snapshot
    BY <1>4, CreateVersionRowKeepsInv DEF CreateVersionRow
  <1>5. ASSUME NEW c \in Clients, DeleteDatasetRow(c)
        PROVE  HistoryInv' /\ (saved' = {} \/ UNCHANGED snapshot)
    BY <1>5, DeleteDatasetRowKeepsInv DEF DeleteDatasetRow, history
  <1>6. ASSUME NEW c \in Clients, Elsewhere(c)
        PROVE  HistoryInv' /\ UNCHANGED snapshot
    BY <1>6, ElsewhereGoesOn, GoingOnKeepsInv DEF history
  <1>7. \A c \in Clients : SaveSnapshot(c) =>
           HistoryInv' /\ \A v \in saved : snapshot'[v] = snapshot[v]
    BY SaveSnapshotKeepsInv
  <1>. QED BY <1>1, <1>2, <1>3, <1>4, <1>5, <1>6, <1>7
         DEF Next, Request, Statement, Elsewhere

-----------------------------------------------------------------------------

(* Two handlers never work on one version, and no version is recorded       *)
(* twice: UNIQUE (dataset_id, version) never refuses an INSERT.            *)
THEOREM VersionsAreDrawnOnce == Spec => []VersionDrawnOnce
  <1>1. Init => HistoryInv
    BY InitHistory
  <1>2. HistoryInv /\ [Next]_vars => HistoryInv'
    BY StepHistory
  <1>3. HistoryInv => VersionDrawnOnce
    BY DEF HistoryInv, OneOwner, OwnVersion, VersionDrawnOnce, UnrecordedPc
  <1>. QED BY <1>1, <1>2, <1>3, PTL DEF Spec

(* A saved snapshot is never overwritten while its dataset exists.          *)
THEOREM SnapshotsAreFinal == Spec => SnapshotIsFinal
  <1>. DEFINE Kept == \A v \in saved : v \in saved' => snapshot'[v] = snapshot[v]
  <1>1. Init => HistoryInv
    BY InitHistory
  <1>2. HistoryInv /\ [Next]_vars => HistoryInv'
    BY StepHistory
  <1>3. HistoryInv /\ [Next]_vars => [Kept]_vars
    BY StepHistory
  <1>. QED BY <1>1, <1>2, <1>3, PTL DEF Spec, SnapshotIsFinal

-----------------------------------------------------------------------------
(* The example rows: for any interleaving and any failures an example has   *)
(* one row in the tables, in a snapshot and in a handler's memory, and the  *)
(* rows a handler is about to insert are known to nobody else.              *)

UniqueIds(rows) == \A r, s \in rows : r.id = s.id => r = s

\* What a table, a snapshot or a handler's memory holds: finitely many rows.
RowTable == {rows \in SUBSET Row : IsFiniteSet(rows) /\ UniqueIds(rows)}

UsedIds == Ids(active) \cup Ids(archived)
           \cup UNION {Ids(snapshot[v]) : v \in Versions}

\* Handler c has drawn ids for rows it has not inserted yet.
Adding(c) == /\ kind[c] \in {"add", "import"}
             /\ pc[c] \in {"bump", "createVersion", "insert"}

RowTypes ==
    /\ dropped \in BOOLEAN
    /\ count \in Int
    /\ active \in RowTable /\ archived \in RowTable
    /\ snapshot \in [Versions -> RowTable]
    /\ kind \in [Clients -> Kinds]
    /\ target \in [Clients -> 0..MaxVersion]
    /\ held \in [Clients -> RowTable]
    /\ archiving \in [Clients -> SUBSET ExampleIds]
    /\ failures \in 0..MaxFailures

OneTable == Ids(active) \cap Ids(archived) = {}

NewRowsAreNew ==
    \A c \in Clients : Adding(c) =>
        /\ Ids(held[c]) \cap UsedIds = {}
        /\ \A d \in Clients \ {c} : Ids(held[c]) \cap Ids(held[d]) = {}

\* What a handler executes fits the kind of its request.
KindAt(k, at) ==
    CASE at = "idle" -> k = "create"
      [] at = "bump" -> k \notin {"create", "drop"}
      [] at \in {"createVersion", "list", "saveSnapshot"} -> k # "drop"
      [] at = "insert" -> k \in {"add", "import"}
      [] at = "updateRow" -> k = "update"
      [] at \in {"archive", "adjustCount"} -> k = "delete"
      [] at \in {"replace", "upsert", "setCount"} -> k = "rollback"
      [] OTHER -> k = "drop"

KindsFit == \A c \in Clients : KindAt(kind[c], pc[c])

RowsInv ==
    /\ RowTypes
    /\ KindsFit
    /\ OneTable
    /\ NewRowsAreNew

-----------------------------------------------------------------------------
(* Finite sets of rows.                                                    *)

LEMMA ImageIsFinite ==
  ASSUME NEW S, IsFiniteSet(S), NEW f
  PROVE  IsFiniteSet({f[x] : x \in S})
  <1>. DEFINE T == {f[x] : x \in S}
              g == [x \in S |-> f[x]]
  <1>1. g \in Surjection(S, T)
    BY DEF Surjection
  <1>. QED BY <1>1, FS_Surjection

LEMMA InjectiveImageSize ==
  ASSUME NEW S, IsFiniteSet(S), NEW f,
         \A x \in S : \A y \in S : f[x] = f[y] => x = y
  PROVE  Cardinality({f[x] : x \in S}) = Cardinality(S)
  <1>. DEFINE T == {f[x] : x \in S}
              g == [x \in S |-> f[x]]
  <1>1. g \in Surjection(S, T)
    BY DEF Surjection
  <1>2. g \in Injection(S, T)
    BY DEF Injection, IsInjective
  <1>. QED BY <1>1, <1>2, FS_Surjection

LEMMA SubtableIsTable ==
  ASSUME NEW S \in RowTable, NEW T \in SUBSET S
  PROVE  T \in RowTable
  BY FS_Subset DEF RowTable, UniqueIds

LEMMA EmptyIsTable == {} \in RowTable
  BY FS_EmptySet DEF RowTable, UniqueIds

LEMMA SingleIsTable ==
  ASSUME NEW r \in Row
  PROVE  {r} \in RowTable
  BY FS_Singleton DEF RowTable, UniqueIds

(* Two tables without a common id are one table.                            *)
LEMMA UnionIsTable ==
  ASSUME NEW S \in RowTable, NEW T \in RowTable, Ids(S) \cap Ids(T) = {}
  PROVE  S \cup T \in RowTable
  <1>1. IsFiniteSet(S \cup T)
    BY FS_Union DEF RowTable
  <1>2. \A r \in S, s \in T : r.id # s.id
    BY DEF Ids
  <1>. QED BY <1>1, <1>2 DEF RowTable, UniqueIds

(* Rewriting the rows of a table without touching their ids gives a table   *)
(* of as many rows.                                                        *)
LEMMA RewrittenIsTable ==
  ASSUME NEW S \in RowTable, NEW f,
         \A r \in S : f[r] \in Row /\ f[r].id = r.id
  PROVE  /\ {f[r] : r \in S} \in RowTable
         /\ Ids({f[r] : r \in S}) = Ids(S)
         /\ Cardinality({f[r] : r \in S}) = Cardinality(S)
  <1>. DEFINE T == {f[r] : r \in S}
  <1>1. IsFiniteSet(S) /\ UniqueIds(S)
    BY DEF RowTable
  <1>2. \A r \in S : \A s \in S : f[r] = f[s] => r = s
    BY <1>1 DEF UniqueIds
  <1>3. IsFiniteSet(T) /\ Cardinality(T) = Cardinality(S)
    BY <1>1, <1>2, ImageIsFinite, InjectiveImageSize
  <1>4. UniqueIds(T)
    BY <1>1 DEF UniqueIds
  <1>5. T \in SUBSET Row
    OBVIOUS
  <1>6. Ids(T) = Ids(S)
    BY DEF Ids
  <1>. QED BY <1>3, <1>4, <1>5, <1>6 DEF RowTable

(* The rows of a request or a file, each with an id of its own.             *)
LEMMA NewRowsAreATable ==
  ASSUME NEW positions, IsFiniteSet(positions), NEW row,
         \A i \in positions : row[i] \in Row,
         \A i \in positions : \A j \in positions :
            row[i].id = row[j].id => i = j
  PROVE  {row[i] : i \in positions} \in RowTable
  <1>1. IsFiniteSet({row[i] : i \in positions})
    BY ImageIsFinite
  <1>. QED BY <1>1 DEF RowTable, UniqueIds

-----------------------------------------------------------------------------
(* Steps of one handler.                                                   *)

OthersKept(c) ==
    \A d \in Clients \ {c} :
        pc'[d] = pc[d] /\ kind'[d] = kind[d] /\ held'[d] = held[d]

LEMMA MoveToTypes ==
  ASSUME RowTypes, pc \in [Clients -> Pc], NEW c \in Clients, NEW at,
         MoveTo(c, at)
  PROVE  /\ kind' \in [Clients -> Kinds]
         /\ target' \in [Clients -> 0..MaxVersion]
         /\ held' \in [Clients -> RowTable]
         /\ archiving' \in [Clients -> SUBSET ExampleIds]
         /\ pc'[c] = at
         /\ kind'[c] = IF at = "idle" THEN "create" ELSE kind[c]
         /\ held'[c] = IF at = "idle" THEN {} ELSE held[c]
         /\ OthersKept(c)
  <1>1. /\ pc' = [pc EXCEPT ![c] = at]
        /\ target' = [target EXCEPT ![c] = IF at = "idle" THEN 0 ELSE @]
        /\ held' = [held EXCEPT ![c] = IF at = "idle" THEN {} ELSE @]
        /\ kind' = [kind EXCEPT ![c] = IF at = "idle" THEN "create" ELSE @]
        /\ archiving' = [archiving EXCEPT ![c] = {}]
    BY DEF MoveTo
  <1>2. 0 \in 0..MaxVersion /\ "create" \in Kinds
    BY ConstantsAssumption DEF Kinds
  <1>3. kind' \in [Clients -> Kinds] /\ target' \in [Clients -> 0..MaxVersion]
    BY <1>1, <1>2 DEF RowTypes
  <1>4. held' \in [Clients -> RowTable]
    BY <1>1, EmptyIsTable DEF RowTypes
  <1>. QED BY <1>1, <1>3, <1>4 DEF RowTypes, OthersKept

(* Rows nobody has seen stay so: a step of handler c makes no id known that *)
(* was not known, in c's memory or fresh.                                  *)
LEMMA NewRowsStayNew ==
  ASSUME NewRowsAreNew, NEW c \in Clients, OthersKept(c),
         UsedIds' \subseteq UsedIds \cup Ids(held[c]),
         Ids(held'[c]) \subseteq UsedIds \cup Ids(held[c]) \cup FreshIds,
         Adding(c)' =>
            /\ UsedIds' \subseteq UsedIds
            /\ \/ Adding(c) /\ Ids(held'[c]) \subseteq Ids(held[c])
               \/ Ids(held'[c]) \subseteq FreshIds
  PROVE  NewRowsAreNew'
  <1>1. /\ FreshIds \cap UsedIds = {}
        /\ \A d \in Clients : FreshIds \cap Ids(held[d]) = {}
    BY DEF FreshIds, UsedIds
  <1>2. ASSUME NEW d \in Clients \ {c}, Adding(d)'
        PROVE  /\ Ids(held'[d]) \cap UsedIds' = {}
               /\ \A e \in Clients \ {d} : Ids(held'[d]) \cap Ids(held'[e]) = {}
    <2>1. Adding(d) /\ held'[d] = held[d]
      BY <1>2 DEF Adding, OthersKept
    <2>2. Ids(held[d]) \cap UsedIds = {} /\ Ids(held[d]) \cap Ids(held[c]) = {}
      BY <2>1 DEF NewRowsAreNew
    <2>3. Ids(held[d]) \cap Ids(held'[c]) = {}
      BY <1>1, <2>2
    <2>4. \A e \in Clients \ {c, d} : Ids(held[d]) \cap Ids(held'[e]) = {}
      BY <2>1 DEF NewRowsAreNew, OthersKept
    <2>. QED BY <2>1, <2>2, <2>3, <2>4
  <1>3. ASSUME Adding(c)'
        PROVE  /\ Ids(held'[c]) \cap UsedIds' = {}
               /\ \A e \in Clients \ {c} : Ids(held'[c]) \cap Ids(held'[e]) = {}
    <2>1. Ids(held'[c]) \cap UsedIds = {}
      BY <1>1, <1>3 DEF NewRowsAreNew
    <2>2. \A e \in Clients \ {c} : Ids(held'[c]) \cap Ids(held[e]) = {}
      BY <1>1, <1>3 DEF NewRowsAreNew
    <2>. QED BY <1>3, <2>1, <2>2 DEF OthersKept
  <1>. QED BY <1>2, <1>3 DEF NewRowsAreNew

(* What follows a statement fits the request, and only a handler that has   *)
(* new rows in memory goes on with new rows.                               *)
LEMMA FollowingFits ==
  ASSUME NEW k \in Kinds, NEW at \in Pc, KindAt(k, at),
         NEW next, next \in {Following(k, at), AfterFailure(k, at), "idle"}
  PROVE  /\ KindAt(IF next = "idle" THEN "create" ELSE k, next)
         /\ next \in {"bump", "createVersion", "insert"} /\ k \in {"add", "import"}
               => at \in {"bump", "createVersion"}
  <1>1. CASE next = Following(k, at)
    <2>. DEFINE Fits == /\ KindAt(IF next = "idle" THEN "create" ELSE k, next)
                        /\ next \in {"bump", "createVersion", "insert"}
                           /\ k \in {"add", "import"}
                             => at \in {"bump", "createVersion"}
    <2>1. CASE at \in {"idle", "saveSnapshot", "deleteDataset"}
      BY <1>1, <2>1 DEF KindAt, Following
    <2>2. CASE at = "bump"
      BY <1>1, <2>2 DEF KindAt, Following, Kinds
    <2>3. CASE at = "createVersion"
      BY <1>1, <2>3 DEF KindAt, Following, Kinds
    <2>4. CASE at \in {"insert", "list"}
      BY <1>1, <2>4 DEF KindAt, Following
    <2>5. CASE at = "updateRow"
      BY <1>1, <2>5 DEF KindAt, Following
    <2>6. CASE at \in {"archive", "adjustCount"}
      BY <1>1, <2>6 DEF KindAt, Following
    <2>7. CASE at \in {"replace", "upsert", "setCount"}
      BY <1>1, <2>7 DEF KindAt, Following
    <2>8. CASE at = "deleteExamples"
      BY <1>1, <2>8 DEF KindAt, Following, Kinds
    <2>. HIDE DEF Fits
    <2>9. Fits
      BY <2>1, <2>2, <2>3, <2>4, <2>5, <2>6, <2>7, <2>8 DEF Fits, Pc
    <2>. QED BY <2>9 DEF Fits
  <1>2. CASE next = AfterFailure(k, at)
    BY <1>2 DEF KindAt, AfterFailure, Kinds, Pc
  <1>3. CASE next = "idle"
    BY <1>3 DEF KindAt
  <1>. QED BY <1>1, <1>2, <1>3

(* A statement that leaves tables and snapshots of one row per example, and *)
(* makes no ids known but those in its handler's memory.                   *)
LEMMA MovingKeepsRows ==
  ASSUME RowsInv, pc \in [Clients -> Pc], NEW c \in Clients, NEW next,
         next \in {Following(kind[c], pc[c]), AfterFailure(kind[c], pc[c]),
                   "idle"},
         MoveTo(c, next),
         dropped' \in BOOLEAN, count' \in Int, failures' \in 0..MaxFailures,
         active' \in RowTable, archived' \in RowTable,
         snapshot' \in [Versions -> RowTable], OneTable',
         UsedIds' \subseteq UsedIds \cup Ids(held[c]),
         pc[c] \in {"bump", "createVersion"} => UsedIds' \subseteq UsedIds
  PROVE  RowsInv'
  <1>1. /\ kind' \in [Clients -> Kinds]
        /\ target' \in [Clients -> 0..MaxVersion]
        /\ held' \in [Clients -> RowTable]
        /\ archiving' \in [Clients -> SUBSET ExampleIds]
        /\ pc'[c] = next
        /\ kind'[c] = IF next = "idle" THEN "create" ELSE kind[c]
        /\ held'[c] = IF next = "idle" THEN {} ELSE held[c]
        /\ OthersKept(c)
    BY MoveToTypes DEF RowsInv
  <1>2. kind[c] \in Kinds /\ pc[c] \in Pc /\ KindAt(kind[c], pc[c])
    BY DEF RowsInv, RowTypes, KindsFit
  <1>3. /\ KindAt(kind'[c], pc'[c])
        /\ next \in {"bump", "createVersion", "insert"}
           /\ kind[c] \in {"add", "import"} => pc[c] \in {"bump", "createVersion"}
    <2>1. /\ KindAt(IF next = "idle" THEN "create" ELSE kind[c], next)
          /\ next \in {"bump", "createVersion", "insert"}
             /\ kind[c] \in {"add", "import"} => pc[c] \in {"bump", "createVersion"}
      BY <1>2, FollowingFits
    <2>2. /\ pc'[c] = next
          /\ kind'[c] = IF next = "idle" THEN "create" ELSE kind[c]
      BY <1>1
    <2>. QED BY <2>1, <2>2
  <1>4. KindsFit'
    BY <1>1, <1>3 DEF KindsFit, OthersKept, RowsInv
  <1>5. Ids(held'[c]) \subseteq Ids(held[c])
    BY <1>1 DEF Ids
  <1>6. Adding(c)' => Adding(c) /\ UsedIds' \subseteq UsedIds
    BY <1>1, <1>3 DEF Adding
  <1>7. NewRowsAreNew'
    BY <1>1, <1>5, <1>6, NewRowsStayNew DEF RowsInv
  <1>8. RowTypes'
    BY <1>1 DEF RowTypes
  <1>. QED BY <1>4, <1>7, <1>8 DEF RowsInv

(* A request that starts with rows of the tables and snapshots, or, when it *)
(* adds examples, with rows whose ids are fresh.                           *)
LEMMA BeginKeepsRows ==
  ASSUME RowsInv, pc \in [Clients -> Pc], NEW c \in Clients, NEW k,
         NEW at \in Pc, KindAt(k, at), NEW v \in 0..MaxVersion,
         NEW rows \in RowTable, Begin(c, k, at, v, rows), at # "idle",
         Ids(rows) \subseteq UsedIds \cup FreshIds,
         k \in {"add", "import"} => Ids(rows) \subseteq FreshIds,
         UNCHANGED <<dropped, count, active, archived, snapshot, failures>>
  PROVE  RowsInv'
  <1>1. /\ pc' = [pc EXCEPT ![c] = at] /\ kind' = [kind EXCEPT ![c] = k]
        /\ target' = [target EXCEPT ![c] = v]
        /\ held' = [held EXCEPT ![c] = rows]
        /\ k \in Kinds /\ archiving' = archiving
    BY ConstantsAssumption DEF Begin
  <1>2. /\ kind' \in [Clients -> Kinds]
        /\ target' \in [Clients -> 0..MaxVersion]
        /\ held' \in [Clients -> RowTable]
    BY <1>1 DEF RowsInv, RowTypes
  <1>3. pc'[c] = at /\ kind'[c] = k /\ held'[c] = rows /\ OthersKept(c)
    BY <1>1 DEF RowsInv, RowTypes, OthersKept
  <1>4. KindsFit'
    BY <1>3 DEF KindsFit, OthersKept, RowsInv
  <1>5. UsedIds' = UsedIds
    BY DEF UsedIds
  <1>6. Adding(c)' => Ids(held'[c]) \subseteq FreshIds
    BY <1>3 DEF Adding
  <1>7. NewRowsAreNew'
    BY <1>3, <1>5, <1>6, NewRowsStayNew DEF RowsInv
  <1>8. RowTypes' /\ OneTable'
    BY <1>1, <1>2 DEF RowsInv, RowTypes, OneTable
  <1>. QED BY <1>4, <1>7, <1>8 DEF RowsInv

LEMMA NewRowsRequestKeepsRows ==
  ASSUME RowsInv, pc \in [Clients -> Pc], NEW c \in Clients,
         NEW k \in {"add", "import"}, NEW positions, IsFiniteSet(positions),
         NEW file, \A i \in positions : file[i] \in Contents,
         BeginWithNewRows(c, k, file, positions),
         UNCHANGED <<dropped, count, active, archived, snapshot, failures>>
  PROVE  RowsInv'
  <1>1. PICK id \in [positions -> FreshIds] :
           /\ \A i, j \in positions : id[i] = id[j] => i = j
           /\ Begin(c, k, "bump", 0,
                    {[id |-> id[i], content |-> file[i], added |-> 0] :
                         i \in positions})
    BY DEF BeginWithNewRows
  <1>2. PICK rows : rows = {[id |-> id[i], content |-> file[i], added |-> 0] :
                               i \in positions}
    OBVIOUS
  <1>3. rows \in RowTable /\ Ids(rows) \subseteq FreshIds
    <2>1. FreshIds \in SUBSET ExampleIds
      BY DEF FreshIds
    <2>2. PICK row : row = [i \in positions |->
                              [id |-> id[i], content |-> file[i], added |-> 0]]
      OBVIOUS
    <2>3. 0 \in 0..MaxVersion
      BY ConstantsAssumption
    <2>4. \A i \in positions : row[i] \in Row /\ row[i].id = id[i]
      BY <2>1, <2>2, <2>3 DEF Row
    <2>5. \A i \in positions : \A j \in positions :
             row[i].id = row[j].id => i = j
      BY <1>1, <2>4
    <2>6. rows = {row[i] : i \in positions}
      BY <1>2, <2>2
    <2>7. {row[i] : i \in positions} \in RowTable
      BY <2>4, <2>5, NewRowsAreATable
    <2>8. Ids(rows) \subseteq FreshIds
      BY <2>4, <2>6 DEF Ids
    <2>. QED BY <2>6, <2>7, <2>8
  <1>4. Begin(c, k, "bump", 0, rows)
    BY <1>1, <1>2
  <1>5. 0 \in 0..MaxVersion /\ "bump" \in Pc /\ KindAt(k, "bump")
    BY ConstantsAssumption DEF Pc, KindAt
  <1>. QED BY <1>3, <1>4, <1>5, BeginKeepsRows

LEMMA RequestKeepsRows ==
  ASSUME RowsInv, HistoryInv, NEW c \in Clients, Request(c)
  PROVE  RowsInv'
  <1>. DEFINE Same ==
         UNCHANGED <<dropped, count, active, archived, snapshot, failures>>
  <1>1. Same
    BY DEF Request, CreateDataset, BatchAddExamples, ImportFile, UpdateExample,
       DeleteExample, RollbackVersion, DeleteDataset, tables, history
  <1>2. pc \in [Clients -> Pc] /\ 0 \in 0..MaxVersion /\ MaxBatch \in Nat
    BY ConstantsAssumption DEF HistoryInv, HistoryTypes
  <1>3. Ids({}) = {}
    BY DEF Ids
  <1>4. CASE CreateDataset(c)
    <2>1. Begin(c, "create", "createVersion", 0, {})
      BY <1>4 DEF CreateDataset
    <2>2. "createVersion" \in Pc /\ KindAt("create", "createVersion")
      BY DEF Pc, KindAt
    <2>. QED BY <1>1, <1>2, <1>3, <2>1, <2>2, EmptyIsTable, BeginKeepsRows
  <1>5. CASE BatchAddExamples(c)
    <2>1. PICK n \in 1..MaxBatch : \E rows \in [1..n -> Contents] :
             BeginWithNewRows(c, "add", rows, 1..n)
      BY <1>5 DEF BatchAddExamples
    <2>2. PICK rows \in [1..n -> Contents] :
             BeginWithNewRows(c, "add", rows, 1..n)
      BY <2>1
    <2>3. IsFiniteSet(1..n)
      BY <1>2, FS_Interval
    <2>4. \A i \in 1..n : rows[i] \in Contents
      OBVIOUS
    <2>. QED BY <1>1, <1>2, <2>2, <2>3, <2>4, NewRowsRequestKeepsRows
  <1>6. CASE ImportFile(c)
    <2>. DEFINE known == {r.content.inputs : r \in active}
    <2>1. PICK n \in 1..MaxBatch :
             \E file \in [1..n -> Contents \cup {Invalid}] :
                BeginWithNewRows(c, "import", file, FilterImport(file, known))
      BY <1>6 DEF ImportFile
    <2>2. PICK file \in [1..n -> Contents \cup {Invalid}] :
             BeginWithNewRows(c, "import", file, FilterImport(file, known))
      BY <2>1
    <2>. DEFINE toAdd == FilterImport(file, known)
    <2>3. toAdd \in SUBSET (1..n)
      BY DEF FilterImport
    <2>4. IsFiniteSet(toAdd)
      <3>. HIDE DEF toAdd
      <3>1. IsFiniteSet(1..n)
        BY <1>2, FS_Interval
      <3>. QED BY <2>3, <3>1, FS_Subset
    <2>5. \A i \in toAdd : file[i] \in Contents
      BY DEF FilterImport
    <2>6. BeginWithNewRows(c, "import", file, toAdd)
      BY <2>2
    <2>. HIDE DEF toAdd
    <2>. QED BY <1>1, <1>2, <2>4, <2>5, <2>6, NewRowsRequestKeepsRows
  <1>7. CASE UpdateExample(c)
    <2>1. PICK row \in active : \E content \in Contents :
             Begin(c, "update", "updateRow", 0, {[row EXCEPT !.content = content]})
      BY <1>7 DEF UpdateExample
    <2>2. PICK content \in Contents :
             Begin(c, "update", "updateRow", 0, {[row EXCEPT !.content = content]})
      BY <2>1
    <2>. DEFINE new == [row EXCEPT !.content = content]
    <2>3. row \in Row
      BY DEF RowsInv, RowTypes, RowTable
    <2>4. new \in Row /\ new.id = row.id
      BY <2>3 DEF Row
    <2>5. Begin(c, "update", "updateRow", 0, {new})
      BY <2>2
    <2>. HIDE DEF new
    <2>6. {new} \in RowTable /\ Ids({new}) \subseteq UsedIds
      BY <2>4, SingleIsTable DEF Ids, UsedIds
    <2>7. "updateRow" \in Pc /\ KindAt("update", "updateRow")
      BY DEF Pc, KindAt
    <2>. QED BY <1>1, <1>2, <2>5, <2>6, <2>7, BeginKeepsRows
  <1>8. CASE DeleteExample(c)
    <2>1. PICK row \in active : Begin(c, "delete", "archive", 0, {row})
      BY <1>8 DEF DeleteExample
    <2>2. row \in Row
      BY DEF RowsInv, RowTypes, RowTable
    <2>3. {row} \in RowTable /\ Ids({row}) \subseteq UsedIds
      BY <2>2, SingleIsTable DEF Ids, UsedIds
    <2>4. "archive" \in Pc /\ KindAt("delete", "archive")
      BY DEF Pc, KindAt
    <2>. QED BY <1>1, <1>2, <2>1, <2>3, <2>4, BeginKeepsRows
  <1>9. CASE RollbackVersion(c)
    <2>1. PICK v \in saved : Begin(c, "rollback", "bump", v, snapshot[v])
      BY <1>9 DEF RollbackVersion
    <2>2. v \in Versions /\ v \in 0..MaxVersion
      BY ConstantsAssumption DEF HistoryInv, HistoryTypes, Versions
    <2>3. snapshot[v] \in RowTable /\ Ids(snapshot[v]) \subseteq UsedIds
      BY <2>2 DEF RowsInv, RowTypes, UsedIds
    <2>4. "bump" \in Pc /\ KindAt("rollback", "bump")
      BY DEF Pc, KindAt
    <2>. QED BY <1>1, <1>2, <2>1, <2>2, <2>3, <2>4, BeginKeepsRows
  <1>10. CASE DeleteDataset(c)
    <2>1. Begin(c, "drop", "deleteExamples", 0, {})
      BY <1>10 DEF DeleteDataset
    <2>2. "deleteExamples" \in Pc /\ KindAt("drop", "deleteExamples")
      BY DEF Pc, KindAt
    <2>. QED BY <1>1, <1>2, <1>3, <2>1, <2>2, EmptyIsTable, BeginKeepsRows
  <1>. QED BY <1>4, <1>5, <1>6, <1>7, <1>8, <1>9, <1>10 DEF Request

-----------------------------------------------------------------------------
(* One lemma per statement.                                                *)

(* Drawing the version stamps it on the new rows, under the ids they have.  *)
LEMMA BumpVersionKeepsRows ==
  ASSUME RowsInv, HistoryInv, NEW c \in Clients, BumpVersion(c)
  PROVE  RowsInv'
  <1>1. pc \in [Clients -> Pc] /\ version \in Nat /\ MaxVersion \in Nat
    BY ConstantsAssumption DEF HistoryInv, HistoryTypes
  <1>2. /\ pc[c] = "bump"
        /\ UNCHANGED <<dropped, active, archived, snapshot, failures>>
    BY DEF BumpVersion, history
  <1>3. UsedIds' = UsedIds
    BY <1>2 DEF UsedIds
  <1>4. active \in RowTable /\ archived \in RowTable /\ OneTable
        /\ snapshot \in [Versions -> RowTable] /\ dropped \in BOOLEAN
        /\ failures \in 0..MaxFailures /\ count \in Int
    BY DEF RowsInv, RowTypes
  <1>5. CASE ~HasDataset
    <2>1. MoveTo(c, AfterFailure(kind[c], pc[c])) /\ count' = count
      BY <1>5 DEF BumpVersion, Abort
    <2>2. OneTable'
      BY <1>2, <1>4 DEF OneTable
    <2>. QED BY <1>1, <1>2, <1>3, <1>4, <2>1, <2>2, MovingKeepsRows
  <1>6. CASE HasDataset
    <2>. DEFINE k == kind[c]
                v == version + 1
                stamped == {[r EXCEPT !.added = v] : r \in held[c]}
    <2>1. /\ version < MaxVersion
          /\ count' = IF k \in {"add", "import"}
                      THEN count + Cardinality(held[c]) ELSE count
          /\ pc' = [pc EXCEPT ![c] = Following(k, "bump")]
          /\ held' = [held EXCEPT ![c] =
                        IF k \in {"add", "import"} THEN stamped ELSE held[c]]
          /\ UNCHANGED <<kind, target, archiving>>
      BY <1>6 DEF BumpVersion
    <2>2. held[c] \in RowTable /\ k \in Kinds /\ KindAt(k, "bump")
      BY <1>2 DEF RowsInv, RowTypes, KindsFit
    <2>3. stamped \in RowTable /\ Ids(stamped) = Ids(held[c])
      <3>1. v \in 0..MaxVersion
        BY <1>1, <2>1
      <3>2. PICK f : f = [r \in held[c] |-> [r EXCEPT !.added = v]]
        OBVIOUS
      <3>3. \A r \in held[c] : f[r] \in Row /\ f[r].id = r.id
        BY <2>2, <3>1, <3>2 DEF RowTable, Row
      <3>4. stamped = {f[r] : r \in held[c]}
        BY <3>2
      <3>. QED BY <2>2, <3>3, <3>4, RewrittenIsTable, SMTT(30)
    <2>4. count' \in Int
      <3>1. Cardinality(held[c]) \in Nat
        BY <2>2, FS_CardinalityType DEF RowTable
      <3>. QED BY <1>4, <2>1, <3>1
    <2>5. held' \in [Clients -> RowTable]
      BY <2>1, <2>2, <2>3 DEF RowsInv, RowTypes
    <2>6. /\ pc'[c] = Following(k, "bump") /\ kind'[c] = k
          /\ held'[c] = IF k \in {"add", "import"} THEN stamped ELSE held[c]
          /\ OthersKept(c)
      BY <1>1, <2>1 DEF RowsInv, RowTypes, OthersKept
    <2>7. KindAt(k, Following(k, "bump"))
      BY <2>2 DEF KindAt, Following, Kinds
    <2>8. KindsFit'
      BY <2>6, <2>7 DEF RowsInv, KindsFit, OthersKept
    <2>9. Ids(held'[c]) = Ids(held[c])
      BY <2>3, <2>6
    <2>10. Adding(c)' => Adding(c)
      BY <1>2, <2>6 DEF Adding
    <2>11. NewRowsAreNew'
      BY <1>3, <2>6, <2>9, <2>10, NewRowsStayNew DEF RowsInv
    <2>12. RowTypes' /\ OneTable'
      BY <1>2, <2>1, <2>4, <2>5 DEF RowsInv, RowTypes, OneTable
    <2>. QED BY <2>8, <2>11, <2>12 DEF RowsInv
  <1>. QED BY <1>5, <1>6

(* Statements that touch neither the rows nor the snapshots.                *)
LEMMA SameRowsKeepsRows ==
  ASSUME RowsInv, HistoryInv, NEW c \in Clients, NEW next,
         next \in {Following(kind[c], pc[c]), AfterFailure(kind[c], pc[c]),
                   "idle"},
         MoveTo(c, next), count' \in Int, failures' \in 0..MaxFailures,
         UNCHANGED <<dropped, active, archived, snapshot>>
  PROVE  RowsInv'
  <1>1. UsedIds' = UsedIds /\ (OneTable' <=> OneTable)
    BY DEF UsedIds, OneTable
  <1>2. pc \in [Clients -> Pc]
    BY DEF HistoryInv, HistoryTypes
  <1>3. /\ dropped' \in BOOLEAN /\ active' \in RowTable /\ archived' \in RowTable
        /\ snapshot' \in [Versions -> RowTable] /\ OneTable'
    BY <1>1 DEF RowsInv, RowTypes
  <1>. QED BY <1>1, <1>2, <1>3, MovingKeepsRows

LEMMA PlainStatementKeepsRows ==
  ASSUME RowsInv, HistoryInv, NEW c \in Clients,
         \/ CreateVersionRow(c) \/ AdjustExampleCount(c) \/ SetExampleCount(c)
         \/ Fail(c)
  PROVE  RowsInv'
  <1>1. /\ count \in Int /\ failures \in 0..MaxFailures
        /\ Cardinality(held[c]) \in Nat
    BY FS_CardinalityType DEF RowsInv, RowTypes, RowTable
  <1>2. CASE CreateVersionRow(c)
    BY <1>1, <1>2, SameRowsKeepsRows
       DEF CreateVersionRow, tables, Succeed, Abort
  <1>3. CASE AdjustExampleCount(c)
    <2>1. count' \in Int
      BY <1>1, <1>3 DEF AdjustExampleCount
    <2>. QED BY <1>1, <1>3, <2>1, SameRowsKeepsRows
             DEF AdjustExampleCount, history, Succeed
  <1>4. CASE SetExampleCount(c)
    <2>1. count' \in Int
      BY <1>1, <1>4 DEF SetExampleCount
    <2>. QED BY <1>1, <1>4, <2>1, SameRowsKeepsRows
             DEF SetExampleCount, history, Succeed
  <1>5. CASE Fail(c)
    <2>1. failures' \in 0..MaxFailures
      BY <1>1, <1>5, ConstantsAssumption DEF Fail
    <2>. QED BY <1>1, <1>5, <2>1, SameRowsKeepsRows
             DEF Fail, tables, history, Abort
  <1>. QED BY <1>2, <1>3, <1>4, <1>5

(* Only rows nobody has seen are inserted.                                  *)
LEMMA InsertExamplesKeepsRows ==
  ASSUME RowsInv, HistoryInv, NEW c \in Clients, InsertExamples(c)
  PROVE  RowsInv'
  <1>1. pc[c] = "insert" /\ UNCHANGED <<dropped, count, archived, snapshot, failures>>
    BY DEF InsertExamples, history
  <1>2. CASE ~HasDataset
    BY <1>1, <1>2, SameRowsKeepsRows DEF InsertExamples, Abort, RowsInv, RowTypes
  <1>3. CASE HasDataset
    <2>1. active' = active \cup held[c] /\ MoveTo(c, Following(kind[c], pc[c]))
      BY <1>3 DEF InsertExamples, Succeed
    <2>2. Adding(c)
      BY <1>1 DEF RowsInv, KindsFit, KindAt, Adding
    <2>3. Ids(held[c]) \cap UsedIds = {}
      BY <2>2 DEF RowsInv, NewRowsAreNew
    <2>4. active' \in RowTable
      BY <2>1, <2>3, UnionIsTable DEF UsedIds, RowsInv, RowTypes
    <2>5. Ids(active') = Ids(active) \cup Ids(held[c])
      BY <2>1 DEF Ids
    <2>6. OneTable'
      BY <1>1, <2>3, <2>5 DEF RowsInv, OneTable, UsedIds
    <2>7. UsedIds' \subseteq UsedIds \cup Ids(held[c])
      BY <1>1, <2>5 DEF UsedIds
    <2>8. pc \in [Clients -> Pc]
      BY DEF HistoryInv, HistoryTypes
    <2>9. /\ dropped' \in BOOLEAN /\ count' \in Int /\ failures' \in 0..MaxFailures
          /\ archived' \in RowTable /\ snapshot' \in [Versions -> RowTable]
      BY <1>1 DEF RowsInv, RowTypes
    <2>. QED BY <1>1, <2>1, <2>4, <2>6, <2>7, <2>8, <2>9, MovingKeepsRows
  <1>. QED BY <1>2, <1>3

(* Statements that rewrite the examples table and nothing else.             *)
LEMMA NewTablesKeepRows ==
  ASSUME RowsInv, HistoryInv, NEW c \in Clients, NEW next,
         next \in {Following(kind[c], pc[c]), AfterFailure(kind[c], pc[c]),
                   "idle"},
         MoveTo(c, next), pc[c] \notin {"bump", "createVersion"},
         UNCHANGED <<dropped, count, snapshot, failures>>,
         active' \in RowTable, archived' \in RowTable, OneTable',
         Ids(active') \cup Ids(archived')
            \subseteq Ids(active) \cup Ids(archived) \cup Ids(held[c])
  PROVE  RowsInv'
  <1>1. UsedIds' \subseteq UsedIds \cup Ids(held[c])
    BY DEF UsedIds
  <1>2. pc \in [Clients -> Pc]
    BY DEF HistoryInv, HistoryTypes
  <1>3. /\ dropped' \in BOOLEAN /\ count' \in Int /\ failures' \in 0..MaxFailures
        /\ snapshot' \in [Versions -> RowTable]
    BY DEF RowsInv, RowTypes
  <1>. QED BY <1>1, <1>2, <1>3, MovingKeepsRows

\* A table after the rows of held have been written over its own.
Overwritten(held_, rows) ==
    {IF \E u \in held_ : u.id = r.id
     THEN [r EXCEPT !.content = (CHOOSE u \in held_ : u.id = r.id).content]
     ELSE r : r \in rows}

LEMMA OverwrittenIsTable ==
  ASSUME NEW S \in RowTable, NEW H \in RowTable
  PROVE  /\ Overwritten(H, S) \in RowTable
         /\ Ids(Overwritten(H, S)) = Ids(S)
         /\ Cardinality(Overwritten(H, S)) = Cardinality(S)
  <1>1. PICK f : f = [r \in S |->
           IF \E u \in H : u.id = r.id
           THEN [r EXCEPT !.content = (CHOOSE u \in H : u.id = r.id).content]
           ELSE r]
    OBVIOUS
  <1>2. ASSUME NEW r \in S
        PROVE  f[r] \in Row /\ f[r].id = r.id
    <2>1. r \in Row
      BY DEF RowTable
    <2>2. CASE \E u \in H : u.id = r.id
      <3>. DEFINE u == CHOOSE u \in H : u.id = r.id
      <3>1. u \in H
        BY <2>2
      <3>2. u.content \in Contents
        BY <3>1 DEF RowTable, Row
      <3>3. f[r] = [r EXCEPT !.content = u.content]
        BY <1>1, <2>2
      <3>. HIDE DEF u
      <3>. QED BY <2>1, <3>2, <3>3 DEF Row
    <2>3. CASE ~\E u \in H : u.id = r.id
      BY <1>1, <2>1, <2>3
    <2>. QED BY <2>2, <2>3
  <1>3. Overwritten(H, S) = {f[r] : r \in S}
    BY <1>1 DEF Overwritten
  <1>. QED BY <1>2, <1>3, RewrittenIsTable

LEMMA UpdateExampleRowKeepsRows ==
  ASSUME RowsInv, HistoryInv, NEW c \in Clients, UpdateExampleRow(c)
  PROVE  RowsInv'
  <1>1. /\ pc[c] = "updateRow" /\ MoveTo(c, Following(kind[c], pc[c]))
        /\ active' = Overwritten(held[c], active)
        /\ archived' = Overwritten(held[c], archived)
        /\ UNCHANGED <<dropped, count, snapshot, failures>>
    BY DEF UpdateExampleRow, Overwritten, Succeed, history
  <1>2. active \in RowTable /\ archived \in RowTable /\ held[c] \in RowTable
    BY DEF RowsInv, RowTypes
  <1>3. /\ active' \in RowTable /\ archived' \in RowTable
        /\ Ids(active') = Ids(active) /\ Ids(archived') = Ids(archived)
    BY <1>1, <1>2, OverwrittenIsTable
  <1>4. OneTable'
    BY <1>3 DEF OneTable, RowsInv
  <1>. QED BY <1>1, <1>3, <1>4, NewTablesKeepRows

LEMMA ArchiveExampleKeepsRows ==
  ASSUME RowsInv, HistoryInv, NEW c \in Clients, ArchiveExample(c)
  PROVE  RowsInv'
  <1>1. PICK gone : gone = {r \in active : r.id \in Ids(held[c])}
    OBVIOUS
  <1>2. /\ pc[c] = "archive" /\ MoveTo(c, Following(kind[c], pc[c]))
        /\ active' = active \ gone /\ archived' = archived \cup gone
        /\ UNCHANGED <<dropped, count, snapshot, failures>>
    BY <1>1 DEF ArchiveExample, Succeed, history
  <1>3. active \in RowTable /\ archived \in RowTable /\ OneTable
    BY DEF RowsInv, RowTypes
  <1>4. gone \in RowTable /\ active' \in RowTable
    BY <1>1, <1>2, <1>3, SubtableIsTable
  <1>5. Ids(gone) \subseteq Ids(active) /\ Ids(archived) \cap Ids(gone) = {}
    BY <1>1, <1>3 DEF Ids, OneTable
  <1>6. archived' \in RowTable
    BY <1>2, <1>3, <1>4, <1>5, UnionIsTable
  <1>7. Ids(active') \cap Ids(gone) = {}
    BY <1>1, <1>2, <1>3 DEF Ids, RowTable, UniqueIds
  <1>8. Ids(active') \subseteq Ids(active)
        /\ Ids(archived') = Ids(archived) \cup Ids(gone)
    BY <1>2 DEF Ids
  <1>9. OneTable'
    BY <1>3, <1>7, <1>8 DEF OneTable
  <1>. QED BY <1>2, <1>4, <1>5, <1>6, <1>8, <1>9, NewTablesKeepRows

(* The transaction of a rollback has picked what it archives.               *)
LEMMA ArchiveOthersKeepsRows ==
  ASSUME RowsInv, HistoryInv, NEW c \in Clients, ArchiveOthers(c)
  PROVE  RowsInv'
  <1>1. /\ pc[c] = "replace" /\ pc' = [pc EXCEPT ![c] = "upsert"]
        /\ archiving' = [archiving EXCEPT ![c] = Ids(active) \ Ids(held[c])]
        /\ UNCHANGED <<dropped, count, active, archived, snapshot, kind,
                       target, held, failures>>
    BY DEF ArchiveOthers, Following, tables, history
  <1>2. pc \in [Clients -> Pc]
    BY DEF HistoryInv, HistoryTypes
  <1>3. /\ pc'[c] = "upsert" /\ kind'[c] = kind[c] /\ held'[c] = held[c]
        /\ OthersKept(c)
    BY <1>1, <1>2 DEF OthersKept
  <1>4. KindAt(kind[c], "upsert")
    BY <1>1 DEF RowsInv, KindsFit, KindAt
  <1>5. KindsFit'
    BY <1>3, <1>4 DEF RowsInv, KindsFit, OthersKept
  <1>6. UsedIds' = UsedIds /\ ~Adding(c)'
    BY <1>1, <1>3 DEF UsedIds, Adding
  <1>7. NewRowsAreNew'
    BY <1>3, <1>6, NewRowsStayNew DEF RowsInv
  <1>8. Ids(active) \subseteq ExampleIds
    BY DEF RowsInv, RowTypes, RowTable, Row, Ids
  <1>9. archiving' \in [Clients -> SUBSET ExampleIds]
    BY <1>1, <1>8 DEF RowsInv, RowTypes
  <1>10. RowTypes' /\ OneTable'
    BY <1>1, <1>9 DEF RowsInv, RowTypes, OneTable
  <1>. QED BY <1>5, <1>7, <1>10 DEF RowsInv

LEMMA ReplaceActiveSetKeepsRows ==
  ASSUME RowsInv, HistoryInv, NEW c \in Clients, ReplaceActiveSet(c)
  PROVE  RowsInv'
  <1>1. pc[c] = "upsert" /\ UNCHANGED <<dropped, count, snapshot, failures>>
    BY DEF ReplaceActiveSet, history
  <1>2. /\ active \in RowTable /\ archived \in RowTable /\ OneTable
        /\ held[c] \in RowTable
    BY DEF RowsInv, RowTypes
  <1>3. CASE UNCHANGED <<active, archived>> /\ Abort(c)
    BY <1>1, <1>2, <1>3, SameRowsKeepsRows DEF Abort, RowsInv, RowTypes
  <1>4. PICK others : others = {r \in active : r.id \notin Ids(held[c])}
    OBVIOUS
  <1>5. PICK gone : gone = {r \in others : r.id \in archiving[c]}
    OBVIOUS
  <1>6. PICK kept : kept = {r \in others : r.id \notin archiving[c]}
    OBVIOUS
  <1>7. PICK rest : rest = {r \in archived : r.id \notin Ids(held[c])}
    OBVIOUS
  <1>8. /\ others \in RowTable /\ gone \in RowTable /\ kept \in RowTable
        /\ rest \in RowTable
    BY <1>2, <1>4, <1>5, <1>6, <1>7, SubtableIsTable
  <1>9. /\ Ids(kept) \cap Ids(held[c]) = {} /\ Ids(gone) \cap Ids(held[c]) = {}
        /\ Ids(rest) \cap Ids(held[c]) = {} /\ Ids(kept) \cap Ids(gone) = {}
    BY <1>4, <1>5, <1>6, <1>7 DEF Ids
  <1>10. /\ Ids(kept) \subseteq Ids(active) /\ Ids(gone) \subseteq Ids(active)
         /\ Ids(rest) \subseteq Ids(archived)
    BY <1>4, <1>5, <1>6, <1>7 DEF Ids
  <1>11. CASE /\ active' = held[c] \cup (others \ gone)
              /\ archived' = gone \cup rest
              /\ Succeed(c)
    <2>1. others \ gone = kept
      BY <1>5, <1>6
    <2>2. /\ Ids(active') = Ids(held[c]) \cup Ids(kept)
          /\ Ids(archived') = Ids(gone) \cup Ids(rest)
      BY <1>11, <2>1 DEF Ids
    <2>3. Ids(gone) \cap Ids(rest) = {} /\ Ids(kept) \cap Ids(rest) = {}
      BY <1>2, <1>10 DEF OneTable
    <2>4. held[c] \cup kept \in RowTable /\ gone \cup rest \in RowTable
      BY <1>2, <1>8, <1>9, <2>3, UnionIsTable
    <2>5. active' \in RowTable /\ archived' \in RowTable
      BY <1>11, <2>1, <2>4
    <2>6. OneTable'
      BY <1>9, <2>2, <2>3 DEF OneTable
    <2>7. Ids(active') \cup Ids(archived')
             \subseteq Ids(active) \cup Ids(archived) \cup Ids(held[c])
      BY <1>10, <2>2
    <2>. QED BY <1>1, <1>11, <2>5, <2>6, <2>7, NewTablesKeepRows DEF Succeed
  <1>. QED BY <1>3, <1>4, <1>5, <1>7, <1>11 DEF ReplaceActiveSet

LEMMA DeleteExamplesKeepsRows ==
  ASSUME RowsInv, HistoryInv, NEW c \in Clients, DeleteExamples(c)
  PROVE  RowsInv'
  <1>1. /\ pc[c] = "deleteExamples" /\ MoveTo(c, Following(kind[c], pc[c]))
        /\ active' = {} /\ archived' = {}
        /\ UNCHANGED <<dropped, count, snapshot, failures>>
    BY DEF DeleteExamples, Succeed, history
  <1>2. Ids(active') = {} /\ Ids(archived') = {}
    BY <1>1 DEF Ids
  <1>3. OneTable' /\ active' \in RowTable /\ archived' \in RowTable
    BY <1>1, <1>2, EmptyIsTable DEF OneTable
  <1>. QED BY <1>1, <1>2, <1>3, NewTablesKeepRows

(* What a handler lists is the active table.                                *)
LEMMA ListActiveAllKeepsRows ==
  ASSUME RowsInv, HistoryInv, NEW c \in Clients, ListActiveAll(c)
  PROVE  RowsInv'
  <1>1. /\ pc[c] = "list" /\ pc' = [pc EXCEPT ![c] = "saveSnapshot"]
        /\ held' = [held EXCEPT ![c] = active]
        /\ UNCHANGED <<dropped, count, active, archived, snapshot, kind,
                       target, archiving, failures>>
    BY DEF ListActiveAll, tables, history
  <1>2. pc \in [Clients -> Pc]
    BY DEF HistoryInv, HistoryTypes
  <1>3. /\ pc'[c] = "saveSnapshot" /\ kind'[c] = kind[c] /\ held'[c] = active
        /\ OthersKept(c)
    BY <1>1, <1>2 DEF OthersKept, RowsInv, RowTypes
  <1>4. KindAt(kind[c], "saveSnapshot")
    BY <1>1 DEF RowsInv, KindsFit, KindAt
  <1>5. KindsFit'
    BY <1>3, <1>4 DEF RowsInv, KindsFit, OthersKept
  <1>6. UsedIds' = UsedIds /\ Ids(held'[c]) \subseteq UsedIds /\ ~Adding(c)'
    BY <1>1, <1>3 DEF UsedIds, Adding
  <1>7. NewRowsAreNew'
    BY <1>3, <1>6, NewRowsStayNew DEF RowsInv
  <1>8. held' \in [Clients -> RowTable]
    BY <1>1 DEF RowsInv, RowTypes
  <1>9. RowTypes' /\ OneTable'
    BY <1>1, <1>8 DEF RowsInv, RowTypes, OneTable
  <1>. QED BY <1>5, <1>7, <1>9 DEF RowsInv

LEMMA SaveSnapshotKeepsRows ==
  ASSUME RowsInv, HistoryInv, NEW c \in Clients, SaveSnapshot(c)
  PROVE  RowsInv'
  <1>1. pc[c] = "saveSnapshot"
        /\ UNCHANGED <<dropped, count, active, archived, failures>>
    BY DEF SaveSnapshot, tables
  <1>2. CASE ~HasDataset
    BY <1>1, <1>2, SameRowsKeepsRows DEF SaveSnapshot, Abort, RowsInv, RowTypes
  <1>3. CASE HasDataset
    <2>1. /\ snapshot' = [snapshot EXCEPT ![mine[c]] = held[c]]
          /\ MoveTo(c, Following(kind[c], pc[c]))
      BY <1>3 DEF SaveSnapshot, Succeed
    <2>2. held[c] \in RowTable /\ snapshot \in [Versions -> RowTable]
      BY DEF RowsInv, RowTypes
    <2>3. snapshot' \in [Versions -> RowTable]
      BY <2>1, <2>2
    <2>4. \A v \in Versions : snapshot'[v] = snapshot[v] \/ snapshot'[v] = held[c]
      BY <2>1, <2>2
    <2>5. UsedIds' \subseteq UsedIds \cup Ids(held[c])
      <3>1. \A v \in Versions : Ids(snapshot'[v]) \subseteq UsedIds \cup Ids(held[c])
        BY <2>4 DEF UsedIds
      <3>2. Ids(active') \cup Ids(archived') \subseteq UsedIds
        BY <1>1 DEF UsedIds
      <3>3. UsedIds' = Ids(active') \cup Ids(archived')
                       \cup UNION {Ids(snapshot'[v]) : v \in Versions}
        BY DEF UsedIds, Versions
      <3>. QED BY <3>1, <3>2, <3>3
    <2>6. pc \in [Clients -> Pc] /\ OneTable'
      BY <1>1 DEF HistoryInv, HistoryTypes, RowsInv, OneTable
    <2>7. /\ dropped' \in BOOLEAN /\ count' \in Int /\ failures' \in 0..MaxFailures
          /\ active' \in RowTable /\ archived' \in RowTable
      BY <1>1 DEF RowsInv, RowTypes
    <2>. QED BY <1>1, <2>1, <2>3, <2>5, <2>6, <2>7, MovingKeepsRows
  <1>. QED BY <1>2, <1>3

LEMMA DeleteDatasetRowKeepsRows ==
  ASSUME RowsInv, HistoryInv, NEW c \in Clients, DeleteDatasetRow(c)
  PROVE  RowsInv'
  <1>1. /\ pc[c] = "deleteDataset" /\ failures' = failures
        /\ MoveTo(c, Following(kind[c], pc[c]))
    BY DEF DeleteDatasetRow, Succeed
  <1>2. CASE ~HasDataset
    BY <1>1, <1>2, SameRowsKeepsRows
       DEF DeleteDatasetRow, tables, history, RowsInv, RowTypes
  <1>3. CASE HasDataset
    <2>1. /\ dropped' = TRUE /\ count' = 0 /\ active' = {} /\ archived' = {}
          /\ snapshot' = [v \in Versions |-> {}]
      BY <1>3 DEF DeleteDatasetRow
    <2>2. snapshot' \in [Versions -> RowTable]
      BY <2>1, EmptyIsTable
    <2>3. OneTable' /\ UsedIds' = {}
      BY <2>1 DEF OneTable, UsedIds, Ids, Versions
    <2>4. pc \in [Clients -> Pc]
      BY DEF HistoryInv, HistoryTypes
    <2>5. /\ dropped' \in BOOLEAN /\ count' \in Int /\ failures' \in 0..MaxFailures
          /\ active' \in RowTable /\ archived' \in RowTable
      BY <1>1, <2>1, EmptyIsTable DEF RowsInv, RowTypes
    <2>. QED BY <1>1, <2>2, <2>3, <2>4, <2>5, MovingKeepsRows
  <1>. QED BY <1>2, <1>3

LEMMA InitRows ==
  ASSUME Init
  PROVE  RowsInv
  <1>1. /\ 0 \in 0..MaxVersion /\ 0 \in 0..MaxFailures
        /\ archiving \in [Clients -> SUBSET ExampleIds]
    BY ConstantsAssumption DEF Init
  <1>2. RowTypes
    <2>1. snapshot \in [Versions -> RowTable] /\ held \in [Clients -> RowTable]
      BY EmptyIsTable DEF Init
    <2>2. "create" \in Kinds
      BY DEF Kinds
    <2>3. kind \in [Clients -> Kinds] /\ target \in [Clients -> 0..MaxVersion]
      BY <1>1, <2>2 DEF Init
    <2>4. active \in RowTable /\ archived \in RowTable
      <3>1. active = {} /\ archived = {}
        BY DEF Init
      <3>. QED BY <3>1, EmptyIsTable
    <2>5. dropped \in BOOLEAN
      BY Zenon DEF Init
    <2>6. count \in Int /\ failures \in 0..MaxFailures
      <3>1. count = 0 /\ failures = 0
        BY DEF Init
      <3>. QED BY <1>1, <3>1
    <2>. QED BY <1>1, <2>1, <2>3, <2>4, <2>5, <2>6 DEF RowTypes
  <1>3. KindsFit /\ OneTable /\ NewRowsAreNew
    BY DEF Init, KindsFit, KindAt, OneTable, Ids, NewRowsAreNew, Adding
  <1>. QED BY <1>2, <1>3 DEF RowsInv

LEMMA StepRows ==
  ASSUME RowsInv, HistoryInv, [Next]_vars
  PROVE  RowsInv'
  <1>1. CASE UNCHANGED vars
    <2>1. UNCHANGED <<dropped, count, active, archived, snapshot, kind, pc,
                      target, held, archiving, failures>>
      BY <1>1 DEF vars, tables, history, memory
    <2>2. UsedIds' = UsedIds /\ \A c \in Clients : Adding(c)' <=> Adding(c)
      BY <2>1 DEF UsedIds, Adding
    <2>. QED BY <2>1, <2>2 DEF RowsInv, RowTypes, KindsFit, OneTable, NewRowsAreNew
  <1>2. ASSUME NEW c \in Clients, Statement(c)
        PROVE  RowsInv'
    BY <1>2, BumpVersionKeepsRows, PlainStatementKeepsRows,
       InsertExamplesKeepsRows, UpdateExampleRowKeepsRows,
       ArchiveExampleKeepsRows, ArchiveOthersKeepsRows, ReplaceActiveSetKeepsRows,
       ListActiveAllKeepsRows, SaveSnapshotKeepsRows, DeleteExamplesKeepsRows,
       DeleteDatasetRowKeepsRows DEF Statement
  <1>3. ASSUME NEW c \in Clients, Request(c) \/ Fail(c)
        PROVE  RowsInv'
    BY <1>3, RequestKeepsRows, PlainStatementKeepsRows
  <1>. QED BY <1>1, <1>2, <1>3 DEF Next

-----------------------------------------------------------------------------

(* The two invariants together, for every behaviour.                        *)
LEMMA DatasetInvariants == Spec => [](HistoryInv /\ RowsInv)
  <1>1. Init => HistoryInv /\ RowsInv
    BY InitHistory, InitRows
  <1>2. HistoryInv /\ RowsInv /\ [Next]_vars => HistoryInv' /\ RowsInv'
    BY StepHistory, StepRows
  <1>. QED BY <1>1, <1>2, PTL DEF Spec

(* Tables, histories and memories hold what the code can put there.         *)
THEOREM DatasetIsTyped == Spec => []TypeOK
  <1>1. HistoryInv /\ RowsInv => TypeOK
    <2>. SUFFICES ASSUME HistoryInv, RowsInv
                  PROVE  TypeOK
      OBVIOUS
    <2>1. version \in 0..MaxVersion /\ 1..version \subseteq Versions
      BY ConstantsAssumption DEF HistoryInv, HistoryTypes, Versions
    <2>2. versionRows \in SUBSET Versions /\ saved \in SUBSET Versions
      BY <2>1 DEF HistoryInv, HistoryTypes
    <2>3. RowTable \subseteq SUBSET Row
      BY DEF RowTable
    <2>4. /\ active \in SUBSET Row /\ archived \in SUBSET Row
          /\ snapshot \in [Versions -> SUBSET Row]
          /\ held \in [Clients -> SUBSET Row]
      BY <2>3 DEF RowsInv, RowTypes
    <2>. QED BY <2>1, <2>2, <2>4 DEF TypeOK, HistoryInv, HistoryTypes, RowsInv,
             RowTypes
  <1>. QED BY <1>1, DatasetInvariants, PTL

-----------------------------------------------------------------------------
(* What a failure costs.                                                   *)

\* Nobody draws, records or gives up a version.
NoneRecorded ==
    /\ UNCHANGED <<version, versionRows, saved, mine>>
    /\ \A c \in Clients : pc[c] \in UnrecordedPc => pc'[c] \in UnrecordedPc

LEMMA NoneRecordedLosesNone ==
  ASSUME NoneRecorded
  PROVE  LostVersions' \subseteq LostVersions
  BY DEF NoneRecorded, LostVersions, UnrecordedPc

(* Without a dataset there is no version to lose.                           *)
LEMMA NoDatasetNoneLost ==
  ASSUME version' = 0
  PROVE  LostVersions' = {}
  BY DEF LostVersions

LEMMA MovingOnLosesNone ==
  ASSUME HistoryInv, NEW c \in Clients, NEW at \in Pc \ {"idle"},
         MoveTo(c, at), pc[c] \in UnrecordedPc => at \in UnrecordedPc,
         UNCHANGED <<version, versionRows, saved>>
  PROVE  LostVersions' \subseteq LostVersions
  <1>1. /\ pc' = [pc EXCEPT ![c] = at]
        /\ mine' = mine
    BY DEF MoveTo, HistoryInv, HistoryTypes
  <1>2. \A d \in Clients : pc[d] \in UnrecordedPc => pc'[d] \in UnrecordedPc
    BY <1>1 DEF HistoryInv, HistoryTypes
  <1>. QED BY <1>1, <1>2, NoneRecordedLosesNone DEF NoneRecorded

(* Drawing a version and creating its row lose none.                        *)
LEMMA DrawingLosesNone ==
  ASSUME HistoryInv, NEW c \in Clients, CreateDataset(c) \/ BumpVersion(c)
  PROVE  LostVersions' \subseteq LostVersions
  <1>1. CASE CreateDataset(c)
    <2>1. /\ version' = 1 /\ pc' = [pc EXCEPT ![c] = "createVersion"]
          /\ mine' = [mine EXCEPT ![c] = 1]
      BY <1>1 DEF CreateDataset, Begin
    <2>2. mine'[c] = 1 /\ pc'[c] \in UnrecordedPc
      BY <2>1 DEF HistoryInv, HistoryTypes, UnrecordedPc
    <2>. QED BY <2>1, <2>2 DEF LostVersions, UnrecordedPc
  <1>2. CASE BumpVersion(c) /\ ~HasDataset
    BY <1>2, NoDatasetNoneLost DEF BumpVersion, HasDataset
  <1>3. CASE BumpVersion(c) /\ HasDataset
    <2>1. /\ pc[c] = "bump" /\ version' = version + 1
          /\ pc' = [pc EXCEPT ![c] = Following(kind[c], "bump")]
          /\ mine' = [mine EXCEPT ![c] = version + 1]
          /\ UNCHANGED <<versionRows, saved>>
      BY <1>3 DEF BumpVersion, history
    <2>2. Following(kind[c], "bump") \in UnrecordedPc /\ pc[c] \notin UnrecordedPc
      BY <2>1 DEF Following, UnrecordedPc
    <2>3. /\ mine'[c] = version + 1 /\ pc'[c] \in UnrecordedPc
          /\ \A d \in Clients \ {c} : mine'[d] = mine[d] /\ pc'[d] = pc[d]
      BY <2>1, <2>2 DEF HistoryInv, HistoryTypes
    <2>4. version \in Nat /\ mine[c] = 0
      BY <2>1, ConstantsAssumption DEF HistoryInv, HistoryTypes, OwnVersion, EarlyPc
    <2>5. ASSUME NEW v \in LostVersions'
          PROVE  v \in LostVersions
      <3>1. v \in 1..(version + 1) /\ v # version + 1
        BY <2>1, <2>3 DEF LostVersions, UnrecordedPc
      <3>2. v \in 1..version
        BY <2>4, <3>1
      <3>. QED BY <2>1, <2>2, <2>3, <2>4, <3>2 DEF LostVersions, UnrecordedPc
    <2>. QED BY <2>5
  <1>. QED BY <1>1, <1>2, <1>3

LEMMA RecordingLosesNone ==
  ASSUME HistoryInv, NEW c \in Clients, CreateVersionRow(c) \/ SaveSnapshot(c)
  PROVE  LostVersions' \subseteq LostVersions
  <1>1. CASE ~HasDataset
    BY <1>1, NoDatasetNoneLost DEF CreateVersionRow, SaveSnapshot, tables, HasDataset
  <1>2. CASE CreateVersionRow(c) /\ HasDataset
    <2>. DEFINE at == Following(kind[c], "createVersion")
    <2>1. /\ pc[c] = "createVersion" /\ MoveTo(c, at)
          /\ versionRows' = versionRows \cup {mine[c]}
          /\ UNCHANGED <<version, saved>>
      BY <1>2 DEF CreateVersionRow, Succeed, tables
    <2>2. at \in {"insert", "list"}
      BY DEF Following
    <2>3. pc' = [pc EXCEPT ![c] = at] /\ mine' = mine
      BY <2>1, <2>2 DEF MoveTo, HistoryInv, HistoryTypes
    <2>4. \A d \in Clients \ {c} : pc'[d] = pc[d]
      BY <2>3 DEF HistoryInv, HistoryTypes
    <2>. QED BY <2>1, <2>3, <2>4 DEF LostVersions
  <1>3. CASE SaveSnapshot(c) /\ HasDataset
    <2>1. /\ pc[c] = "saveSnapshot" /\ MoveTo(c, "idle")
          /\ saved' = saved \cup {mine[c]}
          /\ UNCHANGED <<version, versionRows>>
      BY <1>3 DEF SaveSnapshot, Succeed, Following, tables
    <2>2. \A d \in Clients \ {c} : mine'[d] = mine[d] /\ pc'[d] = pc[d]
      BY <2>1 DEF MoveTo, HistoryInv, HistoryTypes
    <2>. QED BY <2>1, <2>2 DEF LostVersions
  <1>. QED BY <1>1, <1>2, <1>3

LEMMA OthersLoseNone ==
  ASSUME HistoryInv, NEW c \in Clients, Elsewhere(c), ~Fail(c)
  PROVE  LostVersions' \subseteq LostVersions
  <1>1. pc[c] \in Pc /\ UNCHANGED <<version, versionRows, saved>>
    BY ElsewhereGoesOn DEF HistoryInv, HistoryTypes, history
  <1>2. CASE \/ BatchAddExamples(c) \/ ImportFile(c) \/ UpdateExample(c)
             \/ DeleteExample(c) \/ RollbackVersion(c) \/ DeleteDataset(c)
    <2>1. PICK k, at, v, rows : Begin(c, k, at, v, rows) /\ k # "create"
      <3>1. CASE BatchAddExamples(c)
        BY <3>1 DEF BatchAddExamples, BeginWithNewRows
      <3>2. CASE ImportFile(c)
        BY <3>2 DEF ImportFile, BeginWithNewRows
      <3>3. CASE UpdateExample(c)
        BY <3>3 DEF UpdateExample
      <3>4. CASE DeleteExample(c)
        BY <3>4 DEF DeleteExample
      <3>5. CASE RollbackVersion(c)
        BY <3>5 DEF RollbackVersion
      <3>6. CASE DeleteDataset(c)
        BY <3>6 DEF DeleteDataset
      <3>. QED BY <1>2, <3>1, <3>2, <3>3, <3>4, <3>5, <3>6
    <2>2. pc[c] = "idle" /\ mine[c] = 0
      BY <2>1 DEF Begin, HistoryInv, OwnVersion, EarlyPc
    <2>3. pc' = [pc EXCEPT ![c] = at] /\ mine' = mine
      BY <2>1, <2>2 DEF Begin, HistoryInv, HistoryTypes
    <2>4. \A d \in Clients : pc[d] \in UnrecordedPc => pc'[d] \in UnrecordedPc
      BY <2>2, <2>3 DEF HistoryInv, HistoryTypes, UnrecordedPc
    <2>. QED BY <1>1, <2>3, <2>4, NoneRecordedLosesNone DEF NoneRecorded
  <1>3. CASE (InsertExamples(c) \/ ReplaceActiveSet(c)) /\ ~HasDataset
    BY <1>1, <1>3, NoDatasetNoneLost DEF HasDataset
  <1>4. CASE \/ (InsertExamples(c) \/ ReplaceActiveSet(c)) /\ HasDataset
             \/ UpdateExampleRow(c) \/ ArchiveExample(c)
             \/ AdjustExampleCount(c) \/ SetExampleCount(c)
             \/ DeleteExamples(c)
    <2>. DEFINE at == Following(kind[c], pc[c])
    <2>1. /\ MoveTo(c, at)
          /\ pc[c] \in {"insert", "upsert", "updateRow", "archive",
                        "adjustCount", "setCount", "deleteExamples"}
      BY <1>4 DEF InsertExamples, ReplaceActiveSet, UpdateExampleRow,
         ArchiveExample, AdjustExampleCount, SetExampleCount, DeleteExamples,
         Succeed
    <2>2. /\ at \in Pc \ {"idle"}
          /\ pc[c] \in UnrecordedPc => at \in UnrecordedPc
      BY <2>1 DEF Following, Pc, UnrecordedPc
    <2>. QED BY <1>1, <2>1, <2>2, MovingOnLosesNone
  <1>5. CASE ListActiveAll(c) \/ ArchiveOthers(c)
    <2>1. /\ mine' = mine
          /\ \/ pc[c] = "list" /\ pc' = [pc EXCEPT ![c] = "saveSnapshot"]
             \/ pc[c] = "replace" /\ pc' = [pc EXCEPT ![c] = "upsert"]
      BY <1>5 DEF ListActiveAll, ArchiveOthers, Following
    <2>2. \A d \in Clients : pc[d] \in UnrecordedPc => pc'[d] \in UnrecordedPc
      BY <2>1 DEF HistoryInv, HistoryTypes, UnrecordedPc
    <2>. QED BY <1>1, <2>1, <2>2, NoneRecordedLosesNone DEF NoneRecorded
  <1>. QED BY <1>2, <1>3, <1>4, <1>5 DEF Elsewhere

(* A failure loses at most the version of the handler that fails.           *)
LEMMA FailLosesItsOwn ==
  ASSUME HistoryInv, NEW c \in Clients, Fail(c)
  PROVE  LostVersions' \subseteq LostVersions \cup {mine[c]}
  <1>1. /\ \E at : MoveTo(c, at)
        /\ UNCHANGED <<version, versionRows, saved>>
    BY DEF Fail, Abort, tables, history
  <1>2. \A d \in Clients \ {c} : mine'[d] = mine[d] /\ pc'[d] = pc[d]
    BY <1>1 DEF MoveTo, HistoryInv, HistoryTypes
  <1>3. ASSUME NEW v \in LostVersions', v # mine[c]
        PROVE  v \in LostVersions
    BY <1>1, <1>2, <1>3 DEF LostVersions
  <1>. QED BY <1>3

LEMMA StepLosesOne ==
  ASSUME HistoryInv, RowsInv, EachFailureLosesOneVersion, [Next]_vars
  PROVE  EachFailureLosesOneVersion'
  <1>1. IsFiniteSet(LostVersions) /\ failures \in Nat
    <2>1. version \in Nat /\ failures \in Nat
      BY ConstantsAssumption DEF HistoryInv, HistoryTypes, RowsInv, RowTypes
    <2>2. IsFiniteSet(1..version)
      BY <2>1, FS_Interval
    <2>3. LostVersions \subseteq 1..version
      BY DEF LostVersions
    <2>. QED BY <2>1, <2>2, <2>3, FS_Subset
  <1>2. Cardinality(LostVersions) \in Nat
    BY <1>1, FS_CardinalityType
  <1>3. ASSUME LostVersions' \subseteq LostVersions, failures' = failures
        PROVE  EachFailureLosesOneVersion'
    <2>1. Cardinality(LostVersions') <= Cardinality(LostVersions)
          /\ Cardinality(LostVersions') \in Nat
      BY <1>1, <1>3, FS_Subset, FS_CardinalityType
    <2>. QED BY <1>1, <1>2, <1>3, <2>1 DEF EachFailureLosesOneVersion
  <1>4. ASSUME NEW c \in Clients, Fail(c)
        PROVE  EachFailureLosesOneVersion'
    <2>. DEFINE S == LostVersions \cup {mine[c]}
    <2>1. LostVersions' \subseteq S /\ failures' = failures + 1
      BY <1>4, FailLosesItsOwn DEF Fail
    <2>2. IsFiniteSet(S) /\ Cardinality(S) <= Cardinality(LostVersions) + 1
      BY <1>1, <1>2, FS_AddElement
    <2>3. Cardinality(LostVersions') <= Cardinality(S)
          /\ Cardinality(LostVersions') \in Nat /\ Cardinality(S) \in Nat
      BY <2>1, <2>2, FS_Subset, FS_CardinalityType
    <2>. QED BY <1>1, <1>2, <2>1, <2>2, <2>3 DEF EachFailureLosesOneVersion
  <1>5. CASE UNCHANGED vars
    <2>1. UNCHANGED <<version, versionRows, saved, mine, pc, failures>>
      BY <1>5 DEF vars, tables, history, memory
    <2>2. LostVersions' = LostVersions
      BY <2>1 DEF LostVersions
    <2>. QED BY <1>3, <2>1, <2>2
  <1>6. ASSUME NEW c \in Clients, Request(c) \/ Statement(c), ~Fail(c)
        PROVE  EachFailureLosesOneVersion'
    <2>1. failures' = failures
      BY <1>6 DEF Request, Statement, CreateDataset, BatchAddExamples,
         ImportFile, UpdateExample, DeleteExample, RollbackVersion,
         DeleteDataset, BumpVersion, CreateVersionRow, InsertExamples,
         UpdateExampleRow, ArchiveExample, AdjustExampleCount, ArchiveOthers,
         ReplaceActiveSet, SetExampleCount, ListActiveAll, SaveSnapshot,
         DeleteExamples, DeleteDatasetRow
    <2>2. CASE DeleteDatasetRow(c)
      <3>1. version' = 0
        BY <2>2 DEF DeleteDatasetRow, tables, HasDataset
      <3>. QED BY <1>3, <2>1, <3>1, NoDatasetNoneLost
    <2>3. CASE \/ CreateDataset(c) \/ BumpVersion(c)
               \/ CreateVersionRow(c) \/ SaveSnapshot(c)
      BY <1>3, <2>1, <2>3, DrawingLosesNone, RecordingLosesNone
    <2>4. CASE Elsewhere(c)
      BY <1>3, <1>6, <2>1, <2>4, OthersLoseNone
    <2>. QED BY <1>6, <2>2, <2>3, <2>4 DEF Request, Statement, Elsewhere
  <1>. QED BY <1>4, <1>5, <1>6 DEF Next

(* However many handlers are at work and whatever they do between each      *)
(* other's statements, no more versions are without a row or a snapshot    *)
(* that nobody will record than statements have failed.                    *)
THEOREM FailuresLoseOneVersionEach == Spec => []EachFailureLosesOneVersion
  <1>1. Init => EachFailureLosesOneVersion
    <2>. SUFFICES ASSUME Init PROVE EachFailureLosesOneVersion
      OBVIOUS
    <2>1. LostVersions = {} /\ failures = 0
      BY DEF Init, LostVersions
    <2>. QED BY <2>1, FS_EmptySet DEF EachFailureLosesOneVersion
  <1>2. /\ HistoryInv /\ RowsInv /\ EachFailureLosesOneVersion
        /\ [Next]_vars
        => EachFailureLosesOneVersion'
    BY StepLosesOne
  <1>. QED BY <1>1, <1>2, DatasetInvariants, PTL DEF Spec

-----------------------------------------------------------------------------
(* What the diff of two sets of rows says leads from the one to the other   *)
(* when an example has one row in each.                                    *)
LEMMA DiffLeadsToGoal ==
  ASSUME NEW base, NEW goal, UniqueIds(base), UniqueIds(goal)
  PROVE  goal = ((base \ Removed(base, goal))
                    \ {p[1] : p \in Changed(base, goal)})
                \cup Added(base, goal)
                \cup {p[2] : p \in Changed(base, goal)}
  <1>. DEFINE old == {p[1] : p \in Changed(base, goal)}
              new == {p[2] : p \in Changed(base, goal)}
  <1>1. \A p \in Changed(base, goal) :
           p[1] \in base /\ p[2] \in goal /\ p[2].id = p[1].id /\ p[2] # p[1]
    BY DEF Changed
  <1>2. ASSUME NEW r \in base, NEW s \in goal, s.id = r.id, s # r
        PROVE  r \in old /\ s \in new
    <2>1. <<r, s>> \in Changed(base, goal)
      BY <1>2 DEF Changed
    <2>2. <<r, s>>[1] = r /\ <<r, s>>[2] = s
      OBVIOUS
    <2>. QED BY <2>1, <2>2
  <1>3. \A r : r \in old <=> r \in base /\ \E s \in goal : s.id = r.id /\ s # r
    BY <1>1, <1>2
  <1>4. \A s : s \in new <=> s \in goal /\ \E r \in base : s.id = r.id /\ s # r
    BY <1>1, <1>2
  <1>5. \A r : r \in base \ Removed(base, goal)
                 <=> r \in base /\ \E s \in goal : s.id = r.id
    BY DEF Removed, Ids
  <1>6. \A s : s \in Added(base, goal)
                 <=> s \in goal /\ ~\E r \in base : s.id = r.id
    BY DEF Added, Ids
  <1>. HIDE DEF old, new
  <1>7. \A r : r \in (base \ Removed(base, goal)) \ old
                 <=> r \in base /\ r \in goal
    BY <1>3, <1>5 DEF UniqueIds
  <1>8. \A s \in goal : s \in base \/ s \in Added(base, goal) \/ s \in new
    BY <1>4, <1>6
  <1>9. goal = ((base \ Removed(base, goal)) \ old) \cup Added(base, goal) \cup new
    BY <1>4, <1>6, <1>7, <1>8
  <1>. QED BY <1>9 DEF old, new

(* The diff of two versions leads from the one to the other, whatever       *)
(* handlers did at the same time.                                          *)
THEOREM DiffsAreExact == Spec => []DiffIsExact
  <1>1. HistoryInv /\ RowsInv => DiffIsExact
    <2>. SUFFICES ASSUME HistoryInv, RowsInv, NEW v \in saved, NEW w \in saved
                  PROVE  snapshot[w] =
                           ((snapshot[v] \ Removed(snapshot[v], snapshot[w]))
                             \ {p[1] : p \in Changed(snapshot[v], snapshot[w])})
                           \cup Added(snapshot[v], snapshot[w])
                           \cup {p[2] : p \in Changed(snapshot[v], snapshot[w])}
      BY DEF DiffIsExact
    <2>1. v \in Versions /\ w \in Versions
      BY ConstantsAssumption DEF HistoryInv, HistoryTypes, Versions
    <2>2. UniqueIds(snapshot[v]) /\ UniqueIds(snapshot[w])
      BY <2>1 DEF RowsInv, RowTypes, RowTable
    <2>. QED BY <2>2, DiffLeadsToGoal
  <1>. QED BY <1>1, DatasetInvariants, PTL

-----------------------------------------------------------------------------
(* Requests that come one after the other, and those that do not fail       *)
(* either. With two requests at a time these properties are false, and the  *)
(* latest version is not what is active when a request stops half-way.      *)

Alone == \E c : Clients = {c}
OneAtATime == Alone /\ MaxFailures = 0

\* The dataset of the only handler is not deleted under it.
WorksOnIt(c) == pc[c] # "idle" => HasDataset

Latest ==
    /\ version \in saved /\ snapshot[version] = active
    /\ count = Cardinality(active)

\* What the only handler has to do before the latest version is the active
\* table again and the count is its size.
LatestInv(c) ==
    /\ ~HasDataset /\ ~dropped => active = {} /\ count = 0
    /\ WorksOnIt(c)
    /\ mine[c] \in {0, version}
    /\ pc[c] \in {"idle", "updateRow", "archive", "deleteExamples"} /\ HasDataset
          => Latest
    /\ pc[c] \in {"bump", "list", "saveSnapshot"} => count = Cardinality(active)
    /\ pc[c] \in {"createVersion", "insert"} =>
          count = IF Adding(c) THEN Cardinality(active) + Cardinality(held[c])
                               ELSE Cardinality(active)
    /\ pc[c] = "archive" => \E r \in active : held[c] = {r}
    /\ pc[c] = "adjustCount" => count = Cardinality(active) + 1
    /\ pc[c] = "upsert" =>
          \A r \in active : r.id \in archiving[c] \cup Ids(held[c])
    /\ pc[c] = "setCount" => active = held[c]
    /\ pc[c] = "saveSnapshot" => held[c] = active

\* What a rollback has in hand is the snapshot it restores, which no later
\* step of its own overwrites.
RollbackInv(c) ==
    kind[c] = "rollback" =>
        /\ target[c] \in saved
        /\ pc[c] \in {"bump", "replace", "upsert", "setCount"} =>
              held[c] = snapshot[target[c]]
        /\ pc[c] \in {"createVersion", "list", "saveSnapshot"} =>
              active = snapshot[target[c]]

DistinctInputs(rows, others) ==
    \A r \in rows, s \in rows \cup others :
        r.content.inputs = s.content.inputs => r = s

\* The rows an import is about to insert differ from each other and from
\* every active one.
ImportInv(c) ==
    kind[c] = "import" /\ Adding(c) => DistinctInputs(held[c], active)

(* The values a step of handler c gives the memory of c.                    *)
LEMMA MoveToValues ==
  ASSUME HistoryInv, RowsInv, NEW c \in Clients, NEW at, MoveTo(c, at)
  PROVE  /\ pc'[c] = at
         /\ kind'[c] = IF at = "idle" THEN "create" ELSE kind[c]
         /\ held'[c] = IF at = "idle" THEN {} ELSE held[c]
         /\ mine'[c] = IF at = "idle" THEN 0 ELSE mine[c]
         /\ target'[c] = IF at = "idle" THEN 0 ELSE target[c]
  BY DEF MoveTo, HistoryInv, HistoryTypes, RowsInv, RowTypes

LEMMA BeginValues ==
  ASSUME HistoryInv, RowsInv, NEW c \in Clients, NEW k, NEW at, NEW v, NEW rows,
         Begin(c, k, at, v, rows)
  PROVE  /\ pc[c] = "idle" /\ pc'[c] = at /\ kind'[c] = k /\ held'[c] = rows
         /\ mine'[c] = IF k = "create" THEN 1 ELSE 0
         /\ target'[c] = v
  BY DEF Begin, HistoryInv, HistoryTypes, RowsInv, RowTypes

(* A request is admitted while the latest version is what is active.        *)
LEMMA RequestKeepsLatest ==
  ASSUME HistoryInv, RowsInv, NEW c \in Clients, LatestInv(c), Request(c)
  PROVE  LatestInv(c)'
  <1>1. CASE CreateDataset(c)
    <2>1. /\ Begin(c, "create", "createVersion", 0, {}) /\ version' = 1
          /\ ~HasDataset /\ ~dropped /\ UNCHANGED <<count, active>>
      BY <1>1 DEF CreateDataset
    <2>2. pc'[c] = "createVersion" /\ mine'[c] = 1 /\ kind'[c] = "create"
      BY <2>1, BeginValues
    <2>3. count' = Cardinality(active')
      BY <2>1, FS_EmptySet DEF LatestInv, WorksOnIt
    <2>. QED BY <2>1, <2>2, <2>3 DEF LatestInv, WorksOnIt, HasDataset, Adding
  <1>2. ASSUME HasDataset, UNCHANGED <<tables, history>>,
               NEW k, k # "create", NEW at, NEW v, NEW rows,
               Begin(c, k, at, v, rows),
               at \in {"bump", "updateRow", "archive", "deleteExamples"},
               at = "archive" => \E r \in active : rows = {r}
        PROVE  LatestInv(c)'
    <2>1. /\ pc[c] = "idle" /\ pc'[c] = at /\ held'[c] = rows /\ mine'[c] = 0
      BY <1>2, BeginValues
    <2>2. UNCHANGED <<version, dropped, count, active, saved, snapshot>>
      BY <1>2 DEF tables, history
    <2>3. Latest /\ (Latest' <=> Latest)
      BY <1>2, <2>1, <2>2 DEF LatestInv, WorksOnIt, Latest
    <2>. QED BY <1>2, <2>1, <2>2, <2>3 DEF LatestInv, WorksOnIt, Latest, HasDataset
  <1>3. CASE BatchAddExamples(c)
    <2>1. \E rows : Begin(c, "add", "bump", 0, rows)
      BY <1>3 DEF BatchAddExamples, BeginWithNewRows
    <2>. QED BY <1>2, <1>3, <2>1 DEF BatchAddExamples
  <1>4. CASE ImportFile(c)
    <2>1. \E rows : Begin(c, "import", "bump", 0, rows)
      BY <1>4 DEF ImportFile, BeginWithNewRows
    <2>. QED BY <1>2, <1>4, <2>1 DEF ImportFile
  <1>5. CASE UpdateExample(c)
    BY <1>2, <1>5 DEF UpdateExample
  <1>6. CASE DeleteExample(c)
    BY <1>2, <1>6 DEF DeleteExample
  <1>7. CASE RollbackVersion(c)
    BY <1>2, <1>7 DEF RollbackVersion
  <1>8. CASE DeleteDataset(c)
    BY <1>2, <1>8 DEF DeleteDataset
  <1>. QED BY <1>1, <1>3, <1>4, <1>5, <1>6, <1>7, <1>8 DEF Request

(* What a statement other than the last leaves for the next.                *)
LEMMA StatementKeepsLatest ==
  ASSUME HistoryInv, RowsInv, NEW c \in Clients, LatestInv(c),
         \/ CreateVersionRow(c) \/ InsertExamples(c) \/ UpdateExampleRow(c)
         \/ ArchiveExample(c) \/ AdjustExampleCount(c) \/ ReplaceActiveSet(c)
         \/ SetExampleCount(c)
  PROVE  LatestInv(c)'
  <1>. DEFINE next == Following(kind[c], pc[c])
  <1>1. HasDataset /\ pc[c] # "idle" /\ KindAt(kind[c], pc[c])
    BY DEF LatestInv, WorksOnIt, CreateVersionRow, InsertExamples, UpdateExampleRow,
       ArchiveExample, AdjustExampleCount, ReplaceActiveSet, SetExampleCount,
       RowsInv, KindsFit
  <1>2. MoveTo(c, next) /\ UNCHANGED <<version, dropped>>
    BY <1>1 DEF CreateVersionRow, InsertExamples, UpdateExampleRow,
       ArchiveExample, AdjustExampleCount, ReplaceActiveSet, SetExampleCount,
       Succeed, tables
  <1>3. next # "idle"
    BY DEF Following, CreateVersionRow, InsertExamples, UpdateExampleRow,
       ArchiveExample, AdjustExampleCount, ReplaceActiveSet, SetExampleCount
  <1>4. /\ pc'[c] = next /\ kind'[c] = kind[c] /\ held'[c] = held[c]
        /\ mine'[c] = mine[c] /\ HasDataset'
    BY <1>1, <1>2, <1>3, MoveToValues DEF HasDataset
  <1>5. /\ active \in RowTable /\ held[c] \in RowTable /\ count \in Int
        /\ Cardinality(active) \in Nat /\ Cardinality(held[c]) \in Nat
    BY FS_CardinalityType DEF RowsInv, RowTypes, RowTable
  <1>. HIDE DEF next
  <1>6. CASE CreateVersionRow(c)
    <2>1. /\ pc[c] = "createVersion" /\ UNCHANGED <<count, active>>
          /\ next = IF kind[c] \in {"add", "import"} THEN "insert" ELSE "list"
      BY <1>6 DEF CreateVersionRow, tables, next, Following
    <2>2. Adding(c)' <=> Adding(c)
      BY <1>4, <2>1 DEF Adding
    <2>. QED BY <1>2, <1>4, <2>1, <2>2 DEF LatestInv, WorksOnIt, Adding
  <1>7. CASE InsertExamples(c)
    <2>1. /\ pc[c] = "insert" /\ active' = active \cup held[c] /\ count' = count
          /\ next = "list"
      BY <1>1, <1>7 DEF InsertExamples, next, Following
    <2>2. Adding(c)
      BY <1>1, <2>1 DEF KindAt, Adding
    <2>3. active \cap held[c] = {}
      BY <2>2 DEF RowsInv, NewRowsAreNew, UsedIds, Ids
    <2>4. Cardinality(active') = Cardinality(active) + Cardinality(held[c])
      <3>1. IsFiniteSet(active) /\ IsFiniteSet(held[c])
        BY <1>5 DEF RowTable
      <3>2. Cardinality(active \cap held[c]) = 0
        BY <2>3, FS_EmptySet
      <3>3. Cardinality(active \cup held[c])
              = Cardinality(active) + Cardinality(held[c])
                - Cardinality(active \cap held[c])
        BY <3>1, FS_Union
      <3>. QED BY <1>5, <2>1, <3>2, <3>3
    <2>5. count' = Cardinality(active')
      BY <2>1, <2>2, <2>4 DEF LatestInv, WorksOnIt
    <2>. QED BY <1>2, <1>4, <2>1, <2>5 DEF LatestInv, WorksOnIt
  <1>8. CASE UpdateExampleRow(c)
    <2>1. /\ pc[c] = "updateRow" /\ active' = Overwritten(held[c], active)
          /\ count' = count /\ next = "bump"
      BY <1>8 DEF UpdateExampleRow, Overwritten, next, Following
    <2>2. Cardinality(active') = Cardinality(active)
      BY <1>5, <2>1, OverwrittenIsTable
    <2>3. count' = Cardinality(active')
      BY <1>1, <2>1, <2>2 DEF LatestInv, WorksOnIt, Latest
    <2>. QED BY <1>2, <1>4, <2>1, <2>3 DEF LatestInv, WorksOnIt
  <1>9. CASE ArchiveExample(c)
    <2>1. /\ pc[c] = "archive" /\ count' = count /\ next = "adjustCount"
          /\ active' = active \ {r \in active : r.id \in Ids(held[c])}
      BY <1>9 DEF ArchiveExample, next, Following
    <2>2. PICK row \in active : held[c] = {row}
      BY <2>1 DEF LatestInv, WorksOnIt
    <2>3. active' = active \ {row}
      BY <1>5, <2>1, <2>2 DEF RowTable, UniqueIds, Ids
    <2>4. Cardinality(active') = Cardinality(active) - 1
      BY <1>5, <2>3, FS_RemoveElement DEF RowTable
    <2>5. count' = Cardinality(active') + 1
      BY <1>1, <1>5, <2>1, <2>4 DEF LatestInv, WorksOnIt, Latest
    <2>. QED BY <1>2, <1>4, <2>1, <2>5 DEF LatestInv, WorksOnIt
  <1>10. CASE AdjustExampleCount(c)
    <2>1. /\ pc[c] = "adjustCount" /\ count' = count - 1 /\ active' = active
          /\ next = "bump"
      BY <1>1, <1>10 DEF AdjustExampleCount, next, Following
    <2>2. count' = Cardinality(active')
      BY <1>5, <2>1 DEF LatestInv, WorksOnIt
    <2>. QED BY <1>2, <1>4, <2>1, <2>2 DEF LatestInv, WorksOnIt
  <1>11. CASE ReplaceActiveSet(c)
    <2>1. /\ pc[c] = "upsert" /\ next = "setCount"
          /\ active' = held[c] \cup {r \in active : r.id \notin Ids(held[c])
                                                  /\ r.id \notin archiving[c]}
      BY <1>1, <1>11 DEF ReplaceActiveSet, next, Following
    <2>2. \A r \in active : r.id \in archiving[c] \cup Ids(held[c])
      BY <2>1 DEF LatestInv
    <2>3. active' = held[c]
      BY <2>1, <2>2
    <2>. QED BY <1>2, <1>4, <2>1, <2>3 DEF LatestInv, WorksOnIt
  <1>12. CASE SetExampleCount(c)
    <2>1. /\ pc[c] = "setCount" /\ count' = Cardinality(held[c])
          /\ active' = active /\ next = "createVersion"
      BY <1>1, <1>12 DEF SetExampleCount, next, Following
    <2>2. count' = Cardinality(active')
      BY <2>1 DEF LatestInv, WorksOnIt
    <2>3. ~Adding(c)'
      BY <1>1, <1>4, <2>1 DEF KindAt, Adding
    <2>. QED BY <1>2, <1>4, <2>1, <2>2, <2>3 DEF LatestInv, WorksOnIt
  <1>. QED BY <1>6, <1>7, <1>8, <1>9, <1>10, <1>11, <1>12

(* The transaction of a rollback that is alone archives whatever is active  *)
(* and not in the snapshot.                                                *)
LEMMA ArchiveOthersKeepsLatest ==
  ASSUME HistoryInv, RowsInv, NEW c \in Clients, LatestInv(c), ArchiveOthers(c)
  PROVE  LatestInv(c)'
  <1>1. /\ pc[c] = "replace" /\ pc' = [pc EXCEPT ![c] = "upsert"]
        /\ archiving' = [archiving EXCEPT ![c] = Ids(active) \ Ids(held[c])]
        /\ UNCHANGED <<version, dropped, count, active, mine, held>>
    BY DEF ArchiveOthers, Following, tables
  <1>2. pc'[c] = "upsert" /\ archiving'[c] = Ids(active) \ Ids(held[c])
    BY <1>1 DEF HistoryInv, HistoryTypes, RowsInv, RowTypes
  <1>3. \A r \in active' : r.id \in archiving'[c] \cup Ids(held'[c])
    BY <1>1, <1>2 DEF Ids
  <1>4. WorksOnIt(c)'
    BY <1>1 DEF LatestInv, WorksOnIt, HasDataset
  <1>. QED BY <1>1, <1>2, <1>3, <1>4 DEF LatestInv, HasDataset

LEMMA BumpVersionKeepsLatest ==
  ASSUME HistoryInv, RowsInv, NEW c \in Clients, LatestInv(c), BumpVersion(c)
  PROVE  LatestInv(c)'
  <1>. DEFINE k == kind[c]
              v == version + 1
              stamped == {[r EXCEPT !.added = v] : r \in held[c]}
  <1>1. /\ pc[c] = "bump" /\ HasDataset /\ count = Cardinality(active)
        /\ KindAt(k, "bump") /\ k \in Kinds
    BY DEF BumpVersion, LatestInv, WorksOnIt, RowsInv, RowTypes, KindsFit
  <1>2. /\ version < MaxVersion /\ version' = v /\ UNCHANGED <<dropped, active>>
        /\ count' = IF k \in {"add", "import"}
                    THEN count + Cardinality(held[c]) ELSE count
        /\ pc' = [pc EXCEPT ![c] = Following(k, "bump")]
        /\ mine' = [mine EXCEPT ![c] = v]
        /\ held' = [held EXCEPT ![c] =
                      IF k \in {"add", "import"} THEN stamped ELSE held[c]]
        /\ UNCHANGED kind
    BY <1>1 DEF BumpVersion
  <1>3. /\ pc'[c] = Following(k, "bump") /\ mine'[c] = v /\ kind'[c] = k
        /\ held'[c] = IF k \in {"add", "import"} THEN stamped ELSE held[c]
    BY <1>2 DEF HistoryInv, HistoryTypes, RowsInv, RowTypes
  <1>4. version \in Nat /\ MaxVersion \in Nat
    BY ConstantsAssumption DEF HistoryInv, HistoryTypes
  <1>5. HasDataset'
    BY <1>2, <1>4 DEF HasDataset
  <1>6. Cardinality(stamped) = Cardinality(held[c])
    <2>1. PICK f : f = [r \in held[c] |-> [r EXCEPT !.added = v]]
      OBVIOUS
    <2>2. v \in 0..MaxVersion /\ held[c] \in RowTable
      BY <1>2, <1>4 DEF RowsInv, RowTypes
    <2>3. \A r \in held[c] : f[r] \in Row /\ f[r].id = r.id
      BY <2>1, <2>2 DEF RowTable, Row
    <2>4. stamped = {f[r] : r \in held[c]}
      BY <2>1
    <2>. HIDE DEF stamped
    <2>. QED BY <2>2, <2>3, <2>4, RewrittenIsTable
  <1>. HIDE DEF k, stamped
  <1>7. CASE k = "rollback"
    BY <1>2, <1>3, <1>5, <1>7 DEF LatestInv, WorksOnIt, Following
  <1>8. CASE k # "rollback"
    <2>1. pc'[c] = "createVersion"
      BY <1>3, <1>8 DEF Following
    <2>2. Adding(c)' <=> k \in {"add", "import"}
      BY <1>3, <2>1 DEF Adding
    <2>3. count' = IF Adding(c)' THEN Cardinality(active') + Cardinality(held'[c])
                                 ELSE Cardinality(active')
      BY <1>1, <1>2, <1>3, <1>6, <2>2
    <2>. QED BY <1>2, <1>3, <1>5, <2>1, <2>3 DEF LatestInv, WorksOnIt
  <1>. QED BY <1>7, <1>8

(* The end of a request: what was listed is saved as the latest version, or *)
(* the dataset is gone.                                                    *)
LEMMA EndingKeepsLatest ==
  ASSUME HistoryInv, RowsInv, NEW c \in Clients, LatestInv(c),
         ListActiveAll(c) \/ SaveSnapshot(c) \/ DeleteExamples(c)
         \/ DeleteDatasetRow(c)
  PROVE  LatestInv(c)'
  <1>1. HasDataset
    BY DEF LatestInv, WorksOnIt, ListActiveAll, SaveSnapshot, DeleteExamples, DeleteDatasetRow
  <1>2. CASE ListActiveAll(c)
    <2>1. /\ pc[c] = "list" /\ pc' = [pc EXCEPT ![c] = "saveSnapshot"]
          /\ held' = [held EXCEPT ![c] = active]
          /\ UNCHANGED <<version, dropped, count, active, mine>>
      BY <1>2 DEF ListActiveAll, tables
    <2>2. pc'[c] = "saveSnapshot" /\ held'[c] = active
      BY <2>1 DEF HistoryInv, HistoryTypes, RowsInv, RowTypes
    <2>. QED BY <2>1, <2>2 DEF LatestInv, WorksOnIt, HasDataset
  <1>3. CASE SaveSnapshot(c)
    <2>1. /\ pc[c] = "saveSnapshot" /\ MoveTo(c, "idle")
          /\ saved' = saved \cup {mine[c]}
          /\ snapshot' = [snapshot EXCEPT ![mine[c]] = held[c]]
          /\ UNCHANGED <<version, dropped, count, active>>
      BY <1>1, <1>3 DEF SaveSnapshot, Succeed, Following, tables
    <2>2. pc'[c] = "idle" /\ mine'[c] = 0
      BY <2>1, MoveToValues
    <2>3. mine[c] # 0 /\ mine[c] \in 0..MaxVersion
      BY <2>1 DEF HistoryInv, HistoryTypes, OwnVersion, EarlyPc
    <2>4. mine[c] = version /\ mine[c] \in Versions
      BY <2>3, ConstantsAssumption DEF LatestInv, WorksOnIt, Versions
    <2>5. Latest'
      BY <2>1, <2>4 DEF Latest, LatestInv, WorksOnIt, RowsInv, RowTypes
    <2>. QED BY <2>1, <2>2, <2>5 DEF LatestInv, WorksOnIt, HasDataset
  <1>4. CASE DeleteExamples(c)
    <2>1. /\ pc[c] = "deleteExamples" /\ MoveTo(c, "deleteDataset")
          /\ UNCHANGED <<version, dropped, count>>
      BY <1>4 DEF DeleteExamples, Succeed, Following
    <2>2. pc'[c] = "deleteDataset" /\ mine'[c] = mine[c]
      BY <2>1, MoveToValues
    <2>. QED BY <1>1, <2>1, <2>2 DEF LatestInv, WorksOnIt, HasDataset
  <1>5. CASE DeleteDatasetRow(c)
    <2>1. MoveTo(c, "idle") /\ version' = 0 /\ dropped'
      BY <1>1, <1>5 DEF DeleteDatasetRow, Succeed, Following
    <2>2. pc'[c] = "idle" /\ mine'[c] = 0
      BY <2>1, MoveToValues
    <2>. QED BY <2>1, <2>2 DEF LatestInv, WorksOnIt, HasDataset
  <1>. QED BY <1>2, <1>3, <1>4, <1>5

(* A rollback keeps the snapshot it restores in hand until it is saved.     *)
LEMMA StepKeepsRollback ==
  ASSUME HistoryInv, RowsInv, NEW c \in Clients, LatestInv(c), RollbackInv(c),
         Request(c) \/ Statement(c)
  PROVE  RollbackInv(c)'
  <1>1. SUFFICES ASSUME kind'[c] = "rollback"
                 PROVE  RollbackInv(c)'
    BY DEF RollbackInv
  <1>2. CASE Request(c)
    <2>1. ASSUME NEW k, k # "rollback", NEW at, NEW v, NEW rows,
                 Begin(c, k, at, v, rows)
          PROVE  FALSE
      BY <1>1, <2>1, BeginValues
    <2>2. CASE RollbackVersion(c)
      <3>1. PICK v \in saved : Begin(c, "rollback", "bump", v, snapshot[v])
        BY <2>2 DEF RollbackVersion
      <3>2. pc'[c] = "bump" /\ held'[c] = snapshot[v] /\ target'[c] = v
        BY <3>1, BeginValues
      <3>3. UNCHANGED <<saved, snapshot>>
        BY <2>2 DEF RollbackVersion, history
      <3>. QED BY <3>2, <3>3 DEF RollbackInv
    <2>3. CASE BatchAddExamples(c)
      BY <2>1, <2>3 DEF BatchAddExamples, BeginWithNewRows
    <2>4. CASE ImportFile(c)
      BY <2>1, <2>4 DEF ImportFile, BeginWithNewRows
    <2>5. CASE CreateDataset(c) \/ UpdateExample(c) \/ DeleteExample(c)
               \/ DeleteDataset(c)
      BY <2>1, <2>5 DEF CreateDataset, UpdateExample, DeleteExample, DeleteDataset
    <2>. QED BY <1>2, <2>2, <2>3, <2>4, <2>5 DEF Request
  <1>3. CASE Statement(c)
    <2>1. pc[c] # "idle" /\ HasDataset /\ KindAt(kind[c], pc[c])
      BY <1>3 DEF LatestInv, WorksOnIt, Statement, BumpVersion, CreateVersionRow,
         InsertExamples, UpdateExampleRow, ArchiveExample, AdjustExampleCount,
         ArchiveOthers, ReplaceActiveSet, SetExampleCount, ListActiveAll,
         SaveSnapshot, DeleteExamples, DeleteDatasetRow, RowsInv, KindsFit
    <2>2. ASSUME NEW at, MoveTo(c, at)
          PROVE  /\ pc'[c] = at /\ kind[c] = "rollback" /\ at # "idle"
                 /\ held'[c] = held[c] /\ target'[c] = target[c]
      BY <1>1, <2>2, MoveToValues
    <2>3. CASE BumpVersion(c)
      <3>1. /\ pc[c] = "bump" /\ kind' = kind
            /\ held' = [held EXCEPT ![c] =
                 IF kind[c] \in {"add", "import"}
                 THEN {[r EXCEPT !.added = version + 1] : r \in @} ELSE @]
            /\ pc' = [pc EXCEPT ![c] = Following(kind[c], "bump")]
            /\ UNCHANGED <<saved, snapshot, target>>
        BY <2>1, <2>3 DEF BumpVersion, history
      <3>2. kind[c] = "rollback"
        BY <1>1, <3>1
      <3>3. held'[c] = held[c] /\ pc'[c] = "replace"
        BY <3>1, <3>2 DEF Following, HistoryInv, HistoryTypes, RowsInv, RowTypes
      <3>. QED BY <3>1, <3>2, <3>3 DEF RollbackInv
    <2>4. CASE ReplaceActiveSet(c)
      <3>1. /\ pc[c] = "upsert" /\ MoveTo(c, "setCount")
            /\ UNCHANGED <<saved, snapshot>>
        BY <2>1, <2>4 DEF ReplaceActiveSet, Succeed, Following, history
      <3>2. /\ pc'[c] = "setCount" /\ kind[c] = "rollback"
            /\ held'[c] = held[c] /\ target'[c] = target[c]
        BY <2>2, <3>1
      <3>. QED BY <3>1, <3>2 DEF RollbackInv
    <2>5. CASE SetExampleCount(c)
      <3>1. /\ pc[c] = "setCount" /\ MoveTo(c, "createVersion")
            /\ UNCHANGED <<active, saved, snapshot>>
        BY <2>5 DEF SetExampleCount, Succeed, Following, history
      <3>2. /\ pc'[c] = "createVersion" /\ kind[c] = "rollback"
            /\ held'[c] = held[c] /\ target'[c] = target[c]
        BY <2>2, <3>1
      <3>3. active = held[c]
        BY <3>1 DEF LatestInv, WorksOnIt
      <3>. QED BY <3>1, <3>2, <3>3 DEF RollbackInv
    <2>6. CASE CreateVersionRow(c)
      <3>1. /\ pc[c] = "createVersion"
            /\ MoveTo(c, IF kind[c] \in {"add", "import"} THEN "insert" ELSE "list")
            /\ UNCHANGED <<active, saved, snapshot>>
        BY <2>1, <2>6 DEF CreateVersionRow, Succeed, Following, tables
      <3>2. /\ pc'[c] = "list" /\ kind[c] = "rollback"
            /\ target'[c] = target[c]
        BY <2>2, <3>1
      <3>. QED BY <3>1, <3>2 DEF RollbackInv
    <2>7. CASE ListActiveAll(c)
      <3>1. /\ pc[c] = "list" /\ pc' = [pc EXCEPT ![c] = "saveSnapshot"]
            /\ UNCHANGED <<active, saved, snapshot, kind, target>>
        BY <2>7 DEF ListActiveAll, tables, history
      <3>2. pc'[c] = "saveSnapshot"
        BY <3>1 DEF HistoryInv, HistoryTypes
      <3>. QED BY <1>1, <3>1, <3>2 DEF RollbackInv
    <2>8. CASE SaveSnapshot(c)
      BY <2>1, <2>2, <2>8 DEF SaveSnapshot, Succeed, Following
    <2>9. CASE \/ InsertExamples(c) \/ UpdateExampleRow(c) \/ ArchiveExample(c)
               \/ AdjustExampleCount(c) \/ DeleteExamples(c)
               \/ DeleteDatasetRow(c)
      <3>1. kind[c] # "rollback"
        BY <2>1, <2>9 DEF KindAt, InsertExamples, UpdateExampleRow,
           ArchiveExample, AdjustExampleCount, DeleteExamples, DeleteDatasetRow
      <3>2. \E at : MoveTo(c, at)
        BY <2>9 DEF InsertExamples, UpdateExampleRow, ArchiveExample,
           AdjustExampleCount, DeleteExamples, DeleteDatasetRow, Succeed, Abort
      <3>. QED BY <2>2, <3>1, <3>2
    <2>10. CASE ArchiveOthers(c)
      <3>1. /\ pc[c] = "replace" /\ pc' = [pc EXCEPT ![c] = "upsert"]
            /\ UNCHANGED <<saved, snapshot, kind, target, held>>
        BY <2>10 DEF ArchiveOthers, Following, history
      <3>2. pc'[c] = "upsert"
        BY <3>1 DEF HistoryInv, HistoryTypes
      <3>. QED BY <1>1, <3>1, <3>2 DEF RollbackInv
    <2>. QED BY <1>3, <2>3, <2>4, <2>5, <2>6, <2>7, <2>8, <2>9, <2>10 DEF Statement
  <1>. QED BY <1>2, <1>3

(* An import that starts has rows whose inputs nobody has.                  *)
LEMMA FilteredRowsDiffer ==
  ASSUME NEW n \in Nat, NEW file, NEW id, NEW rows, NEW others,
         NEW positions,
         positions = FilterImport(file, {r.content.inputs : r \in others}),
         DOMAIN file = 1..n,
         rows = {[id |-> id[i], content |-> file[i], added |-> 0] :
                    i \in positions}
  PROVE  DistinctInputs(rows, others)
  <1>. DEFINE known == {r.content.inputs : r \in others}
  <1>1. \A i \in positions :
           /\ i \in 1..n /\ file[i] # Invalid /\ file[i].inputs \notin known
           /\ \A j \in 1..n :
                j < i /\ file[j] # Invalid => file[j].inputs # file[i].inputs
    BY DEF FilterImport
  <1>2. \A r \in rows : \E i \in positions :
           r = [id |-> id[i], content |-> file[i], added |-> 0]
    OBVIOUS
  <1>3. ASSUME NEW r \in rows, NEW s \in rows, r.content.inputs = s.content.inputs
        PROVE  r = s
    <2>1. PICK i \in positions : r = [id |-> id[i], content |-> file[i], added |-> 0]
      BY <1>2
    <2>2. PICK j \in positions : s = [id |-> id[j], content |-> file[j], added |-> 0]
      BY <1>2
    <2>3. i \in 1..n /\ j \in 1..n /\ file[i].inputs = file[j].inputs
      BY <1>1, <1>3, <2>1, <2>2
    <2>4. ~(i < j) /\ ~(j < i)
      BY <1>1, <2>3
    <2>5. i = j
      BY <2>3, <2>4
    <2>. QED BY <2>1, <2>2, <2>5
  <1>4. ASSUME NEW r \in rows, NEW s \in others
        PROVE  r.content.inputs # s.content.inputs
    <2>1. PICK i \in positions : r = [id |-> id[i], content |-> file[i], added |-> 0]
      BY <1>2
    <2>2. s.content.inputs \in known
      OBVIOUS
    <2>. HIDE DEF known
    <2>. QED BY <1>1, <2>1, <2>2
  <1>. QED BY <1>3, <1>4 DEF DistinctInputs

(* Nothing is inserted between the comparison and the INSERT of an import   *)
(* that is alone.                                                          *)
LEMMA StepKeepsImport ==
  ASSUME HistoryInv, RowsInv, NEW c \in Clients, WorksOnIt(c), ImportInv(c),
         Request(c) \/ Statement(c)
  PROVE  ImportInv(c)'
  <1>1. SUFFICES ASSUME kind'[c] = "import",
                        pc'[c] \in {"bump", "createVersion", "insert"}
                 PROVE  DistinctInputs(held'[c], active')
    BY DEF ImportInv, Adding
  <1>2. CASE Request(c)
    <2>1. ASSUME NEW k, k # "import", NEW at, NEW v, NEW rows,
                 Begin(c, k, at, v, rows)
          PROVE  FALSE
      BY <1>1, <2>1, BeginValues
    <2>2. CASE ImportFile(c)
      <3>. DEFINE known == {r.content.inputs : r \in active}
      <3>1. PICK n \in 1..MaxBatch :
               \E file \in [1..n -> Contents \cup {Invalid}] :
                  BeginWithNewRows(c, "import", file, FilterImport(file, known))
        BY <2>2 DEF ImportFile
      <3>2. PICK file \in [1..n -> Contents \cup {Invalid}] :
               BeginWithNewRows(c, "import", file, FilterImport(file, known))
        BY <3>1
      <3>3. PICK positions : positions = FilterImport(file, known)
        OBVIOUS
      <3>4. BeginWithNewRows(c, "import", file, positions)
        BY <3>2, <3>3
      <3>5. PICK id \in [positions -> FreshIds] :
               Begin(c, "import", "bump", 0,
                     {[id |-> id[i], content |-> file[i], added |-> 0] :
                          i \in positions})
        BY <3>4 DEF BeginWithNewRows
      <3>6. held'[c] = {[id |-> id[i], content |-> file[i], added |-> 0] :
                           i \in positions}
        BY <3>5, BeginValues
      <3>7. n \in Nat /\ DOMAIN file = 1..n
        BY <3>1, <3>2, ConstantsAssumption
      <3>8. DistinctInputs(held'[c], active)
        BY <3>3, <3>6, <3>7, FilteredRowsDiffer
      <3>9. active' = active
        BY <2>2 DEF ImportFile, tables
      <3>. QED BY <3>8, <3>9
    <2>3. CASE BatchAddExamples(c)
      BY <2>1, <2>3 DEF BatchAddExamples, BeginWithNewRows
    <2>4. CASE CreateDataset(c) \/ UpdateExample(c) \/ DeleteExample(c)
               \/ DeleteDataset(c) \/ RollbackVersion(c)
      BY <2>1, <2>4 DEF CreateDataset, UpdateExample, DeleteExample,
         DeleteDataset, RollbackVersion
    <2>. QED BY <1>2, <2>2, <2>3, <2>4 DEF Request
  <1>3. CASE BumpVersion(c)
    <2>1. pc[c] = "bump" /\ HasDataset
      BY <1>3 DEF BumpVersion, WorksOnIt
    <2>2. /\ kind' = kind /\ active' = active
          /\ held' = [held EXCEPT ![c] =
               IF kind[c] \in {"add", "import"}
               THEN {[r EXCEPT !.added = version + 1] : r \in held[c]} ELSE held[c]]
      BY <1>3, <2>1 DEF BumpVersion
    <2>3. held'[c] = {[r EXCEPT !.added = version + 1] : r \in held[c]}
      BY <1>1, <2>2 DEF RowsInv, RowTypes
    <2>4. Adding(c) /\ DistinctInputs(held[c], active)
      BY <1>1, <2>1, <2>2 DEF ImportInv, Adding
    <2>5. \A r \in held[c], s \in active : r.id # s.id
      BY <2>4 DEF RowsInv, NewRowsAreNew, UsedIds, Ids
    <2>6. \A r \in held[c] : r \in Row
      BY DEF RowsInv, RowTypes, RowTable
    <2>7. \A t \in held'[c] : \E r \in held[c] :
             t = [r EXCEPT !.added = version + 1] /\ t.content = r.content
      BY <2>3, <2>6 DEF Row
    <2>8. ASSUME NEW t \in held'[c], NEW u \in held'[c],
                 t.content.inputs = u.content.inputs
          PROVE  t = u
      <3>1. PICK r \in held[c] :
               t = [r EXCEPT !.added = version + 1] /\ t.content = r.content
        BY <2>7
      <3>2. PICK s \in held[c] :
               u = [s EXCEPT !.added = version + 1] /\ u.content = s.content
        BY <2>7
      <3>3. r = s
        BY <2>4, <2>8, <3>1, <3>2 DEF DistinctInputs
      <3>. QED BY <3>1, <3>2, <3>3
    <2>9. ASSUME NEW t \in held'[c], NEW s \in active
          PROVE  t.content.inputs # s.content.inputs
      BY <2>4, <2>5, <2>7 DEF DistinctInputs
    <2>. QED BY <2>2, <2>8, <2>9 DEF DistinctInputs
  <1>4. CASE CreateVersionRow(c)
    <2>1. /\ pc[c] = "createVersion" /\ active' = active
          /\ \E at : MoveTo(c, at)
      BY <1>4 DEF CreateVersionRow, tables, Succeed, Abort
    <2>2. kind[c] = "import" /\ held'[c] = held[c]
      BY <1>1, <2>1, MoveToValues
    <2>3. Adding(c)
      BY <2>1, <2>2 DEF Adding
    <2>. QED BY <2>1, <2>2, <2>3 DEF ImportInv
  <1>5. CASE ListActiveAll(c) \/ ArchiveOthers(c)
    BY <1>1, <1>5 DEF ListActiveAll, ArchiveOthers, Following, HistoryInv,
       HistoryTypes
  <1>6. CASE \/ InsertExamples(c) \/ SetExampleCount(c) \/ ReplaceActiveSet(c)
             \/ UpdateExampleRow(c) \/ ArchiveExample(c) \/ AdjustExampleCount(c)
             \/ SaveSnapshot(c) \/ DeleteExamples(c) \/ DeleteDatasetRow(c)
    <2>1. HasDataset /\ KindAt(kind[c], pc[c])
      BY <1>6 DEF WorksOnIt, InsertExamples, SetExampleCount, ReplaceActiveSet,
         UpdateExampleRow, ArchiveExample, AdjustExampleCount, SaveSnapshot,
         DeleteExamples, DeleteDatasetRow, RowsInv, KindsFit
    <2>2. /\ MoveTo(c, Following(kind[c], pc[c]))
          /\ \/ pc[c] \in {"insert", "saveSnapshot"}
             \/ /\ kind[c] # "import" /\ kind[c] # "add"
                /\ pc[c] \in {"setCount", "upsert", "updateRow", "archive",
                              "adjustCount", "deleteExamples", "deleteDataset"}
      BY <1>6, <2>1 DEF KindAt, InsertExamples, SetExampleCount,
         ReplaceActiveSet, UpdateExampleRow, ArchiveExample, AdjustExampleCount,
         SaveSnapshot, DeleteExamples, DeleteDatasetRow, Succeed
    <2>3. CASE pc[c] \in {"insert", "saveSnapshot"}
      <3>1. Following(kind[c], pc[c]) \in {"list", "idle"}
        BY <2>3 DEF Following
      <3>. QED BY <1>1, <2>2, <3>1, MoveToValues
    <2>4. CASE kind[c] # "import"
      BY <1>1, <2>2, <2>4, MoveToValues
    <2>. QED BY <2>2, <2>3, <2>4
  <1>. QED BY <1>2, <1>3, <1>4, <1>5, <1>6 DEF Statement

(* A handler that is alone finds its dataset, and what fails does not change *)
(* what it has in hand.                                                      *)
LEMMA StepWorksOnIt ==
  ASSUME HistoryInv, NEW c \in Clients, WorksOnIt(c),
         Request(c) \/ Statement(c) \/ Fail(c)
  PROVE  WorksOnIt(c)'
  <1>1. CASE Request(c)
    BY <1>1 DEF Request, CreateDataset, BatchAddExamples, ImportFile,
       UpdateExample, DeleteExample, RollbackVersion, DeleteDataset,
       BeginWithNewRows, Begin, WorksOnIt, HasDataset, tables
  <1>2. CASE BumpVersion(c)
    BY <1>2 DEF BumpVersion, WorksOnIt, HasDataset, HistoryInv, HistoryTypes
  <1>3. CASE DeleteDatasetRow(c)
    <2>1. Following(kind[c], pc[c]) = "idle"
      BY <1>3 DEF DeleteDatasetRow, Following
    <2>2. pc'[c] = "idle"
      BY <1>3, <2>1 DEF DeleteDatasetRow, Succeed, MoveTo, HistoryInv, HistoryTypes
    <2>. QED BY <2>2 DEF WorksOnIt
  <1>4. CASE \/ CreateVersionRow(c) \/ InsertExamples(c) \/ UpdateExampleRow(c)
             \/ ArchiveExample(c) \/ AdjustExampleCount(c) \/ ArchiveOthers(c)
             \/ ReplaceActiveSet(c) \/ SetExampleCount(c) \/ ListActiveAll(c)
             \/ SaveSnapshot(c) \/ DeleteExamples(c) \/ Fail(c)
    <2>1. pc[c] # "idle" /\ version' = version
      BY <1>4 DEF CreateVersionRow, InsertExamples, UpdateExampleRow,
         ArchiveExample, AdjustExampleCount, ArchiveOthers, ReplaceActiveSet,
         SetExampleCount, ListActiveAll, SaveSnapshot, DeleteExamples, Fail, tables
    <2>. QED BY <2>1 DEF WorksOnIt, HasDataset
  <1>. QED BY <1>1, <1>2, <1>3, <1>4 DEF Statement

LEMMA FailKeepsImport ==
  ASSUME HistoryInv, RowsInv, NEW c \in Clients, ImportInv(c), Fail(c)
  PROVE  ImportInv(c)'
  <1>1. AfterFailure(kind[c], pc[c]) \in {"idle", "list"} /\ active' = active
    BY DEF AfterFailure, Fail, tables
  <1>2. pc'[c] \in {"idle", "list"}
    BY <1>1, MoveToValues DEF Fail, Abort
  <1>. QED BY <1>2 DEF ImportInv, Adding

-----------------------------------------------------------------------------

AloneInv ==
    /\ HistoryInv /\ RowsInv
    /\ \A c \in Clients : WorksOnIt(c) /\ ImportInv(c)

LEMMA AloneInvariant ==
  ASSUME Alone
  PROVE  Spec => []AloneInv
  <1>1. Init => AloneInv
    BY InitHistory, InitRows DEF AloneInv, Init, WorksOnIt, ImportInv
  <1>2. AloneInv /\ [Next]_vars => AloneInv'
    <2>. SUFFICES ASSUME AloneInv, [Next]_vars PROVE AloneInv'
      OBVIOUS
    <2>1. PICK c \in Clients : Clients = {c}
      BY DEF Alone
    <2>2. HistoryInv' /\ RowsInv'
      BY StepHistory, StepRows DEF AloneInv
    <2>3. HistoryInv /\ RowsInv /\ WorksOnIt(c) /\ ImportInv(c)
      BY DEF AloneInv
    <2>4. CASE UNCHANGED vars
      <3>1. WorksOnIt(c)' /\ ImportInv(c)'
        BY <2>3, <2>4 DEF vars, tables, memory, WorksOnIt, HasDataset,
           ImportInv, Adding
      <3>. QED BY <2>1, <2>2, <3>1 DEF AloneInv
    <2>5. CASE Next
      <3>1. Request(c) \/ Statement(c) \/ Fail(c)
        BY <2>1, <2>5 DEF Next
      <3>2. WorksOnIt(c)' /\ ImportInv(c)'
        BY <2>3, <3>1, StepWorksOnIt, StepKeepsImport, FailKeepsImport
      <3>. QED BY <2>1, <2>2, <3>2 DEF AloneInv
    <2>. QED BY <2>4, <2>5
  <1>. QED BY <1>1, <1>2, PTL DEF Spec

-----------------------------------------------------------------------------

SerialInv ==
    /\ HistoryInv /\ RowsInv
    /\ \A c \in Clients : LatestInv(c) /\ RollbackInv(c)

LEMMA InitSerial ==
  ASSUME Init
  PROVE  SerialInv
  <1>1. ASSUME NEW c \in Clients
        PROVE  LatestInv(c) /\ RollbackInv(c)
    BY DEF Init, LatestInv, WorksOnIt, RollbackInv, HasDataset
  <1>. QED BY <1>1, InitHistory, InitRows DEF SerialInv

LEMMA StepSerial ==
  ASSUME OneAtATime, SerialInv, [Next]_vars
  PROVE  SerialInv'
  <1>1. PICK c : Clients = {c}
    BY DEF OneAtATime, Alone
  <1>2. HistoryInv' /\ RowsInv'
    BY StepHistory, StepRows DEF SerialInv
  <1>3. HistoryInv /\ RowsInv /\ LatestInv(c) /\ RollbackInv(c)
    BY <1>1 DEF SerialInv
  <1>4. CASE UNCHANGED vars
    <2>1. UNCHANGED <<version, dropped, count, active, saved, snapshot, kind, pc,
                      mine, target, held, archiving>>
      BY <1>4 DEF vars, tables, history, memory
    <2>2. (Latest' <=> Latest) /\ (Adding(c)' <=> Adding(c))
          /\ (HasDataset' <=> HasDataset)
      BY <2>1 DEF Latest, Adding, HasDataset
    <2>3. LatestInv(c)' /\ RollbackInv(c)'
      BY <1>3, <2>1, <2>2 DEF LatestInv, WorksOnIt, RollbackInv
    <2>. QED BY <1>1, <1>2, <2>3 DEF SerialInv
  <1>5. CASE Next
    <2>1. ~Fail(c)
      BY <1>3 DEF OneAtATime, Alone, Fail, RowsInv, RowTypes
    <2>2. Request(c) \/ Statement(c)
      BY <1>1, <1>5, <2>1 DEF Next
    <2>3. LatestInv(c)'
      BY <1>1, <1>3, <2>2, RequestKeepsLatest, StatementKeepsLatest,
         ArchiveOthersKeepsLatest, BumpVersionKeepsLatest, EndingKeepsLatest
         DEF Statement
    <2>4. RollbackInv(c)'
      BY <1>1, <1>3, <2>2, StepKeepsRollback
    <2>. QED BY <1>1, <1>2, <2>3, <2>4 DEF SerialInv
  <1>. QED BY <1>4, <1>5

LEMMA SerialInvariant ==
  ASSUME OneAtATime
  PROVE  Spec => []SerialInv
  <1>1. Init => SerialInv
    BY InitSerial
  <1>2. SerialInv /\ [Next]_vars => SerialInv'
    BY StepSerial
  <1>. QED BY <1>1, <1>2, PTL DEF Spec

(* When requests come one after the other and none fails, the latest        *)
(* version is what the dataset holds between two of them, and its count is  *)
(* the number of its examples, for any sequence of requests of any size.    *)
THEOREM LatestVersionIsActive ==
  ASSUME OneAtATime
  PROVE  Spec => []LatestIsActive
  <1>1. SerialInv => LatestIsActive
    <2>1. PICK c : Clients = {c}
      BY DEF OneAtATime, Alone
    <2>. QED BY <2>1 DEF SerialInv, LatestInv, WorksOnIt, Latest, LatestIsActive, Quiet
  <1>. QED BY <1>1, SerialInvariant, PTL

(* A rollback that is alone saves, as the new version, the snapshot it was  *)
(* asked to restore.                                                       *)
THEOREM RollbacksRestore ==
  ASSUME OneAtATime
  PROVE  Spec => RollbackRestores
  <1>. DEFINE Restored ==
         \A c \in Clients :
            kind[c] = "rollback" /\ pc[c] = "saveSnapshot" /\ pc'[c] = "idle" =>
               snapshot'[mine[c]] = snapshot[target[c]]
  <1>1. SerialInv /\ [Next]_vars => [Restored]_vars
    <2>. SUFFICES ASSUME SerialInv, Next, NEW c \in Clients,
                         kind[c] = "rollback", pc[c] = "saveSnapshot"
                  PROVE  pc'[c] = "idle" =>
                            snapshot'[mine[c]] = snapshot[target[c]]
      OBVIOUS
    <2>1. Clients = {c} /\ MaxFailures = 0
      BY DEF OneAtATime, Alone
    <2>2. LatestInv(c) /\ RollbackInv(c) /\ HistoryInv /\ RowsInv
      BY DEF SerialInv
    <2>3. held[c] = snapshot[target[c]] /\ HasDataset
      BY <2>2 DEF LatestInv, WorksOnIt, RollbackInv
    <2>4. mine[c] \in Versions /\ DOMAIN snapshot = Versions
      BY <2>2, ConstantsAssumption
         DEF HistoryInv, HistoryTypes, OwnVersion, EarlyPc, Versions
    <2>5. ~Fail(c) /\ ~Request(c)
      BY <2>1, <2>2 DEF Fail, RowsInv, RowTypes, Request, CreateDataset,
         BatchAddExamples, ImportFile, UpdateExample, DeleteExample,
         RollbackVersion, DeleteDataset, BeginWithNewRows, Begin
    <2>6. SaveSnapshot(c)
      BY <2>1, <2>5 DEF Next, Statement, BumpVersion, CreateVersionRow,
         InsertExamples, UpdateExampleRow, ArchiveExample, AdjustExampleCount,
         ArchiveOthers, ReplaceActiveSet, SetExampleCount, ListActiveAll,
         DeleteExamples, DeleteDatasetRow
    <2>7. snapshot' = [snapshot EXCEPT ![mine[c]] = held[c]]
      BY <2>3, <2>6 DEF SaveSnapshot
    <2>. QED BY <2>3, <2>4, <2>7
  <1>. QED BY <1>1, SerialInvariant, PTL DEF RollbackRestores, Spec

(* An import that is alone inserts no two rows with the same inputs and     *)
(* none whose inputs an active example has, whatever failed before it.      *)
THEOREM ImportsAddNewInputs ==
  ASSUME Alone
  PROVE  Spec => ImportAddsNewInputs
  <1>. DEFINE OnlyNew ==
         \A c \in Clients :
            kind[c] = "import" /\ pc[c] = "insert" =>
               \A r \in active' \ active, s \in active' :
                  r.content.inputs = s.content.inputs => r = s
  <1>1. AloneInv /\ [Next]_vars => [OnlyNew]_vars
    <2>. SUFFICES ASSUME AloneInv, Next, NEW c \in Clients,
                         kind[c] = "import", pc[c] = "insert"
                  PROVE  \A r \in active' \ active, s \in active' :
                            r.content.inputs = s.content.inputs => r = s
      OBVIOUS
    <2>1. Clients = {c}
      BY DEF Alone
    <2>2. WorksOnIt(c) /\ ImportInv(c)
      BY DEF AloneInv
    <2>3. DistinctInputs(held[c], active) /\ HasDataset
      BY <2>2 DEF WorksOnIt, ImportInv, Adding
    <2>4. CASE Fail(c)
      BY <2>4 DEF Fail, tables
    <2>5. CASE ~Fail(c)
      <3>1. ~Request(c)
        BY DEF Request, CreateDataset, BatchAddExamples, ImportFile,
           UpdateExample, DeleteExample, RollbackVersion, DeleteDataset,
           BeginWithNewRows, Begin
      <3>2. InsertExamples(c)
        BY <2>1, <2>5, <3>1 DEF Next, Statement, BumpVersion, CreateVersionRow,
           UpdateExampleRow, ArchiveExample, AdjustExampleCount,
           ArchiveOthers, ReplaceActiveSet, SetExampleCount, ListActiveAll,
           SaveSnapshot, DeleteExamples, DeleteDatasetRow
      <3>3. active' = active \cup held[c]
        BY <2>3, <3>2 DEF InsertExamples
      <3>. QED BY <2>3, <3>3 DEF DistinctInputs
    <2>. QED BY <2>4, <2>5
  <1>. QED BY <1>1, AloneInvariant, PTL DEF ImportAddsNewInputs, Spec
=============================================================================
