------------------------ MODULE PromptVersionsProofs ------------------------
(***************************************************************************)
(* For any number of handlers, any contents and any bound on the versions: *)
(* the types, the numbering, the lock, and that what a version says and    *)
(* what an experiment has pinned of it never part.                         *)
(***************************************************************************)
EXTENDS PromptVersions, TLAPS

\* Only one handler has the prompt's row locked.
OneLock ==
    \A c, d \in Clients : pc[c] = "locked" /\ pc[d] = "locked" => c = d

\* What a handler remembers fits where it is, and a snapshot it has read is
\* of a row that is there and says the same.
MemoryFits ==
    \A c \in Clients :
        /\ pc[c] = "locked" =>
              /\ seen[c] \in [kind : {"current"}, version : Versions]
              /\ request[c] \in Requests
        /\ pc[c] = "resolved" =>
              /\ seen[c] \in [kind : {"snapshot"}, version : Versions,
                              content : Contents]
              /\ content[seen[c].version] = seen[c].content

PromptInv ==
    /\ TypeOK
    /\ OneLock
    /\ MemoryFits
    /\ NumberedWithoutGaps
    /\ ReadIsFresh
    /\ PinnedIsTheVersion
    /\ \A c \in Clients : pc[c] # "idle" => HasPrompt
    /\ ~HasPrompt => Rows = {}

-----------------------------------------------------------------------------

(* A handler that returns remembers nothing, and unlocks the row. *)
LEMMA ReturnForgets ==
  ASSUME PromptInv, NEW c \in Clients, Return(c)
  PROVE  /\ pc' \in [Clients -> {"idle", "locked", "resolved"}]
         /\ request' \in [Clients -> Requests \cup {Nothing}]
         /\ seen' \in [Clients -> [kind : {"current"}, version : Versions]
                               \cup [kind : {"snapshot"}, version : Versions,
                                     content : Contents]
                               \cup {Nothing}]
         /\ pc'[c] = "idle"
         /\ \A d \in Clients \ {c} :
               pc'[d] = pc[d] /\ request'[d] = request[d] /\ seen'[d] = seen[d]
  BY DEF PromptInv, TypeOK, Return

(* What adding a version does to the rows and the current version. *)
LEMMA AddVersionExtends ==
  ASSUME PromptInv, NEW c \in Clients, pc[c] = "locked",
         NEW body \in Contents, AddVersion(c, body)
  PROVE  /\ content' \in [Versions -> Contents \cup {NoRow}]
         /\ current' \in Versions
         /\ \A v \in Rows : content'[v] = content[v]
         /\ Rows' = Rows \cup {current'}
         /\ \A v \in Rows' : \A w \in 1..v : w \in Rows'
  <1>. DEFINE next == current + 1
  <1>1. seen[c].version = current /\ current \in Rows /\ current \in Versions
    BY DEF PromptInv, ReadIsFresh, NumberedWithoutGaps, Rows
  <1>2. /\ next \in Versions /\ next \notin Rows
        /\ content' = [content EXCEPT ![next] = body] /\ current' = next
    BY <1>1 DEF AddVersion
  <1>3. content \in [Versions -> Contents \cup {NoRow}]
    BY DEF PromptInv, TypeOK
  <1>4. body # NoRow
    BY VersionAssumption
  <1>5. Rows' = Rows \cup {next}
    BY <1>2, <1>3, <1>4 DEF Rows
  <1>6. \A w \in 1..next : w \in 1..current \/ w = next
    BY <1>1, VersionAssumption DEF Versions
  <1>7. \A v \in Rows : \A w \in 1..v : w \in Rows
    BY DEF PromptInv, NumberedWithoutGaps
  <1>8. \A v \in Rows' : \A w \in 1..v : w \in Rows'
    BY <1>1, <1>5, <1>6, <1>7
  <1>9. \A v \in Rows : content'[v] = content[v]
    BY <1>2, <1>3 DEF Rows
  <1>. QED BY <1>2, <1>3, <1>5, <1>8, <1>9

(* A commit that keeps every row, of a handler that held the lock, keeps    *)
(* what the other handlers rely on.                                        *)
LEMMA CommitKeepsInv ==
  ASSUME PromptInv, NEW c \in Clients, pc[c] = "locked", Return(c),
         content' \in [Versions -> Contents \cup {NoRow}],
         current' \in Rows', current' \in Versions,
         status' \in Statuses, released' \in SUBSET Versions,
         UNCHANGED pinned,
         \A v \in Rows : content'[v] = content[v],
         \A v \in Rows' : \A w \in 1..v : w \in Rows'
  PROVE  PromptInv'
  <1>1. current' \in Named /\ current' # 0
    BY VersionAssumption DEF Versions, Named
  <1>2. TypeOK'
    BY <1>1, ReturnForgets DEF PromptInv, TypeOK, Snapshots, Versions, Requests, Named
  <1>3. \A d \in Clients : pc'[d] # "locked"
    BY ReturnForgets DEF PromptInv, OneLock
  <1>4. OneLock' /\ ReadIsFresh'
    BY <1>3 DEF OneLock, ReadIsFresh
  <1>5. \A d \in Clients : pc'[d] = "resolved" =>
           pc[d] = "resolved" /\ seen'[d] = seen[d]
    BY ReturnForgets
  <1>6. \A v \in Versions : content[v] \in Contents => content'[v] = content[v]
    BY VersionAssumption DEF Rows
  <1>7. MemoryFits'
    <2>1. \A d \in Clients : pc[d] = "resolved" =>
             /\ seen[d] \in [kind : {"snapshot"}, version : Versions,
                             content : Contents]
             /\ content[seen[d].version] = seen[d].content
      BY DEF PromptInv, MemoryFits
    <2>2. \A d \in Clients : pc[d] = "resolved" =>
             content'[seen[d].version] = seen[d].content
      BY <2>1, <1>6
    <2>. QED BY <1>3, <1>5, <2>1, <2>2 DEF MemoryFits, Versions
  <1>8. PinnedIsTheVersion'
    <2>1. \A p \in pinned : p.version \in Versions /\ p.content \in Contents
      BY DEF PromptInv, TypeOK, Snapshots
    <2>. QED BY <1>6, <2>1 DEF PromptInv, PinnedIsTheVersion
  <1>9. NumberedWithoutGaps' /\ HasPrompt'
    BY <1>1 DEF NumberedWithoutGaps, HasPrompt
  <1>. QED BY <1>2, <1>4, <1>7, <1>8, <1>9 DEF PromptInv

(* A step that changes no row and no number, and leaves at most one lock.   *)
LEMMA MemoryStepKeepsInv ==
  ASSUME PromptInv, UNCHANGED <<current, content>>,
         status' \in Statuses, released' \in SUBSET Versions,
         TypeOK', OneLock', MemoryFits', ReadIsFresh', PinnedIsTheVersion',
         \A c \in Clients : pc'[c] # "idle" => HasPrompt
  PROVE  PromptInv'
  BY DEF PromptInv, NumberedWithoutGaps, HasPrompt, Rows, Versions

LEMMA InitInv ==
  ASSUME Init
  PROVE  PromptInv
  <1>1. TypeOK
    BY VersionAssumption DEF Init, TypeOK, Named, Statuses
  <1>2. Rows = {} /\ ~HasPrompt
    BY DEF Init, Rows, HasPrompt
  <1>3. \A c \in Clients : pc[c] = "idle"
    BY DEF Init
  <1>4. pinned = {}
    BY DEF Init
  <1>. QED BY <1>1, <1>2, <1>3, <1>4 DEF PromptInv, OneLock, MemoryFits,
             NumberedWithoutGaps, ReadIsFresh, PinnedIsTheVersion

(* Every step keeps the invariant. *)
LEMMA StepInv ==
  ASSUME PromptInv, [Next]_vars
  PROVE  PromptInv'
  <1>1. CASE UNCHANGED vars
    BY <1>1 DEF vars, prompt, PromptInv, TypeOK, OneLock, MemoryFits,
       NumberedWithoutGaps, ReadIsFresh, PinnedIsTheVersion, HasPrompt, Rows,
       Versions, Named, Requests, Snapshots
  <1>2. ASSUME NEW c \in Clients, CreatePrompt(c)
        PROVE  PromptInv'
    <2>1. \A d \in Clients : pc[d] = "idle"
      BY <1>2 DEF PromptInv, CreatePrompt
    <2>2. /\ 1 \in Versions /\ current' = 1 /\ Rows = {}
          /\ UNCHANGED <<pinned, pc, request, seen>>
      BY <1>2, VersionAssumption DEF PromptInv, CreatePrompt, Versions
    <2>3. PICK body \in Contents :
             content' = [content EXCEPT ![1] = body]
      BY <1>2 DEF CreatePrompt
    <2>4. status' \in Statuses /\ released' \in SUBSET Versions
      BY <1>2, <2>2 DEF CreatePrompt
    <2>5. content \in [Versions -> Contents \cup {NoRow}] /\ body # NoRow
      BY VersionAssumption DEF PromptInv, TypeOK
    <2>6. Rows' = {1} /\ content' \in [Versions -> Contents \cup {NoRow}]
      BY <2>2, <2>3, <2>5 DEF Rows
    <2>7. TypeOK'
      BY <2>2, <2>4, <2>6, VersionAssumption DEF PromptInv, TypeOK, Named, Versions,
         Requests, Snapshots
    <2>8. pinned = {}
      <3>1. \A p \in pinned : p.version \in Rows
        BY VersionAssumption DEF PromptInv, TypeOK, PinnedIsTheVersion, Rows, Snapshots
      <3>. QED BY <2>2, <3>1
    <2>9. NumberedWithoutGaps' /\ HasPrompt'
      BY <2>2, <2>6 DEF NumberedWithoutGaps, HasPrompt
    <2>. QED BY <2>1, <2>2, <2>7, <2>8, <2>9 DEF PromptInv, OneLock, MemoryFits,
               ReadIsFresh, PinnedIsTheVersion
  <1>3. ASSUME NEW c \in Clients, UpdatePrompt(c)
        PROVE  PromptInv'
    BY <1>3, MemoryStepKeepsInv DEF UpdatePrompt, PromptInv, TypeOK, OneLock,
       MemoryFits, ReadIsFresh, PinnedIsTheVersion, Versions, Named, Requests,
       Snapshots
  <1>4. ASSUME NEW c \in Clients, LockPrompt(c)
        PROVE  PromptInv'
    <2>1. PICK r \in Requests : request' = [request EXCEPT ![c] = r]
      BY <1>4 DEF LockPrompt
    <2>2. /\ pc' = [pc EXCEPT ![c] = "locked"]
          /\ seen' = [seen EXCEPT ![c] = [kind |-> "current", version |-> current]]
          /\ UNCHANGED <<current, status, content, released, pinned>>
          /\ \A d \in Clients : pc[d] # "locked"
      BY <1>4 DEF LockPrompt, prompt, Unlocked
    <2>3. current \in Versions
      BY <1>4 DEF LockPrompt, PromptInv, NumberedWithoutGaps, Rows
    <2>4. TypeOK'
      BY <2>1, <2>2, <2>3 DEF PromptInv, TypeOK, Versions, Named, Requests,
         Snapshots
    <2>5. /\ pc'[c] = "locked" /\ request'[c] = r
          /\ seen'[c] = [kind |-> "current", version |-> current]
          /\ \A d \in Clients \ {c} : pc'[d] = pc[d] /\ seen'[d] = seen[d]
      BY <2>1, <2>2 DEF PromptInv, TypeOK
    <2>6. OneLock' /\ ReadIsFresh'
      BY <2>2, <2>5 DEF OneLock, ReadIsFresh
    <2>7. MemoryFits'
      BY <2>2, <2>3, <2>5 DEF PromptInv, MemoryFits, Versions, Requests, Named
    <2>. QED BY <1>4, <2>2, <2>4, <2>6, <2>7, MemoryStepKeepsInv
           DEF PromptInv, TypeOK, PinnedIsTheVersion, LockPrompt
  <1>5. ASSUME NEW c \in Clients, CreatePromptVersion(c)
        PROVE  PromptInv'
    <2>1. request[c].content \in Contents
      BY <1>5 DEF CreatePromptVersion, PromptInv, MemoryFits, Requests
    <2>. QED BY <1>5, <2>1, AddVersionExtends, CommitKeepsInv
           DEF CreatePromptVersion, PromptInv, TypeOK
  <1>6. ASSUME NEW c \in Clients, RollbackPrompt(c)
        PROVE  PromptInv'
    <2>1. content[request[c].version] \in Contents
      BY <1>6 DEF RollbackPrompt, PromptInv, TypeOK, Rows
    <2>. QED BY <1>6, <2>1, AddVersionExtends, CommitKeepsInv
           DEF RollbackPrompt, PromptInv, TypeOK
  <1>7. ASSUME NEW c \in Clients, ReleasePrompt(c)
        PROVE  PromptInv'
    <2>1. /\ UNCHANGED <<content, pinned>> /\ Rows' = Rows
          /\ current' \in Rows /\ current' \in Versions
          /\ status' = "active" /\ released' = released \cup {current'}
      BY <1>7 DEF ReleasePrompt, Rows, Versions
    <2>. QED BY <1>7, <2>1, CommitKeepsInv
           DEF ReleasePrompt, PromptInv, TypeOK, NumberedWithoutGaps, Statuses
  <1>8. ASSUME NEW c \in Clients, EndTransaction(c)
        PROVE  PromptInv'
    <2>1. UNCHANGED <<current, status, content, released, pinned>> /\ Rows' = Rows
      BY <1>8 DEF EndTransaction, prompt, Rows, Versions
    <2>2. HasPrompt /\ current \in Rows /\ current \in Versions
      BY <1>8 DEF EndTransaction, PromptInv, NumberedWithoutGaps, Rows
    <2>. QED BY <1>8, <2>1, <2>2, CommitKeepsInv
           DEF EndTransaction, PromptInv, TypeOK, NumberedWithoutGaps
  <1>9. ASSUME NEW c \in Clients, ResolvePromptBinding(c)
        PROVE  PromptInv'
    <2>1. PICK v \in Rows :
             seen' = [seen EXCEPT ![c] =
                        [kind |-> "snapshot", version |-> v, content |-> content[v]]]
      BY <1>9 DEF ResolvePromptBinding
    <2>2. /\ pc' = [pc EXCEPT ![c] = "resolved"]
          /\ UNCHANGED <<current, status, content, released, pinned, request>>
      BY <1>9 DEF ResolvePromptBinding, prompt
    <2>3. v \in Versions /\ content[v] \in Contents
      BY DEF PromptInv, TypeOK, Rows
    <2>4. TypeOK'
      BY <2>1, <2>2, <2>3 DEF PromptInv, TypeOK, Versions, Named, Requests,
         Snapshots
    <2>5. /\ pc'[c] = "resolved"
          /\ seen'[c] = [kind |-> "snapshot", version |-> v, content |-> content[v]]
          /\ \A d \in Clients \ {c} : pc'[d] = pc[d] /\ seen'[d] = seen[d]
      BY <2>1, <2>2 DEF PromptInv, TypeOK
    <2>6. OneLock' /\ ReadIsFresh'
      BY <2>2, <2>5 DEF PromptInv, OneLock, ReadIsFresh
    <2>7. MemoryFits'
      BY <2>2, <2>3, <2>5 DEF PromptInv, MemoryFits, Versions, Requests, Named
    <2>. QED BY <1>9, <2>2, <2>4, <2>6, <2>7, MemoryStepKeepsInv
           DEF PromptInv, TypeOK, PinnedIsTheVersion, ResolvePromptBinding
  <1>10. ASSUME NEW c \in Clients, CreateExperiment(c)
         PROVE  PromptInv'
    <2>1. UNCHANGED <<current, status, content, released>> /\ Return(c)
      BY <1>10 DEF CreateExperiment, prompt
    <2>2. /\ seen[c].version \in Versions /\ seen[c].content \in Contents
          /\ content[seen[c].version] = seen[c].content
      BY <1>10 DEF CreateExperiment, PromptInv, MemoryFits
    <2>3. pinned' \in SUBSET Snapshots /\ PinnedIsTheVersion'
      BY <1>10, <2>1, <2>2 DEF CreateExperiment, PromptInv, TypeOK,
         PinnedIsTheVersion, Snapshots
    <2>4. TypeOK'
      BY <2>1, <2>3, ReturnForgets DEF PromptInv, TypeOK, Versions, Named, Requests,
         Snapshots
    <2>5. \A d \in Clients : pc'[d] # "idle" =>
             pc'[d] = pc[d] /\ seen'[d] = seen[d] /\ request'[d] = request[d]
      BY <2>1, ReturnForgets
    <2>6. OneLock' /\ ReadIsFresh'
      BY <2>1, <2>5 DEF PromptInv, OneLock, ReadIsFresh
    <2>7. MemoryFits'
      BY <2>1, <2>5 DEF PromptInv, MemoryFits, Versions, Requests, Named
    <2>. QED BY <2>1, <2>3, <2>4, <2>5, <2>6, <2>7, MemoryStepKeepsInv
           DEF PromptInv, TypeOK
  <1>. QED BY <1>1, <1>2, <1>3, <1>4, <1>5, <1>6, <1>7, <1>8, <1>9, <1>10
         DEF Next, Handler

-----------------------------------------------------------------------------

(* The prompt's rows and the handlers always hold values of their types. *)
THEOREM PromptTypes == Spec => []TypeOK
  <1>1. Init => PromptInv
    BY InitInv
  <1>2. PromptInv /\ [Next]_vars => PromptInv'
    BY StepInv
  <1>3. PromptInv => TypeOK
    BY DEF PromptInv
  <1>. QED BY <1>1, <1>2, <1>3, PTL DEF Spec

(* Releases, rollbacks and new versions, in whatever order, leave the       *)
(* versions numbered from 1 without gaps, the current one among them.      *)
THEOREM NoGaps == Spec => []NumberedWithoutGaps
  <1>1. Init => PromptInv
    BY InitInv
  <1>2. PromptInv /\ [Next]_vars => PromptInv'
    BY StepInv
  <1>3. PromptInv => NumberedWithoutGaps
    BY DEF PromptInv
  <1>. QED BY <1>1, <1>2, <1>3, PTL DEF Spec

(* The row lock keeps the current version a handler has read current until  *)
(* the handler commits.                                                    *)
THEOREM LockIsExclusive == Spec => []ReadIsFresh
  <1>1. Init => PromptInv
    BY InitInv
  <1>2. PromptInv /\ [Next]_vars => PromptInv'
    BY StepInv
  <1>3. PromptInv => ReadIsFresh
    BY DEF PromptInv
  <1>. QED BY <1>1, <1>2, <1>3, PTL DEF Spec

(* An experiment's snapshot says what its prompt version says, for ever.    *)
THEOREM PinsAreFaithful == Spec => []PinnedIsTheVersion
  <1>1. Init => PromptInv
    BY InitInv
  <1>2. PromptInv /\ [Next]_vars => PromptInv'
    BY StepInv
  <1>3. PromptInv => PinnedIsTheVersion
    BY DEF PromptInv
  <1>. QED BY <1>1, <1>2, <1>3, PTL DEF Spec

(* A committed version is never overwritten. *)
THEOREM VersionsAreFinal == Spec => VersionIsFinal
  <1>. DEFINE Kept == \A v \in Rows : content'[v] = content[v]
  <1>1. Init => PromptInv
    BY InitInv
  <1>2. PromptInv /\ [Next]_vars => PromptInv'
    BY StepInv
  <1>3. ASSUME PromptInv, [Next]_vars
        PROVE  [Kept]_vars
    <2>1. CASE UNCHANGED vars
      BY <2>1
    <2>2. ASSUME NEW c \in Clients, CreatePrompt(c)
          PROVE  Kept
      BY <1>3, <2>2 DEF CreatePrompt, PromptInv
    <2>3. ASSUME NEW c \in Clients, CreatePromptVersion(c)
          PROVE  Kept
      <3>1. request[c].content \in Contents
        BY <1>3, <2>3 DEF CreatePromptVersion, PromptInv, MemoryFits, Requests
      <3>. QED BY <1>3, <2>3, <3>1, AddVersionExtends DEF CreatePromptVersion
    <2>4. ASSUME NEW c \in Clients, RollbackPrompt(c)
          PROVE  Kept
      <3>1. content[request[c].version] \in Contents
        BY <1>3, <2>4 DEF RollbackPrompt, PromptInv, TypeOK, Rows
      <3>. QED BY <1>3, <2>4, <3>1, AddVersionExtends DEF RollbackPrompt
    <2>5. ASSUME NEW c \in Clients,
                 \/ UpdatePrompt(c) \/ LockPrompt(c) \/ ReleasePrompt(c)
                 \/ EndTransaction(c) \/ ResolvePromptBinding(c)
                 \/ CreateExperiment(c)
          PROVE  Kept
      BY <2>5 DEF UpdatePrompt, LockPrompt, ReleasePrompt, EndTransaction,
         ResolvePromptBinding, CreateExperiment, prompt
    <2>. QED BY <1>3, <2>1, <2>2, <2>3, <2>4, <2>5 DEF Next, Handler
  <1>. QED BY <1>1, <1>2, <1>3, PTL DEF Spec, VersionIsFinal
=============================================================================
