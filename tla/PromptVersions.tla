--------------------------- MODULE PromptVersions ---------------------------
(***************************************************************************)
(* One prompt of the evaluation engine: its numbered versions, the release *)
(* that moves the current version, and the copies that experiments pin.    *)
(*                                                                         *)
(* A handler that writes locks the prompt's row (SELECT ... FOR UPDATE),   *)
(* reads, writes and commits. Readers take no lock and see what has been   *)
(* committed, so what a transaction writes becomes visible in one step,    *)
(* its commit. Creating an experiment reads the prompt in one connection   *)
(* and stores what it has read later, in another.                          *)
(***************************************************************************)
EXTENDS Integers

CONSTANTS Clients,    \* requests the service handles at the same time
          Contents,   \* what a version can say (templates, schema, config)
          NoRow,      \* there is no row for this version
          MaxVersion  \* bound: prompt_versions.version

ASSUME VersionAssumption ==
    /\ NoRow \notin Contents
    /\ MaxVersion \in Nat \ {0}

VARIABLES
    current,   \* prompts.current_version; 0 while there is no prompt
    status,    \* prompts.status
    content,   \* the prompt_versions rows
    released,  \* the versions prompt_releases has rows for
    pinned,    \* the prompt snapshots of the stored experiments
    pc,        \* where each handler is
    request,   \* what each handler was asked for
    seen       \* what each handler has read

prompt == <<current, status, content, released>>
vars == <<prompt, pinned, pc, request, seen>>

Versions == 1..MaxVersion
Statuses == {"draft", "active", "archived"}
Rows == {v \in Versions : content[v] # NoRow}
HasPrompt == current # 0

\* The version a request names; 0 is none, or none that can exist.
Named == 0..MaxVersion
Requests ==
         [kind : {"version"}, content : Contents]
    \cup [kind : {"rollback", "release"}, version : Named]

Snapshots == [version : Versions, content : Contents]

Nothing == [kind |-> "none"]

Init ==
    /\ current = 0 /\ status = "draft"
    /\ content = [v \in Versions |-> NoRow]
    /\ released = {} /\ pinned = {}
    /\ pc = [c \in Clients |-> "idle"]
    /\ request = [c \in Clients |-> Nothing]
    /\ seen = [c \in Clients |-> Nothing]

-----------------------------------------------------------------------------

CreatePrompt(c) ==
    /\ pc[c] = "idle" /\ ~HasPrompt
    /\ \E body \in Contents, s \in Statuses :
          /\ content' = [content EXCEPT ![1] = body]
          /\ status' = s
          /\ released' = IF s = "active" THEN {1} ELSE {}
    /\ current' = 1
    /\ UNCHANGED <<pinned, pc, request, seen>>

\* Nobody has the prompt's row locked.
Unlocked == \A c \in Clients : pc[c] # "locked"

\* One UPDATE, which waits for the row's lock; it writes no release.
UpdatePrompt(c) ==
    /\ pc[c] = "idle" /\ HasPrompt /\ Unlocked
    /\ status' \in Statuses
    /\ UNCHANGED <<current, content, released, pinned, pc, request, seen>>

\* Mutant: the row is read without being locked.
LockPromptReadsOnly(c) ==
    /\ pc[c] = "idle" /\ HasPrompt
    /\ \E r \in Requests : request' = [request EXCEPT ![c] = r]
    /\ pc' = [pc EXCEPT ![c] = "locked"]
    /\ seen' = [seen EXCEPT ![c] = [kind |-> "current", version |-> current]]
    /\ UNCHANGED <<prompt, pinned>>

\* SELECT current_version ... FOR UPDATE.
LockPrompt(c) ==
    /\ pc[c] = "idle" /\ HasPrompt /\ Unlocked
    /\ \E r \in Requests : request' = [request EXCEPT ![c] = r]
    /\ pc' = [pc EXCEPT ![c] = "locked"]
    /\ seen' = [seen EXCEPT ![c] = [kind |-> "current", version |-> current]]
    /\ UNCHANGED <<prompt, pinned>>

Return(c) ==
    /\ pc' = [pc EXCEPT ![c] = "idle"]
    /\ request' = [request EXCEPT ![c] = Nothing]
    /\ seen' = [seen EXCEPT ![c] = Nothing]

\* Mutant: an INSERT that meets a row of its version overwrites it.
AddVersionUpserts(c, body) ==
    LET next == seen[c].version + 1 IN
    /\ next \in Versions
    /\ content' = [content EXCEPT ![next] = body]
    /\ current' = next

\* INSERT the version after the current one and make it current. The INSERT
\* fails, and the transaction with it, when there is such a row.
AddVersion(c, body) ==
    LET next == seen[c].version + 1 IN
    /\ next \in Versions \ Rows
    /\ content' = [content EXCEPT ![next] = body]
    /\ current' = next

CreatePromptVersion(c) ==
    /\ pc[c] = "locked" /\ request[c].kind = "version"
    /\ AddVersion(c, request[c].content)
    /\ Return(c)
    /\ UNCHANGED <<status, released, pinned>>

RollbackPrompt(c) ==
    /\ pc[c] = "locked" /\ request[c].kind = "rollback"
    /\ request[c].version \in Rows
    /\ AddVersion(c, content[request[c].version])
    /\ Return(c)
    /\ UNCHANGED <<status, released, pinned>>

\* A release that names no version is of the current one.
ReleaseTarget(c) ==
    IF request[c].version = 0 THEN seen[c].version ELSE request[c].version

\* Mutant: the version is not looked up before it is released.
ReleasePromptUnchecked(c) ==
    /\ pc[c] = "locked" /\ request[c].kind = "release"
    /\ current' = ReleaseTarget(c) /\ status' = "active"
    /\ released' = released \cup {ReleaseTarget(c)}
    /\ Return(c)
    /\ UNCHANGED <<content, pinned>>

ReleasePrompt(c) ==
    /\ pc[c] = "locked" /\ request[c].kind = "release"
    /\ ReleaseTarget(c) \in Rows
    /\ current' = ReleaseTarget(c) /\ status' = "active"
    /\ released' = released \cup {ReleaseTarget(c)}
    /\ Return(c)
    /\ UNCHANGED <<content, pinned>>

\* The transaction ends without a write: its version is missing, its INSERT
\* fails, its connection is lost or the service dies.
EndTransaction(c) ==
    /\ pc[c] = "locked"
    /\ Return(c)
    /\ UNCHANGED <<prompt, pinned>>

\* Mutant: a version that is missing is bound as if it were empty.
ResolvePromptBindingUnchecked(c) ==
    /\ pc[c] = "idle" /\ HasPrompt
    /\ \E v \in Versions :
          seen' = [seen EXCEPT ![c] =
                     [kind |-> "snapshot", version |-> v, content |-> content[v]]]
    /\ pc' = [pc EXCEPT ![c] = "resolved"]
    /\ UNCHANGED <<prompt, pinned, request>>

\* POST /experiments resolves its prompt_ref, to the current version when it
\* names none ...
ResolvePromptBinding(c) ==
    /\ pc[c] = "idle" /\ HasPrompt
    /\ \E asked \in Named :
          LET v == IF asked = 0 THEN current ELSE asked IN
          /\ v \in Rows
          /\ seen' = [seen EXCEPT ![c] =
                        [kind |-> "snapshot", version |-> v, content |-> content[v]]]
    /\ pc' = [pc EXCEPT ![c] = "resolved"]
    /\ UNCHANGED <<prompt, pinned, request>>

\* Mutant: the reference is resolved again when the experiment is stored.
CreateExperimentResolvesAgain(c) ==
    /\ pc[c] = "resolved"
    /\ pinned' = pinned \cup {[version |-> current, content |-> seen[c].content]}
    /\ Return(c)
    /\ UNCHANGED prompt

\* ... and stores the experiment with the snapshot, or fails.
CreateExperiment(c) ==
    /\ pc[c] = "resolved"
    /\ \/ pinned' = pinned \cup {[version |-> seen[c].version,
                                 content |-> seen[c].content]}
       \/ UNCHANGED pinned
    /\ Return(c)
    /\ UNCHANGED prompt

-----------------------------------------------------------------------------

Handler(c) ==
    \/ CreatePrompt(c) \/ UpdatePrompt(c) \/ LockPrompt(c)
    \/ CreatePromptVersion(c) \/ RollbackPrompt(c) \/ ReleasePrompt(c)
    \/ EndTransaction(c)
    \/ ResolvePromptBinding(c) \/ CreateExperiment(c)

Next == \E c \in Clients : Handler(c)

Spec == Init /\ [][Next]_vars

-----------------------------------------------------------------------------
(* Properties.                                                             *)

\* The prompt's rows and the handlers hold values the code can give them.
TypeOK ==
    /\ current \in Named
    /\ status \in Statuses
    /\ content \in [Versions -> Contents \cup {NoRow}]
    /\ released \in SUBSET Versions
    /\ pinned \in SUBSET Snapshots
    /\ pc \in [Clients -> {"idle", "locked", "resolved"}]
    /\ request \in [Clients -> Requests \cup {Nothing}]
    /\ seen \in [Clients -> [kind : {"current"}, version : Versions]
                       \cup [kind : {"snapshot"}, version : Versions,
                             content : Contents]
                       \cup {Nothing}]

\* However releases move the current version back and forth, the versions
\* are numbered without gaps and the current one is among them, so that
\* every join on current_version finds its row.
NumberedWithoutGaps ==
    /\ HasPrompt => current \in Rows
    /\ \A v \in Rows : \A w \in 1..v : w \in Rows

\* A handler numbers its version after the version that is still current
\* when it commits: between its read and its commit nobody moves it.
ReadIsFresh ==
    \A c \in Clients : pc[c] = "locked" => seen[c].version = current

\* What a version says never changes once it has been committed.
VersionIsFinal ==
    [][\A v \in Rows : content'[v] = content[v]]_vars

\* An experiment's snapshot says what the version it names says, although
\* the prompt may have moved on between its reading and its storing, or
\* since.
PinnedIsTheVersion ==
    \A p \in pinned : content[p.version] = p.content

\* A new version can always be made: the number after the current version
\* is free.
NextVersionIsFree ==
    HasPrompt /\ current < MaxVersion => current + 1 \notin Rows
=============================================================================
