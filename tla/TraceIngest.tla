----------------------------- MODULE TraceIngest -----------------------------
(***************************************************************************)
(* How a trace reaches the stores: POST /traces produces one message per   *)
(* trace to Kafka, and the trace consumer writes every message to MinIO,   *)
(* then its trace row and its span rows to ClickHouse, and commits it,     *)
(* whether or not that succeeded.                                          *)
(*                                                                         *)
(* Every call to Kafka or to a store is an action of its own. A call that  *)
(* fails may have taken effect. Rows carry nothing but the message they    *)
(* were made from, and are counted because ClickHouse keeps duplicates.    *)
(* Payload keys also carry the day, which only ever keeps payloads apart.  *)
(* There is one consumer process at a time.                                *)
(***************************************************************************)
EXTENDS Naturals, Sequences, FiniteSets, Functions

CONSTANTS Traces,      \* trace ids
          Spans,       \* span ids
          Messages,    \* what clients say of traces: records of MessageType
          Clients,     \* requests the trace service handles at the same time
          Partitions,  \* of the topic
          MaxBatch,    \* bound: traces of one request
          MaxLog,      \* bound: messages of one partition
          MaxFaults,   \* bound: calls that fail
          MaxRestarts  \* bound: times the consumer starts from the committed offsets

MessageType == [trace : Traces, spans : SUBSET Spans]

ASSUME ConstantsAssumption ==
    /\ Messages \subseteq MessageType
    /\ MaxBatch \in Nat /\ MaxLog \in Nat
    /\ MaxFaults \in Nat /\ MaxRestarts \in Nat

VARIABLES
    sent,        \* the request each handler works on
    left,        \* what each handler has still to produce
    accepted,    \* messages of requests that were answered with 200
    topic,       \* the log of each partition
    committed,   \* the committed offset of each partition
    position,    \* the consumer's own offset in each partition
    pc,          \* what the consumer does next
    current,     \* partition and offset of the message it works on
    payload,     \* MinIO: {} or the one message stored for a trace
    traceRows,   \* ClickHouse: how many trace rows each message has
    spanRows,    \* ClickHouse: how often its spans have been inserted
    logged,      \* the messages whose processing error was logged
    faults, restarts

service == <<sent, left, accepted>>
consumer == <<committed, position, pc, current>>
stores == <<payload, traceRows, spanRows>>
vars == <<service, topic, consumer, stores, logged, faults, restarts>>

Offsets == Partitions \X (1..MaxLog)

Init ==
    /\ sent = [c \in Clients |-> <<>>]
    /\ left = [c \in Clients |-> <<>>]
    /\ accepted = {}
    /\ topic = [p \in Partitions |-> <<>>]
    /\ committed = [p \in Partitions |-> 0]
    /\ position = [p \in Partitions |-> 0]
    /\ pc = "fetch"
    /\ current = {}
    /\ payload = [t \in Traces |-> {}]
    /\ traceRows = [m \in Messages |-> 0]
    /\ spanRows = [m \in Messages |-> 0]
    /\ logged = {}
    /\ faults = 0 /\ restarts = 0

Fault == faults < MaxFaults /\ faults' = faults + 1

-----------------------------------------------------------------------------
(* Trace service: BatchIngest.                                             *)

\* A client sends traces, for the first time or again.
Send(c) ==
    /\ left[c] = <<>>
    /\ \E n \in 1..MaxBatch : \E request \in [1..n -> Messages] :
          /\ sent' = [sent EXCEPT ![c] = request]
          /\ left' = [left EXCEPT ![c] = request]
    /\ UNCHANGED <<accepted, topic, consumer, stores, logged, faults, restarts>>

\* The balancer picks any partition, whatever the key.
AppendToLog(m) ==
    \E p \in Partitions :
        /\ Len(topic[p]) < MaxLog
        /\ topic' = [topic EXCEPT ![p] = Append(@, m)]

Return(c) ==
    /\ sent' = [sent EXCEPT ![c] = <<>>]
    /\ left' = [left EXCEPT ![c] = <<>>]

\* The handler of c goes on; the last message of a request ends it with 200.
GoOn(c) ==
    IF Len(left[c]) > 1
    THEN left' = [left EXCEPT ![c] = Tail(@)] /\ UNCHANGED <<sent, accepted>>
    ELSE accepted' = accepted \cup Range(sent[c]) /\ Return(c)

Produce(c) ==
    /\ left[c] # <<>>
    /\ AppendToLog(Head(left[c]))
    /\ GoOn(c)
    /\ UNCHANGED <<consumer, stores, logged, faults, restarts>>

\* Mutant: a message that cannot be produced is skipped.
ProduceFailsSkips(c) ==
    /\ left[c] # <<>> /\ Fault
    /\ GoOn(c)
    /\ UNCHANGED <<topic, consumer, stores, logged, restarts>>

\* Kafka does not acknowledge a message it may have: the writer tries again,
\* or the request ends with an error and what it has produced stays.
ProduceFails(c) ==
    /\ left[c] # <<>> /\ Fault
    /\ AppendToLog(Head(left[c])) \/ UNCHANGED topic
    /\ Return(c) \/ UNCHANGED <<sent, left>>
    /\ UNCHANGED <<accepted, consumer, stores, logged, restarts>>

-----------------------------------------------------------------------------
(* Trace consumer: main and Process.                                       *)

At(o) == topic[o[1]][o[2]]

GoTo(next) == pc' = next /\ UNCHANGED <<committed, position, current>>

FetchMessage ==
    /\ pc = "fetch"
    /\ \E p \in Partitions :
          /\ position[p] < Len(topic[p])
          /\ position' = [position EXCEPT ![p] = @ + 1]
          /\ current' = {<<p, position[p] + 1>>}
    /\ pc' = "put"
    /\ UNCHANGED <<service, topic, committed, stores, logged, faults, restarts>>

\* The writes of Process, each with the step that follows it.
PutPayload(m) ==
    /\ pc = "put"
    /\ payload' = [payload EXCEPT ![m.trace] = {m}]
    /\ UNCHANGED <<traceRows, spanRows>>

InsertTrace(m) ==
    /\ pc = "insertTrace"
    /\ traceRows' = [traceRows EXCEPT ![m] = @ + 1]
    /\ UNCHANGED <<payload, spanRows>>

InsertSpans(m) ==
    /\ pc = "insertSpans"
    /\ spanRows' = [spanRows EXCEPT ![m] = @ + 1]
    /\ UNCHANGED <<payload, traceRows>>

Write(m) == PutPayload(m) \/ InsertTrace(m) \/ InsertSpans(m)

Following(m) ==
    CASE pc = "put" -> "insertTrace"
      [] pc = "insertTrace" /\ m.spans # {} -> "insertSpans"
      [] OTHER -> "commit"

Process ==
    \E o \in current :
        /\ Write(At(o))
        /\ GoTo(Following(At(o)))
        /\ UNCHANGED <<service, topic, logged, faults, restarts>>

\* Mutant: the error is logged and the next write is tried.
ProcessFailsGoesOn ==
    /\ pc \in {"put", "insertTrace", "insertSpans"} /\ Fault
    /\ \E o \in current :
          /\ Write(At(o)) \/ UNCHANGED stores
          /\ GoTo(Following(At(o)))
    /\ logged' = logged \cup current
    /\ UNCHANGED <<service, topic, restarts>>

\* Mutant: the write that failed is tried again.
ProcessFailsRetries ==
    /\ pc \in {"put", "insertTrace", "insertSpans"} /\ Fault
    /\ \E o \in current : Write(At(o)) \/ UNCHANGED stores
    /\ logged' = logged \cup current
    /\ GoTo(pc)
    /\ UNCHANGED <<service, topic, restarts>>

\* The error is logged and the message committed: what Process had still to
\* write is given up.
ProcessFails ==
    /\ pc \in {"put", "insertTrace", "insertSpans"} /\ Fault
    /\ \E o \in current : Write(At(o)) \/ UNCHANGED stores
    /\ logged' = logged \cup current
    /\ GoTo("commit")
    /\ UNCHANGED <<service, topic, restarts>>

\* Mutant: the offset behind the next message is committed.
CommitNext ==
    \E o \in current : committed' = [committed EXCEPT ![o[1]] = o[2] + 1]

CommitCurrent ==
    \E o \in current : committed' = [committed EXCEPT ![o[1]] = o[2]]

CommitMessages ==
    /\ pc = "commit"
    /\ CommitCurrent
    /\ pc' = "fetch" /\ current' = {}
    /\ UNCHANGED <<service, topic, position, stores, logged, faults, restarts>>

\* The error is logged and the consumer goes on behind the message.
CommitFails ==
    /\ pc = "commit" /\ Fault
    /\ CommitCurrent \/ UNCHANGED committed
    /\ pc' = "fetch" /\ current' = {}
    /\ UNCHANGED <<service, topic, position, stores, logged, restarts>>

MayRestart == restarts < MaxRestarts /\ restarts' = restarts + 1

\* The reader loses its place in the group and joins it again, in the middle
\* of a message or not; it reads on from the committed offsets.
Rejoin ==
    /\ MayRestart
    /\ position' = committed
    /\ UNCHANGED <<service, topic, committed, pc, current, stores, logged, faults>>

\* Mutant: a new process goes on where the last one was.
RestartKeepsPosition ==
    /\ MayRestart
    /\ pc' = "fetch" /\ current' = {}
    /\ UNCHANGED <<service, topic, committed, position, stores, logged, faults>>

\* Mutant: a new process reads what is produced from now on.
RestartAtEnd ==
    /\ MayRestart
    /\ pc' = "fetch" /\ current' = {}
    /\ position' = [p \in Partitions |-> Len(topic[p])]
    /\ UNCHANGED <<service, topic, committed, stores, logged, faults>>

\* The process dies, or is told to stop, and is started again.
Restart ==
    /\ MayRestart
    /\ pc' = "fetch" /\ current' = {}
    /\ position' = committed
    /\ UNCHANGED <<service, topic, committed, stores, logged, faults>>

-----------------------------------------------------------------------------

Consume == FetchMessage \/ Process \/ CommitMessages

Next ==
    \/ \E c \in Clients : Send(c) \/ Produce(c) \/ ProduceFails(c)
    \/ Consume
    \/ ProcessFails \/ CommitFails
    \/ Rejoin \/ Restart

Spec == Init /\ [][Next]_vars

\* The consumer reads for ever and its calls have timeouts.
FairSpec == Spec /\ WF_vars(Consume)

-----------------------------------------------------------------------------
(* Properties.                                                             *)

\* Requests, log, consumer and rows hold values the code can give them.
TypeOK ==
    /\ sent \in [Clients -> Seq(Messages)]
    /\ left \in [Clients -> Seq(Messages)]
    /\ accepted \in SUBSET Messages
    /\ topic \in [Partitions -> Seq(Messages)]
    /\ \A p \in Partitions : Len(topic[p]) <= MaxLog
    /\ committed \in [Partitions -> 0..MaxLog]
    /\ position \in [Partitions -> 0..MaxLog]
    /\ pc \in {"fetch", "put", "insertTrace", "insertSpans", "commit"}
    /\ current \in SUBSET Offsets
    /\ payload \in [Traces -> SUBSET Messages]
    /\ traceRows \in [Messages -> Nat]
    /\ spanRows \in [Messages -> Nat]
    /\ logged \in SUBSET Offsets
    /\ faults \in 0..MaxFaults
    /\ restarts \in 0..MaxRestarts

\* A trace that the service answered with 200 is in the log, whatever failed
\* between its request and the answer (BatchIngest, Produce).
AcceptedIsProduced ==
    \A m \in accepted : \E p \in Partitions : \E i \in DOMAIN topic[p] :
        topic[p][i] = m

\* A message is in every store.
Stored(m) ==
    /\ payload[m.trace] # {}
    /\ traceRows[m] > 0
    /\ m.spans # {} => spanRows[m] > 0

Handled(p, i) == Stored(topic[p][i]) \/ <<p, i>> \in logged

\* The consumer never commits past a message that it has neither stored nor
\* reported: restarts, rejoining and failed commits repeat work and skip none.
CommittedIsHandled ==
    \A p \in Partitions : \A i \in 1..committed[p] :
        i \in DOMAIN topic[p] /\ Handled(p, i)

\* The payload that a trace row or a span row points to has every span of it,
\* although a write may fail or be repeated at any time. This takes clients
\* that send a trace whole (WholeTraces).
PayloadCoversSpans ==
    \A m \in Messages : traceRows[m] + spanRows[m] > 0 =>
        \E n \in payload[m.trace] : m.spans \subseteq n.spans

Copies(m) ==
    Cardinality({o \in Offsets : o[2] \in DOMAIN topic[o[1]] /\ At(o) = m})

\* Duplicate trace rows have a cause: a message produced once gets a second
\* one only after a restart.
TraceRowsAreBacked ==
    \A m \in Messages : traceRows[m] <= Copies(m) * (1 + restarts)

\* Spans are never in ClickHouse without, or more often than, their trace.
SpansHaveTrace == \A m \in Messages : spanRows[m] <= traceRows[m]

\* Every message that was produced is stored or reported in the end, however
\* often the consumer restarts on the way.
MessageSettles ==
    \A p \in Partitions : \A i \in 1..MaxLog :
        i \in DOMAIN topic[p] ~> i \in DOMAIN topic[p] /\ Handled(p, i)

\* Every trace is sent as a whole, again or not.
WholeTraces == \A m, n \in Messages : m.trace = n.trace => m = n
=============================================================================
